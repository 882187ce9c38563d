------------------------------- MODULE Store -------------------------------
(***************************************************************************)
(* bin/tracker/src/store.rs: the SQLite file with the tables `matches` and *)
(* `cursor`.  Every write of the tracker is one SQLite transaction: it is  *)
(* opened by apply_block or undo_tx, runs its statements one at a time on  *)
(* a private copy and is published by COMMIT.  A process that dies before  *)
(* COMMIT leaves the file as it was.                                       *)
(***************************************************************************)
EXTENDS Chain

VARIABLES
    db,     \* the committed file: [rows, cursor]
    txn     \* the open transaction: [rows, todo, cursor], or None

storeVars == <<db, txn>>

Transactions ==
    [rows : SUBSET Rows, todo : SUBSET Rows, cursor : Points \cup {None}]

StoreInit ==
    /\ db = [rows |-> {}, cursor |-> None]
    /\ txn = None

(* Variant: UNIQUE(source_name). *)
SameKeyOfSource(r, s) == r.source = s.source

(* Two rows collide on UNIQUE(tx_hash, source_name). *)
SameKey(r, s) == r.tx = s.tx /\ r.source = s.source

(* INSERT OR IGNORE of one row. *)
InsertOrIgnore(R, r) == IF \E s \in R : SameKey(r, s) THEN R ELSE R \cup {r}

(* Store::apply_block opens its transaction: `rows` are still to be         *)
(* inserted, the cursor is upserted last.                                   *)
BeginApplyBlock(cursor, rows) ==
    /\ txn = None
    /\ txn' = [rows |-> db.rows, todo |-> rows, cursor |-> cursor]
    /\ db' = db

(* Variant: the cursor is rewound and the rows are kept. *)
BeginUndoTxKeepingRows(t, parent) ==
    /\ txn = None
    /\ txn' = [rows |-> db.rows, todo |-> {}, cursor |-> parent]
    /\ db' = db

(* Store::undo_tx: DELETE every row of the transaction, then upsert the     *)
(* cursor to the parent, or DELETE the cursor when there is none.           *)
BeginUndoTx(t, parent) ==
    /\ txn = None
    /\ txn' = [rows |-> db.rows \ RowsOf(db.rows, t), todo |-> {}, cursor |-> parent]
    /\ db' = db

(* Variant: each INSERT commits on its own. *)
InsertRowAutocommit ==
    /\ txn # None
    /\ \E r \in txn.todo :
         /\ txn' = [txn EXCEPT !.rows = InsertOrIgnore(@, r), !.todo = @ \ {r}]
         /\ db' = [db EXCEPT !.rows = InsertOrIgnore(@, r)]

(* One iteration of `for row in &rows { stmt.execute(..) }`. *)
InsertRow ==
    /\ txn # None
    /\ \E r \in txn.todo :
         txn' = [txn EXCEPT !.rows = InsertOrIgnore(@, r), !.todo = @ \ {r}]
    /\ db' = db

(* The cursor statement and tx.commit(). *)
Commit ==
    /\ txn # None
    /\ txn.todo = {}
    /\ db' = [rows |-> txn.rows, cursor |-> txn.cursor]
    /\ txn' = None

(* The process dies: SQLite discards whatever was not committed. *)
LoseConnection ==
    /\ txn' = None
    /\ db' = db

StoreTypeOK ==
    /\ db \in [rows : SUBSET Rows, cursor : Points \cup {None}]
    /\ txn \in Transactions \cup {None}
=============================================================================
