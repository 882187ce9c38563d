--------------------------- MODULE TrackerProofs ---------------------------
(***************************************************************************)
(* Proofs about Tracker for every block tree, every set of sources, every  *)
(* behaviour of the node and any number of crashes: the type invariant,    *)
(* that the rows of a transaction are stored all together or not at all,   *)
(* and the schedule of the delays between two connections.  Then, for      *)
(* every tree of forks in which a block that may be taken back has one     *)
(* transaction of interest at most: whatever is interrupted, crashes or    *)
(* cannot be read, the cursor brackets the table, a caught-up tracker      *)
(* holds the matches of the node's chain and no others, and it implements  *)
(* Follower.  For blocks of any number of transactions the same holds as   *)
(* long as no session ends in the middle of an undo.                       *)
(***************************************************************************)
EXTENDS Tracker, FiniteSetTheorems, TLAPS

(* A table in which every transaction but those of `except` has all its     *)
(* rows, under one block, or none.                                          *)
WholeIn(R, t) ==
    \/ RowsOf(R, t) = {}
    \/ \E b \in Blocks : RowsOf(R, t) = MatchRows(b, t)

Whole(R) == \A t \in Txs : WholeIn(R, t)

(* The open transaction writes the rows of t for block b: either t was      *)
(* unknown, and what is not in `todo` any more has been inserted, or t was  *)
(* stored already, and every insert is ignored.                             *)
Writes(w, b, t) ==
    /\ w.todo \subseteq MatchRows(b, t)
    /\ \A u \in Txs \ {t} : WholeIn(w.rows, u)
    /\ \/ RowsOf(w.rows, t) = MatchRows(b, t) \ w.todo
       \/ \E x \in Blocks : RowsOf(w.rows, t) = MatchRows(x, t)

TxnInv ==
    txn # None =>
        \/ txn.todo = {} /\ Whole(txn.rows)
        \/ \E b \in Blocks, t \in Txs : Writes(txn, b, t)

IInv == TypeOK /\ AllOrNothing /\ TxnInv

-----------------------------------------------------------------------------
(* Types *)

LEMMA GenesisAssumed == Genesis \in Blocks /\ Parent \in [Blocks \ {Genesis} -> Blocks]
  BY BlockTreeAssumption

LEMMA PointType == ASSUME NEW b \in Blocks PROVE Point(b) \in Points
  BY BlockTreeAssumption DEF Point, Points

LEMMA ParentPointType ==
    ASSUME NEW b \in Blocks PROVE ParentPoint(b) \in Points \cup {None}
  BY BlockTreeAssumption DEF ParentPoint, Points

LEMMA MatchRowsType ==
    ASSUME NEW b \in Blocks, NEW t \in Txs PROVE MatchRows(b, t) \subseteq Rows
  BY ContentsAssumption DEF MatchRows, Rows

LEMMA CountType == ASSUME NEW b \in Blocks PROVE Count(b) \in Nat
  BY ContentsAssumption DEF Count

LEMMA PositionType ==
    ASSUME NEW b \in Blocks, NEW n \in Nat PROVE Position(b, n) \in Sessions
  BY DEF Position, Sessions

LEMMA SendTypeOK ==
    ASSUME UpstreamTypeOK, NEW x, SendApply(x) \/ SendUndo(x) \/ SendIdle(x)
    PROVE  UpstreamTypeOK' /\ sess' # None
<1>1. /\ tip \in Blocks /\ tip' = tip
      /\ sess \in Sessions /\ sess.at \in Blocks /\ sess.done \in Nat
      /\ sess.done <= Count(sess.at)
      /\ Count(sess.at) \in Nat
  BY CountType DEF UpstreamTypeOK, SendApply, SendUndo, SendIdle, Complete, Sessions
<1>2. CASE SendApply(x)
  <2>1. sess' = [sess EXCEPT !.done = @ + 1] /\ sess.done < Count(sess.at)
    BY <1>2 DEF SendApply
  <2>2. sess' \in Sessions /\ sess'.at = sess.at /\ sess'.done = sess.done + 1
    BY <1>1, <2>1 DEF Sessions
  <2> QED
    BY <1>1, <2>1, <2>2, NoneAssumption DEF UpstreamTypeOK, Count
<1>3. CASE SendUndo(x)
  <2>1. sess' = [sess EXCEPT !.done = @ - 1, !.back = TRUE] /\ sess.done > 0
    BY <1>3 DEF SendUndo
  <2>2. sess.done - 1 \in Nat
    BY <1>1, <2>1
  <2>3. sess' \in Sessions /\ sess'.at = sess.at /\ sess'.done = sess.done - 1
    BY <1>1, <2>1, <2>2 DEF Sessions
  <2> QED
    BY <1>1, <2>1, <2>2, <2>3, NoneAssumption DEF UpstreamTypeOK, Count
<1>4. CASE SendIdle(x)
  <2>1. PICK b \in Blocks : sess' = Position(b, 0)
    BY <1>4 DEF SendIdle
  <2> QED
    BY <1>1, <2>1, PositionType, CountType, NoneAssumption
    DEF UpstreamTypeOK, Position, Count
<1> QED
  BY <1>2, <1>3, <1>4

LEMMA OpenTypeOK ==
    ASSUME UpstreamTypeOK, NEW p \in Points \cup {None}, OpenSession(p)
    PROVE  UpstreamTypeOK' /\ sess' # None
<1> DEFINE Opened(b, n, back) ==
        /\ b \in Blocks /\ n \in Nat /\ n <= Count(b) /\ back \in BOOLEAN
        /\ sess' = [at |-> b, done |-> n, back |-> back]
<1>1. \E b, n, back : Opened(b, n, back)
  <2>1. CASE p = None
    <3>1. tip \in Blocks /\ Count(tip) \in Nat
      BY CountType DEF UpstreamTypeOK
    <3>2. Opened(tip, Count(tip), FALSE)
      BY <2>1, <3>1 DEF OpenSession, Position
    <3> QED
      BY <3>2
  <2>2. CASE p # None
    <3>1. p.hash \in Blocks /\ Count(p.hash) \in Nat
      BY <2>2, CountType DEF Points
    <3>2. CASE OnChain(p.hash)
      <4>1. Opened(p.hash, 0, FALSE)
        BY <2>2, <3>1, <3>2 DEF OpenSession, Position
      <4> QED
        BY <4>1
    <3>3. CASE ~OnChain(p.hash)
      <4>1. Opened(p.hash, Count(p.hash), TRUE)
        BY <2>2, <3>1, <3>3 DEF OpenSession, Position
      <4> QED
        BY <4>1
    <3> QED
      BY <3>2, <3>3
  <2> QED
    BY <2>1, <2>2
<1>2. tip' = tip
  BY DEF OpenSession
<1> QED
  BY <1>1, <1>2, NoneAssumption DEF UpstreamTypeOK, Sessions, Count

LEMMA MoveTypeOK ==
    ASSUME UpstreamTypeOK, EnterBlock \/ LeaveBlock
    PROVE  UpstreamTypeOK' /\ sess' # None /\ sess # None
<1>1. tip' = tip /\ sess # None
  BY DEF EnterBlock, LeaveBlock, Complete
<1>2. \E b \in Blocks, n \in Nat : n <= Count(b) /\ sess' = Position(b, n)
  <2>1. CASE EnterBlock
    BY <2>1, CountType DEF EnterBlock
  <2>2. CASE LeaveBlock
    <3>1. Parent[sess.at] \in Blocks
      BY <2>2, GenesisAssumed DEF LeaveBlock, UpstreamTypeOK, Sessions
    <3> QED
      BY <2>2, <3>1, CountType DEF LeaveBlock
  <2> QED
    BY <2>1, <2>2
<1> QED
  BY <1>1, <1>2, PositionType, NoneAssumption DEF UpstreamTypeOK, Position, Count

LEMMA BeginApplyTypeOK ==
    ASSUME StoreTypeOK, NEW p \in Points, NEW R \in SUBSET Rows, BeginApplyBlock(p, R)
    PROVE  StoreTypeOK' /\ txn' # None
  BY NoneAssumption DEF BeginApplyBlock, StoreTypeOK, Transactions

LEMMA BeginUndoTypeOK ==
    ASSUME StoreTypeOK, NEW p \in Points \cup {None}, NEW t, BeginUndoTx(t, p)
    PROVE  StoreTypeOK' /\ txn' # None
<1>1. txn' \in Transactions
  BY DEF BeginUndoTx, StoreTypeOK, Transactions
<1> QED
  BY <1>1, NoneAssumption DEF BeginUndoTx, StoreTypeOK

LEMMA InsertTypeOK ==
    ASSUME StoreTypeOK, InsertRow
    PROVE  StoreTypeOK' /\ txn' # None /\ txn # None
<1>1. txn \in Transactions /\ txn # None
  BY DEF InsertRow, StoreTypeOK
<1>2. PICK r \in txn.todo :
        txn' = [txn EXCEPT !.rows = InsertOrIgnore(@, r), !.todo = @ \ {r}]
  BY DEF InsertRow
<1>3. InsertOrIgnore(txn.rows, r) \in SUBSET Rows
  BY <1>1, <1>2 DEF InsertOrIgnore, Transactions
<1>4. txn' \in Transactions
  BY <1>1, <1>2, <1>3 DEF Transactions
<1> QED
  BY <1>1, <1>4, NoneAssumption DEF StoreTypeOK, InsertRow

LEMMA InitTypeOK == Init => TypeOK
<1> SUFFICES ASSUME Init PROVE TypeOK
  OBVIOUS
<1>1. StoreTypeOK
  BY DEF Init, StoreInit, StoreTypeOK
<1>2. UpstreamTypeOK
  BY GenesisAssumed DEF Init, UpstreamInit, UpstreamTypeOK
<1>3. /\ pc = "crashed" /\ event = None /\ request = None /\ txn = None /\ sess = None
      /\ signalled = FALSE /\ backoff = InitialDelay /\ delay = 0 /\ misses = 0
      /\ origin = Blocks
  BY DEF Init, StoreInit, UpstreamInit
<1> QED
  BY <1>1, <1>2, <1>3, TrackerAssumption DEF TypeOK, Running, Exited

(* Each action keeps the types, and keeps event, transaction and session    *)
(* present exactly in the states TypeOK says.                               *)
LEMMA NextTypeOK == TypeOK /\ [Next]_vars => TypeOK'
<1> SUFFICES ASSUME TypeOK, [Next]_vars PROVE TypeOK'
  OBVIOUS
<1> USE NoneAssumption DEF TypeOK, StoreTypeOK, UpstreamTypeOK, storeVars, upstreamVars,
        processVars, backoffVars, Running, Exited, Goto
<1> DEFINE Quiet == /\ backoff' \in Nat /\ delay' \in Nat /\ misses' \in Nat
<1>1. ResetBackoff => Quiet
  BY TrackerAssumption DEF ResetBackoff
<1>2. NextDelay => Quiet
  BY TrackerAssumption DEF NextDelay, AtMost
<1>3. CASE Start
  BY <1>1, <1>3 DEF Start
<1>4. CASE ReadCursor
  BY <1>4, PointType, TrackerAssumption DEF ReadCursor
<1>5. CASE ConnectOk
  BY <1>5 DEF ConnectOk
<1>6. ASSUME NEW here \in {"connect", "subscribe", "stream"}, Reconnect(here) PROVE TypeOK'
  BY <1>2, <1>6 DEF Reconnect, CloseSession
<1>7. ASSUME NEW here \in {"subscribe", "stream", "sleep", "handle"},
             NEW status \in {"stopped", "failed"}, Exit(here, status)
      PROVE TypeOK'
  BY <1>7 DEF Exit, CloseSession
<1>8. CASE ConnectFails
  BY <1>6, <1>8 DEF ConnectFails
<1>9. CASE SubscribeOk
  <2>1. UpstreamTypeOK' /\ sess' # None
    BY <1>9, OpenTypeOK DEF SubscribeOk
  <2>2. origin' \in SUBSET Blocks
    <3>1. request # None => request.hash \in Blocks
      BY DEF Points
    <3>2. \A x \in Blocks : Ancestors[x] \subseteq Blocks
      BY DEF Ancestors
    <3> QED
      BY <1>9, <3>1, <3>2 DEF SubscribeOk
  <2> QED
    BY <1>9, <2>1, <2>2 DEF SubscribeOk
<1>10. CASE SubscribeRefused
  BY <1>7, <1>10 DEF SubscribeRefused
<1>11. CASE StatusError
  BY <1>6, <1>7, <1>11 DEF StatusError
<1>12. CASE Receive
  <2>1. PICK x \in Events : (SendApply(x) \/ SendUndo(x) \/ SendIdle(x)) /\ event' = x
    BY <1>12 DEF Receive
  <2>2. UpstreamTypeOK' /\ sess' # None
    BY <2>1, SendTypeOK
  <2> QED
    BY <1>1, <1>12, <2>1, <2>2 DEF Receive
<1>13. CASE StreamClosed
  BY <1>6, <1>13 DEF StreamClosed
<1>14. CASE Shutdown
  BY <1>7, <1>14 DEF Shutdown
<1>15. CASE SleepEnds
  BY <1>15 DEF SleepEnds
<1>16. CASE HandleApply
  <2>1. event.block \in Blocks /\ event.tx \in Txs
    BY <1>16 DEF HandleApply, Dropped, Events
  <2>2. StoreTypeOK' /\ txn' # None
    BY <1>16, <2>1, PointType, MatchRowsType, BeginApplyTypeOK DEF HandleApply
  <2> QED
    BY <1>16, <2>2 DEF HandleApply
<1>17. CASE HandleFails
  BY <1>7, <1>17 DEF HandleFails
<1>18. CASE HandleNothing
  BY <1>18 DEF HandleNothing
<1>19. CASE HandleUndo
  <2>1. event.block \in Blocks
    BY <1>19 DEF HandleUndo, Events
  <2>2. StoreTypeOK' /\ txn' # None
    BY <1>19, <2>1, ParentPointType, BeginUndoTypeOK DEF HandleUndo
  <2> QED
    BY <1>19, <2>2 DEF HandleUndo
<1>20. CASE StoreRow
  BY <1>20, InsertTypeOK DEF StoreRow
<1>21. CASE StoreCommit
  BY <1>21 DEF StoreCommit, Commit, Transactions
<1>22. CASE Signal
  BY <1>22 DEF Signal
<1>23. CASE Crash
  BY <1>1, <1>23 DEF Crash, LoseConnection, CloseSession
<1>24. CASE NodeAdopts
  BY <1>24 DEF NodeAdopts, AdoptBlock
<1>25. CASE NodeMoves
  <2>1. UpstreamTypeOK' /\ sess' # None /\ sess # None
    BY <1>25, MoveTypeOK DEF NodeMoves
  <2> QED
    BY <1>25, <2>1 DEF NodeMoves
<1>26. CASE UNCHANGED vars
  BY <1>26 DEF vars
<1>27. CASE StoreFails
  BY <1>27 DEF StoreFails, LoseConnection, CloseSession
<1> QED
  BY <1>3, <1>4, <1>5, <1>8, <1>9, <1>10, <1>11, <1>12, <1>13, <1>14, <1>15, <1>16, <1>17,
     <1>18, <1>19, <1>20, <1>21, <1>22, <1>23, <1>24, <1>25, <1>26, <1>27
  DEF Next, Work, Interruption

(* TypeOK holds in every reachable state. *)
THEOREM TypeCorrect == Spec => []TypeOK
<1>1. Init => TypeOK
  BY InitTypeOK
<1>2. TypeOK /\ [Next]_vars => TypeOK'
  BY NextTypeOK
<1> QED
  BY <1>1, <1>2, PTL DEF Spec

-----------------------------------------------------------------------------
(* All or nothing *)

LEMMA SameRow ==
    ASSUME NEW b \in Blocks, NEW t \in Txs, NEW r \in MatchRows(b, t),
           NEW s \in MatchRows(b, t), SameKey(r, s)
    PROVE  r = s
  BY DEF MatchRows, SameKey

(* One INSERT OR IGNORE of apply_block's loop: a row that collides is one   *)
(* of an earlier copy of the whole transaction, never of this one.          *)
LEMMA InsertKeepsWrites ==
    ASSUME NEW w \in Transactions, NEW b \in Blocks, NEW t \in Txs,
           Writes(w, b, t), NEW r \in w.todo, NEW v,
           v.rows = InsertOrIgnore(w.rows, r), v.todo = w.todo \ {r}
    PROVE  Writes(v, b, t)
<1>1. /\ r \in MatchRows(b, t) /\ r.tx = t /\ r.source \in MatchedBy[t]
      /\ v.todo \subseteq MatchRows(b, t)
  BY DEF Writes, MatchRows
<1>2. CASE \E s \in w.rows : SameKey(r, s)
  <2>1. v.rows = w.rows
    BY <1>2 DEF InsertOrIgnore
  <2>2. PICK s \in RowsOf(w.rows, t) : SameKey(r, s)
    BY <1>1, <1>2 DEF RowsOf, SameKey
  <2>3. RowsOf(w.rows, t) # MatchRows(b, t) \ w.todo
    BY <1>1, <2>2, SameRow
  <2> QED
    BY <1>1, <2>1, <2>3 DEF Writes
<1>3. CASE ~\E s \in w.rows : SameKey(r, s)
  <2>1. v.rows = w.rows \cup {r}
    BY <1>3 DEF InsertOrIgnore
  <2>2. RowsOf(v.rows, t) = RowsOf(w.rows, t) \cup {r}
    BY <1>1, <2>1 DEF RowsOf
  <2>3. \A u \in Txs \ {t} : RowsOf(v.rows, u) = RowsOf(w.rows, u)
    BY <1>1, <2>1 DEF RowsOf
  <2>4. ASSUME NEW x \in Blocks PROVE RowsOf(w.rows, t) # MatchRows(x, t)
    <3>1. [tx |-> t, source |-> r.source, block |-> x] \in MatchRows(x, t)
      BY <1>1 DEF MatchRows
    <3>2. SameKey(r, [tx |-> t, source |-> r.source, block |-> x])
      BY <1>1 DEF SameKey
    <3> QED
      BY <1>3, <3>1, <3>2 DEF RowsOf
  <2>5. RowsOf(v.rows, t) = MatchRows(b, t) \ v.todo
    BY <1>1, <2>2, <2>4 DEF Writes
  <2> QED
    BY <1>1, <2>3, <2>5 DEF Writes, WholeIn
<1> QED
  BY <1>2, <1>3

LEMMA WrittenIsWhole ==
    ASSUME NEW w, NEW b \in Blocks, NEW t \in Txs, Writes(w, b, t), w.todo = {}
    PROVE  Whole(w.rows)
  BY DEF Writes, Whole, WholeIn

LEMMA UndoneIsWhole ==
    ASSUME NEW R, NEW t \in Txs, Whole(R)
    PROVE  Whole(R \ RowsOf(R, t))
<1>1. RowsOf(R \ RowsOf(R, t), t) = {}
  BY DEF RowsOf
<1>2. ASSUME NEW u \in Txs, u # t PROVE RowsOf(R \ RowsOf(R, t), u) = RowsOf(R, u)
  BY <1>2 DEF RowsOf
<1> QED
  BY <1>1, <1>2 DEF Whole, WholeIn

LEMMA AllOrNothingIsWhole == AllOrNothing <=> Whole(db.rows)
  BY DEF AllOrNothing, Whole, WholeIn

LEMMA InitIInv == Init => IInv
<1> SUFFICES ASSUME Init PROVE AllOrNothing /\ TxnInv
  BY InitTypeOK DEF IInv
<1>1. AllOrNothing
  BY DEF Init, StoreInit, AllOrNothing, RowsOf
<1> QED
  BY <1>1 DEF Init, StoreInit, TxnInv

(* A step that leaves the store alone, or forgets its transaction. *)
LEMMA QuietStore ==
    ASSUME AllOrNothing, TxnInv, db' = db, txn' = txn \/ txn' = None
    PROVE  AllOrNothing' /\ TxnInv'
<1>1. AllOrNothing'
  BY DEF AllOrNothing
<1>2. TxnInv'
  BY DEF TxnInv
<1> QED
  BY <1>1, <1>2

LEMMA NextIInv == IInv /\ [Next]_vars => IInv'
<1> SUFFICES ASSUME IInv, [Next]_vars PROVE AllOrNothing' /\ TxnInv'
  BY NextTypeOK DEF IInv
<1> USE DEF IInv
<1>1. CASE HandleApply
  <2> DEFINE b == event.block
             t == event.tx
  <2>1. b \in Blocks /\ t \in Txs /\ BeginApplyBlock(Point(b), MatchRows(b, t))
    BY <1>1, NoneAssumption DEF HandleApply, Goto, TypeOK, Events
  <2> HIDE DEF b, t
  <2>2. AllOrNothing'
    BY <2>1 DEF BeginApplyBlock, AllOrNothing
  <2>3. Whole(db.rows)
    BY AllOrNothingIsWhole
  <2>4. Writes(txn', b, t)
    BY <2>1, <2>3 DEF BeginApplyBlock, Writes, Whole, WholeIn
  <2> QED
    BY <2>1, <2>2, <2>4 DEF TxnInv
<1>2. CASE HandleUndo
  <2> DEFINE t == event.tx
  <2>1. t \in Txs
    BY <1>2 DEF HandleUndo, Goto, TypeOK, Events
  <2>2. PICK p : BeginUndoTx(t, p)
    BY <1>2 DEF HandleUndo
  <2> HIDE DEF t
  <2>3. AllOrNothing'
    BY <2>2 DEF BeginUndoTx, AllOrNothing
  <2>4. Whole(txn'.rows) /\ txn'.todo = {}
    BY <2>1, <2>2, AllOrNothingIsWhole, UndoneIsWhole DEF BeginUndoTx
  <2> QED
    BY <2>3, <2>4 DEF TxnInv
<1>3. CASE StoreRow
  <2>1. txn # None /\ txn \in Transactions /\ db' = db
    BY <1>3 DEF StoreRow, InsertRow, TypeOK, StoreTypeOK
  <2>2. PICK r \in txn.todo :
          txn' = [txn EXCEPT !.rows = InsertOrIgnore(@, r), !.todo = @ \ {r}]
    BY <1>3 DEF StoreRow, InsertRow
  <2>3. PICK b \in Blocks, t \in Txs : Writes(txn, b, t)
    BY <2>1, <2>2 DEF TxnInv
  <2>4. txn'.rows = InsertOrIgnore(txn.rows, r) /\ txn'.todo = txn.todo \ {r}
    BY <2>1, <2>2 DEF Transactions
  <2>5. Writes(txn', b, t)
    BY <2>1, <2>2, <2>3, <2>4, InsertKeepsWrites
  <2>6. AllOrNothing'
    BY <2>1 DEF AllOrNothing
  <2> QED
    BY <2>5, <2>6 DEF TxnInv
<1>4. CASE StoreCommit
  <2>1. txn # None /\ txn.todo = {} /\ txn' = None /\ db'.rows = txn.rows
    BY <1>4 DEF StoreCommit, Commit
  <2>2. Whole(db'.rows)
    BY <2>1, WrittenIsWhole DEF TxnInv
  <2> QED
    BY <2>1, <2>2 DEF TxnInv, AllOrNothing, Whole, WholeIn
<1>5. CASE Crash \/ StoreFails
  BY <1>5, QuietStore DEF Crash, StoreFails, LoseConnection
<1>6. CASE UNCHANGED storeVars
  BY <1>6, QuietStore DEF storeVars
<1>7. \/ HandleApply \/ HandleUndo \/ StoreRow \/ StoreCommit \/ Crash \/ StoreFails
      \/ UNCHANGED storeVars
  BY DEF Next, Work, Interruption, Start, ReadCursor, ConnectOk, SubscribeOk,
     SubscribeRefused, Receive, Shutdown, SleepEnds, HandleFails, HandleNothing,
     ConnectFails, StatusError, StreamClosed, Reconnect, Exit, Signal, NodeAdopts,
     NodeMoves, vars, storeVars
<1> QED
  BY <1>1, <1>2, <1>3, <1>4, <1>5, <1>6, <1>7

(* AllOrNothing holds in every reachable state: however often a transaction *)
(* is replayed, undone or cut off by a crash, the file has all its rows     *)
(* under one block or none of them.                                         *)
THEOREM AllOrNothingHolds == Spec => []AllOrNothing
<1>1. Init => IInv
  BY InitIInv
<1>2. IInv /\ [Next]_vars => IInv'
  BY NextIInv
<1>3. IInv => AllOrNothing
  BY DEF IInv
<1> QED
  BY <1>1, <1>2, <1>3, PTL DEF Spec

-----------------------------------------------------------------------------
(* The backoff *)

(* Powers of two count subsets: one element more, twice the subsets.        *)
LEMMA PowerDoubles ==
    ASSUME NEW n \in Nat
    PROVE  2^n \in Nat /\ 2^(n + 1) = 2 * 2^n
<1> DEFINE A == SUBSET (1 .. n)
           f == [s \in A |-> s \cup {n + 1}]
           B == {s \cup {n + 1} : s \in A}
<1>1. \A m \in Nat : IsFiniteSet(SUBSET (1 .. m)) /\ Cardinality(SUBSET (1 .. m)) = 2^m
  <2> SUFFICES ASSUME NEW m \in Nat
               PROVE  IsFiniteSet(SUBSET (1 .. m)) /\ Cardinality(SUBSET (1 .. m)) = 2^m
    OBVIOUS
  <2>1. IsFiniteSet(1 .. m) /\ Cardinality(1 .. m) = IF 1 > m THEN 0 ELSE m - 1 + 1
    <3>1. 1 \in Int /\ m \in Int
      OBVIOUS
    <3> QED
      BY <3>1, FS_Interval
  <2>2. Cardinality(1 .. m) = m
    BY <2>1
  <2> QED
    BY <2>1, <2>2, FS_SUBSET
<1>2. f \in Bijection(A, B)
  <2>1. f \in [A -> B]
    OBVIOUS
  <2>2. \A s, t \in A : f[s] = f[t] => s = t
    <3> SUFFICES ASSUME NEW s \in A, NEW t \in A, s \cup {n + 1} = t \cup {n + 1} PROVE s = t
      OBVIOUS
    <3>1. n + 1 \notin s /\ n + 1 \notin t
      OBVIOUS
    <3> HIDE DEF A
    <3> QED
      BY <3>1
  <2>3. \A u \in B : \E s \in A : f[s] = u
    OBVIOUS
  <2> QED
    BY <2>1, <2>2, <2>3 DEF Bijection, Injection, Surjection, IsInjective
<1>3. IsFiniteSet(B) /\ Cardinality(B) = Cardinality(A)
  <2> HIDE DEF A, B, f
  <2>1. IsFiniteSet(A) /\ ExistsBijection(A, B)
    BY <1>1, <1>2 DEF ExistsBijection, A
  <2> QED
    BY <2>1, FS_Bijection
<1>4. A \cap B = {}
  <2> SUFFICES ASSUME NEW s \in A, s \in B PROVE FALSE
    OBVIOUS
  <2>1. n + 1 \in s /\ s \subseteq 1 .. n
    OBVIOUS
  <2> QED
    BY <2>1
<1>5. A \cup B = SUBSET (1 .. (n + 1))
  <2>1. 1 .. (n + 1) = (1 .. n) \cup {n + 1}
    OBVIOUS
  <2>2. ASSUME NEW s \in SUBSET ((1 .. n) \cup {n + 1}), n + 1 \in s PROVE s \in B
    <3>1. s \ {n + 1} \in A /\ s = (s \ {n + 1}) \cup {n + 1}
      BY <2>2
    <3> QED
      BY <3>1
  <2>3. ASSUME NEW s \in SUBSET ((1 .. n) \cup {n + 1}), n + 1 \notin s PROVE s \in A
    BY <2>3
  <2>4. A \cup B \subseteq SUBSET ((1 .. n) \cup {n + 1})
    OBVIOUS
  <2> HIDE DEF A, B
  <2> QED
    BY <2>1, <2>2, <2>3, <2>4
<1>6. Cardinality(A \cup B) = Cardinality(A) + Cardinality(B) - Cardinality(A \cap B)
  <2>1. IsFiniteSet(A)
    BY <1>1
  <2> HIDE DEF A, B
  <2> QED
    BY <1>3, <2>1, FS_Union
<1>7. Cardinality(A) = 2^n /\ Cardinality(A \cup B) = 2^(n + 1) /\ Cardinality(A) \in Nat
  <2>1. Cardinality(SUBSET (1 .. (n + 1))) = 2^(n + 1)
    BY <1>1
  <2>2. Cardinality(A) = 2^n /\ IsFiniteSet(A)
    BY <1>1
  <2> HIDE DEF A, B
  <2> QED
    BY <1>5, <2>1, <2>2, FS_CardinalityType
<1> HIDE DEF A, B
<1>8. Cardinality(A \cap B) = 0
  BY <1>4, FS_EmptySet
<1> QED
  BY <1>3, <1>6, <1>7, <1>8

(* The history counts the delays for as long as they grow: the bound of the *)
(* counter, which the code does not have, is no bound on the schedule.      *)
CountsLongEnough == MissCap # 0 /\ MaxDelay <= InitialDelay * 2^(MissCap - 1)

(* The delay after n delays. *)
After(n) == AtMost(InitialDelay * 2^n, MaxDelay)

(* What the backoff holds at every step: the delay it will hand out next,   *)
(* and, while the loop sleeps, that it has handed out the one before.       *)
BackoffInv ==
    /\ misses \in 0 .. MissCap
    /\ backoff = After(misses)
    /\ pc = "sleep" => misses > 0 /\ delay = After(misses - 1)

LEMMA AfterOneMore ==
    ASSUME NEW n \in Nat
    PROVE  After(n) \in Nat /\ After(n + 1) = AtMost(2 * After(n), MaxDelay)
<1> DEFINE x == InitialDelay * 2^n
<1>1. InitialDelay \in Nat /\ MaxDelay \in Nat /\ 2^n \in Nat /\ 2^(n + 1) = 2 * 2^n
  BY TrackerAssumption, PowerDoubles
<1>2. x \in Nat /\ InitialDelay * 2^(n + 1) = 2 * x
  <2> DEFINE y == 2^n
  <2>1. y \in Nat /\ 2^(n + 1) = 2 * y
    BY <1>1
  <2> HIDE DEF y
  <2>2. InitialDelay * y \in Nat /\ InitialDelay * (2 * y) = 2 * (InitialDelay * y)
    BY <1>1, <2>1
  <2> QED
    BY <2>1, <2>2 DEF y
<1> HIDE DEF x
<1>3. After(n) = AtMost(x, MaxDelay) /\ After(n + 1) = AtMost(2 * x, MaxDelay)
  BY <1>2 DEF After, x
<1> QED
  BY <1>1, <1>2, <1>3 DEF AtMost

LEMMA CapIsReached == CountsLongEnough => After(MissCap - 1) = MaxDelay /\ After(MissCap) = MaxDelay
<1> SUFFICES ASSUME CountsLongEnough PROVE After(MissCap - 1) = MaxDelay /\ After(MissCap) = MaxDelay
  OBVIOUS
<1>1. MissCap - 1 \in Nat /\ MissCap = (MissCap - 1) + 1 /\ MaxDelay \in Nat /\ InitialDelay \in Nat
  BY TrackerAssumption DEF CountsLongEnough
<1>2. InitialDelay * 2^(MissCap - 1) \in Nat
  BY <1>1, PowerDoubles
<1>3. After(MissCap - 1) = MaxDelay
  BY <1>1, <1>2 DEF After, AtMost, CountsLongEnough
<1>4. After(MissCap) = AtMost(2 * MaxDelay, MaxDelay)
  BY <1>1, <1>3, AfterOneMore
<1> QED
  BY <1>1, <1>3, <1>4 DEF AtMost

LEMMA ResetSchedule ==
    ASSUME ResetBackoff, pc' # "sleep" PROVE BackoffInv'
<1>1. 2^0 = 1
  OBVIOUS
<1>2. After(0) = InitialDelay
  BY <1>1, TrackerAssumption DEF After, AtMost
<1> QED
  BY <1>2, TrackerAssumption DEF ResetBackoff, BackoffInv

LEMMA NextDelaySchedule ==
    ASSUME CountsLongEnough, BackoffInv, NextDelay PROVE BackoffInv'
<1>1. misses \in Nat /\ MissCap \in Nat /\ misses <= MissCap /\ MissCap # 0
  BY TrackerAssumption DEF BackoffInv, CountsLongEnough
<1>2. delay' = After(misses) /\ backoff' = After(misses + 1)
  BY <1>1, AfterOneMore DEF NextDelay, BackoffInv
<1>3. CASE misses < MissCap
  <2>1. misses' = misses + 1
    BY <1>1, <1>3 DEF NextDelay, AtMost
  <2> QED
    BY <1>1, <1>2, <1>3, <2>1 DEF BackoffInv
<1>4. CASE misses = MissCap
  <2>1. misses' = MissCap
    BY <1>1, <1>4 DEF NextDelay, AtMost
  <2>2. MaxDelay \in Nat
    BY TrackerAssumption
  <2>3. After(MissCap + 1) = MaxDelay
    <3>1. After(MissCap + 1) = AtMost(2 * MaxDelay, MaxDelay)
      BY <1>1, CapIsReached, AfterOneMore
    <3> QED
      BY <2>2, <3>1 DEF AtMost
  <2> QED
    BY <1>1, <1>2, <1>4, <2>1, <2>3, CapIsReached DEF BackoffInv
<1> QED
  BY <1>1, <1>3, <1>4

(* The delay before a reconnection is InitialDelay doubled once for every   *)
(* delay taken since the last message, capped at MaxDelay (retry.rs:49-62), *)
(* for any delays and however the session fails: only a message or a new    *)
(* process starts the schedule again.                                       *)
THEOREM BackoffScheduleHolds == ASSUME CountsLongEnough PROVE Spec => []BackoffSchedule
<1>1. Init => BackoffInv
  <2> SUFFICES ASSUME Init PROVE BackoffInv
    OBVIOUS
  <2>1. 2^0 = 1
    OBVIOUS
  <2>2. After(0) = InitialDelay
    BY <2>1, TrackerAssumption DEF After, AtMost
  <2> QED
    BY <2>2, TrackerAssumption DEF Init, BackoffInv
<1>2. BackoffInv /\ [Next]_vars => BackoffInv'
  <2> SUFFICES ASSUME BackoffInv, [Next]_vars PROVE BackoffInv'
    OBVIOUS
  <2>1. CASE Start
    BY <2>1, ResetSchedule DEF Start
  <2>2. CASE Receive
    BY <2>2, ResetSchedule DEF Receive, Goto
  <2>3. CASE Crash
    BY <2>3, ResetSchedule DEF Crash
  <2>4. CASE NextDelay
    BY <2>4, NextDelaySchedule
  <2>5. CASE SleepEnds
    BY <2>5 DEF SleepEnds, Goto, BackoffInv
  <2>6. CASE UNCHANGED <<backoff, delay, misses>> /\ (pc' = "sleep" => pc = "sleep")
    BY <2>6 DEF BackoffInv
  <2>7. Work => Receive \/ SleepEnds
                \/ (UNCHANGED <<backoff, delay, misses>> /\ (pc' = "sleep" => pc = "sleep"))
    BY DEF Work, ReadCursor, ConnectOk, SubscribeOk, SubscribeRefused, Shutdown, HandleApply,
       HandleFails, HandleNothing, HandleUndo, StoreRow, StoreCommit, Exit, Goto, backoffVars,
       processVars
  <2>8. Interruption => Crash \/ NextDelay
                        \/ (UNCHANGED <<backoff, delay, misses>> /\ (pc' = "sleep" => pc = "sleep"))
    BY DEF Interruption, ConnectFails, StatusError, StreamClosed, StoreFails, Reconnect, Exit,
       Goto, backoffVars
  <2>9. Signal \/ NodeAdopts \/ NodeMoves \/ UNCHANGED vars
          => UNCHANGED <<backoff, delay, misses>> /\ (pc' = "sleep" => pc = "sleep")
    BY DEF Signal, NodeAdopts, NodeMoves, backoffVars, processVars, vars
  <2> QED
    BY <2>1, <2>2, <2>3, <2>4, <2>5, <2>6, <2>7, <2>8, <2>9 DEF Next
<1>3. BackoffInv => BackoffSchedule
  BY DEF BackoffInv, BackoffSchedule, After
<1> QED
  BY <1>1, <1>2, <1>3, PTL DEF Spec
-----------------------------------------------------------------------------
(* A chain whose forks the tracker follows *)

(* A block that is on every fork, at or above the tip: the node never takes *)
(* it back once it has it.                                                  *)
Final(x) == \A y \in Blocks : x \in Ancestors[y] \/ y \in Ancestors[x]

(* A block that may be taken back has one transaction of interest at most.  *)
Single == \A b \in Blocks : Count(b) > 1 => Final(b)

(* The forks: no transaction occurs twice on one chain, though it may on    *)
(* two; the configured intersect is on every fork and the node can find it  *)
(* (a node that undoes a block it does not know yet would begin below it);  *)
(* events carry bytes, and one without a Cardano body is alone in a block    *)
(* that may be taken back.                                                  *)
Forking ==
    /\ IsFiniteSet(Blocks)
    /\ \A b \in Blocks : \A x, y \in Ancestors[b] : \A i \in 1..Count(x), j \in 1..Count(y) :
         TxsOf[x][i] = TxsOf[y][j] => x = y /\ i = j
    /\ Intersect \in Blocks
    /\ Final(Intersect)
    /\ Intersect = Genesis \/ RollsBack = {FALSE}
    /\ NativeBytes = {TRUE}
    /\ Foreign = {} \/ Single

(* What the table must not hold: the blocks below the intersect. *)
Below == Ancestors[Intersect] \ {Intersect}

(* A block from the intersect on, of the node's chain or of a fork the node *)
(* has left; all that is final below it the node still has.                 *)
Followed(b) ==
    /\ Intersect \in Ancestors[b]
    /\ \A x \in Ancestors[b] : Final(x) => OnChain(x)

(* R is what the first k transactions of b leave, where lo <= k. *)
Reaches(R, b, lo) == \E k \in lo..Count(b) : R = RowsUpTo(Below, b, k)

(* The file: without a cursor it is empty, and with one it names a block    *)
(* that the table goes into.                                                *)
Resumable ==
    IF db.cursor = None THEN db.rows = {}
    ELSE /\ origin = Below
         /\ Followed(db.cursor.hash)
         /\ Reaches(db.rows, db.cursor.hash, 0)

(* The first Undo of a block with several transactions rewinds the cursor   *)
(* below the others, which are stored until the last.                       *)
FileInv == Single \/ ~MidUndo => Resumable

(* A session goes on from what the file says. *)
RequestInv ==
    pc \in {"connect", "subscribe"} =>
        request = IF db.cursor = None THEN Point(Intersect) ELSE db.cursor

(* R is what the first k transactions of b leave, where k <= hi. *)
Within(R, b, hi) == \E k \in 0..hi : R = RowsUpTo(Below, b, k)

(* R holds all the node has sent or, while it takes a block back, no more   *)
(* than it has still to undo.                                               *)
Stands(R) ==
    IF sess.back THEN Within(R, sess.at, sess.done) ELSE Reaches(R, sess.at, sess.done)

(* Between two handlers the table holds what the node has sent. *)
SessionInv ==
    sess # None =>
        /\ origin = Below
        /\ Followed(sess.at)
        /\ sess.back => ~Final(sess.at)
        /\ event = None \/ event.kind = "idle" => Stands(db.rows)

(* The node has sent the first i transactions of b and no more, but may     *)
(* have gone on to the next block.                                          *)
SentUpTo(b, i) ==
    /\ ~sess.back
    /\ \/ sess.at = b /\ sess.done = i
       \/ /\ sess.at # Genesis /\ Parent[sess.at] = b /\ i = Count(b)
          /\ sess.done = 0 /\ Count(sess.at) > 0

(* What is written and what is still to be written make up the table before *)
(* the i-th transaction of b, when that was stored already, or after it.    *)
Writing(b, i) ==
    /\ txn.cursor = Point(b)
    /\ LET whole == txn.rows \cup txn.todo IN
       \/ whole = db.rows /\ Reaches(db.rows, b, i)
       \/ db.rows = RowsUpTo(Below, b, i - 1) /\ whole = RowsUpTo(Below, b, i)

(* The event in hand is the last one sent, and all before it is stored. *)
EventAt(i) ==
    /\ event.tx = TxsOf[event.block][i]
    /\ SentUpTo(event.block, i)
    /\ Reaches(db.rows, event.block, i - 1)
    /\ txn # None => Writing(event.block, i)

(* The node has taken back the i-th transaction of b; after the first it    *)
(* may have gone on, over blocks without any.                               *)
TakenBackTo(b, i) ==
    \/ sess.at = b /\ sess.back /\ sess.done = i - 1
    \/ i = 1 /\ RowsUpTo(Below, sess.at, sess.done) = RowsUpTo(Below, b, 0)

(* The table is to lose the i-th transaction of b, its last, or does not    *)
(* hold it.                                                                 *)
Retracting(b, i) ==
    /\ txn.todo = {}
    /\ txn.cursor = ParentPoint(b)
    /\ \/ txn.rows = db.rows /\ Within(db.rows, b, i - 1)
       \/ db.rows = RowsUpTo(Below, b, i) /\ txn.rows = RowsUpTo(Below, b, i - 1)

UndoAt(i) ==
    /\ event.tx = TxsOf[event.block][i]
    /\ TakenBackTo(event.block, i)
    /\ Within(db.rows, event.block, i)
    /\ txn # None => Retracting(event.block, i)

EventInv ==
    event # None =>
        /\ event.kind = "idle" => txn = None
        /\ event.kind # "idle" => event.bytes /\ Followed(event.block)
        /\ event.kind = "apply" => \E i \in 1..Count(event.block) : EventAt(i)
        /\ event.kind = "undo" =>
             /\ ~Final(event.block)
             /\ \E i \in 1..Count(event.block) : UndoAt(i)

ForkInv ==
    /\ TypeOK
    /\ origin \in {Blocks, Below}
    /\ FileInv /\ RequestInv /\ SessionInv /\ EventInv

-----------------------------------------------------------------------------
(* Ancestors *)

LEMMA InAncestors ==
    ASSUME NEW b \in Blocks, NEW a
    PROVE  a \in Ancestors[b] <=>
             /\ a \in Blocks
             /\ \A S \in SUBSET Blocks : b \in S /\ ClosedBelow(S) => a \in S
  BY DEF Ancestors

LEMMA AncestorsSelf == ASSUME NEW b \in Blocks PROVE b \in Ancestors[b]
  BY InAncestors

LEMMA AncestorsClosed == ASSUME NEW b \in Blocks PROVE ClosedBelow(Ancestors[b])
<1> SUFFICES ASSUME NEW x \in Ancestors[b], x # Genesis PROVE Parent[x] \in Ancestors[b]
  BY DEF ClosedBelow
<1>1. x \in Blocks /\ Parent[x] \in Blocks
  BY InAncestors, GenesisAssumed
<1>2. ASSUME NEW S \in SUBSET Blocks, b \in S, ClosedBelow(S) PROVE Parent[x] \in S
  BY <1>2, InAncestors DEF ClosedBelow
<1> QED
  BY <1>1, <1>2, InAncestors

LEMMA AncestorsTrans ==
    ASSUME NEW c \in Blocks, NEW b \in Ancestors[c], NEW a \in Ancestors[b]
    PROVE  a \in Ancestors[c]
  BY InAncestors

LEMMA AncestorsType == ASSUME NEW b \in Blocks PROVE Ancestors[b] \subseteq Blocks
  BY InAncestors

(* The chain of c is that of its parent and c on top. *)
LEMMA AncestorsStep ==
    ASSUME NEW c \in Blocks \ {Genesis}
    PROVE  Ancestors[c] = Ancestors[Parent[c]] \cup {c}
<1> DEFINE p == Parent[c]
<1>1. p \in Blocks
  BY GenesisAssumed
<1>2. p \in Ancestors[c]
  BY AncestorsSelf, AncestorsClosed DEF ClosedBelow
<1>3. Ancestors[p] \cup {c} \subseteq Ancestors[c]
  BY <1>1, <1>2, AncestorsSelf, AncestorsTrans
<1>4. ClosedBelow(Ancestors[p] \cup {c})
  BY <1>1, AncestorsSelf, AncestorsClosed DEF ClosedBelow
<1>5. Ancestors[p] \cup {c} \in SUBSET Blocks
  BY <1>1, AncestorsType
<1> HIDE DEF p
<1>6. ASSUME NEW a \in Ancestors[c] PROVE a \in Ancestors[p] \cup {c}
  BY <1>4, <1>5, InAncestors
<1> QED
  BY <1>3, <1>6 DEF p

(* Slots grow along a chain. *)
LEMMA AncestorsSlot ==
    ASSUME NEW b \in Blocks, NEW a \in Ancestors[b]
    PROVE  a = b \/ Slot[a] < Slot[b]
<1> DEFINE S == {x \in Blocks : x = b \/ Slot[x] < Slot[b]}
<1>1. ASSUME NEW x \in S, x # Genesis PROVE Parent[x] \in S
  <2>1. Parent[x] \in Blocks /\ Slot[Parent[x]] < Slot[x]
    BY <1>1, BlockTreeAssumption
  <2>2. Slot[x] \in Nat /\ Slot[b] \in Nat /\ Slot[Parent[x]] \in Nat
    BY <2>1, BlockTreeAssumption
  <2> QED
    BY <2>1, <2>2
<1>2. b \in S /\ S \in SUBSET Blocks /\ ClosedBelow(S)
  BY <1>1 DEF ClosedBelow
<1> HIDE DEF S
<1>3. a \in S
  BY <1>2, InAncestors
<1> QED
  BY <1>3 DEF S

LEMMA AncestorsAntisymmetric ==
    ASSUME NEW a \in Blocks, NEW b \in Blocks, a \in Ancestors[b], b \in Ancestors[a]
    PROVE  a = b
<1>1. Slot[a] \in Nat /\ Slot[b] \in Nat
  BY BlockTreeAssumption
<1> QED
  BY <1>1, AncestorsSlot

LEMMA GenesisIsBelow ==
    ASSUME Final(Genesis), NEW b \in Blocks PROVE Genesis \in Ancestors[b]
<1>1. ClosedBelow({Genesis}) /\ {Genesis} \in SUBSET Blocks
  BY GenesisAssumed DEF ClosedBelow
<1>2. ASSUME NEW x \in Ancestors[Genesis] PROVE x = Genesis
  BY <1>1, GenesisAssumed, InAncestors
<1> QED
  BY <1>2, GenesisAssumed, AncestorsSelf DEF Final

(* A final block of the node's chain stays there, whatever fork it adopts. *)
LEMMA FinalStays ==
    ASSUME Forking, tip \in Blocks, AdoptBlock, NEW x \in Ancestors[tip], Final(x)
    PROVE  x \in Ancestors[tip']
<1>1. tip' \in Blocks /\ Height(tip') > Height(tip)
  BY DEF AdoptBlock
<1>2. CASE tip' \in Ancestors[x]
  <2>1. Ancestors[tip'] \subseteq Ancestors[tip]
    BY <1>1, <1>2, AncestorsType, AncestorsTrans
  <2>2. IsFiniteSet(Ancestors[tip])
    BY AncestorsType, FS_Subset DEF Forking
  <2>3. Cardinality(Ancestors[tip']) <= Cardinality(Ancestors[tip])
    BY <2>1, <2>2, FS_Subset
  <2>4. Cardinality(Ancestors[tip']) \in Nat /\ Cardinality(Ancestors[tip]) \in Nat
    BY <2>1, <2>2, FS_Subset, FS_CardinalityType
  <2> QED
    BY <1>1, <2>3, <2>4 DEF Height
<1> QED
  BY <1>1, <1>2 DEF Final

LEMMA FollowedStays ==
    ASSUME Forking, tip \in Blocks, AdoptBlock, NEW b \in Blocks, Followed(b)
    PROVE  Followed(b)'
<1>1. ASSUME NEW x \in Ancestors[b], Final(x) PROVE OnChain(x)'
  BY <1>1, FinalStays DEF Followed, OnChain
<1> QED
  BY <1>1 DEF Followed

(* What the chain of b says of b holds of the blocks below it. *)
LEMMA FollowedNext ==
    ASSUME NEW b \in Blocks, NEW c \in Blocks, Followed(b), tip \in Blocks, IsNext(c, b)
    PROVE  Followed(c)
<1>1. Intersect \in Ancestors[c]
  BY AncestorsStep DEF Followed, IsNext
<1>2. \A x \in Ancestors[c] : OnChain(x)
  BY AncestorsTrans DEF IsNext, OnChain
<1> QED
  BY <1>1, <1>2 DEF Followed

LEMMA FollowedOnChain ==
    ASSUME tip \in Blocks, NEW b \in Blocks, OnChain(b), Intersect \in Ancestors[b]
    PROVE  Followed(b)
  BY AncestorsTrans DEF Followed, OnChain

(* A block that is not final is above the intersect, and so is its parent. *)
LEMMA FollowedParent ==
    ASSUME Forking, NEW b \in Blocks, Followed(b), ~Final(b)
    PROVE  b # Genesis /\ Parent[b] \in Blocks /\ Followed(Parent[b])
<1>1. b # Intersect
  BY DEF Forking
<1>2. b # Genesis
  <2> SUFFICES ASSUME b = Genesis PROVE FALSE
    OBVIOUS
  <2>1. ClosedBelow({Genesis}) /\ {Genesis} \in SUBSET Blocks
    BY GenesisAssumed DEF ClosedBelow
  <2>2. Intersect \in {Genesis}
    BY <2>1, InAncestors DEF Followed
  <2> QED
    BY <1>1, <2>2
<1>3. Parent[b] \in Blocks /\ Ancestors[b] = Ancestors[Parent[b]] \cup {b}
  BY <1>2, GenesisAssumed, AncestorsStep
<1> QED
  BY <1>1, <1>2, <1>3 DEF Followed

(* A block that left the chain is not final. *)
LEMMA FollowedOff ==
    ASSUME NEW b \in Blocks, Followed(b), ~OnChain(b) PROVE ~Final(b)
  BY AncestorsSelf DEF Followed

-----------------------------------------------------------------------------
(* RowsUpTo *)

(* A block of the chain from the intersect on is not below the intersect. *)
LEMMA NotBelow ==
    ASSUME Forking, NEW b \in Blocks, Intersect \in Ancestors[b] PROVE b \notin Below
  BY AncestorsAntisymmetric DEF Below, Forking

LEMMA BelowIsPartial == ASSUME Forking PROVE Below # Blocks /\ Below \in SUBSET Blocks
  BY AncestorsType DEF Below, Forking

(* The rows below b. *)
LEMMA RowsFromBlock ==
    ASSUME Forking, NEW b \in Blocks, Intersect \in Ancestors[b], NEW n
    PROVE  RowsUpTo(Below, b, n) =
             RowsIn(b, n) \cup UNION {RowsIn(x, Len(TxsOf[x])) : x \in (Ancestors[b] \ Below) \ {b}}
  BY NotBelow, AncestorsSelf DEF RowsUpTo

LEMMA RowsNone == ASSUME NEW b PROVE RowsIn(b, 0) = {}
  BY DEF RowsIn

(* One transaction more. *)
LEMMA RowsInStep ==
    ASSUME NEW b, NEW n \in Nat \ {0}
    PROVE  RowsIn(b, n) = RowsIn(b, n - 1) \cup MatchRows(b, TxsOf[b][n])
<1>1. 1..n = 1..(n - 1) \cup {n}
  OBVIOUS
<1> QED
  BY <1>1 DEF RowsIn

LEMMA RowsStep ==
    ASSUME Forking, NEW b \in Blocks, Intersect \in Ancestors[b], NEW n \in Nat \ {0}
    PROVE  RowsUpTo(Below, b, n) =
             RowsUpTo(Below, b, n - 1) \cup MatchRows(b, TxsOf[b][n])
  BY RowsFromBlock, RowsInStep

LEMMA RowsGrow ==
    ASSUME Forking, NEW b \in Blocks, Intersect \in Ancestors[b],
           NEW n \in Nat, NEW m \in Nat, n <= m
    PROVE  RowsUpTo(Below, b, n) \subseteq RowsUpTo(Below, b, m)
<1>1. RowsIn(b, n) \subseteq RowsIn(b, m)
  BY DEF RowsIn
<1> QED
  BY <1>1, RowsFromBlock

(* Nothing of a block and all of its parent are the same rows. *)
LEMMA RowsNextBlock ==
    ASSUME NEW c \in Blocks \ {Genesis}
    PROVE  RowsUpTo(Below, c, 0) = RowsUpTo(Below, Parent[c], Count(Parent[c]))
<1> DEFINE p == Parent[c]
           above(b) == Ancestors[b] \ Below
           all(S) == UNION {RowsIn(x, Len(TxsOf[x])) : x \in S}
<1>1. p \in Blocks /\ Slot[p] < Slot[c] /\ Slot[p] \in Nat /\ Slot[c] \in Nat
  BY BlockTreeAssumption
<1>2. c \notin Ancestors[p]
  BY <1>1, AncestorsSlot
<1>3. above(c) \ {c} = above(p)
  BY <1>2, AncestorsStep
<1>4. RowsUpTo(Below, c, 0) = all(above(p))
  BY <1>3, RowsNone DEF RowsUpTo
<1>5. RowsUpTo(Below, p, Count(p)) = all(above(p))
  <2>1. CASE p \in above(p)
    <3>1. all(above(p)) = RowsIn(p, Len(TxsOf[p])) \cup all(above(p) \ {p})
      BY <2>1
    <3> QED
      BY <2>1, <3>1 DEF RowsUpTo, Count
  <2>2. CASE p \notin above(p)
    BY <2>2 DEF RowsUpTo
  <2> QED
    BY <2>1, <2>2
<1> QED
  BY <1>4, <1>5

(* Nothing of the intersect block is no row at all. *)
LEMMA RowsAtIntersect ==
    ASSUME Forking PROVE RowsUpTo(Below, Intersect, 0) = {}
<1>1. (Ancestors[Intersect] \ Below) \ {Intersect} = {}
  BY DEF Below
<1> QED
  BY <1>1, RowsNone DEF RowsUpTo

(* Every row of the chain of b belongs to one transaction of one block. *)
LEMMA RowsOwner ==
    ASSUME Forking, NEW b \in Blocks, Intersect \in Ancestors[b], NEW n \in 0..Count(b),
           NEW q \in RowsUpTo(Below, b, n)
    PROVE  \E x \in Ancestors[b] : \E i \in 1..Count(x) : q \in MatchRows(x, TxsOf[x][i])
<1>1. CASE q \in RowsIn(b, n)
  <2>1. PICK i \in 1..n : q \in MatchRows(b, TxsOf[b][i])
    BY <1>1 DEF RowsIn
  <2>2. i \in 1..Count(b)
    BY CountType
  <2> QED
    BY <2>1, <2>2, AncestorsSelf
<1>2. ASSUME NEW x \in Ancestors[b], q \in RowsIn(x, Len(TxsOf[x]))
      PROVE  \E i \in 1..Count(x) : q \in MatchRows(x, TxsOf[x][i])
  BY <1>2 DEF RowsIn, Count
<1> QED
  BY <1>1, <1>2, RowsFromBlock

(* No two rows of the chain have the same key. *)
LEMMA RowsDistinct ==
    ASSUME Forking, NEW b \in Blocks, Intersect \in Ancestors[b], NEW n \in 0..Count(b),
           NEW r \in RowsUpTo(Below, b, n), NEW s \in RowsUpTo(Below, b, n), SameKey(r, s)
    PROVE  r = s
<1>1. PICK x \in Ancestors[b] : \E i \in 1..Count(x) : r \in MatchRows(x, TxsOf[x][i])
  BY RowsOwner
<1>2. PICK y \in Ancestors[b] : \E j \in 1..Count(y) : s \in MatchRows(y, TxsOf[y][j])
  BY RowsOwner
<1>3. PICK i \in 1..Count(x) : r \in MatchRows(x, TxsOf[x][i])
  BY <1>1
<1>4. PICK j \in 1..Count(y) : s \in MatchRows(y, TxsOf[y][j])
  BY <1>2
<1>5. x = y /\ i = j
  <2>1. TxsOf[x][i] = TxsOf[y][j]
    BY <1>3, <1>4 DEF SameKey, MatchRows
  <2> QED
    BY <1>3, <1>4, <2>1 DEF Forking
<1>6. x \in Blocks /\ TxsOf[x][i] \in Txs
  BY <1>3, AncestorsType, ContentsAssumption DEF Count
<1> QED
  BY <1>3, <1>4, <1>5, <1>6, SameRow

(* No row of the first m transactions of b is one of a later transaction. *)
LEMMA RowsEarlier ==
    ASSUME Forking, NEW b \in Blocks, Intersect \in Ancestors[b], NEW i \in 1..Count(b),
           NEW m \in 0..(i - 1), NEW q \in RowsUpTo(Below, b, m)
    PROVE  q.tx # TxsOf[b][i]
<1>1. b \in Ancestors[b] /\ Count(b) \in Nat
  BY AncestorsSelf, CountType
<1>2. CASE q \in RowsIn(b, m)
  <2>1. PICK j \in 1..m : q \in MatchRows(b, TxsOf[b][j])
    BY <1>2 DEF RowsIn
  <2>2. j \in 1..Count(b) /\ j # i /\ q.tx = TxsOf[b][j]
    BY <1>1, <2>1 DEF MatchRows
  <2> QED
    BY <1>1, <2>2 DEF Forking
<1>3. ASSUME NEW x \in Ancestors[b], x # b, q \in RowsIn(x, Len(TxsOf[x]))
      PROVE  q.tx # TxsOf[b][i]
  <2>1. PICK j \in 1..Count(x) : q \in MatchRows(x, TxsOf[x][j])
    BY <1>3 DEF RowsIn, Count
  <2>2. q.tx = TxsOf[x][j]
    BY <2>1 DEF MatchRows
  <2> QED
    BY <1>1, <1>3, <2>1, <2>2 DEF Forking
<1> QED
  BY <1>2, <1>3, RowsFromBlock

(* To delete the rows of the i-th transaction of b is to take it back, or   *)
(* nothing when it was not stored.                                          *)
LEMMA RowsBack ==
    ASSUME Forking, NEW b \in Blocks, Intersect \in Ancestors[b], NEW i \in 1..Count(b)
    PROVE  LET R == RowsUpTo(Below, b, i) IN
           R \ RowsOf(R, TxsOf[b][i]) = RowsUpTo(Below, b, i - 1)
<1> DEFINE t == TxsOf[b][i]
           R == RowsUpTo(Below, b, i)
           lower == RowsUpTo(Below, b, i - 1)
<1>1. i \in Nat \ {0} /\ i - 1 \in 0..(i - 1)
  BY CountType
<1>2. R = lower \cup MatchRows(b, t)
  BY <1>1, RowsStep
<1>3. \A q \in MatchRows(b, t) : q.tx = t
  BY DEF MatchRows
<1>4. \A q \in lower : q.tx # t
  BY <1>1, RowsEarlier
<1> HIDE DEF t, lower, R
<1>5. R \ RowsOf(R, t) = lower
  BY <1>2, <1>3, <1>4 DEF RowsOf
<1> QED
  BY <1>5 DEF t, lower, R

LEMMA RowsBackNothing ==
    ASSUME Forking, NEW b \in Blocks, Intersect \in Ancestors[b], NEW i \in 1..Count(b),
           NEW R, Within(R, b, i - 1)
    PROVE  R \ RowsOf(R, TxsOf[b][i]) = R
<1>1. PICK m \in 0..(i - 1) : R = RowsUpTo(Below, b, m)
  BY DEF Within
<1>2. \A q \in R : q.tx # TxsOf[b][i]
  BY <1>1, RowsEarlier
<1> QED
  BY <1>2 DEF RowsOf

-----------------------------------------------------------------------------
(* The invariant *)

LEMMA ReachesNext ==
    ASSUME NEW R, NEW c \in Blocks \ {Genesis}, Reaches(R, Parent[c], Count(Parent[c]))
    PROVE  Reaches(R, c, 0)
<1>1. Parent[c] \in Blocks /\ Count(Parent[c]) \in Nat /\ Count(c) \in Nat
  BY GenesisAssumed, CountType
<1>2. R = RowsUpTo(Below, Parent[c], Count(Parent[c]))
  BY <1>1 DEF Reaches
<1> QED
  BY <1>1, <1>2, RowsNextBlock DEF Reaches

LEMMA ReachesLess ==
    ASSUME NEW R, NEW b \in Blocks, NEW hi \in Nat, NEW lo \in Nat, lo <= hi,
           Reaches(R, b, hi)
    PROVE  Reaches(R, b, lo)
  BY CountType DEF Reaches

LEMMA ReachesAll ==
    ASSUME NEW R, NEW b \in Blocks, Reaches(R, b, Count(b))
    PROVE  R = RowsUpTo(Below, b, Count(b))
  BY CountType DEF Reaches

LEMMA ReachesExactly ==
    ASSUME NEW b \in Blocks, NEW n \in 0..Count(b)
    PROVE  Reaches(RowsUpTo(Below, b, n), b, n)
  BY CountType DEF Reaches

LEMMA FileReaches ==
    ASSUME TypeOK, Resumable, db.cursor # None
    PROVE  /\ db.cursor.hash \in Blocks
           /\ origin = Below
           /\ Followed(db.cursor.hash)
           /\ Reaches(db.rows, db.cursor.hash, 0)
  BY DEF Resumable, TypeOK, StoreTypeOK, Points

(* What the file says does not depend on the session. *)
LEMMA SameFile ==
    ASSUME Resumable, db' = db, origin' = origin, tip' = tip PROVE Resumable'
  BY DEF Resumable, Followed, OnChain

(* Nor is a block left half undone by a step that does not say so. *)
LEMMA SameFileInv ==
    ASSUME FileInv, db' = db, origin' = origin, tip' = tip,
           Single \/ ~MidUndo \/ MidUndo'
    PROVE  FileInv'
  BY SameFile DEF FileInv

LEMMA InitForkInv == ASSUME Forking, Init PROVE ForkInv
  BY InitTypeOK DEF Init, StoreInit, UpstreamInit, ForkInv, FileInv, RequestInv,
     SessionInv, EventInv, Resumable

(* A step that leaves the process without a session. *)
LEMMA ClosedForkInv ==
    ASSUME ForkInv, TypeOK', db' = db, origin' = origin, tip' = tip,
           pc' \notin {"stream", "handle", "commit"}, Single \/ ~MidUndo, RequestInv'
    PROVE  ForkInv'
<1>1. sess' = None /\ event' = None
  BY DEF TypeOK
<1>2. FileInv'
  BY SameFileInv DEF ForkInv
<1> QED
  BY <1>1, <1>2 DEF ForkInv, SessionInv, EventInv

LEMMA SubscribeForkInv ==
    ASSUME Forking, ForkInv, TypeOK', SubscribeOk PROVE ForkInv'
<1>1. /\ pc = "subscribe" /\ pc' = "stream" /\ db' = db /\ tip' = tip /\ event' = event
      /\ OpenSession(request) /\ txn' = txn
      /\ origin' = IF origin # Blocks THEN origin
                   ELSE IF request = None THEN Ancestors[tip]
                   ELSE Ancestors[request.hash] \ {request.hash}
  BY DEF SubscribeOk, Goto, storeVars, OpenSession
<1>2. tip \in Blocks /\ event = None /\ Intersect \in Blocks
  BY <1>1 DEF ForkInv, TypeOK, UpstreamTypeOK, Forking
<1> DEFINE Opened(b, n, back) ==
        /\ sess' = [at |-> b, done |-> n, back |-> back]
        /\ origin' = Below
        /\ Followed(b)
        /\ IF back THEN Within(db.rows, b, n) ELSE Reaches(db.rows, b, n)
        /\ back => ~Final(b) /\ n = Count(b)
<1>0. Resumable /\ sess = None /\ ~MidUndo
  BY <1>1, <1>2 DEF ForkInv, FileInv, MidUndo, TypeOK
<1>3. \E b \in Blocks, n \in Nat, back \in BOOLEAN : Opened(b, n, back)
  <2>1. CASE db.cursor = None
    <3>1. request = Point(Intersect) /\ request.hash = Intersect /\ request # None
      BY <1>1, <1>2, <2>1, PointType, NoneAssumption DEF ForkInv, RequestInv, Point
    <3>2. OnChain(Intersect)
      BY <1>1, <1>2, <3>1, GenesisIsBelow DEF OpenSession, MayFind, Finds, OnChain, Forking
    <3>3. sess' = Position(Intersect, 0)
      BY <1>1, <3>1, <3>2 DEF OpenSession
    <3>4. origin' = Below
      BY <1>1, <3>1 DEF ForkInv, Below
    <3>5. Reaches(db.rows, Intersect, 0)
      BY <1>2, <2>1, RowsAtIntersect, <1>0, CountType DEF Resumable, Reaches
    <3>6. Followed(Intersect)
      BY <1>2, <3>2, FollowedOnChain, AncestorsSelf
    <3>7. Opened(Intersect, 0, FALSE)
      BY <3>3, <3>4, <3>5, <3>6 DEF Position
    <3> QED
      BY <1>2, <3>7
  <2>2. CASE db.cursor # None
    <3> PICK b \in Blocks : b = db.cursor.hash
      BY <1>0, <2>2, FileReaches DEF ForkInv
    <3>1. request = db.cursor /\ request # None
      BY <1>1, <2>2 DEF ForkInv, RequestInv
    <3>2. origin = Below /\ Followed(b) /\ Reaches(db.rows, b, 0)
      BY <1>0, <2>2, FileReaches DEF ForkInv
    <3>3. origin' = Below
      BY <1>1, <3>2, BelowIsPartial
    <3>4. CASE OnChain(b)
      <4>1. sess' = Position(b, 0)
        BY <1>1, <3>1, <3>4 DEF OpenSession
      <4>2. Opened(b, 0, FALSE)
        BY <3>2, <3>3, <4>1 DEF Position
      <4> QED
        BY <4>2
    <3>5. CASE ~OnChain(b)
      <4>1. sess' = [at |-> b, done |-> Count(b), back |-> TRUE]
        BY <1>1, <3>1, <3>5 DEF OpenSession, Position
      <4>2. ~Final(b)
        BY <3>2, <3>5, FollowedOff
      <4>3. Within(db.rows, b, Count(b))
        BY <3>2 DEF Within, Reaches
      <4>4. Opened(b, Count(b), TRUE)
        BY <3>2, <3>3, <4>1, <4>2, <4>3
      <4> QED
        BY <4>4, CountType
    <3> QED
      BY <3>4, <3>5
  <2> QED
    BY <2>1, <2>2
<1>4. PICK b \in Blocks, n \in Nat, back \in BOOLEAN : Opened(b, n, back)
  BY <1>3
<1>5. FileInv'
  <2>1. origin' = origin \/ db.cursor = None
    BY <1>0, <1>1, BelowIsPartial DEF Resumable
  <2> QED
    BY <1>0, <1>1, <1>4, <2>1 DEF FileInv, Resumable, Followed, OnChain
<1>6. Followed(b)'
  BY <1>1, <1>4 DEF Followed, OnChain
<1>7. Stands(db.rows)'
  BY <1>1, <1>4 DEF Stands
<1>8. SessionInv'
  BY <1>4, <1>6, <1>7 DEF SessionInv
<1>9. EventInv' /\ RequestInv' /\ origin' = Below
  BY <1>1, <1>2, <1>4 DEF EventInv, RequestInv
<1> QED
  BY <1>5, <1>8, <1>9 DEF ForkInv

LEMMA ReceiveForkInv ==
    ASSUME Forking, ForkInv, TypeOK', Receive PROVE ForkInv'
<1>1. /\ pc = "stream" /\ pc' = "handle" /\ db' = db /\ txn' = txn /\ origin' = origin
      /\ txn = None /\ event = None /\ sess # None
  BY DEF Receive, Goto, storeVars, ForkInv, TypeOK
<1>2. /\ tip \in Blocks /\ sess.at \in Blocks /\ sess.done \in Nat /\ sess \in Sessions
      /\ sess.done <= Count(sess.at) /\ Count(sess.at) \in Nat
  BY <1>1, CountType DEF ForkInv, TypeOK, UpstreamTypeOK, Sessions
<1>3. /\ origin = Below /\ Followed(sess.at)
      /\ sess.back => ~Final(sess.at)
      /\ Stands(db.rows)
  BY <1>1 DEF ForkInv, SessionInv
<1>4. PICK x \in Events : (SendApply(x) \/ SendUndo(x) \/ SendIdle(x)) /\ event' = x
  BY DEF Receive
<1>5. tip' = tip
  BY <1>4 DEF SendApply, SendUndo, SendIdle
<1>6. RequestInv'
  BY <1>1 DEF RequestInv
<1>7. x # None
  BY NoneAssumption
<1> PICK at \in Blocks : at = sess.at
  BY <1>2
<1>8. Followed(at)'
  BY <1>3, <1>5 DEF Followed, OnChain
<1>9. FileInv'
  <2>1. MidUndo => x.kind = "undo"
    <3> SUFFICES ASSUME MidUndo PROVE SendUndo(x)
      BY DEF SendUndo, Event
    <3> QED
      BY <1>1, <1>2, <1>4 DEF MidUndo, SendApply, SendIdle, Complete
  <2>2. MidUndo => MidUndo'
    BY <1>4, <1>7, <2>1 DEF MidUndo
  <2> QED
    BY <1>1, <1>5, <2>2, SameFileInv DEF ForkInv
<1>10. CASE SendApply(x)
  <2> PICK b \in Blocks, i \in Nat : b = sess.at /\ i = sess.done + 1
    BY <1>2
  <2>1. /\ x.kind = "apply" /\ x.bytes = TRUE /\ x.block = b /\ x.tx = TxsOf[b][i]
        /\ i \in 1..Count(b)
    BY <1>2, <1>10 DEF SendApply, Forking, Event
  <2>2. sess'.at = b /\ sess'.done = i /\ sess'.back = FALSE
    BY <1>2, <1>10 DEF SendApply, Sessions
  <2>3. i - 1 = sess.done
    BY <1>2
  <2>4. EventAt(i)'
    <3>1. ~sess.back /\ Reaches(db.rows, b, i - 1)
      BY <1>3, <1>10, <2>3 DEF SendApply, Stands
    <3> QED
      BY <1>1, <1>4, <2>1, <2>2, <3>1 DEF EventAt, SentUpTo
  <2>5. Followed(b)'
    BY <1>3, <1>5 DEF Followed, OnChain
  <2>6. EventInv'
    BY <1>4, <2>1, <2>4, <2>5 DEF EventInv
  <2>7. SessionInv'
    BY <1>1, <1>3, <1>4, <1>7, <2>1, <2>2, <2>5 DEF SessionInv
  <2> QED
    BY <1>1, <1>3, <1>6, <1>9, <2>6, <2>7 DEF ForkInv
<1>11. CASE SendUndo(x)
  <2> PICK b \in Blocks, i \in Nat : b = sess.at /\ i = sess.done
    BY <1>2
  <2>1. sess.done > 0 /\ (sess.back \/ (~sess.back /\ sess.done = Count(b) /\ ~OnChain(b)))
    BY <1>11 DEF SendUndo, Complete
  <2>2. ~Final(b)
    BY <1>3, <2>1, FollowedOff
  <2>3. i \in 1..Count(b)
    BY <1>2, <2>1
  <2>4. /\ x.kind = "undo" /\ x.bytes = TRUE /\ x.block = b /\ x.tx = TxsOf[b][i]
    BY <1>11 DEF SendUndo, Forking, Event
  <2>5. sess'.at = b /\ sess'.done = i - 1 /\ sess'.back = TRUE
    BY <1>2, <1>11 DEF SendUndo, Sessions
  <2>6. Within(db.rows, b, i)
    <3>1. CASE sess.back
      BY <1>3, <3>1 DEF Stands
    <3>2. CASE ~sess.back
      <4>1. db.rows = RowsUpTo(Below, b, i)
        BY <1>3, <2>1, <3>2, ReachesAll DEF Stands
      <4> QED
        BY <2>3, <4>1 DEF Within
    <3> QED
      BY <3>1, <3>2
  <2>7. UndoAt(i)'
    BY <1>1, <1>4, <2>4, <2>5, <2>6 DEF UndoAt, TakenBackTo
  <2>8. EventInv'
    BY <1>4, <1>8, <2>2, <2>3, <2>4, <2>7 DEF EventInv
  <2>9. SessionInv'
    BY <1>1, <1>3, <1>4, <1>7, <1>8, <2>2, <2>4, <2>5 DEF SessionInv
  <2> QED
    BY <1>1, <1>3, <1>6, <1>9, <2>8, <2>9 DEF ForkInv
<1>12. CASE SendIdle(x)
  <2>1. PICK c \in Blocks :
          IsNext(c, sess.at) /\ Count(c) = 0 /\ x = Event("idle", c, None, TRUE)
          /\ sess' = Position(c, 0)
    BY <1>12 DEF SendIdle
  <2>2. sess.done = Count(sess.at) /\ c \in Blocks \ {Genesis} /\ Parent[c] = sess.at
    BY <1>12, <2>1 DEF SendIdle, Complete, IsNext
  <2>3. Reaches(db.rows, c, 0)
    <3>1. Reaches(db.rows, sess.at, sess.done)
      BY <1>3, <1>12 DEF SendIdle, Complete, Stands
    <3> QED
      BY <2>2, <3>1, ReachesNext
  <2>4. Followed(c)'
    BY <1>2, <1>3, <1>5, <2>1, FollowedNext DEF Followed, OnChain
  <2>5. EventInv'
    BY <1>1, <1>4, <2>1 DEF EventInv, Event
  <2>6. SessionInv'
    BY <1>1, <1>3, <2>1, <2>3, <2>4 DEF SessionInv, Position, Stands
  <2> QED
    BY <1>1, <1>3, <1>6, <1>9, <2>5, <2>6 DEF ForkInv
<1> QED
  BY <1>4, <1>10, <1>11, <1>12

LEMMA HandleApplyForkInv ==
    ASSUME Forking, ForkInv, TypeOK', HandleApply PROVE ForkInv'
<1>1. /\ pc = "handle" /\ pc' = "commit" /\ event.kind = "apply" /\ event # None
      /\ event' = event /\ sess' = sess /\ tip' = tip /\ origin' = origin /\ db' = db
      /\ txn' = [rows |-> db.rows, todo |-> MatchRows(event.block, event.tx),
                 cursor |-> Point(event.block)]
  BY DEF HandleApply, Goto, upstreamVars, BeginApplyBlock, ForkInv, TypeOK
<1>2. PICK b \in Blocks : b = event.block
  BY <1>1 DEF ForkInv, TypeOK, Events
<1>3. PICK i \in 1..Count(b) : EventAt(i)
  BY <1>1, <1>2 DEF ForkInv, EventInv
<1>4. /\ event.bytes /\ Followed(b) /\ Intersect \in Ancestors[b]
      /\ event.tx = TxsOf[b][i] /\ SentUpTo(b, i)
  BY <1>1, <1>2, <1>3 DEF ForkInv, EventInv, EventAt, Followed
<1>5. Count(b) \in Nat /\ i \in Nat \ {0} /\ i - 1 \in Nat
  BY CountType
<1>6. PICK k \in (i - 1)..Count(b) : db.rows = RowsUpTo(Below, b, k)
  BY <1>2, <1>3 DEF EventAt, Reaches
<1>7. RowsUpTo(Below, b, i) = RowsUpTo(Below, b, i - 1) \cup MatchRows(b, TxsOf[b][i])
  BY <1>4, <1>5, RowsStep
<1>8. Writing(b, i)'
  <2>1. txn'.cursor = Point(b) /\ txn'.rows \cup txn'.todo = db.rows \cup MatchRows(b, TxsOf[b][i])
    BY <1>1, <1>2, <1>4
  <2>2. CASE k = i - 1
    BY <1>1, <1>6, <1>7, <2>1, <2>2 DEF Writing
  <2>3. CASE k # i - 1
    <3>1. k \in i..Count(b)
      BY <1>5, <1>6, <2>3
    <3>2. RowsUpTo(Below, b, i) \subseteq db.rows
      BY <1>4, <1>5, <1>6, <3>1, RowsGrow
    <3>3. Reaches(db.rows, b, i)
      BY <1>6, <3>1 DEF Reaches
    <3> QED
      BY <1>1, <1>7, <2>1, <3>2, <3>3 DEF Writing
  <2> QED
    BY <2>2, <2>3
<1>9. EventAt(i)'
  BY <1>1, <1>2, <1>3, <1>8 DEF EventAt, SentUpTo
<1>10. EventInv'
  BY <1>1, <1>2, <1>4, <1>9 DEF EventInv, Followed, OnChain
<1>11. SessionInv' /\ RequestInv'
  BY <1>1 DEF ForkInv, SessionInv, RequestInv, Followed, OnChain
<1>12. FileInv'
  <2>1. MidUndo => MidUndo'
    BY <1>1 DEF MidUndo
  <2> QED
    BY <1>1, <2>1, SameFileInv DEF ForkInv
<1> QED
  BY <1>1, <1>10, <1>11, <1>12 DEF ForkInv

LEMMA HandleUndoForkInv ==
    ASSUME Forking, ForkInv, TypeOK', HandleUndo PROVE ForkInv'
<1>1. /\ pc = "handle" /\ pc' = "commit" /\ event.kind = "undo" /\ event # None
      /\ event' = event /\ sess' = sess /\ tip' = tip /\ origin' = origin /\ db' = db
      /\ BeginUndoTx(event.tx, IF event.bytes THEN ParentPoint(event.block) ELSE None)
  BY DEF HandleUndo, Goto, upstreamVars, BeginUndoTx, ForkInv, TypeOK
<1>2. PICK b \in Blocks : b = event.block
  BY <1>1 DEF ForkInv, TypeOK, Events
<1>3. event.bytes /\ Followed(b) /\ Intersect \in Ancestors[b] /\ ~Final(b)
  BY <1>1, <1>2 DEF ForkInv, EventInv, Followed
<1>4. PICK i \in 1..Count(b) : UndoAt(i)
  BY <1>1, <1>2 DEF ForkInv, EventInv
<1>5. event.tx = TxsOf[b][i] /\ TakenBackTo(b, i) /\ Within(db.rows, b, i)
  BY <1>2, <1>4 DEF UndoAt
<1>6. /\ txn'.rows = db.rows \ RowsOf(db.rows, TxsOf[b][i])
      /\ txn'.todo = {}
      /\ txn'.cursor = ParentPoint(b)
  BY <1>1, <1>2, <1>3, <1>5 DEF BeginUndoTx
<1>7. Retracting(b, i)'
  <2>1. PICK k \in 0..i : db.rows = RowsUpTo(Below, b, k)
    BY <1>5 DEF Within
  <2>2. CASE k = i
    <3>1. txn'.rows = RowsUpTo(Below, b, i - 1)
      BY <1>3, <1>6, <2>1, <2>2, RowsBack
    <3> QED
      BY <1>1, <1>6, <2>1, <2>2, <3>1 DEF Retracting
  <2>3. CASE k # i
    <3>1. k \in 0..(i - 1)
      BY <2>1, <2>3, CountType
    <3>2. Within(db.rows, b, i - 1)
      BY <2>1, <3>1 DEF Within
    <3>3. txn'.rows = db.rows
      BY <1>3, <1>6, <3>2, RowsBackNothing
    <3> QED
      BY <1>1, <1>6, <3>2, <3>3 DEF Retracting
  <2> QED
    BY <2>2, <2>3
<1>8. UndoAt(i)'
  BY <1>1, <1>2, <1>5, <1>7 DEF UndoAt, TakenBackTo
<1>9. EventInv'
  BY <1>1, <1>2, <1>3, <1>4, <1>8 DEF EventInv, Followed, OnChain, ForkInv
<1>10. SessionInv' /\ RequestInv'
  BY <1>1 DEF ForkInv, SessionInv, RequestInv, Followed, OnChain
<1>11. FileInv'
  BY <1>1, SameFileInv DEF ForkInv, MidUndo
<1> QED
  BY <1>1, <1>9, <1>10, <1>11 DEF ForkInv

(* What holds once the i-th transaction of b is stored holds of what the     *)
(* node has sent.                                                           *)
LEMMA SentReaches ==
    ASSUME TypeOK, sess # None, NEW R, NEW b \in Blocks, NEW i, SentUpTo(b, i), Reaches(R, b, i)
    PROVE  Reaches(R, sess.at, sess.done)
<1>1. CASE sess.at = b /\ sess.done = i
  BY <1>1
<1>2. CASE sess.at # Genesis /\ Parent[sess.at] = b /\ sess.done = 0 /\ i = Count(b)
  <2>1. sess.at \in Blocks \ {Genesis}
    BY <1>2 DEF TypeOK, UpstreamTypeOK, Sessions
  <2> QED
    BY <1>2, <2>1, ReachesNext
<1> QED
  BY <1>1, <1>2 DEF SentUpTo

(* The same of a transaction that has been taken back. *)
LEMMA TakenBackStands ==
    ASSUME TypeOK, sess # None, NEW R, NEW b \in Blocks, NEW i \in 1..Count(b),
           TakenBackTo(b, i), Within(R, b, i - 1)
    PROVE  Stands(R)
<1>1. sess.at \in Blocks /\ sess.done \in 0..Count(sess.at) /\ sess.back \in BOOLEAN
  BY CountType DEF TypeOK, UpstreamTypeOK, Sessions
<1>2. CASE sess.at = b /\ sess.back /\ sess.done = i - 1
  BY <1>2 DEF Stands
<1>3. CASE i = 1 /\ RowsUpTo(Below, sess.at, sess.done) = RowsUpTo(Below, b, 0)
  <2>1. R = RowsUpTo(Below, sess.at, sess.done)
    BY <1>3 DEF Within
  <2>2. sess.done \in 0..sess.done
    BY <1>1, CountType
  <2>3. Within(R, sess.at, sess.done) /\ Reaches(R, sess.at, sess.done)
    BY <1>1, <2>1, <2>2, ReachesExactly DEF Within
  <2> QED
    BY <2>3 DEF Stands
<1> QED
  BY <1>2, <1>3 DEF TakenBackTo

(* A foreign transaction has no rows: the table that held those before it   *)
(* holds those up to it.                                                    *)
LEMMA RowsOfForeign ==
    ASSUME Forking, NEW b \in Blocks, Intersect \in Ancestors[b], NEW i \in 1..Count(b),
           TxsOf[b][i] \in Foreign
    PROVE  RowsUpTo(Below, b, i) = RowsUpTo(Below, b, i - 1)
<1>1. Count(b) \in Nat /\ i \in Nat \ {0} /\ i - 1 \in Nat
  BY CountType
<1>2. MatchRows(b, TxsOf[b][i]) = {}
  BY TrackerAssumption DEF MatchRows
<1>3. RowsUpTo(Below, b, i) = RowsUpTo(Below, b, i - 1) \cup MatchRows(b, TxsOf[b][i])
  <2>1. i \in Nat \ {0}
    BY <1>1
  <2> QED
    BY <2>1, RowsStep
<1> QED
  BY <1>2, <1>3

(* An event that is dropped is Idle or foreign. *)
LEMMA HandleNothingForkInv ==
    ASSUME Forking, ForkInv, TypeOK', HandleNothing PROVE ForkInv'
<1>1. /\ pc = "handle" /\ pc' = "stream" /\ event # None /\ event' = None /\ event \in Events
      /\ sess' = sess /\ sess # None /\ tip' = tip /\ origin' = origin /\ db' = db /\ txn' = txn
      /\ Dropped
  BY DEF HandleNothing, Goto, upstreamVars, storeVars, ForkInv, TypeOK
<1>2. event.kind = "idle" \/ event.tx \in Foreign
  BY <1>1 DEF Dropped, ForkInv, EventInv
<1>3. origin = Below /\ Followed(sess.at) /\ (sess.back => ~Final(sess.at))
  BY <1>1 DEF ForkInv, SessionInv
<1>4. Stands(db.rows)
  <2>1. CASE event.kind = "idle"
    BY <1>1, <2>1 DEF ForkInv, SessionInv
  <2>2. CASE event.kind = "apply" /\ event.tx \in Foreign
    <3>1. PICK b \in Blocks : b = event.block
      BY <1>1, <2>2 DEF Events
    <3>2. PICK i \in 1..Count(b) : EventAt(i)
      BY <1>1, <2>2, <3>1 DEF ForkInv, EventInv
    <3>3. /\ event.tx = TxsOf[b][i] /\ SentUpTo(b, i) /\ Followed(b) /\ Intersect \in Ancestors[b]
          /\ Reaches(db.rows, b, i - 1)
      BY <1>1, <2>2, <3>1, <3>2 DEF EventAt, ForkInv, EventInv, Followed
    <3>4. Reaches(db.rows, b, i)
      <4>1. PICK k \in (i - 1)..Count(b) : db.rows = RowsUpTo(Below, b, k)
        BY <3>3 DEF Reaches
      <4>2. RowsUpTo(Below, b, i) = RowsUpTo(Below, b, i - 1)
        BY <2>2, <3>3, RowsOfForeign
      <4>3. CASE k = i - 1
        <5>1. db.rows = RowsUpTo(Below, b, i) /\ i \in 0..Count(b)
          BY <4>1, <4>2, <4>3, CountType
        <5> QED
          BY <5>1, ReachesExactly
      <4>4. CASE k # i - 1
        <5>1. k \in i..Count(b)
          BY <4>1, <4>4, CountType
        <5> QED
          BY <4>1, <5>1 DEF Reaches
      <4> QED
        BY <4>3, <4>4
    <3>5. ~sess.back /\ Reaches(db.rows, sess.at, sess.done)
      BY <1>1, <3>3, <3>4, SentReaches DEF ForkInv, SentUpTo
    <3> QED
      BY <3>5 DEF Stands
  <2>3. CASE event.kind = "undo" /\ event.tx \in Foreign
    <3>1. PICK b \in Blocks : b = event.block
      BY <1>1, <2>3 DEF Events
    <3>2. PICK i \in 1..Count(b) : UndoAt(i)
      BY <1>1, <2>3, <3>1 DEF ForkInv, EventInv
    <3>3. /\ event.tx = TxsOf[b][i] /\ TakenBackTo(b, i) /\ Followed(b) /\ Intersect \in Ancestors[b]
          /\ Within(db.rows, b, i)
      BY <1>1, <2>3, <3>1, <3>2 DEF UndoAt, ForkInv, EventInv, Followed
    <3>4. Within(db.rows, b, i - 1)
      <4>1. PICK k \in 0..i : db.rows = RowsUpTo(Below, b, k)
        BY <3>3 DEF Within
      <4>2. RowsUpTo(Below, b, i) = RowsUpTo(Below, b, i - 1)
        BY <2>3, <3>3, RowsOfForeign
      <4>3. i - 1 \in 0..(i - 1) /\ (k # i => k \in 0..(i - 1))
        BY <4>1, CountType
      <4> QED
        BY <4>1, <4>2, <4>3 DEF Within
    <3> QED
      BY <1>1, <3>3, <3>4, TakenBackStands DEF ForkInv
  <2> QED
    BY <1>1, <1>2, <2>1, <2>2, <2>3 DEF Events
<1>5. SessionInv'
  <2>1. Stands(db.rows)'
    BY <1>1, <1>4 DEF Stands
  <2> QED
    BY <1>1, <1>3, <2>1 DEF SessionInv, Followed, OnChain
<1>6. FileInv'
  <2>1. CASE event.kind = "undo"
    BY <1>1, <1>2, <2>1, SameFileInv DEF Forking, ForkInv
  <2>2. CASE event.kind # "undo"
    <3>1. MidUndo => MidUndo'
      BY <1>1, <2>2 DEF MidUndo
    <3> QED
      BY <1>1, <3>1, SameFileInv DEF ForkInv
  <2> QED
    BY <2>1, <2>2
<1> QED
  BY <1>1, <1>5, <1>6 DEF ForkInv, RequestInv, EventInv

(* An event whose handler writes is an Apply or an Undo. *)
LEMMA Committing ==
    ASSUME ForkInv, event # None, txn # None
    PROVE  /\ event.kind \in {"apply", "undo"} /\ event.block \in Blocks
           /\ event.bytes /\ Followed(event.block)
           /\ event.kind = "apply" => \E i \in 1..Count(event.block) : EventAt(i)
           /\ event.kind = "undo" =>
                ~Final(event.block) /\ \E i \in 1..Count(event.block) : UndoAt(i)
<1>1. event \in Events /\ event.kind # "idle"
  BY DEF ForkInv, TypeOK, EventInv
<1> QED
  BY <1>1 DEF ForkInv, EventInv, Events

LEMMA StoreRowForkInv ==
    ASSUME Forking, ForkInv, TypeOK', StoreRow PROVE ForkInv'
<1>1. /\ pc = "commit" /\ pc' = pc /\ event # None /\ txn # None /\ txn \in Transactions
      /\ event' = event /\ sess' = sess /\ tip' = tip /\ origin' = origin /\ db' = db
      /\ InsertRow
  BY DEF StoreRow, InsertRow, upstreamVars, processVars, ForkInv, TypeOK, StoreTypeOK
<1>2. PICK r \in txn.todo :
        txn' = [txn EXCEPT !.rows = InsertOrIgnore(@, r), !.todo = @ \ {r}]
  BY <1>1 DEF InsertRow
<1>3. event.kind = "apply"
  BY <1>1, <1>2, Committing DEF UndoAt, Retracting
<1>4. PICK b \in Blocks : b = event.block
  BY <1>1, Committing
<1>5. PICK i \in 1..Count(b) : EventAt(i)
  BY <1>1, <1>3, <1>4, Committing
<1>6. /\ event.bytes /\ Followed(b) /\ Intersect \in Ancestors[b] /\ Writing(b, i)
      /\ Count(b) \in Nat
  BY <1>1, <1>4, <1>5, CountType, Committing DEF EventAt, Followed
<1>7. PICK n \in 0..Count(b) : txn.rows \cup txn.todo = RowsUpTo(Below, b, n)
  <2>1. CASE txn.rows \cup txn.todo = db.rows /\ Reaches(db.rows, b, i)
    BY <1>6, <2>1 DEF Reaches
  <2>2. CASE txn.rows \cup txn.todo = RowsUpTo(Below, b, i)
    BY <1>6, <2>2
  <2> QED
    BY <1>6, <2>1, <2>2 DEF Writing
<1>8. /\ txn'.rows = InsertOrIgnore(txn.rows, r) /\ txn'.todo = txn.todo \ {r}
      /\ txn'.cursor = txn.cursor
  BY <1>1, <1>2 DEF Transactions
<1>9. txn'.rows \cup txn'.todo = txn.rows \cup txn.todo
  <2>1. CASE \E s \in txn.rows : SameKey(r, s)
    <3>1. PICK s \in txn.rows : SameKey(r, s)
      BY <2>1
    <3>2. r = s
      BY <1>6, <1>7, <3>1, RowsDistinct
    <3> QED
      BY <1>8, <2>1, <3>1, <3>2 DEF InsertOrIgnore
  <2>2. CASE ~\E s \in txn.rows : SameKey(r, s)
    BY <1>8, <2>2 DEF InsertOrIgnore
  <2> QED
    BY <2>1, <2>2
<1>10. Writing(b, i)'
  BY <1>1, <1>6, <1>8, <1>9 DEF Writing
<1>11. EventAt(i)'
  BY <1>1, <1>4, <1>5, <1>10 DEF EventAt, SentUpTo
<1>12. EventInv'
  BY <1>1, <1>3, <1>4, <1>6, <1>11 DEF EventInv, Followed, OnChain
<1>13. SessionInv' /\ RequestInv'
  BY <1>1, <1>3 DEF ForkInv, SessionInv, RequestInv, Followed, OnChain
<1>14. FileInv'
  <2>1. MidUndo => MidUndo'
    BY <1>1 DEF MidUndo
  <2> QED
    BY <1>1, <2>1, SameFileInv DEF ForkInv
<1> QED
  BY <1>1, <1>12, <1>13, <1>14 DEF ForkInv

LEMMA CommitApplyForkInv ==
    ASSUME Forking, ForkInv, TypeOK', StoreCommit, event.kind = "apply" PROVE ForkInv'
<1>1. /\ pc = "commit" /\ pc' = "stream" /\ event # None /\ txn # None /\ event' = None
      /\ sess' = sess /\ sess # None /\ tip' = tip /\ origin' = origin
      /\ txn.todo = {} /\ db' = [rows |-> txn.rows, cursor |-> txn.cursor]
  BY DEF StoreCommit, Commit, Goto, upstreamVars, ForkInv, TypeOK
<1>2. PICK b \in Blocks : b = event.block
  BY <1>1, Committing
<1>3. PICK i \in 1..Count(b) : EventAt(i)
  BY <1>1, <1>2, Committing
<1>4. Followed(b) /\ Writing(b, i) /\ SentUpTo(b, i) /\ Count(b) \in Nat /\ i \in Nat
  BY <1>1, <1>2, <1>3, CountType, Committing DEF EventAt
<1>5. Reaches(db'.rows, b, i)
  <2>1. db'.rows = txn.rows \cup txn.todo
    BY <1>1
  <2>2. CASE txn.rows \cup txn.todo = RowsUpTo(Below, b, i)
    <3>1. Reaches(RowsUpTo(Below, b, i), b, i)
      BY <1>4, ReachesExactly
    <3> QED
      BY <2>1, <2>2, <3>1
  <2> QED
    BY <1>4, <2>1, <2>2 DEF Writing
<1>6. origin = Below /\ ~sess.back /\ Followed(sess.at)
  BY <1>1, <1>4 DEF ForkInv, SessionInv, SentUpTo
<1>7. FileInv'
  <2>1. db'.cursor = Point(b) /\ Point(b).hash = b /\ Point(b) # None
    BY <1>1, <1>4, PointType, NoneAssumption DEF Writing, Point
  <2>2. Reaches(db'.rows, b, 0)
    BY <1>4, <1>5, ReachesLess
  <2>3. Followed(b)'
    BY <1>1, <1>4 DEF Followed, OnChain
  <2> QED
    BY <1>1, <1>6, <2>1, <2>2, <2>3 DEF FileInv, Resumable
<1>8. SessionInv'
  <2>1. Reaches(db'.rows, sess.at, sess.done)
    BY <1>1, <1>4, <1>5, SentReaches DEF ForkInv
  <2> QED
    BY <1>1, <1>6, <2>1 DEF SessionInv, Followed, OnChain, Stands
<1> QED
  BY <1>1, <1>6, <1>7, <1>8 DEF ForkInv, EventInv, RequestInv

LEMMA CommitUndoForkInv ==
    ASSUME Forking, ForkInv, TypeOK', StoreCommit, event.kind = "undo" PROVE ForkInv'
<1>1. /\ pc = "commit" /\ pc' = "stream" /\ event # None /\ txn # None /\ event' = None
      /\ sess' = sess /\ sess # None /\ tip' = tip /\ origin' = origin
      /\ txn.todo = {} /\ db' = [rows |-> txn.rows, cursor |-> txn.cursor]
  BY DEF StoreCommit, Commit, Goto, upstreamVars, ForkInv, TypeOK
<1>2. PICK b \in Blocks : b = event.block
  BY <1>1, Committing
<1>3. Followed(b) /\ ~Final(b)
  BY <1>1, <1>2, Committing
<1>4. PICK i \in 1..Count(b) : UndoAt(i)
  BY <1>1, <1>2, Committing
<1>5. TakenBackTo(b, i) /\ Retracting(b, i)
  BY <1>1, <1>2, <1>4 DEF UndoAt
<1>6. Count(b) \in Nat /\ i - 1 \in Nat /\ 0..(i - 1) \subseteq 0..i
  BY <1>4, CountType
<1>7. Within(db'.rows, b, i - 1) /\ db'.cursor = ParentPoint(b)
  BY <1>1, <1>5, <1>6 DEF Retracting, Within
<1>8. i = 1 => db'.rows = RowsUpTo(Below, b, 0)
  BY <1>7 DEF Within
<1>9. origin = Below /\ Followed(sess.at) /\ (sess.back => ~Final(sess.at))
  BY <1>1 DEF ForkInv, SessionInv
<1>10. FileInv'
  <2> SUFFICES ASSUME Single \/ ~MidUndo' PROVE Resumable'
    BY DEF FileInv
  <2>1. i = 1
    <3>1. CASE Single
      BY <1>3, <1>4, <3>1, CountType DEF Single
    <3>2. CASE ~MidUndo' /\ i # 1
      <4>1. sess.at = b /\ sess.back /\ sess.done = i - 1
        BY <1>5, <3>2 DEF TakenBackTo
      <4>2. i - 1 \in 1..(Count(b) - 1)
        BY <1>4, <1>6, <3>2
      <4> QED
        BY <1>1, <3>2, <4>1, <4>2 DEF MidUndo
    <3> QED
      BY <3>1, <3>2
  <2> PICK p \in Blocks : p = Parent[b] /\ b \in Blocks \ {Genesis} /\ Followed(p)
    BY <1>3, FollowedParent
  <2>2. db'.cursor # None /\ db'.cursor.hash = p
    BY <1>7, BlockTreeAssumption, NoneAssumption DEF ParentPoint, Points
  <2>3. db'.rows = RowsUpTo(Below, p, Count(p))
    BY <1>8, <2>1, RowsNextBlock
  <2>4. Reaches(db'.rows, p, 0)
    BY <2>3, CountType DEF Reaches
  <2>5. Followed(p)'
    BY <1>1 DEF Followed, OnChain
  <2> QED
    BY <1>1, <1>9, <2>2, <2>4, <2>5 DEF Resumable
<1>11. SessionInv'
  <2>1. Stands(db'.rows)
    BY <1>1, <1>5, <1>7, TakenBackStands DEF ForkInv
  <2>2. Stands(db.rows)'
    BY <1>1, <2>1 DEF Stands
  <2> QED
    BY <1>1, <1>9, <2>2 DEF SessionInv, Followed, OnChain
<1> QED
  BY <1>1, <1>9, <1>10, <1>11 DEF ForkInv, EventInv, RequestInv

LEMMA AdoptsForkInv ==
    ASSUME Forking, ForkInv, TypeOK', NodeAdopts PROVE ForkInv'
<1>1. /\ pc' = pc /\ event' = event /\ sess' = sess /\ origin' = origin /\ db' = db
      /\ txn' = txn /\ request' = request
  BY DEF NodeAdopts, AdoptBlock, storeVars, processVars
<1>2. ASSUME NEW b \in Blocks, Followed(b) PROVE Followed(b)'
  BY <1>2, FollowedStays DEF NodeAdopts, ForkInv, TypeOK, UpstreamTypeOK
<1>3. FileInv'
  <2> SUFFICES ASSUME Resumable PROVE Resumable'
    BY <1>1 DEF ForkInv, FileInv, MidUndo
  <2>1. CASE db.cursor = None
    BY <1>1, <2>1 DEF Resumable
  <2>2. CASE db.cursor # None
    <3> PICK b \in Blocks : b = db.cursor.hash
      BY <2>2, FileReaches DEF ForkInv
    <3>1. Followed(b)'
      BY <1>2, <2>2 DEF Resumable
    <3> QED
      BY <1>1, <2>2, <3>1 DEF Resumable
  <2> QED
    BY <2>1, <2>2
<1>4. SessionInv'
  <2> SUFFICES ASSUME sess # None PROVE SessionInv'
    BY <1>1 DEF SessionInv
  <2> PICK b \in Blocks : b = sess.at
    BY DEF ForkInv, TypeOK, UpstreamTypeOK, Sessions
  <2>1. Followed(b)'
    BY <1>2 DEF ForkInv, SessionInv
  <2> QED
    BY <1>1, <2>1 DEF ForkInv, SessionInv, Stands
<1>5. EventInv'
  <2> SUFFICES ASSUME event # None PROVE EventInv'
    BY <1>1 DEF EventInv
  <2> PICK b \in Blocks : b = event.block
    BY DEF ForkInv, TypeOK, Events
  <2>1. ASSUME Followed(b) PROVE Followed(b)'
    BY <1>2, <2>1
  <2>2. ASSUME NEW i, EventAt(i) PROVE EventAt(i)'
    BY <1>1, <2>2 DEF EventAt, SentUpTo, Writing
  <2>3. ASSUME NEW i, UndoAt(i) PROVE UndoAt(i)'
    BY <1>1, <2>3 DEF UndoAt, TakenBackTo, Retracting
  <2> QED
    BY <1>1, <2>1, <2>2, <2>3 DEF ForkInv, EventInv
<1> QED
  BY <1>1, <1>3, <1>4, <1>5 DEF ForkInv, RequestInv

(* The node goes on with the next block. *)
LEMMA EntersForkInv ==
    ASSUME Forking, ForkInv, TypeOK', NodeMoves, EnterBlock PROVE ForkInv'
<1>1. /\ pc' = pc /\ event' = event /\ origin' = origin /\ db' = db /\ tip' = tip
      /\ txn' = txn /\ request' = request /\ sess # None
  BY DEF NodeMoves, EnterBlock, LeaveBlock, Complete, storeVars, processVars
<1>2. /\ origin = Below /\ Followed(sess.at) /\ sess.at \in Blocks
      /\ Count(sess.at) \in Nat /\ tip \in Blocks
  BY <1>1, CountType DEF ForkInv, SessionInv, TypeOK, UpstreamTypeOK, Sessions
<1>3. PICK c \in Blocks : IsNext(c, sess.at) /\ Count(c) > 0 /\ sess' = Position(c, 0)
  BY DEF EnterBlock
<1>4. /\ sess.done = Count(sess.at) /\ ~sess.back /\ c \in Blocks \ {Genesis}
      /\ Parent[c] = sess.at /\ sess'.at = c /\ sess'.done = 0 /\ sess'.back = FALSE
  BY <1>3 DEF EnterBlock, Complete, IsNext, Position
<1>5. Followed(c)'
  <2>1. Followed(c)
    BY <1>2, <1>3, FollowedNext
  <2> QED
    BY <1>1, <2>1 DEF Followed, OnChain
<1>6. SessionInv'
  <2>1. event = None \/ event.kind = "idle" => Reaches(db.rows, c, 0)
    BY <1>1, <1>4, ReachesNext DEF ForkInv, SessionInv, Stands
  <2> QED
    BY <1>1, <1>2, <1>4, <1>5, <2>1 DEF SessionInv, Stands
<1>7. EventInv'
  <2> SUFFICES ASSUME event # None PROVE EventInv'
    BY <1>1 DEF ForkInv, EventInv
  <2> PICK b \in Blocks : b = event.block
    BY DEF ForkInv, TypeOK, Events
  <2>1. ASSUME NEW i, EventAt(i) PROVE EventAt(i)'
    <3>1. SentUpTo(b, i)'
      BY <1>3, <1>4, <2>1 DEF EventAt, SentUpTo
    <3> QED
      BY <1>1, <2>1, <3>1 DEF EventAt, Writing
  <2>2. ASSUME NEW i, UndoAt(i) PROVE UndoAt(i)'
    <3>1. RowsUpTo(Below, c, 0) = RowsUpTo(Below, sess.at, sess.done)
      BY <1>4, RowsNextBlock
    <3>2. TakenBackTo(b, i)'
      BY <1>1, <1>4, <2>2, <3>1 DEF UndoAt, TakenBackTo
    <3> QED
      BY <1>1, <2>2, <3>2 DEF UndoAt, Retracting
  <2> QED
    BY <1>1, <2>1, <2>2 DEF ForkInv, EventInv, Followed, OnChain
<1>8. FileInv'
  BY <1>1, <1>4, SameFileInv DEF ForkInv, MidUndo
<1>9. RequestInv'
  BY <1>1 DEF ForkInv, RequestInv
<1> QED
  BY <1>1, <1>2, <1>6, <1>7, <1>8, <1>9 DEF ForkInv

(* The node goes on with the parent of a block that has been taken back. *)
LEMMA LeavesForkInv ==
    ASSUME Forking, ForkInv, TypeOK', NodeMoves, LeaveBlock PROVE ForkInv'
<1>1. /\ pc' = pc /\ event' = event /\ origin' = origin /\ db' = db /\ tip' = tip
      /\ txn' = txn /\ request' = request /\ sess # None
  BY DEF NodeMoves, EnterBlock, LeaveBlock, Complete, storeVars, processVars
<1>2. PICK c \in Blocks : c = sess.at
  BY <1>1 DEF ForkInv, TypeOK, UpstreamTypeOK, Sessions
<1>3. /\ origin = Below /\ Followed(c) /\ Count(c) \in Nat /\ tip \in Blocks
      /\ sess.back => ~Final(c)
  BY <1>1, <1>2, CountType DEF ForkInv, SessionInv, TypeOK, UpstreamTypeOK
<1>4. /\ sess.done = 0
      /\ sess.back \/ (Count(c) = 0 /\ ~OnChain(c))
      /\ sess' = Position(Parent[c], Count(Parent[c]))
  BY <1>2 DEF LeaveBlock, Complete
<1>5. ~Final(c)
  BY <1>3, <1>4, FollowedOff
<1>6. PICK p \in Blocks : p = Parent[c] /\ c \in Blocks \ {Genesis} /\ Followed(p)
  BY <1>3, <1>5, FollowedParent
<1>7. sess'.at = p /\ sess'.done = Count(p) /\ sess'.back = FALSE
  BY <1>4, <1>6 DEF Position
<1>8. RowsUpTo(Below, p, Count(p)) = RowsUpTo(Below, sess.at, sess.done)
  BY <1>2, <1>4, <1>6, RowsNextBlock
<1>9. Followed(p)'
  BY <1>1, <1>6 DEF Followed, OnChain
<1>10. SessionInv'
  <2>1. ASSUME event = None \/ event.kind = "idle" PROVE Stands(db.rows)'
    <3>1. Stands(db.rows)
      BY <1>1, <2>1 DEF ForkInv, SessionInv
    <3>2. db.rows = RowsUpTo(Below, sess.at, sess.done)
      <4>1. CASE sess.back
        BY <1>4, <3>1, <4>1 DEF Stands, Within
      <4>2. CASE ~sess.back
        BY <1>2, <1>4, <3>1, <4>2, ReachesAll DEF Stands
      <4> QED
        BY <4>1, <4>2
    <3>3. Reaches(db.rows, p, Count(p))
      BY <1>8, <3>2, CountType DEF Reaches
    <3> QED
      BY <1>1, <1>7, <3>3 DEF Stands
  <2> QED
    BY <1>1, <1>3, <1>7, <1>9, <2>1 DEF SessionInv
<1>11. EventInv'
  <2> SUFFICES ASSUME event # None PROVE EventInv'
    BY <1>1 DEF ForkInv, EventInv
  <2> PICK b \in Blocks : b = event.block
    BY DEF ForkInv, TypeOK, Events
  <2>1. ASSUME NEW i \in 1..Count(b), EventAt(i) PROVE FALSE
    BY <1>2, <1>4, <2>1 DEF EventAt, SentUpTo
  <2>2. ASSUME NEW i \in 1..Count(b), UndoAt(i) PROVE UndoAt(i)'
    <3>1. i = 1
      BY <1>2, <1>4, <2>2, CountType DEF UndoAt, TakenBackTo
    <3>2. RowsUpTo(Below, sess.at, sess.done) = RowsUpTo(Below, b, 0)
      BY <1>4, <2>2, <3>1 DEF UndoAt, TakenBackTo
    <3>3. TakenBackTo(b, i)'
      BY <1>7, <1>8, <3>1, <3>2 DEF TakenBackTo
    <3> QED
      BY <1>1, <2>2, <3>3 DEF UndoAt, Retracting
  <2> QED
    BY <1>1, <2>1, <2>2 DEF ForkInv, EventInv, Followed, OnChain
<1>12. FileInv'
  BY <1>1, <1>4, SameFileInv DEF ForkInv, MidUndo
<1>13. RequestInv'
  BY <1>1 DEF ForkInv, RequestInv
<1> QED
  BY <1>1, <1>3, <1>10, <1>11, <1>12, <1>13 DEF ForkInv

LEMMA SameForkInv ==
    ASSUME ForkInv, TypeOK', pc' = pc, event' = event, sess' = sess, origin' = origin,
           db' = db, txn' = txn, request' = request, tip' = tip
    PROVE  ForkInv'
<1>1. FileInv'
  BY SameFileInv DEF ForkInv, MidUndo
<1>2. RequestInv' /\ SessionInv'
  BY DEF ForkInv, RequestInv, SessionInv, Followed, OnChain, Stands
<1>3. EventInv'
  BY DEF ForkInv, EventInv, EventAt, SentUpTo, Writing, UndoAt, TakenBackTo, Retracting,
     Followed, OnChain
<1> QED
  BY <1>1, <1>2, <1>3 DEF ForkInv

LEMMA UnchangedForkInv == ForkInv /\ (Signal \/ UNCHANGED vars) => ForkInv'
<1> SUFFICES ASSUME ForkInv, Signal \/ UNCHANGED vars PROVE ForkInv'
  OBVIOUS
<1>1. TypeOK'
  BY NextTypeOK DEF ForkInv, Next
<1>2. /\ pc' = pc /\ event' = event /\ sess' = sess /\ origin' = origin /\ db' = db
      /\ txn' = txn /\ request' = request /\ tip' = tip
  BY DEF Signal, vars, storeVars, upstreamVars
<1> QED
  BY <1>1, <1>2, SameForkInv

LEMMA NextForkInv ==
    ASSUME Forking, ForkInv, [Next]_vars, Single \/ WholeBlocks PROVE ForkInv'
<1>1. TypeOK'
  BY NextTypeOK DEF ForkInv
<1>2. ASSUME db' = db, origin' = origin, tip' = tip,
             pc' \notin {"connect", "subscribe", "stream", "handle", "commit"}
      PROVE  ForkInv'
  <2>1. Single \/ ~MidUndo
    BY <1>1, <1>2 DEF WholeBlocks, TypeOK
  <2> QED
    BY <1>1, <1>2, <2>1, ClosedForkInv DEF RequestInv
<1>3. CASE Start
  BY <1>2, <1>3 DEF Start, storeVars, upstreamVars
<1>4. CASE ReadCursor
  <2>1. db' = db /\ origin' = origin /\ tip' = tip /\ pc' = "connect" /\ Intersect # None
    BY <1>4, NoneAssumption DEF ReadCursor, Goto, storeVars, upstreamVars, Forking
  <2>2. RequestInv' /\ ~MidUndo
    BY <1>4, <2>1 DEF RequestInv, ReadCursor, Goto, MidUndo, ForkInv, TypeOK
  <2> QED
    BY <1>1, <2>1, <2>2, ClosedForkInv
<1>5. CASE ConnectOk
  <2>1. /\ db' = db /\ origin' = origin /\ tip' = tip /\ pc = "connect" /\ pc' = "subscribe"
        /\ request' = request
    BY <1>5 DEF ConnectOk, Goto, storeVars, upstreamVars
  <2>2. RequestInv' /\ ~MidUndo
    BY <2>1 DEF RequestInv, ForkInv, MidUndo, TypeOK
  <2> QED
    BY <1>1, <2>1, <2>2, ClosedForkInv
<1>6. ASSUME NEW here, Reconnect(here) PROVE ForkInv'
  BY <1>2, <1>6 DEF Reconnect, Goto, CloseSession, storeVars
<1>7. ASSUME NEW here, NEW status \in {"stopped", "failed"}, Exit(here, status) PROVE ForkInv'
  BY <1>2, <1>7 DEF Exit, Goto, CloseSession, storeVars
<1>8. CASE ConnectFails \/ StreamClosed
  BY <1>6, <1>8 DEF ConnectFails, StreamClosed
<1>9. CASE StatusError
  BY <1>6, <1>7, <1>9 DEF StatusError
<1>10. CASE SubscribeRefused \/ Shutdown \/ HandleFails
  BY <1>7, <1>10 DEF SubscribeRefused, Shutdown, HandleFails
<1>11. CASE SleepEnds
  BY <1>2, <1>11 DEF SleepEnds, Goto, storeVars, upstreamVars
<1>12. CASE Crash \/ StoreFails
  BY <1>2, <1>12 DEF Crash, StoreFails, Goto, LoseConnection, CloseSession
<1>13. CASE SubscribeOk
  BY <1>1, <1>13, SubscribeForkInv
<1>14. CASE Receive
  BY <1>1, <1>14, ReceiveForkInv
<1>15. CASE HandleApply
  BY <1>1, <1>15, HandleApplyForkInv
<1>16. CASE HandleNothing
  BY <1>1, <1>16, HandleNothingForkInv
<1>17. CASE HandleUndo
  BY <1>1, <1>17, HandleUndoForkInv
<1>18. CASE StoreRow
  BY <1>1, <1>18, StoreRowForkInv
<1>19. CASE StoreCommit
  <2>1. event.kind \in {"apply", "undo"}
    BY <1>19, Committing DEF StoreCommit, Commit, Goto, ForkInv, TypeOK
  <2> QED
    BY <1>1, <1>19, <2>1, CommitApplyForkInv, CommitUndoForkInv
<1>20. CASE Signal \/ UNCHANGED vars
  BY <1>20, UnchangedForkInv
<1>21. CASE NodeAdopts
  BY <1>1, <1>21, AdoptsForkInv
<1>22. CASE NodeMoves
  BY <1>1, <1>22, EntersForkInv, LeavesForkInv DEF NodeMoves
<1> QED
  BY <1>3, <1>4, <1>5, <1>8, <1>9, <1>10, <1>11, <1>12, <1>13, <1>14, <1>15, <1>16, <1>17,
     <1>18, <1>19, <1>20, <1>21, <1>22 DEF Next, Work, Interruption

(* ForkInv holds in every reachable state, if a block that may be taken     *)
(* back has one transaction at most or if no session ends in the middle.    *)
LEMMA ForkInvariant == ASSUME Forking, Single PROVE Spec => []ForkInv
<1>1. Init => ForkInv
  BY InitForkInv
<1>2. ForkInv /\ [Next]_vars => ForkInv'
  BY NextForkInv
<1> QED
  BY <1>1, <1>2, PTL DEF Spec

(* What holds of Spec, TypeOK and AllOrNothing among it, holds of WholeSpec. *)
LEMMA WholeIsSpec == WholeSpec => Spec
<1>1. [Next /\ WholeBlocks]_vars => [Next]_vars
  OBVIOUS
<1> QED
  BY <1>1, PTL DEF WholeSpec, Spec

LEMMA WholeForkInvariant == ASSUME Forking PROVE WholeSpec => []ForkInv
<1>1. Init => ForkInv
  BY InitForkInv
<1>2. ForkInv /\ [Next /\ WholeBlocks]_vars => ForkInv'
  <2>1. UNCHANGED vars /\ ForkInv => ForkInv'
    BY UnchangedForkInv
  <2> QED
    BY <2>1, NextForkInv
<1> QED
  BY <1>1, <1>2, PTL DEF WholeSpec

-----------------------------------------------------------------------------
(* What it gives *)

LEMMA ForkCursorBrackets ==
    ASSUME Forking, ForkInv, Single \/ ~MidUndo PROVE CursorBrackets
<1> SUFFICES ASSUME db.cursor # None
             PROVE  /\ RowsUpTo(origin, db.cursor.hash, 0) \subseteq db.rows
                    /\ db.rows \subseteq
                         RowsUpTo(origin, db.cursor.hash, Count(db.cursor.hash))
  BY DEF CursorBrackets
<1>1. Resumable
  BY DEF ForkInv, FileInv
<1> PICK b \in Blocks : b = db.cursor.hash
  BY <1>1, FileReaches DEF ForkInv
<1>2. origin = Below /\ Intersect \in Ancestors[b] /\ Reaches(db.rows, b, 0)
  BY <1>1, FileReaches DEF ForkInv, Followed
<1>3. PICK k \in 0..Count(b) : db.rows = RowsUpTo(Below, b, k)
  BY <1>2 DEF Reaches
<1>4. Count(b) \in Nat
  BY CountType
<1>5. /\ RowsUpTo(Below, b, 0) \subseteq RowsUpTo(Below, b, k)
      /\ RowsUpTo(Below, b, k) \subseteq RowsUpTo(Below, b, Count(b))
  BY <1>2, <1>4, RowsGrow
<1> QED
  BY <1>2, <1>3, <1>5

LEMMA ForkSession ==
    ASSUME Forking, ForkInv, pc = "stream", ~sess.back
    PROVE  /\ sess.at \in Blocks /\ sess.done \in Nat /\ origin = Below
           /\ Intersect \in Ancestors[sess.at]
           /\ Reaches(db.rows, sess.at, sess.done)
  BY DEF ForkInv, TypeOK, UpstreamTypeOK, Sessions, SessionInv, Followed, Stands

LEMMA ForkReceivedIsStored == ASSUME Forking, ForkInv PROVE ReceivedIsStored
<1> SUFFICES ASSUME pc = "stream", ~sess.back
             PROVE  RowsUpTo(origin, sess.at, sess.done) \subseteq db.rows
  BY DEF ReceivedIsStored
<1>1. PICK k \in sess.done..Count(sess.at) : db.rows = RowsUpTo(Below, sess.at, k)
  BY ForkSession DEF Reaches
<1>2. k \in Nat /\ sess.done <= k
  BY <1>1, ForkSession, CountType
<1> QED
  BY <1>1, <1>2, ForkSession, RowsGrow

LEMMA ForkSyncedRows == ASSUME Forking, ForkInv PROVE SyncedRows
<1> SUFFICES ASSUME CaughtUp PROVE db.rows = RowsUpTo(origin, tip, Count(tip))
  BY DEF SyncedRows
<1>1. pc = "stream" /\ ~sess.back /\ sess.at = tip /\ sess.done = Count(tip)
  BY DEF CaughtUp, Position
<1> QED
  BY <1>1, ForkSession, ReachesAll

(* The cursor brackets the table: below the cursor block nothing is missing *)
(* and beyond it nothing is stored, so that the session that resumes there  *)
(* (main.rs:62-81) goes on where the file ends, whichever fork that is.     *)
THEOREM CursorBracketsHolds == ASSUME Forking, Single PROVE Spec => []CursorBrackets
<1>1. ForkInv => CursorBrackets
  BY ForkCursorBrackets
<1> QED
  BY <1>1, ForkInvariant, PTL

(* Between two messages everything the node has sent is stored: an orderly  *)
(* shutdown forgets nothing (main.rs:155-194).                              *)
THEOREM ReceivedIsStoredHolds == ASSUME Forking, Single PROVE Spec => []ReceivedIsStored
<1>1. ForkInv => ReceivedIsStored
  BY ForkReceivedIsStored
<1> QED
  BY <1>1, ForkInvariant, PTL

(* A tracker that has caught up holds the matches of the node's chain from  *)
(* the intersect on and no others: the rows of every fork it has left are   *)
(* gone, wherever a session was interrupted.                                *)
THEOREM SyncedRowsHolds == ASSUME Forking, Single PROVE Spec => []SyncedRows
<1>1. ForkInv => SyncedRows
  BY ForkSyncedRows
<1> QED
  BY <1>1, ForkInvariant, PTL

(* The same for blocks of any number of transactions, if no session ends    *)
(* between the first and the last Undo of one: undo_tx rewinds the cursor   *)
(* to the parent with the first, the cursor brackets the table again with   *)
(* the last, and nothing else goes wrong.                                   *)
THEOREM SyncedWhenWhole ==
    ASSUME Forking
    PROVE  WholeSpec => [](SyncedRows /\ ReceivedIsStored /\ (~MidUndo => CursorBrackets))
<1>1. ForkInv => SyncedRows /\ ReceivedIsStored /\ (~MidUndo => CursorBrackets)
  BY ForkSyncedRows, ForkReceivedIsStored, ForkCursorBrackets
<1> QED
  BY <1>1, WholeForkInvariant, PTL

-----------------------------------------------------------------------------
(* The refinement of Follower *)

LEMMA FollowerRows ==
    ASSUME NEW o, NEW b, NEW n PROVE F!RowsUpTo(o, b, n) = RowsUpTo(o, b, n)
  BY DEF RowsUpTo, RowsIn, MatchRows, Ancestors, ClosedBelow, F!RowsUpTo, F!RowsIn,
     F!MatchRows, F!Ancestors, F!ClosedBelow

LEMMA InitFollows == Init => F!Init
  BY DEF Init, StoreInit, F!Init

(* A commit adds the transaction in hand to the table, or finds it there;   *)
(* or it takes the last one back.                                           *)
LEMMA CommitFollows ==
    ASSUME Forking, ForkInv, StoreCommit
    PROVE  F!Next \/ (db'.rows = db.rows /\ origin' = origin)
<1>1. /\ pc = "commit" /\ event # None /\ txn # None /\ sess # None /\ origin' = origin
      /\ txn.todo = {} /\ db' = [rows |-> txn.rows, cursor |-> txn.cursor]
  BY DEF StoreCommit, Commit, Goto, ForkInv, TypeOK
<1>2. origin = Below
  BY <1>1 DEF ForkInv, SessionInv
<1>3. PICK b \in Blocks : b = event.block
  BY <1>1, Committing
<1>4. CASE event.kind = "apply"
  <2>1. PICK i \in 1..Count(b) : EventAt(i)
    BY <1>1, <1>3, <1>4, Committing
  <2>2. Writing(b, i) /\ db'.rows = txn.rows \cup txn.todo
    BY <1>1, <1>3, <2>1 DEF EventAt
  <2>3. CASE db.rows = RowsUpTo(Below, b, i - 1) /\ db'.rows = RowsUpTo(Below, b, i)
    <3>1. i - 1 \in 0..(Len(TxsOf[b]) - 1) /\ (i - 1) + 1 = i
      BY <2>1, CountType DEF Count
    <3>2. F!Extend(b, i - 1)
      BY <1>1, <1>2, <2>3, <3>1, FollowerRows DEF F!Extend
    <3> QED
      BY <1>1, <1>2, <3>1, <3>2, BelowIsPartial DEF F!Next
  <2> QED
    BY <1>1, <2>2, <2>3 DEF Writing
<1>5. CASE event.kind = "undo"
  <2>1. PICK i \in 1..Count(b) : UndoAt(i)
    BY <1>1, <1>3, <1>5, Committing
  <2>2. Retracting(b, i)
    BY <1>1, <1>3, <2>1 DEF UndoAt
  <2>3. CASE db.rows = RowsUpTo(Below, b, i) /\ db'.rows = RowsUpTo(Below, b, i - 1)
    <3>1. i - 1 \in 0..(Len(TxsOf[b]) - 1) /\ (i - 1) + 1 = i
      BY <2>1, CountType DEF Count
    <3>2. F!Retract(b, i - 1)
      BY <1>1, <1>2, <2>3, <3>1, FollowerRows DEF F!Retract
    <3> QED
      BY <1>1, <1>2, <3>1, <3>2, BelowIsPartial DEF F!Next
  <2> QED
    BY <1>1, <2>2, <2>3 DEF Retracting
<1> QED
  BY <1>1, <1>4, <1>5, Committing

LEMMA StepFollows ==
    ASSUME Forking, ForkInv, [Next]_vars PROVE [F!Next]_<<db.rows, origin>>
<1>1. CASE SubscribeOk
  <2>1. /\ db' = db
        /\ origin' = IF origin # Blocks THEN origin
                     ELSE IF request = None THEN Ancestors[tip]
                     ELSE Ancestors[request.hash] \ {request.hash}
    BY <1>1 DEF SubscribeOk, storeVars
  <2>2. origin' \in SUBSET Blocks
    BY NextTypeOK DEF ForkInv, TypeOK
  <2> QED
    BY <2>1, <2>2 DEF F!Next, F!Begin
<1>2. CASE StoreCommit
  BY <1>2, CommitFollows
<1>3. CASE db' = db /\ origin' = origin
  BY <1>3
<1>4. SubscribeOk \/ StoreCommit \/ (db' = db /\ origin' = origin)
  BY DEF Next, Work, Interruption, Start, ReadCursor, ConnectOk, SubscribeRefused, Receive,
     Shutdown, SleepEnds, HandleApply, BeginApplyBlock, HandleFails, HandleNothing,
     HandleUndo, BeginUndoTx, StoreRow, InsertRow, ConnectFails, StatusError, StreamClosed,
     Reconnect, Exit, Signal, Crash, StoreFails, LoseConnection, NodeAdopts, NodeMoves, vars,
     storeVars
<1> QED
  BY <1>1, <1>2, <1>3, <1>4

(* The tracker implements Follower: whatever is interrupted and whichever   *)
(* fork the node goes to, the table changes by one whole transaction at a   *)
(* time, the next one of the fork or the last one taken back.               *)
THEOREM FollowsChainHolds == ASSUME Forking, Single PROVE Spec => FollowsChain
<1>1. Init => F!Init
  BY InitFollows
<1>2. ForkInv /\ [Next]_vars => [F!Next]_<<db.rows, origin>>
  BY StepFollows
<1> QED
  BY <1>1, <1>2, ForkInvariant, PTL DEF Spec, FollowsChain, F!Spec

(* It does so for any blocks, if no session ends in the middle of an undo.  *)
THEOREM FollowsWhenWhole == ASSUME Forking PROVE WholeSpec => FollowsChain
<1>1. Init => F!Init
  BY InitFollows
<1>2. ForkInv /\ [Next /\ WholeBlocks]_vars => [F!Next]_<<db.rows, origin>>
  BY StepFollows
<1> QED
  BY <1>1, <1>2, WholeForkInvariant, PTL DEF WholeSpec, FollowsChain, F!Spec
=============================================================================
