------------------------------- MODULE Chain -------------------------------
(***************************************************************************)
(* The chain the tracker follows, and what each of its transactions gives  *)
(* the tracker to store.  The chain itself belongs to the upstream node    *)
(* and is external; what is fixed here is only what process.rs and         *)
(* store.rs read of it: a block has a slot, a hash, a parent hash and a    *)
(* list of transactions, and a transaction that survives the server-side   *)
(* filter yields one row for each source it matches.                       *)
(***************************************************************************)
EXTENDS Naturals, Sequences, FiniteSets

CONSTANTS
    Blocks,     \* every block any fork of the chain ever has, by hash
    Genesis,    \* the root of the block tree
    Parent,     \* Parent[b]: the block b's header names as its previous hash
    Slot,       \* Slot[b]: the absolute slot of b
    Txs,        \* transaction hashes
    TxsOf,      \* TxsOf[b]: the transactions of b that pass the filter, in order
    Sources,    \* names of the configured [[sources]]
    MatchedBy,  \* MatchedBy[t]: the sources run_specializations matches t to
    None        \* no cursor, point, event, session or transaction

ASSUME BlockTreeAssumption ==
    /\ Genesis \in Blocks
    /\ Parent \in [Blocks \ {Genesis} -> Blocks]
    /\ Slot \in [Blocks -> Nat]
    /\ \A b \in Blocks \ {Genesis} : Slot[Parent[b]] < Slot[b]

ASSUME ContentsAssumption ==
    /\ TxsOf \in [Blocks -> Seq(Txs)]
    /\ MatchedBy \in [Txs -> SUBSET Sources]

-----------------------------------------------------------------------------

(* A set of blocks that holds, with a block, every block below it. *)
ClosedBelow(S) == \A b \in S \ {Genesis} : Parent[b] \in S

(* Ancestors[b]: b and every block below it, the chain whose tip is b. *)
Ancestors ==
    [b \in Blocks |->
        {a \in Blocks : \A S \in SUBSET Blocks : b \in S /\ ClosedBelow(S) => a \in S}]

Height(b) == Cardinality(Ancestors[b])

(* The (slot, hash) pair that names b: store::ChainPoint. *)
Point(b) == [slot |-> Slot[b], hash |-> b]

Points == [slot : Nat, hash : Blocks]

(* A row of the table `matches`.  UNIQUE(tx_hash, source_name) is its key;  *)
(* the lifted payload, the names, the score and the rank depend only on the *)
(* transaction and the configuration and are left out.                      *)
Rows == [tx : Txs, source : Sources, block : Blocks]

(* The rows apply_tx hands to the store for transaction t of block b. *)
MatchRows(b, t) == [tx : {t}, source : MatchedBy[t], block : {b}]

RowsOf(R, t) == {r \in R : r.tx = t}

(* Every row of the first n transactions of b. *)
RowsIn(b, n) == UNION {MatchRows(b, TxsOf[b][i]) : i \in 1..n}

(* Every row of the chain above the blocks in `below`, up to and including  *)
(* the first n transactions of b.                                           *)
RowsUpTo(below, b, n) ==
    LET above == Ancestors[b] \ below IN
    (IF b \in above THEN RowsIn(b, n) ELSE {}) \cup
    UNION {RowsIn(x, Len(TxsOf[x])) : x \in above \ {b}}
=============================================================================
