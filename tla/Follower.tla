------------------------------ MODULE Follower ------------------------------
(***************************************************************************)
(* What the tracker promises about the table `matches`: from the block its *)
(* first session began at, the table always holds the matches of a prefix  *)
(* of one fork of the chain, and changes by one whole transaction at a     *)
(* time, the next one of the fork or the last one taken back.              *)
(* docs/tracker-database.md:48-85.                                         *)
(***************************************************************************)
EXTENDS Chain

VARIABLES
    rows,   \* the table
    origin  \* the blocks the first session began above; Blocks before

Init == rows = {} /\ origin = Blocks

Begin ==
    /\ origin = Blocks
    /\ origin' \in SUBSET Blocks
    /\ rows' = rows

(* The table after n transactions of b and after one more. *)
Extend(b, n) ==
    /\ rows = RowsUpTo(origin, b, n)
    /\ rows' = RowsUpTo(origin, b, n + 1)

Retract(b, n) ==
    /\ rows = RowsUpTo(origin, b, n + 1)
    /\ rows' = RowsUpTo(origin, b, n)

Next ==
    \/ Begin
    \/ /\ origin # Blocks
       /\ origin' = origin
       /\ \E b \in Blocks : \E n \in 0..(Len(TxsOf[b]) - 1) : Extend(b, n) \/ Retract(b, n)

Spec == Init /\ [][Next]_<<rows, origin>>
=============================================================================
