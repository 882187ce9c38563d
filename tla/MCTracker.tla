----------------------------- MODULE MCTracker -----------------------------
(***************************************************************************)
(* Instances of Tracker for TLC: two small block trees.                    *)
(***************************************************************************)
EXTENDS Tracker

CONSTANTS g, a, b, c, d, e, f, t1, t2, t3, t4, t5, s1, s2

(* One chain: g - a - b - c - d, where b has nothing of interest. *)
LineBlocks == {g, a, b, c, d}
LineParent ==
    [x \in LineBlocks \ {g} |-> CASE x = a -> g [] x = b -> a [] x = c -> b [] x = d -> c]
LineSlot ==
    [x \in LineBlocks |-> CASE x = g -> 0 [] x = a -> 3 [] x = b -> 4 [] x = c -> 7 [] x = d -> 8]
LineTxsOf ==
    [x \in LineBlocks |->
        CASE x = a -> <<t1, t2>> [] x = c -> <<t3, t4>> [] x = d -> <<t5>> [] OTHER -> <<>>]

(* Two forks above a: g - a - b - c - f and g - a - d - e; the node goes    *)
(* from the one to the other and back as each outgrows the other.  t2 is in *)
(* b and again in d.                                                        *)
ForkBlocks == {g, a, b, c, d, e, f}
ForkParent ==
    [x \in ForkBlocks \ {g} |->
        CASE x = a -> g
          [] x \in {b, d} -> a
          [] x = c -> b
          [] x = e -> d
          [] x = f -> c]
ForkSlot ==
    [x \in ForkBlocks |->
        CASE x = g -> 0 [] x = a -> 2 [] x = d -> 3 [] x = b -> 5 [] x = c -> 6
          [] x = e -> 8 [] x = f -> 9]
ForkTxsOf ==
    [x \in ForkBlocks |->
        CASE x = a -> <<t1>>
          [] x = b -> <<t2, t3>>
          [] x = d -> <<t2>>
          [] x = e -> <<t4>>
          [] OTHER -> <<>>]

(* The same tree with at most one transaction in a block, and t5, which has *)
(* no Cardano body, in a block that is taken back.                          *)
ForkOneTxOf ==
    [x \in ForkBlocks |-> IF x = b THEN <<t2>> ELSE IF x = c THEN <<t5>> ELSE ForkTxsOf[x]]

SomeMatches ==
    [t \in {t1, t2, t3, t4, t5} |->
        IF t = t1 THEN {s1, s2} ELSE IF t = t3 THEN {s2} ELSE {s1}]

ForkOneMatches == [SomeMatches EXCEPT ![t5] = {}]
=============================================================================
