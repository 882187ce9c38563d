--------------------------- MODULE LiftingProofs ---------------------------
(***************************************************************************)
(* The lifter, for any transaction, parties and match: which slots it      *)
(* visits, and what role each party ends up with.                          *)
(*                                                                         *)
(* A role is what three loops leave behind.  Each loop is shown to do, to  *)
(* every party it names however often, what it does once; so the role is   *)
(* decided by which of the three name the party.                           *)
(***************************************************************************)
EXTENDS SelectionProofs

(* The sequences joined one after another, all of the results on the way.   *)
Accumulates(g, N, seqs) ==
    \A n \in 1 .. N : g[n] = IF n = 1 THEN seqs[n] ELSE g[n - 1] \o seqs[n]

LEMMA Accumulated ==
    ASSUME NEW A, NEW N \in Nat, NEW seqs \in [1 .. N -> Seq(A)]
    PROVE  \E g \in [0 .. N -> Seq(A)] : Accumulates(g, N, seqs)
<1> DEFINE D == Seq(A)
           step == [x \in (1 .. N) \X D |->
                       IF x[1] = 1 THEN seqs[x[1]] ELSE x[2] \o seqs[x[1]]]
           base == <<>>
<1>1. base \in D
  OBVIOUS
<1>2. ASSUME NEW x \in (1 .. N) \X D
      PROVE  (IF x[1] = 1 THEN seqs[x[1]] ELSE x[2] \o seqs[x[1]]) \in D
  <2>1. x[1] \in 1 .. N /\ x[2] \in D /\ seqs[x[1]] \in D
    OBVIOUS
  <2> QED
    BY <2>1
<1>3. step \in [(1 .. N) \X D -> D]
  <2> HIDE DEF D
  <2> QED
    BY <1>2
<1>4. PICK g \in [0 .. N -> D] : RecursBy(g, N, base, step)
  <2> HIDE DEF step, D, base
  <2> QED
    BY <1>1, <1>3, Recursion
<1>5. ASSUME NEW n \in 1 .. N
      PROVE  g[n] = IF n = 1 THEN seqs[n] ELSE g[n - 1] \o seqs[n]
  <2>1. <<n, g[n - 1]>> \in (1 .. N) \X D
    <3>1. n - 1 \in 0 .. N
      OBVIOUS
    <3> HIDE DEF D, step, base
    <3> QED
      BY <1>4, <3>1
  <2>2. g[n] = step[<<n, g[n - 1]>>]
    <3> HIDE DEF D, step, base
    <3> QED
      BY <1>4 DEF RecursBy
  <2> HIDE DEF D, base
  <2> QED
    BY <2>1, <2>2
<1> QED
  BY <1>4, <1>5 DEF Accumulates

(* FlattenSeq visits what is in the sequences, one after another. *)
LEMMA FlattenHolds ==
    ASSUME NEW A, NEW seqs \in Seq(Seq(A))
    PROVE  /\ FlattenSeq(seqs) \in Seq(A)
           /\ Range(FlattenSeq(seqs)) = UNION {Range(seqs[n]) : n \in DOMAIN seqs}
<1> DEFINE N == Len(seqs)
           D == Seq(A)
<1>1. N \in Nat /\ DOMAIN seqs = 1 .. N /\ \A n \in 1 .. N : seqs[n] \in D
  OBVIOUS
<1>2. CASE N = 0
  <2>1. seqs = <<>> /\ FlattenSeq(seqs) = seqs
    BY <1>1, <1>2 DEF FlattenSeq
  <2>2. DOMAIN seqs = {} /\ Range(seqs) = {}
    BY <1>1, <1>2 DEF Range
  <2>3. Range(FlattenSeq(seqs)) = {}
    BY <2>1, <2>2
  <2>4. UNION {Range(seqs[n]) : n \in DOMAIN seqs} = {}
    BY <2>2
  <2>5. <<>> \in Seq(A)
    OBVIOUS
  <2> QED
    BY <2>1, <2>3, <2>4, <2>5
<1>3. CASE N # 0
  <2> DEFINE Unfolds(f) ==
                 f = [i \in 1 .. Len(seqs) |-> IF i = 1 THEN seqs[i] ELSE f[i - 1] \o seqs[i]]
             flatten == CHOOSE f : Unfolds(f)
  <2>2. PICK g \in [0 .. N -> D] : Accumulates(g, N, seqs)
    <3>1. N \in Nat /\ seqs \in [1 .. N -> D]
      BY <1>1
    <3> HIDE DEF N
    <3> QED
      BY <3>1, Accumulated
  <2> DEFINE h == [i \in 1 .. N |-> g[i]]
  <2>4. Unfolds(h)
    <3>1. ASSUME NEW i \in 1 .. N
          PROVE  h[i] = IF i = 1 THEN seqs[i] ELSE h[i - 1] \o seqs[i]
      <4>2. g[i] = IF i = 1 THEN seqs[i] ELSE g[i - 1] \o seqs[i]
        BY <2>2 DEF Accumulates
      <4>3. i # 1 => h[i - 1] = g[i - 1]
        BY <1>1
      <4> QED
        BY <4>2, <4>3
    <3> HIDE DEF D
    <3> QED
      BY <3>1
  <2>5. Unfolds(flatten)
    BY <2>4
  <2>6. FlattenSeq(seqs) = flatten[N]
    BY <1>3 DEF FlattenSeq
  <2> HIDE DEF flatten, h
  <2>7. \A i \in 1 .. N : flatten[i] = IF i = 1 THEN seqs[i] ELSE flatten[i - 1] \o seqs[i]
    BY <2>5
  <2> DEFINE Holds(n) == /\ flatten[n] \in D
                         /\ Range(flatten[n]) = UNION {Range(seqs[k]) : k \in 1 .. n}
             T == {n \in Nat : n = 0 \/ Holds(n)}
  <2>8. ASSUME NEW n \in 1 .. N, n - 1 \in T PROVE n \in T
    <3>1. CASE n = 1
      <4>1. flatten[n] = seqs[n] /\ 1 .. n = {n}
        <5>1. flatten[n] = seqs[n]
          BY <2>7, <3>1
        <5>2. 1 .. n = {n}
          BY <3>1
        <5> QED
          BY <5>1, <5>2
      <4>2. UNION {Range(seqs[k]) : k \in 1 .. n} = Range(seqs[n])
        BY <4>1
      <4>3. flatten[n] \in D
        BY <1>1, <4>1
      <4> QED
        BY <4>1, <4>2, <4>3
    <3>2. CASE n # 1
      <4>1. flatten[n] = flatten[n - 1] \o seqs[n]
        BY <2>7, <3>2
      <4>2. Holds(n - 1) /\ seqs[n] \in D
        BY <1>1, <2>8, <3>2
      <4>3. 1 .. n = (1 .. (n - 1)) \cup {n}
        OBVIOUS
      <4>4. flatten[n] \in D /\ Range(flatten[n]) = Range(flatten[n - 1]) \cup Range(seqs[n])
        BY <4>1, <4>2, Joined
      <4>5. UNION {Range(seqs[k]) : k \in 1 .. n}
              = (UNION {Range(seqs[k]) : k \in 1 .. (n - 1)}) \cup Range(seqs[n])
        BY <4>3
      <4>6. Holds(n)
        <5> HIDE DEF D
        <5> QED
          BY <4>2, <4>4, <4>5
      <4> HIDE DEF Holds
      <4> QED
        BY <4>6
    <3> QED
      BY <3>1, <3>2
  <2>9. N \in T
    <3>1. 0 \in T
      OBVIOUS
    <3>2. N \in Nat
      BY <1>1
    <3>3. 0 .. N \subseteq T
      <4> HIDE DEF T, N
      <4> QED
        BY <2>8, <3>1, <3>2, UpTo, Zenon
    <3> HIDE DEF T
    <3> QED
      BY <3>2, <3>3
  <2>10. Holds(N)
    BY <1>3, <2>9
  <2> QED
    BY <1>1, <2>6, <2>10
<1> QED
  BY <1>2, <1>3

(* SetToSeq visits what is in the set. *)
LEMMA SetVisited ==
    ASSUME NEW S, IsFiniteSet(S)
    PROVE  SetToSeq(S) \in Seq(S) /\ Range(SetToSeq(S)) = S
<1> DEFINE N == Cardinality(S)
           s == SetToSeq(S)
<1>1. N \in Nat /\ ExistsBijection(1 .. N, S)
  BY FS_CardinalityType
<1>2. \E f \in [1 .. N -> S] : IsInjective(f)
  BY <1>1 DEF ExistsBijection, Bijection, Injection
<1>3. s \in [1 .. N -> S] /\ IsInjective(s)
  BY <1>2 DEF SetToSeq
<1> HIDE DEF s
<1>4. s \in Injection(1 .. N, S)
  BY <1>3 DEF Injection
<1>5. IsFiniteSet(1 .. N) /\ Cardinality(1 .. N) = N
  BY <1>1, CountTo
<1>6. s \in Surjection(1 .. N, S)
  <2> HIDE DEF N
  <2>1. Cardinality(1 .. N) = Cardinality(S)
    BY <1>5 DEF N
  <2> QED
    BY <1>4, <2>1, FS_Injection
<1>7. Range(s) = S
  BY <1>3, <1>6 DEF Surjection, Range
<1>8. s \in Seq(S)
  BY <1>1, <1>3
<1> QED
  BY <1>7, <1>8 DEF s

(* The lifter visits the slots of a match, and no others.                   *)
LEMMA SlotsVisited ==
    ASSUME NEW S, IsFiniteSet(S), S \in SUBSET Nat, NEW map \in Seq(SUBSET S)
    PROVE  IsSequence(Slots(map)) /\ Range(Slots(map)) = SlotsOf(map)
<1> DEFINE seqs == [n \in DOMAIN map |-> SetToSeq(map[n])]
<1>1. DOMAIN map = 1 .. Len(map) /\ Len(map) \in Nat
  OBVIOUS
<1>2. ASSUME NEW n \in DOMAIN map PROVE seqs[n] \in Seq(S) /\ Range(seqs[n]) = map[n]
  <2>1. seqs[n] = SetToSeq(map[n])
    OBVIOUS
  <2>2. map[n] \in SUBSET S
    BY <1>1
  <2>3. IsFiniteSet(map[n])
    BY <2>2, FS_Subset
  <2> HIDE DEF seqs
  <2>4. seqs[n] \in Seq(map[n]) /\ Range(seqs[n]) = map[n]
    BY <2>1, <2>3, SetVisited
  <2> QED
    BY <2>2, <2>4
<1>3. seqs \in Seq(Seq(S)) /\ DOMAIN seqs = DOMAIN map
  <2>1. seqs \in [1 .. Len(map) -> Seq(S)]
    BY <1>1, <1>2
  <2> HIDE DEF seqs
  <2> QED
    BY <1>1, <2>1
<1>4. Slots(map) = FlattenSeq(seqs)
  BY DEF Slots
<1> HIDE DEF seqs
<1>5. Slots(map) \in Seq(S) /\ Range(Slots(map)) = UNION {Range(seqs[n]) : n \in DOMAIN seqs}
  BY <1>3, <1>4, FlattenHolds
<1>6. {Range(seqs[n]) : n \in DOMAIN seqs} = ToSet(map)
  BY <1>2, <1>3 DEF ToSet
<1> QED
  BY <1>5, <1>6, SequenceOf DEF SlotsOf

-----------------------------------------------------------------------------
(* Roles *)

Kinds == {"Absent", "Input", "Output", "Signer", "Multiple"}
Acts == {"Input", "Output", "Signer"}

LEMMA ActStays ==
    ASSUME NEW P, NEW roles \in [P -> Kinds], NEW role \in Acts, NEW n \in P \cup {None}
    PROVE  /\ Act(roles, n, role) \in [P -> Kinds]
           /\ \A m \in P : Act(roles, n, role)[m] =
                  IF n # None /\ m = n THEN CombineRole(roles[m], role) ELSE roles[m]
<1>1. \A a \in Kinds : CombineRole(a, role) \in Kinds
  BY DEF CombineRole, Kinds, Acts
<1> QED
  BY <1>1 DEF Act

(* One after another, the parties of S act in the role. *)
Enacts(g, roles, S, role) ==
    /\ g[0] = roles /\ Acting(roles, S, role) = g[Len(S)]
    /\ \A n \in 1 .. Len(S) : g[n] = Act(g[n - 1], S[n], role)

LEMMA ActingTrace ==
    ASSUME NEW P, NEW roles \in [P -> Kinds], NEW role \in Acts, NEW S \in Seq(P \cup {None})
    PROVE  \E g \in [0 .. Len(S) -> [P -> Kinds]] : Enacts(g, roles, S, role)
<1> DEFINE N == Len(S)
           D == [P -> Kinds]
           step == [x \in (1 .. N) \X D |-> Act(x[2], S[x[1]], role)]
<1>1. N \in Nat /\ DOMAIN S = 1 .. N /\ \A n \in 1 .. N : S[n] \in P \cup {None}
  OBVIOUS
<1>2. step \in [(1 .. N) \X D -> D]
  <2>1. ASSUME NEW n \in 1 .. N, NEW r \in D PROVE Act(r, S[n], role) \in D
    BY <1>1, ActStays
  <2> HIDE DEF D
  <2> QED
    BY <2>1
<1>3. PICK it \in [SUBSET (1 .. N) -> D] : Folds(it, N, roles, step)
  <2>1. roles \in D
    OBVIOUS
  <2> HIDE DEF step, D, N
  <2> QED
    BY <1>1, <1>2, <2>1, FoldTrace
<1> DEFINE Unfolds(f) ==
        f = [s \in SUBSET (DOMAIN S) |->
                IF s = {} THEN roles ELSE Act(f[s \ {Max(s)}], S[Max(s)], role)]
           iter == CHOOSE f : Unfolds(f)
<1>4. Unfolds(it)
  <2>1. ASSUME NEW s \in SUBSET (1 .. N), s # {}
        PROVE  it[s] = Act(it[s \ {Max(s)}], S[Max(s)], role)
    <3> HIDE DEF D
    <3>1. Max(s) \in 1 .. N
      BY <1>1, <2>1, MaxInInterval
    <3>2. it[s \ {Max(s)}] \in D
      BY <1>3
    <3>3. it[s] = step[<<Max(s), it[s \ {Max(s)}]>>]
      BY <1>3, <2>1 DEF Folds
    <3> QED
      BY <3>1, <3>2, <3>3
  <2>2. it[{}] = roles
    BY <1>3 DEF Folds
  <2>3. it = [s \in SUBSET (1 .. N) |-> it[s]]
    BY <1>3
  <2> HIDE DEF D, step
  <2> QED
    BY <1>1, <2>1, <2>2, <2>3
<1>5. Unfolds(iter)
  BY <1>4
<1>6. Acting(roles, S, role) = iter[DOMAIN S]
  BY DEF Acting, FoldLeft, MapThenFoldSet
<1> DEFINE g == [n \in 0 .. N |-> iter[1 .. n]]
<1> HIDE DEF iter, step
<1>7. g[0] = roles
  BY <1>1, <1>5
<1>8. ASSUME NEW n \in 1 .. N PROVE g[n] = Act(g[n - 1], S[n], role)
  <2>1. /\ 1 .. n \in SUBSET (1 .. N) /\ 1 .. n # {}
        /\ Max(1 .. n) = n /\ (1 .. n) \ {n} = 1 .. (n - 1)
    <3>1. N \in Nat
      BY <1>1
    <3> HIDE DEF N
    <3> QED
      BY <3>1, LastOfPrefix
  <2>2. 1 .. n \in SUBSET (DOMAIN S) /\ 1 .. n # {}
    <3> HIDE DEF N
    <3> QED
      BY <1>1, <2>1
  <2>3. iter[1 .. n] = Act(iter[(1 .. n) \ {Max(1 .. n)}], S[Max(1 .. n)], role)
    BY <1>5, <2>2
  <2>4. g[n] = iter[1 .. n] /\ g[n - 1] = iter[1 .. (n - 1)]
    BY <1>1
  <2> QED
    BY <2>1, <2>3, <2>4
<1>9. Acting(roles, S, role) = g[N]
  BY <1>1, <1>6
<1>10. g \in [0 .. N -> D]
  <2> DEFINE T == {n \in Nat : n <= N => g[n] \in D}
  <2>1. 0 \in T
    BY <1>7
  <2>2. ASSUME NEW n \in 1 .. N, n - 1 \in T PROVE n \in T
    <3>1. g[n - 1] \in D
      BY <1>1, <2>2
    <3>2. Act(g[n - 1], S[n], role) \in D
      <4> HIDE DEF g
      <4> QED
        BY <1>1, <3>1, ActStays
    <3>3. g[n] = Act(g[n - 1], S[n], role)
      BY <1>8
    <3>4. n \in Nat
      BY <1>1
    <3> HIDE DEF g, D
    <3> QED
      BY <3>2, <3>3, <3>4
  <2>3. 0 .. N \subseteq T
    <3> HIDE DEF T, N
    <3> QED
      BY <1>1, <2>1, <2>2, UpTo
  <2> HIDE DEF D
  <2> QED
    BY <1>1, <2>3
<1> HIDE DEF g
<1> QED
  BY <1>7, <1>8, <1>9, <1>10 DEF Enacts

(* Acting twice is acting once: a party that is named acts, the others do   *)
(* not.                                                                     *)
LEMMA ActingIs ==
    ASSUME NEW P, None \notin P, NEW roles \in [P -> Kinds], NEW role \in Acts,
           NEW S \in Seq(P \cup {None})
    PROVE  /\ Acting(roles, S, role) \in [P -> Kinds]
           /\ \A m \in P : Acting(roles, S, role)[m] =
                  IF m \in Range(S) THEN CombineRole(roles[m], role) ELSE roles[m]
<1> DEFINE N == Len(S)
           D == [P -> Kinds]
<1>1. N \in Nat /\ DOMAIN S = 1 .. N /\ \A n \in 1 .. N : S[n] \in P \cup {None}
  OBVIOUS
<1>2. PICK g \in [0 .. N -> D] : Enacts(g, roles, S, role)
  BY ActingTrace
<1>3. \A a \in Kinds : CombineRole(CombineRole(a, role), role) = CombineRole(a, role)
  BY DEF CombineRole, Kinds, Acts
<1> DEFINE Done(n) == \A m \in P :
               g[n][m] = IF \E k \in 1 .. n : S[k] = m THEN CombineRole(roles[m], role) ELSE roles[m]
           T == {n \in Nat : Done(n)}
<1>4. 0 \in T
  BY <1>2 DEF Enacts
<1>5. ASSUME NEW n \in 1 .. N, n - 1 \in T PROVE n \in T
  <2>1. g[n - 1] \in D
    <3>1. n - 1 \in 0 .. N
      BY <1>1
    <3> HIDE DEF D
    <3> QED
      BY <1>2, <3>1
  <2>2. g[n] = Act(g[n - 1], S[n], role) /\ S[n] \in P \cup {None}
    BY <1>1, <1>2 DEF Enacts
  <2>3. ASSUME NEW m \in P
        PROVE  g[n][m] = IF \E k \in 1 .. n : S[k] = m THEN CombineRole(roles[m], role) ELSE roles[m]
    <3>1. g[n][m] = IF S[n] = m THEN CombineRole(g[n - 1][m], role) ELSE g[n - 1][m]
      BY <2>1, <2>2, ActStays
    <3>2. g[n - 1][m] = IF \E k \in 1 .. (n - 1) : S[k] = m THEN CombineRole(roles[m], role) ELSE roles[m]
      BY <1>5
    <3>3. (\E k \in 1 .. n : S[k] = m) <=> S[n] = m \/ \E k \in 1 .. (n - 1) : S[k] = m
      OBVIOUS
    <3>4. CombineRole(CombineRole(roles[m], role), role) = CombineRole(roles[m], role)
      BY <1>3
    <3> QED
      BY <3>1, <3>2, <3>3, <3>4
  <2>4. Done(n)
    BY <2>3
  <2> HIDE DEF Done
  <2> QED
    BY <2>4
<1>6. N \in T
  <2>1. N \in Nat
    BY <1>1
  <2>2. 0 .. N \subseteq T
    <3> HIDE DEF T, N
    <3> QED
      BY <1>4, <1>5, <2>1, UpTo
  <2> HIDE DEF T
  <2> QED
    BY <2>1, <2>2
<1>7. \A m \in P : m \in Range(S) <=> \E k \in 1 .. N : S[k] = m
  BY <1>1 DEF Range
<1>8. g[N] \in D
  <2> HIDE DEF D
  <2> QED
    BY <1>1, <1>2
<1>9. Done(N)
  BY <1>6
<1> QED
  BY <1>2, <1>7, <1>8, <1>9 DEF Enacts

(* The role of a party that did the deeds. *)
RoleIs(role, deeds) ==
    CASE deeds = {} -> role = "Absent"
      [] Cardinality(deeds) = 1 -> role \in deeds
      [] OTHER -> role = "Multiple"

LEMMA RoleOfDeeds ==
    ASSUME NEW a \in BOOLEAN, NEW b \in BOOLEAN, NEW c \in BOOLEAN,
           NEW one, one = (IF a THEN CombineRole("Absent", "Input") ELSE "Absent"),
           NEW two, two = (IF b THEN CombineRole(one, "Output") ELSE one),
           NEW three, three = (IF c THEN CombineRole(two, "Signer") ELSE two)
    PROVE  RoleIs(three, {x \in Acts : CASE x = "Input" -> a [] x = "Output" -> b [] OTHER -> c})
<1> DEFINE deeds == {x \in Acts : CASE x = "Input" -> a [] x = "Output" -> b [] OTHER -> c}
<1>1. /\ "Input" \in deeds <=> a
      /\ "Output" \in deeds <=> b
      /\ "Signer" \in deeds <=> c
      /\ deeds \subseteq Acts
  BY DEF Acts
<1>2. Cardinality({"Input"}) = 1 /\ Cardinality({"Output"}) = 1 /\ Cardinality({"Signer"}) = 1
  BY FS_Singleton
<1>3. Cardinality(deeds) = 1 => \E x : deeds = {x}
  <2>1. IsFiniteSet({"Input"}) /\ IsFiniteSet({"Input", "Output"}) /\ IsFiniteSet(Acts)
    <3>1. IsFiniteSet({"Input"} \cup {"Output"})
      BY FS_Singleton, FS_AddElement
    <3>2. IsFiniteSet(({"Input"} \cup {"Output"}) \cup {"Signer"})
      BY <3>1, FS_AddElement
    <3>3. {"Input", "Output"} = {"Input"} \cup {"Output"}
      OBVIOUS
    <3>4. Acts = ({"Input"} \cup {"Output"}) \cup {"Signer"}
      BY DEF Acts
    <3> QED
      BY <3>1, <3>2, <3>3, <3>4, FS_Singleton
  <2> HIDE DEF deeds
  <2>2. IsFiniteSet(deeds)
    BY <1>1, <2>1, FS_Subset
  <2> QED
    BY <2>2, FS_Singleton
<1> HIDE DEF deeds
<1>4. /\ a /\ ~b /\ ~c => deeds = {"Input"}
      /\ ~a /\ b /\ ~c => deeds = {"Output"}
      /\ ~a /\ ~b /\ c => deeds = {"Signer"}
      /\ ~a /\ ~b /\ ~c => deeds = {}
  BY <1>1 DEF Acts
<1>5. (a /\ b) \/ (a /\ c) \/ (b /\ c) => deeds # {} /\ Cardinality(deeds) # 1
  BY <1>1, <1>3
<1>6. (a \/ b \/ c) => deeds # {}
  BY <1>1
<1>7. three = CASE a /\ ~b /\ ~c -> "Input"
                [] ~a /\ b /\ ~c -> "Output"
                [] ~a /\ ~b /\ c -> "Signer"
                [] ~a /\ ~b /\ ~c -> "Absent"
                [] OTHER -> "Multiple"
  BY DEF CombineRole
<1>8. RoleIs(three, deeds)
  <2>1. CASE ~a /\ ~b /\ ~c
    <3>1. three = "Absent" /\ deeds = {} /\ Cardinality(deeds) = 0
      BY <1>4, <1>7, <2>1, FS_EmptySet
    <3> QED
      BY <3>1 DEF RoleIs
  <2>2. CASE a /\ ~b /\ ~c
    BY <1>2, <1>4, <1>7, <2>2 DEF RoleIs
  <2>3. CASE ~a /\ b /\ ~c
    BY <1>2, <1>4, <1>7, <2>3 DEF RoleIs
  <2>4. CASE ~a /\ ~b /\ c
    BY <1>2, <1>4, <1>7, <2>4 DEF RoleIs
  <2>5. CASE (a /\ b) \/ (a /\ c) \/ (b /\ c)
    BY <1>5, <1>7, <2>5 DEF RoleIs
  <2> QED
    BY <2>1, <2>2, <2>3, <2>4, <2>5
<1> QED
  BY <1>8 DEF deeds

(* What the three loops note of a party. *)
Noted(ins, outs, signers, n) ==
    {x \in Acts : CASE x = "Input" -> n \in Range(PartiesOf(ins))
                    [] x = "Output" -> n \in Range(PartiesOf(outs))
                    [] OTHER -> \E s \in signers : s.party = n}

(* A party's role is all that the loops note of it.                         *)
LEMMA RolesAre ==
    ASSUME NEW parties, NEW P, P = DOMAIN parties, None \notin P,
           NEW ins, PartiesOf(ins) \in Seq(P \cup {None}),
           NEW outs, PartiesOf(outs) \in Seq(P \cup {None}),
           NEW signers, IsFiniteSet(signers), \A s \in signers : s.party \in P \cup {None},
           NEW n \in P
    PROVE  RoleIs(Roles(parties, ins, outs, signers)[n], Noted(ins, outs, signers, n))
<1> DEFINE sig == SetToSeq(signers)
           absent == [m \in P |-> "Absent"]
           spent == Acting(absent, PartiesOf(ins), "Input")
           paid == Acting(spent, PartiesOf(outs), "Output")
           signed == Acting(paid, PartiesOf(sig), "Signer")
<1>1. sig \in Seq(signers) /\ Range(sig) = signers
  BY SetVisited
<1> HIDE DEF sig
<1>2. PartiesOf(sig) \in Seq(P \cup {None})
  <2>1. DOMAIN sig = 1 .. Len(sig) /\ Len(sig) \in Nat
    BY <1>1
  <2>2. \A k \in 1 .. Len(sig) : sig[k] \in signers
    BY <1>1
  <2>3. \A k \in 1 .. Len(sig) : sig[k].party \in P \cup {None}
    BY <2>2
  <2>4. PartiesOf(sig) = [k \in 1 .. Len(sig) |-> sig[k].party]
    BY <2>1 DEF PartiesOf
  <2> QED
    BY <2>1, <2>3, <2>4
<1>3. n \in Range(PartiesOf(sig)) <=> \E s \in signers : s.party = n
  <2>1. n \in Range(PartiesOf(sig)) <=> \E k \in DOMAIN sig : sig[k].party = n
    BY DEF PartiesOf, Range
  <2>2. (\E k \in DOMAIN sig : sig[k].party = n) <=> \E s \in Range(sig) : s.party = n
    BY DEF Range
  <2> QED
    BY <1>1, <2>1, <2>2
<1>4. absent \in [P -> Kinds] /\ absent[n] = "Absent"
  BY DEF Kinds
<1>5. "Input" \in Acts /\ "Output" \in Acts /\ "Signer" \in Acts
  BY DEF Acts
<1> HIDE DEF absent
<1>6. /\ spent \in [P -> Kinds]
      /\ spent[n] = IF n \in Range(PartiesOf(ins)) THEN CombineRole("Absent", "Input") ELSE "Absent"
  BY <1>4, <1>5, ActingIs
<1> HIDE DEF spent
<1>7. /\ paid \in [P -> Kinds]
      /\ paid[n] = IF n \in Range(PartiesOf(outs)) THEN CombineRole(spent[n], "Output") ELSE spent[n]
  BY <1>5, <1>6, ActingIs
<1> HIDE DEF paid
<1>8. signed[n] = IF \E s \in signers : s.party = n THEN CombineRole(paid[n], "Signer") ELSE paid[n]
  <2>1. signed[n] = IF n \in Range(PartiesOf(sig)) THEN CombineRole(paid[n], "Signer") ELSE paid[n]
    <3>1. "Signer" \in Acts /\ paid \in [P -> Kinds] /\ PartiesOf(sig) \in Seq(P \cup {None})
      BY <1>2, <1>5, <1>7
    <3>2. \A m \in P : signed[m] =
            IF m \in Range(PartiesOf(sig)) THEN CombineRole(paid[m], "Signer") ELSE paid[m]
      BY <3>1, ActingIs
    <3> QED
      BY <3>2
  <2> HIDE DEF signed
  <2> QED
    BY <1>3, <2>1
<1>9. Roles(parties, ins, outs, signers) = signed
  BY DEF Roles, signed, paid, spent, absent, sig
<1> HIDE DEF signed
<1> DEFINE a == n \in Range(PartiesOf(ins))
           b == n \in Range(PartiesOf(outs))
           c == \E s \in signers : s.party = n
<1>10. a \in BOOLEAN /\ b \in BOOLEAN /\ c \in BOOLEAN
  OBVIOUS
<1>11. /\ spent[n] = IF a THEN CombineRole("Absent", "Input") ELSE "Absent"
       /\ paid[n] = IF b THEN CombineRole(spent[n], "Output") ELSE spent[n]
       /\ signed[n] = IF c THEN CombineRole(paid[n], "Signer") ELSE paid[n]
  BY <1>6, <1>7, <1>8
<1> HIDE DEF a, b, c
<1>12. RoleIs(signed[n],
              {x \in Acts : CASE x = "Input" -> a [] x = "Output" -> b [] OTHER -> c})
  BY <1>10, <1>11, RoleOfDeeds
<1> QED
  BY <1>9, <1>12 DEF a, b, c, Noted

-----------------------------------------------------------------------------
(* Whose slots they are *)

(* n is the least of the numbers in S. *)
Least(n, S) == n \in S /\ \A k \in S : n <= k

LEMMA FirstIsLeast ==
    ASSUME NEW P \in SUBSET Nat, NEW S \in SUBSET P
    PROVE  /\ FirstParty(S) \in P \cup {None}
           /\ \A n \in P : FirstParty(S) = n <=> Least(n, S)
<1>1. None \notin P
  BY NoneAssumption
<1>2. CASE S = {}
  BY <1>1, <1>2 DEF FirstParty, Least
<1>3. CASE S # {}
  <2>1. Min(S) \in S /\ \A x \in S : Min(S) <= x
    BY <1>3, MinInNat
  <2>2. FirstParty(S) = Min(S)
    BY <1>3 DEF FirstParty
  <2>3. ASSUME NEW n \in P PROVE Min(S) = n <=> Least(n, S)
    <3>1. Least(n, S) => Min(S) = n
      <4> SUFFICES ASSUME Least(n, S) PROVE Min(S) = n
        OBVIOUS
      <4>1. n <= Min(S) /\ Min(S) <= n /\ n \in Nat /\ Min(S) \in Nat
        BY <2>1 DEF Least
      <4> QED
        BY <4>1
    <3> QED
      BY <2>1, <3>1 DEF Least
  <2> QED
    BY <2>1, <2>2, <2>3
<1> QED
  BY <1>2, <1>3

(* The first of the parties that have the address of the n-th. *)
Here(parties, n) == Least(n, {k \in DOMAIN parties : parties[k] = parties[n]})

LEMMA PartyIsHere ==
    ASSUME NEW parties, IsSequence(parties), NEW addr
    PROVE  /\ PartyAt(parties, addr) \in DOMAIN parties \cup {None}
           /\ \A n \in DOMAIN parties :
                PartyAt(parties, addr) = n <=> parties[n] = addr /\ Here(parties, n)
<1> DEFINE S == {k \in DOMAIN parties : parties[k] = addr}
<1>1. DOMAIN parties \in SUBSET Nat
  BY DEF IsSequence
<1>2. S \in SUBSET DOMAIN parties /\ PartyAt(parties, addr) = FirstParty(S)
  BY DEF PartyAt
<1>3. ASSUME NEW n \in DOMAIN parties
      PROVE  Least(n, S) <=> parties[n] = addr /\ Here(parties, n)
  BY DEF Least, Here
<1> HIDE DEF S
<1> QED
  BY <1>1, <1>2, <1>3, FirstIsLeast

(* The lifted inputs: an input is the first party's at its address, and     *)
(* every slot of the match is among them (match_party, lift_inputs).        *)
InputsShown(p, parties, map, ins) ==
    /\ PartiesOf(ins) \in Seq(DOMAIN parties \cup {None})
    /\ \A n \in DOMAIN parties :
         n \in Range(PartiesOf(ins)) <=>
             Here(parties, n) /\ \E i \in Range(ins) : ResolvedAt(p, i.ref, parties[n])
    /\ \A k \in SlotsOf(map) : \E i \in Range(ins) : i.ref = p.ins[k]

LEMMA InputsSeen ==
    ASSUME NEW p, IsPayload(p), NEW parties, IsSequence(parties), None \notin Range(parties),
           NEW map \in Seq(SUBSET DOMAIN p.ins),
           \A k \in SlotsOf(map) :
               p.ins[k] \in DOMAIN p.resolved => p.resolved[p.ins[k]] # Garbled
    PROVE  InputsShown(p, parties, map, LiftInputs(p, parties, map))
<1> DEFINE s == Slots(map)
           ins == LiftInputs(p, parties, map)
<1>1. IsFiniteSet(DOMAIN p.ins) /\ DOMAIN p.ins \in SUBSET Nat
  BY RangeIsFinite DEF IsPayload, IsSequence
<1>2. IsSequence(s) /\ Range(s) = SlotsOf(map)
  BY <1>1, SlotsVisited
<1>3. DOMAIN s = 1 .. Len(s) /\ Len(s) \in Nat
  BY <1>2 DEF IsSequence
<1> HIDE DEF s
<1>4. /\ DOMAIN ins = DOMAIN s
      /\ \A x \in DOMAIN s : /\ ins[x].ref = p.ins[s[x]]
                             /\ ins[x].party = PartyAt(parties, AddressAt(p, ins[x].ref))
  BY DEF LiftInputs, s
<1> HIDE DEF ins
<1>5. /\ DOMAIN PartiesOf(ins) = DOMAIN s
      /\ \A x \in DOMAIN s : PartiesOf(ins)[x] = ins[x].party
      /\ PartiesOf(ins) = [x \in 1 .. Len(s) |-> ins[x].party]
  BY <1>3, <1>4 DEF PartiesOf
<1>6. PartiesOf(ins) \in Seq(DOMAIN parties \cup {None})
  <2>1. \A x \in 1 .. Len(s) : ins[x].party \in DOMAIN parties \cup {None}
    BY <1>3, <1>4, PartyIsHere
  <2> QED
    BY <1>3, <1>5, <2>1
<1>7. ASSUME NEW n \in DOMAIN parties, NEW x \in DOMAIN s
      PROVE  ins[x].party = n <=> Here(parties, n) /\ ResolvedAt(p, ins[x].ref, parties[n])
  <2>1. ins[x].party = n <=> parties[n] = AddressAt(p, ins[x].ref) /\ Here(parties, n)
    BY <1>4, PartyIsHere
  <2>2. s[x] \in SlotsOf(map)
    BY <1>2 DEF Range
  <2>3. ins[x].ref \in DOMAIN p.resolved => p.resolved[ins[x].ref] # Garbled
    BY <1>4, <2>2
  <2>4. parties[n] # None
    BY DEF Range
  <2>5. parties[n] = AddressAt(p, ins[x].ref) <=> ResolvedAt(p, ins[x].ref, parties[n])
    BY <2>3, <2>4 DEF AddressAt, ResolvedAt
  <2> QED
    BY <2>1, <2>5
<1>8. ASSUME NEW n \in DOMAIN parties
      PROVE  n \in Range(PartiesOf(ins)) <=>
                 Here(parties, n) /\ \E i \in Range(ins) : ResolvedAt(p, i.ref, parties[n])
  <2>1. n \in Range(PartiesOf(ins)) <=> \E x \in DOMAIN s : ins[x].party = n
    <3> DEFINE q == PartiesOf(ins)
    <3>1. DOMAIN q = DOMAIN s /\ \A x \in DOMAIN s : q[x] = ins[x].party
      BY <1>5
    <3> HIDE DEF q
    <3>2. n \in Range(q) <=> \E x \in DOMAIN q : q[x] = n
      BY Zenon DEF Range
    <3> QED
      BY <3>1, <3>2 DEF q
  <2>2. (\E i \in Range(ins) : ResolvedAt(p, i.ref, parties[n]))
          <=> \E x \in DOMAIN s : ResolvedAt(p, ins[x].ref, parties[n])
    BY <1>4 DEF Range
  <2> QED
    BY <1>7, <2>1, <2>2
<1>9. ASSUME NEW k \in SlotsOf(map) PROVE \E i \in Range(ins) : i.ref = p.ins[k]
  <2>1. PICK x \in DOMAIN s : s[x] = k
    BY <1>2 DEF Range
  <2> QED
    BY <1>4, <2>1 DEF Range
<1> QED
  BY <1>6, <1>8, <1>9 DEF ins, InputsShown

(* The same of the lifted outputs (lift_outputs). *)
OutputsShown(p, parties, map, outs) ==
    /\ PartiesOf(outs) \in Seq(DOMAIN parties \cup {None})
    /\ \A n \in DOMAIN parties :
         n \in Range(PartiesOf(outs)) <=>
             Here(parties, n) /\ \E o \in Range(outs) : o.address = parties[n]
    /\ \A k \in SlotsOf(map) : \E o \in Range(outs) : o.address = p.outs[k].addr

LEMMA OutputsSeen ==
    ASSUME NEW p, IsPayload(p), NEW parties, IsSequence(parties),
           NEW map \in Seq(SUBSET DOMAIN p.outs)
    PROVE  OutputsShown(p, parties, map, LiftOutputs(p, parties, map))
<1> DEFINE s == Slots(map)
           outs == LiftOutputs(p, parties, map)
<1>1. IsFiniteSet(DOMAIN p.outs) /\ DOMAIN p.outs \in SUBSET Nat
  BY RangeIsFinite DEF IsPayload, IsSequence
<1>2. IsSequence(s) /\ Range(s) = SlotsOf(map)
  BY <1>1, SlotsVisited
<1>3. DOMAIN s = 1 .. Len(s) /\ Len(s) \in Nat
  BY <1>2 DEF IsSequence
<1> HIDE DEF s
<1>4. /\ DOMAIN outs = DOMAIN s
      /\ \A x \in DOMAIN s : /\ outs[x].address = p.outs[s[x]].addr
                             /\ outs[x].party = PartyAt(parties, outs[x].address)
  BY DEF LiftOutputs, s
<1> HIDE DEF outs
<1>5. /\ DOMAIN PartiesOf(outs) = DOMAIN s
      /\ \A x \in DOMAIN s : PartiesOf(outs)[x] = outs[x].party
      /\ PartiesOf(outs) = [x \in 1 .. Len(s) |-> outs[x].party]
  BY <1>3, <1>4 DEF PartiesOf
<1>6. PartiesOf(outs) \in Seq(DOMAIN parties \cup {None})
  <2>1. \A x \in 1 .. Len(s) : outs[x].party \in DOMAIN parties \cup {None}
    BY <1>3, <1>4, PartyIsHere
  <2> QED
    BY <1>3, <1>5, <2>1
<1>7. ASSUME NEW n \in DOMAIN parties, NEW x \in DOMAIN s
      PROVE  outs[x].party = n <=> Here(parties, n) /\ outs[x].address = parties[n]
  BY <1>4, PartyIsHere
<1>8. ASSUME NEW n \in DOMAIN parties
      PROVE  n \in Range(PartiesOf(outs)) <=>
                 Here(parties, n) /\ \E o \in Range(outs) : o.address = parties[n]
  <2>1. n \in Range(PartiesOf(outs)) <=> \E x \in DOMAIN s : outs[x].party = n
    BY <1>5 DEF Range
  <2>2. (\E o \in Range(outs) : o.address = parties[n])
          <=> \E x \in DOMAIN s : outs[x].address = parties[n]
    BY <1>4 DEF Range
  <2> QED
    BY <1>7, <2>1, <2>2
<1>9. ASSUME NEW k \in SlotsOf(map) PROVE \E o \in Range(outs) : o.address = p.outs[k].addr
  <2>1. PICK x \in DOMAIN s : s[x] = k
    BY <1>2 DEF Range
  <2> QED
    BY <1>4, <2>1 DEF Range
<1> QED
  BY <1>6, <1>8, <1>9 DEF outs, OutputsShown

(* The same of the signers (lift_signers, match_party_by_key). *)
SignersShown(p, parties, signers) ==
    /\ IsFiniteSet(signers)
    /\ \A s \in signers : s.party \in DOMAIN parties \cup {None}
    /\ \A n \in DOMAIN parties :
         (\E s \in signers : s.party = n) <=>
             \E key \in p.signers :
                 Least(n, {k \in DOMAIN parties : key \in KeysIn(parties[k])})

LEMMA SignersSeen ==
    ASSUME NEW p, IsPayload(p), NEW parties, IsSequence(parties)
    PROVE  SignersShown(p, parties, LiftSigners(p, parties))
<1> DEFINE f == [k \in p.signers |-> [key |-> k, party |-> PartyWithKey(parties, k)]]
<1>1. DOMAIN parties \in SUBSET Nat
  BY DEF IsSequence
<1>2. ASSUME NEW key
      PROVE  /\ PartyWithKey(parties, key) \in DOMAIN parties \cup {None}
             /\ \A n \in DOMAIN parties :
                  PartyWithKey(parties, key) = n
                    <=> Least(n, {k \in DOMAIN parties : key \in KeysIn(parties[k])})
  <2> DEFINE S == {k \in DOMAIN parties : key \in KeysIn(parties[k])}
  <2>1. S \in SUBSET DOMAIN parties /\ PartyWithKey(parties, key) = FirstParty(S)
    BY DEF PartyWithKey
  <2> HIDE DEF S
  <2>2. /\ PartyWithKey(parties, key) \in DOMAIN parties \cup {None}
        /\ \A n \in DOMAIN parties : PartyWithKey(parties, key) = n <=> Least(n, S)
    BY <1>1, <2>1, FirstIsLeast
  <2> QED
    BY <2>2 DEF S
<1>3. LiftSigners(p, parties) = Range(f) /\ DOMAIN f = p.signers
  BY DEF LiftSigners, Range
<1>4. \A s \in LiftSigners(p, parties) : s.key \in p.signers /\ s.party = PartyWithKey(parties, s.key)
  BY DEF LiftSigners
<1>5. \A key \in p.signers :
        \E s \in LiftSigners(p, parties) : s.party = PartyWithKey(parties, key)
  <2> SUFFICES ASSUME NEW key \in p.signers
               PROVE  \E s \in LiftSigners(p, parties) : s.party = PartyWithKey(parties, key)
    OBVIOUS
  <2>1. f[key] \in LiftSigners(p, parties) /\ f[key].party = PartyWithKey(parties, key)
    BY <1>3 DEF Range
  <2> QED
    BY <2>1
<1> HIDE DEF f
<1>6. IsFiniteSet(LiftSigners(p, parties))
  BY <1>3, ImageIsFinite DEF IsPayload
<1>7. \A s \in LiftSigners(p, parties) : s.party \in DOMAIN parties \cup {None}
  BY <1>2, <1>4
<1>8. ASSUME NEW n \in DOMAIN parties
      PROVE  (\E s \in LiftSigners(p, parties) : s.party = n) <=>
                 \E key \in p.signers :
                     Least(n, {k \in DOMAIN parties : key \in KeysIn(parties[k])})
  <2>1. (\E s \in LiftSigners(p, parties) : s.party = n)
          <=> \E key \in p.signers : PartyWithKey(parties, key) = n
    BY <1>4, <1>5
  <2> QED
    BY <1>2, <2>1
<1> QED
  BY <1>6, <1>7, <1>8 DEF SignersShown

-----------------------------------------------------------------------------
(* The rows *)

(* What a row shows a party doing, one deed at a time. *)
DeedsShown(lifted, parties, n) ==
    /\ Deeds(lifted, n) \subseteq Acts
    /\ "Input" \in Deeds(lifted, n) <=>
          Here(parties, n) /\ \E i \in Range(lifted.inputs) : ResolvedAt(payload, i.ref, parties[n])
    /\ "Output" \in Deeds(lifted, n) <=>
          Here(parties, n) /\ \E o \in Range(lifted.outputs) : o.address = parties[n]
    /\ "Signer" \in Deeds(lifted, n) <=>
          \E key \in payload.signers :
              Least(n, {k \in DOMAIN parties : key \in KeysIn(parties[k])})

LEMMA DeedsAre ==
    ASSUME NEW lifted, NEW parties, DOMAIN lifted.parties = DOMAIN parties,
           \A k \in DOMAIN parties : lifted.parties[k].address = parties[k],
           NEW n \in DOMAIN parties
    PROVE  DeedsShown(lifted, parties, n)
<1>1. {k \in DOMAIN lifted.parties : lifted.parties[k].address = lifted.parties[n].address}
        = {k \in DOMAIN parties : parties[k] = parties[n]}
  OBVIOUS
<1>2. ASSUME NEW key
      PROVE  {k \in DOMAIN lifted.parties : key \in KeysIn(lifted.parties[k].address)}
               = {k \in DOMAIN parties : key \in KeysIn(parties[k])}
  OBVIOUS
<1> QED
  BY <1>1, <1>2 DEF Deeds, Acts, Here, Least, DeedsShown

(* The row of a candidate that can be lifted: its roles are its deeds, and  *)
(* every slot of an input or an output that its match chose is a deed of    *)
(* the party at its address.                                                *)
LEMMA RowShows ==
    ASSUME SearchInv, NEW c \in Range(candidates), Liftable(payload, c.maps),
           NEW lifted, lifted = Lift(payload, c.parties, c.maps)
    PROVE  /\ DOMAIN lifted.parties = DOMAIN c.parties
           /\ \A n \in DOMAIN c.parties :
                /\ RoleIs(lifted.parties[n].role, Deeds(lifted, n))
                /\ Deeds(lifted, n) \subseteq Acts
                /\ \A k \in SlotsOf(c.maps.inputs) :
                     Here(c.parties, n) /\ ResolvedAt(payload, payload.ins[k], c.parties[n])
                         => "Input" \in Deeds(lifted, n)
                /\ \A k \in SlotsOf(c.maps.outputs) :
                     Here(c.parties, n) /\ payload.outs[k].addr = c.parties[n]
                         => "Output" \in Deeds(lifted, n)
<1> DEFINE P == DOMAIN c.parties
           ins == LiftInputs(payload, c.parties, c.maps.inputs)
           outs == LiftOutputs(payload, c.parties, c.maps.outputs)
           signers == LiftSigners(payload, c.parties)
           roles == Roles(c.parties, ins, outs, signers)
<1>1. /\ IsPayload(payload) /\ IsSequence(c.parties) /\ None \notin Range(c.parties)
      /\ Serving("inputs", payload, c.template.inputs, c.maps.inputs)
      /\ Serving("outputs", payload, c.template.outputs, c.maps.outputs)
  BY CandidateServes DEF Parts
<1>2. /\ c.maps.inputs \in Seq(SUBSET DOMAIN payload.ins)
      /\ c.maps.outputs \in Seq(SUBSET DOMAIN payload.outs)
  BY <1>1 DEF Serving, SlotsIn
<1>3. \A k \in SlotsOf(c.maps.inputs) :
        payload.ins[k] \in DOMAIN payload.resolved => payload.resolved[payload.ins[k]] # Garbled
  BY DEF Liftable, Decoded
<1>4. /\ PartiesOf(ins) \in Seq(P \cup {None})
      /\ \A n \in P : n \in Range(PartiesOf(ins)) <=>
           Here(c.parties, n) /\ \E i \in Range(ins) : ResolvedAt(payload, i.ref, c.parties[n])
      /\ \A k \in SlotsOf(c.maps.inputs) : \E i \in Range(ins) : i.ref = payload.ins[k]
  <2>1. InputsShown(payload, c.parties, c.maps.inputs, ins)
    BY <1>1, <1>2, <1>3, InputsSeen
  <2> HIDE DEF ins
  <2> QED
    BY <2>1 DEF InputsShown
<1>5. /\ PartiesOf(outs) \in Seq(P \cup {None})
      /\ \A n \in P : n \in Range(PartiesOf(outs)) <=>
           Here(c.parties, n) /\ \E o \in Range(outs) : o.address = c.parties[n]
      /\ \A k \in SlotsOf(c.maps.outputs) : \E o \in Range(outs) : o.address = payload.outs[k].addr
  <2>1. OutputsShown(payload, c.parties, c.maps.outputs, outs)
    BY <1>1, <1>2, OutputsSeen
  <2> HIDE DEF outs
  <2> QED
    BY <2>1 DEF OutputsShown
<1>6. /\ IsFiniteSet(signers) /\ \A s \in signers : s.party \in P \cup {None}
      /\ \A n \in P : (\E s \in signers : s.party = n) <=>
           \E key \in payload.signers :
               Least(n, {k \in P : key \in KeysIn(c.parties[k])})
  <2>1. SignersShown(payload, c.parties, signers)
    BY <1>1, SignersSeen
  <2> HIDE DEF signers
  <2> QED
    BY <2>1 DEF SignersShown
<1>7. None \notin P
  BY <1>1, NoneAssumption DEF IsSequence
<1>8. /\ lifted.inputs = ins /\ lifted.outputs = outs
      /\ DOMAIN lifted.parties = P
      /\ \A n \in P : lifted.parties[n].address = c.parties[n] /\ lifted.parties[n].role = roles[n]
  BY DEF Lift
<1> HIDE DEF ins, outs, signers
<1>9. ASSUME NEW n \in P
      PROVE  /\ RoleIs(lifted.parties[n].role, Deeds(lifted, n))
             /\ Deeds(lifted, n) \subseteq Acts
             /\ "Input" \in Deeds(lifted, n) <=>
                   Here(c.parties, n) /\ \E i \in Range(ins) : ResolvedAt(payload, i.ref, c.parties[n])
             /\ "Output" \in Deeds(lifted, n) <=>
                   Here(c.parties, n) /\ \E o \in Range(outs) : o.address = c.parties[n]
  <2> DEFINE deeds == Noted(ins, outs, signers, n)
  <2>1. RoleIs(roles[n], deeds)
    BY <1>4, <1>5, <1>6, <1>7, RolesAre
  <2>2. /\ Deeds(lifted, n) \subseteq Acts
        /\ "Input" \in Deeds(lifted, n) <=>
              Here(c.parties, n) /\ \E i \in Range(ins) : ResolvedAt(payload, i.ref, c.parties[n])
        /\ "Output" \in Deeds(lifted, n) <=>
              Here(c.parties, n) /\ \E o \in Range(outs) : o.address = c.parties[n]
        /\ "Signer" \in Deeds(lifted, n) <=>
              \E key \in payload.signers :
                  Least(n, {k \in P : key \in KeysIn(c.parties[k])})
    <3>1. DeedsShown(lifted, c.parties, n)
      BY <1>8, DeedsAre
    <3> QED
      BY <1>8, <3>1 DEF DeedsShown
  <2>3. /\ deeds \subseteq Acts
        /\ "Input" \in deeds <=> n \in Range(PartiesOf(ins))
        /\ "Output" \in deeds <=> n \in Range(PartiesOf(outs))
        /\ "Signer" \in deeds <=> \E s \in signers : s.party = n
    BY DEF Acts, Noted
  <2> HIDE DEF deeds
  <2>4. /\ "Input" \in deeds <=> "Input" \in Deeds(lifted, n)
        /\ "Output" \in deeds <=> "Output" \in Deeds(lifted, n)
        /\ "Signer" \in deeds <=> "Signer" \in Deeds(lifted, n)
    BY <1>4, <1>5, <1>6, <2>2, <2>3
  <2>5. deeds = Deeds(lifted, n)
    BY <2>2, <2>3, <2>4 DEF Acts
  <2> QED
    BY <1>8, <2>1, <2>2, <2>5
<1> QED
  BY <1>4, <1>5, <1>8, <1>9

(* The rows written so far are of winners that can be lifted. *)
LEMMA RowsOfWinners ==
    ASSUME SelectionInv, NEW r \in Range(rows)
    PROVE  \E c \in Winners :
               /\ c \in Range(candidates) /\ Liftable(payload, c.maps)
               /\ Verdict(c) = Verdict(r)
               /\ r.lifted = Lift(payload, c.parties, c.maps)
<1>1. PICK k \in DOMAIN rows : r = rows[k]
  BY DEF Range
<1>2. Lifted
  BY <1>1 DEF SelectionInv
<1>3. /\ rows[k] = RowOf(Selection[k])
      /\ Liftable(payload, Selection[k].candidate.maps)
  BY <1>1, <1>2 DEF Lifted, LiftedOf
<1>4. k \in DOMAIN Selection
  <2>1. IsSequence(Selection)
    BY CandidatesCompare, SelectedInOrder DEF SelectionInv
  <2>2. /\ DOMAIN Selection = 1 .. Len(Selection) /\ DOMAIN rows = 1 .. Len(rows)
        /\ Len(rows) + Len(survivors) = Len(Selection)
        /\ Len(rows) \in Nat /\ Len(survivors) \in Nat
    BY <1>2, <2>1 DEF Lifted, LiftedOf, IsSequence
  <2>3. Len(rows) <= Len(Selection)
    BY <2>2
  <2> QED
    BY <1>1, <2>2, <2>3
<1>5. Selection[k].candidate \in Winners
  BY <1>4, CandidatesCompare, SelectedInOrder DEF SelectionInv
<1>6. Selection[k].candidate \in Range(candidates)
  BY <1>5 DEF Winners, Range
<1> QED
  BY <1>1, <1>3, <1>5, <1>6 DEF RowOf, Verdict

(* A party's role in a row is all it does in it, neither the first thing    *)
(* nor the last (lifting.rs:268-289), for any transaction, any number of    *)
(* parties at one address or with one key, and any match.                   *)
THEOREM RolesAreExactHolds == Spec => []RolesAreExact
<1>1. SelectionInv => RolesAreExact
  <2> SUFFICES ASSUME SelectionInv, NEW r \in Range(rows), NEW n \in DOMAIN r.lifted.parties
               PROVE  RoleIs(r.lifted.parties[n].role, Deeds(r.lifted, n))
    BY DEF RolesAreExact, RoleIs
  <2>1. PICK c \in Range(candidates) :
          Liftable(payload, c.maps) /\ r.lifted = Lift(payload, c.parties, c.maps)
    BY RowsOfWinners
  <2> QED
    BY <2>1, RowShows DEF SelectionInv
<1> QED
  BY <1>1, SelectionInvHolds, PTL

(* What a party did is in its role. *)
LEMMA DeedsInRole ==
    ASSUME NEW role, NEW deeds, RoleIs(role, deeds), deeds \subseteq Acts
    PROVE  /\ "Input" \in deeds => role \in {"Input", "Multiple"}
           /\ "Output" \in deeds => role \in {"Output", "Multiple"}
           /\ "Input" \in deeds /\ "Output" \in deeds => role = "Multiple"
<1>1. IsFiniteSet(deeds)
  <2>1. IsFiniteSet(({"Input"} \cup {"Output"}) \cup {"Signer"})
    <3>1. IsFiniteSet({"Input"} \cup {"Output"})
      BY FS_Singleton, FS_AddElement
    <3> QED
      BY <3>1, FS_AddElement
  <2>2. Acts = ({"Input"} \cup {"Output"}) \cup {"Signer"}
    BY DEF Acts
  <2> QED
    BY <2>1, <2>2, FS_Subset
<1>2. Cardinality(deeds) = 1 => \E x : deeds = {x}
  BY <1>1, FS_Singleton
<1> QED
  BY <1>2 DEF RoleIs

(* The parties that the template spends from or sends to by name are seen   *)
(* doing so in the row: what the matcher assigns at an address and what the *)
(* lifter reads there again agree.                                          *)
THEOREM PartiesPlayTheirPartsHolds == Spec => []PartiesPlayTheirParts
<1>1. SelectionInv => PartiesPlayTheirParts
  <2> SUFFICES ASSUME SelectionInv, NEW r \in Range(rows)
               PROVE  \E c \in Winners :
                        /\ Verdict(c) = Verdict(r)
                        /\ \A n \in DOMAIN c.parties :
                             LET mine == \A k \in 1 .. (n - 1) : c.parties[k] # c.parties[n]
                                 role == r.lifted.parties[n].role
                                 receives == \E o \in Range(c.template.outputs) :
                                                 o.addr = c.parties[n] /\ ~o.optional
                                 spends == \E x \in DOMAIN c.template.inputs :
                                               /\ c.template.inputs[x].kind = "query"
                                               /\ c.template.inputs[x].addr = c.parties[n]
                                               /\ c.maps.inputs[x] # {}
                             IN  /\ mine /\ receives => role \in {"Output", "Multiple"}
                                 /\ mine /\ spends => role \in {"Input", "Multiple"}
                                 /\ mine /\ receives /\ spends => role = "Multiple"
    BY DEF PartiesPlayTheirParts
  <2>1. PICK c \in Winners :
          /\ c \in Range(candidates) /\ Liftable(payload, c.maps)
          /\ Verdict(c) = Verdict(r)
          /\ r.lifted = Lift(payload, c.parties, c.maps)
    BY RowsOfWinners
  <2>2. /\ IsTemplate(c.template) /\ IsSequence(c.parties) /\ None \notin Range(c.parties)
        /\ Serving("inputs", payload, c.template.inputs, c.maps.inputs)
        /\ Serving("outputs", payload, c.template.outputs, c.maps.outputs)
    BY <2>1, CandidateServes DEF SelectionInv, Parts
  <2>3. DOMAIN c.maps.inputs = DOMAIN c.template.inputs /\ DOMAIN c.maps.outputs = DOMAIN c.template.outputs
    <3>1. IsSequence(c.template.inputs) /\ IsSequence(c.template.outputs)
      BY <2>2 DEF IsTemplate, Parts
    <3> QED
      BY <2>2, <3>1 DEF Serving, IsSequence
  <2>4. ASSUME NEW n \in DOMAIN c.parties, \A k \in 1 .. (n - 1) : c.parties[k] # c.parties[n]
        PROVE  Here(c.parties, n)
    <3>1. DOMAIN c.parties = 1 .. Len(c.parties) /\ Len(c.parties) \in Nat
      BY <2>2 DEF IsSequence
    <3>2. ASSUME NEW k \in DOMAIN c.parties, c.parties[k] = c.parties[n] PROVE n <= k
      <4>1. k \in 1 .. (n - 1) \/ n <= k
        BY <3>1
      <4> QED
        BY <2>4, <3>2, <4>1
    <3> QED
      BY <3>2 DEF Here, Least
  <2>5. ASSUME NEW n \in DOMAIN c.parties, NEW o \in Range(c.template.outputs),
               o.addr = c.parties[n], ~o.optional
        PROVE  \E k \in SlotsOf(c.maps.outputs) : payload.outs[k].addr = c.parties[n]
    <3>1. PICK x \in DOMAIN c.template.outputs : c.template.outputs[x] = o
      BY DEF Range
    <3>2. Serves("outputs", o, payload, c.maps.outputs[x])
      BY <2>2, <2>3, <3>1 DEF Serving
    <3>3. o.addr # None
      BY <2>2, <2>5 DEF Range
    <3>4. PICK k \in c.maps.outputs[x] : payload.outs[k].addr = o.addr
      BY <2>5, <3>2, <3>3 DEF Serves
    <3>5. k \in SlotsOf(c.maps.outputs)
      BY <2>3, <3>1, <3>4 DEF SlotsOf, ToSet
    <3> QED
      BY <2>5, <3>4, <3>5
  <2>6. ASSUME NEW n \in DOMAIN c.parties, NEW x \in DOMAIN c.template.inputs,
               c.template.inputs[x].kind = "query", c.template.inputs[x].addr = c.parties[n],
               c.maps.inputs[x] # {}
        PROVE  \E k \in SlotsOf(c.maps.inputs) : ResolvedAt(payload, payload.ins[k], c.parties[n])
    <3>1. Serves("inputs", c.template.inputs[x], payload, c.maps.inputs[x])
      BY <2>2, <2>3 DEF Serving
    <3>2. c.template.inputs[x].addr # None
      BY <2>2, <2>6 DEF Range
    <3>3. PICK k \in c.maps.inputs[x] : ResolvedAt(payload, payload.ins[k], c.template.inputs[x].addr)
      BY <2>6, <3>1, <3>2 DEF Serves
    <3>4. k \in SlotsOf(c.maps.inputs)
      BY <2>3, <3>3 DEF SlotsOf, ToSet
    <3> QED
      BY <2>6, <3>3, <3>4
  <2>7. ASSUME NEW n \in DOMAIN c.parties
        PROVE  /\ RoleIs(r.lifted.parties[n].role, Deeds(r.lifted, n))
               /\ Deeds(r.lifted, n) \subseteq Acts
               /\ \A k \in SlotsOf(c.maps.inputs) :
                    Here(c.parties, n) /\ ResolvedAt(payload, payload.ins[k], c.parties[n])
                        => "Input" \in Deeds(r.lifted, n)
               /\ \A k \in SlotsOf(c.maps.outputs) :
                    Here(c.parties, n) /\ payload.outs[k].addr = c.parties[n]
                        => "Output" \in Deeds(r.lifted, n)
    BY <2>1, RowShows DEF SelectionInv
  <2>8. ASSUME NEW n \in DOMAIN c.parties
        PROVE  LET mine == \A k \in 1 .. (n - 1) : c.parties[k] # c.parties[n]
                   role == r.lifted.parties[n].role
                   receives == \E o \in Range(c.template.outputs) :
                                   o.addr = c.parties[n] /\ ~o.optional
                   spends == \E x \in DOMAIN c.template.inputs :
                                 /\ c.template.inputs[x].kind = "query"
                                 /\ c.template.inputs[x].addr = c.parties[n]
                                 /\ c.maps.inputs[x] # {}
               IN  /\ mine /\ receives => role \in {"Output", "Multiple"}
                   /\ mine /\ spends => role \in {"Input", "Multiple"}
                   /\ mine /\ receives /\ spends => role = "Multiple"
    <3>1. /\ "Input" \in Deeds(r.lifted, n) => r.lifted.parties[n].role \in {"Input", "Multiple"}
          /\ "Output" \in Deeds(r.lifted, n) => r.lifted.parties[n].role \in {"Output", "Multiple"}
          /\ "Input" \in Deeds(r.lifted, n) /\ "Output" \in Deeds(r.lifted, n)
                => r.lifted.parties[n].role = "Multiple"
      BY <2>7, DeedsInRole
    <3> QED
      BY <2>4, <2>5, <2>6, <2>7, <3>1
  <2> QED
    BY <2>1, <2>8
<1> QED
  BY <1>1, SelectionInvHolds, PTL
-----------------------------------------------------------------------------
(* The library *)

(* No call selects before every source was searched. *)
Exhausted == stage # "matching" => at[1] \notin DOMAIN sources

LEMMA ExhaustedHolds == Spec => []Exhausted
<1>1. Init => Exhausted
  BY DEF Init, Exhausted
<1>2. Exhausted /\ [Next]_vars => Exhausted'
  <2> SUFFICES ASSUME Exhausted, [Next]_vars PROVE Exhausted'
    OBVIOUS
  <2>1. CASE SkipSource \/ EngageSource
    BY <2>1 DEF SkipSource, EngageSource, GatingSource, Exhausted
  <2>2. CASE RejectByFingerprint \/ RejectByMatch \/ AddCandidate
    BY <2>2 DEF RejectByFingerprint, RejectByMatch, AddCandidate, TryingTemplate, Exhausted
  <2>3. CASE SelectMatches
    BY <2>3 DEF SelectMatches, Exhausted
  <2>4. CASE LiftSurvivor \/ LiftFails \/ Return
    BY <2>4 DEF LiftSurvivor, LiftFails, Return, Exhausted
  <2>5. CASE UNCHANGED vars
    BY <2>5 DEF vars, Exhausted
  <2> QED
    BY <2>1, <2>2, <2>3, <2>4, <2>5 DEF Next, Returned
<1> QED
  BY <1>1, <1>2, PTL DEF Spec

(* A candidate of a source that shares its name with no other is one of its *)
(* templates.                                                               *)
LEMMA TheSource ==
    ASSUME SearchInv, NEW i \in DOMAIN sources, Sole(i),
           NEW c \in Range(candidates), c.source = sources[i].name
    PROVE  \E j \in DOMAIN sources[i].txs : Matches(i, j) /\ c = CandidateOf(i, j)
<1>1. PICK k \in DOMAIN sources :
        \E j \in DOMAIN sources[k].txs : Matches(k, j) /\ c = CandidateOf(k, j)
  BY DEF SearchInv, Descended
<1>2. sources[k].name = sources[i].name
  BY <1>1 DEF CandidateOf
<1>3. k = i
  BY <1>2 DEF Sole
<1> QED
  BY <1>1, <1>3

(* No two transactions of a source have one name. *)
LEMMA TheTransaction ==
    ASSUME NEW source, IsSource(source),
           NEW j \in DOMAIN source.txs, NEW l \in DOMAIN source.txs,
           source.txs[j].name = source.txs[l].name
    PROVE  j = l
<1>1. j \in Nat /\ l \in Nat
  BY DEF IsSource, IsSequence
<1>2. source.txs[j].name \in Nat
  BY DEF IsSource, Range
<1>3. ~(j < l) /\ ~(l < j)
  BY <1>2 DEF IsSource
<1> QED
  BY <1>1, <1>3

(* What try_lift makes of a template. *)
LEMMA TryFinds ==
    ASSUME NEW source, NEW j, NEW p
    PROVE  LET t == source.txs[j].template
               result == TryLift(source, j, p)
           IN  /\ result # Nothing <=> /\ FingerprintMatches(Extract(t), Summary(p))
                                      /\ MatchTx(t, p) # None
               /\ result # Nothing => result.kind \in {"error", "lifted"}
               /\ result.kind = "lifted" => result.tx = source.txs[j].name
               /\ result # Nothing /\ Liftable(p, MatchTx(t, p)) =>
                    /\ result.kind = "lifted"
                    /\ result.lifted = Lift(p, source.profile.parties, MatchTx(t, p))
<1> DEFINE t == source.txs[j].template
           maps == MatchTx(t, p)
           fits == FingerprintMatches(Extract(t), Summary(p))
           lift == [kind |-> "lifted", tx |-> source.txs[j].name,
                    lifted |-> Lift(p, source.profile.parties, maps)]
           result == TryLift(source, j, p)
<1>1. Nothing.kind = "none" /\ Failure.kind = "error" /\ lift.kind = "lifted"
  BY DEF Nothing, Failure
<1>2. lift.tx = source.txs[j].name /\ lift.lifted = Lift(p, source.profile.parties, maps)
  OBVIOUS
<1>3. result = IF ~fits \/ maps = None THEN Nothing
               ELSE IF ~Liftable(p, maps) THEN Failure ELSE lift
  BY Zenon DEF TryLift
<1> HIDE DEF fits, maps, lift, result
<1>4. ~fits \/ maps = None => result = Nothing
  BY <1>3, Zenon
<1>5. fits /\ maps # None /\ ~Liftable(p, maps) => result = Failure
  BY <1>3, Zenon
<1>6. fits /\ maps # None /\ Liftable(p, maps) => result = lift
  BY <1>3, Zenon
<1>7. Nothing # Failure /\ Nothing # lift
  BY <1>1
<1>8. /\ result # Nothing <=> fits /\ maps # None
      /\ result # Nothing => result.kind \in {"error", "lifted"}
      /\ result.kind = "lifted" => result = lift
      /\ result # Nothing /\ Liftable(p, maps) => result = lift
  BY <1>1, <1>4, <1>5, <1>6, <1>7
<1> QED
  BY <1>1, <1>2, <1>8 DEF fits, maps, result

(* The library tries a template as the tracker does: when the search is     *)
(* over, it finds something in it exactly when it is a candidate.           *)
LEMMA TryAgrees ==
    ASSUME CompleteInv, at[1] \notin DOMAIN sources,
           NEW i \in DOMAIN sources, Sole(i), Engages(sources[i].profile, payload),
           NEW j \in DOMAIN sources[i].txs
    PROVE  TryLift(sources[i], j, payload) # Nothing <=> IsCandidate(i, j)
<1>1. SearchInv /\ Searched
  BY DEF CompleteInv
<1>2. IsSource(sources[i])
  BY <1>1 DEF SearchInv, Configured, Range
<1>3. Gates(AnchorsOf(i), Summary(payload))
  BY <1>2, EngagesGates DEF IsSource, AnchorsOf
<1>4. TryLift(sources[i], j, payload) # Nothing <=> Matches(i, j)
  BY <1>3, TryFinds DEF Matches, Fitting, TemplateOf
<1>5. ASSUME Matches(i, j) PROVE IsCandidate(i, j)
  <2>1. i < at[1]
    <3>1. DOMAIN sources = 1 .. Len(sources) /\ Len(sources) \in Nat
      BY <1>1 DEF SearchInv, Configured, IsSequence
    <3>2. at[1] \in Nat /\ at[1] >= 1
      BY <1>1 DEF SearchInv, Placed, Searched
    <3> QED
      BY <3>1, <3>2
  <2>2. CandidateOf(i, j) \in Range(candidates)
    BY <1>1, <1>5, <2>1 DEF Searched
  <2> QED
    BY <2>2 DEF IsCandidate, CandidateOf
<1>6. ASSUME IsCandidate(i, j) PROVE Matches(i, j)
  <2>1. PICK c \in Range(candidates) :
          c.source = sources[i].name /\ c.tx = sources[i].txs[j].name
    BY <1>6 DEF IsCandidate
  <2>2. \E l \in DOMAIN sources[i].txs : Matches(i, l) /\ c = CandidateOf(i, l)
    BY <1>1, <2>1, TheSource
  <2> QED
    BY <1>2, <2>1, <2>2, TheTransaction DEF CandidateOf
<1> QED
  BY <1>4, <1>5, <1>6

(* A profile tried alone gives the first candidate in the order of the keys. *)
LEMMA ProfileAgreesThen ==
    ASSUME SelectionInv, CompleteInv, at[1] \notin DOMAIN sources,
           NEW i \in DOMAIN sources, Sole(i), Engages(sources[i].profile, payload),
           NEW order \in Orders(DOMAIN sources[i].txs)
    PROVE  ProfileAgrees(i, order)
<1> DEFINE txs == sources[i].txs
           try == [n \in DOMAIN order |-> TryLift(sources[i], order[n], payload)]
           found == RouteAndLiftWithProfile(sources[i], order, payload)
           hits == {n \in DOMAIN order : IsCandidate(i, order[n])}
           first == order[Min(hits)]
<1>1. SearchInv /\ IsSource(sources[i])
  BY DEF CompleteInv, SearchInv, Configured, Range
<1>2. /\ DOMAIN order = DOMAIN txs /\ DOMAIN txs \subseteq Nat
      /\ \A n \in DOMAIN order : order[n] \in DOMAIN txs
  BY <1>1 DEF Orders, IsSource, IsSequence
<1>3. hits = {n \in DOMAIN try : try[n] # Nothing}
  BY <1>2, TryAgrees
<1>4. found = IF hits = {} THEN Nothing ELSE try[Min(hits)]
  BY <1>3 DEF FirstResult, RouteAndLiftWithProfile
<1>5. CASE hits = {}
  <2>1. found = Nothing
    BY <1>4, <1>5
  <2>2. found.kind # "lifted"
    BY <2>1 DEF Nothing
  <2> QED
    BY <1>5, <2>1, <2>2 DEF ProfileAgrees
<1>6. CASE hits # {}
  <2>1. Min(hits) \in hits
    BY <1>2, <1>6, MinInNat
  <2>2. /\ found = TryLift(sources[i], first, payload) /\ found # Nothing
        /\ first \in DOMAIN txs
    BY <1>2, <1>3, <1>4, <1>6, <2>1
  <2>3. found.kind = "lifted" => found.tx = txs[first].name
    BY <2>2, TryFinds
  <2>4. ASSUME NEW r \in Range(rows), r.source = sources[i].name, r.tx = txs[first].name
        PROVE  found.kind = "lifted" /\ found.lifted = r.lifted
    <3>1. PICK c \in Winners :
            /\ c \in Range(candidates) /\ Liftable(payload, c.maps)
            /\ Verdict(c) = Verdict(r)
            /\ r.lifted = Lift(payload, c.parties, c.maps)
      BY RowsOfWinners
    <3>2. c.source = sources[i].name /\ c.tx = txs[first].name
      BY <2>4, <3>1 DEF Verdict
    <3>3. PICK j \in DOMAIN txs : Matches(i, j) /\ c = CandidateOf(i, j)
      BY <1>1, <3>1, <3>2, TheSource
    <3>4. txs[j].name = txs[first].name
      BY <3>2, <3>3 DEF CandidateOf
    <3>5. j = first
      BY <1>1, <2>2, <3>4, TheTransaction
    <3>6. /\ c.maps = MatchTx(txs[first].template, payload)
          /\ c.parties = sources[i].profile.parties
      BY <3>3, <3>5 DEF CandidateOf, TemplateOf
    <3>7. Liftable(payload, MatchTx(txs[first].template, payload))
      BY <3>1, <3>6
    <3>8. /\ found.kind = "lifted"
          /\ found.lifted = Lift(payload, sources[i].profile.parties,
                                 MatchTx(txs[first].template, payload))
      BY <2>2, <3>7, TryFinds
    <3> QED
      BY <3>1, <3>6, <3>8
  <2> QED
    BY <1>6, <2>2, <2>3, <2>4 DEF ProfileAgrees
<1> QED
  BY <1>5, <1>6

(* The first result that is not nothing. *)
IsFirst(results, first) ==
    IF \A n \in DOMAIN results : results[n] = Nothing
    THEN first = Nothing
    ELSE \E n \in DOMAIN results : /\ first = results[n] /\ results[n] # Nothing
                                   /\ \A m \in DOMAIN results : m < n => results[m] = Nothing

LEMMA FirstIsFound ==
    ASSUME NEW results, DOMAIN results \in SUBSET Nat
    PROVE  IsFirst(results, FirstResult(results))
<1> DEFINE found == {n \in DOMAIN results : results[n] # Nothing}
<1>1. FirstResult(results) = IF found = {} THEN Nothing ELSE results[Min(found)]
  BY DEF FirstResult
<1>2. CASE found = {}
  BY <1>1, <1>2 DEF IsFirst
<1>3. CASE found # {}
  <2>1. Min(found) \in found /\ \A x \in found : Min(found) <= x
    BY <1>3, MinInNat
  <2>2. Min(found) \in DOMAIN results /\ results[Min(found)] # Nothing
    BY <2>1
  <2>3. ASSUME NEW m \in DOMAIN results, m < Min(found) PROVE results[m] = Nothing
    <3>1. m \in Nat /\ Min(found) \in Nat
      BY <2>2
    <3>2. m \notin found
      BY <2>1, <2>3, <3>1
    <3> QED
      BY <3>2
  <2>4. FirstResult(results) = results[Min(found)]
    BY <1>1, <1>3
  <2> HIDE DEF found
  <2> QED
    BY <2>2, <2>3, <2>4 DEF IsFirst
<1> QED
  BY <1>2, <1>3

(* Several profiles give what one of them would give alone. *)
LEMMA ProfilesAgreeThen ==
    ASSUME SearchInv, sources # <<>>,
           NEW txs \in Orders(DOMAIN sources[1].txs), NEW profiles \in Orders(DOMAIN sources)
    PROVE  ProfilesAgree(txs, profiles)
<1> DEFINE D == DOMAIN txs
           P == DOMAIN profiles
           Try(i, n) == TryLift(sources[i], txs[n], payload)
           alone(i) == RouteAndLiftWithProfile(sources[i], txs, payload)
           at1(n) == [m \in P |-> Try(profiles[m], n)]
           inner(n) == FirstResult(at1(n))
           any == RouteAndLift(sources, txs, profiles, payload)
<1>1. D \in SUBSET Nat /\ P \in SUBSET Nat /\ P = DOMAIN sources
  <2>1. DOMAIN sources = 1 .. Len(sources) /\ Len(sources) \in Nat
    BY DEF SearchInv, Configured, IsSequence
  <2>2. 1 \in DOMAIN sources
    BY <2>1 DEF SearchInv, Configured, IsSequence
  <2>3. IsSource(sources[1])
    BY <2>2 DEF SearchInv, Configured, Range
  <2> QED
    BY <2>1, <2>3 DEF Orders, IsSource, IsSequence
<1>2. /\ \A m \in P : profiles[m] \in P
      /\ \A i \in P : \E m \in P : profiles[m] = i
  BY <1>1 DEF Orders
<1>3. \A i \in P : alone(i) = FirstResult([n \in D |-> Try(i, n)])
  BY DEF RouteAndLiftWithProfile
<1>4. any = FirstResult([n \in D |-> inner(n)])
  BY DEF RouteAndLift
<1> HIDE DEF Try, alone, inner, any, D, P
<1>5. ASSUME NEW i \in P
      PROVE  IF \A n \in D : Try(i, n) = Nothing
             THEN alone(i) = Nothing
             ELSE \E n \in D : /\ alone(i) = Try(i, n) /\ Try(i, n) # Nothing
                               /\ \A m \in D : m < n => Try(i, m) = Nothing
  <2> DEFINE results == [n \in D |-> Try(i, n)]
  <2>1. DOMAIN results = D /\ \A n \in D : results[n] = Try(i, n)
    OBVIOUS
  <2>2. alone(i) = FirstResult(results)
    BY <1>3
  <2> HIDE DEF results
  <2>3. IsFirst(results, alone(i))
    BY <1>1, <2>1, <2>2, FirstIsFound
  <2> QED
    BY <2>1, <2>3 DEF IsFirst
<1>6. ASSUME NEW n \in D
      PROVE  IF \A m \in P : Try(profiles[m], n) = Nothing
             THEN inner(n) = Nothing
             ELSE \E m \in P : inner(n) = Try(profiles[m], n) /\ Try(profiles[m], n) # Nothing
  <2> DEFINE results == at1(n)
  <2>1. DOMAIN results = P /\ \A m \in P : results[m] = Try(profiles[m], n)
    OBVIOUS
  <2>2. inner(n) = FirstResult(results)
    BY DEF inner
  <2> HIDE DEF results
  <2>3. IsFirst(results, inner(n))
    BY <1>1, <2>1, <2>2, FirstIsFound
  <2> QED
    BY <2>1, <2>3 DEF IsFirst
<1>7. IF \A n \in D : inner(n) = Nothing
      THEN any = Nothing
      ELSE \E n \in D : /\ any = inner(n) /\ inner(n) # Nothing
                        /\ \A m \in D : m < n => inner(m) = Nothing
  <2> DEFINE results == [n \in D |-> inner(n)]
  <2>1. DOMAIN results = D /\ \A n \in D : results[n] = inner(n)
    OBVIOUS
  <2>2. any = FirstResult(results)
    BY <1>4
  <2> HIDE DEF results
  <2>3. IsFirst(results, any)
    BY <1>1, <2>1, <2>2, FirstIsFound
  <2> QED
    BY <2>1, <2>3 DEF IsFirst
<1>8. CASE \A i \in P : alone(i) = Nothing
  <2>1. \A i \in P : \A n \in D : Try(i, n) = Nothing
    BY <1>5, <1>8
  <2>2. \A n \in D : inner(n) = Nothing
    BY <1>2, <1>6, <2>1
  <2>3. any = Nothing
    BY <1>7, <2>2
  <2> QED
    BY <1>1, <1>8, <2>3 DEF ProfilesAgree, alone, any
<1>9. CASE ~(\A i \in P : alone(i) = Nothing)
  <2>1. PICK i \in P : alone(i) # Nothing
    BY <1>9
  <2>2. PICK n \in D : Try(i, n) # Nothing
    BY <1>5, <2>1
  <2>3. inner(n) # Nothing
    BY <1>2, <1>6, <2>2
  <2>4. PICK k \in D : any = inner(k) /\ inner(k) # Nothing /\ \A m \in D : m < k => inner(m) = Nothing
    BY <1>7, <2>3
  <2>5. PICK m \in P : inner(k) = Try(profiles[m], k) /\ Try(profiles[m], k) # Nothing
    BY <1>6, <2>4
  <2> DEFINE j == profiles[m]
  <2>6. j \in P
    BY <1>2
  <2>7. PICK l \in D : /\ alone(j) = Try(j, l) /\ Try(j, l) # Nothing
                       /\ \A x \in D : x < l => Try(j, x) = Nothing
    BY <1>5, <2>5, <2>6
  <2>8. inner(l) # Nothing
    BY <1>6, <2>7
  <2>9. ~(l < k) /\ ~(k < l) /\ l \in Nat /\ k \in Nat
    BY <1>1, <2>4, <2>5, <2>7, <2>8
  <2>10. any = alone(j) /\ any # Nothing
    <3>1. l = k
      BY <2>9
    <3> QED
      BY <2>4, <2>5, <2>7, <3>1
  <2> DEFINE found == [x \in DOMAIN sources |-> alone(x)]
  <2>11. any \in Range(found) \ {Nothing}
    BY <1>1, <2>6, <2>10 DEF Range
  <2>12. found = [x \in DOMAIN sources |-> RouteAndLiftWithProfile(sources[x], txs, payload)]
    BY DEF alone
  <2>13. ~(\A x \in DOMAIN sources : found[x] = Nothing)
    BY <1>1, <1>9
  <2> HIDE DEF found
  <2> QED
    BY <2>11, <2>12, <2>13 DEF ProfilesAgree, any
<1> QED
  BY <1>8, <1>9

(* The library's front and the tracker agree on every transaction, for any  *)
(* sources and in whatever order a TII gives its keys: they find the same   *)
(* candidates, lift one the same way, and several profiles give what one of *)
(* them would (lib.rs:60-114).                                              *)
THEOREM FrontAgreesHolds == Spec => []FrontAgrees
<1>1. SelectionInv /\ CompleteInv /\ Exhausted => FrontAgrees
  <2> SUFFICES ASSUME SelectionInv, CompleteInv, Exhausted, stage \in {"done", "failed"}
               PROVE  FrontAgrees
    BY DEF FrontAgrees
  <2>1. at[1] \notin DOMAIN sources
    BY DEF Exhausted
  <2>2. ASSUME NEW i \in DOMAIN sources, Sole(i), Engages(sources[i].profile, payload),
               NEW order \in Orders(DOMAIN sources[i].txs)
        PROVE  ProfileAgrees(i, order)
    BY <2>1, <2>2, ProfileAgreesThen
  <2>3. ASSUME sources # <<>>, NEW txs \in Orders(DOMAIN sources[1].txs),
               NEW profiles \in Orders(DOMAIN sources)
        PROVE  ProfilesAgree(txs, profiles)
    BY <2>3, ProfilesAgreeThen DEF SelectionInv
  <2> QED
    BY <2>2, <2>3 DEF FrontAgrees
<1> QED
  BY <1>1, SelectionInvHolds, CompleteInvHolds, ExhaustedHolds, PTL
=============================================================================
