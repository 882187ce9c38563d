---------------------------- MODULE Foundations ----------------------------
(***************************************************************************)
(* Induction and recursion on the naturals, stated on sets and functions,  *)
(* so that a proof can cite them: a property is the set of the numbers     *)
(* that have it, and the step of a recursion is a function.  From them,    *)
(* what folds, sorting and filtering (Orderings) return.                   *)
(***************************************************************************)
EXTENDS Orderings, WellFoundedInduction, FiniteSetTheorems, TLAPS

(* What holds of 0 and is passed on holds of every natural number. *)
LEMMA Inductive ==
    ASSUME NEW T, 0 \in T, \A n \in Nat : n \in T => n + 1 \in T
    PROVE  Nat \subseteq T
<1> DEFINE R == OpToRel(<, Nat)
<1>1. IsWellFoundedOn(R, Nat)
  BY NatLessThanWellFounded
<1>2. SUFFICES ASSUME Nat \ T # {} PROVE FALSE
  OBVIOUS
<1>3. PICK x \in Nat \ T : \A y \in Nat \ T : <<y, x>> \notin R
  <2> HIDE DEF R
  <2> QED
    BY <1>1, <1>2, WFMin
<1>4. x # 0 /\ x - 1 \in Nat
  OBVIOUS
<1>5. <<x - 1, x>> \in R
  BY <1>4 DEF OpToRel
<1> HIDE DEF R
<1>6. x - 1 \in T
  BY <1>3, <1>4, <1>5
<1> QED
  BY <1>4, <1>6

(* The same up to a bound. *)
LEMMA UpTo ==
    ASSUME NEW N \in Nat, NEW T, 0 \in T, \A n \in 1 .. N : n - 1 \in T => n \in T
    PROVE  0 .. N \subseteq T
<1> DEFINE U == {n \in Nat : n <= N => n \in T}
<1>1. 0 \in U
  OBVIOUS
<1>2. ASSUME NEW n \in Nat, n \in U PROVE n + 1 \in U
  <2>1. CASE n + 1 <= N
    <3>1. n \in T
      BY <1>2, <2>1
    <3>2. n + 1 \in 1 .. N /\ (n + 1) - 1 = n
      BY <2>1
    <3> QED
      BY <3>1, <3>2
  <2> QED
    BY <2>1
<1>3. Nat \subseteq U
  <2> HIDE DEF U
  <2> QED
    BY <1>1, <1>2, Inductive
<1> QED
  BY <1>3

(* The recursion from 0 to N that starts at base, and whose n-th value is   *)
(* what step makes of the one before.                                       *)
RecursBy(g, N, base, step) == g[0] = base /\ \A n \in 1 .. N : g[n] = step[<<n, g[n - 1]>>]

(* The function defined by a recursion exists.                              *)
LEMMA Recursion ==
    ASSUME NEW N \in Nat, NEW D, NEW base \in D, NEW step \in [(1 .. N) \X D -> D]
    PROVE  \E g \in [0 .. N -> D] : RecursBy(g, N, base, step)
<1> DEFINE Traces(g, m) == g[0] = base /\ \A n \in 1 .. m : g[n] = step[<<n, g[n - 1]>>]
           T == {m \in Nat : \E g \in [0 .. m -> D] : Traces(g, m)}
<1>1. 0 \in T
  <2> DEFINE g == [i \in 0 .. 0 |-> base]
  <2>1. g \in [0 .. 0 -> D] /\ Traces(g, 0)
    OBVIOUS
  <2> QED
    BY <2>1
<1>2. ASSUME NEW m \in 1 .. N, m - 1 \in T PROVE m \in T
  <2>1. PICK g \in [0 .. (m - 1) -> D] : Traces(g, m - 1)
    BY <1>2
  <2> DEFINE h == [i \in 0 .. m |-> IF i = m THEN step[<<m, g[m - 1]>>] ELSE g[i]]
  <2>2. g[m - 1] \in D
    BY <2>1
  <2>3. h \in [0 .. m -> D]
    BY <2>1, <2>2
  <2>4. h[0] = base
    BY <2>1
  <2>5. ASSUME NEW n \in 1 .. m PROVE h[n] = step[<<n, h[n - 1]>>]
    <3>1. CASE n = m
      <4>1. h[m] = step[<<m, g[m - 1]>>]
        OBVIOUS
      <4>2. h[m - 1] = g[m - 1]
        OBVIOUS
      <4> HIDE DEF h
      <4> QED
        BY <3>1, <4>1, <4>2
    <3>2. CASE n # m
      <4>1. n \in 1 .. (m - 1)
        BY <3>2
      <4> QED
        BY <2>1, <3>2, <4>1
    <3> QED
      BY <3>1, <3>2
  <2> HIDE DEF h
  <2> QED
    BY <2>3, <2>4, <2>5
<1>3. N \in T
  <2> HIDE DEF T
  <2> QED
    BY <1>1, <1>2, UpTo
<1> QED
  BY <1>3 DEF RecursBy

(* What a sequence holds once something was appended to it. *)
LEMMA Appended ==
    ASSUME NEW s, IsSequence(s), NEW e
    PROVE  IsSequence(Append(s, e)) /\ Range(Append(s, e)) = Range(s) \cup {e}
<1> DEFINE S == Range(s) \cup {e}
<1>1. s \in Seq(S) /\ e \in S
  BY DEF IsSequence
<1>2. Append(s, e) \in Seq(S) /\ DOMAIN Append(s, e) = 1 .. (Len(s) + 1)
  BY <1>1
<1>3. \A k \in DOMAIN Append(s, e) : Append(s, e)[k] = IF k = Len(s) + 1 THEN e ELSE s[k]
  BY <1>1
<1>4. DOMAIN s = 1 .. Len(s) /\ Len(s) \in Nat
  BY <1>1
<1>5. Range(Append(s, e)) = S
  BY <1>2, <1>3, <1>4 DEF Range
<1> QED
  BY <1>2, <1>5 DEF IsSequence

LEMMA OneLonger ==
    ASSUME NEW S, NEW s \in Seq(S), NEW e \in S, NEW n \in Nat, Len(s) = n - 1
    PROVE  /\ Append(s, e) \in Seq(S) /\ Len(Append(s, e)) = n
           /\ DOMAIN Append(s, e) = 1 .. n /\ DOMAIN s = 1 .. (n - 1)
           /\ \A k \in 1 .. (n - 1) : Append(s, e)[k] = s[k]
           /\ Append(s, e)[n] = e
  OBVIOUS

LEMMA SequenceOf ==
    ASSUME NEW S, NEW s \in Seq(S)
    PROVE  /\ IsSequence(s) /\ Range(s) \subseteq S
           /\ DOMAIN s = 1 .. Len(s) /\ Len(s) \in Nat
<1>1. DOMAIN s = 1 .. Len(s) /\ Len(s) \in Nat /\ s \in [1 .. Len(s) -> S]
  OBVIOUS
<1>2. s \in [1 .. Len(s) -> Range(s)]
  BY <1>1 DEF Range
<1>3. Range(s) \subseteq S
  BY <1>1 DEF Range
<1> QED
  BY <1>1, <1>2, <1>3 DEF IsSequence

(* What is left of a sequence without its head. *)
LEMMA WithoutHead ==
    ASSUME NEW s, IsSequence(s), s # <<>>
    PROVE  /\ Len(s) \in Nat /\ Len(s) >= 1 /\ Head(s) = s[1]
           /\ IsSequence(Tail(s)) /\ Len(Tail(s)) = Len(s) - 1
           /\ DOMAIN Tail(s) = 1 .. (Len(s) - 1)
           /\ \A k \in 1 .. (Len(s) - 1) : Tail(s)[k] = s[k + 1]
<1>1. s \in Seq(Range(s))
  BY DEF IsSequence
<1>2. Tail(s) \in Seq(Range(s))
  BY <1>1
<1>3. IsSequence(Tail(s)) /\ DOMAIN Tail(s) = 1 .. Len(Tail(s))
  BY <1>2, SequenceOf
<1>4. Len(s) \in Nat /\ Len(s) >= 1 /\ Head(s) = s[1] /\ Len(Tail(s)) = Len(s) - 1
  BY <1>1
<1>5. \A k \in 1 .. (Len(s) - 1) : Tail(s)[k] = s[k + 1]
  BY <1>1
<1> QED
  BY <1>3, <1>4, <1>5

LEMMA Joined ==
    ASSUME NEW A, NEW s \in Seq(A), NEW t \in Seq(A)
    PROVE  s \o t \in Seq(A) /\ Range(s \o t) = Range(s) \cup Range(t)
<1> DEFINE u == s \o t
<1>1. /\ DOMAIN s = 1 .. Len(s) /\ DOMAIN t = 1 .. Len(t) /\ Len(s) \in Nat /\ Len(t) \in Nat
      /\ u \in Seq(A) /\ DOMAIN u = 1 .. (Len(s) + Len(t))
      /\ \A k \in 1 .. Len(s) : u[k] = s[k]
      /\ \A k \in 1 .. Len(t) : u[Len(s) + k] = t[k]
  OBVIOUS
<1>2. ASSUME NEW k \in 1 .. (Len(s) + Len(t)) PROVE u[k] \in Range(s) \cup Range(t)
  <2>1. CASE k \in 1 .. Len(s)
    BY <1>1, <2>1 DEF Range
  <2>2. CASE k \notin 1 .. Len(s)
    <3> DEFINE l == k - Len(s)
    <3>1. l \in 1 .. Len(t) /\ k = Len(s) + l
      BY <1>1, <2>2
    <3> HIDE DEF l, u
    <3> QED
      BY <1>1, <3>1 DEF Range
  <2> QED
    BY <2>1, <2>2
<1>3. ASSUME NEW k \in 1 .. Len(s) PROVE s[k] \in Range(u)
  <2>1. k \in DOMAIN u
    BY <1>1
  <2> HIDE DEF u
  <2> QED
    BY <1>1, <2>1 DEF Range
<1>4. ASSUME NEW k \in 1 .. Len(t) PROVE t[k] \in Range(u)
  <2>1. Len(s) + k \in DOMAIN u
    BY <1>1
  <2> HIDE DEF u
  <2> QED
    BY <1>1, <2>1 DEF Range
<1> HIDE DEF u
<1>5. Range(u) = Range(s) \cup Range(t)
  <2>1. DOMAIN u = 1 .. (Len(s) + Len(t)) /\ DOMAIN s = 1 .. Len(s) /\ DOMAIN t = 1 .. Len(t)
    BY <1>1
  <2>2. Range(u) \subseteq Range(s) \cup Range(t)
    <3>1. Range(u) = {u[k] : k \in 1 .. (Len(s) + Len(t))}
      BY <2>1 DEF Range
    <3> QED
      BY <1>2, <3>1
  <2>3. Range(s) \subseteq Range(u)
    <3>1. Range(s) = {s[k] : k \in 1 .. Len(s)}
      BY <2>1 DEF Range
    <3> QED
      BY <1>3, <3>1
  <2>4. Range(t) \subseteq Range(u)
    <3>1. Range(t) = {t[k] : k \in 1 .. Len(t)}
      BY <2>1 DEF Range
    <3> QED
      BY <1>4, <3>1
  <2> QED
    BY <2>2, <2>3, <2>4
<1>6. u \in Seq(A)
  BY <1>1
<1>7. u = s \o t
  BY DEF u
<1> QED
  BY <1>5, <1>6, <1>7

LEMMA CountTo ==
    ASSUME NEW N \in Nat
    PROVE  IsFiniteSet(1 .. N) /\ Cardinality(1 .. N) = N
<1>1. 1 \in Int /\ N \in Int
  OBVIOUS
<1>2. IsFiniteSet(1 .. N) /\ Cardinality(1 .. N) = IF 1 > N THEN 0 ELSE N - 1 + 1
  BY <1>1, FS_Interval
<1> QED
  BY <1>2

LEMMA MinInNat ==
    ASSUME NEW S \in SUBSET Nat, S # {}
    PROVE  Min(S) \in S /\ \A x \in S : Min(S) <= x
<1> DEFINE T == {n \in Nat : \A x \in S : n <= x}
<1>1. PICK n \in Nat : n \in T /\ n + 1 \notin T
  <2>1. 0 \in T
    OBVIOUS
  <2>2. PICK x \in S : TRUE
    OBVIOUS
  <2>3. x + 1 \in Nat /\ x + 1 \notin T
    BY <2>2
  <2> HIDE DEF T
  <2> QED
    BY <2>1, <2>3, Inductive
<1>2. n \in S
  <2>1. PICK x \in S : ~(n + 1 <= x)
    BY <1>1
  <2>2. n <= x /\ x \in Nat
    BY <1>1
  <2>3. x = n
    BY <2>1, <2>2
  <2> QED
    BY <2>3
<1>3. \E x \in S : \A y \in S : x <= y
  BY <1>1, <1>2
<1> QED
  BY <1>3 DEF Min

-----------------------------------------------------------------------------
(* Folds *)

LEMMA MaxInInterval ==
    ASSUME NEW N \in Nat, NEW S \in SUBSET (1 .. N), S # {}
    PROVE  Max(S) \in S /\ \A x \in S : x <= Max(S)
<1> DEFINE T == {n \in Nat : \A s \in SUBSET (1 .. n) : s # {} => \E x \in s : \A y \in s : x >= y}
<1>1. 0 \in T
  <2>1. 1 .. 0 = {}
    OBVIOUS
  <2> QED
    BY <2>1
<1>2. ASSUME NEW n \in Nat, n \in T PROVE n + 1 \in T
  <2>1. ASSUME NEW s \in SUBSET (1 .. (n + 1)), s # {} PROVE \E x \in s : \A y \in s : x >= y
    <3>1. CASE n + 1 \in s
      BY <3>1
    <3>2. CASE n + 1 \notin s
      <4>1. s \in SUBSET (1 .. n)
        BY <3>2
      <4> QED
        BY <1>2, <2>1, <4>1
    <3> QED
      BY <3>1, <3>2
  <2> QED
    BY <2>1
<1>3. N \in T
  <2> HIDE DEF T
  <2> QED
    BY <1>1, <1>2, Inductive
<1>4. \E x \in S : \A y \in S : x >= y
  BY <1>3
<1> QED
  BY <1>4 DEF Max

(* A fold reaches the positions up to n from those up to n - 1. *)
LEMMA LastOfPrefix ==
    ASSUME NEW N \in Nat, NEW n \in 1 .. N
    PROVE  /\ 1 .. n \in SUBSET (1 .. N) /\ 1 .. n # {}
           /\ Max(1 .. n) = n /\ (1 .. n) \ {n} = 1 .. (n - 1)
<1>1. 1 .. n \in SUBSET (1 .. N)
  OBVIOUS
<1>2. 1 \in 1 .. n
  OBVIOUS
<1>3. Max(1 .. n) = n
  BY DEF Max
<1>4. (1 .. n) \ {n} = 1 .. (n - 1)
  OBVIOUS
<1> QED
  BY <1>1, <1>2, <1>3, <1>4

LEMMA ImageIsFinite ==
    ASSUME NEW f, IsFiniteSet(DOMAIN f)
    PROVE  IsFiniteSet(Range(f)) /\ Cardinality(Range(f)) <= Cardinality(DOMAIN f)
<1> DEFINE g == [x \in DOMAIN f |-> f[x]]
<1>1. g \in Surjection(DOMAIN f, Range(f))
  BY DEF Surjection, Range
<1> HIDE DEF g
<1> QED
  BY <1>1, FS_Surjection

LEMMA RangeIsFinite ==
    ASSUME NEW s, IsSequence(s)
    PROVE  /\ IsFiniteSet(DOMAIN s) /\ Cardinality(DOMAIN s) = Len(s)
           /\ IsFiniteSet(Range(s)) /\ Cardinality(Range(s)) <= Len(s)
<1>1. DOMAIN s = 1 .. Len(s) /\ Len(s) \in Nat
  BY DEF IsSequence
<1>2. IsFiniteSet(DOMAIN s) /\ Cardinality(DOMAIN s) = Len(s)
  BY <1>1, CountTo
<1> QED
  BY <1>2, ImageIsFinite

(* The recursion of a fold over the subsets of S, elements taken by pick.   *)
FoldsBy(it, S, base, step, pick) ==
    \A s \in SUBSET S :
        it[s] = IF s = {} THEN base ELSE step[<<pick[s], it[s \ {pick[s]}]>>]

(* What the recursion computes exists, for every step that stays in D.      *)
LEMMA FoldByTrace ==
    ASSUME NEW S, IsFiniteSet(S), NEW D, NEW base \in D, NEW step \in [S \X D -> D],
           NEW pick, \A s \in SUBSET S : s # {} => pick[s] \in s
    PROVE  \E it \in [SUBSET S -> D] : FoldsBy(it, S, base, step, pick)
<1> DEFINE small(m) == {s \in SUBSET S : Cardinality(s) <= m}
           Traces(it, m) ==
               \A s \in small(m) :
                   it[s] = IF s = {} THEN base ELSE step[<<pick[s], it[s \ {pick[s]}]>>]
           T == {m \in Nat : \E it \in [small(m) -> D] : Traces(it, m)}
<1>0. \A s \in SUBSET S : IsFiniteSet(s) /\ Cardinality(s) \in Nat
  BY FS_Subset, FS_CardinalityType
<1>1. 0 \in T
  <2> DEFINE it == [s \in small(0) |-> base]
  <2>1. \A s \in small(0) : s = {}
    <3> SUFFICES ASSUME NEW s \in small(0) PROVE s = {}
      OBVIOUS
    <3>1. IsFiniteSet(s) /\ Cardinality(s) = 0
      BY <1>0
    <3> QED
      BY <3>1, FS_EmptySet
  <2>2. it \in [small(0) -> D] /\ Traces(it, 0)
    BY <2>1
  <2> HIDE DEF small, it
  <2> QED
    BY <2>2
<1>2. ASSUME NEW n \in Nat, n \in T PROVE n + 1 \in T
  <2>1. PICK it \in [small(n) -> D] : Traces(it, n)
    BY <1>2
  <2> DEFINE less(s) == s \ {pick[s]}
             h == [s \in small(n + 1) |->
                      IF Cardinality(s) = n + 1 THEN step[<<pick[s], it[less(s)]>>] ELSE it[s]]
  <2>2. ASSUME NEW s \in small(n + 1), s # {}
        PROVE  /\ pick[s] \in S /\ less(s) \in small(n)
               /\ less(s) \in small(n + 1) /\ Cardinality(less(s)) # n + 1
    <3>1. pick[s] \in s /\ IsFiniteSet(s) /\ Cardinality(s) \in Nat
      BY <1>0, <2>2
    <3>2. Cardinality(less(s)) = Cardinality(s) - 1
      BY <3>1, FS_RemoveElement
    <3> QED
      BY <3>1, <3>2
  <2>3. ASSUME NEW s \in small(n + 1), Cardinality(s) # n + 1 PROVE s \in small(n)
    BY <1>0, <2>3
  <2>4. ASSUME NEW s \in small(n + 1), Cardinality(s) = n + 1 PROVE s # {}
    <3>1. Cardinality({}) = 0 /\ Cardinality(s) # 0
      BY <2>4, FS_EmptySet
    <3> QED
      BY <3>1
  <2>5. h \in [small(n + 1) -> D]
    <3>1. ASSUME NEW s \in small(n + 1) PROVE h[s] \in D
      <4> HIDE DEF small, less
      <4>1. CASE Cardinality(s) = n + 1
        <5>1. pick[s] \in S /\ it[less(s)] \in D
          BY <2>1, <2>2, <2>4, <4>1
        <5>2. h[s] = step[<<pick[s], it[less(s)]>>]
          BY <4>1
        <5> QED
          BY <5>1, <5>2
      <4>2. CASE Cardinality(s) # n + 1
        BY <2>1, <2>3, <4>2
      <4> QED
        BY <4>1, <4>2
    <3> HIDE DEF small
    <3> QED
      BY <3>1
  <2>6. ASSUME NEW s \in small(n + 1)
        PROVE  h[s] = IF s = {} THEN base ELSE step[<<pick[s], h[less(s)]>>]
    <3>1. CASE s = {}
      <4>1. Cardinality(s) # n + 1
        BY <2>4, <3>1
      <4>2. s \in small(n) /\ h[s] = it[s]
        BY <2>3, <4>1
      <4> QED
        BY <2>1, <3>1, <4>2
    <3>2. CASE s # {}
      <4>1. h[less(s)] = it[less(s)]
        BY <2>2, <3>2
      <4>2. CASE Cardinality(s) = n + 1
        <5>1. h[s] = step[<<pick[s], it[less(s)]>>]
          BY <4>2
        <5> HIDE DEF h, less
        <5> QED
          BY <3>2, <4>1, <5>1
      <4>3. CASE Cardinality(s) # n + 1
        <5>1. s \in small(n) /\ h[s] = it[s]
          BY <2>3, <4>3
        <5>2. it[s] = step[<<pick[s], it[less(s)]>>]
          BY <2>1, <3>2, <5>1
        <5> HIDE DEF h, less, small
        <5> QED
          BY <3>2, <4>1, <5>1, <5>2
      <4> QED
        BY <4>2, <4>3
    <3> QED
      BY <3>1, <3>2
  <2>7. Traces(h, n + 1)
    <3> HIDE DEF h, small
    <3> QED
      BY <2>6
  <2> HIDE DEF h, small, Traces
  <2> QED
    BY <2>5, <2>7
<1>3. Cardinality(S) \in T
  <2> HIDE DEF T
  <2>1. Cardinality(S) \in Nat
    BY FS_CardinalityType
  <2> QED
    BY <1>1, <1>2, <2>1, Inductive
<1>4. small(Cardinality(S)) = SUBSET S
  BY FS_Subset
<1>5. PICK it \in [small(Cardinality(S)) -> D] : Traces(it, Cardinality(S))
  BY <1>3
<1>6. it \in [SUBSET S -> D] /\ FoldsBy(it, S, base, step, pick)
  <2> HIDE DEF small
  <2>1. it \in [SUBSET S -> D]
    BY <1>4, <1>5
  <2>2. FoldsBy(it, S, base, step, pick)
    BY <1>4, <1>5 DEF FoldsBy
  <2> QED
    BY <2>1, <2>2
<1> QED
  BY <1>6

(* FoldLeft's recursion over the sets of positions of a sequence.           *)
Folds(it, N, base, step) ==
    \A S \in SUBSET (1 .. N) :
        it[S] = IF S = {} THEN base ELSE step[<<Max(S), it[S \ {Max(S)}]>>]

LEMMA FoldTrace ==
    ASSUME NEW N \in Nat, NEW D, NEW base \in D, NEW step \in [(1 .. N) \X D -> D]
    PROVE  \E it \in [SUBSET (1 .. N) -> D] : Folds(it, N, base, step)
<1> DEFINE pick == [S \in SUBSET (1 .. N) |-> Max(S)]
<1>1. \A S \in SUBSET (1 .. N) : S # {} => pick[S] \in S
  BY MaxInInterval
<1>2. IsFiniteSet(1 .. N)
  BY CountTo
<1>3. \A S \in SUBSET (1 .. N) : pick[S] = Max(S)
  OBVIOUS
<1> HIDE DEF pick
<1>4. PICK it \in [SUBSET (1 .. N) -> D] : FoldsBy(it, 1 .. N, base, step, pick)
  BY <1>1, <1>2, FoldByTrace
<1>5. Folds(it, N, base, step)
  BY <1>3, <1>4 DEF FoldsBy, Folds
<1> QED
  BY <1>4, <1>5

-----------------------------------------------------------------------------
(* Sorting and filtering *)

StrictOrder(S, R) ==
    /\ \A x \in S : <<x, x>> \notin R
    /\ \A x, y, z \in S : <<x, y>> \in R /\ <<y, z>> \in R => <<x, z>> \in R
    /\ \A x, y \in S : x = y \/ <<x, y>> \in R \/ <<y, x>> \in R

(* In a strict order of a finite set every place is taken, by one element.  *)
LEMMA PlacesAreTaken ==
    ASSUME NEW S, IsFiniteSet(S), NEW R, StrictOrder(S, R)
    PROVE  /\ Cardinality(S) \in Nat
           /\ \A x \in S : Place(S, R, x) \in 0 .. (Cardinality(S) - 1)
           /\ \A x, y \in S : <<x, y>> \in R => Place(S, R, x) < Place(S, R, y)
           /\ \A n \in 0 .. (Cardinality(S) - 1) : \E x \in S : Place(S, R, x) = n
<1> DEFINE N == Cardinality(S)
           before(x) == {y \in S : <<y, x>> \in R}
           f == [x \in S |-> Place(S, R, x)]
<1>1. N \in Nat
  BY FS_CardinalityType
<1>2. ASSUME NEW x \in S
      PROVE  IsFiniteSet(before(x)) /\ Cardinality(before(x)) \in Nat /\ Place(S, R, x) = Cardinality(before(x))
  <2>1. before(x) \in SUBSET S
    OBVIOUS
  <2>2. IsFiniteSet(before(x))
    <3> HIDE DEF before
    <3> QED
      BY <2>1, FS_Subset
  <2> QED
    BY <2>2, FS_CardinalityType DEF Place
<1>3. ASSUME NEW x \in S PROVE Place(S, R, x) \in 0 .. (N - 1)
  <2>1. x \notin before(x)
    BY DEF StrictOrder
  <2>2. before(x) \cup {x} \in SUBSET S
    OBVIOUS
  <2> HIDE DEF before, N
  <2>3. Cardinality(before(x) \cup {x}) = Cardinality(before(x)) + 1
    BY <1>2, <2>1, FS_AddElement
  <2>4. Cardinality(before(x) \cup {x}) <= Cardinality(S)
    BY <2>2, FS_Subset
  <2> QED
    BY <1>1, <1>2, <2>3, <2>4 DEF N
<1>4. ASSUME NEW x \in S, NEW y \in S, <<x, y>> \in R PROVE Place(S, R, x) < Place(S, R, y)
  <2>1. x \notin before(x) /\ before(x) \cup {x} \in SUBSET before(y)
    BY <1>4 DEF StrictOrder
  <2> HIDE DEF before
  <2>2. Cardinality(before(x) \cup {x}) = Cardinality(before(x)) + 1
    BY <1>2, <2>1, FS_AddElement
  <2>3. Cardinality(before(x) \cup {x}) <= Cardinality(before(y))
    BY <1>2, <2>1, FS_Subset
  <2> QED
    BY <1>2, <2>2, <2>3
<1>5. f \in Injection(S, 0 .. (N - 1))
  <2>1. f \in [S -> 0 .. (N - 1)]
    BY <1>3
  <2>2. ASSUME NEW x \in S, NEW y \in S, x # y PROVE f[x] # f[y]
    <3>1. f[x] = Place(S, R, x) /\ f[y] = Place(S, R, y)
      OBVIOUS
    <3>2. f[x] \in Int /\ f[y] \in Int
      BY <1>3, <3>1
    <3>3. f[x] < f[y] \/ f[y] < f[x]
      BY <1>4, <2>2, <3>1 DEF StrictOrder
    <3> QED
      BY <3>2, <3>3
  <2> QED
    BY <2>1, <2>2 DEF Injection, IsInjective
<1>6. IsFiniteSet(0 .. (N - 1)) /\ Cardinality(0 .. (N - 1)) = N
  <2>1. 0 \in Int /\ N - 1 \in Int
    BY <1>1
  <2>2. /\ IsFiniteSet(0 .. (N - 1))
        /\ Cardinality(0 .. (N - 1)) = IF 0 > N - 1 THEN 0 ELSE N - 1 - 0 + 1
    <3> HIDE DEF N
    <3> QED
      BY <2>1, FS_Interval
  <2> QED
    BY <1>1, <2>2
<1>7. f \in Surjection(S, 0 .. (N - 1))
  <2>1. Cardinality(S) = Cardinality(0 .. (N - 1))
    BY <1>6
  <2> HIDE DEF f, N
  <2> QED
    BY <1>5, <1>6, <2>1, FS_Injection
<1>8. \A n \in 0 .. (N - 1) : \E x \in S : Place(S, R, x) = n
  BY <1>7 DEF Surjection
<1> QED
  BY <1>1, <1>3, <1>4, <1>8

LEMMA SortedInOrder ==
    ASSUME NEW S, IsFiniteSet(S), NEW R, StrictOrder(S, R),
           NEW s, s = Sorted(S, R)
    PROVE  /\ s \in Seq(S) /\ Len(s) = Cardinality(S) /\ Cardinality(S) \in Nat
           /\ Range(s) = S
           /\ \A a, b \in DOMAIN s : a < b => <<s[a], s[b]>> \in R
<1> DEFINE N == Cardinality(S)
<1>1. N \in Nat
  BY PlacesAreTaken
<1>2. DOMAIN s = 1 .. N
  BY DEF Sorted
<1>3. ASSUME NEW n \in 1 .. N PROVE s[n] \in S /\ Place(S, R, s[n]) = n - 1
  <2>1. n - 1 \in 0 .. (N - 1)
    BY <1>1
  <2>2. \E x \in S : Place(S, R, x) = n - 1
    BY <2>1, PlacesAreTaken
  <2>3. s[n] = CHOOSE x \in S : Place(S, R, x) = n - 1
    BY <1>3 DEF Sorted
  <2> QED
    BY <2>2, <2>3
<1>4. s \in Seq(S) /\ Len(s) = N
  <2>1. s \in [1 .. N -> S]
    BY <1>2, <1>3 DEF Sorted
  <2> HIDE DEF N
  <2> QED
    BY <1>1, <2>1
<1>5. ASSUME NEW x \in S, NEW y \in S, Place(S, R, x) <= Place(S, R, y)
      PROVE  x = y \/ <<x, y>> \in R
  <2>1. Place(S, R, x) \in Int /\ Place(S, R, y) \in Int
    BY PlacesAreTaken
  <2>2. <<y, x>> \in R => Place(S, R, y) < Place(S, R, x)
    BY PlacesAreTaken
  <2> QED
    BY <1>5, <2>1, <2>2 DEF StrictOrder
<1>6. ASSUME NEW a \in 1 .. N, NEW b \in 1 .. N, a < b PROVE <<s[a], s[b]>> \in R
  <2>1. Place(S, R, s[a]) <= Place(S, R, s[b]) /\ s[a] # s[b]
    BY <1>1, <1>3, <1>6
  <2> QED
    BY <1>3, <1>5, <2>1
<1>7. ASSUME NEW x \in S PROVE \E n \in 1 .. N : s[n] = x
  <2> DEFINE n == Place(S, R, x) + 1
  <2>1. Place(S, R, x) \in 0 .. (N - 1)
    BY PlacesAreTaken
  <2>2. n \in 1 .. N /\ n - 1 = Place(S, R, x)
    BY <1>1, <2>1
  <2>3. s[n] \in S /\ Place(S, R, s[n]) = Place(S, R, x)
    BY <1>3, <2>2
  <2>4. <<s[n], x>> \notin R /\ <<x, s[n]>> \notin R
    BY <2>1, <2>3, PlacesAreTaken
  <2>5. s[n] = x
    BY <2>3, <2>4 DEF StrictOrder
  <2> QED
    BY <2>2, <2>5
<1>8. Range(s) = S
  BY <1>2, <1>3, <1>7 DEF Range
<1> QED
  BY <1>1, <1>2, <1>4, <1>6, <1>8

LEMMA NumbersInOrder ==
    ASSUME NEW K \in SUBSET Nat
    PROVE  StrictOrder(K, Less(K))
  BY DEF StrictOrder, Less

(* What a filter lets through, in the order it had. *)
LEMMA PickedInOrder ==
    ASSUME NEW s, IsSequence(s), NEW K \in SUBSET (DOMAIN s)
    PROVE  /\ IsSequence(Picked(s, K))
           /\ Range(Picked(s, K)) = {s[k] : k \in K}
           /\ Len(Picked(s, K)) <= Len(s)
           /\ \E at \in [DOMAIN Picked(s, K) -> K] :
                /\ \A n \in DOMAIN Picked(s, K) : Picked(s, K)[n] = s[at[n]]
                /\ \A a, b \in DOMAIN Picked(s, K) : a < b => at[a] < at[b]
<1> DEFINE at == Sorted(K, Less(K))
<1>1. DOMAIN s = 1 .. Len(s) /\ Len(s) \in Nat
  BY DEF IsSequence
<1>2. IsFiniteSet(K) /\ Cardinality(K) <= Len(s)
  <2>1. IsFiniteSet(1 .. Len(s)) /\ Cardinality(1 .. Len(s)) = Len(s)
    BY <1>1, CountTo
  <2> QED
    BY <1>1, <2>1, FS_Subset
<1>3. StrictOrder(K, Less(K))
  BY <1>1, NumbersInOrder
<1>4. /\ at \in Seq(K) /\ Len(at) = Cardinality(K) /\ Cardinality(K) \in Nat
      /\ Range(at) = K
      /\ \A a, b \in DOMAIN at : a < b => <<at[a], at[b]>> \in Less(K)
  <2>1. at = Sorted(K, Less(K))
    OBVIOUS
  <2> HIDE DEF at
  <2> QED
    BY <1>2, <1>3, <2>1, SortedInOrder
<1>5. Picked(s, K) = [n \in DOMAIN at |-> s[at[n]]]
  BY DEF Picked
<1> HIDE DEF at
<1>6. DOMAIN at = 1 .. Len(at) /\ at \in [1 .. Len(at) -> K] /\ Len(at) \in Nat
  BY <1>4
<1>7. Range(Picked(s, K)) = {s[k] : k \in K}
  BY <1>4, <1>5, <1>6 DEF Range
<1>8. Picked(s, K) \in Seq({s[k] : k \in K}) /\ Len(Picked(s, K)) = Len(at)
  <2>1. Picked(s, K) \in [1 .. Len(at) -> {s[k] : k \in K}]
    BY <1>5, <1>6
  <2> QED
    BY <1>6, <2>1
<1>9. \A a, b \in DOMAIN at : a < b => at[a] < at[b]
  BY <1>4 DEF Less
<1>10. IsSequence(Picked(s, K))
  BY <1>7, <1>8 DEF IsSequence
<1>11. Len(Picked(s, K)) <= Len(s)
  BY <1>2, <1>4, <1>8
<1>12. DOMAIN Picked(s, K) = DOMAIN at /\ at \in [DOMAIN at -> K]
  BY <1>5, <1>6
<1>13. \A n \in DOMAIN at : Picked(s, K)[n] = s[at[n]]
  BY <1>5
<1> QED
  BY <1>7, <1>9, <1>10, <1>11, <1>12, <1>13

-----------------------------------------------------------------------------
(* Sums *)

(* A sum over a finite set adds one of its terms to the sum of the others.  *)
Some(s) == CHOOSE x \in s : TRUE

SumsBy(it, f) ==
    /\ it[{}] = 0
    /\ \A s \in SUBSET (DOMAIN f) : s # {} => it[s] = f[Some(s)] + it[s \ {Some(s)}]

LEMMA SumTrace ==
    ASSUME NEW D, IsFiniteSet(D), NEW f \in [D -> Nat]
    PROVE  \E it \in [SUBSET D -> Nat] : SumsBy(it, f) /\ SumFunction(f) = it[D]
<1> DEFINE any(s) == CHOOSE x \in s : TRUE
           pick == [s \in SUBSET D |-> any(s)]
           step == [x \in D \X Nat |-> f[x[1]] + x[2]]
           Unfolds(g) ==
               g = [s \in SUBSET (DOMAIN f) |->
                       IF s = {} THEN 0 ELSE f[any(s)] + g[s \ {any(s)}]]
           iter == CHOOSE g : Unfolds(g)
<1>1. \A s \in SUBSET D : s # {} => pick[s] = any(s) /\ any(s) \in s
  OBVIOUS
<1>2. PICK it \in [SUBSET D -> Nat] : FoldsBy(it, D, 0, step, pick)
  <2>1. step \in [D \X Nat -> Nat]
    OBVIOUS
  <2>2. \A s \in SUBSET D : s # {} => pick[s] \in s
    BY <1>1
  <2>3. 0 \in Nat
    OBVIOUS
  <2> HIDE DEF step, pick, any
  <2> QED
    BY <2>1, <2>2, <2>3, FoldByTrace
<1>3. ASSUME NEW s \in SUBSET D, s # {}
      PROVE  it[s] = f[any(s)] + it[s \ {any(s)}]
  <2>1. it[s] = step[<<pick[s], it[s \ {pick[s]}]>>]
    BY <1>2, <1>3 DEF FoldsBy
  <2>2. pick[s] = any(s) /\ any(s) \in D /\ it[s \ {any(s)}] \in Nat
    BY <1>1, <1>2, <1>3
  <2> HIDE DEF pick, any
  <2> QED
    BY <2>1, <2>2
<1>4. it[{}] = 0
  BY <1>2 DEF FoldsBy
<1>5. Unfolds(it)
  <2>1. DOMAIN f = D
    OBVIOUS
  <2> HIDE DEF any, step, pick
  <2> QED
    BY <1>2, <1>3, <1>4, <2>1
<1>6. /\ iter[{}] = 0
      /\ \A s \in SUBSET D : s # {} => iter[s] = f[any(s)] + iter[s \ {any(s)}]
      /\ iter = [s \in SUBSET D |-> iter[s]]
  <2>1. Unfolds(iter)
    BY <1>5
  <2>2. DOMAIN f = D
    OBVIOUS
  <2> HIDE DEF iter, any
  <2> QED
    BY <2>1, <2>2
<1>7. SumFunction(f) = iter[D]
  BY DEF SumFunction, SumFunctionOnSet, FoldFunctionOnSet, MapThenFoldSet
<1> HIDE DEF iter, any, step, pick, Unfolds
<1> DEFINE T == {m \in Nat : \A s \in SUBSET D : Cardinality(s) <= m => iter[s] \in Nat}
<1>8. \A s \in SUBSET D : IsFiniteSet(s) /\ Cardinality(s) \in Nat
  BY FS_Subset, FS_CardinalityType
<1>9. 0 \in T
  <2> SUFFICES ASSUME NEW s \in SUBSET D, Cardinality(s) <= 0 PROVE iter[s] \in Nat
    OBVIOUS
  <2>1. s = {}
    BY <1>8, FS_EmptySet
  <2> QED
    BY <1>6, <2>1
<1>10. ASSUME NEW m \in Nat, m \in T PROVE m + 1 \in T
  <2> SUFFICES ASSUME NEW s \in SUBSET D, Cardinality(s) <= m + 1
               PROVE  iter[s] \in Nat
    OBVIOUS
  <2>0. CASE s = {}
    BY <1>6, <2>0
  <2> SUFFICES ASSUME s # {} PROVE iter[s] \in Nat
    BY <2>0
  <2>1. any(s) \in s
    BY <1>1
  <2>2. Cardinality(s \ {any(s)}) = Cardinality(s) - 1
    BY <1>8, <2>1, FS_RemoveElement
  <2>3. iter[s \ {any(s)}] \in Nat
    BY <1>8, <1>10, <2>2
  <2>4. iter[s] = f[any(s)] + iter[s \ {any(s)}]
    BY <1>6
  <2> QED
    BY <2>1, <2>3, <2>4
<1>11. Cardinality(D) \in T
  <2> HIDE DEF T
  <2> QED
    BY <1>8, <1>9, <1>10, Inductive
<1>12. iter \in [SUBSET D -> Nat]
  <2>1. \A s \in SUBSET D : Cardinality(s) <= Cardinality(D)
    BY FS_Subset
  <2>2. \A s \in SUBSET D : iter[s] \in Nat
    BY <1>11, <2>1
  <2> QED
    BY <1>6, <2>2
<1>13. SumsBy(iter, f)
  <2>1. iter[{}] = 0
    BY <1>6
  <2>2. ASSUME NEW s \in SUBSET D, s # {} PROVE iter[s] = f[Some(s)] + iter[s \ {Some(s)}]
    <3>1. any(s) = Some(s)
      BY DEF any, Some
    <3>2. iter[s] = f[any(s)] + iter[s \ {any(s)}]
      BY <1>6, <2>2
    <3> QED
      BY <3>1, <3>2
  <2> QED
    BY <2>1, <2>2 DEF SumsBy
<1> QED
  BY <1>7, <1>12, <1>13

LEMMA SumIsNatural ==
    ASSUME NEW D, IsFiniteSet(D), NEW f \in [D -> Nat]
    PROVE  SumFunction(f) \in Nat
<1>1. PICK it \in [SUBSET D -> Nat] : SumFunction(f) = it[D]
  BY SumTrace
<1> QED
  BY <1>1

(* Terms that have sets of their own, no smaller, sum to no more than all   *)
(* the sets together.                                                       *)
LEMMA SumOfClaims ==
    ASSUME NEW D, IsFiniteSet(D), NEW f \in [D -> Nat], NEW claim,
           \A x \in D : IsFiniteSet(claim[x]) /\ f[x] <= Cardinality(claim[x]),
           \A x, y \in D : x # y => claim[x] \cap claim[y] = {},
           NEW S, IsFiniteSet(S), \A x \in D : claim[x] \subseteq S
    PROVE  SumFunction(f) <= Cardinality(S)
<1> DEFINE all(s) == UNION {claim[x] : x \in s}
<1>1. PICK it \in [SUBSET D -> Nat] : SumsBy(it, f) /\ SumFunction(f) = it[D]
  BY SumTrace
<1>2. \A s \in SUBSET D : IsFiniteSet(s) /\ Cardinality(s) \in Nat
  BY FS_Subset, FS_CardinalityType
<1>3. \A s \in SUBSET D : /\ all(s) \in SUBSET S /\ IsFiniteSet(all(s))
                          /\ Cardinality(all(s)) \in Nat /\ Cardinality(all(s)) <= Cardinality(S)
  <2> SUFFICES ASSUME NEW s \in SUBSET D
               PROVE  /\ all(s) \in SUBSET S /\ IsFiniteSet(all(s))
                      /\ Cardinality(all(s)) \in Nat /\ Cardinality(all(s)) <= Cardinality(S)
    OBVIOUS
  <2>1. all(s) \in SUBSET S
    OBVIOUS
  <2> HIDE DEF all
  <2> QED
    BY <2>1, FS_Subset, FS_CardinalityType
<1> DEFINE T == {m \in Nat : \A s \in SUBSET D : Cardinality(s) <= m => it[s] <= Cardinality(all(s))}
<1>4. 0 \in T
  <2> SUFFICES ASSUME NEW s \in SUBSET D, Cardinality(s) <= 0 PROVE it[s] <= Cardinality(all(s))
    OBVIOUS
  <2>1. s = {}
    BY <1>2, FS_EmptySet
  <2>2. it[s] = 0
    BY <1>1, <2>1 DEF SumsBy
  <2> HIDE DEF all
  <2> QED
    BY <1>3, <2>2
<1>5. ASSUME NEW m \in Nat, m \in T PROVE m + 1 \in T
  <2> SUFFICES ASSUME NEW s \in SUBSET D, Cardinality(s) <= m + 1 PROVE it[s] <= Cardinality(all(s))
    OBVIOUS
  <2>1. CASE s = {}
    <3>1. it[s] = 0
      BY <1>1, <2>1 DEF SumsBy
    <3> HIDE DEF all
    <3> QED
      BY <1>3, <3>1
  <2>2. CASE s # {}
    <3>1. PICK x \in s : it[s] = f[x] + it[s \ {x}]
      <4>1. Some(s) \in s
        BY <2>2 DEF Some
      <4>2. it[s] = f[Some(s)] + it[s \ {Some(s)}]
        BY <1>1, <2>2 DEF SumsBy
      <4> QED
        BY <4>1, <4>2
    <3> DEFINE r == s \ {x}
    <3>2. r \in SUBSET D /\ Cardinality(r) = Cardinality(s) - 1
      BY <1>2, FS_RemoveElement
    <3>3. it[r] <= Cardinality(all(r)) /\ it[r] \in Nat
      BY <1>1, <1>2, <1>5, <3>2
    <3>4. all(s) = claim[x] \cup all(r) /\ claim[x] \cap all(r) = {}
      OBVIOUS
    <3> HIDE DEF all, r
    <3>5. /\ IsFiniteSet(claim[x]) /\ IsFiniteSet(all(r))
          /\ Cardinality(claim[x]) \in Nat /\ Cardinality(all(r)) \in Nat
      BY <1>3, <3>2, FS_CardinalityType
    <3>6. Cardinality(all(s)) = Cardinality(claim[x]) + Cardinality(all(r)) - Cardinality({})
      <4> DEFINE A == claim[x]
                 B == all(r)
      <4>1. all(s) = A \cup B /\ A \cap B = {} /\ IsFiniteSet(A) /\ IsFiniteSet(B)
        BY <3>4, <3>5
      <4> HIDE DEF A, B
      <4>2. Cardinality(A \cup B) = Cardinality(A) + Cardinality(B) - Cardinality(A \cap B)
        BY <4>1, FS_Union
      <4> QED
        BY <4>1, <4>2 DEF A, B
    <3>7. Cardinality({}) = 0
      BY FS_EmptySet
    <3>8. f[x] <= Cardinality(claim[x]) /\ f[x] \in Nat
      OBVIOUS
    <3>9. it[s] = f[x] + it[r]
      BY <3>1 DEF r
    <3> QED
      BY <3>3, <3>5, <3>6, <3>7, <3>8, <3>9
  <2> QED
    BY <2>1, <2>2
<1>6. Cardinality(D) \in T
  <2> HIDE DEF T
  <2> QED
    BY <1>2, <1>4, <1>5, Inductive
<1>7. it[D] <= Cardinality(all(D))
  BY <1>2, <1>6
<1>8. it[D] \in Nat /\ Cardinality(S) \in Nat
  BY <1>1, FS_CardinalityType
<1> HIDE DEF all, T
<1> QED
  BY <1>1, <1>3, <1>7, <1>8

(* Of no smaller terms the sum is no smaller. *)
LEMMA SumIsMonotone ==
    ASSUME NEW D, IsFiniteSet(D), NEW f \in [D -> Nat], NEW g \in [D -> Nat],
           \A x \in D : f[x] <= g[x]
    PROVE  SumFunction(f) <= SumFunction(g)
<1>1. PICK it \in [SUBSET D -> Nat] : SumsBy(it, f) /\ SumFunction(f) = it[D]
  BY SumTrace
<1>2. PICK jt \in [SUBSET D -> Nat] : SumsBy(jt, g) /\ SumFunction(g) = jt[D]
  BY SumTrace
<1>3. \A s \in SUBSET D : IsFiniteSet(s) /\ Cardinality(s) \in Nat
  BY FS_Subset, FS_CardinalityType
<1> DEFINE T == {m \in Nat : \A s \in SUBSET D : Cardinality(s) <= m => it[s] <= jt[s]}
<1>4. 0 \in T
  <2> SUFFICES ASSUME NEW s \in SUBSET D, Cardinality(s) <= 0 PROVE it[s] <= jt[s]
    OBVIOUS
  <2>1. s = {}
    BY <1>3, FS_EmptySet
  <2> QED
    BY <1>1, <1>2, <2>1 DEF SumsBy
<1>5. ASSUME NEW m \in Nat, m \in T PROVE m + 1 \in T
  <2> SUFFICES ASSUME NEW s \in SUBSET D, Cardinality(s) <= m + 1 PROVE it[s] <= jt[s]
    OBVIOUS
  <2>1. CASE s = {}
    BY <1>1, <1>2, <2>1 DEF SumsBy
  <2>2. CASE s # {}
    <3> DEFINE x == Some(s)
               r == s \ {x}
    <3>1. x \in s
      BY <2>2 DEF Some
    <3>2. it[s] = f[x] + it[r] /\ jt[s] = g[x] + jt[r]
      BY <1>1, <1>2, <2>2 DEF SumsBy
    <3> HIDE DEF x
    <3>3. r \in SUBSET D /\ Cardinality(r) = Cardinality(s) - 1
      BY <1>3, <3>1, FS_RemoveElement
    <3>4. it[r] <= jt[r]
      BY <1>3, <1>5, <3>3
    <3>5. f[x] <= g[x] /\ f[x] \in Nat /\ g[x] \in Nat /\ it[r] \in Nat /\ jt[r] \in Nat
      BY <3>1, <3>3
    <3> QED
      BY <3>2, <3>4, <3>5
  <2> QED
    BY <2>1, <2>2
<1>6. Cardinality(D) \in T
  <2> HIDE DEF T
  <2> QED
    BY <1>3, <1>4, <1>5, Inductive
<1> QED
  BY <1>1, <1>2, <1>3, <1>6

-----------------------------------------------------------------------------
(* Recursion over a table of which each entry depends on smaller places *)

Within(D, N) == D \in SUBSET ((-N) .. N)

LEMMA InductionOverPlaces ==
    ASSUME NEW N \in Nat, NEW D, Within(D, N), NEW P,
           \A q \in D : (\A p \in D : p < q => p \in P) => q \in P
    PROVE  D \subseteq P
<1> DEFINE T == {n \in Nat : \A q \in D : q + N < n => q \in P}
<1> USE DEF Within
<1>1. 0 \in T
  OBVIOUS
<1>2. ASSUME NEW n \in Nat, n \in T PROVE n + 1 \in T
  <2> SUFFICES ASSUME NEW q \in D, q + N < n + 1 PROVE q \in P
    OBVIOUS
  <2>1. \A p \in D : p < q => p \in P
    BY <1>2
  <2> QED
    BY <2>1
<1>3. 2 * N + 1 \in T
  <2> HIDE DEF T
  <2> QED
    BY <1>1, <1>2, Inductive
<1> QED
  BY <1>3

(* What step makes of a function at a place depends on smaller places only. *)
LooksDown(D, V, step) ==
    \A q \in D : \A f, g \in [D -> V] :
        (\A p \in D : p < q => f[p] = g[p]) => step[<<q, f>>] = step[<<q, g>>]

Recursive(D, V, step) == \E f \in [D -> V] : \A q \in D : f[q] = step[<<q, f>>]

LEMMA RecursionOverPlaces ==
    ASSUME NEW N \in Nat, NEW D, Within(D, N), NEW V, NEW v \in V,
           NEW step \in [D \X [D -> V] -> V], LooksDown(D, V, step)
    PROVE  Recursive(D, V, step)
<1> DEFINE M == 2 * N + 1
           F == [D -> V]
           base == [q \in D |-> v]
           next == [x \in (1 .. M) \X F |-> [q \in D |-> step[<<q, x[2]>>]]]
<1> USE DEF Within
<1>1. base \in F /\ next \in [(1 .. M) \X F -> F] /\ M \in Nat
  OBVIOUS
<1>2. \A n \in 1 .. M : \A f \in F : next[<<n, f>>] = [q \in D |-> step[<<q, f>>]]
  OBVIOUS
<1> HIDE DEF next, base, M
<1>3. PICK g \in [0 .. M -> F] : RecursBy(g, M, base, next)
  <2> HIDE DEF F
  <2> QED
    BY <1>1, Recursion
<1>4. \A n \in 1 .. M : \A q \in D : g[n][q] = step[<<q, g[n - 1]>>]
  <2> SUFFICES ASSUME NEW n \in 1 .. M, NEW q \in D PROVE g[n][q] = step[<<q, g[n - 1]>>]
    OBVIOUS
  <2>1. n - 1 \in 0 .. M /\ g[n - 1] \in F
    BY <1>1, <1>3
  <2>2. g[n] = next[<<n, g[n - 1]>>]
    BY <1>3 DEF RecursBy
  <2>3. next[<<n, g[n - 1]>>] = [p \in D |-> step[<<p, g[n - 1]>>]]
    <3> HIDE DEF F
    <3> QED
      BY <1>2, <2>1
  <2> QED
    BY <2>2, <2>3
<1> DEFINE T == {n \in Nat : \A q \in D : q + N < n => g[n][q] = step[<<q, g[n]>>]}
<1>5. 0 \in T
  OBVIOUS
<1>6. ASSUME NEW n \in 1 .. M, n - 1 \in T PROVE n \in T
  <2>1. n \in Nat /\ n \in 0 .. M /\ n - 1 \in 0 .. M
    BY <1>1
  <2>2. g[n] \in F /\ g[n - 1] \in F
    BY <1>3, <2>1
  <2>3. SUFFICES ASSUME NEW q \in D, q + N < n PROVE g[n][q] = step[<<q, g[n]>>]
    BY <2>1
  <2>4. ASSUME NEW p \in D, p < q PROVE g[n - 1][p] = g[n][p]
    <3>1. p + N < n - 1
      BY <2>1, <2>3, <2>4
    <3>2. g[n - 1][p] = step[<<p, g[n - 1]>>]
      BY <1>6, <3>1
    <3> QED
      BY <1>4, <3>2
  <2>5. step[<<q, g[n - 1]>>] = step[<<q, g[n]>>]
    BY <2>2, <2>4 DEF F, LooksDown
  <2> QED
    BY <1>4, <2>5
<1>7. M \in T
  <2> HIDE DEF T
  <2>1. 0 .. M \subseteq T
    BY <1>1, <1>5, <1>6, UpTo
  <2> QED
    BY <1>1, <2>1
<1>8. \A q \in D : q + N < M
  BY DEF M
<1>9. g[M] \in F
  BY <1>1, <1>3
<1> QED
  BY <1>7, <1>8, <1>9 DEF F, Recursive

(* Filtering one more entry. *)
LEMMA OneMorePicked ==
    ASSUME NEW s, IsSequence(s), NEW n \in DOMAIN s, NEW K \in SUBSET (1 .. (n - 1))
    PROVE  Picked(s, K \cup {n}) = Append(Picked(s, K), s[n])
<1> DEFINE L == K \cup {n}
           A == Sorted(K, Less(K))
           B == Sorted(L, Less(L))
<1>1. n \in Nat /\ K \in SUBSET Nat /\ L \in SUBSET Nat /\ K \in SUBSET (DOMAIN s) /\ n \notin K
  <2>1. DOMAIN s = 1 .. Len(s) /\ Len(s) \in Nat
    BY DEF IsSequence
  <2> HIDE DEF A, B
  <2>2. n \in Nat /\ n <= Len(s)
    BY <2>1
  <2>3. \A k \in K : k \in Nat /\ k >= 1 /\ k < n
    BY <2>2
  <2>4. K \in SUBSET Nat /\ L \in SUBSET Nat /\ n \notin K
    <3>1. K \in SUBSET Nat
      BY <2>3
    <3>2. L \in SUBSET Nat
      BY <2>2, <3>1 DEF L
    <3>3. ~(n < n)
      BY <2>2
    <3>4. n \notin K
      BY <2>3, <3>3
    <3> QED
      BY <3>1, <3>2, <3>4
  <2>5. K \in SUBSET (DOMAIN s)
    BY <2>1, <2>2, <2>3
  <2> QED
    BY <2>2, <2>4, <2>5
<1>2. IsFiniteSet(K) /\ IsFiniteSet(L) /\ Cardinality(K) \in Nat /\ Cardinality(L) = Cardinality(K) + 1
  <2>1. IsFiniteSet(1 .. (n - 1))
    BY <1>1, CountTo
  <2>2. IsFiniteSet(K)
    BY <2>1, FS_Subset
  <2> QED
    BY <1>1, <2>2, FS_AddElement, FS_CardinalityType
<1> HIDE DEF L
<1>3. StrictOrder(K, Less(K)) /\ StrictOrder(L, Less(L))
  BY <1>1, NumbersInOrder
<1>4. A \in Seq(K) /\ Len(A) = Cardinality(K) /\ DOMAIN A = 1 .. Cardinality(K)
  <2>1. A \in Seq(K) /\ Len(A) = Cardinality(K)
    BY <1>2, <1>3, SortedInOrder
  <2> HIDE DEF A
  <2> QED
    BY <2>1
<1>5. B \in Seq(L) /\ Len(B) = Cardinality(L) /\ DOMAIN B = 1 .. Cardinality(L)
  <2>1. B \in Seq(L) /\ Len(B) = Cardinality(L)
    BY <1>2, <1>3, SortedInOrder
  <2> HIDE DEF B
  <2> QED
    BY <2>1
<1>6. ASSUME NEW x \in K PROVE Place(L, Less(L), x) = Place(K, Less(K), x)
  <2>1. {y \in L : <<y, x>> \in Less(L)} = {y \in K : <<y, x>> \in Less(K)}
    BY <1>1 DEF L, Less
  <2> QED
    BY <2>1 DEF Place
<1>7. Place(L, Less(L), n) = Cardinality(K)
  <2>1. {y \in L : <<y, n>> \in Less(L)} = K
    BY <1>1 DEF L, Less
  <2> QED
    BY <2>1 DEF Place
<1>8. \A x, y \in L : Place(L, Less(L), x) = Place(L, Less(L), y) => x = y
  <2> SUFFICES ASSUME NEW x \in L, NEW y \in L, Place(L, Less(L), x) = Place(L, Less(L), y), x # y
               PROVE  FALSE
    OBVIOUS
  <2>1. <<x, y>> \in Less(L) \/ <<y, x>> \in Less(L)
    BY <1>3 DEF StrictOrder
  <2>2. /\ Place(L, Less(L), x) \in Int
        /\ <<x, y>> \in Less(L) => Place(L, Less(L), x) < Place(L, Less(L), y)
        /\ <<y, x>> \in Less(L) => Place(L, Less(L), y) < Place(L, Less(L), x)
    BY <1>2, <1>3, PlacesAreTaken
  <2> QED
    BY <2>1, <2>2
<1>9. ASSUME NEW m \in 1 .. Cardinality(L) PROVE B[m] \in L /\ Place(L, Less(L), B[m]) = m - 1
  <2>1. m - 1 \in 0 .. (Cardinality(L) - 1)
    BY <1>2
  <2>2. \E x \in L : Place(L, Less(L), x) = m - 1
    BY <1>2, <1>3, <2>1, PlacesAreTaken
  <2>3. B[m] = CHOOSE x \in L : Place(L, Less(L), x) = m - 1
    BY <1>9 DEF Sorted
  <2> QED
    BY <2>2, <2>3
<1>10. ASSUME NEW m \in 1 .. Cardinality(K) PROVE A[m] \in K /\ Place(K, Less(K), A[m]) = m - 1
  <2>1. m - 1 \in 0 .. (Cardinality(K) - 1)
    BY <1>2
  <2>2. \E x \in K : Place(K, Less(K), x) = m - 1
    BY <1>2, <1>3, <2>1, PlacesAreTaken
  <2>3. A[m] = CHOOSE x \in K : Place(K, Less(K), x) = m - 1
    BY <1>10 DEF Sorted
  <2> QED
    BY <2>2, <2>3
<1>11. Picked(s, K) = [m \in DOMAIN A |-> s[A[m]]] /\ Picked(s, L) = [m \in DOMAIN B |-> s[B[m]]]
  BY DEF Picked
<1> HIDE DEF A, B
<1>12. ASSUME NEW m \in 1 .. Cardinality(K) PROVE B[m] = A[m]
  <2>1. m \in 1 .. Cardinality(L) /\ A[m] \in L
    BY <1>2, <1>10 DEF L
  <2>2. Place(L, Less(L), A[m]) = m - 1
    BY <1>6, <1>10
  <2> QED
    BY <1>8, <1>9, <2>1, <2>2
<1>13. B[Cardinality(L)] = n
  <2>1. Cardinality(L) \in 1 .. Cardinality(L) /\ n \in L
    BY <1>2 DEF L
  <2>2. Place(L, Less(L), B[Cardinality(L)]) = Cardinality(K)
    BY <1>2, <1>9, <2>1
  <2> QED
    BY <1>7, <1>8, <1>9, <2>1, <2>2
<1> DEFINE P == Picked(s, K)
<1>14. IsSequence(P)
  BY <1>1, PickedInOrder
<1>15. DOMAIN P = 1 .. Cardinality(K) /\ Len(P) = Cardinality(K)
  <2>1. DOMAIN P = 1 .. Cardinality(K)
    BY <1>4, <1>11
  <2>2. DOMAIN P = 1 .. Len(P) /\ Len(P) \in Nat
    BY <1>14 DEF IsSequence
  <2> QED
    BY <1>2, <2>1, <2>2
<1> DEFINE Q == Append(P, s[n])
<1>16. DOMAIN Q = 1 .. Cardinality(L) /\ \A m \in DOMAIN Q : Q[m] = IF m = Cardinality(L) THEN s[n] ELSE P[m]
  <2> HIDE DEF P
  <2> QED
    BY <1>2, <1>14, <1>15 DEF IsSequence
<1>17. \A m \in 1 .. Cardinality(K) : P[m] = s[A[m]]
  BY <1>4, <1>11
<1>18. Q = [m \in 1 .. Cardinality(L) |-> s[B[m]]]
  <2>1. Q = [m \in 1 .. Cardinality(L) |-> Q[m]]
    <3>1. Q \in Seq(Range(Q))
      <4> HIDE DEF P
      <4> QED
        BY <1>14, Appended DEF IsSequence
    <3> HIDE DEF Q
    <3>2. Q = [m \in DOMAIN Q |-> Q[m]]
      BY <3>1
    <3> QED
      BY <1>16, <3>2
  <2>2. \A m \in 1 .. Cardinality(L) : Q[m] = s[B[m]]
    <3> SUFFICES ASSUME NEW m \in 1 .. Cardinality(L) PROVE Q[m] = s[B[m]]
      OBVIOUS
    <3> HIDE DEF P, Q
    <3>1. CASE m = Cardinality(L)
      BY <1>13, <1>16, <3>1
    <3>2. CASE m # Cardinality(L)
      <4>1. m \in 1 .. Cardinality(K)
        BY <1>2, <3>2
      <4> QED
        BY <1>12, <1>16, <1>17, <3>2, <4>1
    <3> QED
      BY <3>1, <3>2
  <2> HIDE DEF Q
  <2> QED
    BY <2>1, <2>2
<1> QED
  BY <1>5, <1>11, <1>18 DEF L
=============================================================================
