--------------------------- MODULE StartupProofs ---------------------------
(***************************************************************************)
(* Proofs about Startup, for every configuration, every template of any    *)
(* size and every profile: a tracker that runs has exactly what its        *)
(* configuration says; a fingerprint that was extracted before the         *)
(* arguments of an invocation were known asks for no more than the one     *)
(* extracted with them, for the addresses of parties, and for no policy    *)
(* that is not bytes; and an expression is classified by its worst leaf.   *)
(***************************************************************************)
EXTENDS Startup, Foundations

-----------------------------------------------------------------------------
(* The recursions over a table *)

Bounded(t) == IsTable(t) /\ \E N \in Nat : Within(DOMAIN t, N)

LEMMA PartsAreSmaller ==
    ASSUME NEW t, IsTable(t), NEW q \in DOMAIN t
    PROVE  /\ \A n \in DOMAIN t[q].parts : t[q].parts[n] \in DOMAIN t /\ t[q].parts[n] < q
           /\ t[q].form = "set" =>
                /\ DOMAIN t[q].parts = {1}
                /\ t[q].parts[1] \in DOMAIN t /\ t[q].parts[1] < q
           /\ t[q].form = "input" => {t[q].parts[1], t[q].parts[2]} \subseteq DOMAIN t
<1>1. IsSequence(t[q].parts) /\ \A p \in Range(t[q].parts) : p \in DOMAIN t /\ p < q
  BY DEF IsTable
<1>2. DOMAIN t[q].parts = 1 .. Len(t[q].parts) /\ Len(t[q].parts) \in Nat
  BY <1>1 DEF IsSequence
<1>3. \A n \in DOMAIN t[q].parts : t[q].parts[n] \in DOMAIN t /\ t[q].parts[n] < q
  BY <1>1 DEF Range
<1>4. t[q].form = "set" => Len(t[q].parts) = 1
  BY DEF IsTable
<1>5. t[q].form = "input" => Len(t[q].parts) = 2
  BY DEF IsTable
<1> DEFINE d == DOMAIN t[q].parts
           l == Len(t[q].parts)
<1>6. d = 1 .. l /\ (l = 1 => d = {1}) /\ (l = 2 => 1 \in d /\ 2 \in d)
  <2>1. d = 1 .. l
    BY <1>2
  <2> HIDE DEF d, l
  <2> QED
    BY <2>1
<1>7. t[q].form = "set" => d = {1}
  BY <1>4, <1>6
<1>8. t[q].form = "input" => 1 \in d /\ 2 \in d
  BY <1>5, <1>6
<1> QED
  BY <1>3, <1>7, <1>8

(* What the definitions of the recursions say of each place. *)
ConstUnfolds(t, form) ==
    \A q \in DOMAIN t :
        ConstOf(t, form)[q] = IF t[q].form = form THEN t[q].value
                              ELSE IF t[q].form = "set" THEN ConstOf(t, form)[t[q].parts[1]]
                              ELSE None

LEMMA ConstRecursion ==
    ASSUME NEW t, Bounded(t), NEW form
    PROVE  ConstUnfolds(t, form)
<1> DEFINE D == DOMAIN t
           V == {t[q].value : q \in D} \cup {None}
           step == [x \in D \X [D -> V] |->
                       IF t[x[1]].form = form THEN t[x[1]].value
                       ELSE IF t[x[1]].form = "set" THEN x[2][t[x[1]].parts[1]]
                       ELSE None]
           Unfolds(f) == f = [q \in DOMAIN t |->
                       IF t[q].form = form THEN t[q].value
                       ELSE IF t[q].form = "set" THEN f[t[q].parts[1]]
                       ELSE None]
<1>1. PICK N \in Nat : Within(D, N)
  BY DEF Bounded
<1>2. \A q \in D : t[q].form = "set" => t[q].parts[1] \in D /\ t[q].parts[1] < q
  BY PartsAreSmaller DEF Bounded
<1>3. step \in [D \X [D -> V] -> V]
  BY <1>2
<1>4. ASSUME NEW q \in D, NEW f \in [D -> V]
      PROVE  step[<<q, f>>] = IF t[q].form = form THEN t[q].value
                              ELSE IF t[q].form = "set" THEN f[t[q].parts[1]]
                              ELSE None
  OBVIOUS
<1>5. LooksDown(D, V, step)
  <2> HIDE DEF step, V
  <2> QED
    BY <1>2, <1>4 DEF LooksDown
<1>6. PICK f \in [D -> V] : \A q \in D : f[q] = step[<<q, f>>]
  <2>1. None \in V
    OBVIOUS
  <2> HIDE DEF step, V, D
  <2>2. Recursive(D, V, step)
    BY <1>1, <1>3, <1>5, <2>1, RecursionOverPlaces
  <2> QED
    BY <2>2 DEF Recursive
<1>7. Unfolds(f)
  <2>1. f = [q \in DOMAIN t |-> f[q]]
    OBVIOUS
  <2> HIDE DEF step, V
  <2> QED
    BY <1>4, <1>6, <2>1
<1>8. ConstOf(t, form) = CHOOSE g : Unfolds(g)
  BY DEF ConstOf
<1>9. Unfolds(ConstOf(t, form))
  <2> HIDE DEF Unfolds
  <2> QED
    BY <1>7, <1>8
<1> QED
  BY <1>9 DEF ConstUnfolds

-----------------------------------------------------------------------------
(* combine *)

ExprKinds == {"Const", "ParamDriven", "Computed"}

Worst(K) == IF "Computed" \in K THEN "Computed"
            ELSE IF "ParamDriven" \in K THEN "ParamDriven" ELSE "Const"

Worse(acc, k) == IF acc = "Const" /\ k = "Const" THEN "Const"
                 ELSE IF "Computed" \in {acc, k} THEN "Computed" ELSE "ParamDriven"

LEMMA WorseIsWorst ==
    ASSUME NEW K \in SUBSET ExprKinds, NEW k \in ExprKinds
    PROVE  Worse(Worst(K), k) = Worst(K \cup {k})
<1>1. k = "Const" \/ k = "ParamDriven" \/ k = "Computed"
  BY DEF ExprKinds
<1> QED
  BY <1>1 DEF Worst, Worse

LEMMA CombineIsWorst ==
    ASSUME NEW N \in Nat, NEW kinds \in [1 .. N -> ExprKinds]
    PROVE  Combine(kinds) = Worst(Range(kinds))
<1> DEFINE of(s) == {kinds[k] : k \in s}
           w == [s \in SUBSET (1 .. N) |-> Worst(of(s))]
           Unfolds(f) ==
               f = [s \in SUBSET (DOMAIN kinds) |->
                       IF s = {} THEN "Const" ELSE Worse(f[s \ {Max(s)}], kinds[Max(s)])]
           iter == CHOOSE f : Unfolds(f)
<1>1. Unfolds(w)
  <2>1. ASSUME NEW s \in SUBSET (1 .. N), s # {}
        PROVE  w[s] = Worse(w[s \ {Max(s)}], kinds[Max(s)])
    <3>1. Max(s) \in s
      BY <2>1, MaxInInterval
    <3>2. of(s) = of(s \ {Max(s)}) \cup {kinds[Max(s)]}
      BY <3>1
    <3>3. of(s \ {Max(s)}) \in SUBSET ExprKinds /\ kinds[Max(s)] \in ExprKinds
      BY <3>1
    <3>4. s \ {Max(s)} \in SUBSET (1 .. N)
      OBVIOUS
    <3> HIDE DEF of
    <3>5. Worse(Worst(of(s \ {Max(s)})), kinds[Max(s)]) = Worst(of(s \ {Max(s)}) \cup {kinds[Max(s)]})
      BY <3>3, WorseIsWorst
    <3> QED
      BY <3>2, <3>4, <3>5
  <2>2. w[{}] = "Const"
    BY DEF Worst
  <2>3. w = [s \in SUBSET (1 .. N) |-> w[s]] /\ DOMAIN kinds = 1 .. N
    OBVIOUS
  <2> HIDE DEF w
  <2> QED
    BY <2>1, <2>2, <2>3
<1>2. Combine(kinds) = iter[DOMAIN kinds]
  BY DEF Combine, FoldLeft, MapThenFoldSet, Worse
<1>3. Unfolds(iter)
  BY <1>1
<1> HIDE DEF iter
<1> DEFINE T == {n \in Nat : n <= N => iter[1 .. n] = Worst(of(1 .. n))}
<1>4. 0 \in T
  <2>1. 1 .. 0 = {}
    OBVIOUS
  <2>2. iter[{}] = "Const" /\ Worst(of({})) = "Const"
    BY <1>3 DEF Worst
  <2> QED
    BY <2>1, <2>2
<1>5. ASSUME NEW n \in 1 .. N, n - 1 \in T PROVE n \in T
  <2>1. /\ 1 .. n \in SUBSET (1 .. N) /\ 1 .. n # {}
        /\ Max(1 .. n) = n /\ (1 .. n) \ {n} = 1 .. (n - 1)
    BY LastOfPrefix
  <2>2. iter[1 .. n] = Worse(iter[1 .. (n - 1)], kinds[n])
    BY <1>3, <2>1
  <2>3. iter[1 .. (n - 1)] = Worst(of(1 .. (n - 1)))
    BY <1>5
  <2>4. of(1 .. n) = of(1 .. (n - 1)) \cup {kinds[n]}
    BY <2>1
  <2>5. of(1 .. (n - 1)) \in SUBSET ExprKinds /\ kinds[n] \in ExprKinds
    BY <2>1
  <2> HIDE DEF of
  <2>6. Worse(Worst(of(1 .. (n - 1))), kinds[n]) = Worst(of(1 .. (n - 1)) \cup {kinds[n]})
    BY <2>5, WorseIsWorst
  <2>7. iter[1 .. n] = Worst(of(1 .. n))
    BY <2>2, <2>3, <2>4, <2>6
  <2> QED
    BY <2>7
<1>6. N \in T
  <2> HIDE DEF T
  <2>1. 0 .. N \subseteq T
    BY <1>4, <1>5, UpTo
  <2> QED
    BY <2>1
<1>7. of(1 .. N) = Range(kinds)
  BY DEF Range
<1> QED
  BY <1>2, <1>6, <1>7

LEMMA WorstIsKind == \A K : Worst(K) \in ExprKinds
  BY DEF Worst, ExprKinds

-----------------------------------------------------------------------------
(* classify, const_policies_in, expect_input_query *)

LEMMA PartsAreCounted ==
    ASSUME NEW t, IsTable(t), NEW q \in DOMAIN t
    PROVE  \E l \in Nat : DOMAIN t[q].parts = 1 .. l
  BY DEF IsTable, IsSequence

ClassifyStep(t, q, f) ==
    IF t[q].form \in Literal THEN "Const"
    ELSE IF t[q].form \in {"list", "struct", "assets"}
         THEN Combine([n \in DOMAIN t[q].parts |-> f[t[q].parts[n]]])
    ELSE IF t[q].form = "set" THEN f[t[q].parts[1]]
    ELSE IF t[q].form \in {"param", "input"} THEN "ParamDriven"
    ELSE "Computed"

LEMMA ClassifyRecursion ==
    ASSUME NEW t, Bounded(t)
    PROVE  \A q \in DOMAIN t : Classify(t)[q] = ClassifyStep(t, q, Classify(t))
                               /\ Classify(t)[q] \in ExprKinds
<1> DEFINE D == DOMAIN t
           V == ExprKinds
           step == [x \in D \X [D -> V] |-> ClassifyStep(t, x[1], x[2])]
           Unfolds(f) == f = [q \in DOMAIN t |-> ClassifyStep(t, q, f)]
<1>1. PICK N \in Nat : Within(D, N)
  BY DEF Bounded
<1>2. \A q \in D : \A n \in DOMAIN t[q].parts : t[q].parts[n] \in D /\ t[q].parts[n] < q
  BY PartsAreSmaller DEF Bounded
<1>3. \A q \in D : t[q].form = "set" => t[q].parts[1] \in D /\ t[q].parts[1] < q
  BY PartsAreSmaller DEF Bounded
<1>4. ASSUME NEW q \in D, NEW f \in [D -> V] PROVE ClassifyStep(t, q, f) \in V
  <2> DEFINE kinds == [n \in DOMAIN t[q].parts |-> f[t[q].parts[n]]]
  <2>1. PICK l \in Nat : DOMAIN t[q].parts = 1 .. l
    BY PartsAreCounted DEF Bounded
  <2>2. kinds \in [1 .. l -> ExprKinds]
    BY <1>2, <2>1
  <2> HIDE DEF kinds
  <2>3. Combine(kinds) \in V
    BY <2>2, CombineIsWorst, WorstIsKind
  <2>4. t[q].form = "set" => f[t[q].parts[1]] \in V
    BY <1>3
  <2>5. "Const" \in V /\ "ParamDriven" \in V /\ "Computed" \in V
    BY DEF ExprKinds
  <2> HIDE DEF V
  <2> QED
    BY <2>3, <2>4, <2>5 DEF ClassifyStep, kinds
<1>5. step \in [D \X [D -> V] -> V] /\ \A q \in D : \A f \in [D -> V] : step[<<q, f>>] = ClassifyStep(t, q, f)
  <2> HIDE DEF D, V
  <2> QED
    BY <1>4
<1>6. LooksDown(D, V, step)
  <2> SUFFICES ASSUME NEW q \in D, NEW f \in [D -> V], NEW g \in [D -> V],
                      \A p \in D : p < q => f[p] = g[p]
               PROVE  step[<<q, f>>] = step[<<q, g>>]
    BY DEF LooksDown
  <2>1. [n \in DOMAIN t[q].parts |-> f[t[q].parts[n]]] = [n \in DOMAIN t[q].parts |-> g[t[q].parts[n]]]
    BY <1>2
  <2>2. t[q].form = "set" => f[t[q].parts[1]] = g[t[q].parts[1]]
    BY <1>3
  <2>3. ClassifyStep(t, q, f) = ClassifyStep(t, q, g)
    BY <2>1, <2>2 DEF ClassifyStep
  <2> HIDE DEF step
  <2> QED
    BY <1>5, <2>3
<1>7. PICK f \in [D -> V] : \A q \in D : f[q] = step[<<q, f>>]
  <2>1. "Const" \in V
    BY DEF ExprKinds
  <2> HIDE DEF step, V, D
  <2>2. Recursive(D, V, step)
    BY <1>1, <1>5, <1>6, <2>1, RecursionOverPlaces
  <2> QED
    BY <2>2 DEF Recursive
<1>8. Unfolds(f)
  <2>1. f = [q \in DOMAIN t |-> f[q]]
    OBVIOUS
  <2> HIDE DEF step, V
  <2> QED
    BY <1>5, <1>7, <2>1
<1>9. Classify(t) = CHOOSE g : Unfolds(g)
  BY DEF Classify, ClassifyStep
<1>10. Unfolds(Classify(t))
  <2> HIDE DEF Unfolds
  <2> QED
    BY <1>8, <1>9
<1>11. \A q \in DOMAIN t : Classify(t)[q] = ClassifyStep(t, q, Classify(t))
  BY <1>10
<1> DEFINE P == {q \in D : Classify(t)[q] \in V}
<1>12. ASSUME NEW q \in D, \A p \in D : p < q => p \in P PROVE q \in P
  <2> DEFINE c == [p \in D |-> IF p < q THEN Classify(t)[p] ELSE "Const"]
  <2>1. c \in [D -> V]
    BY <1>12 DEF ExprKinds
  <2>2. ClassifyStep(t, q, c) \in V
    BY <1>4, <2>1
  <2>3. \A p \in D : p < q => c[p] = Classify(t)[p]
    OBVIOUS
  <2> HIDE DEF c
  <2>4. [n \in DOMAIN t[q].parts |-> c[t[q].parts[n]]] = [n \in DOMAIN t[q].parts |-> Classify(t)[t[q].parts[n]]]
    BY <1>2, <2>3
  <2>5. t[q].form = "set" => c[t[q].parts[1]] = Classify(t)[t[q].parts[1]]
    BY <1>3, <2>3
  <2>6. ClassifyStep(t, q, c) = ClassifyStep(t, q, Classify(t))
    BY <2>4, <2>5 DEF ClassifyStep
  <2> QED
    BY <1>11, <2>2, <2>6
<1>13. D \subseteq P
  <2> HIDE DEF P, D
  <2> QED
    BY <1>1, <1>12, InductionOverPlaces
<1> QED
  BY <1>11, <1>13

PoliciesStep(t, q, f) ==
    IF t[q].form = "assets"
    THEN {ConstBytes(t, e) : e \in PolicyParts(t[q])} \ {None, Empty}
    ELSE IF t[q].form \in {"list", "set"}
         THEN UNION {f[t[q].parts[n]] : n \in DOMAIN t[q].parts}
    ELSE {}

LEMMA PoliciesRecursion ==
    ASSUME NEW t, Bounded(t)
    PROVE  \A q \in DOMAIN t : ConstPolicies(t)[q] = PoliciesStep(t, q, ConstPolicies(t))
<1> DEFINE D == DOMAIN t
           B == {ConstBytes(t, e) : e \in D}
           V == SUBSET B
           step == [x \in D \X [D -> V] |-> PoliciesStep(t, x[1], x[2])]
           Unfolds(f) == f = [q \in DOMAIN t |-> PoliciesStep(t, q, f)]
<1>1. PICK N \in Nat : Within(D, N)
  BY DEF Bounded
<1>2. \A q \in D : \A n \in DOMAIN t[q].parts : t[q].parts[n] \in D /\ t[q].parts[n] < q
  BY PartsAreSmaller DEF Bounded
<1>3. \A q \in D : PolicyParts(t[q]) \subseteq D
  BY <1>2 DEF PolicyParts
<1>4. ASSUME NEW q \in D, NEW f \in [D -> V] PROVE PoliciesStep(t, q, f) \in V
  <2>1. {ConstBytes(t, e) : e \in PolicyParts(t[q])} \ {None, Empty} \in V
    BY <1>3
  <2>2. \A n \in DOMAIN t[q].parts : f[t[q].parts[n]] \in SUBSET B
    BY <1>2
  <2> HIDE DEF B
  <2>3. UNION {f[t[q].parts[n]] : n \in DOMAIN t[q].parts} \in V
    BY <2>2
  <2>4. {} \in V
    OBVIOUS
  <2> HIDE DEF V
  <2> QED
    BY <2>1, <2>3, <2>4 DEF PoliciesStep
<1>5. step \in [D \X [D -> V] -> V] /\ \A q \in D : \A f \in [D -> V] : step[<<q, f>>] = PoliciesStep(t, q, f)
  <2> HIDE DEF D, V
  <2> QED
    BY <1>4
<1>6. LooksDown(D, V, step)
  <2> SUFFICES ASSUME NEW q \in D, NEW f \in [D -> V], NEW g \in [D -> V],
                      \A p \in D : p < q => f[p] = g[p]
               PROVE  step[<<q, f>>] = step[<<q, g>>]
    BY DEF LooksDown
  <2>1. {f[t[q].parts[n]] : n \in DOMAIN t[q].parts} = {g[t[q].parts[n]] : n \in DOMAIN t[q].parts}
    BY <1>2
  <2>2. PoliciesStep(t, q, f) = PoliciesStep(t, q, g)
    BY <2>1 DEF PoliciesStep
  <2> HIDE DEF step, V
  <2> QED
    BY <1>5, <2>2
<1>7. PICK f \in [D -> V] : \A q \in D : f[q] = step[<<q, f>>]
  <2>1. {} \in V
    OBVIOUS
  <2> HIDE DEF step, V, D
  <2>2. Recursive(D, V, step)
    BY <1>1, <1>5, <1>6, <2>1, RecursionOverPlaces
  <2> QED
    BY <2>2 DEF Recursive
<1>8. Unfolds(f)
  <2>1. f = [q \in DOMAIN t |-> f[q]]
    OBVIOUS
  <2> HIDE DEF step, V
  <2> QED
    BY <1>5, <1>7, <2>1
<1>9. ConstPolicies(t) = CHOOSE g : Unfolds(g)
  BY DEF ConstPolicies, PoliciesStep
<1>10. Unfolds(ConstPolicies(t))
  <2> HIDE DEF Unfolds
  <2> QED
    BY <1>8, <1>9
<1> QED
  BY <1>10

QueryStep(t, q, f) ==
    IF t[q].form = "input" THEN q
    ELSE IF t[q].form = "set" THEN f[t[q].parts[1]]
    ELSE None

LEMMA QueryRecursion ==
    ASSUME NEW t, Bounded(t)
    PROVE  \A q \in DOMAIN t : InputQuery(t)[q] = QueryStep(t, q, InputQuery(t))
<1> DEFINE D == DOMAIN t
           V == D \cup {None}
           step == [x \in D \X [D -> V] |-> QueryStep(t, x[1], x[2])]
           Unfolds(f) == f = [q \in DOMAIN t |-> QueryStep(t, q, f)]
<1>1. PICK N \in Nat : Within(D, N)
  BY DEF Bounded
<1>2. \A q \in D : t[q].form = "set" => t[q].parts[1] \in D /\ t[q].parts[1] < q
  BY PartsAreSmaller DEF Bounded
<1>3. \A q \in D : \A f \in [D -> V] : QueryStep(t, q, f) \in V
  BY <1>2 DEF QueryStep
<1>4. step \in [D \X [D -> V] -> V] /\ \A q \in D : \A f \in [D -> V] : step[<<q, f>>] = QueryStep(t, q, f)
  <2> HIDE DEF D, V
  <2> QED
    BY <1>3
<1>5. LooksDown(D, V, step)
  <2> SUFFICES ASSUME NEW q \in D, NEW f \in [D -> V], NEW g \in [D -> V],
                      \A p \in D : p < q => f[p] = g[p]
               PROVE  step[<<q, f>>] = step[<<q, g>>]
    BY DEF LooksDown
  <2>1. t[q].form = "set" => f[t[q].parts[1]] = g[t[q].parts[1]]
    BY <1>2
  <2>2. QueryStep(t, q, f) = QueryStep(t, q, g)
    BY <2>1 DEF QueryStep
  <2> HIDE DEF step, V
  <2> QED
    BY <1>4, <2>2
<1>6. PICK f \in [D -> V] : \A q \in D : f[q] = step[<<q, f>>]
  <2>1. None \in V
    OBVIOUS
  <2> HIDE DEF step, V, D
  <2>2. Recursive(D, V, step)
    BY <1>1, <1>4, <1>5, <2>1, RecursionOverPlaces
  <2> QED
    BY <2>2 DEF Recursive
<1>7. Unfolds(f)
  <2>1. f = [q \in DOMAIN t |-> f[q]]
    OBVIOUS
  <2> HIDE DEF step, V
  <2> QED
    BY <1>4, <1>6, <2>1
<1>8. InputQuery(t) = CHOOSE g : Unfolds(g)
  BY DEF InputQuery, QueryStep
<1>9. Unfolds(InputQuery(t))
  <2> HIDE DEF Unfolds
  <2> QED
    BY <1>7, <1>8
<1> QED
  BY <1>9

LeavesStep(t, q, f) ==
    IF t[q].form \in Literal THEN {"Const"}
    ELSE IF t[q].form \in {"param", "input"} THEN {"ParamDriven"}
    ELSE IF t[q].form \in {"list", "struct", "assets", "set"}
         THEN UNION {f[t[q].parts[n]] : n \in DOMAIN t[q].parts}
    ELSE {"Computed"}

LEMMA LeavesRecursion ==
    ASSUME NEW t, Bounded(t)
    PROVE  \A q \in DOMAIN t : Leaves(t)[q] = LeavesStep(t, q, Leaves(t))
<1> DEFINE D == DOMAIN t
           V == SUBSET ExprKinds
           step == [x \in D \X [D -> V] |-> LeavesStep(t, x[1], x[2])]
           Unfolds(f) == f = [q \in DOMAIN t |-> LeavesStep(t, q, f)]
<1>1. PICK N \in Nat : Within(D, N)
  BY DEF Bounded
<1>2. \A q \in D : \A n \in DOMAIN t[q].parts : t[q].parts[n] \in D /\ t[q].parts[n] < q
  BY PartsAreSmaller DEF Bounded
<1>3. ASSUME NEW q \in D, NEW f \in [D -> V] PROVE LeavesStep(t, q, f) \in V
  <2>1. \A n \in DOMAIN t[q].parts : f[t[q].parts[n]] \in SUBSET ExprKinds
    BY <1>2
  <2>2. UNION {f[t[q].parts[n]] : n \in DOMAIN t[q].parts} \in V
    BY <2>1
  <2>3. {"Const"} \in V /\ {"ParamDriven"} \in V /\ {"Computed"} \in V
    BY DEF ExprKinds
  <2> HIDE DEF V
  <2> QED
    BY <2>2, <2>3 DEF LeavesStep
<1>4. step \in [D \X [D -> V] -> V] /\ \A q \in D : \A f \in [D -> V] : step[<<q, f>>] = LeavesStep(t, q, f)
  <2> HIDE DEF D, V
  <2> QED
    BY <1>3
<1>5. LooksDown(D, V, step)
  <2> SUFFICES ASSUME NEW q \in D, NEW f \in [D -> V], NEW g \in [D -> V],
                      \A p \in D : p < q => f[p] = g[p]
               PROVE  step[<<q, f>>] = step[<<q, g>>]
    BY DEF LooksDown
  <2>1. {f[t[q].parts[n]] : n \in DOMAIN t[q].parts} = {g[t[q].parts[n]] : n \in DOMAIN t[q].parts}
    BY <1>2
  <2>2. LeavesStep(t, q, f) = LeavesStep(t, q, g)
    BY <2>1 DEF LeavesStep
  <2> HIDE DEF step, V
  <2> QED
    BY <1>4, <2>2
<1>6. PICK f \in [D -> V] : \A q \in D : f[q] = step[<<q, f>>]
  <2>1. {} \in V
    OBVIOUS
  <2> HIDE DEF step, V, D
  <2>2. Recursive(D, V, step)
    BY <1>1, <1>4, <1>5, <2>1, RecursionOverPlaces
  <2> QED
    BY <2>2 DEF Recursive
<1>7. Unfolds(f)
  <2>1. f = [q \in DOMAIN t |-> f[q]]
    OBVIOUS
  <2> HIDE DEF step, V
  <2> QED
    BY <1>4, <1>6, <2>1
<1>8. Leaves(t) = CHOOSE g : Unfolds(g)
  BY DEF Leaves, LeavesStep
<1>9. Unfolds(Leaves(t))
  <2> HIDE DEF Unfolds
  <2> QED
    BY <1>7, <1>8
<1> QED
  BY <1>9

-----------------------------------------------------------------------------
(* What the recursions return *)

WorstsOf(I, leaves) == {Worst(leaves[i]) : i \in I}
AllOf(I, leaves) == UNION {leaves[i] : i \in I}

LEMMA WorstOfAll ==
    ASSUME NEW I, NEW leaves
    PROVE  Worst(WorstsOf(I, leaves)) = Worst(AllOf(I, leaves))
<1> DEFINE W == {Worst(leaves[i]) : i \in I}
           U == UNION {leaves[i] : i \in I}
<1>1. "Computed" \in W <=> "Computed" \in U
  BY DEF Worst
<1>2. "Computed" \notin U => ("ParamDriven" \in W <=> "ParamDriven" \in U)
  BY DEF Worst
<1> HIDE DEF W, U
<1>3. Worst(W) = Worst(U)
  BY <1>1, <1>2 DEF Worst
<1> QED
  BY <1>3 DEF W, U, WorstsOf, AllOf

LEMMA ClassifiedByLeaves ==
    ASSUME NEW t, Bounded(t)
    PROVE  \A q \in DOMAIN t : Classify(t)[q] = Worst(Leaves(t)[q])
<1> DEFINE D == DOMAIN t
           P == {q \in D : Classify(t)[q] = Worst(Leaves(t)[q])}
<1>1. PICK N \in Nat : Within(D, N)
  BY DEF Bounded
<1>2. ASSUME NEW q \in D, \A p \in D : p < q => p \in P
      PROVE  Classify(t)[q] = Worst(Leaves(t)[q])
  <2> DEFINE parts == t[q].parts
             leaves == [n \in DOMAIN parts |-> Leaves(t)[parts[n]]]
             kinds == [n \in DOMAIN parts |-> Classify(t)[parts[n]]]
  <2>1. \A n \in DOMAIN parts : kinds[n] = Worst(leaves[n]) /\ kinds[n] \in ExprKinds
    <3>1. \A n \in DOMAIN parts : parts[n] \in D /\ parts[n] < q
      BY PartsAreSmaller DEF Bounded
    <3> QED
      BY <1>2, <3>1, ClassifyRecursion
  <2>2. Classify(t)[q] = ClassifyStep(t, q, Classify(t)) /\ Leaves(t)[q] = LeavesStep(t, q, Leaves(t))
    BY ClassifyRecursion, LeavesRecursion
  <2>3. CASE t[q].form \in {"list", "struct", "assets"}
    <3>1. PICK l \in Nat : DOMAIN parts = 1 .. l
      BY PartsAreCounted DEF Bounded
    <3>2. Classify(t)[q] = Combine(kinds)
      BY <2>2, <2>3 DEF ClassifyStep, Literal
    <3>3. Leaves(t)[q] = UNION {leaves[n] : n \in DOMAIN parts}
      BY <2>2, <2>3 DEF LeavesStep, Literal
    <3>4. kinds \in [1 .. l -> ExprKinds] /\ DOMAIN kinds = DOMAIN parts
      BY <2>1, <3>1
    <3> HIDE DEF kinds, leaves
    <3>5. Combine(kinds) = Worst(Range(kinds))
      BY <3>4, CombineIsWorst
    <3>6. Range(kinds) = WorstsOf(DOMAIN parts, leaves)
      BY <2>1, <3>4 DEF Range, WorstsOf
    <3>7. Leaves(t)[q] = AllOf(DOMAIN parts, leaves)
      BY <3>3 DEF AllOf
    <3> QED
      BY <3>2, <3>5, <3>6, <3>7, WorstOfAll
  <2>4. CASE t[q].form = "set"
    <3>1. DOMAIN parts = {1}
      BY <2>4, PartsAreSmaller DEF Bounded
    <3>2. Classify(t)[q] = kinds[1]
      BY <2>2, <2>4, <3>1 DEF ClassifyStep, Literal
    <3>3. Leaves(t)[q] = UNION {leaves[n] : n \in {1}}
      BY <2>2, <2>4, <3>1 DEF LeavesStep, Literal
    <3> HIDE DEF kinds, leaves
    <3>4. Leaves(t)[q] = leaves[1]
      BY <3>3
    <3> QED
      BY <2>1, <3>1, <3>2, <3>4
  <2>5. CASE t[q].form \notin {"list", "struct", "assets", "set"}
    <3>1. /\ Classify(t)[q] = IF t[q].form \in Literal THEN "Const"
                              ELSE IF t[q].form \in {"param", "input"} THEN "ParamDriven"
                              ELSE "Computed"
          /\ Leaves(t)[q] = IF t[q].form \in Literal THEN {"Const"}
                            ELSE IF t[q].form \in {"param", "input"} THEN {"ParamDriven"}
                            ELSE {"Computed"}
      BY <2>2, <2>5 DEF ClassifyStep, LeavesStep
    <3> QED
      BY <3>1 DEF Worst
  <2> QED
    BY <2>3, <2>4, <2>5
<1>3. D \subseteq P
  <2>1. ASSUME NEW q \in D, \A p \in D : p < q => p \in P PROVE q \in P
    BY <1>2, <2>1
  <2> HIDE DEF P, D
  <2> QED
    BY <1>1, <2>1, InductionOverPlaces
<1> QED
  BY <1>3

(* What is returned for an expression is a literal's value, and the         *)
(* expression is constant.                                                  *)
LEMMA ConstIsLiteral ==
    ASSUME NEW t, Bounded(t), NEW form \in Literal
    PROVE  \A q \in DOMAIN t : ConstOf(t, form)[q] # None =>
               /\ Classify(t)[q] = "Const"
               /\ InputQuery(t)[q] = None
               /\ \E p \in DOMAIN t : t[p].form = form /\ t[p].value = ConstOf(t, form)[q]
<1> DEFINE D == DOMAIN t
           Holds(q) == ConstOf(t, form)[q] # None =>
               /\ Classify(t)[q] = "Const"
               /\ InputQuery(t)[q] = None
               /\ \E p \in D : t[p].form = form /\ t[p].value = ConstOf(t, form)[q]
           P == {q \in D : Holds(q)}
<1>1. PICK N \in Nat : Within(D, N)
  BY DEF Bounded
<1>2. ASSUME NEW q \in D, \A p \in D : p < q => p \in P PROVE q \in P
  <2>1. /\ ConstOf(t, form)[q] = IF t[q].form = form THEN t[q].value
                                 ELSE IF t[q].form = "set" THEN ConstOf(t, form)[t[q].parts[1]]
                                 ELSE None
        /\ Classify(t)[q] = ClassifyStep(t, q, Classify(t))
        /\ InputQuery(t)[q] = QueryStep(t, q, InputQuery(t))
    BY ConstRecursion, ClassifyRecursion, QueryRecursion DEF ConstUnfolds
  <2>2. CASE t[q].form = form
    <3>1. Classify(t)[q] = "Const" /\ InputQuery(t)[q] = None
      BY <2>1, <2>2 DEF ClassifyStep, QueryStep, Literal
    <3>2. t[q].value = ConstOf(t, form)[q]
      BY <2>1, <2>2
    <3> QED
      BY <2>2, <3>1, <3>2
  <2>3. CASE t[q].form = "set" /\ t[q].form # form
    <3>1. t[q].parts[1] \in D /\ t[q].parts[1] < q
      BY <2>3, PartsAreSmaller DEF Bounded
    <3>2. Holds(t[q].parts[1])
      BY <1>2, <3>1
    <3>3. /\ ConstOf(t, form)[q] = ConstOf(t, form)[t[q].parts[1]]
          /\ Classify(t)[q] = Classify(t)[t[q].parts[1]]
          /\ InputQuery(t)[q] = InputQuery(t)[t[q].parts[1]]
      BY <2>1, <2>3 DEF ClassifyStep, QueryStep, Literal
    <3> QED
      BY <3>2, <3>3
  <2>4. CASE t[q].form # "set" /\ t[q].form # form
    <3>1. ConstOf(t, form)[q] = None
      BY <2>1, <2>4
    <3> QED
      BY <3>1
  <2> QED
    BY <2>2, <2>3, <2>4
<1>3. D \subseteq P
  <2> HIDE DEF P, D
  <2> QED
    BY <1>1, <1>2, InductionOverPlaces
<1> QED
  BY <1>3

(* The policies of an expression are constant bytes of its table. *)
LEMMA PoliciesAreBytes ==
    ASSUME NEW t, Bounded(t)
    PROVE  \A q \in DOMAIN t :
               ConstPolicies(t)[q] \subseteq {ConstBytes(t, e) : e \in DOMAIN t} \ {None, Empty}
<1> DEFINE D == DOMAIN t
           B == {ConstBytes(t, e) : e \in D} \ {None, Empty}
           P == {q \in D : ConstPolicies(t)[q] \subseteq B}
<1>1. PICK N \in Nat : Within(D, N)
  BY DEF Bounded
<1>2. ASSUME NEW q \in D, \A p \in D : p < q => p \in P PROVE q \in P
  <2>1. ConstPolicies(t)[q] = PoliciesStep(t, q, ConstPolicies(t))
    BY PoliciesRecursion
  <2>2. \A n \in DOMAIN t[q].parts : t[q].parts[n] \in D /\ t[q].parts[n] < q
    BY PartsAreSmaller DEF Bounded
  <2>3. {ConstBytes(t, e) : e \in PolicyParts(t[q])} \ {None, Empty} \subseteq B
    BY <2>2 DEF PolicyParts
  <2>4. \A n \in DOMAIN t[q].parts : ConstPolicies(t)[t[q].parts[n]] \subseteq B
    BY <1>2, <2>2
  <2> HIDE DEF B
  <2>5. UNION {ConstPolicies(t)[t[q].parts[n]] : n \in DOMAIN t[q].parts} \subseteq B
    BY <2>4
  <2>6. PoliciesStep(t, q, ConstPolicies(t)) \subseteq B
    BY <2>3, <2>5 DEF PoliciesStep
  <2> QED
    BY <2>1, <2>6
<1>3. D \subseteq P
  <2> HIDE DEF P, D
  <2> QED
    BY <1>1, <1>2, InductionOverPlaces
<1> QED
  BY <1>3

-----------------------------------------------------------------------------
(* apply_args *)

(* A list of references that is given names one. *)
Names(node) == node.form = "refs" => node.value # <<>>

IsArgs(args) == \A name \in DOMAIN args : IsLiteral(args[name]) /\ Names(args[name])

Given(t, args, q) == t[q].form = "param" /\ t[q].value \in DOMAIN args

SetTo(q) == [form |-> "set", value |-> None, parts |-> <<q>>, many |-> FALSE]

(* What apply_args leaves at each place. *)
Results(t, args, u) ==
    /\ DOMAIN t \subseteq DOMAIN u
    /\ \A q \in DOMAIN t : /\ Given(t, args, q) => u[q] = SetTo(-q) /\ -q \in DOMAIN u
                           /\ ~Given(t, args, q) => u[q] = t[q]
    /\ \A q \in DOMAIN u \ DOMAIN t :
         q \in Int /\ -q \in DOMAIN t /\ Given(t, args, -q) /\ u[q] = args[t[-q].value]

LEMMA ApplyResults ==
    ASSUME NEW t, IsSequence(t), NEW args
    PROVE  Results(t, args, Apply(t, args))
<1> DEFINE known == {q \in DOMAIN t : t[q].form = "param" /\ t[q].value \in DOMAIN args}
           D == DOMAIN t \cup {-k : k \in known}
           u == [q \in D |-> IF q < 0 THEN args[t[-q].value]
                             ELSE IF q \in known THEN SetTo(-q) ELSE t[q]]
<1>1. DOMAIN t \in SUBSET (Nat \ {0})
  <2>1. DOMAIN t = 1 .. Len(t) /\ Len(t) \in Nat
    BY DEF IsSequence
  <2> QED
    BY <2>1
<1>2. Apply(t, args) = u
  BY DEF Apply, SetTo
<1>3. \A q \in DOMAIN t : q \in Int /\ ~(q < 0)
  BY <1>1
<1>4. \A q \in known : -q \in D
  OBVIOUS
<1>5. \A q \in D \ DOMAIN t : q \in Int /\ q < 0 /\ -q \in known
  BY <1>1
<1>6. \A q \in DOMAIN t : u[q] = IF q \in known THEN SetTo(-q) ELSE t[q]
  BY <1>3
<1>7. \A q \in D \ DOMAIN t : u[q] = args[t[-q].value]
  BY <1>5
<1>8. DOMAIN u = D /\ DOMAIN t \subseteq D
  OBVIOUS
<1>9. \A q \in DOMAIN t : q \in known <=> Given(t, args, q)
  BY DEF Given
<1> HIDE DEF u, D
<1>10. Results(t, args, u)
  BY <1>4, <1>5, <1>6, <1>7, <1>8, <1>9 DEF Results
<1> QED
  BY <1>2, <1>10

LEMMA AppliedIsTable ==
    ASSUME NEW t, IsSequence(t), IsTable(t), NEW args, IsArgs(args)
    PROVE  Bounded(Apply(t, args))
<1> DEFINE u == Apply(t, args)
<1>1. Results(t, args, u)
  BY ApplyResults
<1> HIDE DEF u
<1>2. DOMAIN t = 1 .. Len(t) /\ Len(t) \in Nat
  BY DEF IsSequence
<1>3. Within(DOMAIN u, Len(t))
  <2> DEFINE N == Len(t)
  <2>1. \A q \in DOMAIN t : q \in (-N) .. N
    BY <1>2
  <2>2. \A q \in DOMAIN u \ DOMAIN t : q \in Int /\ -q \in 1 .. N
    BY <1>1, <1>2 DEF Results
  <2>3. \A q \in DOMAIN u \ DOMAIN t : q \in (-N) .. N
    BY <1>2, <2>2
  <2> QED
    BY <2>1, <2>3 DEF Within
<1> DEFINE IsNode(q) ==
               /\ IsSequence(u[q].parts)
               /\ \A p \in Range(u[q].parts) : p \in DOMAIN u /\ p < q
               /\ u[q].form \in Literal => IsLiteral(u[q])
               /\ u[q].form = "set" => Len(u[q].parts) = 1
               /\ u[q].form = "input" => Len(u[q].parts) = 2
<1>4. ASSUME NEW q \in DOMAIN t, ~Given(t, args, q) PROVE IsNode(q)
  <2>1. u[q] = t[q] /\ DOMAIN t \subseteq DOMAIN u
    BY <1>1, <1>4 DEF Results
  <2> QED
    BY <2>1 DEF IsTable
<1>5. ASSUME NEW q \in DOMAIN t, Given(t, args, q) PROVE IsNode(q)
  <2>1. u[q] = SetTo(-q) /\ -q \in DOMAIN u
    BY <1>1, <1>5 DEF Results
  <2>2. q \in Nat /\ -q < q
    BY <1>2
  <2>3. <<-q>> \in Seq({-q}) /\ Range(<<-q>>) = {-q} /\ Len(<<-q>>) = 1
    <3> DEFINE k == -q
    <3>1. <<k>> \in Seq({k}) /\ Range(<<k>>) = {k} /\ Len(<<k>>) = 1
      <4> HIDE DEF k
      <4> QED
        BY DEF Range
    <3> QED
      BY <3>1
  <2>4. u[q].parts = <<-q>> /\ u[q].form = "set"
    BY <2>1 DEF SetTo
  <2>5. IsSequence(u[q].parts)
    BY <2>3, <2>4 DEF IsSequence
  <2>6. u[q].form \notin Literal
    BY <2>4 DEF Literal
  <2> QED
    BY <2>1, <2>2, <2>3, <2>4, <2>5, <2>6
<1>6. ASSUME NEW q \in DOMAIN u \ DOMAIN t PROVE IsNode(q)
  <2>1. IsLiteral(u[q])
    BY <1>1 DEF Results, Given, IsArgs
  <2>2. u[q].parts = <<>> /\ u[q].form \in Literal
    BY <2>1 DEF IsLiteral
  <2>3. IsSequence(<<>>) /\ Range(<<>>) = {}
    BY DEF IsSequence, Range
  <2>4. u[q].form # "set" /\ u[q].form # "input"
    BY <2>2 DEF Literal
  <2> QED
    BY <2>1, <2>2, <2>3, <2>4
<1>7. \A q \in DOMAIN u : IsNode(q)
  BY <1>4, <1>5, <1>6
<1>8. IsTable(u)
  BY <1>7 DEF IsTable
<1> QED
  BY <1>2, <1>3, <1>8 DEF Bounded, u

(* The parameter at q has a value in u. *)
Answered(t, u, q) ==
    /\ t[q].form = "param" /\ u[q].form = "set"
    /\ u[u[q].parts[1]].form \in Literal /\ Names(u[u[q].parts[1]])

(* A table that knows more of the parameters than t. *)
Completes(t, u) ==
    DOMAIN t \subseteq DOMAIN u /\ \A q \in DOMAIN t : u[q] = t[q] \/ Answered(t, u, q)

LEMMA MoreArgsComplete ==
    ASSUME NEW t, IsSequence(t), NEW args, NEW more, IsArgs(more),
           DOMAIN args \subseteq DOMAIN more, \A name \in DOMAIN args : more[name] = args[name]
    PROVE  Completes(Apply(t, args), Apply(t, more))
<1> DEFINE u == Apply(t, args)
           w == Apply(t, more)
<1>1. Results(t, args, u) /\ Results(t, more, w)
  BY ApplyResults
<1> HIDE DEF u, w
<1>2. \A q \in DOMAIN t : Given(t, args, q) => Given(t, more, q)
  BY DEF Given
<1>3. ASSUME NEW q \in DOMAIN u \ DOMAIN t PROVE q \in DOMAIN w /\ w[q] = u[q]
  <2>1. q \in Int /\ -q \in DOMAIN t /\ Given(t, args, -q) /\ u[q] = args[t[-q].value]
    BY <1>1 DEF Results
  <2>2. -(-q) \in DOMAIN w
    BY <1>1, <1>2, <2>1 DEF Results
  <2>3. -(-q) = q
    BY <2>1
  <2>4. q \in DOMAIN w \ DOMAIN t
    BY <2>2, <2>3
  <2>5. w[q] = more[t[-q].value]
    BY <1>1, <2>4 DEF Results
  <2> QED
    BY <2>1, <2>4, <2>5 DEF Given
<1>4. ASSUME NEW q \in DOMAIN t PROVE q \in DOMAIN w /\ (w[q] = u[q] \/ Answered(u, w, q))
  <2>1. q \in DOMAIN w
    BY <1>1 DEF Results
  <2>2. CASE Given(t, args, q)
    BY <1>1, <1>2, <2>1, <2>2 DEF Results
  <2>3. CASE ~Given(t, args, q) /\ Given(t, more, q)
    <3>1. DOMAIN t = 1 .. Len(t) /\ Len(t) \in Nat
      BY DEF IsSequence
    <3>2. -q \notin DOMAIN t /\ -(-q) = q
      BY <3>1
    <3>3. w[q] = SetTo(-q) /\ -q \in DOMAIN w \ DOMAIN t
      BY <1>1, <2>3, <3>2 DEF Results
    <3>4. w[-q] = more[t[q].value] /\ t[q].value \in DOMAIN more
      BY <1>1, <2>3, <3>2, <3>3 DEF Results, Given
    <3>5. w[-q].form \in Literal /\ Names(w[-q])
      BY <3>4 DEF IsArgs, IsLiteral
    <3>6. u[q] = t[q] /\ t[q].form = "param"
      BY <1>1, <2>3 DEF Results, Given
    <3>7. w[q].form = "set" /\ w[q].parts[1] = -q
      BY <3>3 DEF SetTo
    <3> QED
      BY <2>1, <3>5, <3>6, <3>7 DEF Answered
  <2>4. CASE ~Given(t, args, q) /\ ~Given(t, more, q)
    BY <1>1, <2>1, <2>4 DEF Results
  <2> QED
    BY <2>2, <2>3, <2>4
<1>5. Completes(u, w)
  BY <1>3, <1>4 DEF Completes
<1> QED
  BY <1>5 DEF u, w

-----------------------------------------------------------------------------
(* What is known of more parameters *)

LEMMA ConstsStay ==
    ASSUME NEW t, NEW u, Bounded(t), Bounded(u), Completes(t, u), NEW form \in Literal
    PROVE  \A q \in DOMAIN t :
               ConstOf(t, form)[q] # None => ConstOf(u, form)[q] = ConstOf(t, form)[q]
<1> DEFINE D == DOMAIN t
           P == {q \in D : ConstOf(t, form)[q] # None => ConstOf(u, form)[q] = ConstOf(t, form)[q]}
<1>1. PICK N \in Nat : Within(D, N)
  BY DEF Bounded
<1>2. ASSUME NEW q \in D, \A p \in D : p < q => p \in P PROVE q \in P
  <2>1. /\ ConstOf(t, form)[q] = IF t[q].form = form THEN t[q].value
                                 ELSE IF t[q].form = "set" THEN ConstOf(t, form)[t[q].parts[1]]
                                 ELSE None
        /\ ConstOf(u, form)[q] = IF u[q].form = form THEN u[q].value
                                 ELSE IF u[q].form = "set" THEN ConstOf(u, form)[u[q].parts[1]]
                                 ELSE None
        /\ u[q] = t[q] \/ t[q].form = "param"
    BY ConstRecursion DEF ConstUnfolds, Completes, Answered
  <2>2. t[q].form = "set" => t[q].parts[1] \in P
    BY <1>2, PartsAreSmaller DEF Bounded
  <2>3. t[q].form = "param" => ConstOf(t, form)[q] = None
    BY <2>1 DEF Literal
  <2>4. CASE u[q] = t[q]
    BY <2>1, <2>2, <2>4
  <2>5. CASE t[q].form = "param"
    BY <2>3, <2>5
  <2> QED
    BY <2>1, <2>4, <2>5
<1>3. D \subseteq P
  <2> HIDE DEF P, D
  <2> QED
    BY <1>1, <1>2, InductionOverPlaces
<1> QED
  BY <1>3

LEMMA PoliciesStay ==
    ASSUME NEW t, NEW u, Bounded(t), Bounded(u), Completes(t, u)
    PROVE  \A q \in DOMAIN t : ConstPolicies(t)[q] \subseteq ConstPolicies(u)[q]
<1> DEFINE D == DOMAIN t
           P == {q \in D : ConstPolicies(t)[q] \subseteq ConstPolicies(u)[q]}
<1>1. PICK N \in Nat : Within(D, N)
  BY DEF Bounded
<1>2. ASSUME NEW q \in D, \A p \in D : p < q => p \in P PROVE q \in P
  <2>1. /\ ConstPolicies(t)[q] = PoliciesStep(t, q, ConstPolicies(t))
        /\ ConstPolicies(u)[q] = PoliciesStep(u, q, ConstPolicies(u))
        /\ u[q] = t[q] \/ t[q].form = "param"
    BY PoliciesRecursion DEF Completes, Answered
  <2>2. \A n \in DOMAIN t[q].parts : t[q].parts[n] \in D /\ t[q].parts[n] < q
    BY PartsAreSmaller DEF Bounded
  <2>3. t[q].form = "param" => ConstPolicies(t)[q] = {}
    BY <2>1 DEF PoliciesStep
  <2>4. ASSUME u[q] = t[q] PROVE q \in P
    <3> DEFINE B(x) == {ConstBytes(x, e) : e \in PolicyParts(t[q])} \ {None, Empty}
               U(x) == UNION {ConstPolicies(x)[t[q].parts[n]] : n \in DOMAIN t[q].parts}
    <3>1. PolicyParts(t[q]) \subseteq D
      BY <2>2 DEF PolicyParts
    <3>2. \A e \in D : ConstBytes(t, e) # None => ConstBytes(u, e) = ConstBytes(t, e)
      BY ConstsStay DEF ConstBytes, Literal
    <3>3. B(t) \subseteq B(u)
      BY <3>1, <3>2
    <3>4. \A n \in DOMAIN t[q].parts :
            ConstPolicies(t)[t[q].parts[n]] \subseteq ConstPolicies(u)[t[q].parts[n]]
      BY <1>2, <2>2
    <3>5. U(t) \subseteq U(u)
      BY <3>4
    <3>6. ConstPolicies(t)[q] = IF t[q].form = "assets" THEN B(t)
                                ELSE IF t[q].form \in {"list", "set"} THEN U(t) ELSE {}
      BY <2>1 DEF PoliciesStep
    <3>7. ConstPolicies(u)[q] = IF t[q].form = "assets" THEN B(u)
                                ELSE IF t[q].form \in {"list", "set"} THEN U(u) ELSE {}
      BY <2>1, <2>4 DEF PoliciesStep
    <3> HIDE DEF B, U
    <3> QED
      BY <3>3, <3>5, <3>6, <3>7
  <2> QED
    BY <2>1, <2>3, <2>4
<1>3. D \subseteq P
  <2> HIDE DEF P, D
  <2> QED
    BY <1>1, <1>2, InductionOverPlaces
<1> QED
  BY <1>3

LEMMA QueriesStay ==
    ASSUME NEW t, NEW u, Bounded(t), Bounded(u), Completes(t, u)
    PROVE  \A q \in DOMAIN t : InputQuery(t)[q] # None =>
               /\ InputQuery(u)[q] = InputQuery(t)[q]
               /\ InputQuery(t)[q] \in DOMAIN t
               /\ t[InputQuery(t)[q]].form = "input"
               /\ u[InputQuery(t)[q]] = t[InputQuery(t)[q]]
               /\ ConstUtxoRefs(u, q) = None
<1> DEFINE D == DOMAIN t
           Holds(q) == InputQuery(t)[q] # None =>
               /\ InputQuery(u)[q] = InputQuery(t)[q]
               /\ InputQuery(t)[q] \in DOMAIN t
               /\ t[InputQuery(t)[q]].form = "input"
               /\ u[InputQuery(t)[q]] = t[InputQuery(t)[q]]
           P == {q \in D : Holds(q)}
<1>1. PICK N \in Nat : Within(D, N)
  BY DEF Bounded
<1>2. ASSUME NEW q \in D, \A p \in D : p < q => p \in P PROVE q \in P
  <2>1. /\ InputQuery(t)[q] = QueryStep(t, q, InputQuery(t))
        /\ InputQuery(u)[q] = QueryStep(u, q, InputQuery(u))
        /\ u[q] = t[q] \/ t[q].form = "param"
    BY QueryRecursion DEF Completes, Answered
  <2>2. CASE t[q].form = "input"
    BY <2>1, <2>2 DEF QueryStep
  <2>3. CASE t[q].form = "set"
    <3>1. Holds(t[q].parts[1])
      BY <1>2, <2>3, PartsAreSmaller DEF Bounded
    <3>2. u[q] = t[q]
      BY <2>1, <2>3
    <3>3. InputQuery(t)[q] = InputQuery(t)[t[q].parts[1]] /\ InputQuery(u)[q] = InputQuery(u)[t[q].parts[1]]
      BY <2>1, <2>3, <3>2 DEF QueryStep
    <3> QED
      BY <3>1, <3>3
  <2>4. CASE t[q].form # "input" /\ t[q].form # "set"
    BY <2>1, <2>4 DEF QueryStep
  <2> QED
    BY <2>2, <2>3, <2>4
<1>3. D \subseteq P
  <2> HIDE DEF P, D
  <2> QED
    BY <1>1, <1>2, InductionOverPlaces
<1>4. \A q \in DOMAIN u : ConstOf(u, "refs")[q] # None => InputQuery(u)[q] = None
  <2>1. "refs" \in Literal
    BY DEF Literal
  <2> QED
    BY <2>1, ConstIsLiteral
<1> QED
  BY <1>3, <1>4 DEF Completes, ConstUtxoRefs

(* What an input template that knows more says. *)
Sharper(i, j) ==
    /\ LeastInputs(i) \in Nat /\ LeastInputs(j) \in Nat /\ LeastInputs(i) <= LeastInputs(j)
    /\ i.kind = "refs" => j = i
    /\ i.kind = "query" => /\ j.kind = "query"
                           /\ i.addr # None => j.addr = i.addr
                           /\ i.policies \subseteq j.policies

LEMMA RefsAreLists ==
    ASSUME NEW t, Bounded(t), NEW e \in DOMAIN t, ConstUtxoRefs(t, e) # None
    PROVE  IsSequence(ConstUtxoRefs(t, e)) /\ Len(ConstUtxoRefs(t, e)) \in Nat
<1>1. PICK p \in DOMAIN t : t[p].form = "refs" /\ t[p].value = ConstUtxoRefs(t, e)
  <2>1. "refs" \in Literal
    BY DEF Literal
  <2> QED
    BY <2>1, ConstIsLiteral DEF ConstUtxoRefs
<1>2. IsLiteral(t[p])
  BY <1>1 DEF Bounded, IsTable, Literal
<1>3. IsSequence(t[p].value)
  BY <1>1, <1>2 DEF IsLiteral
<1> QED
  BY <1>1, <1>3 DEF IsSequence

(* A list of references that was not known before has been given, and names *)
(* one.                                                                     *)
LEMMA RefsAreNamed ==
    ASSUME NEW t, NEW u, Bounded(t), Bounded(u), Completes(t, u)
    PROVE  \A q \in DOMAIN t :
               ConstUtxoRefs(t, q) = None /\ ConstUtxoRefs(u, q) # None => ConstUtxoRefs(u, q) # <<>>
<1> DEFINE D == DOMAIN t
           Holds(q) == ConstUtxoRefs(t, q) = None /\ ConstUtxoRefs(u, q) # None
                           => ConstUtxoRefs(u, q) # <<>>
           P == {q \in D : Holds(q)}
           Unfolds(x) == \A p \in DOMAIN x :
               ConstUtxoRefs(x, p) = IF x[p].form = "refs" THEN x[p].value
                                     ELSE IF x[p].form = "set" THEN ConstUtxoRefs(x, x[p].parts[1])
                                     ELSE None
<1>1. PICK N \in Nat : Within(D, N)
  BY DEF Bounded
<1>2. Unfolds(t) /\ Unfolds(u)
  BY ConstRecursion DEF ConstUnfolds, ConstUtxoRefs
<1>3. ASSUME NEW q \in D, \A p \in D : p < q => p \in P PROVE q \in P
  <2>1. q \in DOMAIN u /\ (u[q] = t[q] \/ Answered(t, u, q))
    BY DEF Completes
  <2>2. t[q].form = "set" => Holds(t[q].parts[1])
    BY <1>3, PartsAreSmaller DEF Bounded
  <2>3. CASE u[q] = t[q]
    <3>1. /\ t[q].form # "set" => ConstUtxoRefs(u, q) = ConstUtxoRefs(t, q)
          /\ t[q].form = "set" => /\ ConstUtxoRefs(t, q) = ConstUtxoRefs(t, t[q].parts[1])
                                  /\ ConstUtxoRefs(u, q) = ConstUtxoRefs(u, t[q].parts[1])
      BY <1>2, <2>1, <2>3
    <3> QED
      BY <2>2, <3>1
  <2>4. CASE Answered(t, u, q)
    <3> DEFINE given == u[q].parts[1]
    <3>1. u[q].form = "set" /\ u[given].form \in Literal /\ Names(u[given])
      BY <2>4 DEF Answered
    <3>2. given \in DOMAIN u
      BY <2>1, <3>1, PartsAreSmaller DEF Bounded
    <3>3. ConstUtxoRefs(u, q) = ConstUtxoRefs(u, given)
      BY <1>2, <2>1, <3>1
    <3>4. ConstUtxoRefs(u, given) = IF u[given].form = "refs" THEN u[given].value ELSE None
      BY <1>2, <3>1, <3>2 DEF Literal
    <3> QED
      BY <3>1, <3>3, <3>4 DEF Names
  <2> QED
    BY <2>1, <2>3, <2>4
<1>4. D \subseteq P
  <2> HIDE DEF P, D
  <2> QED
    BY <1>1, <1>3, InductionOverPlaces
<1> QED
  BY <1>4

(* What InputTemplate makes of an expression, case by case. *)
LEMMA InputCases ==
    ASSUME NEW t, NEW e, NEW i, i = InputTemplate(t, e)
    PROVE  /\ ConstUtxoRefs(t, e) # None =>
                /\ i = [kind |-> "refs", refs |-> ConstUtxoRefs(t, e), addr |-> None,
                        policies |-> {}, many |-> FALSE]
                /\ LeastInputs(i) = Len(ConstUtxoRefs(t, e))
           /\ ConstUtxoRefs(t, e) = None /\ InputQuery(t)[e] = None =>
                i.kind = "other" /\ LeastInputs(i) = 0
           /\ ConstUtxoRefs(t, e) = None /\ InputQuery(t)[e] # None =>
                /\ i.kind = "query"
                /\ i.addr = ConstAddress(t, t[InputQuery(t)[e]].parts[1])
                /\ i.policies = ConstPolicies(t)[t[InputQuery(t)[e]].parts[2]]
                /\ LeastInputs(i) = IF t[InputQuery(t)[e]].many THEN 0 ELSE 1
<1>1. CASE ConstUtxoRefs(t, e) # None
  <2>1. i = [kind |-> "refs", refs |-> ConstUtxoRefs(t, e), addr |-> None,
             policies |-> {}, many |-> FALSE]
    BY <1>1 DEF InputTemplate
  <2>2. LeastInputs(i) = Len(ConstUtxoRefs(t, e))
    BY <2>1 DEF LeastInputs
  <2> QED
    BY <1>1, <2>1, <2>2
<1>2. CASE ConstUtxoRefs(t, e) = None /\ InputQuery(t)[e] = None
  <2>1. i = [kind |-> "other", refs |-> <<>>, addr |-> None, policies |-> {}, many |-> FALSE]
    BY <1>2 DEF InputTemplate
  <2>2. LeastInputs(i) = 0
    BY <2>1 DEF LeastInputs
  <2> QED
    BY <1>2, <2>1, <2>2
<1>3. CASE ConstUtxoRefs(t, e) = None /\ InputQuery(t)[e] # None
  <2> DEFINE query == t[InputQuery(t)[e]]
  <2>1. i = [kind |-> "query", refs |-> <<>>, addr |-> ConstAddress(t, query.parts[1]),
             policies |-> ConstPolicies(t)[query.parts[2]], many |-> query.many]
    BY <1>3 DEF InputTemplate
  <2> HIDE DEF query
  <2>2. LeastInputs(i) = IF query.many THEN 0 ELSE 1
    <3>1. i.kind = "query" /\ i.many = query.many
      BY <2>1
    <3> QED
      BY <3>1 DEF LeastInputs
  <2>3. i.kind = "query" /\ i.addr = ConstAddress(t, query.parts[1]) /\ i.policies = ConstPolicies(t)[query.parts[2]]
    BY <2>1
  <2> QED
    BY <1>3, <2>2, <2>3 DEF query
<1> QED
  BY <1>1, <1>2, <1>3

LEMMA InputsSharpen ==
    ASSUME NEW t, NEW u, Bounded(t), Bounded(u), Completes(t, u), NEW e \in DOMAIN t
    PROVE  Sharper(InputTemplate(t, e), InputTemplate(u, e))
<1> DEFINE i == InputTemplate(t, e)
           j == InputTemplate(u, e)
<1>1. e \in DOMAIN u
  BY DEF Completes
<1>2. LeastInputs(i) \in Nat /\ LeastInputs(j) \in Nat
  <2>1. \A x \in {t, u} : LeastInputs(InputTemplate(x, e)) \in Nat
    <3> SUFFICES ASSUME NEW x \in {t, u} PROVE LeastInputs(InputTemplate(x, e)) \in Nat
      OBVIOUS
    <3>1. Bounded(x) /\ e \in DOMAIN x
      BY <1>1
    <3>2. ConstUtxoRefs(x, e) # None => Len(ConstUtxoRefs(x, e)) \in Nat
      BY <3>1, RefsAreLists
    <3> QED
      BY <3>2, InputCases
  <2> QED
    BY <2>1
<1>3. CASE ConstUtxoRefs(t, e) # None
  <2>1. ConstUtxoRefs(u, e) = ConstUtxoRefs(t, e)
    BY <1>3, ConstsStay DEF ConstUtxoRefs, Literal
  <2> DEFINE of(r) == [kind |-> "refs", refs |-> r, addr |-> None, policies |-> {}, many |-> FALSE]
  <2>2. i.kind = "refs" /\ j = i
    <3>1. i = of(ConstUtxoRefs(t, e))
      BY <1>3, InputCases
    <3>2. j = of(ConstUtxoRefs(u, e))
      BY <1>3, <2>1, InputCases
    <3> HIDE DEF i, j
    <3>3. j = i
      BY <2>1, <3>1, <3>2
    <3> QED
      BY <3>1, <3>3
  <2> HIDE DEF i, j
  <2>3. Sharper(i, j)
    BY <1>2, <2>2 DEF Sharper
  <2> QED
    BY <2>3 DEF i, j
<1>4. CASE ConstUtxoRefs(t, e) = None /\ InputQuery(t)[e] = None
  <2>1. i.kind = "other" /\ LeastInputs(i) = 0
    BY <1>4, InputCases
  <2> HIDE DEF i, j
  <2>2. Sharper(i, j)
    BY <1>2, <2>1 DEF Sharper
  <2> QED
    BY <2>2 DEF i, j
<1>5. CASE ConstUtxoRefs(t, e) = None /\ InputQuery(t)[e] # None
  <2> DEFINE q == InputQuery(t)[e]
  <2>1. /\ InputQuery(u)[e] = q /\ q \in DOMAIN t /\ t[q].form = "input" /\ u[q] = t[q]
        /\ ConstUtxoRefs(u, e) = None
    BY <1>5, QueriesStay
  <2>2. t[q].parts[1] \in DOMAIN t /\ t[q].parts[2] \in DOMAIN t
    BY <2>1, PartsAreSmaller DEF Bounded
  <2> HIDE DEF q
  <2>3. /\ i.kind = "query" /\ i.addr = ConstAddress(t, t[q].parts[1])
        /\ i.policies = ConstPolicies(t)[t[q].parts[2]]
        /\ LeastInputs(i) = IF t[q].many THEN 0 ELSE 1
    BY <1>5, InputCases DEF q
  <2>4. /\ j.kind = "query" /\ j.addr = ConstAddress(u, t[q].parts[1])
        /\ j.policies = ConstPolicies(u)[t[q].parts[2]]
        /\ LeastInputs(j) = IF t[q].many THEN 0 ELSE 1
    <3>1. InputQuery(u)[e] # None /\ u[InputQuery(u)[e]] = t[q]
      BY <1>5, <2>1 DEF q
    <3> QED
      BY <2>1, <3>1, InputCases
  <2>5. i.addr # None => j.addr = i.addr
    BY <2>2, <2>3, <2>4, ConstsStay DEF ConstAddress, Literal
  <2>6. i.policies \subseteq j.policies
    BY <2>2, <2>3, <2>4, PoliciesStay
  <2> HIDE DEF i, j
  <2>7. Sharper(i, j)
    BY <1>2, <2>3, <2>4, <2>5, <2>6 DEF Sharper
  <2> QED
    BY <2>7 DEF i, j
<1> QED
  BY <1>3, <1>4, <1>5

LEMMA ReferencesSharpen ==
    ASSUME NEW t, NEW u, Bounded(t), Bounded(u), Completes(t, u), NEW e \in DOMAIN t
    PROVE  /\ LeastReferences(ConstUtxoRefs(t, e)) \in Nat
           /\ LeastReferences(ConstUtxoRefs(u, e)) \in Nat
           /\ LeastReferences(ConstUtxoRefs(t, e)) <= LeastReferences(ConstUtxoRefs(u, e))
           /\ ConstUtxoRefs(t, e) # None => ConstUtxoRefs(u, e) = ConstUtxoRefs(t, e)
<1> DEFINE a == ConstUtxoRefs(t, e)
           b == ConstUtxoRefs(u, e)
<1>1. e \in DOMAIN u
  BY DEF Completes
<1>2. /\ a # None => IsSequence(a) /\ Len(a) \in Nat
      /\ b # None => IsSequence(b) /\ Len(b) \in Nat
  BY <1>1, RefsAreLists
<1>3. a # None => b = a
  BY ConstsStay DEF ConstUtxoRefs, Literal
<1>4. a = None /\ b # None => b # <<>>
  BY RefsAreNamed
<1> HIDE DEF a, b
<1>5. a = None /\ b # None => Len(b) >= 1
  BY <1>2, <1>4, WithoutHead
<1>6. /\ LeastReferences(a) = IF a = None THEN 1 ELSE Len(a)
      /\ LeastReferences(b) = IF b = None THEN 1 ELSE Len(b)
  BY DEF LeastReferences
<1> QED
  BY <1>2, <1>3, <1>5, <1>6 DEF a, b

(* Values for more parameters sharpen a fingerprint: field by field it asks *)
(* for no less than before (fingerprint.rs extract on what apply_args left). *)
THEOREM TemplatesSharpen ==
    ASSUME NEW tir, IsTir(tir), NEW t, NEW u, Bounded(t), Bounded(u), Completes(t, u),
           DOMAIN tir.nodes \subseteq DOMAIN t
    PROVE  Weaker(Extract(TemplateOf(tir, t)), Extract(TemplateOf(tir, u)))
<1> DEFINE a == TemplateOf(tir, t)
           b == TemplateOf(tir, u)
           D == DOMAIN tir.nodes
<1>1. /\ tir.inputs \in Seq(D) /\ tir.references \in Seq(D) /\ tir.mints \in Seq(D)
      /\ tir.burns \in Seq(D) /\ tir.signers \in Seq(D) /\ tir.labels \in Seq(D)
      /\ IsSequence(tir.outputs) /\ tir.collateral \in Nat
      /\ \A o \in Range(tir.outputs) : o.address \in D /\ o.amount \in D
  BY DEF IsTir
<1>2. D \subseteq DOMAIN t /\ D \subseteq DOMAIN u
  BY DEF Completes
<1>3. /\ a.inputs = [n \in DOMAIN tir.inputs |-> InputTemplate(t, tir.inputs[n])]
      /\ a.outputs = [n \in DOMAIN tir.outputs |-> OutputTemplate(t, tir.outputs[n])]
      /\ a.mints = [n \in DOMAIN tir.mints |-> ConstPolicies(t)[tir.mints[n]]]
      /\ a.burns = [n \in DOMAIN tir.burns |-> ConstPolicies(t)[tir.burns[n]]]
      /\ a.references = [n \in DOMAIN tir.references |-> ConstUtxoRefs(t, tir.references[n])]
      /\ a.collateral = tir.collateral /\ a.validity = tir.validity
      /\ a.signers = {ConstBytes(t, e) : e \in ToSet(tir.signers)} \ {None}
      /\ a.labels = {ConstNumber(t, e) : e \in ToSet(tir.labels)} \ {None, NoLabel}
  BY DEF TemplateOf
<1>4. /\ b.inputs = [n \in DOMAIN tir.inputs |-> InputTemplate(u, tir.inputs[n])]
      /\ b.outputs = [n \in DOMAIN tir.outputs |-> OutputTemplate(u, tir.outputs[n])]
      /\ b.mints = [n \in DOMAIN tir.mints |-> ConstPolicies(u)[tir.mints[n]]]
      /\ b.burns = [n \in DOMAIN tir.burns |-> ConstPolicies(u)[tir.burns[n]]]
      /\ b.references = [n \in DOMAIN tir.references |-> ConstUtxoRefs(u, tir.references[n])]
      /\ b.collateral = tir.collateral /\ b.validity = tir.validity
      /\ b.signers = {ConstBytes(u, e) : e \in ToSet(tir.signers)} \ {None}
      /\ b.labels = {ConstNumber(u, e) : e \in ToSet(tir.labels)} \ {None, NoLabel}
  BY DEF TemplateOf
<1>5. \A s \in Seq(D) : /\ \A n \in DOMAIN s : s[n] \in D
                        /\ ToSet(s) \subseteq D /\ IsFiniteSet(DOMAIN s)
                        /\ DOMAIN s = 1 .. Len(s) /\ Len(s) \in Nat
  <2> SUFFICES ASSUME NEW s \in Seq(D)
               PROVE  /\ \A n \in DOMAIN s : s[n] \in D
                      /\ ToSet(s) \subseteq D /\ IsFiniteSet(DOMAIN s)
                      /\ DOMAIN s = 1 .. Len(s) /\ Len(s) \in Nat
    OBVIOUS
  <2>1. DOMAIN s = 1 .. Len(s) /\ Len(s) \in Nat /\ \A n \in DOMAIN s : s[n] \in D
    OBVIOUS
  <2>2. IsFiniteSet(1 .. Len(s))
    BY <2>1, CountTo
  <2> QED
    BY <2>1, <2>2 DEF ToSet
<1> HIDE DEF a, b, D
<1>6. \A e \in D :
        /\ Sharper(InputTemplate(t, e), InputTemplate(u, e))
        /\ ConstPolicies(t)[e] \subseteq ConstPolicies(u)[e]
        /\ ConstAddress(t, e) # None => ConstAddress(u, e) = ConstAddress(t, e)
        /\ ConstBytes(t, e) # None => ConstBytes(u, e) = ConstBytes(t, e)
        /\ ConstNumber(t, e) # None => ConstNumber(u, e) = ConstNumber(t, e)
  BY <1>2, InputsSharpen, PoliciesStay, ConstsStay DEF ConstAddress, ConstBytes, ConstNumber, Literal
<1>7. \A n \in DOMAIN tir.outputs :
        /\ a.outputs[n].addr # None => b.outputs[n].addr = a.outputs[n].addr
        /\ a.outputs[n].policies \subseteq b.outputs[n].policies
        /\ a.outputs[n].optional = b.outputs[n].optional
  <2> SUFFICES ASSUME NEW n \in DOMAIN tir.outputs
               PROVE  /\ a.outputs[n].addr # None => b.outputs[n].addr = a.outputs[n].addr
                      /\ a.outputs[n].policies \subseteq b.outputs[n].policies
                      /\ a.outputs[n].optional = b.outputs[n].optional
    OBVIOUS
  <2> DEFINE o == tir.outputs[n]
  <2>1. o.address \in D /\ o.amount \in D
    BY <1>1 DEF Range
  <2> HIDE DEF o
  <2>2. a.outputs[n] = OutputTemplate(t, o) /\ b.outputs[n] = OutputTemplate(u, o)
    BY <1>3, <1>4 DEF o
  <2> QED
    BY <1>6, <2>1, <2>2 DEF OutputTemplate
<1>8. /\ DOMAIN a.inputs = DOMAIN tir.inputs /\ DOMAIN b.inputs = DOMAIN tir.inputs
      /\ DOMAIN a.outputs = DOMAIN tir.outputs /\ DOMAIN b.outputs = DOMAIN tir.outputs
      /\ DOMAIN a.mints = DOMAIN tir.mints /\ DOMAIN b.mints = DOMAIN tir.mints
      /\ DOMAIN a.burns = DOMAIN tir.burns /\ DOMAIN b.burns = DOMAIN tir.burns
      /\ DOMAIN a.references = DOMAIN tir.references /\ DOMAIN b.references = DOMAIN tir.references
  BY <1>3, <1>4
<1>9. \A n \in DOMAIN tir.inputs : Sharper(a.inputs[n], b.inputs[n])
  BY <1>1, <1>3, <1>4, <1>5, <1>6
<1>10. \A n \in DOMAIN tir.mints : a.mints[n] \subseteq b.mints[n]
  BY <1>1, <1>3, <1>4, <1>5, <1>6
<1>11. \A n \in DOMAIN tir.burns : a.burns[n] \subseteq b.burns[n]
  BY <1>1, <1>3, <1>4, <1>5, <1>6
<1>12. \A n \in DOMAIN tir.references :
         /\ LeastReferences(a.references[n]) \in Nat
         /\ LeastReferences(b.references[n]) \in Nat
         /\ LeastReferences(a.references[n]) <= LeastReferences(b.references[n])
         /\ a.references[n] # None => b.references[n] = a.references[n]
  BY <1>1, <1>2, <1>3, <1>4, <1>5, ReferencesSharpen
<1> DEFINE fp == Extract(a)
           other == Extract(b)
<1>13. fp.input_addresses \subseteq other.input_addresses
  BY <1>8, <1>9 DEF Extract, Queries, ToSet, Sharper
<1>14. fp.output_addresses \subseteq other.output_addresses
  BY <1>7, <1>8 DEF Extract, ToSet
<1>15. fp.input_refs \subseteq other.input_refs
  BY <1>8, <1>9 DEF Extract, ToSet, Sharper
<1>16. fp.reference_refs \subseteq other.reference_refs
  <2>1. fp.reference_refs = UNION {ToSet(r) : r \in ToSet(a.references) \ {None}}
    BY DEF Extract
  <2>2. other.reference_refs = UNION {ToSet(r) : r \in ToSet(b.references) \ {None}}
    BY DEF Extract
  <2> HIDE DEF fp, other
  <2>3. SUFFICES ASSUME NEW x \in fp.reference_refs PROVE x \in other.reference_refs
    OBVIOUS
  <2>4. PICK r \in ToSet(a.references) \ {None} : x \in ToSet(r)
    BY <2>1
  <2>5. PICK n \in DOMAIN tir.references : r = a.references[n]
    BY <1>8 DEF ToSet
  <2>6. b.references[n] \in ToSet(b.references)
    BY <1>8 DEF ToSet
  <2>7. b.references[n] # None /\ x \in ToSet(b.references[n])
    BY <1>12, <2>4, <2>5
  <2> QED
    BY <2>2, <2>6, <2>7
<1>17. fp.mint_policies \subseteq other.mint_policies
  BY <1>8, <1>10 DEF Extract, ToSet
<1>18. fp.burn_policies \subseteq other.burn_policies
  BY <1>8, <1>11 DEF Extract, ToSet
<1>19. fp.value_policies \subseteq other.value_policies
  BY <1>7, <1>8, <1>9 DEF Extract, Queries, ToSet, Sharper
<1>20. fp.signers \subseteq other.signers
  BY <1>1, <1>3, <1>4, <1>5, <1>6 DEF Extract
<1>21. fp.labels \subseteq other.labels
  BY <1>1, <1>3, <1>4, <1>5, <1>6 DEF Extract
<1>22. \A field \in Required : fp[field] \subseteq other[field]
  BY <1>13, <1>14, <1>15, <1>16, <1>17, <1>18, <1>19, <1>20, <1>21 DEF Required
<1>23. TotalInputs(a) <= TotalInputs(b)
  <2> DEFINE X == DOMAIN tir.inputs
             f == [n \in X |-> LeastInputs(a.inputs[n])]
             g == [n \in X |-> LeastInputs(b.inputs[n])]
  <2>1. TotalInputs(a) = SumFunction(f) /\ TotalInputs(b) = SumFunction(g)
    BY <1>8 DEF TotalInputs
  <2>2. f \in [X -> Nat] /\ g \in [X -> Nat] /\ \A n \in X : f[n] <= g[n]
    BY <1>9 DEF Sharper
  <2>3. IsFiniteSet(X)
    BY <1>1, <1>5
  <2> HIDE DEF f, g, X
  <2> QED
    BY <2>1, <2>2, <2>3, SumIsMonotone
<1>24. TotalReferences(a) <= TotalReferences(b)
  <2> DEFINE X == DOMAIN tir.references
             f == [n \in X |-> LeastReferences(a.references[n])]
             g == [n \in X |-> LeastReferences(b.references[n])]
  <2>1. TotalReferences(a) = SumFunction(f) /\ TotalReferences(b) = SumFunction(g)
    BY <1>8 DEF TotalReferences
  <2>2. f \in [X -> Nat] /\ g \in [X -> Nat] /\ \A n \in X : f[n] <= g[n]
    BY <1>12
  <2>3. IsFiniteSet(X)
    BY <1>1, <1>5
  <2> HIDE DEF f, g, X
  <2> QED
    BY <2>1, <2>2, <2>3, SumIsMonotone
<1>25. /\ Len(a.mints) = Len(b.mints) /\ Len(a.mints) \in Nat
       /\ Len(a.burns) = Len(b.burns) /\ Len(a.burns) \in Nat
  <2>1. \A s \in Seq(D) : \A f :
          Len([n \in DOMAIN s |-> f[s[n]]]) = Len(s) /\ Len(s) \in Nat
    <3> SUFFICES ASSUME NEW s \in Seq(D), NEW f
                 PROVE  Len([n \in DOMAIN s |-> f[s[n]]]) = Len(s) /\ Len(s) \in Nat
      OBVIOUS
    <3> DEFINE V == {f[s[n]] : n \in DOMAIN s}
               h == [n \in DOMAIN s |-> f[s[n]]]
    <3>1. DOMAIN s = 1 .. Len(s) /\ Len(s) \in Nat
      OBVIOUS
    <3>2. h \in [1 .. Len(s) -> V]
      BY <3>1
    <3> HIDE DEF h, V
    <3>3. Len(h) = Len(s)
      BY <3>1, <3>2
    <3> QED
      BY <3>1, <3>3 DEF h
  <2> QED
    BY <1>1, <1>3, <1>4, <2>1
<1>26. {n \in DOMAIN a.outputs : ~a.outputs[n].optional} = {n \in DOMAIN b.outputs : ~b.outputs[n].optional}
  BY <1>7, <1>8
<1>27. Cardinality({n \in DOMAIN a.outputs : ~a.outputs[n].optional}) \in Nat
  <2> DEFINE K == {n \in DOMAIN a.outputs : ~a.outputs[n].optional}
  <2>1. IsFiniteSet(DOMAIN tir.outputs)
    BY <1>1, RangeIsFinite
  <2>2. K \subseteq DOMAIN tir.outputs
    BY <1>8
  <2> HIDE DEF K
  <2>3. Cardinality(K) \in Nat
    BY <2>1, <2>2, FS_Subset, FS_CardinalityType
  <2> QED
    BY <2>3 DEF K
<1>28. \A slot \in DOMAIN fp.least : fp.least[slot] <= other.least[slot]
  <2> DEFINE outs(x) == Cardinality({n \in DOMAIN x.outputs : ~x.outputs[n].optional})
             least(x) == [inputs |-> TotalInputs(x), outputs |-> outs(x),
                          mints |-> Len(x.mints), burns |-> Len(x.burns),
                          collateral |-> x.collateral, references |-> TotalReferences(x)]
  <2>1. fp.least = least(a) /\ other.least = least(b)
    BY DEF Extract
  <2>2. /\ outs(a) <= outs(b) /\ Len(a.mints) <= Len(b.mints) /\ Len(a.burns) <= Len(b.burns)
        /\ a.collateral <= b.collateral
    <3>1. outs(a) = outs(b) /\ outs(a) \in Nat
      BY <1>26, <1>27
    <3> HIDE DEF outs
    <3> QED
      BY <1>1, <1>3, <1>4, <1>25, <3>1
  <2> HIDE DEF outs
  <2>3. \A slot \in DOMAIN least(a) : least(a)[slot] <= least(b)[slot]
    BY <1>23, <1>24, <2>2
  <2> HIDE DEF least
  <2> QED
    BY <2>1, <2>3
<1>29. fp.validity => other.validity
  BY <1>3, <1>4 DEF Extract
<1> HIDE DEF fp, other
<1>30. Weaker(fp, other)
  BY <1>22, <1>28, <1>29 DEF Weaker
<1> QED
  BY <1>30 DEF fp, other, a, b

-----------------------------------------------------------------------------
(* The arguments of a profile *)

(* The place of the party of a name, and the argument it is given. *)
LEMMA PartyArgument ==
    ASSUME NEW profile, IsProfile(profile)
    PROVE  /\ \A n \in DOMAIN profile.parties :
                /\ profile.parties[n].name \in DOMAIN PartyArgs(profile)
                /\ PartyArgs(profile)[profile.parties[n].name]
                     = Lit("address", profile.parties[n].addr)
           /\ \A name \in DOMAIN PartyArgs(profile) :
                \E n \in DOMAIN profile.parties : profile.parties[n].name = name
<1> DEFINE parties == profile.parties
           place(n) == CHOOSE k \in DOMAIN parties : parties[k].name = n
<1>1. PartyArgs(profile)
        = [n \in {x.name : x \in ToSet(parties)} |-> Lit("address", parties[place(n)].addr)]
  BY DEF PartyArgs
<1>2. DOMAIN PartyArgs(profile) = {x.name : x \in ToSet(parties)}
  BY <1>1
<1>3. ASSUME NEW n \in DOMAIN parties
      PROVE  /\ parties[n].name \in DOMAIN PartyArgs(profile)
             /\ PartyArgs(profile)[parties[n].name] = Lit("address", parties[n].addr)
  <2>1. parties[n].name \in {x.name : x \in ToSet(parties)}
    BY DEF ToSet
  <2>2. place(parties[n].name) = n
    <3>1. \A k \in DOMAIN parties : parties[k].name = parties[n].name => k = n
      BY DEF IsProfile
    <3> QED
      BY <3>1
  <2> QED
    BY <1>1, <1>2, <2>1, <2>2
<1>4. \A name \in DOMAIN PartyArgs(profile) : \E n \in DOMAIN parties : parties[n].name = name
  BY <1>2 DEF ToSet
<1> QED
  BY <1>3, <1>4

LEMMA EnvironmentArgument ==
    ASSUME NEW profile, NEW name \in DOMAIN EnvironmentArgs(profile)
    PROVE  \E v \in profile.environment : EnvironmentArgs(profile)[name] = ArgOf(v)
<1> DEFINE values == {v \in profile.environment : v.json # "object"}
           of(n) == CHOOSE v \in values : v.name = n
<1>1. EnvironmentArgs(profile) = [n \in {v.name : v \in values} |-> ArgOf(of(n))]
  BY DEF EnvironmentArgs
<1>2. name \in {v.name : v \in values}
  BY <1>1
<1>3. PICK v \in values : v.name = name
  BY <1>2
<1>4. of(name) \in values
  BY <1>3
<1> QED
  BY <1>1, <1>2, <1>4

(* Each argument is a completion's, else a party's, else the environment's. *)
InTurn(args, extra, party, env) ==
    /\ DOMAIN args = DOMAIN extra \cup DOMAIN party \cup DOMAIN env
    /\ \A name \in DOMAIN args :
         args[name] = IF name \in DOMAIN extra THEN extra[name]
                      ELSE IF name \in DOMAIN party THEN party[name] ELSE env[name]

LEMMA ArgsOfProfile ==
    ASSUME NEW profile, NEW extra
    PROVE  InTurn(ArgsFromProfile(profile, extra), extra, PartyArgs(profile),
                  EnvironmentArgs(profile))
BY DEF ArgsFromProfile, Hiding, InTurn

LEMMA ArgsAreLiterals ==
    ASSUME NEW profile, IsProfile(profile), NEW extra, IsArgs(extra)
    PROVE  IsArgs(ArgsFromProfile(profile, extra))
<1>1. ASSUME NEW form \in {"address", "bytes", "number", "other"}, NEW value
      PROVE  IsLiteral(Lit(form, value)) /\ Names(Lit(form, value))
  BY DEF IsLiteral, Lit, Literal, Names
<1>2. \A name \in DOMAIN PartyArgs(profile) : IsLiteral(PartyArgs(profile)[name]) /\ Names(PartyArgs(profile)[name])
  BY <1>1, PartyArgument
<1>3. \A name \in DOMAIN EnvironmentArgs(profile) : IsLiteral(EnvironmentArgs(profile)[name]) /\ Names(EnvironmentArgs(profile)[name])
  <2> SUFFICES ASSUME NEW name \in DOMAIN EnvironmentArgs(profile)
               PROVE  IsLiteral(EnvironmentArgs(profile)[name]) /\ Names(EnvironmentArgs(profile)[name])
    OBVIOUS
  <2>1. PICK v \in profile.environment : EnvironmentArgs(profile)[name] = ArgOf(v)
    BY EnvironmentArgument
  <2>2. IsLiteral(ArgOf(v)) /\ Names(ArgOf(v))
    BY <1>1 DEF ArgOf
  <2> QED
    BY <2>1, <2>2
<1>4. \A name \in DOMAIN extra : IsLiteral(extra[name]) /\ Names(extra[name])
  BY DEF IsArgs
<1> DEFINE args == ArgsFromProfile(profile, extra)
           party == PartyArgs(profile)
           env == EnvironmentArgs(profile)
<1>5. InTurn(args, extra, party, env)
  BY ArgsOfProfile
<1> HIDE DEF args, party, env
<1>6. \A name \in DOMAIN args : IsLiteral(args[name]) /\ Names(args[name])
  BY <1>2, <1>3, <1>4, <1>5 DEF InTurn, party, env
<1> QED
  BY <1>6 DEF IsArgs, args

-----------------------------------------------------------------------------
(* What a cached template comes from *)

(* The tables of a transaction that is specialized for a profile. *)
LEMMA SpecializedIsTable ==
    ASSUME NEW tir, IsTir(tir), NEW profile, IsProfile(profile), NEW extra, IsArgs(extra)
    PROVE  /\ Bounded(Specialized(tir, profile, extra))
           /\ Results(tir.nodes, ArgsFromProfile(profile, extra), Specialized(tir, profile, extra))
           /\ DOMAIN tir.nodes \subseteq DOMAIN Specialized(tir, profile, extra)
<1>1. IsArgs(ArgsFromProfile(profile, extra))
  BY ArgsAreLiterals
<1>2. IsSequence(tir.nodes) /\ IsTable(tir.nodes)
  BY DEF IsTir
<1>3. Bounded(Specialized(tir, profile, extra))
  BY <1>1, <1>2, AppliedIsTable DEF Specialized
<1>4. Results(tir.nodes, ArgsFromProfile(profile, extra), Specialized(tir, profile, extra))
  BY <1>2, ApplyResults DEF Specialized
<1> QED
  BY <1>3, <1>4 DEF Results

LEMMA NoArgs == IsArgs(<<>>)
BY DEF IsArgs

(* What an expression is constant for is written in the template or is one  *)
(* of the arguments.                                                        *)
LEMMA ConstsComeFrom ==
    ASSUME NEW tir, IsTir(tir), NEW profile, IsProfile(profile),
           NEW form \in Literal,
           NEW q \in DOMAIN Specialized(tir, profile, <<>>),
           ConstOf(Specialized(tir, profile, <<>>), form)[q] # None
    PROVE  \/ ConstOf(Specialized(tir, profile, <<>>), form)[q] \in LiteralsOf(tir, form)
           \/ \E name \in DOMAIN ArgsFromProfile(profile, <<>>) :
                /\ ArgsFromProfile(profile, <<>>)[name].form = form
                /\ ArgsFromProfile(profile, <<>>)[name].value
                     = ConstOf(Specialized(tir, profile, <<>>), form)[q]
<1> DEFINE u == Specialized(tir, profile, <<>>)
           args == ArgsFromProfile(profile, <<>>)
           t == tir.nodes
<1>1. Bounded(u) /\ Results(t, args, u)
  BY NoArgs, SpecializedIsTable
<1>2. PICK p \in DOMAIN u : u[p].form = form /\ u[p].value = ConstOf(u, form)[q]
  BY <1>1, ConstIsLiteral
<1> HIDE DEF u, args
<1>3. CASE p \in DOMAIN t
  <2>1. ~Given(t, args, p)
    <3>1. SetTo(-p).form = "set"
      BY DEF SetTo
    <3>2. Given(t, args, p) => u[p] = SetTo(-p)
      BY <1>1, <1>3 DEF Results
    <3>3. form # "set"
      BY DEF Literal
    <3> QED
      BY <1>2, <3>1, <3>2, <3>3
  <2>2. u[p] = t[p]
    BY <1>1, <1>3, <2>1 DEF Results
  <2> QED
    BY <1>2, <1>3, <2>2 DEF LiteralsOf, u
<1>4. CASE p \notin DOMAIN t
  <2>1. p \in DOMAIN u \ DOMAIN t
    BY <1>2, <1>4
  <2>2. Given(t, args, -p) /\ u[p] = args[t[-p].value]
    BY <1>1, <2>1 DEF Results
  <2>3. t[-p].value \in DOMAIN args
    BY <2>2 DEF Given
  <2> QED
    BY <1>2, <2>2, <2>3 DEF u, args
<1> QED
  BY <1>3, <1>4

(* An address of the arguments is a party's, bytes are an environment's. *)
LEMMA ArgsComeFrom ==
    ASSUME NEW profile, IsProfile(profile), NEW name \in DOMAIN ArgsFromProfile(profile, <<>>)
    PROVE  LET arg == ArgsFromProfile(profile, <<>>)[name]
           IN  /\ arg.form = "address" => \E n \in DOMAIN profile.parties : arg.value = profile.parties[n].addr
               /\ arg.form = "bytes" => \E v \in profile.environment : v.json = "0x" /\ v.value = arg.value
<1> DEFINE args == ArgsFromProfile(profile, <<>>)
           arg == args[name]
           party == PartyArgs(profile)
           env == EnvironmentArgs(profile)
<1>1. InTurn(args, <<>>, party, env)
  BY ArgsOfProfile
<1>2. /\ name \in DOMAIN party \cup DOMAIN env
      /\ args[name] = IF name \in DOMAIN party THEN party[name] ELSE env[name]
  <2>1. DOMAIN <<>> = {}
    OBVIOUS
  <2> HIDE DEF party, env
  <2> QED
    BY <1>1, <2>1 DEF InTurn
<1>3. CASE name \in DOMAIN party
  <2>1. PICK n \in DOMAIN profile.parties : profile.parties[n].name = name
    BY <1>3, PartyArgument
  <2>2. party[name] = Lit("address", profile.parties[n].addr)
    BY <2>1, PartyArgument
  <2>3. arg = Lit("address", profile.parties[n].addr)
    BY <1>2, <1>3, <2>2
  <2>4. arg.form = "address" /\ arg.value = profile.parties[n].addr
    BY <2>3 DEF Lit
  <2> QED
    BY <2>4
<1>4. CASE name \notin DOMAIN party
  <2>1. name \in DOMAIN env /\ arg = env[name]
    BY <1>2, <1>4
  <2>2. PICK v \in profile.environment : env[name] = ArgOf(v)
    BY <2>1, EnvironmentArgument
  <2>3. arg = ArgOf(v)
    BY <2>1, <2>2
  <2>4. /\ arg.form = IF v.json = "0x" THEN "bytes" ELSE IF v.json = "int" THEN "number" ELSE "other"
        /\ arg.value = v.value
    BY <2>3 DEF ArgOf, Lit
  <2> QED
    BY <2>4
<1> QED
  BY <1>3, <1>4

(* A template that was specialized from a transaction and a profile of a TII. *)
Cast(x) ==
    /\ IsTir(x.tir) /\ IsProfile(x.profile)
    /\ x.template = TemplateOf(x.tir, Specialized(x.tir, x.profile, <<>>))

LEMMA CastIsWeaker ==
    ASSUME NEW x, Cast(x), NEW extra \in Completions,
           DOMAIN extra \cap DOMAIN ArgsFromProfile(x.profile, <<>>) = {}
    PROVE  Weaker(Extract(x.template),
                  Extract(TemplateOf(x.tir, Specialized(x.tir, x.profile, extra))))
<1> DEFINE args == ArgsFromProfile(x.profile, <<>>)
           more == ArgsFromProfile(x.profile, extra)
           party == PartyArgs(x.profile)
           env == EnvironmentArgs(x.profile)
<1>1. IsTir(x.tir) /\ IsProfile(x.profile) /\ IsArgs(extra)
  BY CompletionsAssumption DEF Cast, IsArgs, Names
<1>2. InTurn(args, <<>>, party, env)
  BY ArgsOfProfile
<1>3. InTurn(more, extra, party, env)
  BY ArgsOfProfile
<1>4. DOMAIN <<>> = {}
  OBVIOUS
<1>5. DOMAIN args \subseteq DOMAIN more /\ \A name \in DOMAIN args : more[name] = args[name]
  <2>1. DOMAIN extra \cap DOMAIN args = {}
    OBVIOUS
  <2> HIDE DEF args, more, party, env
  <2> QED
    BY <1>2, <1>3, <1>4, <2>1 DEF InTurn
<1>6. IsArgs(more)
  BY <1>1, ArgsAreLiterals
<1>7. Completes(Apply(x.tir.nodes, args), Apply(x.tir.nodes, more))
  <2>1. IsSequence(x.tir.nodes)
    BY <1>1 DEF IsTir
  <2> HIDE DEF args, more
  <2> QED
    BY <1>5, <1>6, <2>1, MoreArgsComplete
<1>8. Completes(Specialized(x.tir, x.profile, <<>>), Specialized(x.tir, x.profile, extra))
  BY <1>7 DEF Specialized
<1>9. /\ Bounded(Specialized(x.tir, x.profile, <<>>)) /\ Bounded(Specialized(x.tir, x.profile, extra))
      /\ DOMAIN x.tir.nodes \subseteq DOMAIN Specialized(x.tir, x.profile, <<>>)
  BY <1>1, NoArgs, SpecializedIsTable
<1>10. Weaker(Extract(TemplateOf(x.tir, Specialized(x.tir, x.profile, <<>>))),
             Extract(TemplateOf(x.tir, Specialized(x.tir, x.profile, extra))))
  BY <1>1, <1>8, <1>9, TemplatesSharpen
<1> QED
  BY <1>10 DEF Cast

LEMMA CastIsClassified ==
    ASSUME NEW x, Cast(x)
    PROVE  LET t == Specialized(x.tir, x.profile, <<>>)
           IN  \A e \in DOMAIN t :
                 /\ Classify(t)[e] = IF "Computed" \in Leaves(t)[e] THEN "Computed"
                                     ELSE IF "ParamDriven" \in Leaves(t)[e] THEN "ParamDriven"
                                     ELSE "Const"
                 /\ \A form \in {"address", "refs", "number", "bytes"} :
                      ConstOf(t, form)[e] # None => Classify(t)[e] = "Const"
<1> DEFINE t == Specialized(x.tir, x.profile, <<>>)
<1>1. Bounded(t)
  BY NoArgs, SpecializedIsTable DEF Cast
<1> HIDE DEF t
<1>2. \A e \in DOMAIN t : Classify(t)[e] = Worst(Leaves(t)[e])
  BY <1>1, ClassifiedByLeaves
<1>3. \A form \in {"address", "refs", "number", "bytes"} : \A e \in DOMAIN t :
        ConstOf(t, form)[e] # None => Classify(t)[e] = "Const"
  BY <1>1, ConstIsLiteral DEF Literal
<1> QED
  BY <1>2, <1>3 DEF Worst, t

-----------------------------------------------------------------------------
(* What the fingerprint of a template asks for *)

(* A query asks for the address and the policies of two expressions. *)
LEMMA QueryParts ==
    ASSUME NEW u, Bounded(u), NEW e \in DOMAIN u, InputTemplate(u, e).kind = "query"
    PROVE  \E p, r \in DOMAIN u : /\ InputTemplate(u, e).addr = ConstAddress(u, p)
                                  /\ InputTemplate(u, e).policies = ConstPolicies(u)[r]
<1> DEFINE i == InputTemplate(u, e)
           q == InputQuery(u)[e]
<1>1. ConstUtxoRefs(u, e) = None /\ q # None
  <2>1. CASE ConstUtxoRefs(u, e) # None
    <3>1. i.kind = "refs"
      <4>1. i = [kind |-> "refs", refs |-> ConstUtxoRefs(u, e), addr |-> None,
                 policies |-> {}, many |-> FALSE]
        BY <2>1, InputCases
      <4> HIDE DEF i
      <4> QED
        BY <4>1
    <3> QED
      BY <3>1
  <2>2. CASE ConstUtxoRefs(u, e) = None /\ q = None
    <3>1. i.kind = "other"
      BY <2>2, InputCases
    <3> QED
      BY <3>1
  <2> QED
    BY <2>1, <2>2
<1>2. i.addr = ConstAddress(u, u[q].parts[1]) /\ i.policies = ConstPolicies(u)[u[q].parts[2]]
  BY <1>1, InputCases
<1>3. Completes(u, u)
  BY DEF Completes
<1>4. q \in DOMAIN u /\ u[q].form = "input"
  BY <1>1, <1>3, QueriesStay
<1>5. u[q].parts[1] \in DOMAIN u /\ u[q].parts[2] \in DOMAIN u
  BY <1>4, PartsAreSmaller DEF Bounded
<1> QED
  BY <1>2, <1>5

(* The expressions a transaction's parts are made from. *)
LEMMA PlacesOfTir ==
    ASSUME NEW tir, IsTir(tir)
    PROVE  /\ \A s \in {tir.inputs, tir.references, tir.mints, tir.burns, tir.signers, tir.labels} :
                /\ \A n \in DOMAIN s : s[n] \in DOMAIN tir.nodes
                /\ ToSet(s) \subseteq DOMAIN tir.nodes
           /\ \A o \in ToSet(tir.outputs) : o.address \in DOMAIN tir.nodes /\ o.amount \in DOMAIN tir.nodes
           /\ \A n \in DOMAIN tir.outputs : tir.outputs[n] \in ToSet(tir.outputs)
<1> DEFINE D == DOMAIN tir.nodes
<1>1. \A s \in {tir.inputs, tir.references, tir.mints, tir.burns, tir.signers, tir.labels} : s \in Seq(D)
  BY DEF IsTir
<1>2. \A s \in Seq(D) : \A n \in DOMAIN s : s[n] \in D
  OBVIOUS
<1>3. \A s \in Seq(D) : ToSet(s) \subseteq D
  BY <1>2 DEF ToSet
<1>4. \A o \in Range(tir.outputs) : o.address \in D /\ o.amount \in D
  BY DEF IsTir
<1>5. ToSet(tir.outputs) = Range(tir.outputs)
  BY DEF ToSet, Range
<1>6. \A n \in DOMAIN tir.outputs : tir.outputs[n] \in ToSet(tir.outputs)
  BY DEF ToSet
<1> HIDE DEF D
<1>7. \A s \in {tir.inputs, tir.references, tir.mints, tir.burns, tir.signers, tir.labels} :
        (\A n \in DOMAIN s : s[n] \in D) /\ ToSet(s) \subseteq D
  <2> SUFFICES ASSUME NEW s \in {tir.inputs, tir.references, tir.mints, tir.burns, tir.signers, tir.labels}
               PROVE  (\A n \in DOMAIN s : s[n] \in D) /\ ToSet(s) \subseteq D
    OBVIOUS
  <2>1. s \in Seq(D)
    BY <1>1
  <2> QED
    BY <1>2, <1>3, <2>1
<1> QED
  BY <1>4, <1>5, <1>6, <1>7 DEF D

(* The parts of a template, by the expressions they are made from. *)
MadeOf(a, tir, u) ==
    /\ ToSet(a.inputs) = {InputTemplate(u, e) : e \in ToSet(tir.inputs)}
    /\ ToSet(a.outputs) = {OutputTemplate(u, o) : o \in ToSet(tir.outputs)}
    /\ ToSet(a.mints) = {ConstPolicies(u)[e] : e \in ToSet(tir.mints)}
    /\ ToSet(a.burns) = {ConstPolicies(u)[e] : e \in ToSet(tir.burns)}

LEMMA PartsOfTemplate ==
    ASSUME NEW tir, NEW u
    PROVE  MadeOf(TemplateOf(tir, u), tir, u)
<1> DEFINE a == TemplateOf(tir, u)
<1>1. /\ a.inputs = [n \in DOMAIN tir.inputs |-> InputTemplate(u, tir.inputs[n])]
      /\ a.outputs = [n \in DOMAIN tir.outputs |-> OutputTemplate(u, tir.outputs[n])]
      /\ a.mints = [n \in DOMAIN tir.mints |-> ConstPolicies(u)[tir.mints[n]]]
      /\ a.burns = [n \in DOMAIN tir.burns |-> ConstPolicies(u)[tir.burns[n]]]
  BY DEF TemplateOf
<1> HIDE DEF a
<1>2. ToSet(a.inputs) = {InputTemplate(u, e) : e \in ToSet(tir.inputs)}
  BY <1>1 DEF ToSet
<1>3. ToSet(a.outputs) = {OutputTemplate(u, o) : o \in ToSet(tir.outputs)}
  <2> DEFINE s == tir.outputs
             z == a.outputs
  <2>1. DOMAIN z = DOMAIN s /\ \A n \in DOMAIN s : z[n] = OutputTemplate(u, s[n])
    BY <1>1
  <2> HIDE DEF s, z
  <2>2. ToSet(z) = {z[n] : n \in DOMAIN z} /\ ToSet(s) = {s[n] : n \in DOMAIN s}
    BY DEF ToSet
  <2>3. \A r \in ToSet(z) : r \in {OutputTemplate(u, o) : o \in ToSet(s)}
    BY <2>1, <2>2
  <2>4. \A o \in ToSet(s) : OutputTemplate(u, o) \in ToSet(z)
    BY <2>1, <2>2
  <2> QED
    BY <2>3, <2>4 DEF s, z
<1>4. ToSet(a.mints) = {ConstPolicies(u)[e] : e \in ToSet(tir.mints)}
  BY <1>1 DEF ToSet
<1>5. ToSet(a.burns) = {ConstPolicies(u)[e] : e \in ToSet(tir.burns)}
  BY <1>1 DEF ToSet
<1> QED
  BY <1>2, <1>3, <1>4, <1>5 DEF MadeOf, a

(* A fingerprint asks for constant addresses and policies of the table. *)
LEMMA AskedIsConstant ==
    ASSUME NEW tir, IsTir(tir), NEW u, Bounded(u), DOMAIN tir.nodes \subseteq DOMAIN u
    PROVE  LET fp == Extract(TemplateOf(tir, u))
           IN  /\ fp.input_addresses \cup fp.output_addresses
                    \subseteq {ConstAddress(u, e) : e \in DOMAIN u} \ {None}
               /\ fp.mint_policies \cup fp.burn_policies \cup fp.value_policies
                    \subseteq {ConstBytes(u, e) : e \in DOMAIN u} \ {None, Empty}
<1> DEFINE a == TemplateOf(tir, u)
           fp == Extract(a)
           D == DOMAIN u
           A == {ConstAddress(u, e) : e \in D}
           B == {ConstBytes(u, e) : e \in D} \ {None, Empty}
<1>1. MadeOf(a, tir, u)
  BY PartsOfTemplate
<1>2. /\ ToSet(tir.inputs) \subseteq D /\ ToSet(tir.mints) \subseteq D /\ ToSet(tir.burns) \subseteq D
      /\ \A o \in ToSet(tir.outputs) : o.address \in D /\ o.amount \in D
  BY PlacesOfTir
<1>3. \A e \in D : ConstPolicies(u)[e] \subseteq B
  BY PoliciesAreBytes
<1> HIDE DEF a, D, B
<1>4. \A e \in D : ConstAddress(u, e) \in A
  OBVIOUS
<1> HIDE DEF A
<1>5. \A i \in ToSet(a.inputs) : i.kind = "query" => i.addr \in A /\ i.policies \subseteq B
  <2> SUFFICES ASSUME NEW e \in ToSet(tir.inputs), InputTemplate(u, e).kind = "query"
               PROVE  InputTemplate(u, e).addr \in A /\ InputTemplate(u, e).policies \subseteq B
    BY <1>1 DEF MadeOf
  <2>1. PICK p, r \in D : /\ InputTemplate(u, e).addr = ConstAddress(u, p)
                          /\ InputTemplate(u, e).policies = ConstPolicies(u)[r]
    BY <1>2, QueryParts DEF D
  <2> QED
    BY <1>3, <1>4, <2>1
<1>6. \A o \in ToSet(a.outputs) : o.addr \in A /\ o.policies \subseteq B
  <2> SUFFICES ASSUME NEW o \in ToSet(tir.outputs)
               PROVE  OutputTemplate(u, o).addr \in A /\ OutputTemplate(u, o).policies \subseteq B
    BY <1>1 DEF MadeOf
  <2>1. /\ OutputTemplate(u, o).addr = ConstAddress(u, o.address)
        /\ OutputTemplate(u, o).policies = ConstPolicies(u)[o.amount]
    BY DEF OutputTemplate
  <2> QED
    BY <1>2, <1>3, <1>4, <2>1
<1>7. \A K \in ToSet(a.mints) \cup ToSet(a.burns) : K \subseteq B
  BY <1>1, <1>2, <1>3 DEF MadeOf
<1>8. /\ fp.input_addresses = {q.addr : q \in Queries(a)} \ {None}
      /\ fp.output_addresses = {o.addr : o \in ToSet(a.outputs)} \ {None}
      /\ fp.mint_policies = UNION ToSet(a.mints)
      /\ fp.burn_policies = UNION ToSet(a.burns)
      /\ fp.value_policies = UNION {x.policies : x \in Queries(a) \cup ToSet(a.outputs)}
  BY DEF Extract
<1>9. \A q \in Queries(a) : q.addr \in A /\ q.policies \subseteq B
  BY <1>5 DEF Queries
<1> HIDE DEF fp
<1>10. fp.input_addresses \cup fp.output_addresses \subseteq A \ {None}
  BY <1>6, <1>8, <1>9
<1>11. fp.mint_policies \cup fp.burn_policies \cup fp.value_policies \subseteq B
  <2>1. fp.mint_policies \cup fp.burn_policies \subseteq B
    BY <1>7, <1>8
  <2>2. \A x \in Queries(a) \cup ToSet(a.outputs) : x.policies \subseteq B
    BY <1>6, <1>9
  <2> QED
    BY <1>8, <2>1, <2>2
<1> QED
  BY <1>10, <1>11 DEF A, B, D, fp, a

(* An expression that a template writes as a parameter is, once that has an *)
(* address for an argument, constant.                                       *)
LEMMA NamedAddress ==
    ASSUME NEW x, Cast(x), NEW n \in DOMAIN x.profile.parties,
           NEW e \in DOMAIN x.tir.nodes, x.tir.nodes[e].form = "param",
           x.tir.nodes[e].value = x.profile.parties[n].name
    PROVE  ConstAddress(Specialized(x.tir, x.profile, <<>>), e) = x.profile.parties[n].addr
<1> DEFINE t == x.tir.nodes
           u == Specialized(x.tir, x.profile, <<>>)
           args == ArgsFromProfile(x.profile, <<>>)
           name == x.profile.parties[n].name
<1>1. Bounded(u) /\ Results(t, args, u) /\ DOMAIN t = 1 .. Len(t) /\ Len(t) \in Nat
  <2>1. IsTir(x.tir) /\ IsProfile(x.profile)
    BY DEF Cast
  <2>2. IsSequence(t)
    BY <2>1 DEF IsTir
  <2>3. DOMAIN t = 1 .. Len(t) /\ Len(t) \in Nat
    BY <2>2 DEF IsSequence
  <2>4. Bounded(u) /\ Results(t, args, u)
    BY <2>1, NoArgs, SpecializedIsTable
  <2> QED
    BY <2>3, <2>4
<1>2. name \in DOMAIN args /\ args[name] = Lit("address", x.profile.parties[n].addr)
  <2>1. /\ name \in DOMAIN PartyArgs(x.profile)
        /\ PartyArgs(x.profile)[name] = Lit("address", x.profile.parties[n].addr)
    BY PartyArgument DEF Cast
  <2>2. InTurn(args, <<>>, PartyArgs(x.profile), EnvironmentArgs(x.profile))
    BY ArgsOfProfile
  <2>3. DOMAIN <<>> = {}
    OBVIOUS
  <2> HIDE DEF args, name
  <2> QED
    BY <2>1, <2>2, <2>3 DEF InTurn
<1> HIDE DEF u, args
<1>3. Given(t, args, e)
  BY <1>2 DEF Given
<1>4. u[e] = SetTo(-e) /\ -e \in DOMAIN u /\ e \in DOMAIN u
  BY <1>1, <1>3 DEF Results
<1>5. -e \in DOMAIN u \ DOMAIN t /\ -(-e) = e
  BY <1>1, <1>4
<1>6. u[-e] = args[t[-(-e)].value]
  BY <1>1, <1>5 DEF Results
<1>7. u[-e] = Lit("address", x.profile.parties[n].addr)
  BY <1>2, <1>5, <1>6
<1>8. "address" \in Literal
  BY DEF Literal
<1>9. \A q \in DOMAIN u :
        ConstOf(u, "address")[q] = IF u[q].form = "address" THEN u[q].value
                                   ELSE IF u[q].form = "set" THEN ConstOf(u, "address")[u[q].parts[1]]
                                   ELSE None
  BY <1>1, <1>8, ConstRecursion DEF ConstUnfolds
<1>10. ConstOf(u, "address")[-e] = x.profile.parties[n].addr
  <2>1. u[-e].form = "address" /\ u[-e].value = x.profile.parties[n].addr
    BY <1>7 DEF Lit
  <2> QED
    BY <1>4, <1>9, <2>1
<1>11. u[e].form = "set" /\ u[e].parts[1] = -e
  <2> DEFINE k == -e
  <2>1. u[e] = SetTo(k)
    BY <1>4
  <2> HIDE DEF k
  <2>2. u[e].form = "set" /\ u[e].parts = <<k>>
    BY <2>1 DEF SetTo
  <2>3. <<k>>[1] = k
    OBVIOUS
  <2> QED
    BY <2>2, <2>3 DEF k
<1>12. ConstOf(u, "address")[e] = ConstOf(u, "address")[-e]
  BY <1>4, <1>9, <1>11
<1> QED
  BY <1>10, <1>12 DEF ConstAddress, u

LEMMA CastAsksParties ==
    ASSUME NEW x, Cast(x), NEW n \in DOMAIN x.profile.parties
    PROVE  LET fp == Extract(x.template)
               t == x.tir.nodes
               party == x.profile.parties[n]
               names(e) == t[e].form = "param" /\ t[e].value = party.name
           IN  /\ (\E e \in ToSet(x.tir.inputs) : t[e].form = "input" /\ names(t[e].parts[1]))
                    => party.addr \in fp.input_addresses
               /\ (\E o \in ToSet(x.tir.outputs) : names(o.address))
                    => party.addr \in fp.output_addresses
<1> DEFINE tir == x.tir
           t == x.tir.nodes
           u == Specialized(x.tir, x.profile, <<>>)
           a == TemplateOf(tir, u)
           fp == Extract(a)
           party == x.profile.parties[n]
           names(e) == t[e].form = "param" /\ t[e].value = party.name
<1>1. IsTir(tir) /\ IsProfile(x.profile) /\ x.template = a
  BY DEF Cast
<1>2. party.addr # None
  BY <1>1 DEF IsProfile, Range
<1>3. Bounded(u) /\ Results(t, ArgsFromProfile(x.profile, <<>>), u)
  BY <1>1, NoArgs, SpecializedIsTable
<1>4. \A e \in DOMAIN t : names(e) => ConstAddress(u, e) = party.addr
  BY NamedAddress
<1>5. MadeOf(a, tir, u)
  BY PartsOfTemplate
<1>6. /\ ToSet(tir.inputs) \subseteq DOMAIN t
      /\ \A o \in ToSet(tir.outputs) : o.address \in DOMAIN t
  BY <1>1, PlacesOfTir
<1>7. /\ fp.input_addresses = {q.addr : q \in Queries(a)} \ {None}
      /\ fp.output_addresses = {o.addr : o \in ToSet(a.outputs)} \ {None}
  BY DEF Extract
<1>8. DOMAIN t \subseteq Nat /\ IsTable(t)
  <2>1. IsSequence(t) /\ IsTable(t)
    BY <1>1 DEF IsTir
  <2>2. DOMAIN t = 1 .. Len(t) /\ Len(t) \in Nat
    BY <2>1 DEF IsSequence
  <2> QED
    BY <2>1, <2>2
<1> HIDE DEF u, a, fp
<1>9. ASSUME NEW e \in ToSet(tir.inputs), t[e].form = "input", names(t[e].parts[1])
      PROVE  party.addr \in fp.input_addresses
  <2>1. e \in DOMAIN t /\ e # None
    BY <1>6, <1>8, NoneAssumption
  <2>2. t[e].parts[1] \in DOMAIN t
    BY <1>8, <1>9, <2>1, PartsAreSmaller
  <2>3. u[e] = t[e] /\ e \in DOMAIN u
    <3>1. ~Given(t, ArgsFromProfile(x.profile, <<>>), e)
      BY <1>9 DEF Given
    <3> QED
      BY <1>3, <2>1, <3>1 DEF Results
  <2>4. InputQuery(u)[e] = e
    BY <1>3, <1>9, <2>3, QueryRecursion DEF QueryStep
  <2>5. ConstUtxoRefs(u, e) = None
    <3>1. "refs" \in Literal
      BY DEF Literal
    <3> QED
      BY <1>3, <2>1, <2>3, <2>4, <3>1, ConstIsLiteral DEF ConstUtxoRefs
  <2> DEFINE i == InputTemplate(u, e)
  <2>6. i.kind = "query" /\ i.addr = ConstAddress(u, u[e].parts[1])
    BY <2>1, <2>4, <2>5, InputCases
  <2>7. i.addr = party.addr
    BY <1>4, <1>9, <2>2, <2>3, <2>6
  <2>8. i \in ToSet(a.inputs)
    BY <1>5 DEF MadeOf
  <2> HIDE DEF i
  <2>9. i \in Queries(a)
    BY <2>6, <2>8 DEF Queries
  <2> QED
    BY <1>2, <1>7, <2>7, <2>9
<1>10. ASSUME NEW o \in ToSet(tir.outputs), names(o.address)
       PROVE  party.addr \in fp.output_addresses
  <2> DEFINE out == OutputTemplate(u, o)
  <2>1. out.addr = party.addr
    BY <1>4, <1>6, <1>10 DEF OutputTemplate
  <2>2. out \in ToSet(a.outputs)
    BY <1>5 DEF MadeOf
  <2> HIDE DEF out
  <2> QED
    BY <1>2, <1>7, <2>1, <2>2
<1> QED
  BY <1>1, <1>9, <1>10 DEF fp

LEMMA CastAsksAnchors ==
    ASSUME NEW x, Cast(x)
    PROVE  LET fp == Extract(x.template)
           IN  fp.input_addresses \cup fp.output_addresses
                 \subseteq FromProfile(AnchorProfile(x.profile)).addresses
                             \cup LiteralsOf(x.tir, "address")
<1> DEFINE fp == Extract(x.template)
           u == Specialized(x.tir, x.profile, <<>>)
           args == ArgsFromProfile(x.profile, <<>>)
           A == FromProfile(AnchorProfile(x.profile)).addresses
<1>1. IsTir(x.tir) /\ IsProfile(x.profile) /\ x.template = TemplateOf(x.tir, u)
  BY DEF Cast
<1>2. Bounded(u) /\ DOMAIN x.tir.nodes \subseteq DOMAIN u
  BY <1>1, NoArgs, SpecializedIsTable
<1>3. fp.input_addresses \cup fp.output_addresses \subseteq {ConstAddress(u, e) : e \in DOMAIN u} \ {None}
  BY <1>1, <1>2, AskedIsConstant
<1>4. \A n \in DOMAIN x.profile.parties : x.profile.parties[n].addr \in A
  BY DEF FromProfile, AnchorProfile, ToSet
<1>5. \A e \in DOMAIN u : ConstAddress(u, e) # None =>
        \/ ConstAddress(u, e) \in LiteralsOf(x.tir, "address")
        \/ \E name \in DOMAIN args :
             args[name].form = "address" /\ args[name].value = ConstAddress(u, e)
  BY <1>1, ConstsComeFrom DEF ConstAddress, Literal
<1>6. \A name \in DOMAIN args : args[name].form = "address" =>
        \E n \in DOMAIN x.profile.parties : args[name].value = x.profile.parties[n].addr
  BY <1>1, ArgsComeFrom
<1> HIDE DEF fp, u, args, A
<1>7. \A e \in DOMAIN u : ConstAddress(u, e) # None =>
        ConstAddress(u, e) \in A \cup LiteralsOf(x.tir, "address")
  BY <1>4, <1>5, <1>6
<1>8. fp.input_addresses \cup fp.output_addresses \subseteq A \cup LiteralsOf(x.tir, "address")
  BY <1>3, <1>7
<1> QED
  BY <1>8 DEF fp, A

LEMMA CastAsksPolicies ==
    ASSUME NEW x, Cast(x)
    PROVE  LET fp == Extract(x.template)
               written(json) == {v.value : v \in {w \in x.profile.environment : w.json = json}}
           IN  /\ fp.mint_policies \cup fp.burn_policies \cup fp.value_policies
                    \subseteq written("0x") \cup LiteralsOf(x.tir, "bytes")
               /\ FromProfile(AnchorProfile(x.profile)).policies \subseteq written("string")
<1> DEFINE fp == Extract(x.template)
           u == Specialized(x.tir, x.profile, <<>>)
           args == ArgsFromProfile(x.profile, <<>>)
           written(json) == {v.value : v \in {w \in x.profile.environment : w.json = json}}
           bytes == written("0x")
<1>1. IsTir(x.tir) /\ IsProfile(x.profile) /\ x.template = TemplateOf(x.tir, u)
  BY DEF Cast
<1>2. Bounded(u) /\ DOMAIN x.tir.nodes \subseteq DOMAIN u
  BY <1>1, NoArgs, SpecializedIsTable
<1>3. fp.mint_policies \cup fp.burn_policies \cup fp.value_policies
        \subseteq {ConstBytes(u, e) : e \in DOMAIN u} \ {None, Empty}
  BY <1>1, <1>2, AskedIsConstant
<1>4. \A e \in DOMAIN u : ConstBytes(u, e) # None =>
        \/ ConstBytes(u, e) \in LiteralsOf(x.tir, "bytes")
        \/ \E name \in DOMAIN args :
             args[name].form = "bytes" /\ args[name].value = ConstBytes(u, e)
  BY <1>1, ConstsComeFrom DEF ConstBytes, Literal
<1>5. \A name \in DOMAIN args : args[name].form = "bytes" => args[name].value \in bytes
  <2>1. \A name \in DOMAIN args : args[name].form = "bytes" =>
          \E v \in x.profile.environment : v.json = "0x" /\ v.value = args[name].value
    BY <1>1, ArgsComeFrom
  <2> HIDE DEF args
  <2> QED
    BY <2>1
<1>6. FromProfile(AnchorProfile(x.profile)).policies \subseteq written("string")
  <2> DEFINE E == AnchorProfile(x.profile).environment
  <2>1. E = {[shape |-> v.shape, value |-> v.value] :
             v \in {w \in x.profile.environment : w.json \in {"0x", "string"}}}
    BY DEF AnchorProfile
  <2>2. FromProfile(AnchorProfile(x.profile)).policies = {v.value : v \in {w \in E : w.shape = "policy"}}
    BY DEF FromProfile, Shaped
  <2>3. \A v \in x.profile.environment : v.json = "0x" => v.shape = "other"
    BY <1>1 DEF IsProfile
  <2> HIDE DEF E
  <2>4. \A w \in E : w.shape = "policy" => w.value \in written("string")
    BY <2>1, <2>3
  <2> QED
    BY <2>2, <2>4
<1> HIDE DEF fp, u, args, bytes
<1>7. \A e \in DOMAIN u : ConstBytes(u, e) # None =>
        ConstBytes(u, e) \in bytes \cup LiteralsOf(x.tir, "bytes")
  BY <1>4, <1>5
<1>8. fp.mint_policies \cup fp.burn_policies \cup fp.value_policies
        \subseteq bytes \cup LiteralsOf(x.tir, "bytes")
  BY <1>3, <1>7
<1> QED
  BY <1>6, <1>8 DEF fp, bytes

-----------------------------------------------------------------------------
(* The invariant *)

(* What a source must be to be finished. *)
Sound(source) ==
    /\ source.tii # Unreadable
    /\ source.profile \in DOMAIN source.tii.profiles
    /\ source.tii.txs # <<>>
    /\ \A tx \in ToSet(source.tii.txs) : Decodes(tx)
    /\ \A party \in ToSet(ProfileOf(source).parties) : party.addr # Undecodable

TxsOf(source) ==
    [j \in DOMAIN source.tii.txs |-> SpecializedTx(source.tii.txs[j], ProfileOf(source))]

ActiveOf(source) ==
    [name |-> source.name, profile |-> AnchorProfile(ProfileOf(source)), txs |-> TxsOf(source)]

(* The sources among the first n that can match. *)
Finished(n) == Picked(config.sources, {k \in 1 .. n : Anchored(config.sources[k])})

(* The transactions in hand are the first of the source that is next. *)
InHand ==
    txs # <<>> =>
        /\ done < Len(config.sources) /\ ProfileReads
        /\ \E n \in 1 .. Len(Source.tii.txs) :
             /\ txs = [j \in 1 .. n |-> SpecializedTx(Source.tii.txs[j], Profile)]
             /\ \A j \in 1 .. n : Decodes(Source.tii.txs[j])

StartInv ==
    /\ config \in Configurations
    /\ done \in 0 .. Len(config.sources)
    /\ \A n \in 1 .. done : Sound(config.sources[n])
    /\ active = [i \in DOMAIN Finished(done) |-> ActiveOf(Finished(done)[i])]
    /\ InHand
    /\ stage \in {"filter", "running"} => done = Len(config.sources)
    /\ stage = "running" => Undecodable \notin config.filter
    /\ stage \in {"open", "specialize", "filter", "running"} =>
         key = ApiKey(config.toml_key, config.env_key)

LEMMA OfConfiguration ==
    ASSUME config \in Configurations
    PROVE  /\ IsSequence(config.sources)
           /\ DOMAIN config.sources = 1 .. Len(config.sources) /\ Len(config.sources) \in Nat
           /\ \A n \in 1 .. Len(config.sources) :
                config.sources[n].tii # Unreadable => IsTii(config.sources[n].tii)
<1>1. /\ IsSequence(config.sources)
      /\ \A source \in Range(config.sources) : source.tii # Unreadable => IsTii(source.tii)
  BY ConfigurationsAssumption
<1>2. DOMAIN config.sources = 1 .. Len(config.sources) /\ Len(config.sources) \in Nat
  BY <1>1 DEF IsSequence
<1>3. \A n \in 1 .. Len(config.sources) : config.sources[n] \in Range(config.sources)
  BY <1>2 DEF Range
<1> QED
  BY <1>1, <1>2, <1>3

(* What is made of each of the first entries of a sequence, and one more. *)
LEMMA OneMoreMade ==
    ASSUME NEW n \in Nat, NEW f
    PROVE  Append([j \in 1 .. n |-> f[j]], f[n + 1]) = [j \in 1 .. (n + 1) |-> f[j]]
<1> DEFINE S == {f[j] : j \in 1 .. (n + 1)}
           s == [j \in 1 .. n |-> f[j]]
           r == [j \in 1 .. (n + 1) |-> f[j]]
           e == f[n + 1]
<1>1. s \in [1 .. n -> S] /\ e \in S
  OBVIOUS
<1>2. \A k \in 1 .. (n + 1) : r[k] = IF k = n + 1 THEN e ELSE s[k]
  OBVIOUS
<1>3. r \in [1 .. (n + 1) -> S]
  OBVIOUS
<1> HIDE DEF s, r, e, S
<1>4. s \in Seq(S) /\ Len(s) = n
  BY <1>1
<1>5. /\ Append(s, e) \in Seq(S) /\ DOMAIN Append(s, e) = 1 .. (n + 1)
      /\ \A k \in 1 .. (n + 1) : Append(s, e)[k] = IF k = n + 1 THEN e ELSE s[k]
  BY <1>1, <1>4
<1>6. Append(s, e) \in [1 .. (n + 1) -> S]
  <2>1. \A z \in Seq(S) : z \in [DOMAIN z -> S]
    OBVIOUS
  <2> QED
    BY <1>5, <2>1
<1>7. Append(s, e) = r
  BY <1>2, <1>3, <1>5, <1>6
<1> QED
  BY <1>7 DEF s, e, r

LEMMA OneMoreActive ==
    ASSUME NEW s, IsSequence(s), NEW e
    PROVE  Append([i \in DOMAIN s |-> ActiveOf(s[i])], ActiveOf(e))
             = [i \in DOMAIN Append(s, e) |-> ActiveOf(Append(s, e)[i])]
<1> DEFINE n == Len(s)
           f == [i \in 1 .. (n + 1) |-> ActiveOf(Append(s, e)[i])]
<1>1. DOMAIN s = 1 .. n /\ n \in Nat
  BY DEF IsSequence
<1>2. DOMAIN Append(s, e) = 1 .. (n + 1) /\ Append(s, e)[n + 1] = e
      /\ \A i \in 1 .. n : Append(s, e)[i] = s[i]
  <2>1. s \in Seq(Range(s) \cup {e})
    BY DEF IsSequence
  <2> QED
    BY <2>1
<1>3. f[n + 1] = ActiveOf(e) /\ \A i \in 1 .. n : f[i] = ActiveOf(s[i])
  BY <1>1, <1>2
<1>4. f = [i \in DOMAIN Append(s, e) |-> ActiveOf(Append(s, e)[i])]
  BY <1>2
<1>5. f = [j \in 1 .. (n + 1) |-> f[j]]
  OBVIOUS
<1> HIDE DEF f, n
<1>6. Append([j \in 1 .. n |-> f[j]], f[n + 1]) = [j \in 1 .. (n + 1) |-> f[j]]
  BY <1>1, OneMoreMade
<1>7. [j \in 1 .. n |-> f[j]] = [i \in DOMAIN s |-> ActiveOf(s[i])]
  BY <1>1, <1>3
<1> QED
  BY <1>3, <1>4, <1>5, <1>6, <1>7

(* A source whose profile has no anchors is one that can never match. *)
LEMMA AnchorsOfSource ==
    ASSUME NEW source, IsProfile(ProfileOf(source))
    PROVE  NoAnchors(FromProfile(AnchorProfile(ProfileOf(source)))) <=> ~Anchored(source)
<1> DEFINE p == ProfileOf(source)
           a == FromProfile(AnchorProfile(p))
           E == AnchorProfile(p).environment
<1>1. IsSequence(p.parties) /\ \A v \in p.environment : v.json = "0x" => v.shape = "other"
  BY DEF IsProfile
<1>2. E = {[shape |-> v.shape, value |-> v.value] :
           v \in {w \in p.environment : w.json \in {"0x", "string"}}}
  BY DEF AnchorProfile
<1>3. /\ a.addresses = {p.parties[n].addr : n \in DOMAIN p.parties}
      /\ a.utxo_refs = {v.value : v \in {w \in E : w.shape = "ref"}}
      /\ a.policies = {v.value : v \in {w \in E : w.shape = "policy"}}
  BY DEF FromProfile, AnchorProfile, Shaped, ToSet
<1> HIDE DEF p, a, E
<1>4. a.addresses = {} <=> p.parties = <<>>
  <2>1. DOMAIN p.parties = 1 .. Len(p.parties) /\ Len(p.parties) \in Nat /\ p.parties \in Seq(Range(p.parties))
    BY <1>1 DEF IsSequence
  <2>2. ASSUME p.parties # <<>> PROVE a.addresses # {}
    <3>1. Len(p.parties) # 0
      BY <2>1, <2>2
    <3>2. 1 \in DOMAIN p.parties
      BY <2>1, <3>1
    <3>3. p.parties[1].addr \in {p.parties[n].addr : n \in DOMAIN p.parties}
      BY <3>2
    <3> QED
      BY <1>3, <3>3
  <2>3. ASSUME p.parties = <<>> PROVE a.addresses = {}
    <3>1. DOMAIN p.parties = {}
      BY <2>3
    <3> QED
      BY <1>3, <3>1
  <2> QED
    BY <2>2, <2>3
<1> DEFINE of(shape) == {v.value : v \in {w \in E : w.shape = shape}}
<1>5. \A shape \in {"ref", "policy"} :
        of(shape) = {} <=> ~\E v \in p.environment : v.json = "string" /\ v.shape = shape
  <2> SUFFICES ASSUME NEW shape \in {"ref", "policy"}
               PROVE  of(shape) = {} <=> ~\E v \in p.environment : v.json = "string" /\ v.shape = shape
    OBVIOUS
  <2>1. ASSUME NEW v \in p.environment, v.json = "string", v.shape = shape PROVE of(shape) # {}
    <3> DEFINE w == [shape |-> v.shape, value |-> v.value]
    <3>1. w \in E
      BY <1>2, <2>1
    <3>2. w.shape = shape
      BY <2>1
    <3>3. w.value \in of(shape)
      <4> HIDE DEF w
      <4> QED
        BY <3>1, <3>2
    <3> QED
      BY <3>3
  <2>2. ASSUME of(shape) # {} PROVE \E v \in p.environment : v.json = "string" /\ v.shape = shape
    <3>1. PICK w \in E : w.shape = shape
      BY <2>2
    <3>2. PICK v \in {x \in p.environment : x.json \in {"0x", "string"}} :
             w = [shape |-> v.shape, value |-> v.value]
      BY <1>2, <3>1
    <3>3. v.shape = shape
      BY <3>1, <3>2
    <3> QED
      BY <1>1, <3>2, <3>3
  <2> QED
    BY <2>1, <2>2
<1>6. a.utxo_refs = of("ref") /\ a.policies = of("policy")
  BY <1>3
<1> HIDE DEF of
<1>7. NoAnchors(a) <=> ~Anchored(source)
  BY <1>4, <1>5, <1>6 DEF NoAnchors, Anchored, p
<1> QED
  BY <1>7 DEF a, p

LEMMA StartInit == Init => StartInv
<1> SUFFICES ASSUME Init PROVE StartInv
  OBVIOUS
<1> USE DEF Init
<1>1. IsSequence(config.sources) /\ Len(config.sources) \in Nat
  BY OfConfiguration
<1>2. Finished(0) = <<>>
  <2> DEFINE K == {k \in 1 .. 0 : Anchored(config.sources[k])}
  <2>1. K = {}
    OBVIOUS
  <2> HIDE DEF K
  <2>2. Range(Picked(config.sources, {})) = {} /\ IsSequence(Picked(config.sources, {}))
    <3>1. {} \in SUBSET DOMAIN config.sources
      OBVIOUS
    <3>2. /\ IsSequence(Picked(config.sources, {}))
          /\ Range(Picked(config.sources, {})) = {config.sources[k] : k \in {}}
      BY <1>1, <3>1, PickedInOrder
    <3> QED
      BY <3>2
  <2>3. Picked(config.sources, {}) \in Seq({})
    BY <2>2 DEF IsSequence
  <2>4. Picked(config.sources, {}) = <<>>
    BY <2>3
  <2> QED
    BY <2>1, <2>4 DEF Finished, K
<1>3. <<>> = [i \in DOMAIN <<>> |-> ActiveOf(<<>>[i])]
  OBVIOUS
<1>4. active = [i \in DOMAIN Finished(done) |-> ActiveOf(Finished(done)[i])]
  BY <1>2, <1>3
<1>5. InHand /\ done \in 0 .. Len(config.sources) /\ \A n \in 1 .. done : Sound(config.sources[n])
  BY <1>1 DEF InHand
<1> QED
  BY <1>4, <1>5 DEF StartInv

(* What a step leaves of the invariant that changes nothing but the stage. *)
LEMMA OnlyStage ==
    ASSUME StartInv, UNCHANGED <<config, txs, done, active>>
    PROVE  /\ (config \in Configurations)' /\ (done \in 0 .. Len(config.sources))'
           /\ (\A n \in 1 .. done : Sound(config.sources[n]))'
           /\ (active = [i \in DOMAIN Finished(done) |-> ActiveOf(Finished(done)[i])])'
           /\ InHand'
<1> USE DEF StartInv
<1>1. (active = [i \in DOMAIN Finished(done) |-> ActiveOf(Finished(done)[i])])'
  BY DEF Finished
<1>2. InHand'
  BY DEF InHand, ProfileReads, Source, Profile
<1> QED
  BY <1>1, <1>2

LEMMA SpecializeTxKeeps == StartInv /\ SpecializeTx => InHand'
<1> SUFFICES ASSUME StartInv, SpecializeTx PROVE InHand'
  OBVIOUS
<1> DEFINE all == Source.tii.txs
           of(j) == SpecializedTx(all[j], Profile)
<1>1. /\ HasSource /\ ProfileReads /\ HasTx /\ Decodes(NextTx)
      /\ txs' = Append(txs, SpecializedTx(NextTx, Profile))
      /\ UNCHANGED <<config, stage, key, done, active>>
  BY DEF SpecializeTx
<1>2. done < Len(config.sources) /\ done + 1 \in 1 .. Len(config.sources)
  BY <1>1, OfConfiguration DEF HasSource, StartInv
<1>3. IsTii(Source.tii)
  BY <1>1, <1>2, OfConfiguration DEF StartInv, Source, ProfileReads
<1>4. Len(all) \in Nat
  BY <1>3 DEF IsTii, IsSequence
<1>5. \E n \in 0 .. Len(all) :
        txs = [j \in 1 .. n |-> of(j)] /\ \A j \in 1 .. n : Decodes(all[j])
  <2>1. CASE txs = <<>>
    <3>1. <<>> = [j \in 1 .. 0 |-> of(j)]
      OBVIOUS
    <3> QED
      BY <1>4, <2>1, <3>1
  <2>2. CASE txs # <<>>
    BY <1>4, <2>2 DEF StartInv, InHand
  <2> QED
    BY <2>1, <2>2
<1>6. PICK n \in 0 .. Len(all) :
        txs = [j \in 1 .. n |-> of(j)] /\ \A j \in 1 .. n : Decodes(all[j])
  BY <1>5
<1>7. Len(txs) = n
  <2> HIDE DEF of
  <2> DEFINE S == {of(j) : j \in 1 .. n}
  <2>1. txs \in [1 .. n -> S]
    BY <1>6
  <2> HIDE DEF S
  <2> QED
    BY <1>4, <1>6, <2>1
<1>8. n < Len(all) /\ NextTx = all[n + 1]
  BY <1>1, <1>7 DEF HasTx, NextTx
<1>9. n \in Nat /\ n + 1 \in 1 .. Len(all)
  BY <1>4, <1>8
<1>10. txs' = [j \in 1 .. (n + 1) |-> of(j)]
  <2> DEFINE f == [j \in 1 .. (n + 1) |-> of(j)]
  <2>1. txs' = Append(txs, of(n + 1))
    BY <1>1, <1>8
  <2>2. f[n + 1] = of(n + 1) /\ \A j \in 1 .. n : f[j] = of(j)
    BY <1>9
  <2>3. f = [j \in 1 .. (n + 1) |-> f[j]]
    OBVIOUS
  <2> HIDE DEF f, of
  <2>4. [j \in 1 .. n |-> f[j]] = txs
    BY <1>6, <2>2
  <2>5. Append([j \in 1 .. n |-> f[j]], f[n + 1]) = [j \in 1 .. (n + 1) |-> f[j]]
    BY <1>9, OneMoreMade
  <2>6. txs' = f
    BY <2>1, <2>2, <2>3, <2>4, <2>5
  <2> QED
    BY <2>6 DEF f
<1>11. \A j \in 1 .. (n + 1) : Decodes(all[j])
  <2>1. \A j \in 1 .. (n + 1) : j \in 1 .. n \/ j = n + 1
    BY <1>9
  <2> QED
    BY <1>1, <1>6, <1>8, <2>1
<1>12. Source' = Source /\ Profile' = Profile /\ (ProfileReads)'
  BY <1>1 DEF Source, Profile, ProfileReads
<1>13. /\ done' < Len(config'.sources)
       /\ \E m \in 1 .. Len(Source'.tii.txs) :
            /\ txs' = [j \in 1 .. m |-> SpecializedTx(Source'.tii.txs[j], Profile')]
            /\ \A j \in 1 .. m : Decodes(Source'.tii.txs[j])
  BY <1>1, <1>2, <1>9, <1>10, <1>11, <1>12
<1> QED
  BY <1>12, <1>13 DEF InHand

LEMMA FinishSourceKeeps ==
    ASSUME StartInv, FinishSource
    PROVE  /\ (done \in 0 .. Len(config.sources))'
           /\ (\A n \in 1 .. done : Sound(config.sources[n]))'
           /\ (active = [i \in DOMAIN Finished(done) |-> ActiveOf(Finished(done)[i])])'
<1> DEFINE all == Source.tii.txs
           s == config.sources
           K == {k \in 1 .. done : Anchored(s[k])}
           L == {k \in 1 .. (done + 1) : Anchored(s[k])}
<1>1. /\ HasSource /\ ProfileReads /\ ~HasTx /\ txs # <<>>
      /\ active' = IF NoAnchors(FromProfile(AnchorProfile(Profile))) THEN active
                   ELSE Append(active, [name |-> Source.name, profile |-> AnchorProfile(Profile),
                                        txs |-> txs])
      /\ done' = done + 1 /\ txs' = <<>> /\ UNCHANGED <<config, stage, key>>
  BY DEF FinishSource
<1>2. /\ done < Len(s) /\ done + 1 \in DOMAIN s /\ IsSequence(s) /\ Len(s) \in Nat /\ done \in Nat
      /\ DOMAIN s = 1 .. Len(s)
  BY <1>1, OfConfiguration DEF HasSource, StartInv
<1>3. IsTii(Source.tii) /\ Source = s[done + 1] /\ Profile = ProfileOf(Source)
  BY <1>1, <1>2, OfConfiguration DEF StartInv, Source, ProfileReads, Profile, ProfileOf
<1>4. Len(all) \in Nat /\ DOMAIN all = 1 .. Len(all)
  BY <1>3 DEF IsTii, IsSequence
<1>5. PICK n \in 1 .. Len(all) :
        /\ txs = [j \in 1 .. n |-> SpecializedTx(all[j], Profile)]
        /\ \A j \in 1 .. n : Decodes(all[j])
  BY <1>1 DEF StartInv, InHand
<1>6. n = Len(all)
  <2> DEFINE S == {txs[j] : j \in 1 .. n}
  <2>1. txs \in [1 .. n -> S]
    BY <1>5
  <2> HIDE DEF S
  <2>2. Len(txs) = n
    BY <1>4, <1>5, <2>1
  <2> QED
    BY <1>1, <1>4, <1>5, <2>2 DEF HasTx
<1>7. Sound(Source)
  <2>1. all # <<>>
    BY <1>4, <1>5
  <2>2. \A tx \in ToSet(all) : Decodes(tx)
    BY <1>4, <1>5, <1>6 DEF ToSet
  <2>3. \A party \in ToSet(ProfileOf(Source).parties) : party.addr # Undecodable
    BY <1>1 DEF ProfileReads, ProfileOf, ToSet
  <2> QED
    BY <1>1, <2>1, <2>2, <2>3 DEF Sound, ProfileReads
<1>8. [name |-> Source.name, profile |-> AnchorProfile(Profile), txs |-> txs] = ActiveOf(Source)
  BY <1>3, <1>4, <1>5, <1>6 DEF ActiveOf, TxsOf
<1>9. NoAnchors(FromProfile(AnchorProfile(Profile))) <=> ~Anchored(Source)
  <2>1. IsProfile(ProfileOf(Source))
    BY <1>1, <1>3 DEF ProfileReads, ProfileOf, IsTii
  <2> QED
    BY <1>3, <2>1, AnchorsOfSource
<1>10. active = [i \in DOMAIN Picked(s, K) |-> ActiveOf(Picked(s, K)[i])]
  BY DEF StartInv, Finished
<1>11. \A k \in 1 .. (done + 1) : k \in 1 .. done \/ k = done + 1
  BY <1>2
<1>12. active' = [i \in DOMAIN Picked(s, L) |-> ActiveOf(Picked(s, L)[i])]
  <2>1. CASE Anchored(Source)
    <3>1. L = K \cup {done + 1}
      BY <1>2, <1>3, <1>11, <2>1
    <3>2. K \in SUBSET (1 .. ((done + 1) - 1)) /\ K \in SUBSET DOMAIN s
      BY <1>2
    <3> HIDE DEF K, L, s
    <3>3. Picked(s, L) = Append(Picked(s, K), s[done + 1])
      BY <1>2, <3>1, <3>2, OneMorePicked
    <3>4. IsSequence(Picked(s, K))
      BY <1>2, <3>2, PickedInOrder
    <3>5. active' = Append(active, ActiveOf(s[done + 1]))
      BY <1>1, <1>3, <1>8, <1>9, <2>1
    <3> QED
      BY <1>10, <3>3, <3>4, <3>5, OneMoreActive
  <2>2. CASE ~Anchored(Source)
    <3>1. L = K
      BY <1>2, <1>3, <1>11, <2>2
    <3>2. active' = active
      BY <1>1, <1>9, <2>2
    <3> HIDE DEF K, L, s
    <3> QED
      BY <1>10, <3>1, <3>2
  <2> QED
    BY <2>1, <2>2
<1>13. (active = [i \in DOMAIN Finished(done) |-> ActiveOf(Finished(done)[i])])'
  <2>1. Finished(done)' = Picked(s, L)
    BY <1>1 DEF Finished
  <2> HIDE DEF s, L
  <2> QED
    BY <1>12, <2>1
<1>14. (done \in 0 .. Len(config.sources))'
  BY <1>1, <1>2
<1>15. (\A m \in 1 .. done : Sound(config.sources[m]))'
  <2>1. \A m \in 1 .. (done + 1) : Sound(s[m])
    BY <1>3, <1>7, <1>11 DEF StartInv
  <2> QED
    BY <1>1, <2>1
<1> QED
  BY <1>13, <1>14, <1>15

LEMMA StartNext == StartInv /\ [Next]_vars => StartInv'
<1> SUFFICES ASSUME StartInv, [Next]_vars PROVE StartInv'
  OBVIOUS
<1>1. ASSUME UNCHANGED <<config, txs, done, active>>, stage' = "failed" PROVE StartInv'
  BY <1>1, OnlyStage DEF StartInv
<1>2. CASE Load
  <2>1. UNCHANGED <<config, txs, done, active>> /\ stage' = "open"
        /\ key' = ApiKey(config.toml_key, config.env_key)
    BY <1>2 DEF Load
  <2> QED
    BY <2>1, OnlyStage DEF StartInv
<1>3. CASE LoadFails \/ OpenFails \/ SourceFails \/ FilterFails
  BY <1>1, <1>3 DEF LoadFails, OpenFails, SourceFails, FilterFails, Fail
<1>4. CASE OpenStore
  <2>1. UNCHANGED <<config, key, txs, done, active>> /\ stage = "open" /\ stage' = "specialize"
    BY <1>4 DEF OpenStore
  <2> QED
    BY <2>1, OnlyStage DEF StartInv
<1>5. CASE SpecializeTx
  <2>1. UNCHANGED <<config, stage, key, done, active>>
    BY <1>5 DEF SpecializeTx
  <2>2. InHand'
    BY <1>5, SpecializeTxKeeps
  <2>3. (active = [i \in DOMAIN Finished(done) |-> ActiveOf(Finished(done)[i])])'
    BY <2>1 DEF StartInv, Finished
  <2> QED
    BY <2>1, <2>2, <2>3 DEF StartInv
<1>6. CASE FinishSource
  <2>1. UNCHANGED <<config, stage, key>> /\ stage = "specialize" /\ txs' = <<>>
    BY <1>6 DEF FinishSource, HasSource
  <2>2. InHand'
    BY <2>1 DEF InHand
  <2> QED
    BY <1>6, <2>1, <2>2, FinishSourceKeeps DEF StartInv
<1>7. CASE SourcesDone
  <2>1. /\ UNCHANGED <<config, key, txs, done, active>>
        /\ stage = "specialize" /\ stage' = "filter" /\ done = Len(config.sources)
    BY <1>7 DEF SourcesDone
  <2> QED
    BY <2>1, OnlyStage DEF StartInv
<1>8. CASE CompileFilter
  <2>1. /\ UNCHANGED <<config, key, txs, done, active>>
        /\ stage = "filter" /\ stage' = "running" /\ Undecodable \notin config.filter
    BY <1>8 DEF CompileFilter
  <2> QED
    BY <2>1, OnlyStage DEF StartInv
<1>9. CASE Over \/ UNCHANGED vars
  <2>1. UNCHANGED <<config, stage, key, txs, done, active>>
    BY <1>9 DEF Over, vars
  <2> QED
    BY <2>1, OnlyStage DEF StartInv
<1> QED
  BY <1>2, <1>3, <1>4, <1>5, <1>6, <1>7, <1>8, <1>9 DEF Next

(* What the first sources give is how all of them begin. *)
LEMMA FinishedBegins ==
    ASSUME config \in Configurations, NEW n \in 0 .. Len(config.sources)
    PROVE  \A i \in DOMAIN Finished(n) :
               i \in DOMAIN Finished(Len(config.sources))
               /\ Finished(Len(config.sources))[i] = Finished(n)[i]
<1> DEFINE s == config.sources
           N == Len(s)
           D == n .. N
           Begins(m) == \A i \in DOMAIN Finished(n) :
                          i \in DOMAIN Finished(m) /\ Finished(m)[i] = Finished(n)[i]
           P == {m \in D : Begins(m)}
<1>1. IsSequence(s) /\ DOMAIN s = 1 .. N /\ N \in Nat
  BY OfConfiguration
<1>2. D \in SUBSET ((-N) .. N)
  BY <1>1
<1>3. ASSUME NEW m \in D, \A p \in D : p < m => p \in P PROVE m \in P
  <2>1. CASE m = n
    BY <2>1
  <2>2. CASE m # n
    <3>1. m - 1 \in D /\ m - 1 < m /\ m \in 1 .. N /\ (m - 1) + 1 = m
      BY <1>1, <2>2
    <3>2. Begins(m - 1)
      BY <1>3, <3>1
    <3> DEFINE K == {k \in 1 .. (m - 1) : Anchored(s[k])}
               L == {k \in 1 .. m : Anchored(s[k])}
    <3>3. Finished(m - 1) = Picked(s, K) /\ Finished(m) = Picked(s, L)
      BY DEF Finished
    <3>4. K \in SUBSET (1 .. (m - 1)) /\ K \in SUBSET DOMAIN s
      BY <1>1, <3>1
    <3>5. L = K \/ L = K \cup {m}
      <4>1. \A k \in 1 .. m : k \in 1 .. (m - 1) \/ k = m
        BY <3>1
      <4>2. \A k \in 1 .. (m - 1) : k \in 1 .. m
        BY <3>1
      <4>3. m \in 1 .. m
        BY <3>1
      <4> QED
        BY <4>1, <4>2, <4>3
    <3> HIDE DEF K, L, s, N
    <3>6. CASE L = K
      BY <3>2, <3>3, <3>6
    <3>7. CASE L = K \cup {m}
      <4>1. Picked(s, L) = Append(Picked(s, K), s[m])
        BY <1>1, <3>1, <3>4, <3>7, OneMorePicked
      <4>2. IsSequence(Picked(s, K))
        BY <1>1, <3>4, PickedInOrder
      <4> DEFINE r == Picked(s, K)
      <4>3. r \in Seq(Range(r) \cup {s[m]})
        BY <4>2 DEF IsSequence
      <4> HIDE DEF r
      <4>4. \A i \in DOMAIN r : i \in DOMAIN Append(r, s[m]) /\ Append(r, s[m])[i] = r[i]
        BY <4>3
      <4>5. \A i \in DOMAIN r : i \in DOMAIN Picked(s, L) /\ Picked(s, L)[i] = r[i]
        BY <4>1, <4>4 DEF r
      <4> QED
        BY <3>2, <3>3, <4>5 DEF r
    <3> QED
      BY <3>5, <3>6, <3>7
  <2> QED
    BY <2>1, <2>2
<1>4. D \subseteq P
  <2> HIDE DEF P, D, N
  <2> QED
    BY <1>1, <1>2, <1>3, InductionOverPlaces DEF Within
<1>5. N \in D
  BY <1>1
<1>6. N \in P
  BY <1>4, <1>5
<1> QED
  BY <1>6

LEMMA ExpectedIsFinished ==
    ASSUME config \in Configurations
    PROVE  Expected = Finished(Len(config.sources))
BY OfConfiguration DEF Expected, Finished

(* Every cached template is one that was specialized from a TII. *)
LEMMA CachedIsCast == StartInv => \A x \in Cached : Cast(x)
<1> SUFFICES ASSUME StartInv, NEW x \in Cached PROVE Cast(x)
  OBVIOUS
<1> DEFINE F == Finished(done)
           K == {k \in 1 .. done : Anchored(config.sources[k])}
<1>1. config \in Configurations /\ done \in 0 .. Len(config.sources)
      /\ active = [i \in DOMAIN F |-> ActiveOf(F[i])]
      /\ \A n \in 1 .. done : Sound(config.sources[n])
  BY DEF StartInv
<1>2. /\ IsSequence(config.sources) /\ Len(config.sources) \in Nat
      /\ DOMAIN config.sources = 1 .. Len(config.sources)
      /\ \A n \in 1 .. Len(config.sources) :
           config.sources[n].tii # Unreadable => IsTii(config.sources[n].tii)
  BY <1>1, OfConfiguration
<1>3. PICK i \in DOMAIN active :
        x \in {[template |-> active[i].txs[j].template, tir |-> Expected[i].tii.txs[j].tir,
                profile |-> ProfileOf(Expected[i])] : j \in DOMAIN active[i].txs}
  BY DEF Cached
<1>4. PICK j \in DOMAIN active[i].txs :
        x = [template |-> active[i].txs[j].template, tir |-> Expected[i].tii.txs[j].tir,
             profile |-> ProfileOf(Expected[i])]
  BY <1>3
<1> DEFINE source == F[i]
<1>5. i \in DOMAIN F /\ active[i] = ActiveOf(source)
  BY <1>1, <1>3
<1>6. Expected[i] = source
  <2> HIDE DEF F
  <2>1. Finished(Len(config.sources))[i] = Finished(done)[i]
    BY <1>1, <1>5, FinishedBegins DEF F
  <2> QED
    BY <1>1, <2>1, ExpectedIsFinished DEF F
<1>7. \E k \in 1 .. done : source = config.sources[k]
  <2>1. K \in SUBSET DOMAIN config.sources
    BY <1>1, <1>2
  <2>2. F = Picked(config.sources, K)
    BY DEF Finished
  <2> HIDE DEF F
  <2>3. source \in Range(F)
    BY <1>5 DEF Range
  <2>4. Range(F) = {config.sources[k] : k \in K}
    <3> HIDE DEF K
    <3> QED
      BY <1>2, <2>1, <2>2, PickedInOrder
  <2> QED
    BY <2>3, <2>4
<1>8. PICK k \in 1 .. done : source = config.sources[k]
  BY <1>7
<1>9. Sound(source) /\ IsTii(source.tii)
  <2>1. k \in 1 .. Len(config.sources)
    BY <1>1, <1>2
  <2>2. Sound(source)
    BY <1>1, <1>8
  <2> QED
    BY <1>2, <1>8, <2>1, <2>2 DEF Sound
<1> HIDE DEF source, F
<1>10. IsProfile(ProfileOf(source))
  BY <1>9 DEF Sound, IsTii, ProfileOf
<1>11. active[i].txs = TxsOf(source)
  BY <1>5 DEF ActiveOf
<1>12. j \in DOMAIN source.tii.txs /\ active[i].txs[j] = SpecializedTx(source.tii.txs[j], ProfileOf(source))
  BY <1>4, <1>11 DEF TxsOf
<1>13. IsTir(source.tii.txs[j].tir)
  BY <1>9, <1>12 DEF IsTii, Range
<1>14. active[i].txs[j].template
         = TemplateOf(source.tii.txs[j].tir,
                      Specialized(source.tii.txs[j].tir, ProfileOf(source), <<>>))
  BY <1>12 DEF SpecializedTx
<1>15. /\ x.template = active[i].txs[j].template
       /\ x.tir = source.tii.txs[j].tir
       /\ x.profile = ProfileOf(source)
  BY <1>4, <1>6
<1> QED
  BY <1>10, <1>13, <1>14, <1>15 DEF Cast

LEMMA RunsExactly == StartInv => StartIsExact
<1> SUFFICES ASSUME StartInv, stage = "running"
             PROVE  /\ \A source \in ToSet(config.sources) : Sound(source)
                    /\ Len(active) = Len(Expected)
                    /\ \A i \in DOMAIN active :
                         /\ active[i].name = Expected[i].name
                         /\ DOMAIN active[i].txs = DOMAIN Expected[i].tii.txs
                         /\ \A j \in DOMAIN active[i].txs :
                              active[i].txs[j].name = Expected[i].tii.txs[j].name
                    /\ Undecodable \notin config.filter
                    /\ key # Empty
                    /\ key = None => {config.toml_key, config.env_key} \subseteq {None, Empty}
  BY DEF StartIsExact, Sound
<1>1. /\ config \in Configurations /\ done = Len(config.sources)
      /\ active = [i \in DOMAIN Finished(done) |-> ActiveOf(Finished(done)[i])]
      /\ \A n \in 1 .. done : Sound(config.sources[n])
      /\ Undecodable \notin config.filter /\ key = ApiKey(config.toml_key, config.env_key)
  BY DEF StartInv
<1>2. /\ IsSequence(config.sources) /\ Len(config.sources) \in Nat
      /\ DOMAIN config.sources = 1 .. Len(config.sources)
  BY <1>1, OfConfiguration
<1>3. \A source \in ToSet(config.sources) : Sound(source)
  BY <1>1, <1>2 DEF ToSet
<1>4. Expected = Finished(done)
  BY <1>1, ExpectedIsFinished
<1>5. IsSequence(Expected)
  <2> DEFINE K == {k \in DOMAIN config.sources : Anchored(config.sources[k])}
  <2>1. K \in SUBSET DOMAIN config.sources /\ Expected = Picked(config.sources, K)
    BY DEF Expected
  <2> HIDE DEF K
  <2> QED
    BY <1>2, <2>1, PickedInOrder
<1>6. active = [i \in DOMAIN Expected |-> ActiveOf(Expected[i])]
  BY <1>1, <1>4
<1>7. Len(active) = Len(Expected)
  <2> DEFINE S == {ActiveOf(Expected[i]) : i \in DOMAIN Expected}
             N == Len(Expected)
  <2>1. DOMAIN Expected = 1 .. N /\ N \in Nat
    BY <1>5 DEF IsSequence
  <2>2. active \in [1 .. N -> S]
    BY <1>6, <2>1
  <2> HIDE DEF S, N
  <2>3. Len(active) = N
    BY <2>1, <2>2
  <2> QED
    BY <2>3 DEF N
<1>8. ASSUME NEW i \in DOMAIN active
      PROVE  /\ active[i].name = Expected[i].name
             /\ DOMAIN active[i].txs = DOMAIN Expected[i].tii.txs
             /\ \A j \in DOMAIN active[i].txs :
                  active[i].txs[j].name = Expected[i].tii.txs[j].name
  <2>1. active[i] = ActiveOf(Expected[i])
    BY <1>6
  <2>2. active[i].name = Expected[i].name /\ active[i].txs = TxsOf(Expected[i])
    BY <2>1 DEF ActiveOf
  <2> DEFINE e == Expected[i]
  <2>3. DOMAIN TxsOf(e) = DOMAIN e.tii.txs
    BY DEF TxsOf
  <2>4. \A j \in DOMAIN e.tii.txs : TxsOf(e)[j] = SpecializedTx(e.tii.txs[j], ProfileOf(e))
    BY DEF TxsOf
  <2>5. \A tx, profile : SpecializedTx(tx, profile).name = tx.name
    BY DEF SpecializedTx
  <2> HIDE DEF e
  <2>6. \A j \in DOMAIN TxsOf(e) : TxsOf(e)[j].name = e.tii.txs[j].name
    BY <2>3, <2>4, <2>5
  <2> QED
    BY <2>2, <2>3, <2>6 DEF e
<1>9. key # Empty /\ (key = None => {config.toml_key, config.env_key} \subseteq {None, Empty})
  BY <1>1, EmptyAssumption DEF ApiKey
<1> QED
  BY <1>1, <1>3, <1>7, <1>8, <1>9

-----------------------------------------------------------------------------
(* The theorems *)

(* Before and between the sources, what is active is what the finished      *)
(* sources give, in their order, and what is in hand belongs to the next.   *)
THEOREM StartInvHolds == Spec => []StartInv
<1>1. Init => StartInv
  BY StartInit
<1>2. StartInv /\ [Next]_vars => StartInv'
  BY StartNext
<1> QED
  BY <1>1, <1>2, PTL DEF Spec

(* A tracker that runs has every source that can match, with each of its    *)
(* transactions, in the order of the configuration, from sources of which   *)
(* none is wrong, and the API key if one is given anywhere (main.rs run,    *)
(* specialization.rs specialize_all, config.rs resolve_api_key).            *)
THEOREM StartIsExactHolds == Spec => []StartIsExact
<1>1. StartInv => StartIsExact
  BY RunsExactly
<1> QED
  BY <1>1, StartInvHolds, PTL

(* Whatever arguments a transaction was invoked with, of a name that the    *)
(* profile does not give, the fingerprint extracted without them asks for   *)
(* no more than the one extracted with them (fingerprint.rs extract).       *)
THEOREM PartialIsWeakerHolds == Spec => []PartialIsWeaker
<1>1. StartInv => PartialIsWeaker
  <2> SUFFICES ASSUME StartInv, NEW x \in Cached, NEW extra \in Completions,
                      DOMAIN extra \cap DOMAIN ArgsFromProfile(x.profile, <<>>) = {}
               PROVE  Weaker(Extract(x.template),
                             Extract(TemplateOf(x.tir, Specialized(x.tir, x.profile, extra))))
    BY DEF PartialIsWeaker
  <2>1. Cast(x)
    BY CachedIsCast
  <2> QED
    BY <2>1, CastIsWeaker
<1> QED
  BY <1>1, StartInvHolds, PTL

(* A party that a template names is asked for by its fingerprint, and every *)
(* address a fingerprint asks for is an anchor of the source or spelled out *)
(* by the template (specialize.rs args_from_profile, anchors.rs).           *)
THEOREM PartiesAreAskedHolds == Spec => []PartiesAreAsked
<1>1. StartInv => PartiesAreAsked
  <2> SUFFICES ASSUME StartInv, NEW x \in Cached
               PROVE  LET fp == Extract(x.template)
                          anchors == FromProfile(AnchorProfile(x.profile))
                          t == x.tir.nodes
                          names(e, party) == t[e].form = "param" /\ t[e].value = party.name
                      IN  /\ \A party \in ToSet(x.profile.parties) :
                               /\ (\E e \in ToSet(x.tir.inputs) :
                                      t[e].form = "input" /\ names(t[e].parts[1], party))
                                    => party.addr \in fp.input_addresses
                               /\ (\E o \in ToSet(x.tir.outputs) : names(o.address, party))
                                    => party.addr \in fp.output_addresses
                          /\ fp.input_addresses \cup fp.output_addresses
                               \subseteq anchors.addresses \cup LiteralsOf(x.tir, "address")
    BY DEF PartiesAreAsked
  <2>1. Cast(x)
    BY CachedIsCast
  <2> DEFINE fp == Extract(x.template)
             t == x.tir.nodes
             names(e, party) == t[e].form = "param" /\ t[e].value = party.name
             Asked(party) ==
               /\ (\E e \in ToSet(x.tir.inputs) :
                      t[e].form = "input" /\ names(t[e].parts[1], party))
                    => party.addr \in fp.input_addresses
               /\ (\E o \in ToSet(x.tir.outputs) : names(o.address, party))
                    => party.addr \in fp.output_addresses
  <2>2. \A n \in DOMAIN x.profile.parties : Asked(x.profile.parties[n])
    BY <2>1, CastAsksParties
  <2>3. \A party \in ToSet(x.profile.parties) : Asked(party)
    <3> HIDE DEF Asked
    <3> QED
      BY <2>2 DEF ToSet
  <2>4. fp.input_addresses \cup fp.output_addresses
          \subseteq FromProfile(AnchorProfile(x.profile)).addresses \cup LiteralsOf(x.tir, "address")
    BY <2>1, CastAsksAnchors
  <2> QED
    BY <2>3, <2>4
<1> QED
  BY <1>1, StartInvHolds, PTL

(* The policies that a fingerprint requires are bytes of the template or    *)
(* written behind 0x, those that are anchors are written in plain hex       *)
(* (specialize.rs json_to_arg_value, anchors.rs parse_policy).              *)
THEOREM PolicyEitherWayHolds == Spec => []PolicyEitherWay
<1>1. StartInv => PolicyEitherWay
  BY CachedIsCast, CastAsksPolicies DEF PolicyEitherWay
<1> QED
  BY <1>1, StartInvHolds, PTL

(* Every expression of a cached transaction, of any depth, is classified by *)
(* the worst of its leaves, and what a const_ accessor returns a value for  *)
(* is constant (expr.rs).                                                   *)
THEOREM ExpressionsClassifiedHolds == Spec => []ExpressionsClassified
<1>1. StartInv => ExpressionsClassified
  BY CachedIsCast, CastIsClassified DEF ExpressionsClassified
<1> QED
  BY <1>1, StartInvHolds, PTL
=============================================================================
