-------------------------- MODULE SelectionProofs --------------------------
(***************************************************************************)
(* The selection, for any candidates: scores are numbers, the map from     *)
(* source names keeps the winner of each source, the sorted winners are    *)
(* ranked densely, and the rows are what the filter keeps of them.         *)
(***************************************************************************)
EXTENDS MatchingProofs

(* The parts of a template are finite, and so is what it requires.          *)
LEMMA RequiredIsFinite ==
    ASSUME NEW t, IsTemplate(t)
    PROVE  \A field \in Required : IsFiniteSet(Extract(t)[field])
<1> DEFINE fp == Extract(t)
<1>1. /\ IsFiniteSet(Range(t.inputs)) /\ IsFiniteSet(Range(t.outputs))
      /\ IsFiniteSet(Range(t.mints)) /\ IsFiniteSet(Range(t.burns))
      /\ IsFiniteSet(Range(t.references))
  <2> SUFFICES ASSUME NEW part \in Parts PROVE IsFiniteSet(Range(t[part]))
    BY DEF Parts
  <2> QED
    BY RangeIsFinite DEF IsTemplate
<1>2. \A s : ToSet(s) = Range(s)
  BY DEF ToSet, Range
<1>3. IsFiniteSet(Queries(t))
  <2>1. Queries(t) \in SUBSET Range(t.inputs)
    BY <1>2 DEF Queries
  <2> QED
    BY <1>1, <2>1, FS_Subset
<1>4. IsFiniteSet(fp.input_addresses)
  <2> DEFINE f == [q \in Queries(t) |-> q.addr]
  <2>1. IsFiniteSet(Range(f))
    BY <1>3, ImageIsFinite
  <2>2. fp.input_addresses \in SUBSET Range(f)
    BY DEF Extract, Range
  <2> QED
    BY <2>1, <2>2, FS_Subset
<1>5. IsFiniteSet(fp.output_addresses)
  <2> DEFINE f == [o \in Range(t.outputs) |-> o.addr]
  <2>1. IsFiniteSet(Range(f))
    BY <1>1, ImageIsFinite
  <2>2. fp.output_addresses \in SUBSET Range(f)
    BY <1>2 DEF Extract, Range
  <2> QED
    BY <2>1, <2>2, FS_Subset
<1>6. IsFiniteSet(fp.input_refs)
  <2> DEFINE f == [i \in Range(t.inputs) |-> Range(i.refs)]
  <2>1. IsFiniteSet(Range(f))
    BY <1>1, ImageIsFinite
  <2>2. \A R \in Range(f) : IsFiniteSet(R)
    <3> SUFFICES ASSUME NEW i \in Range(t.inputs) PROVE IsFiniteSet(Range(i.refs))
      BY DEF Range
    <3>1. IsSequence(i.refs)
      BY DEF IsTemplate
    <3> QED
      BY <3>1, RangeIsFinite
  <2> HIDE DEF f
  <2>3. IsFiniteSet(UNION Range(f))
    BY <2>1, <2>2, FS_UNION
  <2>4. fp.input_refs \in SUBSET UNION Range(f)
    <3>1. \A i \in Range(t.inputs) : Range(i.refs) \in Range(f)
      BY DEF f, Range
    <3> QED
      BY <1>2, <3>1 DEF Extract
  <2> QED
    BY <2>3, <2>4, FS_Subset
<1>7. IsFiniteSet(fp.reference_refs)
  <2> DEFINE constant == Range(t.references) \ {None}
             f == [r \in constant |-> Range(r)]
  <2>0. IsFiniteSet(constant)
    BY <1>1, FS_Subset
  <2>1. IsFiniteSet(Range(f))
    BY <2>0, ImageIsFinite
  <2>2. \A R \in Range(f) : IsFiniteSet(R)
    <3> SUFFICES ASSUME NEW r \in Range(t.references) \ {None} PROVE IsFiniteSet(Range(r))
      BY DEF Range
    <3>1. IsSequence(r)
      BY DEF IsTemplate
    <3> QED
      BY <3>1, RangeIsFinite
  <2> HIDE DEF f
  <2>3. IsFiniteSet(UNION Range(f))
    BY <2>1, <2>2, FS_UNION
  <2>4. fp.reference_refs \in SUBSET UNION Range(f)
    <3>1. \A r \in Range(t.references) \ {None} : Range(r) \in Range(f)
      BY DEF f, Range
    <3> QED
      BY <1>2, <3>1 DEF Extract
  <2> QED
    BY <2>3, <2>4, FS_Subset
<1>8. IsFiniteSet(fp.mint_policies) /\ IsFiniteSet(fp.burn_policies)
  <2>1. IsFiniteSet(UNION Range(t.mints)) /\ IsFiniteSet(UNION Range(t.burns))
    BY <1>1, FS_UNION DEF IsTemplate
  <2> QED
    BY <1>2, <2>1 DEF Extract
<1>9. IsFiniteSet(fp.value_policies)
  <2> DEFINE S == Queries(t) \cup Range(t.outputs)
             f == [x \in S |-> x.policies]
  <2>1. IsFiniteSet(S)
    BY <1>1, <1>3, FS_Union
  <2>2. IsFiniteSet(Range(f))
    <3> HIDE DEF S
    <3> QED
      BY <2>1, ImageIsFinite
  <2>3. \A x \in S : IsFiniteSet(x.policies)
    BY <1>2 DEF Queries, IsTemplate
  <2>4. \A R \in Range(f) : IsFiniteSet(R)
    <3> HIDE DEF S
    <3> QED
      BY <2>3 DEF Range
  <2>5. fp.value_policies = UNION Range(f)
    BY <1>2 DEF Extract, Range
  <2> HIDE DEF f
  <2>6. IsFiniteSet(UNION Range(f))
    BY <2>2, <2>4, FS_UNION
  <2> QED
    BY <2>5, <2>6
<1>10. IsFiniteSet(fp.signers) /\ IsFiniteSet(fp.labels)
  BY DEF Extract, IsTemplate
<1> HIDE DEF fp
<1>11. \A field \in Required : IsFiniteSet(fp[field])
  BY <1>4, <1>5, <1>6, <1>7, <1>8, <1>9, <1>10 DEF Required
<1> QED
  BY <1>11 DEF fp

(* The score of what a template requires is a sum over nine sets.           *)
LEMMA InformationIsNatural ==
    ASSUME NEW fp, \A field \in Required : IsFiniteSet(fp[field])
    PROVE  InformationScore(fp) \in Nat
<1> DEFINE size == [field \in Required |-> Cardinality(fp[field])]
<1>1. IsFiniteSet(Required)
  <2> DEFINE f == <<"input_addresses", "output_addresses", "input_refs", "reference_refs",
                    "mint_policies", "burn_policies", "value_policies", "signers", "labels">>
  <2>1. DOMAIN f = 1 .. 9
    OBVIOUS
  <2>2. Range(f) = Required
    <3>1. Required \subseteq Range(f)
      BY <2>1 DEF Required, Range
    <3>2. Range(f) \subseteq Required
      BY <2>1 DEF Required, Range
    <3> QED
      BY <3>1, <3>2
  <2>3. IsFiniteSet(DOMAIN f)
    BY <2>1, CountTo
  <2> HIDE DEF f
  <2> QED
    BY <2>2, <2>3, ImageIsFinite
<1>2. size \in [Required -> Nat]
  BY FS_CardinalityType
<1>3. InformationScore(fp) = SumFunction(size)
  BY DEF InformationScore
<1> HIDE DEF size
<1> QED
  BY <1>1, <1>2, <1>3, SumIsNatural

LEMMA PresentIsFinite ==
    ASSUME NEW profile, NEW s, IsSequence(profile.parties), IsFiniteSet(profile.environment)
    PROVE  IsFiniteSet(Present(FromProfile(profile), s))
<1> DEFINE f == [v \in profile.environment |-> v.value]
           S == Range(profile.parties) \cup Range(f)
<1>1. IsFiniteSet(Range(profile.parties))
  BY RangeIsFinite
<1>2. IsFiniteSet(Range(f))
  BY ImageIsFinite
<1>3. IsFiniteSet(S)
  <2> HIDE DEF f
  <2> QED
    BY <1>1, <1>2, FS_Union
<1>4. Present(FromProfile(profile), s) \in SUBSET S
  BY DEF Present, Gating, FromProfile, Shaped, ToSet, Range
<1> QED
  BY <1>3, <1>4, FS_Subset

LEMMA ScoreIsNatural ==
    ASSUME Configured, NEW i \in DOMAIN sources, NEW j \in DOMAIN sources[i].txs
    PROVE  Score(i, j) \in Nat
<1>1. IsSource(sources[i])
  BY DEF Configured, Range
<1>2. IsTemplate(TemplateOf(i, j))
  BY <1>1 DEF IsSource, TemplateOf, Range
<1>3. InformationScore(Extract(TemplateOf(i, j))) \in Nat
  BY <1>2, RequiredIsFinite, InformationIsNatural
<1>4. Cardinality(Present(AnchorsOf(i), Summary(payload))) \in Nat
  BY <1>1, PresentIsFinite, FS_CardinalityType DEF IsSource, AnchorsOf
<1> QED
  BY <1>3, <1>4 DEF Score
-----------------------------------------------------------------------------
(* The best candidate of each source *)

(* The candidates that the selection compares. *)
Comparable ==
    /\ IsSequence(candidates)
    /\ \A c \in Range(candidates) : c.score \in Nat /\ c.tx \in Nat /\ c.source \in Nat

LEMMA CandidatesCompare == SearchInv => Comparable
<1> SUFFICES ASSUME SearchInv, NEW c \in Range(candidates)
             PROVE  c.score \in Nat /\ c.tx \in Nat /\ c.source \in Nat
  BY DEF Comparable, SearchInv
<1>1. PICK i \in DOMAIN sources :
        \E j \in DOMAIN sources[i].txs : Matches(i, j) /\ c = CandidateOf(i, j)
  BY DEF SearchInv, Descended
<1>2. PICK j \in DOMAIN sources[i].txs : c = CandidateOf(i, j)
  BY <1>1
<1>3. IsSource(sources[i])
  BY DEF SearchInv, Configured, Range
<1>4. sources[i].name \in Nat /\ sources[i].txs[j].name \in Nat
  BY <1>3 DEF IsSource, Range
<1>5. Score(i, j) \in Nat
  BY ScoreIsNatural DEF SearchInv
<1> QED
  BY <1>2, <1>4, <1>5 DEF CandidateOf

LEMMA BestTrace ==
    ASSUME Comparable
    PROVE  \E g : /\ g[0] = <<>>
                  /\ \A n \in 1 .. Len(candidates) : g[n] = Insert(g[n - 1], candidates[n])
                  /\ BestPerSource = g[Len(candidates)]
<1> DEFINE N == Len(candidates)
           C == Range(candidates)
           D == UNION {[A -> C] : A \in SUBSET Nat}
           step == [x \in (1 .. N) \X D |-> Insert(x[2], candidates[x[1]])]
<1>1. N \in Nat /\ DOMAIN candidates = 1 .. N
  BY DEF Comparable, IsSequence
<1>2. <<>> \in D
  <2>1. <<>> \in [{} -> C]
    OBVIOUS
  <2> QED
    BY <2>1
<1>3. step \in [(1 .. N) \X D -> D]
  <2>1. ASSUME NEW n \in 1 .. N, NEW best \in D
        PROVE  Insert(best, candidates[n]) \in D
    <3>1. PICK A \in SUBSET Nat : best \in [A -> C]
      OBVIOUS
    <3>2. candidates[n] \in C /\ candidates[n].source \in Nat
      BY <1>1 DEF Comparable, Range
    <3> DEFINE B == DOMAIN best \cup {candidates[n].source}
    <3>3. Insert(best, candidates[n]) \in [A -> C] \cup [B -> C]
      BY <3>1, <3>2 DEF Insert
    <3>4. B \in SUBSET Nat
      BY <3>1, <3>2
    <3> HIDE DEF B, C
    <3> QED
      BY <3>3, <3>4
  <2> HIDE DEF D
  <2> QED
    BY <2>1
<1>4. PICK it \in [SUBSET (1 .. N) -> D] : Folds(it, N, <<>>, step)
  <2> HIDE DEF step, D, N
  <2> QED
    BY <1>1, <1>2, <1>3, FoldTrace
<1> DEFINE Unfolds(f) ==
        f = [S \in SUBSET (DOMAIN candidates) |->
                IF S = {} THEN <<>> ELSE Insert(f[S \ {Max(S)}], candidates[Max(S)])]
           iter == CHOOSE f : Unfolds(f)
<1>5. Unfolds(it)
  <2>1. ASSUME NEW S \in SUBSET (1 .. N), S # {}
        PROVE  it[S] = Insert(it[S \ {Max(S)}], candidates[Max(S)])
    <3> HIDE DEF D
    <3>1. Max(S) \in 1 .. N
      BY <1>1, <2>1, MaxInInterval
    <3>2. it[S \ {Max(S)}] \in D
      BY <1>4
    <3>3. it[S] = step[<<Max(S), it[S \ {Max(S)}]>>]
      BY <1>4, <2>1 DEF Folds
    <3> QED
      BY <3>1, <3>2, <3>3
  <2>2. it[{}] = <<>>
    BY <1>4 DEF Folds
  <2>3. it = [S \in SUBSET (1 .. N) |-> it[S]]
    BY <1>4
  <2> HIDE DEF D, step
  <2> QED
    BY <1>1, <2>1, <2>2, <2>3
<1>6. Unfolds(iter)
  BY <1>5
<1>7. BestPerSource = iter[DOMAIN candidates]
  BY DEF BestPerSource, FoldLeft, MapThenFoldSet
<1> DEFINE g == [n \in 0 .. N |-> iter[1 .. n]]
<1> HIDE DEF iter, D, step
<1>8. g[0] = <<>>
  BY <1>1, <1>6
<1>9. ASSUME NEW n \in 1 .. N PROVE g[n] = Insert(g[n - 1], candidates[n])
  <2>1. /\ 1 .. n \in SUBSET (1 .. N) /\ 1 .. n # {}
        /\ Max(1 .. n) = n /\ (1 .. n) \ {n} = 1 .. (n - 1)
    <3>1. N \in Nat
      BY <1>1
    <3> HIDE DEF N
    <3> QED
      BY <3>1, LastOfPrefix
  <2>2. 1 .. n \in SUBSET (DOMAIN candidates) /\ 1 .. n # {}
    <3> HIDE DEF N
    <3> QED
      BY <1>1, <2>1
  <2>3. iter[1 .. n] = Insert(iter[(1 .. n) \ {Max(1 .. n)}], candidates[Max(1 .. n)])
    BY <1>6, <2>2
  <2>4. g[n] = iter[1 .. n] /\ g[n - 1] = iter[1 .. (n - 1)]
    BY <1>1
  <2> QED
    BY <2>1, <2>3, <2>4
<1>10. BestPerSource = g[N]
  BY <1>1, <1>7
<1> QED
  BY <1>8, <1>9, <1>10

(* What makes the k-th candidate stay where the l-th is of the same source. *)
Beats(k, l) ==
    \/ candidates[k].score > candidates[l].score
    \/ /\ candidates[k].score = candidates[l].score
       /\ \/ candidates[k].tx < candidates[l].tx
          \/ candidates[k].tx = candidates[l].tx /\ k < l

Leads(k, n) ==
    \A l \in (1 .. n) \ {k} : candidates[l].source = candidates[k].source => Beats(k, l)

(* The map after n candidates. *)
LeadsAre(best, n) ==
    /\ best = [name \in DOMAIN best |-> best[name]]
    /\ DOMAIN best = {candidates[k].source : k \in 1 .. n}
    /\ \A name \in DOMAIN best : \E k \in 1 .. n :
         best[name] = candidates[k] /\ candidates[k].source = name /\ Leads(k, n)

(* One more candidate leaves the leaders in the map.                        *)
LEMMA InsertKeepsLeads ==
    ASSUME Comparable, NEW n \in 1 .. Len(candidates), NEW best, LeadsAre(best, n - 1)
    PROVE  LeadsAre(Insert(best, candidates[n]), n)
<1> DEFINE new == candidates[n]
           next == Insert(best, new)
<1>1. DOMAIN candidates = 1 .. Len(candidates) /\ Len(candidates) \in Nat
  BY DEF Comparable, IsSequence
<1>2. \A k \in 1 .. n : /\ candidates[k].score \in Nat
                        /\ candidates[k].tx \in Nat /\ candidates[k].source \in Nat
  BY <1>1 DEF Comparable, Range
<1>3. 1 .. n = (1 .. (n - 1)) \cup {n}
  OBVIOUS
<1>4. DOMAIN best \cup {new.source} = {candidates[k].source : k \in 1 .. n}
  BY <1>3 DEF LeadsAre
<1>5. ASSUME NEW name \in DOMAIN best, name # new.source
      PROVE  \E k \in 1 .. n : best[name] = candidates[k] /\ candidates[k].source = name /\ Leads(k, n)
  <2>1. PICK k \in 1 .. (n - 1) : best[name] = candidates[k] /\ candidates[k].source = name /\ Leads(k, n - 1)
    BY DEF LeadsAre
  <2>2. Leads(k, n)
    BY <1>3, <1>5, <2>1 DEF Leads
  <2> QED
    BY <1>3, <2>1, <2>2
<1>6. CASE new.source \in DOMAIN best /\ ~Replaces(new, best[new.source])
  <2>1. next = best
    BY <1>6 DEF Insert
  <2>2. PICK k \in 1 .. (n - 1) : best[new.source] = candidates[k] /\ candidates[k].source = new.source /\ Leads(k, n - 1)
    BY <1>6 DEF LeadsAre
  <2>3. Beats(k, n)
    BY <1>2, <1>3, <1>6, <2>2 DEF Replaces, Beats
  <2>4. Leads(k, n)
    BY <1>3, <2>2, <2>3 DEF Leads
  <2>5. \A name \in DOMAIN best : \E l \in 1 .. n :
          best[name] = candidates[l] /\ candidates[l].source = name /\ Leads(l, n)
    BY <1>3, <1>5, <2>2, <2>4
  <2>6. DOMAIN best = DOMAIN best \cup {new.source}
    BY <1>6
  <2> HIDE DEF next
  <2>7. LeadsAre(best, n)
    BY <1>4, <2>5, <2>6 DEF LeadsAre
  <2> QED
    BY <2>1, <2>7 DEF next
<1>7. CASE ~(new.source \in DOMAIN best /\ ~Replaces(new, best[new.source]))
  <2>1. next = [name \in DOMAIN best \cup {new.source} |->
                   IF name = new.source THEN new ELSE best[name]]
    BY <1>7 DEF Insert
  <2>2. ASSUME NEW l \in (1 .. n) \ {n}, candidates[l].source = new.source
        PROVE  Beats(n, l)
    <3>1. l \in 1 .. (n - 1) /\ new.source \in DOMAIN best
      BY <2>2 DEF LeadsAre
    <3>2. PICK k \in 1 .. (n - 1) : best[new.source] = candidates[k] /\ candidates[k].source = new.source /\ Leads(k, n - 1)
      BY <3>1 DEF LeadsAre
    <3>3. Replaces(new, candidates[k])
      BY <1>7, <3>1, <3>2
    <3>4. k = l \/ Beats(k, l)
      BY <2>2, <3>1, <3>2 DEF Leads
    <3>5. k \in 1 .. n /\ l \in 1 .. n /\ n \in 1 .. n
      BY <3>1
    <3> QED
      BY <1>2, <3>3, <3>4, <3>5 DEF Replaces, Beats
  <2>3. Leads(n, n)
    BY <2>2 DEF Leads
  <2>4. ASSUME NEW name \in DOMAIN next
        PROVE  \E k \in 1 .. n : next[name] = candidates[k] /\ candidates[k].source = name /\ Leads(k, n)
    <3>1. CASE name = new.source
      <4>1. next[name] = candidates[n] /\ n \in 1 .. n
        BY <2>1, <3>1
      <4> QED
        BY <2>3, <3>1, <4>1
    <3>2. CASE name # new.source
      <4>1. name \in DOMAIN best /\ next[name] = best[name]
        BY <2>1, <3>2
      <4> QED
        BY <1>5, <3>2, <4>1
    <3> QED
      BY <3>1, <3>2
  <2>5. DOMAIN next = {candidates[k].source : k \in 1 .. n}
    BY <1>4, <2>1
  <2>6. next = [name \in DOMAIN next |-> next[name]]
    BY <2>1
  <2> HIDE DEF next
  <2>7. LeadsAre(next, n)
    BY <2>4, <2>5, <2>6 DEF LeadsAre
  <2> QED
    BY <2>7 DEF next
<1> QED
  BY <1>6, <1>7

(* The map ends up with the winners, one for each source name.              *)
LEMMA BestAreWinners ==
    ASSUME Comparable
    PROVE  /\ Range(BestPerSource) = Winners
           /\ IsFiniteSet(Winners) /\ Cardinality(Winners) <= Len(candidates)
           /\ \A c, d \in Winners : c.source = d.source => c = d
<1> DEFINE N == Len(candidates)
           best == BestPerSource
<1>1. N \in Nat /\ DOMAIN candidates = 1 .. N
  BY DEF Comparable, IsSequence
<1>2. PICK g : /\ g[0] = <<>>
               /\ \A n \in 1 .. N : g[n] = Insert(g[n - 1], candidates[n])
               /\ best = g[N]
  BY BestTrace
<1> DEFINE T == {n \in Nat : LeadsAre(g[n], n)}
<1>3. 0 \in T
  <2>1. LeadsAre(<<>>, 0)
    BY DEF LeadsAre
  <2> QED
    BY <1>2, <2>1
<1>4. ASSUME NEW n \in 1 .. N, n - 1 \in T PROVE n \in T
  BY <1>2, <1>4, InsertKeepsLeads
<1>5. N \in T
  <2> HIDE DEF T, N
  <2> QED
    BY <1>1, <1>3, <1>4, UpTo
<1>6. LeadsAre(best, N)
  BY <1>2, <1>5
<1>7. \A k \in 1 .. N : Wins(k) <=> Leads(k, N)
  BY <1>1 DEF Wins, Leads, Beats
<1>8. \A k \in 1 .. N : /\ candidates[k].score \in Nat
                        /\ candidates[k].tx \in Nat /\ candidates[k].source \in Nat
  BY <1>1 DEF Comparable, Range
<1>9. ASSUME NEW k \in 1 .. N, NEW l \in 1 .. N, Leads(k, N), Leads(l, N),
             candidates[k].source = candidates[l].source
      PROVE  k = l
  <2> SUFFICES ASSUME k # l PROVE FALSE
    OBVIOUS
  <2>1. Beats(k, l) /\ Beats(l, k)
    BY <1>9 DEF Leads
  <2> QED
    BY <1>8, <2>1 DEF Beats
<1> HIDE DEF best
<1>10. Range(best) \subseteq Winners
  BY <1>1, <1>6, <1>7 DEF LeadsAre, Winners, Range
<1>11. Winners \subseteq Range(best)
  <2> SUFFICES ASSUME NEW k \in 1 .. N, Leads(k, N) PROVE candidates[k] \in Range(best)
    BY <1>1, <1>7 DEF Winners
  <2>1. candidates[k].source \in DOMAIN best
    BY <1>6 DEF LeadsAre
  <2>2. PICK l \in 1 .. N : /\ best[candidates[k].source] = candidates[l]
                            /\ candidates[l].source = candidates[k].source /\ Leads(l, N)
    BY <1>6, <2>1 DEF LeadsAre
  <2>3. k = l
    BY <1>9, <2>2
  <2> QED
    BY <2>1, <2>2, <2>3 DEF Range
<1>12. \A c, d \in Winners : c.source = d.source => c = d
  BY <1>1, <1>7, <1>9 DEF Winners
<1>13. IsFiniteSet(Winners) /\ Cardinality(Winners) <= N
  <2>1. Winners \in SUBSET Range(candidates)
    BY DEF Winners, Range
  <2>2. IsFiniteSet(Range(candidates)) /\ Cardinality(Range(candidates)) <= N
    BY RangeIsFinite DEF Comparable
  <2>3. /\ IsFiniteSet(Winners) /\ Cardinality(Winners) <= Cardinality(Range(candidates))
    BY <2>1, <2>2, FS_Subset
  <2>4. Cardinality(Winners) \in Nat /\ Cardinality(Range(candidates)) \in Nat
    BY <2>2, <2>3, FS_CardinalityType
  <2> QED
    BY <1>1, <2>2, <2>3, <2>4
<1> QED
  BY <1>10, <1>11, <1>12, <1>13 DEF best
-----------------------------------------------------------------------------
(* Sorted and ranked *)

LEMMA WinnersCompare ==
    ASSUME Comparable, NEW c \in Winners
    PROVE  c.score \in Nat /\ c.tx \in Nat /\ c.source \in Nat
<1>1. c \in Range(candidates)
  BY DEF Winners, Range
<1> QED
  BY <1>1 DEF Comparable

LEMMA SortedWinners ==
    ASSUME Comparable, NEW s, s = SortedBest
    PROVE  /\ s \in Seq(Winners) /\ Len(s) = Cardinality(Winners)
           /\ Range(s) = Winners
           /\ \A a, b \in DOMAIN s : a < b => RanksBefore(s[a], s[b])
<1> DEFINE R == {x \in Winners \X Winners : RanksBefore(x[1], x[2])}
<1>1. s = Sorted(Winners, R)
  BY BestAreWinners DEF SortedBest
<1>2. \A x, y \in Winners : <<x, y>> \in R <=> RanksBefore(x, y)
  OBVIOUS
<1>3. StrictOrder(Winners, R)
  <2>1. \A x, y \in Winners : x = y \/ x.source # y.source
    BY BestAreWinners
  <2>2. \A x \in Winners : ~RanksBefore(x, x)
    BY WinnersCompare DEF RanksBefore
  <2>3. \A x, y, z \in Winners : RanksBefore(x, y) /\ RanksBefore(y, z) => RanksBefore(x, z)
    BY WinnersCompare DEF RanksBefore
  <2>4. \A x, y \in Winners : x = y \/ RanksBefore(x, y) \/ RanksBefore(y, x)
    BY <2>1, WinnersCompare DEF RanksBefore
  <2> HIDE DEF R
  <2> QED
    BY <1>2, <2>2, <2>3, <2>4 DEF StrictOrder
<1>4. IsFiniteSet(Winners)
  BY BestAreWinners
<1> HIDE DEF R
<1>5. /\ s \in Seq(Winners) /\ Len(s) = Cardinality(Winners) /\ Range(s) = Winners
      /\ \A a, b \in DOMAIN s : a < b => <<s[a], s[b]>> \in R
  BY <1>1, <1>3, <1>4, SortedInOrder
<1>6. \A a \in DOMAIN s : s[a] \in Winners
  BY <1>5
<1> QED
  BY <1>2, <1>5, <1>6

(* The scores above that of c, each once. *)
Above(c) == {d.score : d \in {w \in Winners : w.score > c.score}}

LEMMA AboveIsFinite ==
    ASSUME Comparable, NEW c \in Winners
    PROVE  /\ IsFiniteSet(Above(c)) /\ Cardinality(Above(c)) \in Nat
           /\ RankOf(c) = 1 + Cardinality(Above(c))
           /\ RankOf(c) \in 1 .. Len(candidates)
<1> DEFINE f == [w \in Winners |-> w.score]
<1>1. IsFiniteSet(Winners) /\ Cardinality(Winners) <= Len(candidates)
  BY BestAreWinners
<1>2. IsFiniteSet(Range(f)) /\ Cardinality(Range(f)) <= Cardinality(Winners)
  BY <1>1, ImageIsFinite
<1>3. Above(c) \cup {c.score} \in SUBSET Range(f) /\ c.score \notin Above(c)
  BY WinnersCompare DEF Above, Range
<1> HIDE DEF f
<1>4. IsFiniteSet(Above(c))
  BY <1>2, <1>3, FS_Subset
<1>5. Cardinality(Above(c) \cup {c.score}) = Cardinality(Above(c)) + 1
  BY <1>3, <1>4, FS_AddElement
<1>6. Cardinality(Above(c) \cup {c.score}) <= Cardinality(Range(f))
  BY <1>2, <1>3, FS_Subset
<1>7. /\ Cardinality(Above(c)) \in Nat /\ Cardinality(Range(f)) \in Nat
      /\ Cardinality(Winners) \in Nat /\ Len(candidates) \in Nat
  BY <1>1, <1>2, <1>4, FS_CardinalityType DEF Comparable, IsSequence
<1>8. RankOf(c) = 1 + Cardinality(Above(c))
  BY DEF RankOf, Above
<1> QED
  BY <1>1, <1>2, <1>4, <1>5, <1>6, <1>7, <1>8

(* A rank depends on the score alone, and grows as the score falls.         *)
LEMMA RanksFollowScores ==
    ASSUME Comparable, NEW c \in Winners, NEW d \in Winners
    PROVE  /\ c.score = d.score => RankOf(c) = RankOf(d)
           /\ c.score > d.score => RankOf(c) < RankOf(d)
<1>1. c.score = d.score => RankOf(c) = RankOf(d)
  BY DEF RankOf
<1>2. ASSUME c.score > d.score PROVE RankOf(c) < RankOf(d)
  <2>1. Above(c) \cup {c.score} \in SUBSET Above(d) /\ c.score \notin Above(c)
    BY <1>2, WinnersCompare DEF Above
  <2>2. Cardinality(Above(c) \cup {c.score}) = Cardinality(Above(c)) + 1
    BY <2>1, AboveIsFinite, FS_AddElement
  <2>3. Cardinality(Above(c) \cup {c.score}) <= Cardinality(Above(d))
    BY <2>1, AboveIsFinite, FS_Subset
  <2> QED
    BY <2>2, <2>3, AboveIsFinite
<1> QED
  BY <1>1, <1>2

LEMMA RankTrace ==
    ASSUME Comparable, NEW s, s = SortedBest
    PROVE  \E g : /\ g[0] = <<>>
                  /\ \A n \in 1 .. Len(s) : g[n] = Rank(g[n - 1], s[n])
                  /\ Ranked = g[Len(s)]
<1> DEFINE N == Len(s)
           E == [candidate : Winners, rank : Nat]
           D == Seq(E)
           step == [x \in (1 .. N) \X D |-> Rank(x[2], s[x[1]])]
<1>1. N \in Nat /\ DOMAIN s = 1 .. N /\ \A n \in 1 .. N : s[n] \in Winners
  BY SortedWinners
<1>2. <<>> \in D
  OBVIOUS
<1>3. step \in [(1 .. N) \X D -> D]
  <2>1. ASSUME NEW n \in 1 .. N, NEW ranked \in D
        PROVE  Rank(ranked, s[n]) \in D
    <3> DEFINE rank == IF ranked = <<>> THEN 1
                       ELSE IF Last(ranked).candidate.score = s[n].score THEN Last(ranked).rank
                       ELSE Last(ranked).rank + 1
    <3>1. s[n] \in Winners
      BY <1>1
    <3>2. ranked # <<>> => Last(ranked) \in E
      <4> HIDE DEF E
      <4> QED
        BY DEF Last
    <3>3. rank \in Nat
      BY <3>2
    <3>4. Rank(ranked, s[n]) = Append(ranked, [candidate |-> s[n], rank |-> rank])
      BY DEF Rank
    <3>5. [candidate |-> s[n], rank |-> rank] \in E
      <4> HIDE DEF rank
      <4> QED
        BY <3>1, <3>3
    <3> HIDE DEF rank, E
    <3> QED
      BY <3>4, <3>5
  <2> HIDE DEF D
  <2> QED
    BY <2>1
<1>4. PICK it \in [SUBSET (1 .. N) -> D] : Folds(it, N, <<>>, step)
  <2> HIDE DEF step, D, N
  <2> QED
    BY <1>1, <1>2, <1>3, FoldTrace
<1> DEFINE Unfolds(f) ==
        f = [S \in SUBSET (DOMAIN s) |->
                IF S = {} THEN <<>> ELSE Rank(f[S \ {Max(S)}], s[Max(S)])]
           iter == CHOOSE f : Unfolds(f)
<1>5. Unfolds(it)
  <2>1. ASSUME NEW S \in SUBSET (1 .. N), S # {}
        PROVE  it[S] = Rank(it[S \ {Max(S)}], s[Max(S)])
    <3> HIDE DEF D
    <3>1. Max(S) \in 1 .. N
      BY <1>1, <2>1, MaxInInterval
    <3>2. it[S \ {Max(S)}] \in D
      BY <1>4
    <3>3. it[S] = step[<<Max(S), it[S \ {Max(S)}]>>]
      BY <1>4, <2>1 DEF Folds
    <3> QED
      BY <3>1, <3>2, <3>3
  <2>2. it[{}] = <<>>
    BY <1>4 DEF Folds
  <2>3. it = [S \in SUBSET (1 .. N) |-> it[S]]
    BY <1>4
  <2> HIDE DEF D, step
  <2> QED
    BY <1>1, <2>1, <2>2, <2>3
<1>6. Unfolds(iter)
  BY <1>5
<1>7. Ranked = iter[DOMAIN s]
  BY DEF Ranked, FoldLeft, MapThenFoldSet
<1> DEFINE g == [n \in 0 .. N |-> iter[1 .. n]]
<1> HIDE DEF iter, D, step
<1>8. g[0] = <<>>
  BY <1>1, <1>6
<1>9. ASSUME NEW n \in 1 .. N PROVE g[n] = Rank(g[n - 1], s[n])
  <2>1. /\ 1 .. n \in SUBSET (1 .. N) /\ 1 .. n # {}
        /\ Max(1 .. n) = n /\ (1 .. n) \ {n} = 1 .. (n - 1)
    <3>1. N \in Nat
      BY <1>1
    <3> HIDE DEF N
    <3> QED
      BY <3>1, LastOfPrefix
  <2>2. 1 .. n \in SUBSET (DOMAIN s) /\ 1 .. n # {}
    <3> HIDE DEF N
    <3> QED
      BY <1>1, <2>1
  <2>3. iter[1 .. n] = Rank(iter[(1 .. n) \ {Max(1 .. n)}], s[Max(1 .. n)])
    BY <1>6, <2>2
  <2>4. g[n] = iter[1 .. n] /\ g[n - 1] = iter[1 .. (n - 1)]
    BY <1>1
  <2> QED
    BY <2>1, <2>3, <2>4
<1>10. Ranked = g[N]
  BY <1>1, <1>7
<1> QED
  BY <1>8, <1>9, <1>10

(* The loop's ranks are dense: one more than the scores above.              *)
LEMMA RankedDensely ==
    ASSUME Comparable, NEW s, s = SortedBest
    PROVE  /\ IsSequence(Ranked) /\ Len(Ranked) = Len(s)
           /\ \A k \in 1 .. Len(s) : Ranked[k].candidate = s[k] /\ Ranked[k].rank = RankOf(s[k])
<1> DEFINE N == Len(s)
           E == [candidate : Winners, rank : Nat]
           Dense(r, n) ==
               /\ r \in Seq(E) /\ Len(r) = n
               /\ \A k \in 1 .. n : r[k].candidate = s[k] /\ r[k].rank = RankOf(s[k])
<1>1. /\ N \in Nat /\ DOMAIN s = 1 .. N /\ \A n \in 1 .. N : s[n] \in Winners
      /\ Range(s) = Winners
      /\ \A a, b \in 1 .. N : a < b => RanksBefore(s[a], s[b])
  BY SortedWinners
<1>2. PICK g : /\ g[0] = <<>>
               /\ \A n \in 1 .. N : g[n] = Rank(g[n - 1], s[n])
               /\ Ranked = g[N]
  BY RankTrace
<1>3. \A n \in 1 .. N : s[n].score \in Nat
  BY <1>1, WinnersCompare
<1>4. \A a, b \in 1 .. N : a <= b => s[a].score >= s[b].score
  BY <1>1, <1>3 DEF RanksBefore
<1>5. 1 \in 1 .. N => RankOf(s[1]) = 1
  <2> SUFFICES ASSUME 1 \in 1 .. N PROVE RankOf(s[1]) = 1
    OBVIOUS
  <2>1. \A w \in Winners : ~(w.score > s[1].score)
    <3> SUFFICES ASSUME NEW w \in Winners PROVE ~(w.score > s[1].score)
      OBVIOUS
    <3>1. PICK k \in 1 .. N : s[k] = w
      BY <1>1 DEF Range
    <3>2. s[1].score >= w.score
      BY <1>4, <3>1
    <3> QED
      BY <1>3, <3>1, <3>2
  <2>2. Above(s[1]) = {}
    BY <2>1 DEF Above
  <2>3. Cardinality(Above(s[1])) = 0
    BY <2>2, FS_EmptySet
  <2> QED
    BY <1>1, <2>3, AboveIsFinite
<1>6. ASSUME NEW n \in 1 .. N, n # 1
      PROVE  RankOf(s[n]) = IF s[n - 1].score = s[n].score THEN RankOf(s[n - 1])
                            ELSE RankOf(s[n - 1]) + 1
  <2>0. n - 1 \in 1 .. N /\ s[n] \in Winners /\ s[n - 1] \in Winners
    BY <1>1, <1>6
  <2>1. CASE s[n - 1].score = s[n].score
    BY <2>0, <2>1, RanksFollowScores
  <2>2. CASE s[n - 1].score # s[n].score
    <3>1. s[n - 1].score > s[n].score
      BY <1>3, <1>4, <2>0, <2>2
    <3>2. ASSUME NEW w \in Winners, w.score > s[n].score
          PROVE  w.score = s[n - 1].score \/ w.score > s[n - 1].score
      <4>1. PICK k \in 1 .. N : s[k] = w
        BY <1>1 DEF Range
      <4>2. k <= n - 1
        <5> SUFFICES ASSUME n <= k PROVE FALSE
          BY <1>1
        <5>1. s[n].score >= s[k].score
          BY <1>4
        <5> QED
          BY <1>3, <3>2, <4>1, <5>1
      <4>3. s[k].score >= s[n - 1].score
        BY <1>4, <2>0, <4>2
      <4> QED
        BY <1>3, <2>0, <4>1, <4>3
    <3>3. Above(s[n]) \subseteq Above(s[n - 1]) \cup {s[n - 1].score}
      BY <3>2 DEF Above
    <3>4. Above(s[n - 1]) \cup {s[n - 1].score} \subseteq Above(s[n])
      <4>1. \A w \in Winners : w.score > s[n - 1].score => w.score > s[n].score
        BY <1>3, <2>0, <3>1, WinnersCompare
      <4> QED
        BY <2>0, <3>1, <4>1 DEF Above
    <3>5. s[n - 1].score \notin Above(s[n - 1])
      BY <1>3, <2>0 DEF Above
    <3>6. Cardinality(Above(s[n])) = Cardinality(Above(s[n - 1])) + 1
      <4>1. Above(s[n]) = Above(s[n - 1]) \cup {s[n - 1].score}
        BY <3>3, <3>4
      <4>2. IsFiniteSet(Above(s[n - 1]))
        BY <2>0, AboveIsFinite
      <4>3. Cardinality(Above(s[n - 1]) \cup {s[n - 1].score}) = Cardinality(Above(s[n - 1])) + 1
        BY <3>5, <4>2, FS_AddElement
      <4> QED
        BY <4>1, <4>3
    <3> QED
      BY <2>0, <2>2, <3>6, AboveIsFinite
  <2> QED
    BY <2>1, <2>2
<1> DEFINE T == {n \in Nat : Dense(g[n], n)}
<1>7. 0 \in T
  <2>1. Dense(<<>>, 0)
    OBVIOUS
  <2> QED
    BY <1>2, <2>1
<1>8. ASSUME NEW n \in 1 .. N, n - 1 \in T PROVE n \in T
  <2> DEFINE r == g[n - 1]
             rank == IF r = <<>> THEN 1
                     ELSE IF Last(r).candidate.score = s[n].score THEN Last(r).rank
                     ELSE Last(r).rank + 1
             e == [candidate |-> s[n], rank |-> rank]
  <2>1. g[n] = Append(r, e)
    BY <1>2 DEF Rank
  <2>2. Dense(r, n - 1)
    BY <1>8
  <2>3. s[n] \in Winners
    BY <1>1
  <2>4. rank = RankOf(s[n])
    <3> HIDE DEF r, E
    <3>1. CASE n = 1
      <4>1. r = <<>>
        BY <2>2, <3>1
      <4> QED
        BY <1>5, <3>1, <4>1
    <3>2. CASE n # 1
      <4>1. n - 1 \in 1 .. (n - 1) /\ r # <<>> /\ Last(r) = r[n - 1]
        BY <2>2, <3>2 DEF Last
      <4>2. Last(r).candidate = s[n - 1] /\ Last(r).rank = RankOf(s[n - 1])
        BY <2>2, <4>1
      <4> QED
        BY <1>6, <3>2, <4>1, <4>2
    <3> QED
      BY <3>1, <3>2
  <2>5. e \in E
    <3>1. rank \in Nat
      BY <2>3, <2>4, AboveIsFinite
    <3> HIDE DEF rank
    <3> QED
      BY <2>3, <3>1
  <2>6. e.candidate = s[n] /\ e.rank = RankOf(s[n])
    BY <2>4
  <2> HIDE DEF e, r, E, T, rank
  <2>7. Append(r, e) \in Seq(E) /\ Len(Append(r, e)) = n
    BY <2>2, <2>5
  <2>8. ASSUME NEW k \in 1 .. n
        PROVE  Append(r, e)[k].candidate = s[k] /\ Append(r, e)[k].rank = RankOf(s[k])
    <3>1. Append(r, e)[k] = IF k = n THEN e ELSE r[k]
      BY <2>2, <2>5
    <3>2. k = n \/ k \in 1 .. (n - 1)
      OBVIOUS
    <3> QED
      BY <2>2, <2>6, <3>1, <3>2
  <2>9. Dense(g[n], n)
    BY <2>1, <2>7, <2>8
  <2> QED
    BY <2>9 DEF T
<1>9. N \in T
  <2> HIDE DEF T, N
  <2> QED
    BY <1>1, <1>7, <1>8, UpTo
<1>10. Dense(Ranked, N)
  BY <1>2, <1>9
<1>11. IsSequence(Ranked)
  <2> HIDE DEF E
  <2>1. DOMAIN Ranked = 1 .. N /\ Ranked \in [1 .. N -> Range(Ranked)]
    BY <1>10 DEF Range
  <2> QED
    BY <1>1, <2>1 DEF IsSequence
<1> QED
  BY <1>10, <1>11
(* What is selected: the winners that the mode keeps, by rank, then name.   *)
LEMMA SelectedInOrder ==
    ASSUME Comparable
    PROVE  /\ IsSequence(Selection) /\ Len(Selection) <= Len(candidates)
           /\ \A k \in DOMAIN Selection :
                /\ Selection[k].candidate \in Winners
                /\ Selection[k].rank = RankOf(Selection[k].candidate)
                /\ mode = "all" \/ Selection[k].rank = 1
           /\ \A w \in Winners : mode = "all" \/ RankOf(w) = 1 =>
                \E k \in DOMAIN Selection : Selection[k].candidate = w
           /\ \A a, b \in DOMAIN Selection : a < b =>
                \/ Selection[a].rank < Selection[b].rank
                \/ /\ Selection[a].rank = Selection[b].rank
                   /\ Selection[a].candidate.source < Selection[b].candidate.source
<1> DEFINE s == SortedBest
           N == Len(s)
           K == {n \in DOMAIN Ranked : mode = "all" \/ Ranked[n].rank = 1}
<1>1. /\ s \in Seq(Winners) /\ N = Cardinality(Winners) /\ Range(s) = Winners
      /\ \A a, b \in DOMAIN s : a < b => RanksBefore(s[a], s[b])
  BY SortedWinners
<1>2. /\ IsSequence(Ranked) /\ Len(Ranked) = N
      /\ \A k \in 1 .. N : Ranked[k].candidate = s[k] /\ Ranked[k].rank = RankOf(s[k])
  BY RankedDensely
<1>3. DOMAIN Ranked = 1 .. N /\ DOMAIN s = 1 .. N /\ N \in Nat
  BY <1>1, <1>2 DEF IsSequence
<1>4. Selection = Picked(Ranked, K) /\ K \in SUBSET (DOMAIN Ranked)
  BY DEF Selection
<1>5. \A n \in K : mode = "all" \/ Ranked[n].rank = 1
  OBVIOUS
<1>6. \A n \in DOMAIN Ranked : mode = "all" \/ Ranked[n].rank = 1 => n \in K
  OBVIOUS
<1> HIDE DEF K, s
<1>7. /\ IsSequence(Selection) /\ Range(Selection) = {Ranked[k] : k \in K}
      /\ Len(Selection) <= N
      /\ \E place \in [DOMAIN Selection -> K] :
           /\ \A n \in DOMAIN Selection : Selection[n] = Ranked[place[n]]
           /\ \A a, b \in DOMAIN Selection : a < b => place[a] < place[b]
  BY <1>2, <1>4, PickedInOrder
<1>8. PICK place \in [DOMAIN Selection -> K] :
        /\ \A n \in DOMAIN Selection : Selection[n] = Ranked[place[n]]
        /\ \A a, b \in DOMAIN Selection : a < b => place[a] < place[b]
  BY <1>7
<1>9. Len(Selection) <= Len(candidates)
  <2>1. N <= Len(candidates)
    BY <1>1, BestAreWinners
  <2>2. Len(Selection) \in Nat /\ Len(candidates) \in Nat
    BY <1>7 DEF Comparable, IsSequence
  <2> QED
    BY <1>3, <1>7, <2>1, <2>2
<1>10. \A n \in 1 .. N : s[n] \in Winners
  BY <1>1, <1>3
<1>11. ASSUME NEW k \in DOMAIN Selection
       PROVE  /\ place[k] \in 1 .. N /\ place[k] \in K
              /\ Selection[k].candidate = s[place[k]]
              /\ Selection[k].rank = RankOf(s[place[k]])
  BY <1>2, <1>3, <1>4, <1>8
<1>12. \A k \in DOMAIN Selection :
         /\ Selection[k].candidate \in Winners
         /\ Selection[k].rank = RankOf(Selection[k].candidate)
         /\ mode = "all" \/ Selection[k].rank = 1
  BY <1>5, <1>8, <1>10, <1>11
<1>13. ASSUME NEW w \in Winners, mode = "all" \/ RankOf(w) = 1
       PROVE  \E k \in DOMAIN Selection : Selection[k].candidate = w
  <2>1. PICK n \in 1 .. N : s[n] = w
    BY <1>1, <1>3 DEF Range
  <2>2. n \in K
    <3>1. Ranked[n].rank = RankOf(w)
      BY <1>2, <2>1
    <3> QED
      BY <1>3, <1>6, <1>13, <2>1, <3>1
  <2>3. Ranked[n] \in Range(Selection)
    BY <1>7, <2>2
  <2>4. PICK k \in DOMAIN Selection : Selection[k] = Ranked[n]
    BY <2>3 DEF Range
  <2>5. Ranked[n].candidate = w
    BY <1>2, <2>1
  <2> QED
    BY <2>5, <2>4
<1>14. ASSUME NEW a \in DOMAIN Selection, NEW b \in DOMAIN Selection, a < b
       PROVE  \/ Selection[a].rank < Selection[b].rank
              \/ /\ Selection[a].rank = Selection[b].rank
                 /\ Selection[a].candidate.source < Selection[b].candidate.source
  <2>1. RanksBefore(s[place[a]], s[place[b]])
    <3>1. place[a] < place[b]
      BY <1>8, <1>14
    <3>2. place[a] \in DOMAIN s /\ place[b] \in DOMAIN s
      BY <1>3, <1>11
    <3> QED
      BY <1>1, <3>1, <3>2
  <2>2. s[place[a]] \in Winners /\ s[place[b]] \in Winners
    BY <1>10, <1>11
  <2> QED
    BY <1>11, <2>1, <2>2, RanksFollowScores DEF RanksBefore
<1> QED
  BY <1>7, <1>9, <1>12, <1>13, <1>14

-----------------------------------------------------------------------------
(* The rows *)

(* The first of the selected are rows, and the rest survivors. *)
LiftedOf(selected, done, left, p) ==
    /\ IsSequence(done) /\ IsSequence(left)
    /\ Len(done) + Len(left) = Len(selected)
    /\ \A k \in DOMAIN done : Liftable(p, selected[k].candidate.maps)
    /\ \A k \in DOMAIN left : left[k] = selected[Len(done) + k]

Lifted ==
    /\ LiftedOf(Selection, rows, survivors, payload)
    /\ \A k \in DOMAIN rows : rows[k] = RowOf(Selection[k])

SelectionInv ==
    /\ SearchInv
    /\ payload \in UNION {case.payloads : case \in Cases}
    /\ mode \in Modes
    /\ stage \in {"matching", "lifting", "done", "failed"}
    /\ stage = "matching" => survivors = <<>> /\ rows = <<>>
    /\ stage \in {"lifting", "done"} => Lifted
    /\ stage = "done" => survivors = <<>>
    /\ stage = "failed" =>
         /\ survivors = <<>> /\ rows = <<>>
         /\ \E k \in DOMAIN Selection : ~Liftable(payload, Selection[k].candidate.maps)

LEMMA InitSelection == Init => SelectionInv
<1> SUFFICES ASSUME Init PROVE SelectionInv
  OBVIOUS
<1>1. payload \in UNION {case.payloads : case \in Cases}
  BY DEF Init
<1> QED
  BY <1>1, InitSearch DEF Init, SelectionInv

(* One survivor less is one row more, in the order of the selection.        *)
LEMMA LiftKeepsOrder ==
    ASSUME NEW selected, NEW done, NEW left, NEW p, LiftedOf(selected, done, left, p),
           left # <<>>, Liftable(p, Head(left).candidate.maps), NEW row
    PROVE  /\ LiftedOf(selected, Append(done, row), Tail(left), p)
           /\ DOMAIN done = 1 .. Len(done) /\ Len(done) \in Nat
           /\ DOMAIN Append(done, row) = 1 .. (Len(done) + 1)
           /\ \A k \in DOMAIN done : Append(done, row)[k] = done[k]
           /\ Append(done, row)[Len(done) + 1] = row
           /\ Head(left) = selected[Len(done) + 1]
<1> DEFINE M == Len(done)
           L == Len(left)
           more == Append(done, row)
           less == Tail(left)
<1>1. /\ L \in Nat /\ L >= 1 /\ Head(left) = left[1] /\ DOMAIN left = 1 .. L
      /\ IsSequence(less) /\ Len(less) = L - 1 /\ DOMAIN less = 1 .. (L - 1)
      /\ \A k \in 1 .. (L - 1) : less[k] = left[k + 1]
  BY WithoutHead DEF LiftedOf, IsSequence
<1>2. M \in Nat /\ DOMAIN done = 1 .. M
  BY DEF LiftedOf, IsSequence
<1>3. IsSequence(more)
  BY Appended DEF LiftedOf
<1>4. /\ Len(more) = M + 1 /\ DOMAIN more = 1 .. (M + 1)
      /\ \A k \in 1 .. M : more[k] = done[k]
      /\ more[M + 1] = row
  <2>1. done \in Seq(Range(done) \cup {row})
    BY DEF LiftedOf, IsSequence
  <2> QED
    BY <2>1
<1> HIDE DEF M, L, more, less
<1>5. \A k \in 1 .. L : left[k] = selected[M + k]
  BY <1>1 DEF LiftedOf, M
<1>6. Head(left) = selected[M + 1]
  BY <1>1, <1>5
<1>7. \A k \in 1 .. (L - 1) : less[k] = selected[(M + 1) + k]
  <2> SUFFICES ASSUME NEW k \in 1 .. (L - 1) PROVE less[k] = selected[(M + 1) + k]
    OBVIOUS
  <2>1. k + 1 \in 1 .. L /\ M + (k + 1) = (M + 1) + k
    BY <1>1, <1>2
  <2>2. left[k + 1] = selected[M + (k + 1)]
    BY <1>5, <2>1
  <2> QED
    BY <1>1, <2>1, <2>2
<1>8. ASSUME NEW k \in 1 .. (M + 1) PROVE Liftable(p, selected[k].candidate.maps)
  <2>1. k \in 1 .. M \/ k = M + 1
    BY <1>2
  <2> QED
    BY <1>2, <1>6, <2>1 DEF LiftedOf
<1>9. Len(more) + Len(less) = Len(selected)
  <2>1. M + L = Len(selected)
    BY DEF LiftedOf, M, L
  <2>2. Len(more) = M + 1 /\ Len(less) = L - 1
    BY <1>1, <1>4
  <2>3. M \in Nat /\ L \in Nat
    BY <1>1, <1>2
  <2>4. (M + 1) + (L - 1) = M + L
    BY <2>3
  <2> QED
    BY <2>1, <2>2, <2>4
<1>10. LiftedOf(selected, more, less, p)
  BY <1>1, <1>3, <1>4, <1>7, <1>8, <1>9 DEF LiftedOf
<1> QED
  BY <1>2, <1>4, <1>6, <1>10 DEF M, more, less

LEMMA NextSelection == SelectionInv /\ [Next]_vars => SelectionInv'
<1> SUFFICES ASSUME SelectionInv, [Next]_vars PROVE SelectionInv'
  OBVIOUS
<1>1. SearchInv' /\ Comparable
  BY NextSearch, CandidatesCompare DEF SelectionInv
<1>2. UNCHANGED <<payload, mode>>
  BY DEF Next, SkipSource, EngageSource, RejectByFingerprint, RejectByMatch, AddCandidate,
     SelectMatches, LiftSurvivor, LiftFails, Return, Returned, vars
<1>3. UNCHANGED candidates => UNCHANGED Selection
  BY <1>2 DEF Selection, Ranked, SortedBest, BestPerSource
<1>4. CASE SkipSource \/ EngageSource \/ RejectByFingerprint \/ RejectByMatch \/ AddCandidate
  <2>1. stage = "matching" /\ UNCHANGED <<stage, survivors, rows>>
    BY <1>4 DEF SkipSource, EngageSource, RejectByFingerprint, RejectByMatch, AddCandidate,
       GatingSource, TryingTemplate
  <2> QED
    BY <1>1, <1>2, <2>1 DEF SelectionInv
<1>5. CASE SelectMatches
  <2>1. /\ stage' = "lifting" /\ survivors' = Selection /\ UNCHANGED <<candidates, rows>>
        /\ rows = <<>>
    BY <1>5 DEF SelectMatches, SelectionInv
  <2>2. IsSequence(Selection)
    BY <1>1, SelectedInOrder
  <2>3. IsSequence(<<>>) /\ Len(<<>>) = 0 /\ DOMAIN <<>> = {}
    BY DEF IsSequence, Range
  <2>4. /\ Len(Selection) \in Nat /\ DOMAIN Selection = 1 .. Len(Selection)
    BY <2>2 DEF IsSequence
  <2>5. LiftedOf(Selection, <<>>, Selection, payload)
    BY <2>2, <2>3, <2>4 DEF LiftedOf
  <2>6. Lifted'
    BY <1>2, <1>3, <2>1, <2>3, <2>5 DEF Lifted
  <2> QED
    BY <1>1, <1>2, <2>1, <2>6 DEF SelectionInv
<1>6. CASE LiftSurvivor
  <2> DEFINE head == Head(survivors)
             row == RowOf(head)
             M == Len(rows)
  <2>1. /\ stage = "lifting" /\ UNCHANGED <<stage, candidates>>
        /\ survivors # <<>> /\ Liftable(payload, head.candidate.maps)
        /\ rows' = Append(rows, row) /\ survivors' = Tail(survivors)
    BY <1>6 DEF LiftSurvivor
  <2>3. /\ LiftedOf(Selection, rows, survivors, payload)
        /\ \A k \in DOMAIN rows : rows[k] = RowOf(Selection[k])
    BY <2>1 DEF SelectionInv, Lifted
  <2>4. /\ LiftedOf(Selection, Append(rows, row), Tail(survivors), payload)
        /\ DOMAIN rows = 1 .. M /\ M \in Nat
        /\ DOMAIN Append(rows, row) = 1 .. (M + 1)
        /\ \A k \in DOMAIN rows : Append(rows, row)[k] = rows[k]
        /\ Append(rows, row)[M + 1] = row
        /\ head = Selection[M + 1]
    <3> HIDE DEF row
    <3> QED
      BY <2>1, <2>3, LiftKeepsOrder
  <2>5. \A k \in DOMAIN Append(rows, row) : Append(rows, row)[k] = RowOf(Selection[k])
    <3> SUFFICES ASSUME NEW k \in 1 .. (M + 1) PROVE Append(rows, row)[k] = RowOf(Selection[k])
      BY <2>4
    <3>1. k \in 1 .. M \/ k = M + 1
      BY <2>4
    <3> HIDE DEF M
    <3> QED
      BY <2>3, <2>4, <3>1
  <2>6. \A x : RowOf(x)' = RowOf(x)
    BY <1>2 DEF RowOf
  <2> HIDE DEF row
  <2>2. Lifted'
    BY <1>2, <1>3, <2>1, <2>4, <2>5, <2>6 DEF Lifted
  <2> QED
    BY <1>1, <1>2, <2>1, <2>2 DEF SelectionInv
<1>7. CASE LiftFails
  <2>1. /\ stage = "lifting" /\ survivors # <<>>
        /\ ~Liftable(payload, Head(survivors).candidate.maps)
        /\ stage' = "failed" /\ survivors' = <<>> /\ rows' = <<>> /\ UNCHANGED candidates
    BY <1>7 DEF LiftFails
  <2>2. Lifted
    BY <2>1 DEF SelectionInv
  <2>3. Head(survivors) = survivors[1] /\ 1 \in DOMAIN survivors
    BY <2>1, <2>2, WithoutHead DEF Lifted, LiftedOf, IsSequence
  <2>4. Head(survivors) = Selection[Len(rows) + 1]
    BY <2>2, <2>3 DEF Lifted, LiftedOf
  <2>5. Len(rows) + 1 \in DOMAIN Selection
    <3>1. IsSequence(Selection)
      BY <1>1, SelectedInOrder
    <3>2. DOMAIN Selection = 1 .. Len(Selection) /\ Len(Selection) \in Nat
      BY <3>1 DEF IsSequence
    <3>3. Len(rows) \in Nat /\ Len(survivors) \in Nat /\ Len(survivors) >= 1
      BY <2>1, <2>2, WithoutHead DEF Lifted, LiftedOf, IsSequence
    <3>4. Len(rows) + Len(survivors) = Len(Selection)
      BY <2>2 DEF Lifted, LiftedOf
    <3> QED
      BY <3>2, <3>3, <3>4
  <2>6. \E k \in DOMAIN Selection : ~Liftable(payload, Selection[k].candidate.maps)
    BY <2>1, <2>4, <2>5
  <2> QED
    BY <1>1, <1>2, <1>3, <2>1, <2>6 DEF SelectionInv
<1>8. CASE Return
  <2>1. /\ stage = "lifting" /\ stage' = "done" /\ survivors = <<>>
        /\ UNCHANGED <<candidates, survivors, rows>>
    BY <1>8 DEF Return
  <2>2. Lifted'
    BY <1>2, <1>3, <2>1 DEF SelectionInv, Lifted, RowOf
  <2> QED
    BY <1>1, <1>2, <2>1, <2>2 DEF SelectionInv
<1>9. CASE UNCHANGED vars
  <2>1. UNCHANGED <<stage, candidates, survivors, rows>>
    BY <1>9 DEF vars
  <2>2. Lifted => Lifted'
    BY <1>2, <1>3, <2>1 DEF Lifted, RowOf
  <2> QED
    BY <1>1, <1>2, <1>3, <2>1, <2>2 DEF SelectionInv
<1> QED
  BY <1>4, <1>5, <1>6, <1>7, <1>8, <1>9 DEF Next, Returned
(* From the search to the end of the call: what is selected is fixed when   *)
(* the candidates are, and the rows are the first of it, in its order, each *)
(* lifted from readable bytes; a failed call leaves no row behind           *)
(* (run_specializations).                                                   *)
THEOREM SelectionInvHolds == Spec => []SelectionInv
  BY InitSelection, NextSelection, PTL DEF Spec

(* The variables hold what the code's types allow: the scores add up to     *)
(* numbers and a call lifts no more than it found.                          *)
THEOREM TypeOKHolds == Spec => []TypeOK
<1>1. SelectionInv => TypeOK
  <2> SUFFICES ASSUME SelectionInv PROVE TypeOK
    OBVIOUS
  <2>1. SearchInv /\ Comparable
    BY CandidatesCompare DEF SelectionInv
  <2>2. \A c \in Range(candidates) : c.score \in Nat /\ None \notin Range(c.maps)
    BY <2>1, CandidateServes DEF Comparable
  <2>3. Len(candidates) \in Nat
    BY <2>1 DEF Comparable, IsSequence
  <2>4. CASE stage \in {"matching", "failed"}
    <3>1. survivors = <<>> /\ rows = <<>>
      BY <2>4 DEF SelectionInv
    <3> QED
      BY <2>2, <2>3, <2>4, <3>1 DEF TypeOK, SelectionInv, Range
  <2>5. CASE stage \in {"lifting", "done"}
    <3>1. LiftedOf(Selection, rows, survivors, payload)
      BY <2>5 DEF SelectionInv, Lifted
    <3>2. /\ IsSequence(Selection) /\ Len(Selection) <= Len(candidates)
          /\ \A k \in DOMAIN Selection : /\ Selection[k].candidate \in Winners
                                         /\ Selection[k].rank = RankOf(Selection[k].candidate)
      BY <2>1, SelectedInOrder
    <3>3. /\ DOMAIN Selection = 1 .. Len(Selection) /\ Len(Selection) \in Nat
          /\ DOMAIN survivors = 1 .. Len(survivors) /\ Len(survivors) \in Nat
          /\ Len(rows) \in Nat
      BY <3>1, <3>2 DEF LiftedOf, IsSequence
    <3>4. Len(rows) + Len(survivors) = Len(Selection)
      BY <3>1 DEF LiftedOf
    <3>5. ASSUME NEW k \in DOMAIN survivors PROVE survivors[k].rank \in 1 .. Len(candidates)
      <4>1. survivors[k] = Selection[Len(rows) + k]
        BY <3>1 DEF LiftedOf
      <4>2. Len(rows) + k \in DOMAIN Selection
        BY <3>3, <3>4
      <4> QED
        BY <2>1, <3>2, <4>1, <4>2, AboveIsFinite
    <3>6. \A s \in Range(survivors) : s.rank \in 1 .. Len(candidates)
      BY <3>5 DEF Range
    <3>7. Len(rows) + Len(survivors) <= Len(candidates)
      BY <2>3, <3>2, <3>3, <3>4
    <3> QED
      BY <2>2, <2>5, <3>6, <3>7 DEF TypeOK, SelectionInv
  <2> QED
    BY <2>4, <2>5 DEF SelectionInv
<1> QED
  BY <1>1, SelectionInvHolds, PTL

(* When a call is done its rows are the selected candidates, lifted. *)
LEMMA DoneRows ==
    ASSUME SelectionInv, stage = "done"
    PROVE  /\ DOMAIN rows = DOMAIN Selection /\ IsSequence(rows)
           /\ \A k \in DOMAIN rows : /\ rows[k] = RowOf(Selection[k])
                                     /\ Liftable(payload, Selection[k].candidate.maps)
<1>1. LiftedOf(Selection, rows, survivors, payload) /\ survivors = <<>>
  BY DEF SelectionInv, Lifted
<1>2. \A k \in DOMAIN rows : rows[k] = RowOf(Selection[k])
  BY DEF SelectionInv, Lifted
<1>3. IsSequence(Selection)
  BY CandidatesCompare, SelectedInOrder DEF SelectionInv
<1>4. Len(rows) = Len(Selection)
  <2>1. Len(survivors) = 0 /\ Len(rows) + Len(survivors) = Len(Selection) /\ Len(rows) \in Nat
    BY <1>1 DEF LiftedOf, IsSequence
  <2> QED
    BY <2>1
<1>5. DOMAIN rows = DOMAIN Selection
  BY <1>1, <1>3, <1>4 DEF LiftedOf, IsSequence
<1> QED
  BY <1>1, <1>2, <1>5 DEF LiftedOf

(* The rows of a transaction are the best template of each source that has  *)
(* one, ranked densely by score, in mode "best" those of rank 1 only, and   *)
(* in the order of rank, then name (README.md:33-41, process.rs:243-250),   *)
(* for any number of sources and templates and any scores.                  *)
THEOREM RowsAreRankedHolds == Spec => []RowsAreRanked
<1>1. SelectionInv => RowsAreRanked
  <2> SUFFICES ASSUME SelectionInv, stage = "done" PROVE RowsAreRanked
    BY DEF RowsAreRanked
  <2>1. Comparable
    BY CandidatesCompare DEF SelectionInv
  <2> DEFINE C(k) == Selection[k].candidate
             kept == {w \in Winners : mode = "all" \/ RankOf(w) = 1}
  <2>2. /\ DOMAIN rows = DOMAIN Selection
        /\ \A k \in DOMAIN rows : rows[k] = RowOf(Selection[k])
    BY DoneRows
  <2>3. ASSUME NEW k \in DOMAIN Selection
        PROVE  /\ C(k) \in kept /\ Selection[k].rank = RankOf(C(k))
               /\ rows[k].rank = RankOf(C(k)) /\ rows[k].source = C(k).source
               /\ Verdict(rows[k]) = Verdict(C(k))
    <3>1. C(k) \in kept /\ Selection[k].rank = RankOf(C(k))
      BY <2>1, SelectedInOrder
    <3>2. rows[k] = RowOf(Selection[k])
      BY <2>2
    <3>3. rows[k].rank = Selection[k].rank /\ rows[k].source = C(k).source
      BY <3>2 DEF RowOf
    <3>4. Verdict(rows[k]) = Verdict(C(k))
      BY <3>2 DEF RowOf, Verdict
    <3> QED
      BY <3>1, <3>3, <3>4
  <2>4. \A w \in kept : \E k \in DOMAIN Selection : C(k) = w
    BY <2>1, SelectedInOrder
  <2> DEFINE Tagged(rank, verdict) == [rank |-> rank] @@ verdict
  <2>5. {Tagged(r.rank, Verdict(r)) : r \in Range(rows)} = {Tagged(RankOf(c), Verdict(c)) : c \in kept}
    <3> HIDE DEF Tagged, kept
    <3>1. ASSUME NEW r \in Range(rows)
          PROVE  \E c \in kept : Tagged(r.rank, Verdict(r)) = Tagged(RankOf(c), Verdict(c))
      <4>1. PICK k \in DOMAIN Selection : r = rows[k]
        BY <2>2 DEF Range
      <4> QED
        BY <2>3, <4>1
    <3>2. ASSUME NEW c \in kept
          PROVE  \E r \in Range(rows) : Tagged(r.rank, Verdict(r)) = Tagged(RankOf(c), Verdict(c))
      <4>1. PICK k \in DOMAIN Selection : C(k) = c
        BY <2>4
      <4>2. rows[k] \in Range(rows)
        BY <2>2 DEF Range
      <4> QED
        BY <2>3, <4>1, <4>2
    <3> QED
      BY <3>1, <3>2
  <2>6. \A a, b \in DOMAIN rows : a < b =>
          \/ rows[a].rank < rows[b].rank
          \/ rows[a].rank = rows[b].rank /\ rows[a].source < rows[b].source
    <3>1. \A a, b \in DOMAIN Selection : a < b =>
            \/ Selection[a].rank < Selection[b].rank
            \/ Selection[a].rank = Selection[b].rank /\ C(a).source < C(b).source
      BY <2>1, SelectedInOrder
    <3> HIDE DEF C, kept
    <3> QED
      BY <2>2, <2>3, <3>1
  <2> QED
    BY <2>5, <2>6 DEF RowsAreRanked
<1> QED
  BY <1>1, SelectionInvHolds, PTL

(* What the lifter cannot read of a candidate, it was matched without       *)
(* reading: no input asked for at an address, but one taken wherever it     *)
(* lies or by its reference, or a reference.                                *)
LEMMA UnreadableIsPoison ==
    ASSUME SearchInv, NEW c \in Range(candidates)
    PROVE  ~Liftable(payload, c.maps)
             <=> Poison(c, {n \in DOMAIN c.maps.inputs : c.template.inputs[n].addr = None}) # {}
<1> DEFINE I == {n \in DOMAIN c.maps.inputs : c.template.inputs[n].addr = None}
<1>1. Serving("inputs", payload, c.template.inputs, c.maps.inputs) /\ IsTemplate(c.template)
  BY CandidateServes DEF Parts
<1>2. ASSUME NEW n \in DOMAIN c.maps.inputs, c.template.inputs[n].addr # None,
             NEW k \in c.maps.inputs[n]
      PROVE  ResolvedAt(payload, payload.ins[k], c.template.inputs[n].addr)
  <2>1. Serves("inputs", c.template.inputs[n], payload, c.maps.inputs[n])
    BY <1>1 DEF Serving
  <2>2. n \in DOMAIN c.template.inputs
    <3>1. /\ DOMAIN c.maps.inputs = 1 .. Len(c.maps.inputs)
          /\ Len(c.maps.inputs) = Len(c.template.inputs)
      BY <1>1 DEF Serving
    <3>2. DOMAIN c.template.inputs = 1 .. Len(c.template.inputs)
      BY <1>1 DEF IsTemplate, IsSequence, Parts
    <3> QED
      BY <3>1, <3>2
  <2>3. c.template.inputs[n].kind = "query"
    BY <1>1, <1>2, <2>2 DEF IsTemplate, Range
  <2> QED
    BY <1>2, <2>1, <2>3 DEF Serves
<1>3. ASSUME NEW r \in Decoded(payload, c.maps), r \in DOMAIN payload.resolved,
             payload.resolved[r] = Garbled
      PROVE  r \in Poison(c, I)
  <2>1. CASE \E k \in SlotsOf(c.maps.inputs) : r = payload.ins[k]
    <3>1. PICK k \in SlotsOf(c.maps.inputs) : r = payload.ins[k]
      BY <2>1
    <3>2. PICK n \in DOMAIN c.maps.inputs : k \in c.maps.inputs[n]
      BY <3>1 DEF SlotsOf, ToSet
    <3>3. n \in I
      BY <1>2, <1>3, <3>1, <3>2 DEF ResolvedAt
    <3> QED
      BY <1>3, <3>1, <3>2, <3>3 DEF Poison
  <2>2. CASE \E k \in SlotsOf(c.maps.references) : r = payload.refs[k]
    BY <1>3, <2>2 DEF Poison, SlotsOf, ToSet, Range
  <2> QED
    BY <2>1, <2>2 DEF Decoded
<1>4. ASSUME NEW r \in Poison(c, I)
      PROVE  /\ r \in Decoded(payload, c.maps) /\ r \in DOMAIN payload.resolved
             /\ payload.resolved[r] = Garbled
  BY DEF Poison, Decoded, SlotsOf, ToSet, Range
<1> QED
  BY <1>3, <1>4 DEF Liftable

(* Undecodable bytes end the process only when a candidate that is kept     *)
(* reads them, and then they do: for any transaction, sources and           *)
(* templates, a call that is done has read none of them, and a call that    *)
(* failed met some which no input asked for at an address can be.           *)
THEOREM FailsOnlyOnUseHolds == Spec => []FailsOnlyOnUse
<1>1. SelectionInv => FailsOnlyOnUse
  <2> SUFFICES ASSUME SelectionInv PROVE FailsOnlyOnUse
    OBVIOUS
  <2>1. SearchInv /\ Comparable
    BY CandidatesCompare DEF SelectionInv
  <2>2. \A k \in DOMAIN Selection : Kept(Selection[k].candidate)
    BY <2>1, SelectedInOrder DEF Kept
  <2>3. Winners \subseteq Range(candidates)
    BY DEF Winners, Range
  <2>4. ASSUME stage = "failed"
        PROVE  \E c \in Range(candidates) :
                 /\ Kept(c)
                 /\ Poison(c, {n \in DOMAIN c.maps.inputs : c.template.inputs[n].addr = None}) # {}
    <3>1. PICK k \in DOMAIN Selection : ~Liftable(payload, Selection[k].candidate.maps)
      BY <2>4 DEF SelectionInv
    <3>2. Kept(Selection[k].candidate) /\ Selection[k].candidate \in Range(candidates)
      BY <2>2, <2>3 DEF Kept
    <3> QED
      BY <2>1, <3>1, <3>2, UnreadableIsPoison
  <2>5. ASSUME stage = "done", NEW c \in Range(candidates), Kept(c)
        PROVE  Poison(c, DOMAIN c.maps.inputs) = {}
    <3>1. PICK k \in DOMAIN Selection : Selection[k].candidate = c
      BY <2>1, <2>5, SelectedInOrder DEF Kept
    <3>2. Liftable(payload, c.maps)
      BY <2>5, <3>1, DoneRows
    <3> QED
      BY <3>2 DEF Liftable, Poison, Decoded, SlotsOf, ToSet, Range
  <2> QED
    BY <2>4, <2>5 DEF FailsOnlyOnUse
<1> QED
  BY <1>1, SelectionInvHolds, PTL
=============================================================================
