--------------------------- MODULE MatchingProofs ---------------------------
(***************************************************************************)
(* The matcher, for any template and any transaction: what an assignment   *)
(* promises of the slots it gives to each part of the template.            *)
(*                                                                         *)
(* The greedy loop over a part is a fold.  A trace of it has the value     *)
(* after each template, and what is proved of the result is proved of the  *)
(* trace by induction on the number of templates served.                   *)
(***************************************************************************)
EXTENDS ProcessProofs

(* The slots of a payload, by part of the template. *)
SlotsIn(part, p) ==
    CASE part = "inputs" -> DOMAIN p.ins
      [] part = "outputs" -> DOMAIN p.outs
      [] part = "mints" -> DOMAIN p.mints
      [] part = "burns" -> DOMAIN p.mints
      [] part = "references" -> DOMAIN p.refs

(* The entries of one part of a template. *)
IsPart(part, templates) ==
    /\ IsSequence(templates)
    /\ part = "inputs" => \A i \in Range(templates) : IsSequence(i.refs)

LEMMA SlotsAreNumbers ==
    ASSUME NEW part \in Parts, NEW p, IsPayload(p)
    PROVE  SlotsIn(part, p) \subseteq Nat
<1>1. /\ DOMAIN p.ins \subseteq Nat /\ DOMAIN p.outs \subseteq Nat
      /\ DOMAIN p.mints \subseteq Nat /\ DOMAIN p.refs \subseteq Nat
  BY DEF IsPayload, IsSequence
<1> QED
  BY <1>1 DEF SlotsIn, Parts

LEMMA FirstIsOne ==
    ASSUME NEW S \in SUBSET Nat
    PROVE  /\ First(S) \subseteq S
           /\ S # {} => First(S) # {}
           /\ IsFiniteSet(First(S)) /\ Cardinality(First(S)) <= 1
<1>1. CASE S = {}
  BY <1>1, FS_EmptySet DEF First
<1>2. CASE S # {}
  <2>1. Min(S) \in S
    BY <1>2, MinInNat
  <2>2. IsFiniteSet({Min(S)}) /\ Cardinality({Min(S)}) = 1
    BY FS_Singleton
  <2>3. First(S) = {Min(S)}
    BY <1>2 DEF First
  <2> QED
    BY <1>2, <2>1, <2>2, <2>3
<1> QED
  BY <1>1, <1>2

(* An input asks for as many slots as it names references, and no slot has  *)
(* two references: when it gets them, it gets all it named.                 *)
LEMMA AllReferencesFound ==
    ASSUME NEW ins, IsInjective(ins), NEW refs, IsSequence(refs),
           NEW may \in SUBSET (DOMAIN ins), \A k \in may : ins[k] \in ToSet(refs),
           Cardinality(may) = Len(refs)
    PROVE  Range(refs) = {ins[k] : k \in may}
<1> DEFINE f == [k \in may |-> ins[k]]
<1>1. f \in Injection(may, Range(refs))
  BY DEF IsInjective, Injection, ToSet, Range
<1>2. refs \in [1 .. Len(refs) -> Range(refs)] /\ Len(refs) \in Nat
  BY DEF IsSequence
<1>3. refs \in Surjection(1 .. Len(refs), Range(refs))
  BY <1>2 DEF Surjection, Range
<1>4. IsFiniteSet(1 .. Len(refs)) /\ Cardinality(1 .. Len(refs)) = Len(refs)
  BY <1>2, CountTo
<1>5. IsFiniteSet(Range(refs)) /\ Cardinality(Range(refs)) <= Len(refs)
  BY <1>3, <1>4, FS_Surjection
<1>6. /\ Cardinality(may) <= Cardinality(Range(refs))
      /\ Cardinality(may) = Cardinality(Range(refs)) <=> f \in Surjection(may, Range(refs))
  <2> HIDE DEF f
  <2> QED
    BY <1>1, <1>5, FS_Injection
<1>7. Cardinality(Range(refs)) \in Nat
  BY <1>5, FS_CardinalityType
<1>8. f \in Surjection(may, Range(refs))
  BY <1>2, <1>5, <1>6, <1>7
<1>9. \A r \in Range(refs) : \E k \in may : ins[k] = r
  BY <1>8 DEF Surjection
<1>10. \A k \in may : ins[k] \in Range(refs)
  BY DEF ToSet, Range
<1> QED
  BY <1>9, <1>10

(* What one entry takes is free, and serves it. *)
LEMMA TakeServes ==
    ASSUME NEW part \in Parts, NEW p, IsPayload(p), NEW x,
           part = "inputs" => IsSequence(x.refs),
           NEW used, NEW slots, slots = Take(part, p, x, used), slots # None
    PROVE  slots \subseteq SlotsIn(part, p) \ used /\ Serves(part, x, p, slots)
<1> DEFINE free == SlotsIn(part, p) \ used
<1>0. free \subseteq Nat
  BY SlotsAreNumbers
<1>1. CASE part = "inputs"
  <2> DEFINE may == {k \in free : MayInput(p, x, k)}
  <2>1. free = DOMAIN p.ins \ used /\ slots = TakeInput(p, x, used)
    BY <1>1 DEF Take, SlotsIn
  <2>2. may \in SUBSET Nat
    BY <1>0
  <2>3. CASE x.kind = "refs"
    <3>1. slots = may /\ Cardinality(may) = Len(x.refs)
      BY <2>1, <2>3 DEF TakeInput
    <3>2. \A k \in may : p.ins[k] \in ToSet(x.refs)
      BY <2>3 DEF MayInput
    <3>3. Range(x.refs) = {p.ins[k] : k \in may}
      BY <1>1, <2>1, <3>1, <3>2, AllReferencesFound DEF IsPayload
    <3> QED
      BY <1>1, <2>3, <3>1, <3>3 DEF Serves
  <2>4. CASE x.kind = "query"
    <3>1. \A k \in may : x.addr # None => ResolvedAt(p, p.ins[k], x.addr)
      BY <2>4 DEF MayInput
    <3>2. CASE x.many
      <4>1. slots = may
        BY <2>1, <2>4, <3>2 DEF TakeInput
      <4> QED
        BY <1>1, <2>4, <3>1, <3>2, <4>1 DEF Serves
    <3>3. CASE ~x.many
      <4>1. slots = First(may)
        BY <2>1, <2>4, <3>3 DEF TakeInput
      <4>2. slots \subseteq may /\ Cardinality(slots) <= 1
        BY <2>2, <4>1, FirstIsOne
      <4> QED
        BY <1>1, <2>4, <3>1, <4>2 DEF Serves
    <3> QED
      BY <3>2, <3>3
  <2>5. CASE x.kind \notin {"refs", "query"}
    <3>1. slots = may
      BY <2>1, <2>5 DEF TakeInput
    <3> QED
      BY <1>1, <2>5, <3>1 DEF Serves
  <2> QED
    BY <2>3, <2>4, <2>5
<1>2. CASE part = "outputs"
  <2> DEFINE may == {k \in free : MayOutput(p, x, k)}
  <2>1. First(may) \subseteq may /\ Cardinality(First(may)) <= 1
    BY <1>0, FirstIsOne
  <2>2. slots = First(may) /\ (slots # {} \/ x.optional)
    BY <1>2 DEF Take, TakeOutput, OrFail, SlotsIn
  <2>3. \A k \in may : x.addr # None => p.outs[k].addr = x.addr
    BY DEF MayOutput
  <2> QED
    BY <1>2, <2>1, <2>2, <2>3 DEF Serves
<1>3. CASE part = "mints"
  <2> DEFINE may == {k \in free : MayMint(p, x, k)}
  <2>1. First(may) \subseteq may /\ Cardinality(First(may)) <= 1
    BY <1>0, FirstIsOne
  <2>2. slots = First(may) /\ slots # {}
    BY <1>3 DEF Take, TakeMint, OrFail, SlotsIn
  <2> QED
    BY <1>3, <2>1, <2>2 DEF Serves, MayMint
<1>4. CASE part = "burns"
  <2> DEFINE may == {k \in free : MayBurn(p, x, k)}
  <2>1. First(may) \subseteq may /\ Cardinality(First(may)) <= 1
    BY <1>0, FirstIsOne
  <2>2. slots = First(may) /\ slots # {}
    BY <1>4 DEF Take, TakeBurn, OrFail, SlotsIn
  <2> QED
    BY <1>4, <2>1, <2>2 DEF Serves, MayBurn
<1>5. CASE part = "references"
  <2> DEFINE may == {k \in free : MayReference(p, x, k)}
  <2>1. First(may) \subseteq may /\ Cardinality(First(may)) <= 1
    BY <1>0, FirstIsOne
  <2>2. slots \subseteq may /\ slots # {} /\ (x = None => slots = First(may))
    BY <1>5, <2>1 DEF Take, TakeReference, OrFail, SlotsIn
  <2>3. \A k \in may : x # None => p.refs[k] \in Range(x)
    BY DEF MayReference, ToSet, Range
  <2> QED
    BY <1>5, <2>1, <2>2, <2>3 DEF Serves
<1> QED
  BY <1>1, <1>2, <1>3, <1>4, <1>5 DEF Parts

(* A trace of the loop over a part of the template. *)
LEMMA GreedyTrace ==
    ASSUME NEW part \in Parts, NEW p, IsPayload(p), NEW templates, IsPart(part, templates)
    PROVE  \E g :
               /\ g[0] = <<>>
               /\ \A n \in 1 .. Len(templates) : g[n] = Serve(part, p, g[n - 1], templates[n])
               /\ Greedy(part, p, templates) = g[Len(templates)]
<1> DEFINE N == Len(templates)
           D == Seq(SUBSET Nat) \cup {None}
           step == [x \in (1 .. N) \X D |-> Serve(part, p, x[2], templates[x[1]])]
<1>1. N \in Nat /\ DOMAIN templates = 1 .. N /\ <<>> \in D
  BY DEF IsPart, IsSequence
<1>2. step \in [(1 .. N) \X D -> D]
  <2>1. ASSUME NEW n \in 1 .. N, NEW taken \in D
        PROVE  Serve(part, p, taken, templates[n]) \in D
    <3> DEFINE slots == Take(part, p, templates[n], UNION ToSet(taken))
    <3>1. part = "inputs" => IsSequence(templates[n].refs)
      BY <1>1 DEF IsPart, Range
    <3>2. slots # None => slots \in SUBSET Nat
      <4>1. slots = Take(part, p, templates[n], UNION ToSet(taken))
        OBVIOUS
      <4> HIDE DEF slots, N, step, D
      <4>2. slots # None => slots \subseteq SlotsIn(part, p) \ (UNION ToSet(taken))
        BY <3>1, <4>1, TakeServes
      <4> QED
        BY <4>2, SlotsAreNumbers
    <3>3. CASE taken = None \/ slots = None
      BY <3>3 DEF Serve
    <3>4. CASE taken # None /\ slots # None
      <4>1. Serve(part, p, taken, templates[n]) = Append(taken, slots)
        BY <3>4 DEF Serve
      <4>2. Append(taken, slots) \in Seq(SUBSET Nat)
        <5> HIDE DEF slots
        <5> QED
          BY <3>2, <3>4
      <4> QED
        BY <4>1, <4>2
    <3> QED
      BY <3>3, <3>4
  <2> QED
    BY <2>1
<1>3. PICK it \in [SUBSET (1 .. N) -> D] : Folds(it, N, <<>>, step)
  <2> HIDE DEF step, D, N
  <2> QED
    BY <1>1, <1>2, FoldTrace
<1> DEFINE Unfolds(f) ==
        f = [S \in SUBSET (DOMAIN templates) |->
                IF S = {} THEN <<>> ELSE Serve(part, p, f[S \ {Max(S)}], templates[Max(S)])]
           iter == CHOOSE f : Unfolds(f)
<1>4. Unfolds(it)
  <2>1. ASSUME NEW S \in SUBSET (1 .. N), S # {}
        PROVE  it[S] = Serve(part, p, it[S \ {Max(S)}], templates[Max(S)])
    <3> HIDE DEF D
    <3>1. Max(S) \in 1 .. N
      BY <1>1, <2>1, MaxInInterval
    <3>2. it[S \ {Max(S)}] \in D
      BY <1>3
    <3>3. it[S] = step[<<Max(S), it[S \ {Max(S)}]>>]
      BY <1>3, <2>1 DEF Folds
    <3> QED
      BY <3>1, <3>2, <3>3
  <2>2. it[{}] = <<>>
    BY <1>3 DEF Folds
  <2>3. it = [S \in SUBSET (1 .. N) |-> it[S]]
    BY <1>3
  <2> HIDE DEF D, step
  <2> QED
    BY <1>1, <2>1, <2>2, <2>3
<1>5. Unfolds(iter)
  BY <1>4
<1>6. Greedy(part, p, templates) = iter[DOMAIN templates]
  BY DEF Greedy, FoldLeft, MapThenFoldSet
<1> DEFINE g == [n \in 0 .. N |-> iter[1 .. n]]
<1> HIDE DEF iter, D, step
<1>7. g[0] = <<>>
  BY <1>1, <1>5
<1>8. ASSUME NEW n \in 1 .. N PROVE g[n] = Serve(part, p, g[n - 1], templates[n])
  <2>1. /\ 1 .. n \in SUBSET (1 .. N) /\ 1 .. n # {}
        /\ Max(1 .. n) = n /\ (1 .. n) \ {n} = 1 .. (n - 1)
    <3>1. N \in Nat
      BY <1>1
    <3> HIDE DEF N
    <3> QED
      BY <3>1, LastOfPrefix
  <2>2. 1 .. n \in SUBSET (DOMAIN templates) /\ 1 .. n # {}
    <3> HIDE DEF N
    <3> QED
      BY <1>1, <2>1
  <2>3. iter[1 .. n] = Serve(part, p, iter[(1 .. n) \ {Max(1 .. n)}], templates[Max(1 .. n)])
    BY <1>5, <2>2
  <2>4. g[n] = iter[1 .. n] /\ g[n - 1] = iter[1 .. (n - 1)]
    BY <1>1
  <2> QED
    BY <2>1, <2>3, <2>4
<1>9. Greedy(part, p, templates) = g[N]
  BY <1>1, <1>6
<1> QED
  BY <1>7, <1>8, <1>9

(* The first n templates of a part are served, each by slots of its own.    *)
Served(part, p, templates, taken, n) ==
    /\ taken \in Seq(SUBSET SlotsIn(part, p))
    /\ Len(taken) = n
    /\ SlotsOnce(taken)
    /\ \A k \in 1 .. n : Serves(part, templates[k], p, taken[k])

Serving(part, p, templates, map) ==
    /\ map \in Seq(SUBSET SlotsIn(part, p))
    /\ Len(map) = Len(templates)
    /\ SlotsOnce(map)
    /\ \A n \in DOMAIN map : Serves(part, templates[n], p, map[n])

(* What the next template takes leaves what the others have as it is.       *)
LEMMA ServedOneMore ==
    ASSUME NEW part \in Parts, NEW p, IsPayload(p), NEW templates, IsPart(part, templates),
           NEW n \in 1 .. Len(templates), NEW taken, Served(part, p, templates, taken, n - 1),
           NEW slots, slots = Take(part, p, templates[n], UNION ToSet(taken)), slots # None
    PROVE  Served(part, p, templates, Append(taken, slots), n)
<1>1. /\ taken \in Seq(SUBSET SlotsIn(part, p)) /\ Len(taken) = n - 1 /\ n - 1 \in Nat
      /\ SlotsOnce(taken)
      /\ \A k \in 1 .. (n - 1) : Serves(part, templates[k], p, taken[k])
  BY DEF Served, IsPart, IsSequence
<1>2. part = "inputs" => IsSequence(templates[n].refs)
  BY DEF IsPart, IsSequence, Range
<1>3. /\ slots \subseteq SlotsIn(part, p) \ (UNION ToSet(taken))
      /\ Serves(part, templates[n], p, slots)
  BY <1>2, TakeServes
<1>4. slots \in SUBSET SlotsIn(part, p)
  BY <1>3
<1>5. /\ Append(taken, slots) \in Seq(SUBSET SlotsIn(part, p))
      /\ Len(Append(taken, slots)) = n
      /\ DOMAIN Append(taken, slots) = 1 .. n /\ DOMAIN taken = 1 .. (n - 1)
      /\ \A k \in 1 .. (n - 1) : Append(taken, slots)[k] = taken[k]
      /\ Append(taken, slots)[n] = slots
  <2> DEFINE S == SUBSET SlotsIn(part, p)
  <2>1. n \in Nat
    BY DEF IsPart, IsSequence
  <2>2. taken \in Seq(S) /\ slots \in S /\ Len(taken) = n - 1
    BY <1>1, <1>4
  <2>3. S = SUBSET SlotsIn(part, p)
    OBVIOUS
  <2> HIDE DEF S
  <2>4. /\ Append(taken, slots) \in Seq(S) /\ Len(Append(taken, slots)) = n
        /\ DOMAIN Append(taken, slots) = 1 .. n /\ DOMAIN taken = 1 .. (n - 1)
        /\ \A k \in 1 .. (n - 1) : Append(taken, slots)[k] = taken[k]
        /\ Append(taken, slots)[n] = slots
    BY <2>1, <2>2, OneLonger
  <2> QED
    BY <2>3, <2>4
<1>6. \A k \in 1 .. (n - 1) : taken[k] \cap slots = {}
  BY <1>3, <1>5 DEF ToSet
<1>7. \A a, b \in 1 .. (n - 1) : a # b => taken[a] \cap taken[b] = {}
  BY <1>1, <1>5 DEF SlotsOnce
<1>8. SlotsOnce(Append(taken, slots))
  <2>1. ASSUME NEW a \in 1 .. n, NEW b \in 1 .. n, a # b
        PROVE  Append(taken, slots)[a] \cap Append(taken, slots)[b] = {}
    <3>1. a \in 1 .. (n - 1) \/ a = n
      OBVIOUS
    <3>2. b \in 1 .. (n - 1) \/ b = n
      OBVIOUS
    <3> QED
      BY <2>1, <3>1, <3>2, <1>5, <1>6, <1>7
  <2> QED
    BY <1>5, <2>1 DEF SlotsOnce
<1>9. ASSUME NEW k \in 1 .. n PROVE Serves(part, templates[k], p, Append(taken, slots)[k])
  <2>1. CASE k = n
    BY <1>3, <1>5, <2>1
  <2>2. CASE k # n
    <3>1. k \in 1 .. (n - 1)
      BY <2>2
    <3> QED
      BY <1>1, <1>5, <3>1
  <2> QED
    BY <2>1, <2>2
<1> QED
  BY <1>5, <1>8, <1>9 DEF Served

(* What the loop over a part finds serves it, when it finds something.      *)
LEMMA GreedyIsSound ==
    ASSUME NEW part \in Parts, NEW p, IsPayload(p), NEW templates, IsPart(part, templates),
           Greedy(part, p, templates) # None
    PROVE  Serving(part, p, templates, Greedy(part, p, templates))
<1> DEFINE map == Greedy(part, p, templates)
           N == Len(templates)
<1>1. N \in Nat /\ DOMAIN templates = 1 .. N
  BY DEF IsPart, IsSequence
<1>2. PICK g :
        /\ g[0] = <<>>
        /\ \A n \in 1 .. N : g[n] = Serve(part, p, g[n - 1], templates[n])
        /\ map = g[N]
  BY GreedyTrace
<1> DEFINE T == {n \in Nat : g[n] = None \/ Served(part, p, templates, g[n], n)}
<1>3. 0 \in T
  <2>1. Served(part, p, templates, <<>>, 0)
    BY DEF Served, SlotsOnce
  <2> QED
    BY <1>2, <2>1
<1>4. ASSUME NEW n \in 1 .. N, n - 1 \in T PROVE n \in T
  <2> DEFINE taken == g[n - 1]
             slots == Take(part, p, templates[n], UNION ToSet(taken))
  <2>0. g[n] = Serve(part, p, taken, templates[n]) /\ n \in Nat
    BY <1>1, <1>2
  <2>1. CASE taken = None \/ slots = None
    <3>1. g[n] = None
      BY <2>0, <2>1 DEF Serve
    <3> QED
      BY <2>0, <3>1
  <2>2. CASE taken # None /\ slots # None
    <3>1. g[n] = Append(taken, slots)
      BY <2>0, <2>2 DEF Serve
    <3>2. Served(part, p, templates, taken, n - 1)
      BY <1>4, <2>2
    <3>3. slots = Take(part, p, templates[n], UNION ToSet(taken))
      OBVIOUS
    <3> HIDE DEF slots, taken, T
    <3>4. Served(part, p, templates, g[n], n)
      BY <2>2, <3>1, <3>2, <3>3, ServedOneMore
    <3> QED
      BY <2>0, <3>4 DEF T
  <2> QED
    BY <2>1, <2>2
<1>5. N \in T
  <2> HIDE DEF T, N
  <2> QED
    BY <1>1, <1>3, <1>4, UpTo
<1>6. map # None /\ map = g[N]
  BY <1>2
<1>7. Served(part, p, templates, map, N)
  BY <1>5, <1>6
<1> HIDE DEF map
<1>8. DOMAIN map = 1 .. N
  BY <1>7 DEF Served
<1> QED
  BY <1>7, <1>8 DEF Served, Serving, map

(* A match has found something for every part of the template.              *)
LEMMA MatchServes ==
    ASSUME NEW t, IsTemplate(t), NEW p, IsPayload(p), MatchTx(t, p) # None
    PROVE  /\ None \notin Range(MatchTx(t, p))
           /\ \A part \in Parts : Serving(part, p, t[part], MatchTx(t, p)[part])
<1> DEFINE maps == Assign(t, p)
<1>1. MatchTx(t, p) = maps /\ None \notin Range(maps)
  BY DEF MatchTx
<1>2. ASSUME NEW part \in Parts
      PROVE  Serving(part, p, t[part], maps[part])
  <2>1. maps[part] = Greedy(part, p, t[part]) /\ maps[part] # None
    BY <1>1 DEF Assign, Range
  <2>2. IsPart(part, t[part])
    BY DEF IsTemplate, IsPart
  <2>3. Serving(part, p, t[part], Greedy(part, p, t[part]))
    BY <2>1, <2>2, GreedyIsSound
  <2> QED
    BY <2>1, <2>3
<1> HIDE DEF maps
<1> QED
  BY <1>1, <1>2

(* What MatchTx returns is a sound assignment, for every template and every *)
(* transaction (match_tx, assign_input, assign_input_by_query).             *)
THEOREM MatchIsSound ==
    ASSUME NEW t, IsTemplate(t), NEW p, IsPayload(p), MatchTx(t, p) # None
    PROVE  Sound(t, p, MatchTx(t, p))
  BY MatchServes DEF Sound, Serving

(* What is known of a candidate: its template, its parties and its slots.   *)
LEMMA CandidateServes ==
    ASSUME SearchInv, NEW c \in Range(candidates)
    PROVE  /\ IsPayload(payload) /\ IsTemplate(c.template)
           /\ IsSequence(c.parties) /\ None \notin Range(c.parties)
           /\ c.maps = MatchTx(c.template, payload) /\ c.maps # None
           /\ None \notin Range(c.maps)
           /\ \A part \in Parts : Serving(part, payload, c.template[part], c.maps[part])
<1>1. PICK i \in DOMAIN sources :
        \E j \in DOMAIN sources[i].txs : Matches(i, j) /\ c = CandidateOf(i, j)
  BY DEF SearchInv, Descended
<1>2. PICK j \in DOMAIN sources[i].txs : Matches(i, j) /\ c = CandidateOf(i, j)
  BY <1>1
<1>3. /\ c.template = TemplateOf(i, j) /\ c.parties = sources[i].profile.parties
      /\ c.maps = MatchTx(TemplateOf(i, j), payload)
  BY <1>2 DEF CandidateOf
<1>4. IsSource(sources[i]) /\ IsPayload(payload)
  BY DEF SearchInv, Configured, Range
<1>5. IsTemplate(c.template) /\ IsSequence(c.parties) /\ None \notin Range(c.parties)
  BY <1>3, <1>4 DEF IsSource, TemplateOf, Range
<1>6. c.maps = MatchTx(c.template, payload) /\ c.maps # None
  BY <1>2, <1>3 DEF Matches
<1> QED
  BY <1>4, <1>5, <1>6, MatchServes

(* Every match that the process ranks, lifts and stores gives each part of  *)
(* its template slots that may serve it, no slot twice, every constant      *)
(* reference, and something to every part that may not go without.          *)
THEOREM AssignmentSoundHolds == Spec => []AssignmentSound
<1>1. SearchInv => AssignmentSound
  BY CandidateServes, MatchIsSound DEF AssignmentSound
<1> QED
  BY <1>1, SearchInvHolds, PTL
-----------------------------------------------------------------------------
(* Completeness *)

(* A loop in which no template is left without finds something.             *)
LEMMA GreedyFinds ==
    ASSUME NEW part \in Parts, NEW p, IsPayload(p), NEW templates, IsPart(part, templates),
           \A n \in 1 .. Len(templates) : \A taken :
               Served(part, p, templates, taken, n - 1)
               => Take(part, p, templates[n], UNION ToSet(taken)) # None
    PROVE  Greedy(part, p, templates) \in Seq(SUBSET Nat)
<1> DEFINE map == Greedy(part, p, templates)
           N == Len(templates)
<1>1. N \in Nat
  BY DEF IsPart, IsSequence
<1>2. PICK g :
        /\ g[0] = <<>>
        /\ \A n \in 1 .. N : g[n] = Serve(part, p, g[n - 1], templates[n])
        /\ map = g[N]
  BY GreedyTrace
<1>3. \A taken, n : Served(part, p, templates, taken, n) => taken \in Seq(SUBSET Nat)
  <2> SUFFICES ASSUME NEW taken, NEW n, Served(part, p, templates, taken, n)
               PROVE  taken \in Seq(SUBSET Nat)
    OBVIOUS
  <2>1. taken \in Seq(SUBSET SlotsIn(part, p))
    BY DEF Served
  <2>2. SlotsIn(part, p) \subseteq Nat
    BY SlotsAreNumbers
  <2>3. \A k \in DOMAIN taken : taken[k] \in SUBSET Nat
    BY <2>1, <2>2
  <2>4. taken \in [1 .. Len(taken) -> SUBSET Nat] /\ Len(taken) \in Nat
    BY <2>1, <2>3
  <2> QED
    BY <2>4
<1> DEFINE T == {n \in Nat : Served(part, p, templates, g[n], n)}
<1>4. 0 \in T
  <2>1. Served(part, p, templates, <<>>, 0)
    BY DEF Served, SlotsOnce
  <2> QED
    BY <1>2, <2>1
<1>5. ASSUME NEW n \in 1 .. N, n - 1 \in T PROVE n \in T
  <2> DEFINE taken == g[n - 1]
             slots == Take(part, p, templates[n], UNION ToSet(taken))
  <2>1. Served(part, p, templates, taken, n - 1) /\ n \in Nat
    BY <1>1, <1>5
  <2>2. taken # None
    <3> HIDE DEF taken
    <3>1. taken \in Seq(SUBSET Nat)
      BY <1>3, <2>1
    <3> QED
      BY <3>1, NothingAssumption
  <2>3. slots # None
    <3> HIDE DEF taken
    <3> QED
      BY <2>1
  <2>4. g[n] = Serve(part, p, taken, templates[n])
    BY <1>2
  <2>5. g[n] = Append(taken, slots)
    BY <2>2, <2>3, <2>4 DEF Serve
  <2>6. slots = Take(part, p, templates[n], UNION ToSet(taken))
    OBVIOUS
  <2> HIDE DEF slots, taken, T
  <2>7. Served(part, p, templates, g[n], n)
    BY <2>1, <2>3, <2>5, <2>6, ServedOneMore
  <2> QED
    BY <2>1, <2>7 DEF T
<1>6. N \in T
  <2> HIDE DEF T, N
  <2>1. \A n \in 1 .. N : n - 1 \in T => n \in T
    BY <1>5
  <2>2. 0 .. N \subseteq T
    BY <1>1, <1>4, <2>1, UpTo
  <2> QED
    BY <1>1, <2>2
<1>7. Served(part, p, templates, map, N)
  BY <1>2, <1>6
<1> HIDE DEF map
<1> QED
  BY <1>3, <1>7 DEF map

(* Places are found, and not taken for nothing.                             *)
LEMMA PlacesAreSomething ==
    ASSUME NEW p, IsPayload(p), NEW part \in Parts, NEW S \in SUBSET SlotsIn(part, p)
    PROVE  S # None
<1>1. SlotsIn(part, p) \subseteq Places(p)
  BY DEF SlotsIn, Parts, Places
<1> QED
  BY <1>1 DEF IsPayload

(* Different references that are all inputs stand at as many places.        *)
LEMMA EachNamedOnce ==
    ASSUME NEW ins, IsSequence(ins), IsInjective(ins),
           NEW refs, IsSequence(refs), IsInjective(refs), Range(refs) \subseteq Range(ins)
    PROVE  Cardinality({k \in DOMAIN ins : ins[k] \in Range(refs)}) = Len(refs)
<1> DEFINE K == {k \in DOMAIN ins : ins[k] \in Range(refs)}
           f == [k \in K |-> ins[k]]
<1>1. f \in Bijection(K, Range(refs))
  <2>1. f \in Injection(K, Range(refs))
    BY DEF IsInjective, Injection
  <2>2. \A r \in Range(refs) : \E k \in K : f[k] = r
    BY DEF Range
  <2>3. f \in Surjection(K, Range(refs))
    BY <2>1, <2>2 DEF Surjection, Injection
  <2> QED
    BY <2>1, <2>3 DEF Bijection
<1>2. refs \in Bijection(DOMAIN refs, Range(refs))
  <2>1. refs \in [DOMAIN refs -> Range(refs)]
    BY DEF IsSequence
  <2> QED
    BY <2>1 DEF Bijection, Injection, Surjection, IsInjective, Range
<1>3. IsFiniteSet(K) /\ IsFiniteSet(DOMAIN refs) /\ Cardinality(DOMAIN refs) = Len(refs)
  <2>1. IsFiniteSet(DOMAIN ins)
    BY RangeIsFinite
  <2> QED
    BY <2>1, RangeIsFinite, FS_Subset
<1>4. Cardinality(Range(refs)) = Cardinality(K)
  <2> HIDE DEF f, K
  <2> QED
    BY <1>1, <1>3, FS_Bijection DEF ExistsBijection
<1>5. Cardinality(Range(refs)) = Cardinality(DOMAIN refs)
  BY <1>2, <1>3, FS_Bijection DEF ExistsBijection
<1> QED
  BY <1>3, <1>4, <1>5

(* The constant references are found, since no earlier input took them.     *)
LEMMA InputsFound ==
    ASSUME NEW t, IsTemplate(t), Literal(t), NEW p, IsPayload(p), Builds(t, p)
    PROVE  Greedy("inputs", p, t.inputs) \in Seq(SUBSET Nat)
<1>1. "inputs" \in Parts /\ IsPart("inputs", t.inputs)
  BY DEF IsTemplate, IsPart, Parts
<1>2. DOMAIN t.inputs = 1 .. Len(t.inputs) /\ Len(t.inputs) \in Nat
  BY <1>1 DEF IsPart, IsSequence
<1>3. SlotsIn("inputs", p) = DOMAIN p.ins
  BY DEF SlotsIn
<1>4. ASSUME NEW n \in 1 .. Len(t.inputs), NEW taken,
             Served("inputs", p, t.inputs, taken, n - 1)
      PROVE  Take("inputs", p, t.inputs[n], UNION ToSet(taken)) # None
  <2> DEFINE x == t.inputs[n]
             used == UNION ToSet(taken)
             may == {k \in DOMAIN p.ins \ used : MayInput(p, x, k)}
  <2>1. Take("inputs", p, x, used) = TakeInput(p, x, used)
    BY DEF Take
  <2>2. may # None /\ First(may) # None
    <3>1. may \in SUBSET Nat /\ may \in SUBSET SlotsIn("inputs", p)
      BY <1>1, <1>3, SlotsAreNumbers
    <3> HIDE DEF may
    <3>2. First(may) \subseteq may
      BY <3>1, FirstIsOne
    <3> QED
      BY <1>1, <3>1, <3>2, PlacesAreSomething
  <2>3. CASE x.kind # "refs"
    BY <2>1, <2>2, <2>3 DEF TakeInput
  <2>4. CASE x.kind = "refs"
    <3>1. x \in Range(t.inputs) /\ n \in DOMAIN t.inputs
      BY <1>2 DEF Range
    <3>2. IsSequence(x.refs) /\ IsInjective(x.refs)
      BY <2>4, <3>1 DEF IsTemplate, Literal
    <3>3. Range(x.refs) \subseteq Range(p.ins)
      BY <2>4, <3>1 DEF Builds, SpendsInputs, NamedInputs
    <3>4. ASSUME NEW k \in DOMAIN p.ins, p.ins[k] \in Range(x.refs) PROVE k \notin used
      <4>1. SUFFICES ASSUME NEW m \in DOMAIN taken, k \in taken[m] PROVE FALSE
        BY DEF ToSet
      <4>2. m \in 1 .. (n - 1)
        BY <1>4, <1>2 DEF Served
      <4>3. m \in DOMAIN t.inputs /\ m < n
        BY <1>2, <4>2
      <4>4. t.inputs[m].kind = "refs" /\ Range(t.inputs[m].refs) \cap Range(x.refs) = {}
        BY <2>4, <3>1, <4>3 DEF Literal
      <4>5. Serves("inputs", t.inputs[m], p, taken[m])
        BY <1>4, <4>2 DEF Served
      <4>6. Range(t.inputs[m].refs) = {p.ins[l] : l \in taken[m]}
        BY <4>4, <4>5 DEF Serves
      <4> QED
        BY <3>4, <4>1, <4>4, <4>6
    <3>5. may = {k \in DOMAIN p.ins : p.ins[k] \in Range(x.refs)}
      BY <2>4, <3>4 DEF MayInput, ToSet, Range
    <3>6. Cardinality(may) = Len(x.refs)
      <4> HIDE DEF may
      <4> QED
        BY <3>2, <3>3, <3>5, EachNamedOnce DEF IsPayload
    <3> QED
      BY <2>1, <2>2, <2>4, <3>6 DEF TakeInput
  <2> QED
    BY <2>3, <2>4
<1> QED
  BY <1>1, <1>4, GreedyFinds

LEMMA OneAtMost ==
    ASSUME NEW S, IsFiniteSet(S), Cardinality(S) <= 1, NEW x \in S, NEW y \in S
    PROVE  x = y
<1>1. Cardinality(S) \in Nat /\ Cardinality(S) # 0
  BY FS_CardinalityType, FS_EmptySet
<1>2. Cardinality(S) = 1
  BY <1>1
<1>3. PICK z : S = {z}
  BY <1>2, FS_Singleton
<1> QED
  BY <1>3

(* The templates up to the n-th that go to its address have a seat each at  *)
(* that address, and those before it cannot have taken all of the seats.    *)
LEMMA OutputsFound ==
    ASSUME NEW t, IsTemplate(t), Literal(t), NEW p, IsPayload(p), Builds(t, p)
    PROVE  Greedy("outputs", p, t.outputs) \in Seq(SUBSET Nat)
<1>1. "outputs" \in Parts /\ IsPart("outputs", t.outputs)
  BY DEF IsTemplate, IsPart, Parts
<1>2. DOMAIN t.outputs = 1 .. Len(t.outputs) /\ Len(t.outputs) \in Nat
  BY <1>1 DEF IsPart, IsSequence
<1>3. SlotsIn("outputs", p) = DOMAIN p.outs
  BY DEF SlotsIn
<1>4. PICK seat \in [DOMAIN t.outputs -> DOMAIN p.outs] :
        /\ \A a, b \in DOMAIN t.outputs : seat[a] = seat[b] => a = b
        /\ \A n \in DOMAIN t.outputs : t.outputs[n].addr \in {None, p.outs[seat[n]].addr}
  <2>1. {n \in DOMAIN t.outputs : ~t.outputs[n].optional} = DOMAIN t.outputs
    BY DEF Literal
  <2> QED
    BY <2>1 DEF Builds, MakesOutputs, Seated, IsInjective
<1>5. ASSUME NEW n \in 1 .. Len(t.outputs), NEW taken,
             Served("outputs", p, t.outputs, taken, n - 1)
      PROVE  Take("outputs", p, t.outputs[n], UNION ToSet(taken)) # None
  <2> DEFINE x == t.outputs[n]
             used == UNION ToSet(taken)
             may == {k \in DOMAIN p.outs \ used : MayOutput(p, x, k)}
             rivals == {m \in 1 .. n : x.addr = None \/ t.outputs[m].addr = x.addr}
             server == [m \in rivals |-> CHOOSE l \in 1 .. (n - 1) : seat[m] \in taken[l]]
  <2>0. n \in Nat /\ n \in DOMAIN t.outputs /\ 1 .. n \subseteq DOMAIN t.outputs
    BY <1>2
  <2>1. Take("outputs", p, x, used) = OrFail(First(may))
    BY <2>0 DEF Take, TakeOutput, Literal
  <2>2. ASSUME NEW l \in 1 .. (n - 1)
        PROVE  /\ taken[l] \subseteq DOMAIN p.outs /\ IsFiniteSet(taken[l])
               /\ Cardinality(taken[l]) <= 1
               /\ t.outputs[l].addr # None =>
                    \A k \in taken[l] : p.outs[k].addr = t.outputs[l].addr
    <3>1. Serves("outputs", t.outputs[l], p, taken[l]) /\ taken[l] \in SUBSET SlotsIn("outputs", p)
      BY <1>5, <2>0 DEF Served
    <3>2. IsFiniteSet(DOMAIN p.outs)
      BY RangeIsFinite DEF IsPayload
    <3>3. taken[l] \in SUBSET (DOMAIN p.outs)
      BY <1>3, <3>1
    <3>4. IsFiniteSet(taken[l])
      BY <3>2, <3>3, FS_Subset
    <3> QED
      BY <3>1, <3>3, <3>4 DEF Serves
  <2>3. may # {}
    <3> SUFFICES ASSUME may = {} PROVE FALSE
      OBVIOUS
    <3>1. ASSUME NEW m \in rivals
          PROVE  /\ server[m] \in rivals \ {n}
                 /\ seat[m] \in taken[server[m]]
      <4>1. m \in DOMAIN t.outputs /\ seat[m] \in DOMAIN p.outs
        BY <1>4, <2>0
      <4>2. MayOutput(p, x, seat[m])
        BY <1>4, <4>1 DEF MayOutput
      <4>3. seat[m] \in used
        BY <4>1, <4>2
      <4>4. \E l \in 1 .. (n - 1) : seat[m] \in taken[l]
        <5>1. DOMAIN taken = 1 .. (n - 1)
          BY <1>5, <2>0 DEF Served
        <5> QED
          BY <4>3, <5>1 DEF ToSet
      <4>5. server[m] \in 1 .. (n - 1) /\ seat[m] \in taken[server[m]]
        BY <4>4
      <4> DEFINE l == server[m]
      <4> HIDE DEF server
      <4>6. l \in 1 .. n /\ l # n /\ l < n
        BY <2>0, <4>5
      <4>7. x.addr # None => t.outputs[l].addr = x.addr
        <5>1. x.addr # None => t.outputs[l].addr # None
          BY <2>0, <4>6 DEF Literal
        <5>2. x.addr # None => p.outs[seat[m]].addr = x.addr
          BY <4>2 DEF MayOutput
        <5>3. t.outputs[l].addr # None => p.outs[seat[m]].addr = t.outputs[l].addr
          BY <2>2, <4>5
        <5> QED
          BY <5>1, <5>2, <5>3
      <4> QED
        BY <4>5, <4>6, <4>7
    <3>2. server \in Injection(rivals, rivals \ {n})
      <4>1. server \in [rivals -> rivals \ {n}]
        BY <3>1
      <4>2. ASSUME NEW a \in rivals, NEW b \in rivals, server[a] = server[b] PROVE a = b
        <5>1. server[a] \in 1 .. (n - 1)
          <6>1. server[a] \in rivals \ {n}
            BY <3>1
          <6> HIDE DEF server
          <6> QED
            BY <2>0, <6>1
        <5>2. seat[a] \in taken[server[a]] /\ seat[b] \in taken[server[a]]
          BY <3>1, <4>2
        <5> HIDE DEF server
        <5>3. seat[a] = seat[b]
          BY <2>2, <5>1, <5>2, OneAtMost
        <5>4. a \in DOMAIN t.outputs /\ b \in DOMAIN t.outputs
          BY <2>0
        <5> QED
          BY <1>4, <5>3, <5>4
      <4> HIDE DEF server
      <4> QED
        BY <4>1, <4>2 DEF Injection, IsInjective
    <3>3. n \in rivals /\ IsFiniteSet(rivals)
      <4>1. IsFiniteSet(1 .. n) /\ rivals \in SUBSET (1 .. n)
        BY <2>0, CountTo
      <4>2. n \in rivals
        BY <2>0
      <4> HIDE DEF rivals
      <4> QED
        BY <4>1, <4>2, FS_Subset
    <3> HIDE DEF rivals, server
    <3>4. IsFiniteSet(rivals \ {n}) /\ Cardinality(rivals \ {n}) = Cardinality(rivals) - 1
      BY <3>3, FS_RemoveElement
    <3>5. Cardinality(rivals) \in Nat /\ Cardinality(rivals) <= Cardinality(rivals \ {n})
      BY <3>2, <3>3, <3>4, FS_Injection, FS_CardinalityType
    <3> QED
      BY <3>4, <3>5
  <2>4. First(may) # {} /\ First(may) # None
    <3>1. may \in SUBSET Nat /\ may \in SUBSET SlotsIn("outputs", p)
      BY <1>1, <1>3, SlotsAreNumbers
    <3> HIDE DEF may
    <3>2. First(may) \subseteq may /\ First(may) # {}
      BY <2>3, <3>1, FirstIsOne
    <3> QED
      BY <1>1, <3>1, <3>2, PlacesAreSomething
  <2> QED
    BY <2>1, <2>4 DEF OrFail
<1> QED
  BY <1>1, <1>5, GreedyFinds

(* What was moved has a slot, and the only mint (burn) finds it free.       *)
LEMMA MovesFound ==
    ASSUME NEW part \in {"mints", "burns"},
           NEW t, IsTemplate(t), Literal(t), NEW p, IsPayload(p), Builds(t, p)
    PROVE  Greedy(part, p, t[part]) \in Seq(SUBSET Nat)
<1> DEFINE may(x) == {k \in DOMAIN p.mints :
                          IF part = "mints" THEN MayMint(p, x, k) ELSE MayBurn(p, x, k)}
           moved == IF part = "mints" THEN Minted(p) ELSE Burned(p)
<1>1. part \in Parts /\ IsPart(part, t[part]) /\ SlotsIn(part, p) = DOMAIN p.mints
  BY DEF IsTemplate, IsPart, Parts, SlotsIn
<1>2. DOMAIN t[part] = 1 .. Len(t[part]) /\ Len(t[part]) \in Nat /\ Len(t[part]) <= 1
  BY <1>1 DEF IsPart, IsSequence, Literal
<1>3. ASSUME NEW n \in 1 .. Len(t[part]), NEW taken, Served(part, p, t[part], taken, n - 1)
      PROVE  Take(part, p, t[part][n], UNION ToSet(taken)) # None
  <2> DEFINE x == t[part][n]
  <2>1. n = 1
    BY <1>2
  <2>2. UNION ToSet(taken) = {}
    <3>1. DOMAIN taken = {}
      BY <1>3, <2>1 DEF Served
    <3> QED
      BY <3>1 DEF ToSet
  <2>3. Take(part, p, x, UNION ToSet(taken)) = OrFail(First(may(x)))
    BY <2>2 DEF Take, TakeMint, TakeBurn
  <2>4. Moves(x, moved)
    <3>1. x \in Range(t[part])
      BY <1>2 DEF Range
    <3> QED
      BY <3>1 DEF Builds
  <2>5. may(x) # {}
    <3>1. PICK m \in moved : x = {} \/ m.policy \in x
      BY <2>4 DEF Moves, PoliciesOf
    <3>2. m \in ToSet(p.mints) /\ IF part = "mints" THEN m.up ELSE m.down
      BY <3>1 DEF Minted, Burned
    <3>3. PICK k \in DOMAIN p.mints : p.mints[k] = m
      BY <3>2 DEF ToSet
    <3>4. k \in may(x)
      BY <3>1, <3>2, <3>3 DEF MayMint, MayBurn
    <3> QED
      BY <3>4
  <2>6. First(may(x)) # {} /\ First(may(x)) # None
    <3>1. may(x) \in SUBSET Nat /\ may(x) \in SUBSET SlotsIn(part, p)
      BY <1>1, SlotsAreNumbers
    <3> HIDE DEF may
    <3>2. First(may(x)) \subseteq may(x) /\ First(may(x)) # {}
      BY <2>5, <3>1, FirstIsOne
    <3> QED
      BY <1>1, <3>1, <3>2, PlacesAreSomething
  <2> HIDE DEF may
  <2> QED
    BY <2>3, <2>6 DEF OrFail
<1> QED
  BY <1>1, <1>3, GreedyFinds

(* A constant reference is found where no other reference looks, and those  *)
(* that may be anywhere are fewer than the places left.                     *)
LEMMA ReferencesFound ==
    ASSUME NEW t, IsTemplate(t), Literal(t), NEW p, IsPayload(p), Builds(t, p)
    PROVE  Greedy("references", p, t.references) \in Seq(SUBSET Nat)
<1> DEFINE named == NamedReferences(t)
           blanks == {m \in DOMAIN t.references : t.references[m] = None}
<1>1. "references" \in Parts /\ IsPart("references", t.references)
  BY DEF IsTemplate, IsPart, Parts
<1>2. DOMAIN t.references = 1 .. Len(t.references) /\ Len(t.references) \in Nat
  BY <1>1 DEF IsPart, IsSequence
<1>3. SlotsIn("references", p) = DOMAIN p.refs
  BY DEF SlotsIn
<1>4. /\ IsFiniteSet(DOMAIN p.refs) /\ Cardinality(DOMAIN p.refs) = Len(p.refs)
      /\ IsFiniteSet(Range(p.refs))
  BY RangeIsFinite DEF IsPayload
<1>5. /\ \A r \in Range(t.references) \ {None} : Range(r) \subseteq named
      /\ named \subseteq Range(p.refs) /\ IsFiniteSet(named) /\ Cardinality(named) \in Nat
      /\ IsFiniteSet(blanks) /\ Cardinality(blanks) \in Nat
      /\ Cardinality(blanks) + Cardinality(named) <= Len(p.refs)
  <2>1. RefersTo(t, p)
    BY DEF Builds
  <2>2. /\ named \subseteq Range(p.refs)
        /\ Cardinality(blanks) + Cardinality(named) <= Len(p.refs)
    BY <2>1 DEF RefersTo
  <2>3. named \in SUBSET Range(p.refs)
    BY <2>2
  <2>0. \A r \in Range(t.references) \ {None} : Range(r) \subseteq named
    BY DEF NamedReferences
  <2>4. IsFiniteSet(DOMAIN t.references) /\ blanks \in SUBSET (DOMAIN t.references)
    BY <1>2, CountTo
  <2> HIDE DEF named, blanks
  <2>5. IsFiniteSet(named) /\ IsFiniteSet(blanks)
    BY <1>4, <2>3, <2>4, FS_Subset
  <2> QED
    BY <2>0, <2>2, <2>3, <2>5, FS_CardinalityType
<1>6. ASSUME NEW n \in 1 .. Len(t.references), NEW taken,
             Served("references", p, t.references, taken, n - 1)
      PROVE  Take("references", p, t.references[n], UNION ToSet(taken)) # None
  <2> DEFINE r == t.references[n]
             used == UNION ToSet(taken)
             may == {k \in DOMAIN p.refs \ used : MayReference(p, r, k)}
  <2>1. Take("references", p, r, used) = OrFail(IF r = None THEN First(may) ELSE may)
    BY DEF Take, TakeReference
  <2>2. n \in Nat /\ n \in DOMAIN t.references /\ \A m \in 1 .. (n - 1) : m \in DOMAIN t.references /\ m < n
    BY <1>2
  <2>3. DOMAIN taken = 1 .. (n - 1)
    BY <1>6, <2>2 DEF Served
  <2>4. ASSUME NEW m \in 1 .. (n - 1)
        PROVE  /\ taken[m] \subseteq DOMAIN p.refs /\ IsFiniteSet(taken[m])
               /\ t.references[m] = None => Cardinality(taken[m]) <= 1
               /\ t.references[m] # None =>
                    \A k \in taken[m] : p.refs[k] \in Range(t.references[m])
    <3>1. Serves("references", t.references[m], p, taken[m]) /\ taken[m] \in SUBSET SlotsIn("references", p)
      BY <1>6, <2>2 DEF Served
    <3>2. taken[m] \in SUBSET (DOMAIN p.refs)
      BY <1>3, <3>1
    <3>3. IsFiniteSet(taken[m])
      BY <1>4, <3>2, FS_Subset
    <3>4. t.references[m] # None => {p.refs[k] : k \in taken[m]} \subseteq Range(t.references[m])
      BY <3>1 DEF Serves
    <3> QED
      BY <3>1, <3>2, <3>3, <3>4 DEF Serves
  <2>5. may # {}
    <3>1. CASE r # None
      <4>1. PICK q : q \in Range(r)
        <5>1. r \in Range(t.references)
          BY <2>2 DEF Range
        <5>2. IsSequence(r) /\ r # <<>>
          BY <3>1, <5>1 DEF IsTemplate, Literal
        <5>3. 1 \in DOMAIN r
          BY <5>2 DEF IsSequence
        <5> QED
          BY <5>3 DEF Range
      <4>2. PICK k \in DOMAIN p.refs : p.refs[k] = q
        <5>1. r \in Range(t.references) \ {None}
          BY <2>2, <3>1 DEF Range
        <5>2. q \in Range(p.refs)
          BY <1>5, <4>1, <5>1
        <5> QED
          BY <5>2 DEF Range
      <4>3. k \notin used
        <5>1. SUFFICES ASSUME NEW m \in 1 .. (n - 1), k \in taken[m] PROVE FALSE
          BY <2>3 DEF ToSet
        <5>2. t.references[m] # None /\ Range(t.references[m]) \cap Range(r) = {}
          BY <2>2, <3>1 DEF Literal
        <5>3. q \in Range(t.references[m])
          BY <2>4, <4>2, <5>1, <5>2
        <5> QED
          BY <4>1, <5>2, <5>3
      <4>4. k \in may
        BY <4>1, <4>2, <4>3 DEF MayReference, ToSet, Range
      <4> QED
        BY <4>4
    <3>2. CASE r = None
      <4> SUFFICES ASSUME may = {} PROVE FALSE
        OBVIOUS
      <4> DEFINE here == {m \in blanks : m # n}
                 taker == [k \in DOMAIN p.refs |-> CHOOSE m \in 1 .. (n - 1) : k \in taken[m]]
                 any == {k \in DOMAIN p.refs : t.references[taker[k]] = None}
                 asked == {k \in DOMAIN p.refs : t.references[taker[k]] # None}
                 ref == [k \in asked |-> p.refs[k]]
                 by == [k \in any |-> taker[k]]
      <4>1. ASSUME NEW k \in DOMAIN p.refs PROVE taker[k] \in 1 .. (n - 1) /\ k \in taken[taker[k]]
        <5>1. k \in used
          BY <3>2 DEF MayReference
        <5>2. \E m \in 1 .. (n - 1) : k \in taken[m]
          BY <2>3, <5>1 DEF ToSet
        <5> QED
          BY <5>2
      <4> HIDE DEF taker
      <4>2. by \in Injection(any, here)
        <5>1. ASSUME NEW k \in any PROVE taker[k] \in here
          BY <2>2, <4>1
        <5>2. ASSUME NEW a \in any, NEW b \in any, taker[a] = taker[b] PROVE a = b
          <6>1. /\ taker[a] \in 1 .. (n - 1) /\ t.references[taker[a]] = None
                /\ a \in taken[taker[a]] /\ b \in taken[taker[a]]
            BY <4>1, <5>2
          <6> QED
            BY <2>4, <6>1, OneAtMost
        <5> QED
          BY <5>1, <5>2 DEF Injection, IsInjective
      <4>3. ref \in Injection(asked, named)
        <5>1. ASSUME NEW k \in asked PROVE p.refs[k] \in named
          <6>1. taker[k] \in 1 .. (n - 1) /\ k \in taken[taker[k]]
            BY <4>1
          <6>2. p.refs[k] \in Range(t.references[taker[k]])
            BY <2>4, <6>1
          <6>3. t.references[taker[k]] \in Range(t.references) \ {None}
            BY <2>2, <6>1 DEF Range
          <6> QED
            BY <1>5, <6>2, <6>3
        <5>2. IsInjective(p.refs)
          BY DEF IsPayload
        <5> QED
          BY <5>1, <5>2 DEF Injection, IsInjective
      <4>4. IsFiniteSet(here) /\ Cardinality(here) = Cardinality(blanks) - 1
        <5>1. here = blanks \ {n} /\ n \in blanks
          BY <2>2, <3>2
        <5> HIDE DEF here, blanks
        <5> QED
          BY <1>5, <5>1, FS_RemoveElement
      <4>5. any \cup asked = DOMAIN p.refs /\ any \cap asked = {}
        OBVIOUS
      <4> HIDE DEF here, any, asked, ref, by, named, blanks
      <4>6. IsFiniteSet(any) /\ Cardinality(any) <= Cardinality(here) /\ Cardinality(any) \in Nat
        BY <4>2, <4>4, FS_Injection, FS_CardinalityType
      <4>7. IsFiniteSet(asked) /\ Cardinality(asked) <= Cardinality(named) /\ Cardinality(asked) \in Nat
        BY <1>5, <4>3, FS_Injection, FS_CardinalityType
      <4>8. Len(p.refs) = Cardinality(any) + Cardinality(asked)
        <5>1. Cardinality(any \cup asked) = Cardinality(any) + Cardinality(asked) - Cardinality({})
          BY <4>5, <4>6, <4>7, FS_Union
        <5>2. Cardinality({}) = 0
          BY FS_EmptySet
        <5>3. Cardinality(any \cup asked) = Len(p.refs)
          BY <1>4, <4>5
        <5> QED
          BY <4>6, <4>7, <5>1, <5>2, <5>3
      <4> QED
        BY <1>5, <4>4, <4>6, <4>7, <4>8
    <3> QED
      BY <3>1, <3>2
  <2>6. may # None /\ First(may) # {} /\ First(may) # None
    <3>1. may \in SUBSET Nat /\ may \in SUBSET SlotsIn("references", p)
      BY <1>1, <1>3, SlotsAreNumbers
    <3> HIDE DEF may
    <3>2. First(may) \subseteq may /\ First(may) # {}
      BY <2>5, <3>1, FirstIsOne
    <3> QED
      BY <1>1, <3>1, <3>2, PlacesAreSomething
  <2> HIDE DEF may
  <2> QED
    BY <2>1, <2>5, <2>6 DEF OrFail
<1> QED
  BY <1>1, <1>6, GreedyFinds

(* The greedy matcher finds a literal template in every transaction that it *)
(* can have built, whatever order the slots are in.                         *)
THEOREM MatchIsComplete ==
    ASSUME NEW t, IsTemplate(t), Literal(t), NEW p, IsPayload(p), Builds(t, p)
    PROVE  MatchTx(t, p) # None
<1> DEFINE maps == Assign(t, p)
<1>1. ASSUME NEW part \in Parts PROVE maps[part] \in Seq(SUBSET Nat)
  <2>1. maps[part] = Greedy(part, p, t[part])
    BY DEF Assign
  <2> QED
    BY <2>1, InputsFound, OutputsFound, MovesFound, ReferencesFound DEF Parts
<1>2. maps \in [Parts -> Seq(SUBSET Nat)]
  BY <1>1 DEF Assign
<1> HIDE DEF maps
<1>3. None \notin Range(maps) /\ maps # None
  BY <1>2, NothingAssumption DEF Range
<1>4. MatchTx(t, p) = maps
  BY <1>3 DEF MatchTx, maps
<1> QED
  BY <1>3, <1>4
-----------------------------------------------------------------------------
(* The fingerprint *)

(* Every input has places of its own: its references are there once each,   *)
(* and a query has its seat.                                                *)
LEMMA InputsCounted ==
    ASSUME NEW t, IsTemplate(t), Literal(t), NEW p, IsPayload(p), Builds(t, p)
    PROVE  TotalInputs(t) <= Len(p.ins)
<1> DEFINE D == DOMAIN t.inputs
           f == [n \in D |-> LeastInputs(t.inputs[n])]
           queries == {n \in D : t.inputs[n].kind = "query"}
           rest == {k \in DOMAIN p.ins : p.ins[k] \notin NamedInputs(t)}
           places(n) == {k \in DOMAIN p.ins : p.ins[k] \in Range(t.inputs[n].refs)}
<1>1. IsSequence(t.inputs) /\ \A n \in D : t.inputs[n] \in Range(t.inputs) /\ IsSequence(t.inputs[n].refs)
  BY DEF IsTemplate, Parts, Range
<1>2. NamedInputs(t) \subseteq Range(p.ins)
  BY DEF Builds, SpendsInputs
<1>3. PICK seat \in [queries -> rest] : IsInjective(seat)
  BY DEF Builds, SpendsInputs, Seated
<1> DEFINE claim == [n \in D |-> CASE t.inputs[n].kind = "refs" -> places(n)
                                   [] t.inputs[n].kind = "query" -> {seat[n]}
                                   [] OTHER -> {}]
<1>4. /\ IsFiniteSet(D) /\ IsFiniteSet(DOMAIN p.ins) /\ Cardinality(DOMAIN p.ins) = Len(p.ins)
      /\ D \subseteq Nat
  BY <1>1, RangeIsFinite DEF IsPayload, IsSequence
<1>5. ASSUME NEW n \in D, t.inputs[n].kind = "refs"
      PROVE  /\ Range(t.inputs[n].refs) \subseteq NamedInputs(t)
             /\ places(n) \subseteq DOMAIN p.ins
             /\ IsFiniteSet(places(n)) /\ Cardinality(places(n)) = Len(t.inputs[n].refs)
  <2>1. Range(t.inputs[n].refs) \subseteq NamedInputs(t)
    BY <1>1, <1>5 DEF NamedInputs
  <2>2. IsInjective(t.inputs[n].refs)
    BY <1>1, <1>5 DEF Literal
  <2>3. Cardinality(places(n)) = Len(t.inputs[n].refs)
    BY <1>1, <1>2, <2>1, <2>2, EachNamedOnce DEF IsPayload
  <2>4. places(n) \in SUBSET (DOMAIN p.ins)
    OBVIOUS
  <2> HIDE DEF places
  <2> QED
    BY <1>4, <2>1, <2>3, <2>4, FS_Subset
<1>6. ASSUME NEW n \in D
      PROVE  /\ f[n] \in Nat /\ IsFiniteSet(claim[n]) /\ f[n] <= Cardinality(claim[n])
             /\ claim[n] \subseteq DOMAIN p.ins
  <2>1. CASE t.inputs[n].kind = "refs"
    <3>1. f[n] = Len(t.inputs[n].refs) /\ claim[n] = places(n) /\ f[n] \in Nat
      BY <1>1, <2>1 DEF LeastInputs, IsSequence
    <3>2. places(n) \subseteq DOMAIN p.ins /\ IsFiniteSet(places(n)) /\ Cardinality(places(n)) = f[n]
      BY <1>5, <2>1, <3>1
    <3> HIDE DEF f, claim, places
    <3> QED
      BY <3>1, <3>2
  <2>2. CASE t.inputs[n].kind = "query"
    <3>1. f[n] \in {0, 1} /\ claim[n] = {seat[n]}
      BY <2>2 DEF LeastInputs
    <3>2. IsFiniteSet({seat[n]}) /\ Cardinality({seat[n]}) = 1
      BY FS_Singleton
    <3>3. seat[n] \in DOMAIN p.ins
      BY <1>3, <2>2
    <3> HIDE DEF f, claim
    <3> QED
      BY <3>1, <3>2, <3>3
  <2>3. CASE t.inputs[n].kind \notin {"refs", "query"}
    <3>1. f[n] = 0 /\ claim[n] = {}
      BY <2>3 DEF LeastInputs
    <3>2. IsFiniteSet({}) /\ Cardinality({}) = 0
      BY FS_EmptySet
    <3> HIDE DEF f, claim
    <3> QED
      BY <3>1, <3>2
  <2> QED
    BY <2>1, <2>2, <2>3
<1>7. ASSUME NEW a \in D, NEW b \in D, a < b, NEW k \in claim[a], k \in claim[b] PROVE FALSE
  <2> DEFINE refs(n) == t.inputs[n].kind = "refs"
             query(n) == t.inputs[n].kind = "query"
  <2>1. /\ refs(a) \/ query(a)
        /\ refs(b) \/ query(b)
    BY <1>7
  <2>2. \A n \in D : refs(n) /\ k \in claim[n] => p.ins[k] \in NamedInputs(t) /\ p.ins[k] \in Range(t.inputs[n].refs)
    BY <1>5
  <2>3. \A n \in D : query(n) /\ k \in claim[n] => k = seat[n] /\ p.ins[k] \notin NamedInputs(t)
    BY <1>3
  <2>4. CASE refs(a) /\ refs(b)
    <3>1. Range(t.inputs[a].refs) \cap Range(t.inputs[b].refs) = {}
      BY <1>7, <2>4 DEF Literal
    <3> QED
      BY <1>7, <2>2, <2>4, <3>1
  <2>5. CASE query(a) /\ query(b)
    <3>1. a \in queries /\ b \in queries /\ seat[a] = seat[b]
      BY <1>7, <2>3, <2>5
    <3>2. a # b
      BY <1>4, <1>7
    <3> QED
      BY <1>3, <3>1, <3>2 DEF IsInjective
  <2> HIDE DEF claim
  <2> QED
    BY <1>7, <2>1, <2>2, <2>3, <2>4, <2>5
<1>8. \A a, b \in D : a # b => claim[a] \cap claim[b] = {}
  <2> SUFFICES ASSUME NEW a \in D, NEW b \in D, a # b, NEW k \in claim[a], k \in claim[b] PROVE FALSE
    OBVIOUS
  <2>1. a < b \/ b < a
    BY <1>4
  <2> HIDE DEF claim
  <2> QED
    BY <1>7, <2>1
<1>9. f \in [D -> Nat] /\ TotalInputs(t) = SumFunction(f)
  BY <1>6 DEF TotalInputs
<1> HIDE DEF f, claim, D
<1>10. \A n \in D : IsFiniteSet(claim[n]) /\ f[n] <= Cardinality(claim[n])
  BY <1>6
<1>11. \A n \in D : claim[n] \subseteq DOMAIN p.ins
  BY <1>6
<1>12. SumFunction(f) <= Cardinality(DOMAIN p.ins)
  <2> DEFINE S == DOMAIN p.ins
  <2>1. IsFiniteSet(S) /\ \A n \in D : claim[n] \subseteq S
    BY <1>4, <1>11
  <2> HIDE DEF S
  <2>2. SumFunction(f) <= Cardinality(S)
    BY <1>4, <1>8, <1>9, <1>10, <2>1, SumOfClaims
  <2> QED
    BY <2>2 DEF S
<1> QED
  BY <1>4, <1>9, <1>12

(* The references that may be anywhere and the constant ones are counted    *)
(* apart: each of the first kind stands for one place, and no constant      *)
(* reference is named twice.                                                *)
LEMMA ReferencesCounted ==
    ASSUME NEW t, IsTemplate(t), Literal(t), NEW p, IsPayload(p), Builds(t, p)
    PROVE  TotalReferences(t) <= Len(p.refs)
<1> DEFINE D == DOMAIN t.references
           f == [n \in D |-> LeastReferences(t.references[n])]
           named == NamedReferences(t)
           blanks == {n \in D : t.references[n] = None}
           blank == [n \in blanks |-> <<0, n>>]
           constant == [r \in named |-> <<1, r>>]
           of(n) == {<<1, r>> : r \in Range(t.references[n])}
           claim == [n \in D |-> IF n \in blanks THEN {<<0, n>>} ELSE of(n)]
           S == {<<0, n>> : n \in blanks} \cup {<<1, r>> : r \in named}
<1>1. IsSequence(t.references)
  BY DEF IsTemplate, Parts
<1>2. /\ IsFiniteSet(D) /\ D \subseteq Nat
      /\ IsFiniteSet(Range(p.refs)) /\ Len(p.refs) \in Nat
  BY <1>1, RangeIsFinite DEF IsPayload, IsSequence
<1>3. named \subseteq Range(p.refs) /\ Cardinality(blanks) + Cardinality(named) <= Len(p.refs)
  BY DEF Builds, RefersTo
<1>4. IsFiniteSet(blanks) /\ IsFiniteSet(named)
  <2>1. blanks \in SUBSET D /\ named \in SUBSET Range(p.refs)
    BY <1>3
  <2> HIDE DEF blanks, named, D
  <2> QED
    BY <1>2, <2>1, FS_Subset
<1>5. IsFiniteSet(S) /\ Cardinality(S) <= Len(p.refs)
  <2> DEFINE A == {<<0, n>> : n \in blanks}
             B == {<<1, r>> : r \in named}
  <2>1. /\ DOMAIN blank = blanks /\ Range(blank) = A
        /\ DOMAIN constant = named /\ Range(constant) = B
    <3> HIDE DEF blanks, named
    <3> QED
      BY DEF Range
  <2>0. S = A \cup B /\ A \cap B = {}
    <3> HIDE DEF blanks, named
    <3> QED
      OBVIOUS
  <2> HIDE DEF blank, constant, blanks, named, A, B, S
  <2>2. /\ IsFiniteSet(A) /\ Cardinality(A) <= Cardinality(blanks)
        /\ IsFiniteSet(B) /\ Cardinality(B) <= Cardinality(named)
    BY <1>4, <2>1, ImageIsFinite
  <2>4. /\ Cardinality(blanks) \in Nat /\ Cardinality(named) \in Nat
        /\ Cardinality(A) \in Nat /\ Cardinality(B) \in Nat
    BY <1>4, <2>2, FS_CardinalityType
  <2>5. /\ IsFiniteSet(A \cup B)
        /\ Cardinality(A \cup B) = Cardinality(A) + Cardinality(B) - Cardinality(A \cap B)
    BY <2>2, FS_Union
  <2>6. Cardinality(A \cap B) = 0
    BY <2>0, FS_EmptySet
  <2> QED
    BY <1>2, <1>3, <2>0, <2>2, <2>4, <2>5, <2>6
<1>6. ASSUME NEW n \in D
      PROVE  /\ f[n] \in Nat /\ IsFiniteSet(claim[n]) /\ f[n] <= Cardinality(claim[n])
             /\ claim[n] \subseteq S
  <2> DEFINE r == t.references[n]
  <2>1. CASE n \in blanks
    <3>1. f[n] = 1 /\ claim[n] = {<<0, n>>} /\ claim[n] \subseteq S
      BY <2>1 DEF LeastReferences, Range
    <3>2. IsFiniteSet({<<0, n>>}) /\ Cardinality({<<0, n>>}) = 1
      BY FS_Singleton
    <3> HIDE DEF f, claim, S
    <3> QED
      BY <3>1, <3>2
  <2>2. CASE n \notin blanks
    <3>0. r \in Range(t.references) \ {None}
      BY <2>2 DEF Range
    <3>1. IsSequence(r) /\ IsInjective(r)
      BY <3>0 DEF IsTemplate, Literal
    <3> DEFINE h == [k \in DOMAIN r |-> <<1, r[k]>>]
    <3>2. f[n] = Len(r) /\ claim[n] = of(n) /\ Len(r) \in Nat
      BY <2>2, <3>1 DEF LeastReferences, IsSequence
    <3>3. of(n) \subseteq S
      BY <3>0 DEF NamedReferences
    <3>4. h \in Bijection(DOMAIN r, of(n))
      <4>1. h \in [DOMAIN r -> of(n)]
        BY DEF Range
      <4>2. \A a, b \in DOMAIN r : h[a] = h[b] => a = b
        BY <3>1 DEF IsInjective
      <4>3. \A y \in of(n) : \E k \in DOMAIN r : h[k] = y
        BY DEF Range
      <4> QED
        BY <4>1, <4>2, <4>3 DEF Bijection, Injection, Surjection, IsInjective
    <3>5. IsFiniteSet(DOMAIN r) /\ Cardinality(DOMAIN r) = Len(r)
      BY <3>1, RangeIsFinite
    <3> DEFINE E == DOMAIN r
               F == of(n)
    <3>6. IsFiniteSet(F) /\ Cardinality(F) = Cardinality(E)
      <4>1. h \in Bijection(E, F) /\ IsFiniteSet(E)
        BY <3>4, <3>5
      <4> HIDE DEF h, E, F
      <4> QED
        BY <4>1, FS_Bijection DEF ExistsBijection
    <3> HIDE DEF f, claim, S, of
    <3> QED
      BY <3>2, <3>3, <3>5, <3>6
  <2> QED
    BY <2>1, <2>2
<1>7. ASSUME NEW a \in D, NEW b \in D, a < b, NEW x \in claim[a], x \in claim[b] PROVE FALSE
  <2>1. a # b
    BY <1>2, <1>7
  <2>2. \A n \in D : x \in claim[n] =>
          \/ n \in blanks /\ x = <<0, n>>
          \/ n \notin blanks /\ \E r \in Range(t.references[n]) : x = <<1, r>>
    BY DEF Range
  <2>3. CASE a \in blanks \/ b \in blanks
    <3> HIDE DEF claim
    <3> QED
      BY <1>7, <2>1, <2>2, <2>3
  <2>4. CASE a \notin blanks /\ b \notin blanks
    <3>1. PICK q \in Range(t.references[a]) : x = <<1, q>>
      BY <1>7, <2>2, <2>4
    <3>2. PICK r \in Range(t.references[b]) : x = <<1, r>>
      BY <1>7, <2>2, <2>4
    <3>3. Range(t.references[a]) \cap Range(t.references[b]) = {}
      BY <1>7, <2>4 DEF Literal
    <3> QED
      BY <3>1, <3>2, <3>3
  <2> QED
    BY <2>3, <2>4
<1>8. \A a, b \in D : a # b => claim[a] \cap claim[b] = {}
  <2> SUFFICES ASSUME NEW a \in D, NEW b \in D, a # b, NEW x \in claim[a], x \in claim[b] PROVE FALSE
    OBVIOUS
  <2>1. a < b \/ b < a
    BY <1>2
  <2> HIDE DEF claim
  <2> QED
    BY <1>7, <2>1
<1>9. f \in [D -> Nat] /\ TotalReferences(t) = SumFunction(f)
  BY <1>6 DEF TotalReferences
<1> HIDE DEF f, claim, D, S
<1>10. \A n \in D : IsFiniteSet(claim[n]) /\ f[n] <= Cardinality(claim[n])
  BY <1>6
<1>11. \A n \in D : claim[n] \subseteq S
  BY <1>6
<1>12. SumFunction(f) <= Cardinality(S)
  BY <1>2, <1>5, <1>8, <1>9, <1>10, <1>11, SumOfClaims
<1>13. Cardinality(S) \in Nat /\ SumFunction(f) \in Nat
  BY <1>2, <1>5, <1>9, FS_CardinalityType, SumIsNatural
<1> QED
  BY <1>2, <1>5, <1>9, <1>12, <1>13

(* The input that a query is answered by.                                   *)
LEMMA QueryAnswered ==
    ASSUME NEW t, NEW p, Builds(t, p), NEW q \in Queries(t)
    PROVE  \E k \in DOMAIN p.ins : Answers(p, p.ins[k], q)
<1> DEFINE queries == {n \in DOMAIN t.inputs : t.inputs[n].kind = "query"}
           rest == {k \in DOMAIN p.ins : p.ins[k] \notin NamedInputs(t)}
           fit == {x \in queries \X rest : Answers(p, p.ins[x[2]], t.inputs[x[1]])}
<1>1. PICK seat \in [queries -> rest] : \A n \in queries : <<n, seat[n]>> \in fit
  BY DEF Builds, SpendsInputs, Seated
<1>2. PICK n \in queries : t.inputs[n] = q
  BY DEF Queries, ToSet
<1>3. <<n, seat[n]>> \in fit
  BY <1>1
<1> QED
  BY <1>2, <1>3

(* The output that an output template is built as.                          *)
LEMMA OutputMade ==
    ASSUME NEW t, Literal(t), NEW p, Builds(t, p), NEW o \in ToSet(t.outputs)
    PROVE  \E k \in DOMAIN p.outs : /\ o.addr \in {None, p.outs[k].addr}
                                    /\ o.policies \subseteq p.outs[k].policies
<1> DEFINE needed == {n \in DOMAIN t.outputs : ~t.outputs[n].optional}
           fit == {x \in needed \X DOMAIN p.outs :
                      /\ t.outputs[x[1]].addr \in {None, p.outs[x[2]].addr}
                      /\ t.outputs[x[1]].policies \subseteq p.outs[x[2]].policies}
<1>1. PICK seat \in [needed -> DOMAIN p.outs] : \A n \in needed : <<n, seat[n]>> \in fit
  BY DEF Builds, MakesOutputs, Seated
<1>2. PICK n \in needed : t.outputs[n] = o
  BY DEF Literal, ToSet
<1>3. <<n, seat[n]>> \in fit
  BY <1>1
<1> QED
  BY <1>2, <1>3

LEMMA FieldsCovered ==
    ASSUME NEW t, Literal(t), NEW p, Builds(t, p), NEW field \in Required
    PROVE  Extract(t)[field] \subseteq Summary(p)[field]
<1> DEFINE fp == Extract(t)
           s == Summary(p)
<1>1. \A k \in DOMAIN p.outs : p.outs[k] \in Produced(p)
  BY DEF Produced, ToSet
<1>2. \A r \in DOMAIN p.resolved :
        r \in ToSet(p.ins) /\ p.resolved[r] # Garbled => p.resolved[r] \in Spent(p)
  BY DEF Spent, Readable
<1>3. \A k \in DOMAIN p.ins : p.ins[k] \in ToSet(p.ins)
  BY DEF ToSet
<1>4. fp.input_addresses \subseteq s.input_addresses
  <2>1. ASSUME NEW q \in Queries(t), q.addr # None PROVE q.addr \in AddressesOf(Spent(p))
    <3>1. PICK k \in DOMAIN p.ins : ResolvedAt(p, p.ins[k], q.addr)
      BY <2>1, QueryAnswered DEF Answers
    <3> QED
      BY <1>2, <1>3, <2>1, <3>1 DEF ResolvedAt, AddressesOf
  <2> QED
    BY <2>1 DEF Extract, Summary
<1>5. fp.output_addresses \subseteq s.output_addresses
  <2>1. ASSUME NEW o \in ToSet(t.outputs), o.addr # None PROVE o.addr \in AddressesOf(Produced(p))
    <3>1. PICK k \in DOMAIN p.outs : o.addr = p.outs[k].addr
      BY <2>1, OutputMade
    <3> QED
      BY <1>1, <2>1, <3>1 DEF AddressesOf
  <2> QED
    BY <2>1 DEF Extract, Summary
<1>6. fp.input_refs \subseteq s.input_refs
  <2>1. fp.input_refs = NamedInputs(t)
    BY DEF Extract, NamedInputs, ToSet, Range
  <2>2. s.input_refs = Range(p.ins)
    BY DEF Summary, ToSet, Range
  <2> QED
    BY <2>1, <2>2 DEF Builds, SpendsInputs
<1>7. fp.reference_refs \subseteq s.reference_refs
  <2>1. fp.reference_refs = NamedReferences(t)
    BY DEF Extract, NamedReferences, ToSet, Range
  <2>2. s.reference_refs = Range(p.refs)
    BY DEF Summary, ToSet, Range
  <2> QED
    BY <2>1, <2>2 DEF Builds, RefersTo
<1>8. fp.mint_policies \subseteq s.mint_policies
  <2>1. fp.mint_policies = UNION Range(t.mints)
    BY DEF Extract, ToSet, Range
  <2>2. s.mint_policies = PoliciesOf(Minted(p))
    BY DEF Summary
  <2> QED
    BY <2>1, <2>2 DEF Builds, Moves
<1>9. fp.burn_policies \subseteq s.burn_policies
  <2>1. fp.burn_policies = UNION Range(t.burns)
    BY DEF Extract, ToSet, Range
  <2>2. s.burn_policies = PoliciesOf(Burned(p))
    BY DEF Summary
  <2> QED
    BY <2>1, <2>2 DEF Builds, Moves
<1>10. fp.value_policies \subseteq s.value_policies
  <2> DEFINE here == UNION {o.policies : o \in Spent(p) \cup Produced(p)}
  <2>1. ASSUME NEW q \in Queries(t), NEW x \in q.policies PROVE x \in here
    <3>1. PICK k \in DOMAIN p.ins :
            /\ p.ins[k] \in DOMAIN p.resolved /\ p.resolved[p.ins[k]] # Garbled
            /\ q.policies \subseteq p.resolved[p.ins[k]].policies
      BY <2>1, QueryAnswered DEF Answers
    <3> QED
      BY <1>2, <1>3, <3>1
  <2>2. ASSUME NEW o \in ToSet(t.outputs), NEW x \in o.policies PROVE x \in here
    <3>1. PICK k \in DOMAIN p.outs : o.policies \subseteq p.outs[k].policies
      BY OutputMade
    <3> QED
      BY <1>1, <3>1
  <2>3. /\ fp.value_policies = UNION {x.policies : x \in Queries(t) \cup ToSet(t.outputs)}
        /\ s.value_policies = here
    BY DEF Extract, Summary
  <2> HIDE DEF here, fp, s
  <2> QED
    BY <2>1, <2>2, <2>3
<1>11. fp.signers \subseteq s.signers /\ fp.labels \subseteq s.labels
  BY DEF Extract, Summary, Builds
<1> HIDE DEF fp, s
<1>12. fp[field] \subseteq s[field]
  BY <1>4, <1>5, <1>6, <1>7, <1>8, <1>9, <1>10, <1>11 DEF Required
<1> QED
  BY <1>12 DEF fp, s

LEMMA CountsCovered ==
    ASSUME NEW t, IsTemplate(t), Literal(t), NEW p, IsPayload(p), Builds(t, p),
           NEW slot \in DOMAIN Extract(t).least
    PROVE  Extract(t).least[slot] <= Summary(p).counts[slot]
<1> DEFINE least == Extract(t).least
           counts == Summary(p).counts
           needed == {n \in DOMAIN t.outputs : ~t.outputs[n].optional}
<1>1. least.inputs <= counts.inputs /\ least.references <= counts.references
  BY InputsCounted, ReferencesCounted DEF Extract, Summary
<1>2. least.outputs <= counts.outputs
  <2>1. PICK seat \in [needed -> DOMAIN p.outs] : IsInjective(seat)
    BY DEF Builds, MakesOutputs, Seated
  <2>2. IsFiniteSet(DOMAIN p.outs) /\ Cardinality(DOMAIN p.outs) = Len(p.outs)
    BY RangeIsFinite DEF IsPayload
  <2>3. least.outputs = Cardinality(needed) /\ counts.outputs = Len(p.outs)
    BY DEF Extract, Summary
  <2> HIDE DEF needed, least, counts
  <2>4. seat \in Injection(needed, DOMAIN p.outs)
    BY <2>1 DEF Injection, IsInjective
  <2>5. Cardinality(needed) <= Cardinality(DOMAIN p.outs)
    BY <2>2, <2>4, FS_Injection
  <2> QED
    BY <2>2, <2>3, <2>5
<1>3. ASSUME NEW part \in {"mints", "burns"}, NEW moved \in SUBSET ToSet(p.mints),
             \A policies \in Range(t[part]) : Moves(policies, moved)
      PROVE  Len(t[part]) <= Cardinality(moved)
  <2>1. IsSequence(t[part]) /\ Len(t[part]) <= 1
    BY DEF IsTemplate, Parts, Literal
  <2>2. DOMAIN t[part] = 1 .. Len(t[part]) /\ Len(t[part]) \in Nat
    BY <2>1 DEF IsSequence
  <2>3. IsFiniteSet(ToSet(p.mints))
    <3>1. ToSet(p.mints) = Range(p.mints)
      BY DEF ToSet, Range
    <3> QED
      BY <3>1, RangeIsFinite DEF IsPayload
  <2>4. IsFiniteSet(moved) /\ Cardinality(moved) \in Nat
    BY <2>3, FS_Subset, FS_CardinalityType
  <2>5. CASE Len(t[part]) = 0
    BY <2>4, <2>5
  <2>6. CASE Len(t[part]) = 1
    <3>1. t[part][1] \in Range(t[part])
      BY <2>2, <2>6 DEF Range
    <3>2. moved # {}
      BY <1>3, <3>1 DEF Moves
    <3>3. Cardinality(moved) # 0
      BY <2>4, <3>2, FS_EmptySet
    <3>4. 1 <= Cardinality(moved)
      BY <2>4, <3>3
    <3> QED
      BY <2>6, <3>4
  <2>7. Len(t[part]) = 0 \/ Len(t[part]) = 1
    <3> DEFINE N == Len(t[part])
    <3>1. N \in Nat /\ N <= 1
      BY <2>1, <2>2
    <3> HIDE DEF N
    <3>2. N = 0 \/ N = 1
      BY <3>1
    <3> QED
      BY <3>2 DEF N
  <2> QED
    BY <2>5, <2>6, <2>7
<1>4. least.mints <= counts.mints
  <2>1. Len(t["mints"]) <= Cardinality(Minted(p))
    <3>1. Minted(p) \in SUBSET ToSet(p.mints)
      BY DEF Minted
    <3> QED
      BY <1>3, <3>1 DEF Builds
  <2> QED
    BY <2>1 DEF Extract, Summary
<1>5. least.burns <= counts.burns
  <2>1. Len(t["burns"]) <= Cardinality(Burned(p))
    <3>1. Burned(p) \in SUBSET ToSet(p.mints)
      BY DEF Burned
    <3> QED
      BY <1>3, <3>1 DEF Builds
  <2> QED
    BY <2>1 DEF Extract, Summary
<1>6. least.collateral <= counts.collateral
  BY DEF Extract, Summary, Builds
<1>7. DOMAIN least = {"inputs", "outputs", "mints", "burns", "collateral", "references"}
  BY DEF Extract
<1> HIDE DEF least, counts
<1>8. slot \in DOMAIN least
  BY DEF least
<1>9. least[slot] <= counts[slot]
  BY <1>1, <1>2, <1>4, <1>5, <1>6, <1>7, <1>8
<1> QED
  BY <1>9 DEF least, counts

(* What the fingerprint asks for is necessary: whatever a literal template  *)
(* can have built has it (fingerprint.rs, README.md:11).                    *)
THEOREM FingerprintIsSound ==
    ASSUME NEW t, IsTemplate(t), Literal(t), NEW p, IsPayload(p), Builds(t, p)
    PROVE  FingerprintMatches(Extract(t), Summary(p))
<1>1. \A field \in Required : Extract(t)[field] \subseteq Summary(p)[field]
  BY FieldsCovered
<1>2. \A slot \in DOMAIN Extract(t).least : Extract(t).least[slot] <= Summary(p).counts[slot]
  BY CountsCovered
<1>3. Extract(t).validity => Summary(p).validity
  BY DEF Extract, Summary, Builds
<1> QED
  BY <1>1, <1>2, <1>3 DEF FingerprintMatches

(* Each literal template that can have built a transaction which engages    *)
(* its protocol becomes a candidate, for every transaction and every        *)
(* configuration: neither the gate, nor the fingerprint, nor the greedy     *)
(* order of the matcher, nor the order of the search loses one.             *)
THEOREM NoMissedMatchHolds == Spec => []NoMissedMatch
<1>1. CompleteInv => NoMissedMatch
  <2> SUFFICES ASSUME CompleteInv, at[1] \notin DOMAIN sources,
                      NEW i \in DOMAIN sources, NEW j \in DOMAIN sources[i].txs,
                      Engages(sources[i].profile, payload),
                      Literal(TemplateOf(i, j)), Builds(TemplateOf(i, j), payload)
               PROVE  IsCandidate(i, j)
    BY DEF NoMissedMatch
  <2> DEFINE t == TemplateOf(i, j)
  <2>1. SearchInv /\ Searched
    BY DEF CompleteInv
  <2>2. IsSource(sources[i]) /\ IsPayload(payload)
    BY <2>1 DEF SearchInv, Configured, Range
  <2>3. IsTemplate(t)
    BY <2>2 DEF IsSource, TemplateOf, Range
  <2>4. Gates(AnchorsOf(i), Summary(payload))
    BY <2>2, EngagesGates DEF IsSource, AnchorsOf
  <2>5. Fitting(i, j)
    BY <2>2, <2>3, FingerprintIsSound DEF Fitting
  <2>6. MatchTx(t, payload) # None
    BY <2>2, <2>3, MatchIsComplete
  <2>7. Matches(i, j)
    BY <2>4, <2>5, <2>6 DEF Matches
  <2>8. i < at[1]
    <3>1. DOMAIN sources = 1 .. Len(sources) /\ Len(sources) \in Nat
      BY <2>1 DEF SearchInv, Configured, IsSequence
    <3>2. at[1] \in Nat /\ at[1] >= 1
      BY <2>1 DEF SearchInv, Placed, Searched
    <3> QED
      BY <3>1, <3>2
  <2>9. CandidateOf(i, j) \in Range(candidates)
    BY <2>1, <2>7, <2>8 DEF Searched
  <2> QED
    BY <2>9 DEF IsCandidate, CandidateOf
<1> QED
  BY <1>1, CompleteInvHolds, PTL
=============================================================================
