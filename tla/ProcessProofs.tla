--------------------------- MODULE ProcessProofs ---------------------------
(***************************************************************************)
(* The search for candidates, for any transaction and any configuration:   *)
(* where a candidate comes from, and what the gate means.                  *)
(*                                                                         *)
(* The gate is asked once per source and the templates of the source are   *)
(* tried in later steps, so the invariant says that a template is only     *)
(* tried while the gate of its source holds, and that each candidate was   *)
(* made of one template of one source that passed all three tests.         *)
(***************************************************************************)
EXTENDS ProcessProperties, Foundations

(* What is run on: nothing changes it. *)
Configured ==
    /\ IsPayload(payload)
    /\ IsSequence(sources)
    /\ \A source \in Range(sources) : IsSource(source)

(* The next template is one of its source's. *)
Placed ==
    /\ at \in Nat \X Nat
    /\ at[1] \in DOMAIN sources => at[2] \in 0 .. Len(sources[at[1]].txs)

Gated == at[2] > 0 => Gates(AnchorsOf(at[1]), Summary(payload))

Matches(i, j) ==
    /\ Gates(AnchorsOf(i), Summary(payload))
    /\ Fitting(i, j)
    /\ MatchTx(TemplateOf(i, j), payload) # None

Descended ==
    \A c \in Range(candidates) :
        \E i \in DOMAIN sources : \E j \in DOMAIN sources[i].txs :
            Matches(i, j) /\ c = CandidateOf(i, j)

SearchInv == Configured /\ Placed /\ Gated /\ IsSequence(candidates) /\ Descended

(* An address found among the spent outputs is that of an output which an   *)
(* input of the transaction was resolved to.                                *)
LEMMA SpentAtParty ==
    ASSUME NEW p, NEW a, a \in AddressesOf(Spent(p))
    PROVE  \E k \in DOMAIN p.ins : ResolvedAt(p, p.ins[k], a)
<1>1. PICK o \in Spent(p) : o.addr = a
  BY DEF AddressesOf
<1>2. PICK r \in ToSet(p.ins) \cap DOMAIN p.resolved : p.resolved[r] # Garbled /\ o = p.resolved[r]
  BY <1>1 DEF Spent, Readable
<1>3. PICK k \in DOMAIN p.ins : p.ins[k] = r
  BY <1>2 DEF ToSet
<1> QED
  BY <1>1, <1>2, <1>3 DEF ResolvedAt

(* Nothing but the anchors of a profile gates, and each gating presence is  *)
(* one of the ways of engaging its protocol.                                *)
LEMMA GatesEngages ==
    ASSUME NEW profile, NEW p, Gates(FromProfile(profile), Summary(p))
    PROVE  Engages(profile, p)
<1> DEFINE a == FromProfile(profile)
           s == Summary(p)
<1>1. PICK x : x \in Gating(a, s)
  BY DEF Gates
<1>2. CASE x \in a.addresses /\ x \in s.input_addresses
  <2>1. x \in Range(profile.parties)
    BY <1>2 DEF FromProfile, ToSet, Range
  <2>2. x \in AddressesOf(Spent(p))
    BY <1>2 DEF Summary
  <2> QED
    BY <2>1, <2>2, SpentAtParty DEF Engages
<1>3. CASE x \in a.addresses /\ x \in s.output_addresses_with_datum
  <2>1. x \in Range(profile.parties)
    BY <1>3 DEF FromProfile, ToSet, Range
  <2>2. x \in AddressesOf({o \in Produced(p) : o.datum})
    BY <1>3 DEF Summary
  <2>3. PICK o \in Produced(p) : o.datum /\ o.addr = x
    BY <2>2 DEF AddressesOf
  <2>4. o \in Range(p.outs)
    BY <2>3 DEF Produced, ToSet, Range
  <2> QED
    BY <2>1, <2>3, <2>4 DEF Engages
<1>4. CASE x \in a.utxo_refs /\ x \in s.input_refs \cup s.reference_refs
  <2>1. PICK v \in profile.environment : v.shape = "ref" /\ v.value = x
    BY <1>4 DEF FromProfile, Shaped
  <2>2. x \in Range(p.ins) \cup Range(p.refs)
    BY <1>4 DEF Summary, ToSet, Range
  <2> QED
    BY <2>1, <2>2 DEF Engages
<1>5. CASE x \in a.policies /\ x \in s.mint_policies \cup s.burn_policies
  <2>1. PICK v \in profile.environment : v.shape = "policy" /\ v.value = x
    BY <1>5 DEF FromProfile, Shaped
  <2>2. x \in PoliciesOf(Minted(p)) \cup PoliciesOf(Burned(p))
    BY <1>5 DEF Summary
  <2>3. PICK m \in Range(p.mints) : m.policy = x /\ (m.up \/ m.down)
    BY <2>2 DEF PoliciesOf, Minted, Burned, ToSet, Range
  <2> QED
    BY <2>1, <2>3 DEF Engages
<1> QED
  BY <1>1, <1>2, <1>3, <1>4, <1>5 DEF Gating

(* A transaction that engages a protocol in any of those ways is let        *)
(* through: the summary, which forgets which output had which datum and     *)
(* which input was not resolved, forgets nothing the gate needs.            *)
LEMMA EngagesGates ==
    ASSUME NEW profile, NEW p, None \notin Range(profile.parties), Engages(profile, p)
    PROVE  Gates(FromProfile(profile), Summary(p))
<1> DEFINE a == FromProfile(profile)
           s == Summary(p)
<1>1. ASSUME NEW x \in Gating(a, s) PROVE Gates(a, s)
  BY DEF Gates
<1>2. CASE \E k \in DOMAIN p.ins : \E party \in Range(profile.parties) : ResolvedAt(p, p.ins[k], party)
  <2>1. PICK k \in DOMAIN p.ins, party \in Range(profile.parties) : ResolvedAt(p, p.ins[k], party)
    BY <1>2
  <2>2. p.ins[k] \in {r \in ToSet(p.ins) \cap DOMAIN p.resolved : p.resolved[r] # Garbled}
    BY <2>1 DEF ResolvedAt, ToSet
  <2>3. p.resolved[p.ins[k]] \in Spent(p)
    BY <2>2 DEF Spent, Readable
  <2>4. party \in AddressesOf(Spent(p))
    BY <2>1, <2>3 DEF ResolvedAt, AddressesOf
  <2>5. party \in a.addresses /\ party \in s.input_addresses
    BY <2>4 DEF FromProfile, Summary, ToSet, Range
  <2> QED
    BY <1>1, <2>5 DEF Gating
<1>3. CASE \E o \in Range(p.outs) : o.datum /\ o.addr \in Range(profile.parties)
  <2>1. PICK o \in Range(p.outs) : o.datum /\ o.addr \in Range(profile.parties)
    BY <1>3
  <2>2. o \in {x \in Produced(p) : x.datum}
    BY <2>1 DEF Produced, ToSet, Range
  <2>3. o.addr \in AddressesOf({x \in Produced(p) : x.datum})
    BY <2>1, <2>2 DEF AddressesOf
  <2>4. o.addr \in a.addresses /\ o.addr \in s.output_addresses_with_datum
    BY <2>1, <2>3 DEF FromProfile, Summary, ToSet, Range
  <2> QED
    BY <1>1, <2>4 DEF Gating
<1>4. ASSUME NEW v \in profile.environment, v.shape = "ref",
             v.value \in Range(p.ins) \cup Range(p.refs)
      PROVE  Gates(a, s)
  <2>1. v.value \in a.utxo_refs /\ v.value \in s.input_refs \cup s.reference_refs
    BY <1>4 DEF FromProfile, Shaped, Summary, ToSet, Range
  <2> QED
    BY <1>1, <2>1 DEF Gating
<1>5. ASSUME NEW v \in profile.environment, v.shape = "policy",
             NEW m \in Range(p.mints), m.policy = v.value, m.up \/ m.down
      PROVE  Gates(a, s)
  <2>1. v.value \in a.policies
    BY <1>5 DEF FromProfile, Shaped
  <2>2. m \in Minted(p) \cup Burned(p)
    BY <1>5 DEF Minted, Burned, ToSet, Range
  <2>3. v.value \in s.mint_policies \cup s.burn_policies
    BY <1>5, <2>2 DEF Summary, PoliciesOf
  <2> QED
    BY <1>1, <2>1, <2>3 DEF Gating
<1> QED
  BY <1>2, <1>3, <1>4, <1>5 DEF Engages

(* The gate is exact: what lets a source's templates be tried is precisely  *)
(* that the transaction runs one of the protocol's scripts or leaves state  *)
(* at one of its addresses (README.md:17), for every profile whose parties  *)
(* have addresses.                                                          *)
THEOREM GateIsExact ==
    ASSUME NEW profile, NEW p, None \notin Range(profile.parties)
    PROVE  Gates(FromProfile(profile), Summary(p)) <=> Engages(profile, p)
  BY GatesEngages, EngagesGates

LEMMA InitSearch == Init => SearchInv
<1> SUFFICES ASSUME Init PROVE SearchInv
  OBVIOUS
<1>1. at = <<1, 0>> /\ candidates = <<>>
  BY DEF Init
<1>2. PICK case \in Cases : /\ payload \in case.payloads
                            /\ sources \in {SpecializeAll(config) : config \in case.configs}
  BY DEF Init
<1>3. PICK config \in case.configs : sources = SpecializeAll(config)
  BY <1>2
<1>4. IsPayload(payload) /\ IsSequence(config) /\ \A source \in Range(config) : IsSource(source)
  BY <1>2, <1>3, CasesAssumption
<1>5. IsSequence(sources) /\ Range(sources) \subseteq Range(config)
  <2> DEFINE K == {i \in DOMAIN config : ~NoAnchors(FromProfile(config[i].profile))}
  <2>1. sources = Picked(config, K) /\ K \in SUBSET (DOMAIN config)
    BY <1>3 DEF SpecializeAll
  <2> HIDE DEF K
  <2>2. IsSequence(Picked(config, K)) /\ Range(Picked(config, K)) = {config[k] : k \in K}
    BY <1>4, <2>1, PickedInOrder
  <2> QED
    BY <2>1, <2>2 DEF Range
<1>6. Configured
  BY <1>4, <1>5 DEF Configured
<1>7. Placed
  <2>1. ASSUME 1 \in DOMAIN sources PROVE Len(sources[1].txs) \in Nat
    <3>1. IsSource(sources[1])
      BY <1>6, <2>1 DEF Configured, Range
    <3> QED
      BY <3>1 DEF IsSource, IsSequence
  <2> QED
    BY <1>1, <2>1 DEF Placed
<1>8. IsSequence(candidates) /\ Descended
  BY <1>1 DEF IsSequence, Range, Descended
<1> QED
  BY <1>1, <1>6, <1>7, <1>8 DEF SearchInv, Gated

(* The templates that remain of a source are tried under the gate it passed. *)
LEMMA AdvanceStaysPlaced ==
    ASSUME Configured, Placed, at[1] \in DOMAIN sources,
           UNCHANGED <<payload, sources>>,
           \/ Advance /\ Gates(AnchorsOf(at[1]), Summary(payload))
           \/ at' = <<at[1] + 1, 0>>
    PROVE  Placed' /\ Gated'
<1>1. \A i \in DOMAIN sources : Len(sources[i].txs) \in Nat
  <2> SUFFICES ASSUME NEW i \in DOMAIN sources PROVE Len(sources[i].txs) \in Nat
    OBVIOUS
  <2>1. IsSource(sources[i])
    BY DEF Configured, Range
  <2> QED
    BY <2>1 DEF IsSource, IsSequence
<1>2. CASE /\ at' = <<at[1], at[2] + 1>> /\ at[2] < Len(sources[at[1]].txs)
           /\ Gates(AnchorsOf(at[1]), Summary(payload))
  <2>1. at'[1] = at[1] /\ at'[2] = at[2] + 1
    BY <1>2
  <2> QED
    BY <1>1, <1>2, <2>1 DEF Placed, Gated, AnchorsOf
<1>3. CASE at' = <<at[1] + 1, 0>>
  BY <1>1, <1>3 DEF Placed, Gated
<1> QED
  BY <1>2, <1>3 DEF Advance

(* No step adds a candidate but of a template that passed the three tests.  *)
LEMMA NextSearch == SearchInv /\ [Next]_vars => SearchInv'
<1> SUFFICES ASSUME SearchInv, [Next]_vars PROVE SearchInv'
  OBVIOUS
<1> USE DEF SearchInv
<1>1. UNCHANGED <<payload, sources>>
  BY DEF Next, SkipSource, EngageSource, RejectByFingerprint, RejectByMatch, AddCandidate,
     SelectMatches, LiftSurvivor, LiftFails, Return, Returned, vars
<1>2. Configured'
  BY <1>1 DEF Configured
<1>3. ASSUME UNCHANGED candidates PROVE IsSequence(candidates)' /\ Descended'
  BY <1>1, <1>3 DEF Descended, Matches, CandidateOf, AnchorsOf, TemplateOf, Fitting, Score
<1>4. ASSUME TryingTemplate PROVE Gates(AnchorsOf(at[1]), Summary(payload))
  BY <1>4 DEF TryingTemplate, Gated
<1>5. CASE SkipSource \/ EngageSource
  <2>1. Placed' /\ Gated'
    BY <1>1, <1>5, AdvanceStaysPlaced DEF SkipSource, EngageSource, GatingSource
  <2> QED
    BY <1>2, <1>3, <1>5, <2>1 DEF SkipSource, EngageSource
<1>6. CASE RejectByFingerprint \/ RejectByMatch
  <2>1. TryingTemplate /\ Advance /\ UNCHANGED candidates
    BY <1>6 DEF RejectByFingerprint, RejectByMatch
  <2>2. Placed' /\ Gated'
    BY <1>1, <1>4, <2>1, AdvanceStaysPlaced DEF TryingTemplate
  <2> QED
    BY <1>2, <1>3, <2>1, <2>2
<1>7. CASE AddCandidate
  <2> DEFINE i == at[1]
             j == at[2]
  <2>1. TryingTemplate /\ Advance /\ candidates' = Append(candidates, CandidateOf(i, j))
    BY <1>7 DEF AddCandidate
  <2>2. Placed' /\ Gated'
    BY <1>1, <1>4, <2>1, AdvanceStaysPlaced DEF TryingTemplate
  <2>3. IsSequence(candidates') /\ Range(candidates') = Range(candidates) \cup {CandidateOf(i, j)}
    BY <2>1, Appended
  <2>4. i \in DOMAIN sources /\ j \in DOMAIN sources[i].txs /\ Matches(i, j)
    <3>1. i \in DOMAIN sources /\ j \in 1 .. Len(sources[i].txs)
      BY <2>1 DEF TryingTemplate, Placed
    <3>2. IsSource(sources[i])
      BY <3>1 DEF Configured, Range
    <3>3. DOMAIN sources[i].txs = 1 .. Len(sources[i].txs)
      BY <3>2 DEF IsSource, IsSequence
    <3> QED
      BY <1>4, <1>7, <2>1, <3>1, <3>3 DEF Matches, AddCandidate
  <2>5. Descended'
    <3> HIDE DEF i, j
    <3>1. \A c \in Range(candidates') :
            \E k \in DOMAIN sources : \E l \in DOMAIN sources[k].txs :
                Matches(k, l) /\ c = CandidateOf(k, l)
      BY <2>3, <2>4 DEF Descended
    <3> QED
      BY <1>1, <3>1 DEF Descended, Matches, CandidateOf, AnchorsOf, TemplateOf, Fitting, Score
  <2> QED
    BY <1>2, <2>2, <2>3, <2>5
<1>8. CASE SelectMatches \/ LiftSurvivor \/ LiftFails \/ Return \/ UNCHANGED vars
  <2>1. UNCHANGED <<at, candidates>>
    BY <1>8 DEF SelectMatches, LiftSurvivor, LiftFails, Return, vars
  <2>2. Placed' /\ Gated'
    BY <1>1, <2>1 DEF Placed, Gated, AnchorsOf
  <2> QED
    BY <1>2, <1>3, <2>1, <2>2
<1> QED
  BY <1>5, <1>6, <1>7, <1>8 DEF Next, Returned

(* While a source's templates are tried its gate holds, and every candidate *)
(* is what one template of one source makes of the transaction, the three   *)
(* tests passed (run_specializations).                                      *)
THEOREM SearchInvHolds == Spec => []SearchInv
  BY InitSearch, NextSearch, PTL DEF Spec

-----------------------------------------------------------------------------
(* What was tried and matches is a candidate. *)
Searched ==
    /\ at[1] >= 1
    /\ \A i \in DOMAIN sources : \A j \in DOMAIN sources[i].txs :
         /\ i < at[1] \/ (i = at[1] /\ j < at[2])
         /\ Matches(i, j)
         => CandidateOf(i, j) \in Range(candidates)

CompleteInv == SearchInv /\ Searched

(* A step past one place has searched that place as well.                   *)
LEMMA PlaceSearched ==
    ASSUME SearchInv, Searched, at[1] \in DOMAIN sources,
           UNCHANGED <<payload, sources>>,
           Range(candidates) \subseteq Range(candidates'),
           \/ /\ Advance
              /\ at[2] # 0 /\ Matches(at[1], at[2])
                 => CandidateOf(at[1], at[2]) \in Range(candidates')
           \/ /\ at' = <<at[1] + 1, 0>>
              /\ ~Gates(AnchorsOf(at[1]), Summary(payload))
    PROVE  Searched'
<1> DEFINE Tried(i, j) == i < at[1] \/ (i = at[1] /\ j < at[2])
<1>1. \A i \in DOMAIN sources : DOMAIN sources[i].txs = 1 .. Len(sources[i].txs) /\ Len(sources[i].txs) \in Nat
  <2> SUFFICES ASSUME NEW i \in DOMAIN sources
               PROVE  DOMAIN sources[i].txs = 1 .. Len(sources[i].txs) /\ Len(sources[i].txs) \in Nat
    OBVIOUS
  <2>1. IsSource(sources[i])
    BY DEF SearchInv, Configured, Range
  <2> QED
    BY <2>1 DEF IsSource, IsSequence
<1>2. /\ at[1] \in Nat /\ at[1] >= 1 /\ at[2] \in 0 .. Len(sources[at[1]].txs)
      /\ DOMAIN sources \subseteq Nat
  BY DEF SearchInv, Placed, Searched, Configured, IsSequence
<1>3. at'[1] \in Nat /\ at'[1] >= 1
  BY <1>2 DEF Advance
<1>4. ASSUME NEW i \in DOMAIN sources, NEW j \in DOMAIN sources[i].txs,
             i < at'[1] \/ (i = at'[1] /\ j < at'[2]), Matches(i, j)
      PROVE  CandidateOf(i, j) \in Range(candidates')
  <2>1. CASE Tried(i, j)
    BY <1>4, <2>1 DEF Searched
  <2>2. CASE ~Tried(i, j) /\ at' = <<at[1] + 1, 0>> /\ ~Gates(AnchorsOf(at[1]), Summary(payload))
    <3>1. at'[1] = at[1] + 1 /\ at'[2] = 0 /\ i \in Nat /\ j \in Nat /\ ~(j < 0)
      BY <1>1, <1>2, <2>2
    <3>2. i = at[1]
      BY <1>2, <1>4, <2>2, <3>1
    <3> QED
      BY <1>4, <2>2, <3>2 DEF Matches
  <2>3. CASE ~Tried(i, j) /\ Advance
             /\ (at[2] # 0 /\ Matches(at[1], at[2]) => CandidateOf(at[1], at[2]) \in Range(candidates'))
    <3>1. i = at[1] /\ j = at[2] /\ j \in Nat /\ j # 0
      <4>1. j \in 1 .. Len(sources[i].txs) /\ i \in Nat
        BY <1>1, <1>2
      <4>2. CASE at[2] < Len(sources[at[1]].txs) /\ at' = <<at[1], at[2] + 1>>
        BY <1>2, <1>4, <2>3, <4>1, <4>2
      <4>3. CASE ~(at[2] < Len(sources[at[1]].txs)) /\ at' = <<at[1] + 1, 0>>
        <5>1. i = at[1]
          BY <1>2, <1>4, <2>3, <4>1, <4>3
        <5> QED
          BY <1>1, <1>2, <2>3, <4>1, <4>3, <5>1
      <4> QED
        BY <2>3, <4>2, <4>3 DEF Advance
    <3> QED
      BY <1>4, <2>3, <3>1
  <2> QED
    BY <2>1, <2>2, <2>3
<1> QED
  BY <1>3, <1>4 DEF Searched, Matches, CandidateOf, AnchorsOf, TemplateOf, Fitting, Score

LEMMA NextSearched == CompleteInv /\ [Next]_vars => Searched'
<1> SUFFICES ASSUME SearchInv, Searched, [Next]_vars PROVE Searched'
  BY DEF CompleteInv
<1>1. UNCHANGED <<payload, sources>>
  BY DEF Next, SkipSource, EngageSource, RejectByFingerprint, RejectByMatch, AddCandidate,
     SelectMatches, LiftSurvivor, LiftFails, Return, Returned, vars
<1>2. CASE SkipSource
  BY <1>1, <1>2, PlaceSearched DEF SkipSource, GatingSource
<1>3. CASE EngageSource
  BY <1>1, <1>3, PlaceSearched DEF EngageSource, GatingSource
<1>4. CASE RejectByFingerprint
  <2>1. ~Matches(at[1], at[2])
    BY <1>4 DEF RejectByFingerprint, Matches
  <2> QED
    BY <1>1, <1>4, <2>1, PlaceSearched DEF RejectByFingerprint, TryingTemplate
<1>5. CASE RejectByMatch
  <2>1. ~Matches(at[1], at[2])
    BY <1>5 DEF RejectByMatch, Matches
  <2> QED
    BY <1>1, <1>5, <2>1, PlaceSearched DEF RejectByMatch, TryingTemplate
<1>6. CASE AddCandidate
  <2> DEFINE c == CandidateOf(at[1], at[2])
  <2>1. candidates' = Append(candidates, c) /\ Advance /\ at[1] \in DOMAIN sources
    BY <1>6 DEF AddCandidate, TryingTemplate
  <2>2. Range(candidates') = Range(candidates) \cup {c}
    BY <2>1, Appended DEF SearchInv
  <2> QED
    BY <1>1, <2>1, <2>2, PlaceSearched
<1>7. CASE SelectMatches \/ LiftSurvivor \/ LiftFails \/ Return \/ UNCHANGED vars
  <2>1. UNCHANGED <<at, candidates>>
    BY <1>7 DEF SelectMatches, LiftSurvivor, LiftFails, Return, vars
  <2> QED
    BY <1>1, <2>1 DEF Searched, Matches, CandidateOf, AnchorsOf, TemplateOf, Fitting, Score
<1> QED
  BY <1>2, <1>3, <1>4, <1>5, <1>6, <1>7 DEF Next, Returned

(* The search forgets nothing: whatever it has passed and passes the three  *)
(* tests is a candidate.                                                    *)
THEOREM CompleteInvHolds == Spec => []CompleteInv
<1>1. Init => Searched
  <2> SUFFICES ASSUME Init PROVE Searched
    OBVIOUS
  <2>1. SearchInv /\ at = <<1, 0>>
    BY InitSearch DEF Init
  <2>2. \A i \in DOMAIN sources : i \in Nat /\ i >= 1
    BY <2>1 DEF SearchInv, Configured, IsSequence
  <2>3. \A i \in DOMAIN sources : \A j \in DOMAIN sources[i].txs : j \in Nat
    <3> SUFFICES ASSUME NEW i \in DOMAIN sources PROVE \A j \in DOMAIN sources[i].txs : j \in Nat
      OBVIOUS
    <3>1. IsSource(sources[i])
      BY <2>1 DEF SearchInv, Configured, Range
    <3> QED
      BY <3>1 DEF IsSource, IsSequence
  <2> QED
    BY <2>1, <2>2, <2>3 DEF Searched
<1>2. CompleteInv /\ [Next]_vars => CompleteInv'
  BY NextSearch, NextSearched DEF CompleteInv
<1> QED
  BY <1>1, <1>2, InitSearch, PTL DEF Spec, CompleteInv

-----------------------------------------------------------------------------
(* A bare payment to a protocol's address, or a swap that only moves its    *)
(* tokens, never becomes a match of that protocol, whatever the templates   *)
(* of the protocol ask for.                                                 *)
THEOREM OnlyEngagedHolds == Spec => []OnlyEngaged
<1>1. SearchInv => OnlyEngaged
  <2> SUFFICES ASSUME SearchInv, NEW c \in Range(candidates)
               PROVE  \E i \in DOMAIN sources :
                          sources[i].name = c.source /\ Engages(sources[i].profile, payload)
    BY DEF OnlyEngaged
  <2>1. PICK i \in DOMAIN sources :
          \E j \in DOMAIN sources[i].txs : Matches(i, j) /\ c = CandidateOf(i, j)
    BY DEF SearchInv, Descended
  <2> QED
    BY <2>1, GatesEngages DEF Matches, CandidateOf, AnchorsOf
<1> QED
  BY <1>1, SearchInvHolds, PTL
-----------------------------------------------------------------------------
(* A pattern of the filter that holds of a transaction forwards it.         *)
LEMMA PatternForwards ==
    ASSUME NEW f, NEW p, NEW pattern \in Compile(f), PatternHolds(pattern, Summary(p))
    PROVE  Forwards(f, p)
  BY DEF Forwards

(* Whichever anchor lets a transaction through the gate, a filter that      *)
(* names all the anchors has a pattern for it.                              *)
LEMMA GatesForwards ==
    ASSUME NEW f, NEW p, NEW profile, \A v \in profile.environment : v.value # None,
           Covers(f, FromProfile(profile)), Gates(FromProfile(profile), Summary(p))
    PROVE  Forwards(f, p)
<1> DEFINE a == FromProfile(profile)
           s == Summary(p)
<1>1. PICK x : x \in Gating(a, s)
  BY DEF Gates
<1>2. CASE x \in a.addresses /\ x \in s.input_addresses \cup s.output_addresses_with_datum
  <2>1. x \in s.input_addresses \cup s.output_addresses
    BY <1>2 DEF Summary, AddressesOf
  <2>2. Pattern("has_address", x) \in Compile(f)
    BY <1>2 DEF Covers, Compile
  <2>3. PatternHolds(Pattern("has_address", x), s)
    BY <2>1 DEF PatternHolds, Pattern
  <2> QED
    BY <2>2, <2>3, PatternForwards
<1>3. CASE x \in a.policies /\ x \in s.mint_policies \cup s.burn_policies
  <2>1. x # None
    BY <1>3 DEF FromProfile, Shaped
  <2>2. x = f.moves \/ x = f.mints
    BY <1>3 DEF Covers
  <2>3. CASE x = f.moves
    <3>1. Pattern("moves_asset", x) \in Compile(f)
      BY <2>1, <2>3 DEF Compile
    <3>2. PatternHolds(Pattern("moves_asset", x), s)
      BY <1>3 DEF PatternHolds, Pattern
    <3> QED
      BY <3>1, <3>2, PatternForwards
  <2>4. CASE x = f.mints
    <3>1. Pattern("mints_asset", x) \in Compile(f)
      BY <2>1, <2>4 DEF Compile
    <3>2. PatternHolds(Pattern("mints_asset", x), s)
      BY <1>3 DEF PatternHolds, Pattern
    <3> QED
      BY <3>1, <3>2, PatternForwards
  <2> QED
    BY <2>2, <2>3, <2>4
<1> QED
  BY <1>1, <1>2, <1>3 DEF Gating, Covers

(* A filter that names every anchor of a source costs it no match, for any  *)
(* transaction, any sources and any filters: what engages the protocol is   *)
(* forwarded by the node (predicate.rs, config.rs:74-75).                   *)
THEOREM FilterLosesNothingHolds == Spec => []FilterLosesNothing
<1>1. SearchInv => FilterLosesNothing
  <2> SUFFICES ASSUME SearchInv, NEW f \in Filters, NEW i \in DOMAIN sources,
                      Covers(f, AnchorsOf(i)), Engages(sources[i].profile, payload)
               PROVE  Forwards(f, payload)
    BY DEF FilterLosesNothing
  <2>1. IsSource(sources[i])
    BY DEF SearchInv, Configured, Range
  <2>2. Gates(FromProfile(sources[i].profile), Summary(payload))
    BY <2>1, EngagesGates DEF IsSource
  <2> QED
    BY <2>1, <2>2, GatesForwards DEF IsSource, AnchorsOf
<1> QED
  BY <1>1, SearchInvHolds, PTL
=============================================================================
