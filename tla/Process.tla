------------------------------ MODULE Process ------------------------------
(***************************************************************************)
(* One transaction through the tracker's run_specializations (process.rs): *)
(* every source is gated by its anchors, every template of a gated source  *)
(* is tried by its fingerprint and then by the matcher, the candidates are *)
(* deduplicated, ranked and filtered, and the survivors are lifted.        *)
(*                                                                         *)
(* A source is [name, profile, txs] and an entry of txs is                 *)
(* [name, template]; names are numbers, in alphabetical order.  The        *)
(* entries of txs are in the order of their names.                         *)
(***************************************************************************)
EXTENDS Anchors, Fingerprint, Matching, Lifting

CONSTANTS
    Cases,      \* what may arrive at what: a set of [payloads, configs], the
                \* transactions and the sequences of configured sources
    Modes       \* \subseteq {"all", "best"}

(* The parties of a profile have addresses. *)
IsSource(source) ==
    /\ source.name \in Nat
    /\ IsSequence(source.profile.parties) /\ None \notin Range(source.profile.parties)
    /\ IsFiniteSet(source.profile.environment)
    /\ \A v \in source.profile.environment : v.value # None
    /\ IsSequence(source.txs)
    /\ \A tx \in Range(source.txs) : tx.name \in Nat /\ IsTemplate(tx.template)
    /\ \A a, b \in DOMAIN source.txs : a < b => source.txs[a].name < source.txs[b].name

ASSUME CasesAssumption ==
    \A case \in Cases :
        /\ \A p \in case.payloads : IsPayload(p)
        /\ \A config \in case.configs :
             IsSequence(config) /\ \A source \in Range(config) : IsSource(source)

VARIABLES
    payload,    \* the transaction
    sources,    \* the specialized sources
    mode,       \* how the ranked candidates are filtered
    stage,      \* "matching", "lifting", "done" or "failed"
    at,         \* <<source, template>> to try next; template 0: gate it first
    candidates, \* what matched so far
    survivors,  \* what is still to be lifted
    rows        \* what was lifted

vars == <<payload, sources, mode, stage, at, candidates, survivors, rows>>

-----------------------------------------------------------------------------

AnchorsOf(i) == FromProfile(sources[i].profile)

TemplateOf(i, j) == sources[i].txs[j].template

(* specialize_all: a source without anchors is left out. *)
SpecializeAll(config) ==
    Picked(config, {i \in DOMAIN config : ~NoAnchors(FromProfile(config[i].profile))})

Init ==
    /\ \E case \in Cases :
         /\ payload \in case.payloads
         /\ sources \in {SpecializeAll(config) : config \in case.configs}
    /\ mode \in Modes
    /\ stage = "matching"
    /\ at = <<1, 0>>
    /\ candidates = <<>> /\ survivors = <<>> /\ rows = <<>>

(* The templates of a source in turn, then the next source. *)
Advance ==
    at' = IF at[2] < Len(sources[at[1]].txs) THEN <<at[1], at[2] + 1>> ELSE <<at[1] + 1, 0>>

GatingSource == stage = "matching" /\ at[1] \in DOMAIN sources /\ at[2] = 0

SkipSource ==
    /\ GatingSource
    /\ ~Gates(AnchorsOf(at[1]), Summary(payload))
    /\ at' = <<at[1] + 1, 0>>
    /\ UNCHANGED <<payload, sources, mode, stage, candidates, survivors, rows>>

EngageSource ==
    /\ GatingSource
    /\ Gates(AnchorsOf(at[1]), Summary(payload))
    /\ Advance
    /\ UNCHANGED <<payload, sources, mode, stage, candidates, survivors, rows>>

TryingTemplate == stage = "matching" /\ at[1] \in DOMAIN sources /\ at[2] > 0

Fitting(i, j) == FingerprintMatches(Extract(TemplateOf(i, j)), Summary(payload))

RejectByFingerprint ==
    /\ TryingTemplate
    /\ ~Fitting(at[1], at[2])
    /\ Advance
    /\ UNCHANGED <<payload, sources, mode, stage, candidates, survivors, rows>>

RejectByMatch ==
    /\ TryingTemplate
    /\ Fitting(at[1], at[2])
    /\ MatchTx(TemplateOf(at[1], at[2]), payload) = None
    /\ Advance
    /\ UNCHANGED <<payload, sources, mode, stage, candidates, survivors, rows>>

Score(i, j) ==
    Cardinality(Present(AnchorsOf(i), Summary(payload)))
    + InformationScore(Extract(TemplateOf(i, j)))

CandidateOf(i, j) ==
    [source |-> sources[i].name,
     tx |-> sources[i].txs[j].name,
     score |-> Score(i, j),
     template |-> TemplateOf(i, j),
     parties |-> sources[i].profile.parties,
     maps |-> MatchTx(TemplateOf(i, j), payload)]

AddCandidate ==
    /\ TryingTemplate
    /\ Fitting(at[1], at[2])
    /\ MatchTx(TemplateOf(at[1], at[2]), payload) # None
    /\ candidates' = Append(candidates, CandidateOf(at[1], at[2]))
    /\ Advance
    /\ UNCHANGED <<payload, sources, mode, stage, survivors, rows>>

-----------------------------------------------------------------------------
(* select_matches *)

(* Variant: on a tie the later candidate stays. *)
ReplacesOnTie(new, old) == new.score >= old.score

Replaces(new, old) ==
    \/ new.score > old.score
    \/ new.score = old.score /\ new.tx < old.tx

(* The candidate new, when the map from source names holds best. *)
Insert(best, new) ==
    IF new.source \in DOMAIN best /\ ~Replaces(new, best[new.source])
    THEN best
    ELSE [n \in DOMAIN best \cup {new.source} |-> IF n = new.source THEN new ELSE best[n]]

(* The map from source names to the best candidate, built one at a time. *)
BestPerSource == FoldLeft(Insert, <<>>, candidates)

RanksBefore(a, b) == a.score > b.score \/ (a.score = b.score /\ a.source < b.source)

(* The sort by score, then name. *)
SortedBest ==
    LET best == Range(BestPerSource)
    IN  Sorted(best, {x \in best \X best : RanksBefore(x[1], x[2])})

(* The rank grows when the score changes. *)
Rank(ranked, c) ==
    LET last == Last(ranked)
        rank == IF ranked = <<>> THEN 1
                ELSE IF last.candidate.score = c.score THEN last.rank ELSE last.rank + 1
    IN  Append(ranked, [candidate |-> c, rank |-> rank])

(* The loop over the sorted candidates. *)
Ranked == FoldLeft(Rank, <<>>, SortedBest)

Selection == Picked(Ranked, {n \in DOMAIN Ranked : mode = "all" \/ Ranked[n].rank = 1})

SelectMatches ==
    /\ stage = "matching"
    /\ at[1] \notin DOMAIN sources
    /\ survivors' = Selection
    /\ stage' = "lifting"
    /\ UNCHANGED <<payload, sources, mode, at, candidates, rows>>

-----------------------------------------------------------------------------
(* The loop over the survivors *)

(* The row of a selected candidate. *)
RowOf(s) ==
    LET c == s.candidate
    IN  [source |-> c.source, tx |-> c.tx, score |-> c.score, rank |-> s.rank,
         lifted |-> Lift(payload, c.parties, c.maps)]

LiftSurvivor ==
    /\ stage = "lifting"
    /\ survivors # <<>>
    /\ Liftable(payload, Head(survivors).candidate.maps)
    /\ rows' = Append(rows, RowOf(Head(survivors)))
    /\ survivors' = Tail(survivors)
    /\ UNCHANGED <<payload, sources, mode, stage, at, candidates>>

(* The error propagates to the main loop and ends the process: the rows     *)
(* lifted so far are dropped.                                               *)
LiftFails ==
    /\ stage = "lifting"
    /\ survivors # <<>>
    /\ ~Liftable(payload, Head(survivors).candidate.maps)
    /\ stage' = "failed"
    /\ rows' = <<>> /\ survivors' = <<>>
    /\ UNCHANGED <<payload, sources, mode, at, candidates>>

Return ==
    /\ stage = "lifting"
    /\ survivors = <<>>
    /\ stage' = "done"
    /\ UNCHANGED <<payload, sources, mode, at, candidates, survivors, rows>>

(* The call is over: nothing more happens to this transaction. *)
Returned == stage \in {"done", "failed"} /\ UNCHANGED vars

Next ==
    \/ SkipSource \/ EngageSource
    \/ RejectByFingerprint \/ RejectByMatch \/ AddCandidate
    \/ SelectMatches
    \/ LiftSurvivor \/ LiftFails \/ Return \/ Returned

Spec == Init /\ [][Next]_vars
=============================================================================
