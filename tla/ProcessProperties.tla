------------------------- MODULE ProcessProperties -------------------------
(***************************************************************************)
(* What the pipeline of Process promises, stated on the payload and the    *)
(* configured sources and not on the summary, the fingerprint and the      *)
(* greedy loops that the code goes through.                                *)
(***************************************************************************)
EXTENDS Process, Front, Filter

(* The variables hold what the code's types allow. *)
TypeOK ==
    /\ payload \in UNION {case.payloads : case \in Cases}
    /\ mode \in Modes
    /\ stage \in {"matching", "lifting", "done", "failed"}
    /\ \A c \in Range(candidates) : c.score \in Nat /\ None \notin Range(c.maps)
    /\ \A s \in Range(survivors) : s.rank \in 1 .. Len(candidates)
    /\ stage = "matching" => survivors = <<>> /\ rows = <<>>
    /\ Len(rows) + Len(survivors) <= Len(candidates)

-----------------------------------------------------------------------------
(* Gating *)

Outputs(p, R) == {p.resolved[r] : r \in {x \in R \cap DOMAIN p.resolved : p.resolved[x] # Garbled}}

(* README.md:17: the transaction spends from one of the protocol's          *)
(* addresses, mints or burns under one of its policies, refers to or spends *)
(* one of its UTxOs, or creates an output with a datum at one of its        *)
(* addresses.                                                               *)
Engages(profile, p) ==
    \/ \E k \in DOMAIN p.ins : \E party \in Range(profile.parties) : ResolvedAt(p, p.ins[k], party)
    \/ \E o \in Range(p.outs) : o.datum /\ o.addr \in Range(profile.parties)
    \/ \E v \in profile.environment :
         \/ v.shape = "ref" /\ v.value \in Range(p.ins) \cup Range(p.refs)
         \/ v.shape = "policy" /\ \E m \in Range(p.mints) : m.policy = v.value /\ (m.up \/ m.down)

(* A bare payment to a protocol's address, or a swap that only moves its    *)
(* tokens, never becomes a match of that protocol.                          *)
OnlyEngaged ==
    \A c \in Range(candidates) :
        \E i \in DOMAIN sources : sources[i].name = c.source /\ Engages(sources[i].profile, payload)

-----------------------------------------------------------------------------
(* The assignment *)

SlotsOnce(map) ==
    \A a, b \in DOMAIN map : a # b => map[a] \cap map[b] = {}

(* What the entry x of a part of the template is promised of its slots. *)
Serves(part, x, p, slots) ==
    CASE part = "inputs" ->
           /\ x.kind = "refs" => Range(x.refs) = {p.ins[k] : k \in slots}
           /\ x.kind = "query" /\ x.addr # None =>
                \A k \in slots : ResolvedAt(p, p.ins[k], x.addr)
           /\ x.kind = "query" /\ ~x.many => Cardinality(slots) <= 1
      [] part = "outputs" ->
           /\ slots # {} \/ x.optional
           /\ Cardinality(slots) <= 1
           /\ x.addr # None => \A k \in slots : p.outs[k].addr = x.addr
      [] part = "mints" ->
           /\ slots # {} /\ Cardinality(slots) <= 1
           /\ \A k \in slots : p.mints[k].up /\ (p.mints[k].policy \in x \/ x = {})
      [] part = "burns" ->
           /\ slots # {} /\ Cardinality(slots) <= 1
           /\ \A k \in slots : p.mints[k].down /\ (p.mints[k].policy \in x \/ x = {})
      [] part = "references" ->
           /\ slots # {}
           /\ x = None => Cardinality(slots) <= 1
           /\ x # None => {p.refs[k] : k \in slots} \subseteq Range(x)

Sound(t, p, maps) ==
    \A part \in Parts :
        /\ Len(maps[part]) = Len(t[part])
        /\ SlotsOnce(maps[part])
        /\ \A n \in DOMAIN maps[part] : Serves(part, t[part][n], p, maps[part][n])

(* A match gives every part of the template slots that may serve it, never  *)
(* one slot to two inputs, two outputs, two mints, two burns or two         *)
(* references, all of an input's constant references, and something to      *)
(* every part the protocol cannot go without.                               *)
AssignmentSound ==
    \A c \in Range(candidates) : Sound(c.template, payload, c.maps)

-----------------------------------------------------------------------------
(* Completeness *)

(* Distinct parts D get distinct slots of S that fit them. *)
Seated(D, S, fit) ==
    \E seat \in [D -> S] : IsInjective(seat) /\ \A n \in D : <<n, seat[n]>> \in fit

NamedInputs(t) == UNION {Range(i.refs) : i \in {x \in Range(t.inputs) : x.kind = "refs"}}

(* What a query asks of the input r: its address and some of its tokens. *)
Answers(p, r, query) ==
    /\ query.addr # None => ResolvedAt(p, r, query.addr)
    /\ query.policies # {} =>
         /\ r \in DOMAIN p.resolved
         /\ p.resolved[r] # Garbled
         /\ query.policies \subseteq p.resolved[r].policies

SpendsInputs(t, p) ==
    LET rest == {k \in DOMAIN p.ins : p.ins[k] \notin NamedInputs(t)}
        queries == {n \in DOMAIN t.inputs : t.inputs[n].kind = "query"}
    IN  /\ NamedInputs(t) \subseteq Range(p.ins)
        /\ Seated(queries, rest,
                  {x \in queries \X rest : Answers(p, p.ins[x[2]], t.inputs[x[1]])})

MakesOutputs(t, p) ==
    LET needed == {n \in DOMAIN t.outputs : ~t.outputs[n].optional}
    IN  Seated(needed, DOMAIN p.outs,
               {x \in needed \X DOMAIN p.outs :
                   /\ t.outputs[x[1]].addr \in {None, p.outs[x[2]].addr}
                   /\ t.outputs[x[1]].policies \subseteq p.outs[x[2]].policies})

(* Something was moved, and something of each of the policies. *)
Moves(policies, moved) == moved # {} /\ policies \subseteq PoliciesOf(moved)

NamedReferences(t) == UNION {Range(r) : r \in Range(t.references) \ {None}}

RefersTo(t, p) ==
    /\ NamedReferences(t) \subseteq Range(p.refs)
    /\ Cardinality({n \in DOMAIN t.references : t.references[n] = None})
         + Cardinality(NamedReferences(t)) <= Len(p.refs)

(* Some resolution of t's arguments can have built p: each part of t that   *)
(* is not optional has a place of its own in p.                             *)
Builds(t, p) ==
    /\ SpendsInputs(t, p)
    /\ MakesOutputs(t, p)
    /\ \A policies \in Range(t.mints) : Moves(policies, Minted(p))
    /\ \A policies \in Range(t.burns) : Moves(policies, Burned(p))
    /\ RefersTo(t, p)
    /\ t.signers \subseteq p.signers
    /\ t.labels \subseteq p.labels
    /\ t.collateral <= p.collateral
    /\ t.validity => p.validity

(* The templates the matcher decides exactly: no output is optional and an  *)
(* output anywhere comes after those at a known address; at most one mint   *)
(* and one burn; constant references come before what is taken by search,   *)
(* none is named twice, by one input or reference or by two, and a list of  *)
(* reference inputs names one: the matcher finds nothing for an empty list. *)
Literal(t) ==
    /\ \A n \in DOMAIN t.outputs : ~t.outputs[n].optional
    /\ \A a, b \in DOMAIN t.outputs : a < b /\ t.outputs[a].addr = None => t.outputs[b].addr = None
    /\ Len(t.mints) <= 1 /\ Len(t.burns) <= 1
    /\ \A i \in Range(t.inputs) : i.kind = "refs" => IsInjective(i.refs)
    /\ \A r \in Range(t.references) \ {None} : IsInjective(r) /\ r # <<>>
    /\ \A a, b \in DOMAIN t.inputs :
         a < b /\ t.inputs[b].kind = "refs" =>
             t.inputs[a].kind = "refs" /\ Range(t.inputs[a].refs) \cap Range(t.inputs[b].refs) = {}
    /\ \A a, b \in DOMAIN t.references :
         a < b /\ t.references[b] # None =>
             t.references[a] # None /\ Range(t.references[a]) \cap Range(t.references[b]) = {}

IsCandidate(i, j) ==
    \E c \in Range(candidates) :
        c.source = sources[i].name /\ c.tx = sources[i].txs[j].name

(* No match is missed: when every source was tried, each literal template   *)
(* that can have built the transaction, of a source the transaction         *)
(* engages, is a candidate.  Neither the gate, nor the fingerprint, nor the *)
(* greedy order loses one.                                                  *)
NoMissedMatch ==
    at[1] \notin DOMAIN sources =>
        \A i \in DOMAIN sources : \A j \in DOMAIN sources[i].txs :
            /\ Engages(sources[i].profile, payload)
            /\ Literal(TemplateOf(i, j))
            /\ Builds(TemplateOf(i, j), payload)
            => IsCandidate(i, j)

(* README.md:11: the fingerprint is a set of necessary conditions "that any *)
(* compatible payload must satisfy": what it rejects the matcher would      *)
(* reject too.                                                              *)
FingerprintNecessary ==
    [][RejectByFingerprint => MatchTx(TemplateOf(at[1], at[2]), payload) = None]_vars

-----------------------------------------------------------------------------
(* Selection *)

(* The k-th candidate is the best of its source: on a tie the first name,   *)
(* and of two sources with one name the first.                              *)
Wins(k) ==
    LET c == candidates[k]
    IN  \A l \in DOMAIN candidates \ {k} :
            LET d == candidates[l]
            IN  d.source = c.source =>
                    \/ c.score > d.score
                    \/ c.score = d.score /\ (c.tx < d.tx \/ (c.tx = d.tx /\ k < l))

Winners == {candidates[k] : k \in {n \in DOMAIN candidates : Wins(n)}}

Verdict(c) == [source |-> c.source, tx |-> c.tx, score |-> c.score]

RankOf(c) == 1 + Cardinality({d.score : d \in {w \in Winners : w.score > c.score}})

(* README.md:33-41, process.rs:243-250: the rows of a transaction are the   *)
(* best template of each source that has one, ranked densely by score, and  *)
(* in mode "best" those of rank 1 only; and they are written in the order   *)
(* of rank, then name.                                                      *)
RowsAreRanked ==
    stage = "done" =>
        /\ {[rank |-> r.rank] @@ Verdict(r) : r \in Range(rows)} =
             {[rank |-> RankOf(c)] @@ Verdict(c) :
                 c \in {w \in Winners : mode = "all" \/ RankOf(w) = 1}}
        /\ \A a, b \in DOMAIN rows : a < b =>
             \/ rows[a].rank < rows[b].rank
             \/ rows[a].rank = rows[b].rank /\ rows[a].source < rows[b].source

-----------------------------------------------------------------------------
(* Lifting *)

(* What a row shows the n-th party doing.  Of several parties at one        *)
(* address, or with one key, the first takes it all.                        *)
Deeds(lifted, n) ==
    LET addr(k) == lifted.parties[k].address
        FirstOf(S) == n \in S /\ \A k \in S : n <= k
        party == DOMAIN lifted.parties
        here == FirstOf({k \in party : addr(k) = addr(n)})
    IN  {role \in {"Input", "Output", "Signer"} :
            CASE role = "Input" ->
                   here /\ \E i \in Range(lifted.inputs) : ResolvedAt(payload, i.ref, addr(n))
              [] role = "Output" ->
                   here /\ \E o \in Range(lifted.outputs) : o.address = addr(n)
              [] OTHER ->
                   \E key \in payload.signers : FirstOf({k \in party : key \in KeysIn(addr(k))})}

(* A party's role is all it does in the row, neither what it did first nor  *)
(* what it did last: Absent when it does nothing, Multiple when it does two *)
(* things or three (lifting.rs:268-289).                                    *)
RolesAreExact ==
    \A r \in Range(rows) : \A n \in DOMAIN r.lifted.parties :
        LET deeds == Deeds(r.lifted, n)
            role == r.lifted.parties[n].role
        IN  CASE deeds = {} -> role = "Absent"
              [] Cardinality(deeds) = 1 -> role \in deeds
              [] OTHER -> role = "Multiple"

(* The parties the template sends to or spends from by name are seen doing  *)
(* so in the row: an output that may not be absent shows its party          *)
(* receiving, and an input that found a slot shows its party spending.  The *)
(* template's addresses, the slots the matcher chose and the addresses the  *)
(* lifter reads again from the transaction agree.                           *)
PartiesPlayTheirParts ==
    \A r \in Range(rows) :
        \E c \in Winners :
            /\ Verdict(c) = Verdict(r)
            /\ \A n \in DOMAIN c.parties :
                 LET mine == \A k \in 1 .. (n - 1) : c.parties[k] # c.parties[n]
                     role == r.lifted.parties[n].role
                     receives == \E o \in Range(c.template.outputs) :
                                     o.addr = c.parties[n] /\ ~o.optional
                     spends == \E x \in DOMAIN c.template.inputs :
                                   /\ c.template.inputs[x].kind = "query"
                                   /\ c.template.inputs[x].addr = c.parties[n]
                                   /\ c.maps.inputs[x] # {}
                 IN  /\ mine /\ receives => role \in {"Output", "Multiple"}
                     /\ mine /\ spends => role \in {"Input", "Multiple"}
                     /\ mine /\ receives /\ spends => role = "Multiple"

(* The undecodable outputs of the transaction that the lifter will read for *)
(* the input templates in I and the reference templates of a candidate.     *)
Poison(c, I) ==
    {r \in {payload.ins[k] : k \in UNION {c.maps.inputs[n] : n \in I}}
           \cup {payload.refs[k] : k \in UNION Range(c.maps.references)} :
        r \in DOMAIN payload.resolved /\ payload.resolved[r] = Garbled}

Kept(c) == c \in Winners /\ (mode = "all" \/ RankOf(c) = 1)

(* Undecodable bytes, which summarize and match_tx shrug off, end the       *)
(* process when the lifter meets them, and every replay ends it again.      *)
(* Only a candidate that is kept and reads them does that: one that takes   *)
(* its input wherever it lies, or by its reference; an input asked for at   *)
(* an address is never one of them.                                         *)
FailsOnlyOnUse ==
    /\ stage = "failed" =>
         \E c \in Range(candidates) :
             Kept(c) /\ Poison(c, {n \in DOMAIN c.maps.inputs : c.template.inputs[n].addr = None}) # {}
    /\ stage = "done" => \A c \in Range(candidates) : Kept(c) => Poison(c, DOMAIN c.maps.inputs) = {}

-----------------------------------------------------------------------------
(* The library *)

Sole(i) == \A k \in DOMAIN sources : sources[k].name = sources[i].name => k = i

(* The library and the tracker agree on one transaction, in whatever order  *)
(* a TII gives its keys.  For a source it engages,                          *)
(* route_and_lift_with_profile finds something exactly when the tracker has *)
(* a candidate of that source; it is the first candidate in that order,     *)
(* though the tracker may keep another with a better score, and when it is  *)
(* the one kept, what is lifted is what is stored.                          *)
ProfileAgrees(i, order) ==
    LET found == RouteAndLiftWithProfile(sources[i], order, payload)
        hits == {n \in DOMAIN order : IsCandidate(i, order[n])}
        first == sources[i].txs[order[Min(hits)]].name
    IN  /\ found = Nothing <=> hits = {}
        /\ found.kind = "lifted" => found.tx = first
        /\ \A r \in Range(rows) :
             hits # {} /\ r.source = sources[i].name /\ r.tx = first
                 => found.kind = "lifted" /\ found.lifted = r.lifted

(* Over several profiles route_and_lift returns what one of them alone      *)
(* would give, and nothing only when all of them would give nothing.        *)
ProfilesAgree(txs, profiles) ==
    LET found == [i \in DOMAIN sources |-> RouteAndLiftWithProfile(sources[i], txs, payload)]
        any == RouteAndLift(sources, txs, profiles, payload)
    IN  IF \A i \in DOMAIN sources : found[i] = Nothing THEN any = Nothing
        ELSE any \in Range(found) \ {Nothing}

(* The library's front and the tracker agree whenever a call is over: each  *)
(* profile on its own as ProfileAgrees says, and several profiles with one  *)
(* list of transactions as ProfilesAgree says.                              *)
FrontAgrees ==
    stage \in {"done", "failed"} =>
        /\ \A i \in {k \in DOMAIN sources : Sole(k) /\ Engages(sources[k].profile, payload)} :
             \A order \in Orders(DOMAIN sources[i].txs) : ProfileAgrees(i, order)
        /\ sources # <<>> =>
             \A txs \in Orders(DOMAIN sources[1].txs), profiles \in Orders(DOMAIN sources) :
                 (\A i \in DOMAIN sources : Len(sources[i].txs) = Len(sources[1].txs))
                     => ProfilesAgree(txs, profiles)

-----------------------------------------------------------------------------
(* The upstream filter *)

(* The filter names every anchor of a source; it has no words for UTxOs. *)
Covers(f, anchors) ==
    /\ anchors.addresses \subseteq f.addresses
    /\ anchors.policies \subseteq {f.moves, f.mints}
    /\ anchors.utxo_refs = {}

(* A filter that names every anchor of a source costs it no match           *)
(* (config.rs:74-75: a transaction is forwarded when at least one           *)
(* alternative holds): what engages the source's protocol is forwarded,     *)
(* whichever of the anchors it is that engages it.                          *)
FilterLosesNothing ==
    \A f \in Filters : \A i \in DOMAIN sources :
        Covers(f, AnchorsOf(i)) /\ Engages(sources[i].profile, payload) => Forwards(f, payload)
=============================================================================
