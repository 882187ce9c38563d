------------------------------ MODULE Matching ------------------------------
(***************************************************************************)
(* tx3-lift-cardano matching.rs: the structural match of a specialized     *)
(* template (see Fingerprint) against a payload (see Payload).             *)
(*                                                                         *)
(* Every part of the template is served in order and takes slots of the    *)
(* payload that no earlier part took; the match fails at the first part    *)
(* that may not go without and finds nothing.                              *)
(***************************************************************************)
EXTENDS Payload

(* At most the first slot of S. *)
First(S) == IF S = {} THEN {} ELSE {Min(S)}

OrFail(S) == IF S = {} THEN None ELSE S

(* Reference r was resolved to an output that decodes and is at addr. *)
ResolvedAt(p, r, addr) ==
    /\ r \in DOMAIN p.resolved
    /\ p.resolved[r] # Garbled
    /\ p.resolved[r].addr = addr

(* Variant: what cannot be resolved is let pass. *)
MayUnresolved(p, i, k) ==
    CASE i.kind = "refs" -> p.ins[k] \in ToSet(i.refs)
      [] i.kind = "query" -> \/ i.addr = None
                             \/ p.ins[k] \notin DOMAIN p.resolved
                             \/ ResolvedAt(p, p.ins[k], i.addr)
      [] OTHER -> FALSE

(* Whether slot k of the payload may serve a template: what assign_input,   *)
(* the output loop and the mint and burn loops ask of one slot.             *)
MayInput(p, i, k) ==
    CASE i.kind = "refs" -> p.ins[k] \in ToSet(i.refs)
      [] i.kind = "query" -> i.addr = None \/ ResolvedAt(p, p.ins[k], i.addr)
      [] OTHER -> FALSE

MayOutput(p, o, k) == o.addr \in {None, p.outs[k].addr}

MayMint(p, policies, k) ==
    p.mints[k].up /\ (policies = {} \/ p.mints[k].policy \in policies)

MayBurn(p, policies, k) ==
    p.mints[k].down /\ (policies = {} \/ p.mints[k].policy \in policies)

MayReference(p, r, k) == r = None \/ p.refs[k] \in ToSet(r)

(* assign_input, assign_input_by_query: constant references must all be     *)
(* there; a query takes what it finds, all of it or the first, even nothing *)
TakeInput(p, i, used) ==
    LET may == {k \in DOMAIN p.ins \ used : MayInput(p, i, k)}
    IN  CASE i.kind = "refs" -> IF Cardinality(may) = Len(i.refs) THEN may ELSE None
          [] i.kind = "query" /\ ~i.many -> First(may)
          [] OTHER -> may

TakeOutput(p, o, used) ==
    LET slots == First({k \in DOMAIN p.outs \ used : MayOutput(p, o, k)})
    IN  IF o.optional THEN slots ELSE OrFail(slots)

TakeMint(p, policies, used) ==
    OrFail(First({k \in DOMAIN p.mints \ used : MayMint(p, policies, k)}))

TakeBurn(p, policies, used) ==
    OrFail(First({k \in DOMAIN p.mints \ used : MayBurn(p, policies, k)}))

TakeReference(p, r, used) ==
    LET may == {k \in DOMAIN p.refs \ used : MayReference(p, r, k)}
    IN  OrFail(IF r = None THEN First(may) ELSE may)

Parts == {"inputs", "outputs", "mints", "burns", "references"}

(* What is missing is neither a map nor an assignment. *)
ASSUME NothingAssumption ==
    None \notin Seq(SUBSET Nat) \cup [Parts -> Seq(SUBSET Nat)]

(* The templates are as Fingerprint says. *)
IsTemplate(t) ==
    /\ \A part \in Parts : IsSequence(t[part])
    /\ \A i \in Range(t.inputs) :
         /\ IsSequence(i.refs) /\ IsFiniteSet(i.policies)
         /\ i.kind # "query" => i.addr = None
    /\ \A o \in Range(t.outputs) : IsFiniteSet(o.policies)
    /\ \A x \in Range(t.mints) \cup Range(t.burns) : IsFiniteSet(x)
    /\ \A r \in Range(t.references) \ {None} : IsSequence(r)
    /\ IsFiniteSet(t.signers) /\ IsFiniteSet(t.labels)

(* Variant: a burn does not remember what earlier burns took. *)
TakeForgettingBurns(part, p, x, used) ==
    CASE part = "inputs" -> TakeInput(p, x, used)
      [] part = "outputs" -> TakeOutput(p, x, used)
      [] part = "mints" -> TakeMint(p, x, used)
      [] part = "burns" -> TakeBurn(p, x, {})
      [] part = "references" -> TakeReference(p, x, used)

(* What the template x of a part takes when the slots in used are gone, or  *)
(* None.                                                                    *)
Take(part, p, x, used) ==
    CASE part = "inputs" -> TakeInput(p, x, used)
      [] part = "outputs" -> TakeOutput(p, x, used)
      [] part = "mints" -> TakeMint(p, x, used)
      [] part = "burns" -> TakeBurn(p, x, used)
      [] part = "references" -> TakeReference(p, x, used)

(* taken is what the templates before x took, in order, or None. *)
Serve(part, p, taken, x) ==
    IF taken = None THEN None
    ELSE LET slots == Take(part, p, x, UNION ToSet(taken))
         IN  IF slots = None THEN None ELSE Append(taken, slots)

(* The slots each of the templates of a part takes, in order, or None. *)
Greedy(part, p, templates) ==
    FoldLeft(LAMBDA taken, x : Serve(part, p, taken, x), <<>>, templates)

(* The five maps of a MatchAssignment, None in the place of one that fails. *)
(* A policy that is minted and burned has one slot, which a mint and a burn *)
(* may share.                                                               *)
Assign(t, p) == [part \in Parts |-> Greedy(part, p, t[part])]

(* Variant: a part that finds nothing does not end the match. *)
MatchTxUnchecked(t, p) == Assign(t, p)

(* match_tx *)
MatchTx(t, p) ==
    LET maps == Assign(t, p)
    IN  IF None \in Range(maps) THEN None ELSE maps
=============================================================================
