------------------------------ MODULE Lifting ------------------------------
(***************************************************************************)
(* tx3-lift-cardano lifting.rs: a matched transaction written in the terms *)
(* of its protocol (lift.rs): which party each slot belongs to, and what   *)
(* each party of the profile does in it.                                   *)
(*                                                                         *)
(* parties is the sequence of the parties' addresses in the order of their *)
(* names, and a party is its place in it, or None.  maps is the assignment *)
(* that MatchTx returned.  The assets and datums of an annotation are left *)
(* out: nothing is decided on them.                                        *)
(***************************************************************************)
EXTENDS Payload

CONSTANT KeysIn(_)  \* the key hashes whose bytes occur in an address

FirstParty(S) == IF S = {} THEN None ELSE Min(S)

(* match_party: the first party by name.  Whatever has no address has none. *)
PartyAt(parties, addr) == FirstParty({n \in DOMAIN parties : parties[n] = addr})

(* The payment or the stake part, whichever the bytes are in. *)
PartyWithKey(parties, key) == FirstParty({n \in DOMAIN parties : key \in KeysIn(parties[n])})

(* The slots of a map, part by part: what the lifter's two loops visit.  A  *)
(* part has a set of them, visited in some order (the code: in that of the  *)
(* constant references, or in that of the transaction).                     *)
Slots(map) == FlattenSeq([n \in DOMAIN map |-> SetToSeq(map[n])])

AddressAt(p, ref) == IF ref \in DOMAIN p.resolved THEN p.resolved[ref].addr ELSE None

(* lift_inputs: an input that is not resolved is kept, without an address. *)
LiftInputs(p, parties, map) ==
    LET ref(x) == p.ins[Slots(map)[x]]
    IN  [x \in DOMAIN Slots(map) |->
            [ref |-> ref(x), address |-> AddressAt(p, ref(x)),
             party |-> PartyAt(parties, AddressAt(p, ref(x)))]]

(* lift_inputs_simple: a reference names no party. *)
LiftReferences(p, map) ==
    LET ref(x) == p.refs[Slots(map)[x]]
    IN  [x \in DOMAIN Slots(map) |->
            [ref |-> ref(x), address |-> AddressAt(p, ref(x)), party |-> None]]

LiftOutputs(p, parties, map) ==
    LET addr(x) == p.outs[Slots(map)[x]].addr
    IN  [x \in DOMAIN Slots(map) |->
            [address |-> addr(x), party |-> PartyAt(parties, addr(x))]]

LiftMints(p, map) == [x \in DOMAIN Slots(map) |-> p.mints[Slots(map)[x]].policy]

LiftSigners(p, parties) == {[key |-> k, party |-> PartyWithKey(parties, k)] : k \in p.signers}

(* Variant: the role a party has first is the one it keeps. *)
CombineRoleKeepsFirst(prev, next) == IF prev = "Absent" THEN next ELSE prev

(* Variant: the last thing a party does is its role. *)
CombineRoleOverwrites(prev, next) == next

CombineRole(prev, next) ==
    CASE prev = "Absent" -> next
      [] next = "Absent" \/ prev = next -> prev
      [] OTHER -> "Multiple"

(* update_party_role: the roles after the party n has also acted. *)
Act(roles, n, role) ==
    IF n = None THEN roles ELSE [roles EXCEPT ![n] = CombineRole(@, role)]

(* The roles after all the parties in the sequence S have. *)
Acting(roles, S, role) == FoldLeft(LAMBDA r, n : Act(r, n, role), roles, S)

PartiesOf(annotations) == [x \in DOMAIN annotations |-> annotations[x].party]

(* lift: inputs, then outputs, then signers (update_signer_party_roles). *)
Roles(parties, inputs, outputs, signers) ==
    LET absent == [n \in DOMAIN parties |-> "Absent"]
        spent == Acting(absent, PartiesOf(inputs), "Input")
        paid == Acting(spent, PartiesOf(outputs), "Output")
    IN  Acting(paid, PartiesOf(SetToSeq(signers)), "Signer")

Lift(p, parties, maps) ==
    LET inputs == LiftInputs(p, parties, maps.inputs)
        outputs == LiftOutputs(p, parties, maps.outputs)
        signers == LiftSigners(p, parties)
        roles == Roles(parties, inputs, outputs, signers)
    IN  [parties |-> [n \in DOMAIN parties |-> [address |-> parties[n], role |-> roles[n]]],
         inputs |-> inputs, outputs |-> outputs,
         references |-> LiftReferences(p, maps.references),
         mints |-> LiftMints(p, maps.mints), burns |-> LiftMints(p, maps.burns),
         signers |-> signers, metadata |-> p.labels]

SlotsOf(map) == UNION ToSet(map)

(* The resolved outputs that the lifter decodes. *)
Decoded(p, maps) ==
    {p.ins[k] : k \in SlotsOf(maps.inputs)} \cup {p.refs[k] : k \in SlotsOf(maps.references)}

(* Variant: everything the envelope resolved must decode. *)
LiftableEager(p, maps) == \A r \in DOMAIN p.resolved : p.resolved[r] # Garbled

(* Bytes that do not decode are an error of lift, unlike bytes not given. *)
Liftable(p, maps) ==
    \A r \in Decoded(p, maps) \cap DOMAIN p.resolved : p.resolved[r] # Garbled
=============================================================================
