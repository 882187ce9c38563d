------------------------------ MODULE Payload ------------------------------
(***************************************************************************)
(* A transaction as the matcher sees it (tx3-lift-cardano payload.rs) and  *)
(* its chain-neutral summary (summarize.rs, tx3-lift payload.rs).          *)
(*                                                                         *)
(* A payload p is a record:                                                *)
(*   ins, refs    the references of its inputs and reference inputs        *)
(*   resolved     what the envelope says the references were: a function   *)
(*                from some of them to outputs, or Garbled when the bytes  *)
(*                do not decode                                            *)
(*   outs         its outputs, each [addr, policies, datum]: the address,  *)
(*                the policies of its assets, whether it carries a datum   *)
(*   mints        one [policy, up, down] per policy it mints or burns      *)
(*                under: whether some asset is created, some destroyed     *)
(*   collateral, signers, labels, validity                                 *)
(*                how many, who, which metadata, whether it is bounded     *)
(***************************************************************************)
EXTENDS Naturals, Orderings

CONSTANTS
    None,       \* no address: an output whose address does not decode
    Garbled     \* a resolved output whose bytes do not decode

(* What is missing is no number. *)
ASSUME NoneAssumption == None \notin Nat

Places(p) == UNION {DOMAIN p[field] : field \in {"ins", "refs", "outs", "mints"}}

(* The ledger keeps the inputs and the reference inputs of a transaction as *)
(* two sets: none is there twice.  What is missing is no set of places.     *)
IsPayload(p) ==
    /\ IsSequence(p.ins) /\ IsSequence(p.refs) /\ IsSequence(p.outs) /\ IsSequence(p.mints)
    /\ IsInjective(p.ins) /\ IsInjective(p.refs)
    /\ IsFiniteSet(p.signers)
    /\ \A S \in SUBSET Places(p) : S # None

(* The outputs of the references in R that can be read. *)
Readable(p, R) ==
    {p.resolved[r] : r \in {x \in R \cap DOMAIN p.resolved : p.resolved[x] # Garbled}}

Spent(p) == Readable(p, ToSet(p.ins))

Produced(p) == ToSet(p.outs)

AddressesOf(O) == {o.addr : o \in O} \ {None}

Minted(p) == {m \in ToSet(p.mints) : m.up}
Burned(p) == {m \in ToSet(p.mints) : m.down}
PoliciesOf(M) == {m.policy : m \in M}

(* Variant: every output counts as one that carries a datum. *)
SummaryWithoutDatums(p) ==
    [input_addresses |-> AddressesOf(Spent(p)),
     output_addresses |-> AddressesOf(Produced(p)),
     output_addresses_with_datum |-> AddressesOf(Produced(p)),
     input_refs |-> ToSet(p.ins),
     reference_refs |-> ToSet(p.refs),
     mint_policies |-> PoliciesOf(Minted(p)),
     burn_policies |-> PoliciesOf(Burned(p)),
     value_policies |-> UNION {o.policies : o \in Spent(p) \cup Produced(p)},
     signers |-> p.signers,
     labels |-> p.labels,
     counts |-> [inputs |-> Len(p.ins), outputs |-> Len(p.outs),
                 mints |-> Cardinality(Minted(p)), burns |-> Cardinality(Burned(p)),
                 collateral |-> p.collateral, references |-> Len(p.refs)],
     validity |-> p.validity]

(* summarize: an input that is not resolved, or resolved to bytes that do   *)
(* not decode, contributes its reference and nothing else.                  *)
Summary(p) ==
    [input_addresses |-> AddressesOf(Spent(p)),
     output_addresses |-> AddressesOf(Produced(p)),
     output_addresses_with_datum |-> AddressesOf({o \in Produced(p) : o.datum}),
     input_refs |-> ToSet(p.ins),
     reference_refs |-> ToSet(p.refs),
     mint_policies |-> PoliciesOf(Minted(p)),
     burn_policies |-> PoliciesOf(Burned(p)),
     value_policies |-> UNION {o.policies : o \in Spent(p) \cup Produced(p)},
     signers |-> p.signers,
     labels |-> p.labels,
     counts |-> [inputs |-> Len(p.ins), outputs |-> Len(p.outs),
                 mints |-> Cardinality(Minted(p)), burns |-> Cardinality(Burned(p)),
                 collateral |-> p.collateral, references |-> Len(p.refs)],
     validity |-> p.validity]
=============================================================================
