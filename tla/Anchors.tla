------------------------------ MODULE Anchors ------------------------------
(***************************************************************************)
(* tx3-lift anchors.rs: the identifiers that tie a transaction to a        *)
(* protocol, taken from a profile of its TII, and what presence of them in *)
(* a transaction lets the matcher look at it at all.                       *)
(*                                                                         *)
(* A profile is [parties, environment]: the addresses of its parties in    *)
(* the order of their names, and its environment strings as [shape, value] *)
(* records, where shape says whether the string reads "<64 hex>#<index>"   *)
(* ("ref"), is 56 hex digits ("policy") or is anything else ("other").     *)
(***************************************************************************)
EXTENDS Payload

Shaped(profile, shape) ==
    {v.value : v \in {x \in profile.environment : x.shape = shape}}

FromProfile(profile) ==
    [addresses |-> ToSet(profile.parties),
     utxo_refs |-> Shaped(profile, "ref"),
     policies |-> Shaped(profile, "policy")]

NoAnchors(a) == a.addresses = {} /\ a.utxo_refs = {} /\ a.policies = {}

(* Variant: any presence gates. *)
GatingAsPresent(a, s) ==
    (a.addresses \cap (s.input_addresses \cup s.output_addresses))
    \cup (a.utxo_refs \cap (s.input_refs \cup s.reference_refs))
    \cup (a.policies \cap (s.mint_policies \cup s.burn_policies \cup s.value_policies))

(* The anchors whose presence means that one of the protocol's scripts ran  *)
(* or that state was put at one of its addresses.                           *)
Gating(a, s) ==
    (a.addresses \cap (s.input_addresses \cup s.output_addresses_with_datum))
    \cup (a.utxo_refs \cap (s.input_refs \cup s.reference_refs))
    \cup (a.policies \cap (s.mint_policies \cup s.burn_policies))

(* The anchors that are present at all. *)
Present(a, s) ==
    Gating(a, s)
    \cup (a.addresses \cap s.output_addresses)
    \cup (a.policies \cap s.value_policies)

Gates(a, s) == Gating(a, s) # {}
=============================================================================
