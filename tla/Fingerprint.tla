---------------------------- MODULE Fingerprint ----------------------------
(***************************************************************************)
(* tx3-lift fingerprint.rs: what a specialized transaction template        *)
(* requires of a summary, and the cheap test of it.                        *)
(*                                                                         *)
(* A template t is a record, as apply_args leaves it:                      *)
(*   inputs       each [kind, refs, addr, policies, many]: kind "refs" for *)
(*                constant references, "query" for an input query with a   *)
(*                constant address or None and constant policies in its    *)
(*                least amount, "other" for anything else                  *)
(*   outputs      each [addr, policies, optional], addr None when it is    *)
(*                not constant                                             *)
(*   mints, burns each the set of its constant policies                    *)
(*   references   each the sequence of its constant references, None when  *)
(*                they are not constant                                    *)
(*   collateral, signers, labels, validity                                 *)
(***************************************************************************)
EXTENDS Payload

(* The least number of inputs (references) that one input (reference)       *)
(* template stands for.                                                     *)
LeastInputs(i) ==
    CASE i.kind = "refs" -> Len(i.refs)
      [] i.kind = "query" /\ ~i.many -> 1
      [] OTHER -> 0

LeastReferences(r) == IF r = None THEN 1 ELSE Len(r)

TotalInputs(t) == SumFunction([n \in DOMAIN t.inputs |-> LeastInputs(t.inputs[n])])

TotalReferences(t) == SumFunction([n \in DOMAIN t.references |-> LeastReferences(t.references[n])])

Queries(t) == {i \in ToSet(t.inputs) : i.kind = "query"}

(* Variant: the policies of burns are required of the mints. *)
ExtractBurnsAsMints(t) ==
    [input_addresses |-> {q.addr : q \in Queries(t)} \ {None},
     output_addresses |-> {o.addr : o \in ToSet(t.outputs)} \ {None},
     input_refs |-> UNION {ToSet(i.refs) : i \in {x \in ToSet(t.inputs) : x.kind = "refs"}},
     reference_refs |-> UNION {ToSet(r) : r \in ToSet(t.references) \ {None}},
     mint_policies |-> UNION (ToSet(t.mints) \cup ToSet(t.burns)),
     burn_policies |-> {},
     value_policies |-> UNION {x.policies : x \in Queries(t) \cup ToSet(t.outputs)},
     signers |-> t.signers,
     labels |-> t.labels,
     least |-> [inputs |-> TotalInputs(t),
                outputs |-> Cardinality({n \in DOMAIN t.outputs : ~t.outputs[n].optional}),
                mints |-> Len(t.mints), burns |-> Len(t.burns),
                collateral |-> t.collateral,
                references |-> TotalReferences(t)],
     validity |-> t.validity]

(* extract *)
Extract(t) ==
    [input_addresses |-> {q.addr : q \in Queries(t)} \ {None},
     output_addresses |-> {o.addr : o \in ToSet(t.outputs)} \ {None},
     input_refs |-> UNION {ToSet(i.refs) : i \in {x \in ToSet(t.inputs) : x.kind = "refs"}},
     reference_refs |-> UNION {ToSet(r) : r \in ToSet(t.references) \ {None}},
     mint_policies |-> UNION ToSet(t.mints),
     burn_policies |-> UNION ToSet(t.burns),
     value_policies |-> UNION {x.policies : x \in Queries(t) \cup ToSet(t.outputs)},
     signers |-> t.signers,
     labels |-> t.labels,
     least |-> [inputs |-> TotalInputs(t),
                outputs |-> Cardinality({n \in DOMAIN t.outputs : ~t.outputs[n].optional}),
                mints |-> Len(t.mints), burns |-> Len(t.burns),
                collateral |-> t.collateral,
                references |-> TotalReferences(t)],
     validity |-> t.validity]

Required == {"input_addresses", "output_addresses", "input_refs", "reference_refs",
             "mint_policies", "burn_policies", "value_policies", "signers", "labels"}

(* Fingerprint::matches *)
FingerprintMatches(fp, s) ==
    /\ \A field \in Required : fp[field] \subseteq s[field]
    /\ \A slot \in DOMAIN fp.least : fp.least[slot] <= s.counts[slot]
    /\ fp.validity => s.validity

(* Fingerprint::information_score *)
InformationScore(fp) == SumFunction([field \in Required |-> Cardinality(fp[field])])
=============================================================================
