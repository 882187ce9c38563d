-------------------------------- MODULE Expr --------------------------------
(***************************************************************************)
(* tx3-lift expr.rs: what is constant in the expressions of a transaction  *)
(* template (TIR), and the template that the fingerprint and the matcher   *)
(* see once it is.                                                         *)
(*                                                                         *)
(* The expressions of a transaction are the nodes of a table t, each at a  *)
(* place: a number, greater than those of its parts.  A node is            *)
(* [form, value, parts, many], parts being places:                         *)
(*   "address", "bytes", "number", "refs", "other"   a literal, its value  *)
(*   "list", "struct"    of expressions; "struct" also for maps and tuples *)
(*   "assets"            policy, name and amount of each of them in turn   *)
(*   "set"               a parameter that has an expression, its only part *)
(*   "param"             one that has none yet; value: its name            *)
(*   "input"             an input query; parts: its address and its least  *)
(*                       amount; many: whether it takes all it finds       *)
(*   "computed"          what is evaluated later: operators, coercions ... *)
(***************************************************************************)
EXTENDS Payload, Integers

CONSTANTS
    Empty,      \* no bytes
    NoLabel     \* a number that is no metadata label: not a u64

Literal == {"address", "bytes", "number", "refs", "other"}

(* Variant: what is left to a parameter hides what is computed. *)
CombineParamsFirst(kinds) ==
    FoldLeft(LAMBDA acc, k : IF "ParamDriven" \in {acc, k} THEN "ParamDriven"
                             ELSE IF acc = k THEN acc ELSE "Computed",
             "Const", kinds)

(* combine *)
Combine(kinds) ==
    FoldLeft(LAMBDA acc, k : IF acc = "Const" /\ k = "Const" THEN "Const"
                             ELSE IF "Computed" \in {acc, k} THEN "Computed"
                             ELSE "ParamDriven",
             "Const", kinds)

Classify(t) ==
    LET kind[q \in DOMAIN t] ==
            IF t[q].form \in Literal THEN "Const"
            ELSE IF t[q].form \in {"list", "struct", "assets"}
                 THEN Combine([n \in DOMAIN t[q].parts |-> kind[t[q].parts[n]]])
            ELSE IF t[q].form = "set" THEN kind[t[q].parts[1]]
            ELSE IF t[q].form \in {"param", "input"} THEN "ParamDriven"
            ELSE "Computed"
    IN  kind

(* The values of the literals of that form, themselves or in parameters     *)
(* that have one, and None of the other expressions.                        *)
ConstOf(t, form) ==
    LET const[q \in DOMAIN t] ==
            IF t[q].form = form THEN t[q].value
            ELSE IF t[q].form = "set" THEN const[t[q].parts[1]]
            ELSE None
    IN  const

(* Variant: a parameter without a value stands for its own name. *)
ConstBytesOrName(t, e) == IF t[e].form = "param" THEN t[e].value ELSE ConstOf(t, "bytes")[e]

ConstAddress(t, e) == ConstOf(t, "address")[e]
ConstUtxoRefs(t, e) == ConstOf(t, "refs")[e]
ConstNumber(t, e) == ConstOf(t, "number")[e]
ConstBytes(t, e) == ConstOf(t, "bytes")[e]

PolicyParts(assets) == {assets.parts[n] : n \in {k \in DOMAIN assets.parts : k % 3 = 1}}

(* const_policies_in: of assets, of lists of them and of parameters that    *)
(* have such a value, however little else of them is constant.              *)
ConstPolicies(t) ==
    LET policies[q \in DOMAIN t] ==
            IF t[q].form = "assets"
            THEN {ConstBytes(t, e) : e \in PolicyParts(t[q])} \ {None, Empty}
            ELSE IF t[q].form \in {"list", "set"}
                 THEN UNION {policies[t[q].parts[n]] : n \in DOMAIN t[q].parts}
            ELSE {}
    IN  policies

(* expect_input_query: where the query is, the expression or in a parameter. *)
InputQuery(t) ==
    LET query[q \in DOMAIN t] ==
            IF t[q].form = "input" THEN q
            ELSE IF t[q].form = "set" THEN query[t[q].parts[1]]
            ELSE None
    IN  query

-----------------------------------------------------------------------------
(* The template (see Fingerprint) of a transaction tir that is specialized  *)
(* to the table t.  A tir has nodes, its table before, and the places of    *)
(* its inputs, references, mints, burns, signers and labels; its outputs    *)
(* are [address, amount, optional], the first two of them places.           *)

InputTemplate(t, e) ==
    LET blank == [kind |-> "other", refs |-> <<>>, addr |-> None, policies |-> {}, many |-> FALSE]
        query == t[InputQuery(t)[e]]
    IN  IF ConstUtxoRefs(t, e) # None THEN [blank EXCEPT !.kind = "refs", !.refs = ConstUtxoRefs(t, e)]
        ELSE IF InputQuery(t)[e] = None THEN blank
        ELSE [blank EXCEPT !.kind = "query",
                           !.addr = ConstAddress(t, query.parts[1]),
                           !.policies = ConstPolicies(t)[query.parts[2]],
                           !.many = query.many]

OutputTemplate(t, o) ==
    [addr |-> ConstAddress(t, o.address), policies |-> ConstPolicies(t)[o.amount],
     optional |-> o.optional]

TemplateOf(tir, t) ==
    [inputs |-> [n \in DOMAIN tir.inputs |-> InputTemplate(t, tir.inputs[n])],
     outputs |-> [n \in DOMAIN tir.outputs |-> OutputTemplate(t, tir.outputs[n])],
     mints |-> [n \in DOMAIN tir.mints |-> ConstPolicies(t)[tir.mints[n]]],
     burns |-> [n \in DOMAIN tir.burns |-> ConstPolicies(t)[tir.burns[n]]],
     references |-> [n \in DOMAIN tir.references |-> ConstUtxoRefs(t, tir.references[n])],
     collateral |-> tir.collateral,
     signers |-> {ConstBytes(t, e) : e \in ToSet(tir.signers)} \ {None},
     labels |-> {ConstNumber(t, e) : e \in ToSet(tir.labels)} \ {None, NoLabel},
     validity |-> tir.validity]

-----------------------------------------------------------------------------
(* What a TIR is. *)

IsLiteral(node) ==
    /\ node.form \in Literal /\ node.parts = <<>>
    /\ node.form = "refs" => IsSequence(node.value)

IsTable(t) ==
    \A q \in DOMAIN t :
        /\ IsSequence(t[q].parts)
        /\ \A p \in Range(t[q].parts) : p \in DOMAIN t /\ p < q
        /\ t[q].form \in Literal => IsLiteral(t[q])
        /\ t[q].form = "set" => Len(t[q].parts) = 1
        /\ t[q].form = "input" => Len(t[q].parts) = 2

IsTir(tir) ==
    /\ IsSequence(tir.nodes) /\ IsTable(tir.nodes)
    /\ \A s \in {tir.inputs, tir.references, tir.mints, tir.burns, tir.signers, tir.labels} :
         s \in Seq(DOMAIN tir.nodes)
    /\ IsSequence(tir.outputs)
    /\ \A o \in Range(tir.outputs) : {o.address, o.amount} \subseteq DOMAIN tir.nodes
    /\ tir.collateral \in Nat
=============================================================================
