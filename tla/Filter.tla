------------------------------- MODULE Filter -------------------------------
(***************************************************************************)
(* upstream/predicate.rs: the [upstream.filter] block as the predicate by  *)
(* which the node chooses the transactions it forwards.  A filter is       *)
(* [addresses, moves, mints]: a set of addresses, and for each of the two  *)
(* policy entries a policy or None.                                        *)
(***************************************************************************)
EXTENDS Payload

CONSTANT Filters    \* the filters that may be configured

Pattern(kind, value) == [kind |-> kind, value |-> value]

(* Variant: the policies are only looked at when there are no addresses. *)
CompileAddressesFirst(f) ==
    IF f.addresses # {} THEN {Pattern("has_address", a) : a \in f.addresses}
    ELSE {Pattern("moves_asset", x) : x \in {f.moves} \ {None}}
         \cup {Pattern("mints_asset", x) : x \in {f.mints} \ {None}}

(* compile: the alternatives of the predicate, none for an empty filter. *)
Compile(f) ==
    {Pattern("has_address", a) : a \in f.addresses}
    \cup {Pattern("moves_asset", x) : x \in {f.moves} \ {None}}
    \cup {Pattern("mints_asset", x) : x \in {f.mints} \ {None}}

(* What the patterns mean to the node, by config.rs:81-87. *)
PatternHolds(pattern, s) ==
    CASE pattern.kind = "has_address" ->
           pattern.value \in s.input_addresses \cup s.output_addresses
      [] pattern.kind = "mints_asset" ->
           pattern.value \in s.mint_policies \cup s.burn_policies
      [] OTHER ->
           pattern.value \in s.mint_policies \cup s.burn_policies \cup s.value_policies

(* Whether the node forwards p: every transaction when there is no          *)
(* predicate, else those for which an alternative holds.                    *)
Forwards(f, p) ==
    Compile(f) # {} => \E pattern \in Compile(f) : PatternHolds(pattern, Summary(p))
=============================================================================
