------------------------------ MODULE Startup ------------------------------
(***************************************************************************)
(* The tracker before its first session (main.rs run): config::load,       *)
(* Store::open, specialize_all (specialization.rs, tx3-lift specialize.rs) *)
(* and the compilation of the upstream filter.  The sources that result    *)
(* are what Process starts from.                                           *)
(*                                                                         *)
(* A configuration is [sources, toml_key, env_key, filter], a source       *)
(* [name, tii, profile], tii being Unreadable or [profiles, txs]: a        *)
(* function from names to profiles, and the transactions in the order of   *)
(* their names, each [name, envelope, tir].  A profile is [parties,        *)
(* environment], parties each [name, addr], environment values each        *)
(* [name, json, value, shape]: json is "0x" for a string of hex digits     *)
(* behind that prefix, "string" for any other, "int", "bool" or "object";  *)
(* shape is that of Anchors.                                               *)
(***************************************************************************)
EXTENDS Expr, Anchors, Fingerprint

CONSTANTS
    Configurations, \* what the configuration file and its TIIs may say
    Unreadable,     \* a TII file that is missing or does not parse
    Undecodable,    \* an address or a policy that does not decode
    Completions     \* the arguments a transaction may be invoked with

(* A profile names a party once, no party is without an address, and hex    *)
(* digits behind 0x read neither as a reference nor as a policy.            *)
IsProfile(profile) ==
    /\ IsSequence(profile.parties)
    /\ \A m, n \in DOMAIN profile.parties :
         profile.parties[m].name = profile.parties[n].name => m = n
    /\ \A party \in Range(profile.parties) : party.addr # None
    /\ \A v \in profile.environment : v.json = "0x" => v.shape = "other"

IsTii(tii) ==
    /\ \A name \in DOMAIN tii.profiles : IsProfile(tii.profiles[name])
    /\ IsSequence(tii.txs)
    /\ \A tx \in Range(tii.txs) : IsTir(tx.tir)

ASSUME ConfigurationsAssumption ==
    \A c \in Configurations :
        /\ IsSequence(c.sources)
        /\ \A source \in Range(c.sources) : source.tii # Unreadable => IsTii(source.tii)

ASSUME CompletionsAssumption ==
    \A extra \in Completions : \A name \in DOMAIN extra :
        /\ IsLiteral(extra[name])
        /\ extra[name].form = "refs" => extra[name].value # <<>>

ASSUME EmptyAssumption == Empty # None

VARIABLES
    config, \* the configuration
    stage,  \* "load", "open", "specialize", "filter", "running" or "failed"
    key,    \* the API key that was resolved
    txs,    \* the transactions of the source in hand that are specialized
    done,   \* how many sources are specialized
    active  \* the sources that can match

vars == <<config, stage, key, txs, done, active>>

-----------------------------------------------------------------------------
(* specialize.rs *)

Lit(form, value) == [form |-> form, value |-> value, parts |-> <<>>, many |-> FALSE]

(* Variant: hex digits are bytes with or without the prefix. *)
ArgOfAnyHex(v) ==
    Lit(IF v.json = "0x" \/ v.shape = "policy" THEN "bytes"
        ELSE IF v.json = "int" THEN "number" ELSE "other", v.value)

(* json_to_arg_value, and the literal that the argument becomes (external). *)
ArgOf(v) ==
    Lit(IF v.json = "0x" THEN "bytes" ELSE IF v.json = "int" THEN "number" ELSE "other", v.value)

(* Objects, arrays and nulls are no arguments. *)
EnvironmentArgs(profile) ==
    LET values == {v \in profile.environment : v.json # "object"}
    IN  [n \in {v.name : v \in values} |-> ArgOf(CHOOSE v \in values : v.name = n)]

PartyArgs(profile) ==
    LET place(n) == CHOOSE k \in DOMAIN profile.parties : profile.parties[k].name = n
    IN  [n \in {x.name : x \in ToSet(profile.parties)} |->
            Lit("address", profile.parties[place(n)].addr)]

(* The arguments args, and those of others that args does not give. *)
Hiding(args, others) ==
    [n \in DOMAIN args \cup DOMAIN others |-> IF n \in DOMAIN args THEN args[n] ELSE others[n]]

(* Variant: an environment value hides a party of its name. *)
ArgsEnvironmentWins(profile, extra) ==
    Hiding(extra, Hiding(EnvironmentArgs(profile), PartyArgs(profile)))

(* args_from_profile *)
ArgsFromProfile(profile, extra) ==
    Hiding(extra, Hiding(PartyArgs(profile), EnvironmentArgs(profile)))

(* apply_args (external): a parameter that has an argument is set to it,    *)
(* inside the queries of inputs too.  The argument of the one at q is at -q. *)
Apply(t, args) ==
    LET known == {q \in DOMAIN t : t[q].form = "param" /\ t[q].value \in DOMAIN args}
    IN  [q \in DOMAIN t \cup {-k : k \in known} |->
            IF q < 0 THEN args[t[-q].value]
            ELSE IF q \in known THEN [form |-> "set", value |-> None, parts |-> <<-q>>, many |-> FALSE]
            ELSE t[q]]

(* specialize: the table that the nodes of the transaction become. *)
Specialized(tir, profile, extra) == Apply(tir.nodes, ArgsFromProfile(profile, extra))

SpecializedTx(tx, profile) ==
    [name |-> tx.name, template |-> TemplateOf(tx.tir, Specialized(tx.tir, profile, <<>>))]

(* decode_tir: only hex envelopes of version v1beta0.  An envelope that is  *)
(* "ill-typed" fails in apply_args.                                         *)
Decodes(tx) == tx.envelope = "hex v1beta0"

(* What Anchors takes of a profile. *)
AnchorProfile(profile) ==
    [parties |-> [n \in DOMAIN profile.parties |-> profile.parties[n].addr],
     environment |-> {[shape |-> v.shape, value |-> v.value] :
                      v \in {x \in profile.environment : x.json \in {"0x", "string"}}}]

-----------------------------------------------------------------------------

Init ==
    /\ config \in Configurations
    /\ stage = "load"
    /\ key = None
    /\ txs = <<>> /\ done = 0 /\ active = <<>>

Fail(here) ==
    /\ stage = here /\ stage' = "failed"
    /\ UNCHANGED <<config, key, txs, done, active>>

(* Variant: only the environment's empty key is no key. *)
ApiKeyTomlShadows(toml, env) == IF toml # None THEN toml ELSE IF env = Empty THEN None ELSE env

(* resolve_api_key of what load passes it: an empty key is no key. *)
ApiKey(toml, env) ==
    IF toml \notin {None, Empty} THEN toml
    ELSE IF env \notin {None, Empty} THEN env ELSE None

(* config::load *)
Load ==
    /\ stage = "load" /\ stage' = "open"
    /\ config.sources # <<>>
    /\ key' = ApiKey(config.toml_key, config.env_key)
    /\ UNCHANGED <<config, txs, done, active>>

(* The file cannot be read, is no TOML, or lists no source. *)
LoadFails == Fail("load")

(* Store::open is Migrations; it may fail. *)
OpenStore ==
    /\ stage = "open" /\ stage' = "specialize"
    /\ UNCHANGED <<config, key, txs, done, active>>

OpenFails == Fail("open")

Source == config.sources[done + 1]

HasSource == stage = "specialize" /\ done < Len(config.sources)

(* The TII parses, has the profile, and all its party addresses decode. *)
ProfileReads ==
    /\ Source.tii # Unreadable
    /\ Source.profile \in DOMAIN Source.tii.profiles
    /\ \A n \in DOMAIN Source.tii.profiles[Source.profile].parties :
         Source.tii.profiles[Source.profile].parties[n].addr # Undecodable

Profile == Source.tii.profiles[Source.profile]

NextTx == Source.tii.txs[Len(txs) + 1]

HasTx == Len(txs) < Len(Source.tii.txs)

(* Any failure of any source is the failure of the start. *)
SourceFails ==
    /\ HasSource
    /\ ProfileReads => IF HasTx THEN ~Decodes(NextTx) ELSE txs = <<>>
    /\ Fail("specialize")

(* The loop of specialize_one. *)
SpecializeTx ==
    /\ HasSource /\ ProfileReads /\ HasTx
    /\ Decodes(NextTx)
    /\ txs' = Append(txs, SpecializedTx(NextTx, Profile))
    /\ UNCHANGED <<config, stage, key, done, active>>

(* Variant: the transactions of a source without anchors stay in hand. *)
FinishSourceKeepsTxs ==
    /\ HasSource /\ ProfileReads /\ ~HasTx
    /\ txs # <<>>
    /\ active' = IF NoAnchors(FromProfile(AnchorProfile(Profile))) THEN active
                 ELSE Append(active, [name |-> Source.name, profile |-> AnchorProfile(Profile),
                                      txs |-> txs])
    /\ done' = done + 1
    /\ txs' = IF NoAnchors(FromProfile(AnchorProfile(Profile))) THEN txs ELSE <<>>
    /\ UNCHANGED <<config, stage, key>>

(* A source whose profile has no anchors is left out, with a warning. *)
FinishSource ==
    /\ HasSource /\ ProfileReads /\ ~HasTx
    /\ txs # <<>>
    /\ active' = IF NoAnchors(FromProfile(AnchorProfile(Profile))) THEN active
                 ELSE Append(active, [name |-> Source.name, profile |-> AnchorProfile(Profile),
                                      txs |-> txs])
    /\ done' = done + 1
    /\ txs' = <<>>
    /\ UNCHANGED <<config, stage, key>>

SourcesDone ==
    /\ stage = "specialize" /\ stage' = "filter"
    /\ done = Len(config.sources)
    /\ UNCHANGED <<config, key, txs, done, active>>

(* predicate::compile: the entries of the filter must decode. *)
FilterFails == Undecodable \in config.filter /\ Fail("filter")

CompileFilter ==
    /\ stage = "filter" /\ stage' = "running"
    /\ Undecodable \notin config.filter
    /\ UNCHANGED <<config, key, txs, done, active>>

(* The sessions begin (see Tracker), or main has exited. *)
Over == stage \in {"running", "failed"} /\ UNCHANGED vars

Next ==
    \/ Load \/ LoadFails \/ OpenStore \/ OpenFails
    \/ SpecializeTx \/ FinishSource \/ SourceFails \/ SourcesDone
    \/ CompileFilter \/ FilterFails \/ Over

Spec == Init /\ [][Next]_vars

-----------------------------------------------------------------------------
(* Properties *)

ProfileOf(source) == source.tii.profiles[source.profile]

(* README.md:15: a party's address, a reference or a policy in plain hex. *)
Anchored(source) ==
    \/ ProfileOf(source).parties # <<>>
    \/ \E v \in ProfileOf(source).environment : v.json = "string" /\ v.shape \in {"ref", "policy"}

Expected ==
    Picked(config.sources, {n \in DOMAIN config.sources : Anchored(config.sources[n])})

(* A tracker that runs has, in the order of the configuration, every source *)
(* that can ever match and with each of its transactions; whatever is wrong *)
(* with any source, one without anchors included, or with the filter keeps  *)
(* it from running.  An API key is used if one is given anywhere            *)
(* (config.rs:124-128): an empty one neither counts nor hides the other.    *)
StartIsExact ==
    stage = "running" =>
        /\ \A source \in ToSet(config.sources) :
             /\ source.tii # Unreadable
             /\ source.profile \in DOMAIN source.tii.profiles
             /\ source.tii.txs # <<>>
             /\ \A tx \in ToSet(source.tii.txs) : Decodes(tx)
             /\ \A party \in ToSet(ProfileOf(source).parties) : party.addr # Undecodable
        /\ Len(active) = Len(Expected)
        /\ \A i \in DOMAIN active :
             /\ active[i].name = Expected[i].name
             /\ DOMAIN active[i].txs = DOMAIN Expected[i].tii.txs
             /\ \A j \in DOMAIN active[i].txs :
                  active[i].txs[j].name = Expected[i].tii.txs[j].name
        /\ Undecodable \notin config.filter
        /\ key # Empty
        /\ key = None => {config.toml_key, config.env_key} \subseteq {None, Empty}

(* The cached templates, each with the transaction and the profile that it  *)
(* was specialized from.                                                    *)
Cached ==
    UNION {{[template |-> active[i].txs[j].template, tir |-> Expected[i].tii.txs[j].tir,
             profile |-> ProfileOf(Expected[i])] : j \in DOMAIN active[i].txs} :
           i \in DOMAIN active}

Weaker(fp, other) ==
    /\ \A field \in Required : fp[field] \subseteq other[field]
    /\ \A slot \in DOMAIN fp.least : fp.least[slot] <= other.least[slot]
    /\ fp.validity => other.validity

(* README.md:27: what only an invocation knows is excluded from the         *)
(* fingerprint.  A transaction was built with arguments the tracker never   *)
(* sees; whatever they were, it meets the fingerprint extracted without     *)
(* them if it meets the one extracted with them.                            *)
PartialIsWeaker ==
    \A x \in Cached : \A extra \in Completions :
        DOMAIN extra \cap DOMAIN ArgsFromProfile(x.profile, <<>>) = {} =>
            Weaker(Extract(x.template),
                   Extract(TemplateOf(x.tir, Specialized(x.tir, x.profile, extra))))

LiteralsOf(tir, form) ==
    {tir.nodes[q].value : q \in {p \in DOMAIN tir.nodes : tir.nodes[p].form = form}}

(* A party that a template names is required by its fingerprint, whatever   *)
(* the environment says under the same name, and every address a            *)
(* fingerprint requires, unless the template itself spells it out, is one   *)
(* of the source's anchors: a transaction that spends from an address which *)
(* the fingerprint asks for is never stopped at the gate.                   *)
PartiesAreAsked ==
    \A x \in Cached :
        LET fp == Extract(x.template)
            anchors == FromProfile(AnchorProfile(x.profile))
            t == x.tir.nodes
            names(e, party) == t[e].form = "param" /\ t[e].value = party.name
        IN  /\ \A party \in ToSet(x.profile.parties) :
                 /\ (\E e \in ToSet(x.tir.inputs) :
                        t[e].form = "input" /\ names(t[e].parts[1], party))
                      => party.addr \in fp.input_addresses
                 /\ (\E o \in ToSet(x.tir.outputs) : names(o.address, party))
                      => party.addr \in fp.output_addresses
            /\ fp.input_addresses \cup fp.output_addresses
                 \subseteq anchors.addresses \cup LiteralsOf(x.tir, "address")

(* A policy of the environment gates or is required by a fingerprint, as it *)
(* is written: in plain hex it is an anchor but stays a string that no      *)
(* template's assets show (specialize.rs:50-64), behind 0x it is bytes that *)
(* a fingerprint requires and no anchor (anchors.rs parse_policy).          *)
PolicyEitherWay ==
    \A x \in Cached :
        LET fp == Extract(x.template)
            anchors == FromProfile(AnchorProfile(x.profile))
            written(json) == {v.value : v \in {w \in x.profile.environment : w.json = json}}
        IN  /\ fp.mint_policies \cup fp.burn_policies \cup fp.value_policies
                 \subseteq written("0x") \cup LiteralsOf(x.tir, "bytes")
            /\ anchors.policies \subseteq written("string")

(* The kinds of the leaves of the expressions of a table. *)
Leaves(t) ==
    LET leaves[q \in DOMAIN t] ==
            IF t[q].form \in Literal THEN {"Const"}
            ELSE IF t[q].form \in {"param", "input"} THEN {"ParamDriven"}
            ELSE IF t[q].form \in {"list", "struct", "assets", "set"}
                 THEN UNION {leaves[t[q].parts[n]] : n \in DOMAIN t[q].parts}
            ELSE {"Computed"}
    IN  leaves

(* An expression is classified by the worst of its leaves, in whatever      *)
(* order and depth they come, and what the const_ accessors return a value  *)
(* for is classified as constant (expr.rs:66, 78, 90, 102).                 *)
ExpressionsClassified ==
    \A x \in Cached :
        LET t == Specialized(x.tir, x.profile, <<>>)
        IN  \A e \in DOMAIN t :
              /\ Classify(t)[e] = IF "Computed" \in Leaves(t)[e] THEN "Computed"
                                  ELSE IF "ParamDriven" \in Leaves(t)[e] THEN "ParamDriven"
                                  ELSE "Const"
              /\ \A form \in {"address", "refs", "number", "bytes"} :
                   ConstOf(t, form)[e] # None => Classify(t)[e] = "Const"
=============================================================================
