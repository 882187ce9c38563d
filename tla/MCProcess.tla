----------------------------- MODULE MCProcess -----------------------------
(* Small instances of Process for TLC. *)
EXTENDS ProcessProperties

\* Addresses, policies and references of the instances.  The user's address
\* and the vault's hold one key, as a payment part and as a stake part do.
MCKeysIn(addr) == IF addr \in {"user", "vault"} THEN {"key"} ELSE {}

Output(addr, policies, datum) == [addr |-> addr, policies |-> policies, datum |-> datum]
Mint(policy, up, down) == [policy |-> policy, up |-> up, down |-> down]

Tx(ins, refs, resolved, outs, mints) ==
    [ins |-> ins, refs |-> refs, resolved |-> resolved, outs |-> outs, mints |-> mints,
     collateral |-> 0, signers |-> {}, labels |-> {}, validity |-> FALSE]

NoInput == [kind |-> "other", refs |-> <<>>, addr |-> None, policies |-> {}, many |-> FALSE]
Named(refs) == [NoInput EXCEPT !.kind = "refs", !.refs = refs]
Query(addr, policies, many) ==
    [NoInput EXCEPT !.kind = "query", !.addr = addr, !.policies = policies, !.many = many]
Pays(addr, policies, optional) == [addr |-> addr, policies |-> policies, optional |-> optional]

Template(inputs, outputs, mints, burns, references) ==
    [inputs |-> inputs, outputs |-> outputs, mints |-> mints, burns |-> burns,
     references |-> references, collateral |-> 0, signers |-> {}, labels |-> {},
     validity |-> FALSE]

Profile(parties, refs, policies) ==
    [parties |-> parties,
     environment |-> {[shape |-> "ref", value |-> r] : r \in refs}
                     \cup {[shape |-> "policy", value |-> x] : x \in policies}]

Source(name, profile, templates) ==
    [name |-> name, profile |-> profile,
     txs |-> [j \in DOMAIN templates |-> [name |-> j, template |-> templates[j]]]]

-----------------------------------------------------------------------------
(* pipeline: one source, one template, every shape of small transaction.       *)

Resolutions(R) == UNION {[D -> {Output("script", {}, FALSE), Output("user", {"token"}, FALSE), Garbled}]
                         : D \in SUBSET R}

AnyOutput == {Output("script", {}, TRUE), Output("script", {"token"}, FALSE),
              Output("user", {"token"}, FALSE), Output(None, {}, FALSE)}

\* What is asked of a transaction as a whole.
Whole(tx, needs) ==
    [tx EXCEPT !.signers = IF "signer" \in needs THEN {"key"} ELSE {},
               !.labels = IF "label" \in needs THEN {674} ELSE {},
               !.collateral = IF "collateral" \in needs THEN 1 ELSE 0,
               !.validity = "validity" \in needs]

Needs == {"signer", "label", "collateral", "validity"}

MatchPayloads ==
    {Tx(<<"in1", "in2">>, <<>>, resolved, outs, <<>>) :
        resolved \in Resolutions({"in1", "in2"}), outs \in {<<a>> : a \in AnyOutput}}
    \cup {Tx(<<"in1">>, refs, [r \in {"in1", "ref1"} \cap known |-> Output("user", {}, FALSE)], outs, <<>>) :
        refs \in {<<>>, <<"ref1">>, <<"ref2", "ref1">>}, known \in {{}, {"in1", "ref1"}},
        outs \in {<<a, b>> : a \in AnyOutput, b \in AnyOutput}}
    \cup {Tx(<<"in1">>, <<>>, <<>>, <<Output("user", {}, FALSE)>>, mints) :
        mints \in {<<>>, <<Mint("other", TRUE, FALSE)>>, <<Mint("token", TRUE, TRUE)>>}
                  \cup {<<Mint("token", x, ~x)>> : x \in BOOLEAN}
                  \cup {<<Mint("other", x, ~x), Mint("token", y, ~y)>> : x \in BOOLEAN, y \in BOOLEAN}}
    \cup {Whole(Tx(<<"in1">>, <<>>, <<>>, <<Output("script", {}, TRUE)>>, <<>>), needs) :
        needs \in SUBSET Needs}

MatchTemplates == {
    Whole(Template(<<>>, <<>>, <<>>, <<>>, <<>>), Needs),
    Whole(Template(<<>>, <<>>, <<>>, <<>>, <<>>), {"signer"}),
    Template(<<Query("script", {}, FALSE), Query("script", {}, FALSE)>>, <<>>, <<>>, <<>>, <<>>),
    Template(<<Named(<<"in1">>), Query(None, {"token"}, FALSE)>>, <<Pays("script", {}, FALSE)>>, <<>>, <<>>, <<>>),
    Template(<<Query("script", {}, TRUE), NoInput>>, <<Pays(None, {}, FALSE)>>, <<>>, <<>>, <<>>),
    Template(<<>>, <<Pays("script", {}, FALSE), Pays(None, {"token"}, FALSE)>>, <<>>, <<>>, <<<<"ref1">>>>),
    Template(<<>>, <<Pays("user", {}, TRUE), Pays("script", {"token"}, FALSE)>>, <<>>, <<>>, <<None>>),
    Template(<<>>, <<>>, <<>>, <<>>, <<<<>>>>),
    Template(<<>>, <<>>, <<{"token"}>>, <<>>, <<>>),
    Template(<<>>, <<>>, <<{"token"}>>, <<{"token"}>>, <<>>),
    Template(<<>>, <<>>, <<>>, <<{"token"}>>, <<>>),
    Template(<<>>, <<>>, <<>>, <<{"other"}, {}>>, <<>>),
    Template(<<>>, <<Pays(None, {}, FALSE), Pays("script", {}, FALSE)>>, <<>>, <<>>, <<>>),
    Template(<<Query(None, {}, FALSE), Named(<<"in1">>)>>, <<>>, <<>>, <<>>, <<>>),
    Template(<<>>, <<>>, <<{"token", "other"}>>, <<>>, <<>>)}

MatchConfigs ==
    {<<Source(1, Profile(<<"script">>, {"ref1"}, {"token"}), <<t>>)>> : t \in MatchTemplates}

-----------------------------------------------------------------------------
(* and several sources, tied scores, sources without anchors.           *)

SelectPayloads ==
    {[Tx(<<"in1", "in2">>, <<"ref1">>, resolved,
         <<Output("script", {}, datum), Output("user", {"token"}, FALSE)>>, mints)
        EXCEPT !.signers = IF datum THEN {"key"} ELSE {}] :
        resolved \in {<<>>, [r \in {"in1"} |-> Output("script", {}, FALSE)],
                      [r \in {"in1", "in2"} |-> IF r = "in1" THEN Output("script", {}, FALSE) ELSE Garbled]},
        datum \in BOOLEAN,
        mints \in {<<>>, <<Mint("token", TRUE, FALSE)>>}}

Small == Template(<<>>, <<Pays("user", {}, FALSE)>>, <<>>, <<>>, <<>>)
Twin == Template(<<>>, <<Pays("script", {}, FALSE)>>, <<>>, <<>>, <<>>)
Large == Template(<<Query("script", {}, FALSE)>>,
                  <<Pays("user", {"token"}, FALSE), Pays("script", {}, FALSE)>>, <<>>, <<>>, <<>>)
Greedier == Template(<<Query(None, {}, TRUE)>>, <<>>, <<>>, <<>>, <<<<"ref1">>>>)
Anywhere == Template(<<>>, <<Pays(None, {}, FALSE), Pays("script", {}, FALSE)>>, <<>>, <<>>, <<>>)
Minting == Template(<<>>, <<>>, <<{"token"}>>, <<>>, <<>>)

Templates == {<<Small, Twin>>, <<Large, Small>>, <<Small, Large>>, <<Greedier, Anywhere>>, <<Minting, Twin>>}

Profiles == {Profile(<<"vault", "user", "script", "script">>, {}, {}), Profile(<<"vault">>, {}, {"token"}),
             Profile(<<>>, {"ref1"}, {}), Profile(<<>>, {}, {})}

SelectConfigs ==
    {<<Source(1, p, x), Source(2, q, y)>> : p \in Profiles, q \in Profiles, x \in Templates, y \in Templates}
    \cup {<<Source(n[1], p, <<Small, Twin>>), Source(n[2], Profile(<<"script">>, {}, {}), <<Large>>),
            Source(n[3], p, <<Twin, Large>>)>> :
          n \in {<<3, 2, 1>>, <<2, 1, 2>>}, p \in Profiles}
    \cup {<<Source(2, p, <<Small, Twin>>), Source(2, p, <<Greedier, Anywhere>>)>> : p \in Profiles}

MCFilters ==
    {[addresses |-> {}, moves |-> None, mints |-> None],
     [addresses |-> {"user", "script", "vault"}, moves |-> None, mints |-> None],
     [addresses |-> {"vault"}, moves |-> "token", mints |-> None],
     [addresses |-> {"vault", "script"}, moves |-> "other", mints |-> "token"],
     [addresses |-> {}, moves |-> "token", mints |-> "token"]}

PipelineCases ==
    {[payloads |-> MatchPayloads, configs |-> MatchConfigs],
     [payloads |-> SelectPayloads, configs |-> SelectConfigs]}

-----------------------------------------------------------------------------
(* necessary: one template with an output that may be absent.               *)

OptionalConfigs ==
    {<<Source(1, Profile(<<"script">>, {"ref1"}, {"token"}),
              <<Template(<<>>, <<Pays("user", {}, TRUE), Pays("script", {}, FALSE)>>,
                         <<>>, <<>>, <<>>)>>)>>}

NecessaryCases == {[payloads |-> MatchPayloads, configs |-> OptionalConfigs]}
=============================================================================
