----------------------------- MODULE MCStartup -----------------------------
(* A small instance of Startup for TLC. *)
EXTENDS Startup

Node(form, parts) == [form |-> form, value |-> None, parts |-> parts, many |-> FALSE]
Param(name) == Lit("param", name)
Coins == Lit("number", "1000000")
Assets(policies) == Node("assets", FlattenSeq([n \in DOMAIN policies |-> <<policies[n], Lit("bytes", Empty), Coins>>]))
InputOf(address, amount, many) == [Node("input", <<address, amount>>) EXCEPT !.many = many]
OutputTo(address, amount, optional) == [address |-> address, amount |-> amount, optional |-> optional]

\* Expressions put at the end of a table, each behind its parts.
RECURSIVE PutAll(_, _)
PutAll(table, expressions) ==
    LET put(acc, e) ==
            LET parts == PutAll(acc.nodes, e.parts)
                nodes == Append(parts.nodes, [e EXCEPT !.parts = parts.at])
            IN  [nodes |-> nodes, at |-> Append(acc.at, Len(nodes))]
    IN  FoldLeft(put, [nodes |-> table, at |-> <<>>], expressions)

Blank == [inputs |-> <<>>, references |-> <<>>, outputs |-> <<>>, mints |-> <<>>, burns |-> <<>>,
          signers |-> <<>>, labels |-> <<>>, collateral |-> 0, validity |-> FALSE]

Tir(x) ==
    LET inputs == PutAll(<<>>, x.inputs)
        references == PutAll(inputs.nodes, x.references)
        mints == PutAll(references.nodes, x.mints)
        burns == PutAll(mints.nodes, x.burns)
        signers == PutAll(burns.nodes, x.signers)
        labels == PutAll(signers.nodes, x.labels)
        addresses == PutAll(labels.nodes, [n \in DOMAIN x.outputs |-> x.outputs[n].address])
        amounts == PutAll(addresses.nodes, [n \in DOMAIN x.outputs |-> x.outputs[n].amount])
    IN  [inputs |-> inputs.at, references |-> references.at, mints |-> mints.at, burns |-> burns.at,
         signers |-> signers.at, labels |-> labels.at, collateral |-> x.collateral,
         validity |-> x.validity, nodes |-> amounts.nodes,
         outputs |-> [n \in DOMAIN x.outputs |->
             [x.outputs[n] EXCEPT !.address = addresses.at[n], !.amount = amounts.at[n]]]]

\* Spends from a party what is asked for at invocation, and pays two others.
Swap ==
    Tir([Blank EXCEPT
        !.inputs = <<InputOf(Param("vault"), Assets(<<Param("asset"), Lit("bytes", "token")>>), FALSE),
                     Param("coins"),
                     Node("set", <<InputOf(Lit("address", "fixed"), Coins, TRUE)>>)>>,
        !.outputs = <<OutputTo(Param("user"), Node("list", <<Assets(<<Param("asset")>>), Node("computed", <<>>)>>), FALSE),
                      OutputTo(Node("computed", <<>>), Node("struct", <<Param("fee"), Coins>>), TRUE)>>,
        !.references = <<Param("script"), Lit("refs", <<"ref1", "ref2">>)>>,
        !.signers = <<Param("key"), Lit("bytes", "owner")>>,
        !.labels = <<Coins, Lit("number", NoLabel), Param("label")>>,
        !.collateral = 1])

\* Mints and burns under policies that the environment may know.
Issue ==
    Tir([Blank EXCEPT
        !.mints = <<Assets(<<Param("asset")>>), Assets(<<Lit("bytes", Empty), Param("other")>>)>>,
        !.burns = <<Node("computed", <<>>), Assets(<<Node("set", <<Lit("bytes", "token")>>)>>)>>,
        !.references = <<Lit("refs", <<>>)>>,
        !.validity = TRUE])

Value(name, json, value, shape) == [name |-> name, json |-> json, value |-> value, shape |-> shape]
Party(name, addr) == [name |-> name, addr |-> addr]

Parties == {<<>>, <<Party("user", "alice"), Party("vault", "script")>>, <<Party("vault", Undecodable)>>}

Environments ==
    {{}, {Value("asset", "string", "policy1", "policy"), Value("script", "string", "ref1", "ref"),
          Value("other", "0x", "policy2", "other")},
     {Value("asset", "0x", "policy1", "other"), Value("fee", "int", "5", "other"),
      Value("more", "object", "none", "other")},
     {Value("asset", "0x", "policy1", "other"), Value("copy", "string", "policy2", "policy"),
      Value("vault", "string", "elsewhere", "other")}}

Tx(name, envelope, tir) == [name |-> name, envelope |-> envelope, tir |-> tir]

Tiis ==
    {[profiles |-> [n \in {"main"} |-> [parties |-> p, environment |-> e]], txs |-> t] :
        p \in Parties, e \in Environments,
        t \in {<<>>, <<Tx(1, "hex v1beta0", Swap)>>,
               <<Tx(1, "hex v1beta0", Issue), Tx(2, "hex v1beta0", Swap)>>,
               <<Tx(1, "hex v1beta0", Issue), Tx(2, "base64", Swap)>>}}

SourceOf(name, tii, profile) == [name |-> name, tii |-> tii, profile |-> profile]

Configuration(sources, toml_key, env_key, filter) ==
    [sources |-> sources, toml_key |-> toml_key, env_key |-> env_key, filter |-> filter]

Good == [profiles |-> [n \in {"main"} |->
            [parties |-> <<Party("vault", "script")>>, environment |-> {}]],
         txs |-> <<Tx(1, "hex v1beta0", Swap)>>]

MCConfigurations ==
    {Configuration(sources, None, None, {}) :
        sources \in {<<>>, <<SourceOf("a", Unreadable, "main")>>, <<SourceOf("a", Good, "preprod")>>}}
    \cup {Configuration(<<SourceOf("a", tii, "main"), SourceOf("b", Good, "main")>>, None, None, {}) :
        tii \in Tiis}
    \cup {Configuration(<<SourceOf("a", Good, "main")>>, toml_key, env_key, filter) :
        toml_key \in {None, Empty, "key1"}, env_key \in {None, Empty, "key2"},
        filter \in {{}, {"script"}, {"script", Undecodable}}}

MCCompletions ==
    LET arguments == [user |-> Lit("address", "bob"), asset |-> Lit("bytes", "policy3"),
                      other |-> Lit("bytes", "policy3"), coins |-> Lit("refs", <<"in1", "in2">>),
                      script |-> Lit("refs", <<"ref3">>), key |-> Lit("bytes", "signer"),
                      label |-> Lit("number", "674"), vault |-> Lit("address", "bob")]
    IN  {[n \in names |-> arguments[n]] : names \in SUBSET DOMAIN arguments}
=============================================================================
