---------------------------- MODULE MCRecipients ----------------------------
(***************************************************************************)
(* Recipients on a small instance: keys of every kind, with and without a  *)
(* pin; requests for one or two recipients, sensible or not; messages of   *)
(* peers with one to three recipients, nested and mixed.                   *)
(***************************************************************************)
EXTENDS Recipients

Key(id, kty, size, crv, alg, private) ==
    [id |-> id, kty |-> kty, size |-> size, crv |-> crv, alg |-> alg, private |-> private]
Symm(id, size, alg)    == Key(id, "symm", size, "none", alg, TRUE)
Ec(id, crv, alg, priv) == Key(id, "ec2", 0, crv, alg, priv)
Null == Key("null", "null", 0, "none", "unset", FALSE)

MCKeyLen      == [gcm128 |-> 16, ccm128 |-> 16]
MCMacKeySizes == [hmac |-> {32}, aesmac |-> {16}]
MCKekSize     == [kw128 |-> 16, kw256 |-> 32]

MCKeys == {Symm("a", 16, "unset"), Symm("a", 16, "gcm128"), Symm("a", 16, "kw128"),
           Symm("b", 32, "unset"), Symm("b", 32, "hmac"),
           Ec("e", "p256", "unset", TRUE), Ec("e", "p256", "hpke", FALSE),
           Ec("f", "p384", "unset", TRUE), Null}

-----------------------------------------------------------------------------
(* What a sender is asked for.                                             *)

Rec(alg, key, kid) == [alg |-> alg, key |-> key, kid |-> kid]
Request(kind, recs, alg, payload, rng, nonce, room) ==
    [kind |-> kind, recs |-> recs, alg |-> alg, payload |-> payload, rng |-> rng,
     nonce |-> nonce, room |-> room]

Recs == {Rec(a, k, "none") : a \in {"direct", "kw128", "kw256", "hpke", "ecdh256", "unset"},
                             k \in MCKeys}
Lists == {<<r>> : r \in Recs} \cup {<<r, s>> : r \in Recs, s \in Recs}

A == Symm("a", 16, "unset")
B == Symm("b", 32, "unset")
E == Ec("e", "p256", "unset", TRUE)
GoodLists == {<<Rec("direct", A, "none"), Rec("direct", A, "kid")>>,
              <<Rec("kw128", A, "kid"), Rec("kw256", B, "none")>>,
              <<Rec("hpke", E, "kid"), Rec("hpke", E, "long")>>,
              <<Rec("hpke", E, "none"), Rec("hpke", E, "half")>>,
              <<Rec("ecdh256", E, "kid")>>}

MCRequests ==
    {Request("encrypt", l, "gcm128", {"inline"}, TRUE, TRUE, 9) : l \in Lists}
    \cup {Request("mac", l, alg, {"inline"}, FALSE, TRUE, 9) :
              l \in {m \in Lists : Len(m) = 1 \/ m[1].alg = "direct"}, alg \in {"hmac", "aesmac"}}
    \cup {Request(kind, l, alg, payload, rng, nonce, room) :
              kind \in {"encrypt", "mac"}, l \in GoodLists, alg \in {"gcm128", "hmac", "aesmac"},
              payload \in SUBSET {"inline", "detached"}, rng \in BOOLEAN, nonce \in BOOLEAN,
              room \in {0, 1, 3, 9}}

-----------------------------------------------------------------------------
(* What a receiver is asked for.                                           *)

MCCalls ==
    [api : {"encrypt"}, key : MCKeys, policy : {"unset", "kw128", "hpke"}, index : 0 .. 2,
     detached : {FALSE}]
    \cup [api : {"encrypt"}, key : {A, E}, policy : {"direct"}, index : 0 .. 1,
          detached : {TRUE}]
    \cup [api : {"mac"}, key : {A, B, E, Symm("b", 32, "hmac"), Symm("a", 16, "gcm128")},
          policy : {"unset", "direct", "kw128"}, index : {0, 1}, detached : BOOLEAN]

-----------------------------------------------------------------------------
(* Messages of peers.                                                      *)

Alg(a) == {<<"alg", a>>}
Plain(prot, unprot, value) ==
    [fields |-> 3, prot |-> prot, unprot |-> unprot, value |-> value, nested |-> 0]
Nested(prot, unprot, value, n) ==
    [fields |-> 4, prot |-> prot, unprot |-> unprot, value |-> value, nested |-> n]

Random16 == <<"random", 16>>
Seal(prot)  == <<"seal", "e", <<"gcm128", prot>>, Random16>>
Direct      == Plain({}, Alg("direct"), <<"bstr">>)
WrappedA    == Plain({}, Alg("kw128"), <<"wrap", "a", Random16>>)
Hpke        == Plain(Alg("hpke"), {<<"ek", "ok">>}, Seal(Alg("hpke")))
Implied     == Plain({}, {<<"ek", "ok">>}, Seal({}))
Agreement   == Plain(Alg("ecdh256"), {<<"eph", "p256">>}, <<"null">>)

\* Recipients with something wrong, or unusual, about each.
Odd == {Plain({}, Alg("direct"), <<"null">>), Plain(Alg("direct"), {}, <<"bstr">>),
        Plain({}, Alg("direct"), <<"short">>), Plain({}, Alg("text"), <<"bstr">>),
        Plain({}, {}, <<"bstr">>), Plain(Alg("text"), {}, <<"bstr">>),
        Plain(Alg("kw128"), {}, <<"wrap", "a", Random16>>),
        Plain({}, Alg("kw128"), <<"bstr">>), Plain({}, Alg("kw128"), <<"wrap", "b", Random16>>),
        Plain({}, Alg("kw128"), <<"wrap", "a", <<"random", 32>> >>),
        Plain({}, Alg("kw128"), <<"other">>),
        Plain(Alg("kw128"), Alg("kw128"), <<"wrap", "a", Random16>>),
        Plain({}, Alg("hpke") \cup {<<"ek", "ok">>}, Seal({})),
        Plain(Alg("hpke"), {<<"ek", "bad">>}, Seal(Alg("hpke"))),
        Plain(Alg("hpke") \cup {<<"ek", "ok">>}, {}, Seal(Alg("hpke"))),
        Plain(Alg("hpke"), {<<"ek", "ok">>, <<"iv", "ok">>}, Seal(Alg("hpke"))),
        Plain(Alg("hpke"), {<<"ek", "ok">>}, <<"short">>),
        Plain(Alg("ecdh256"), {}, <<"bstr">>), Plain({}, Alg("ecdh256"), <<"bstr">>),
        Plain(Alg("ecdh256"), {<<"eph", "p384">>}, <<"bstr">>),
        Plain(Alg("ecdh256"), {<<"eph", "p256">>}, <<"short">>),
        Plain(Alg("ecdh-ss"), {}, <<"null">>), Plain({}, Alg("direct-hkdf"), <<"bstr">>),
        Plain({}, Alg("ecdh-kw"), <<"short">>)}

Usual == {Direct, WrappedA, Hpke, Implied, Agreement}

\* Two levels of nesting below the recipient, of which the last may be too many.
Wrapper(n) == Nested({}, Alg("kw128"), <<"wrap", "a", Random16>>, n)
NestedLists == {<<Wrapper(1), WrappedA>>, <<Wrapper(2), WrappedA, Agreement>>,
                <<Wrapper(2), Wrapper(1), WrappedA, WrappedA>>,
                <<Wrapper(3), WrappedA, Wrapper(2), WrappedA, Direct, WrappedA>>,
                <<Wrapper(1), Wrapper(1), Wrapper(1), WrappedA>>,
                <<Wrapper(0)>>, <<Wrapper(5), WrappedA>>,
                <<Nested({}, Alg("direct"), <<"bstr">>, 1), Direct>>,
                <<[Direct EXCEPT !.fields = 2]>>}

Opened == [direct |-> Held(A), transport |-> Random16,
           ecdh |-> Agreed(E, "ecdh256", "gcm128", Alg("ecdh256"))]

Encrypted(prot, unprot, key, recs, count) ==
    [tag |-> "encrypt", fields |-> 4, prot |-> prot, unprot |-> unprot \cup {<<"iv", "ok">>},
     content |-> <<"sealed", key, "gcm128", prot>>, aside |-> <<"short">>, mac |-> <<>>,
     count |-> count, recs |-> recs]
Authenticated(prot, unprot, recs, count) ==
    [tag |-> "mac", fields |-> 5, prot |-> prot, unprot |-> unprot,
     content |-> <<"payload">>, aside |-> <<"payload">>,
     mac |-> <<Held(A), "aesmac", prot, <<"payload">> >>, count |-> count, recs |-> recs]

Ordinary(recs, count, key) == Encrypted(Alg("gcm128"), {}, key, recs, count)
KeyFor(r) == IF r = Direct THEN Held(A) ELSE IF r = Agreement THEN Opened.ecdh ELSE Random16

MCPeers ==
    {Ordinary(<<r>>, 1, KeyFor(r)) : r \in Usual \cup Odd}
    \cup {Encrypted({}, Alg("gcm128"), KeyFor(r), <<r>>, 1) : r \in Usual}
    \cup {Ordinary(<<r, s>>, 2, KeyFor(r)) : r \in Usual, s \in Usual \cup Odd}
    \cup {Ordinary(<<r, s, t>>, 3, KeyFor(r)) : r \in Usual, s \in Usual, t \in Usual}
    \cup {Ordinary(l \o <<WrappedA>>, 2, Random16) : l \in NestedLists}
    \cup {Ordinary(<<WrappedA>> \o l, n, Random16) : l \in NestedLists, n \in {1, 2, 3}}
    \cup {Authenticated(Alg("aesmac"), {}, <<r>>, 1) : r \in Usual \cup Odd}
    \cup {Authenticated({}, Alg("aesmac"), <<Direct, r>>, 2) : r \in Usual \cup Odd}
    \cup {[Ordinary(<<WrappedA>>, 1, Random16) EXCEPT !.tag = "none"],
          [Ordinary(<<WrappedA>>, 1, Random16) EXCEPT !.fields = 3],
          [Ordinary(<<WrappedA>>, 1, Random16) EXCEPT !.unprot = {}],
          [Ordinary(<<WrappedA>>, 1, Random16) EXCEPT !.content = <<"null">>],
          [Ordinary(<<WrappedA>>, 1, Random16) EXCEPT !.content = <<"other">>],
          [Ordinary(<<WrappedA>>, 0, Random16) EXCEPT !.content = <<"short">>],
          [Ordinary(<<WrappedA>>, 1, Random16) EXCEPT !.content = <<"short">>],
          [Authenticated(Alg("aesmac"), {}, <<Direct>>, 1) EXCEPT !.content = <<"null">>]}

-----------------------------------------------------------------------------
(* What the documentation says of the same calls.                          *)

DocRequest == Request("encrypt", <<Rec("direct", A, "kid"), Rec("kw256", B, "kid"),
                                   Rec("ecdh256", E, "kid")>>,
                      "gcm128", {"inline"}, TRUE, TRUE, 9)
DocRequests == {DocRequest}
DocCalls    == {c \in MCCalls : c.policy = "unset" /\ c.key \in {A, E}}

NullDirect == Plain({}, Alg("direct"), <<"null">>)
DocPeers   == {Ordinary(<<r, s>>, 2, Held(A)) : r \in {Direct, NullDirect},
                                               s \in {Direct, NullDirect}}

\* docs/Message-Types.md:166 addresses one COSE_Encrypt to a direct, a key wrap and an
\* ECDH-ES recipient.  wc_CoseEncrypt_Encrypt goes by the first one's mode.
MixedRecipientsAccepted == Idle /\ req = DocRequest => ret # "alg"

\* docs/API-Reference.md:1067 lets a direct recipient carry an empty bstr or null.
\* wc_CoseEncrypt_Decrypt takes the empty bstr only.
NullDirectAccepted ==
    Idle /\ call # <<>> /\ call.api = "encrypt"
    /\ (\A k \in DOMAIN wire.recs : wire.recs[k] \in {Direct, NullDirect})
    => ret # "hdr"

=============================================================================
