------------------------------ MODULE MCEatPsa ------------------------------
(***************************************************************************)
(* EatPsa on a small instance with the least limits on claims a build may  *)
(* have and two components, for there to be an order: a verifier of the    *)
(* tokens of peers, sound or with one thing changed, of both profiles; and *)
(* an issuer whose requests go wrong at every stage, with the verifiers of *)
(* its tokens.                                                             *)
(***************************************************************************)
EXTENDS EatPsa

MCKey(id, algs, pin) == [id |-> id, algs |-> algs, pin |-> pin]
S     == MCKey("s", {"es256"}, "unset")
S384  == MCKey("s", {"es256"}, "es384")
Z     == MCKey("z", {"es256"}, "unset")
M     == MCKey("m", {"hs256"}, "unset")
MCKeys == {S, S384, Z, M}

Bstr(name, len) == [Value("bstr", len, "", 0, <<>>) EXCEPT !.name = name]
Tstr(name, form) == [Value("tstr", 19, form, 0, <<>>) EXCEPT !.name = name]
Bad    == Value("bad", 0, "", 0, <<>>)
N1     == Bstr("n1", 32)
N2     == Bstr("n2", 48)
Ueid   == [Bstr("u", 33) EXCEPT !.form = "random"]
Impl   == Bstr("i", 32)
Digest == Bstr("d", 48)
Author == Bstr("a", 64)

-----------------------------------------------------------------------------
(* Tokens of peers.                                                        *)

Array(items)  == Value("array", 0, "", 0, items)
Chart(items)  == Value("map", 0, "", 0, items)
Other(n, val) == [label |-> [type |-> "text", val |-> n], val |-> val]
Good          == <<Pair(2, Digest), Pair(5, Author)>>
Parts(items)  == Array(<<Chart(items)>>)

\* A claim of the current profile and one of the old.
New(claim, val) == Pair(CurrentLabel[claim], val)
Old(claim, val) == Pair(OldLabel[claim], val)

Least == <<New("nonce", N1), New("ueid", Ueid), New("profile", Tstr("p", "tfm")),
           New("client", IntValue(-3)), New("lifecycle", IntValue(12288)), New("impl", Impl),
           New("components", Parts(Good))>>
Whole == Least \o <<New("seed", Bstr("seed", 8)), New("cert", Tstr("c", "13-5")),
                    New("vsi", Tstr("v", ""))>>
Iot   == <<Old("nonce", N1), Old("ueid", Ueid), Old("client", IntValue(7)),
           Old("lifecycle", IntValue(12543)), Old("impl", Impl), Old("seed", Bstr("seed", 32)),
           Old("unmeasured", IntValue(1))>>

Without(s, i)    == SubSeq(s, 1, i - 1) \o SubSeq(s, i + 1, Len(s))
With(s, i, val)  == [s EXCEPT ![i].val = val]
Reversed(s)      == [i \in DOMAIN s |-> s[Len(s) + 1 - i]]

BadParts ==
    {<<Pair(2, Digest)>>, <<Pair(2, Bstr("d", 20)), Pair(5, Author)>>,
     Good \o <<Pair(2, Digest)>>, Good \o <<Other(9, Impl), Other(9, Impl)>>,
     Good \o <<Pair(1, Impl)>>, Good \o <<Pair(9, Bad)>>,
     Good \o <<Pair(1, Tstr("t", "")), Pair(4, Tstr("t", "")), Pair(6, Tstr("t", "")),
               Other(1, Impl)>>}

Maps ==
    {Chart(Least), Chart(Whole), Chart(Reversed(Whole)), Chart(Iot), Chart(Reversed(Iot)),
     Bad, Impl, [Chart(Least) EXCEPT !.form = "trailing"],
     Chart(<<>>), Chart(<<Other(10, N1)>>), Chart(Whole \o <<Other(10, N1)>>)}
    \cup {Chart(Without(Least, i)) : i \in 1 .. 7} \cup {Chart(Without(Iot, i)) : i \in 1 .. 7}
    \cup {Chart(Least \o x) : x \in
            {<<Other(1, Impl), Other(1, Ueid)>>, <<Pair(99, Impl), Other(99, Impl)>>,
             <<Pair(99, Bad)>>, <<New("nonce", N2)>>, <<Old("vsi", Tstr("v", ""))>>,
             <<[label |-> [type |-> "other", val |-> 1], val |-> Impl]>>,
             <<New("seed", Bstr("seed", 7))>>, <<New("seed", Bstr("seed", 33))>>,
             <<New("cert", Tstr("c", "13"))>>, <<New("vsi", Impl)>>}}
    \cup {Chart(With(Least, 1, v)) : v \in {Bstr("n1", 33), Tstr("n1", ""), Bad, N2}}
    \cup {Chart(With(Least, 2, v)) : v \in {Bstr("u", 33), [Ueid EXCEPT !.len = 17]}}
    \cup {Chart(With(Least, 3, Tstr("p", "iot1"))), Chart(With(Least, 6, Bstr("i", 31)))}
    \cup {Chart(With(Least, 4, v)) : v \in {IntValue(0), IntValue(100), IntValue(-100), Impl}}
    \cup {Chart(With(Least, 5, IntValue(n))) : n \in {-1, 255, 12544, 24831, 28672, 65536}}
    \cup {Chart(With(Least, 7, Parts(p))) : p \in BadParts \cup {Good \o <<Pair(4, Tstr("v", ""))>>}}
    \cup {Chart(With(Least, 7, Array([i \in 1 .. n |-> Chart(Good)]))) : n \in {0, 2, 3}}
    \cup {Chart(With(Least, 7, Array(<<Chart(Good), Impl>>)))}
    \cup {Chart(Iot \o x) : x \in
            {<<Old("components", Parts(Good))>>, <<Old("profile", Tstr("p", "iot1"))>>,
             <<Old("profile", Tstr("p", "tfm"))>>, <<Old("cert", Tstr("c", "13"))>>,
             <<Old("cert", Tstr("c", "13-5"))>>, <<New("vsi", Tstr("v", ""))>>}}
    \cup {Chart(With(Iot, 6, Bstr("seed", 8))), Chart(With(Iot, 7, IntValue(0))),
          Chart(With(Iot, 7, IntValue(-1))),
          Chart([Iot EXCEPT ![7] = Old("components", Parts(Good))])}

Signed(map) == Message("s", "sign1", "es256", map)
Token       == Signed(Chart(Least))
Fresh       == Signed(Chart(With(Least, 1, N2)))
MCPeers ==
    {Signed(m) : m \in Maps}
    \cup {Message("m", "mac0", "hs256", Chart(Least)), Message("s", "mac0", "es256", Chart(Least)),
          Message("z", "sign1", "es256", Chart(Iot)), Message("s", "sign1", "eddsa", Chart(Least)),
          [Token EXCEPT !.payload = {Chart(With(Least, 4, IntValue(42)))}], [Token EXCEPT !.payload = {}],
          [Token EXCEPT !.alg = "unset"], [Token EXCEPT !.alg = "es384"],
          [Token EXCEPT !.x5chain = TRUE], [Token EXCEPT !.seal = {}]}
    \cup {[Token EXCEPT !.tag = t] : t \in {"none", "cwt", "mac0"}}
    \cup {[Token EXCEPT !.form = f] : f \in {"array", "protected", "unprotected", "payload",
                                             "seal", "trailing"}}

-----------------------------------------------------------------------------
(* What an application asks for.                                           *)

Check(keys, nonce, alias) ==
    [api |-> "verify", key |-> keys, nonce |-> nonce, alias |-> alias, null |-> FALSE]

MCCalls ==
    {Check({k}, N1, "none") : k \in MCKeys} \cup {Check({}, N1, a) : a \in {"none", "scratch", "token"}}
    \cup {Check({S}, N1, a) : a \in {"scratch", "token"}}
    \cup {Check({S}, N2, "none"), Check({}, Bstr("n1", 33), "none"),
          [Check({S}, N1, "none") EXCEPT !.null = TRUE]}

MCVisits == {[api |-> "each", null |-> b] : b \in BOOLEAN}

Component(type, value, version, desc) ==
    [type |-> type, value |-> value, version |-> version, signer |-> {Author}, desc |-> desc]
Brief == Component({}, {Digest}, {}, {})
Full  == Component({Tstr("t", "")}, {Digest}, {Tstr("v", "")}, {Tstr("d", "")})

Claims(seed, cert, vsi, components) ==
    [nonce |-> {N1}, ueid |-> {Ueid}, impl |-> {Impl}, seed |-> seed, cert |-> cert, vsi |-> vsi,
     client |-> -3, lifecycle |-> 12288, components |-> components]
Few  == Claims({}, {}, {}, <<Brief>>)
Many == Claims({Bstr("seed", 32)}, {Tstr("c", "13-5")}, {Tstr("v", "")}, <<Full, Brief>>)

Request(k, tag, alg, claims) ==
    [api |-> "create", key |-> k, tag |-> tag, alg |-> alg, claims |-> claims, null |-> FALSE,
     room |-> "all"]

MCRequests ==
    {Request(S, "sign1", "es256", Few), Request(S, "sign1", "es256", Many),
     Request(M, "mac0", "hs256", Many), Request(S384, "sign1", "es256", Few),
     Request(M, "sign1", "es256", Few), Request(S, "sign1", "hs256", Few),
     [Request(S, "sign1", "es256", Few) EXCEPT !.null = TRUE]}
    \cup {[Request(S, "sign1", "es256", Few) EXCEPT !.room = r] : r \in {"claims", "none"}}
    \cup {Request(S, "sign1", "es256", c) : c \in
            {[Few EXCEPT !.nonce = {Bstr("n1", 33)}], [Few EXCEPT !.client = 0],
             [Few EXCEPT !.lifecycle = 12544], [Few EXCEPT !.seed = {Bstr("seed", 7)}],
             [Few EXCEPT !.cert = {Tstr("c", "13")}], [Few EXCEPT !.vsi = {Bad}],
             [Few EXCEPT !.components = <<>>], [Few EXCEPT !.components = <<Brief, Brief, Brief>>],
             [Few EXCEPT !.components = <<Component({Bad}, {Digest}, {}, {})>>],
             [Few EXCEPT !.components = <<Component({}, {}, {}, {})>>]}}

MCLater == {Fresh, Signed(Chart(Iot)), Signed(Impl)}

\* An issuer is called while the message at hand is Token, which comes first
\* or not at all: what the buffers hold of other messages is nothing to it.
MCNext ==
    \/ \E c \in Calls : Verify(c)
    \/ Envelope \/ Authenticate
    \/ BeginClaims \/ Claim \/ EndClaims \/ Decoded
    \/ Resolve \/ CheckNonce \/ Return
    \/ \E c \in Visits : ForEachComponent(c)
    \/ Visit
    \/ /\ wire = Token
       /\ \E q \in Requests : Create(q)
    \/ EncodeClaims \/ Protect \/ Finish
    \/ Transmit
    \/ \E m \in Later : Arrives(m, {})

MCSpec == Init /\ [][MCNext]_vars

=============================================================================
