----------------------------- MODULE MCSealOpen -----------------------------
(***************************************************************************)
(* SealOpen on a small instance, with a key of every kind and what may be  *)
(* wrong with it.  An application receives the messages of peers, sound,   *)
(* altered, cut short or put together from parts of others; or it begins   *)
(* as a sender whose requests go wrong at every stage, and then goes on    *)
(* with the receivers of its messages.                                     *)
(***************************************************************************)
EXTENDS SealOpen

MCSigKind    == [es256 |-> "ecdsa", es384 |-> "ecdsa", eddsa |-> "eddsa", ed448 |-> "eddsa",
                 ps256 |-> "pss", mldsa44 |-> "mldsa", hsslms |-> "lms"]
MCAlgCrv     == [es256 |-> "p256", es384 |-> "p384", eddsa |-> "any", ed448 |-> "ed448"]
MCDsaLevel   == [mldsa44 |-> "level2"]
MCMacTag     == [hmac |-> 32, aesmac |-> 8]
MCMacKeyLen  == [hmac |-> {32}, aesmac |-> {16}]
MCAeadKeyLen == [gcm |-> 16, ccm |-> 16]
MCAeadTagLen == [gcm |-> 16, ccm |-> 8]
MCNonceLen   == [gcm |-> 12, ccm |-> 13]
MCAeadLimit  == [gcm |-> 99, ccm |-> 5]

Key(id, kty, crv, att, obj, alg, len, private) ==
    [id |-> id, kty |-> kty, crv |-> crv, att |-> att, obj |-> obj, alg |-> alg,
     len |-> len, private |-> private]
Symm(id, len, alg)      == Key(id, "symm", "none", "none", "symm", alg, len, TRUE)
Ec(crv, obj, alg, priv) == Key("e", "ec2", crv, "ecc", obj, alg, 0, priv)
Okp(crv, att, obj)      == Key("d", "okp", crv, att, obj, "unset", 0, FALSE)
Rsa(obj)                == Key("r", "rsa", "none", "rsa", obj, "unset", 0, FALSE)
Akp(obj, alg)           == Key("m", "akp", "none", "mldsa", obj, alg, 0, FALSE)
Lms(att)                == Key("l", "hsslms", "none", att, "lms", "unset", 0, FALSE)

A   == Symm("a", 16, "unset")
B   == Symm("b", 32, "unset")
E   == Ec("p256", "p256", "unset", TRUE)
Pub == Ec("p256", "p256", "unset", FALSE)
MCKeys ==
    {A, Symm("a", 16, "gcm"), B, Symm("b", 32, "hmac"), E, Pub,
     Ec("p256", "p256", "es256", FALSE), Ec("p256", "p256", "hpke0", TRUE),
     Ec("p384", "p256", "unset", FALSE), Ec("p256", "empty", "unset", FALSE),
     Ec("p256", "null", "unset", FALSE),
     Okp("ed25519", "ed25519", "d"), Okp("ed25519", "ed448", "d"), Okp("x25519", "ed25519", "d"),
     Rsa("r"), Rsa("short"), Akp("level2", "unset"), Akp("level2", "mldsa44"),
     Akp("level3", "unset"), Lms("lms"), Lms("none")}

-----------------------------------------------------------------------------
(* What a sender is asked for.                                             *)

P     == Bytes("p", 3, Null)
Empty == Bytes("empty", 0, Null)
Long  == Bytes("long", 6, Null)
Iv(n) == Bytes("iv", n, Null)
Buf(n) == Bytes("buffer", n, Null)

Request(api, key, alg, payload, apart) ==
    [api |-> api, key |-> key, alg |-> alg, null |-> FALSE, kid |-> "none",
     payload |-> payload, apart |-> apart, iv |-> Iv(IF alg = "ccm" THEN 13 ELSE 12),
     aad |-> "x", scratch |-> TRUE, room |-> "all"]

Hmac  == Request("mac0", B, "hmac", {P}, Null)
Ccm   == Request("enc0", A, "ccm", {P}, {Buf(11)})
Gcm   == Request("enc0", A, "gcm", {P}, Null)
Hpke0 == Request("hpke", Pub, "hpke0", {P}, {Buf(19)})

GoodRequests == {Hmac, Request("mac0", A, "aesmac", Null, {P}), Gcm, Ccm,
                 Request("enc0", A, "gcm", {Empty}, {Buf(16)}), Hpke0}

\* One thing at a time goes wrong, or differs.
MCRequests ==
    GoodRequests
    \cup {[q EXCEPT !.room = "head"] : q \in {Hmac, Gcm, Ccm, Hpke0}}
    \cup {[Hpke0 EXCEPT !.room = "none"], [Ccm EXCEPT !.null = TRUE], [Ccm EXCEPT !.scratch = FALSE],
          [Hpke0 EXCEPT !.kid = "half"], [Hmac EXCEPT !.payload = Null], [Hmac EXCEPT !.key = A],
          [Hmac EXCEPT !.key = E], [Ccm EXCEPT !.key = Symm("a", 16, "gcm")],
          [Ccm EXCEPT !.apart = {Buf(10)}], [Ccm EXCEPT !.iv = Iv(12)],
          Request("enc0", A, "ccm", {Long}, Null)}

-----------------------------------------------------------------------------
(* What a receiver is asked for.                                           *)

Call(api, key, detached) ==
    [api |-> api, key |-> key, null |-> FALSE, flags |-> TRUE, index |-> 0, aad |-> "x",
     detached |-> detached, scratch |-> "ample", room |-> 9]

SigKeys == {k \in MCKeys : k.kty # "symm"} \cup {A}

GoodCalls == {Call("sign1", Pub, "none"), Call("sign", Pub, "none"), Call("mac0", B, "none"),
              Call("enc0", A, "none"), Call("hpke", E, "none")}

\* The receivers of what the sender sends.
Answerers == {Call("mac0", B, "aside"), Call("mac0", A, "aside"), Call("mac0", B, "none"),
              Call("enc0", A, "none"), Call("enc0", A, "aside"),
              Call("hpke", E, "none"), Call("hpke", E, "aside")}

MCCalls ==
    Answerers \cup {Call("sign1", k, "none") : k \in SigKeys} \cup {Call("sign1", Pub, d) : d \in {"aside", "other"}}
    \cup {[Call("sign", k, "aside") EXCEPT !.index = n] : k \in {Pub, Okp("ed25519", "ed25519", "d"),
             Ec("p256", "p256", "es256", FALSE), Rsa("r"), Lms("lms")}, n \in 0 .. 1}
    \cup {Call("sign", Pub, "other"), [Call("sign", Pub, "none") EXCEPT !.index = 2]}
    \cup {Call("mac0", k, d) : k \in {A, B, Symm("b", 32, "hmac")}, d \in {"none", "aside"}}
    \cup {Call("mac0", E, "none"), Call("mac0", B, "other")}
    \cup {Call("enc0", k, d) : k \in {A, B, Symm("a", 16, "gcm"), E}, d \in {"none", "aside"}}
    \cup {Call("hpke", k, d) : k \in {E, Pub, Ec("p256", "p256", "hpke0", TRUE)},
                               d \in {"none", "aside"}}
    \cup {[c EXCEPT !.null = TRUE] : c \in GoodCalls}
    \cup {[c EXCEPT !.aad = "y"] : c \in GoodCalls}
    \cup {[c EXCEPT !.scratch = "small"] : c \in GoodCalls}
    \cup {[c EXCEPT !.room = 2] : c \in GoodCalls}
    \cup {[Call("sign1", Pub, "none") EXCEPT !.flags = FALSE],
          [Call("sign1", Rsa("r"), "none") EXCEPT !.scratch = "structure"]}

-----------------------------------------------------------------------------
(* Messages of other implementations.                                      *)

PeerSeal(ctx, key, alg, prot, signer, content, nonce) ==
    [ctx |-> ctx, key |-> key, alg |-> alg, prot |-> prot, signer |-> signer,
     aad |-> "x", content |-> content, nonce |-> nonce]
Sig(s) == Bytes("sig", 64, {s})
Junk   == Bytes("junk", 64, Null)
Other  == Bytes("changed", 3, Null)

Msg(tag, prot, unprot, body, seal) ==
    [tag |-> tag, count |-> 4, hdrs |-> "ok", prot |-> prot, unprot |-> unprot, body |-> body,
     aside |-> Null, last |-> "bstr", seal |-> seal, entries |-> <<>>, trailing |-> FALSE]

Alg(a) == {<<"alg", a>>}
Sign1(key, alg, prot, unprot) ==
    Msg("sign1", prot, unprot, {P}, Sig(PeerSeal("Signature1", key, alg, prot, Null, P, Null)))
S1 == Sign1("e", "es256", Alg("es256"), {<<"kid", "e">>})

Sign1s ==
    {S1, Sign1("e", "es256", {}, Alg("es256")), Sign1("e", "es384", Alg("es384"), {}),
     Sign1("d", "eddsa", Alg("eddsa"), {}), Sign1("d", "ed448", Alg("ed448"), {}),
     Sign1("r", "ps256", Alg("ps256"), {}), Sign1("m", "mldsa44", Alg("mldsa44"), {}),
     Sign1("l", "hsslms", Alg("hsslms"), {}), Sign1("e", "hmac", Alg("hmac"), {}),
     [S1 EXCEPT !.body = {}, !.aside = {P}], [S1 EXCEPT !.body = {Other}],
     [S1 EXCEPT !.body = {Other}, !.aside = {P}],
     [S1 EXCEPT !.tag = "none"], [S1 EXCEPT !.tag = "mac0"], [S1 EXCEPT !.count = 3],
     [S1 EXCEPT !.hdrs = "bad"], [S1 EXCEPT !.trailing = TRUE], [S1 EXCEPT !.seal = Junk]}

\* A body header may name another algorithm than the signers' headers do.
Entry(key, alg, prot, unprot) ==
    [count |-> 3, hdrs |-> "ok", prot |-> prot, unprot |-> unprot,
     sig |-> Sig(PeerSeal("Signature", key, alg, Alg("eddsa"), {prot}, P, Null))]
EntryE == Entry("e", "es256", Alg("es256"), {})
EntryD == Entry("d", "eddsa", Alg("eddsa"), {})
Signed(entries) == [Msg("sign", Alg("eddsa"), {}, {P}, NoBytes)
                       EXCEPT !.last = "array", !.entries = entries]
FromSign1 == [EntryE EXCEPT !.sig = Sig(PeerSeal("Signature1", "e", "es256", Alg("eddsa"),
                                                 {Alg("es256")}, P, Null))]

Signs ==
    {Signed(<<EntryE, EntryD>>), Signed(<<Entry("e", "es256", {}, Alg("es256"))>>),
     Signed(<<[EntryD EXCEPT !.count = 4], EntryE>>), Signed(<<EntryE, [EntryD EXCEPT !.count = 4]>>),
     Signed(<<EntryE, [EntryD EXCEPT !.hdrs = "bad"]>>), Signed(<<[EntryE EXCEPT !.sig = Junk], EntryE>>),
     Signed(<<EntryD, Entry("r", "ps256", Alg("ps256"), {}), Entry("l", "hsslms", Alg("hsslms"), {})>>),
     Signed(<<FromSign1>>), Signed(<<>>),
     [Signed(<<EntryE>>) EXCEPT !.trailing = TRUE], [Signed(<<EntryE>>) EXCEPT !.tag = "none"],
     [Signed(<<EntryD, EntryE>>) EXCEPT !.body = {}, !.aside = {P}]}

Mac(alg, prot, unprot) ==
    Msg("mac0", prot, unprot, {P},
        Bytes("tag", MCMacTag[alg], {PeerSeal("MAC0", IF alg = "hmac" THEN "b" ELSE "a", alg, prot,
                                              Null, P, Null)}))
H == Mac("hmac", Alg("hmac"), {})
Mac0s == {H, Mac("hmac", {}, Alg("hmac")), Mac("aesmac", Alg("aesmac"), {}),
          [H EXCEPT !.seal.len = 16], [H EXCEPT !.body = {Other}], [H EXCEPT !.tag = "none"],
          [H EXCEPT !.body = {}, !.aside = {P}]}

Enc(alg, prot, unprot, nonce, content) ==
    [Msg("enc0", prot, unprot \cup {<<"iv", nonce>>},
         {Bytes("cipher", content.len + MCAeadTagLen[alg],
                {PeerSeal("Encrypt0", "a", alg, prot, Null, content, {nonce})})}, NoBytes)
        EXCEPT !.count = 3]
G == Enc("gcm", Alg("gcm"), {}, Iv(12), P)
Enc0s == {G, Enc("ccm", Alg("ccm"), {}, Iv(13), P), Enc("gcm", {}, Alg("gcm"), Iv(12), P), Enc("ccm", Alg("ccm"), {}, Iv(13), Long),
          Enc("gcm", Alg("gcm"), {}, Iv(7), P), [G EXCEPT !.unprot = {}],
          [G EXCEPT !.prot = Alg("gcm") \cup {<<"kid", "a">>}], [G EXCEPT !.body = {Buf(4)}],
          [G EXCEPT !.body = {Buf(19)}], [G EXCEPT !.body = {}, !.aside = {Buf(0)}],
          [G EXCEPT !.body = {}, !.aside = G.body]}

Ephemeral(n) == Bytes("ek", n, Null)
Hpke(prot, unprot, n) ==
    [Msg("enc0", prot, unprot \cup {<<"ek", Ephemeral(n)>>},
         {Bytes("cipher", P.len + HpkeTagLen,
                {PeerSeal("Encrypt0", "e", "hpke0", prot, Null, P, {Ephemeral(n)})})}, NoBytes)
        EXCEPT !.count = 3]
Hpkes == {Hpke(Alg("hpke0"), {}, 65), Hpke({}, {}, 65), Hpke({}, Alg("hpke0"), 65),
          Hpke(Alg("hpke0"), {}, 33), Hpke(Alg("hpke0"), {<<"psk", "k">>}, 65),
          [Hpke(Alg("hpke0"), {}, 65) EXCEPT !.body = {Buf(4)}]}

MCPeers == Sign1s \cup Signs \cup Mac0s \cup Enc0s \cup Hpkes

-----------------------------------------------------------------------------
(* Two phases keep the instance small: an application first makes as many  *)
(* calls to senders as it likes, then sends what the last one left, and    *)
(* receives that, or the messages of peers if it made none.                *)

Sends == req # {} \/ out # NothingSent \/ sealed # PeerFacts \/ origin # {}

MCNext ==
    \/ /\ call = {} /\ origin = {} /\ wire = S1
       /\ \E q \in Requests : Create(q)
    \/ EncodeMac0 \/ EncodeHead \/ Encrypt \/ EncodeNull \/ Finish
    \/ Transmit
    \/ ~ Sends /\ \E m \in Peers : FromPeer(m)
    \/ \E c \in IF Sends THEN Answerers ELSE Calls : Receive(c)
    \/ Read \/ Judge \/ Open \/ Return

MCSpec == Init /\ [][MCNext]_vars

=============================================================================
