----------------------------- MODULE MCCoseKey -----------------------------
(***************************************************************************)
(* Keys on a small instance: two key pairs, wolfCrypt objects of every     *)
(* kind that are empty, public or private, and COSE_Keys of every type,    *)
(* right, wrong and in several orders.                                     *)
(***************************************************************************)
EXTENDS CoseKey
LOCAL INSTANCE SequencesExt
LOCAL INSTANCE TLC

MCAlgInt == [unset |-> 0, ES256 |-> -7, ML44 |-> -48, edge |-> -256] @@ ("HSS-LMS" :> -46)
MCMlDsaPubLen == [ML44 |-> 1312]
MCMetas == {[kid |-> NULL, alg |-> "unset"],
            [kid |-> [val |-> "B", len |-> 300], alg |-> "edge"]}
MCSecrets == {NULL, [val |-> "A", len |-> 16]}
MCRooms == {80, 9000}

Obj(kind, par, len, e, pub, priv) ==
    [kind |-> kind, par |-> par, n |-> len, e |-> e, device |-> FALSE, pub |-> pub, priv |-> priv]
Device(o) == [o EXCEPT !.device = TRUE]

EmptyEcc == Obj("ecc", "none", 0, 0, "none", "none")
Rsa(len, pub, priv) == Obj("rsa", "rsa", len, 3, pub, priv)
Ml(pub, priv) == Obj("mldsa", "ML44", 1312, 0, pub, priv)
Lms(pub, priv) == Obj("lms", "none", 60, 0, pub, priv)

MCObjects ==
    {EmptyEcc, Device(EmptyEcc),
     Obj("ecc", "P256", 32, 0, "A", "A"), Obj("ecc", "P521", 66, 0, "A", "none"),
     Obj("ecc", "P256", 32, 0, "none", "A"),
     Obj("ed25519", "none", 0, 0, "none", "none"), Obj("ed25519", "none", 0, 0, "A", "A"),
     Obj("ed448", "none", 0, 0, "none", "none"),
     Obj("rsa", "none", 0, 0, "none", "none"), Rsa(256, "A", "A"),
     Rsa(129, "A", "A"), Device(Rsa(256, "A", "A")),
     Obj("mldsa", "none", 0, 0, "none", "none"), Ml("A", "A"), Ml("A", "none"),
     Lms("none", "none"), Lms("A", "none"), Lms("A", "A")}

-----------------------------------------------------------------------------
(* COSE_Keys.                                                              *)

Kty(k)    == Number("kty", k)
B(l, len) == Bytes(l, "A", len)
Other(l, type) == [label |-> l, type |-> type, val |-> "x", len |-> 0]
Private(len) == <<B("-3", len), B("-4", RsaHalf(len)), B("-5", RsaHalf(len)), B("-6", RsaHalf(len)),
                  B("-7", RsaHalf(len)), B("-8", RsaHalf(len))>>

P256 == <<Kty("EC2"), Number("-1", "P256"), B("-2", 32), B("-3", 32), B("-4", 32)>>
Ed   == <<Kty("OKP"), Number("-1", "Ed25519"), B("-2", 32), B("-4", 32)>>
Rs   == <<Kty("RSA"), B("-1", 128), B("-2", 3)>>
Ml44 == <<Kty("AKP"), Number("alg", "ML44"), B("-1", 1312), B("-2", 32)>>
Hss  == <<Kty("HSS-LMS"), B("-1", 60)>>
Sym  == <<Kty("Symmetric"), Bytes("-1", "B", 16)>>

Without(s, i) == SubSeq(s, 1, i - 1) \o SubSeq(s, i + 1, Len(s))

Good == {P256, Ed, Rs, Rs \o Private(128), Ml44, Hss, Sym,
         <<Kty("OKP"), Number("-1", "Ed448"), B("-2", 57)>>,
         <<Kty("EC2"), Number("-1", "P521"), B("-2", 66), B("-3", 66)>>}

Meta == <<B("kid", 16), Number("alg", "ES256"), Other("other", "other")>>

Replaced(s) == {[s EXCEPT ![i] = e] : i \in {2, Len(s)},
                                       e \in {Bytes(s[2].label, "B", s[2].len),
                                              B(s[Len(s)].label, 7),
                                              Other(s[2].label, "tstr"),
                                              Number(s[2].label, "big")}}

\* One entry left out, replaced or added.
Wrong == UNION {{Without(s, i) : i \in DOMAIN s} : s \in {P256, Ed, Rs, Ml44, Hss, Sym}}
         \cup UNION {Replaced(s) : s \in {P256, Ed, Ml44}}
         \cup {Ed \o <<e>> :
                 e \in {Kty("RSA"), Other("text", "other"), Other("ops", "other"),
                        Other("other", "bad"), Other("alg", "tstr"), Number("alg", "edge")}}
         \cup {s \o <<e>> : s \in {Rs, Hss}, e \in {Other("-8", "tstr"), B("-4", 7)}}

In(s) == [entries |-> s, tail |-> FALSE]

MCInputs == {In(s) : s \in UNION {{t, Reverse(t), t \o Meta} : t \in Good}}
            \cup {In(s) : s \in Wrong}
            \cup {[entries |-> s, tail |-> TRUE] : s \in {P256, Rs}}

=============================================================================
