------------------------------ MODULE CoseKey ------------------------------
(***************************************************************************)
(* The key object (src/src/wolfcose_key.c): wc_CoseKey_Init, _Free, the    *)
(* setters that attach a wolfCrypt object, bytes or a delegated signer,    *)
(* and the COSE_Key map: _Encode_ex, _EncodeEccRaw, _EncodeSize_ex,        *)
(* _PeekInfo and _Decode.                                                  *)
(*                                                                         *)
(* An application has one WOLFCOSE_KEY and one wolfCrypt object at a time, *)
(* and ends a key before it gives it another object.  A COSE_Key is the    *)
(* sequence of its entries; decoding takes one entry a step, because what  *)
(* an entry means may depend on one that is still to come.  Byte strings   *)
(* are known by the key pair they come from and by their length: importing *)
(* them is wolfCrypt's work, and may fail.                                 *)
(*                                                                         *)
(* Definitions marked (slip) are bugs the properties must tell apart from  *)
(* the code.                                                               *)
(***************************************************************************)
EXTENDS Checks, CborSize

CONSTANTS
    MaxItems,       \* WOLFCOSE_MAX_MAP_ITEMS
    AlgInt,         \* [algorithm -> its number in the registry]
    MlDsaPubLen,    \* [ML-DSA algorithm -> length of a public key]
    Objects,        \* wolfCrypt objects an application may bring
    Inputs,         \* COSE_Keys of other implementations
    Metas,          \* the kid and alg an application may set
    Secrets,        \* symmetric keys
    Rooms           \* sizes of output buffers

CrvSize   == [P256 |-> 32, P384 |-> 48, P521 |-> 66, Ed25519 |-> 32, Ed448 |-> 57]
Ec2Curves == {"P256", "P384", "P521"}
OkpCurves == {"Ed25519", "Ed448"}
SeedSize  == 32

Members == {"-1", "-2", "-3", "-4", "-5", "-6", "-7", "-8"}
RsaPrivate == Members \ {"-1", "-2"}
Kinds == {"ecc", "ed25519", "ed448", "rsa", "mldsa", "lms"}

\* A wolfCrypt object: "par" is its curve or level, "n" the length of a
\* coordinate, modulus or public key, "pub" and "priv" the pair each half is of.
Object == [kind : Kinds, par : STRING, n : Nat, e : Nat, device : BOOLEAN,
           pub : STRING, priv : STRING]
Entry  == [label : STRING, type : {"uint", "nint", "bstr", "tstr", "other", "bad"},
           val : STRING, len : Nat]
Input  == [entries : Seq(Entry), tail : BOOLEAN]
Kid    == [val : STRING, len : Nat]

\* The names of key pairs: "none" is for a half that is not there, "object"
\* for a pointer, and "NULL" for bytes that are not there.
PairName(val) == val \notin {"none", "object"}
Plain(e)      == e.label \in Members /\ e.type = "bstr" => PairName(e.val) /\ e.val # "NULL"

\* The algorithms that entries name have numbers.
Known(e) == e.label = "alg" /\ e.type \in {"uint", "nint"} => e.val \in DOMAIN AlgInt \cup {"big"}

\* An RSA public half is not empty, an ML-DSA one has the size of its level and
\* a private half beside it is of the same pair.
Whole(o) ==
    o.pub # "none" =>
        /\ o.kind = "rsa" => o.n # 0 /\ o.e # 0
        /\ o.kind = "mldsa" => /\ o.par \in DOMAIN MlDsaPubLen /\ o.n = MlDsaPubLen[o.par]
                               /\ o.priv \in {"none", o.pub}

\* A private RSA key has eleven entries (include/wolfcose/settings.h:955).
ASSUME LimitAssumption == MaxItems \in Nat /\ MaxItems >= 11

\* That these are strings is true of any, and cited in proofs.
ASSUME NamesAssumption ==
    {"0", "none", "object", "NULL", "kty", "kid", "alg", "rsa", "EC2", "RSA", "AKP", "OKP",
     "Symmetric", "HSS-LMS", "A", "B"} \cup Members \cup DOMAIN CrvSize \subseteq STRING
ASSUME ObjectsAssumption ==
    /\ Objects # {} /\ Objects \subseteq Object
    /\ \A o \in Objects : {"object", "NULL"} \cap {o.pub, o.priv} = {} /\ Whole(o)
ASSUME InputsAssumption ==
    /\ Inputs \subseteq Input
    /\ \A m \in Inputs : \A i \in DOMAIN m.entries : Plain(m.entries[i]) /\ Known(m.entries[i])
ASSUME MetasAssumption   == Metas \subseteq [kid : Kid, alg : DOMAIN AlgInt]
ASSUME SecretsAssumption == Secrets \subseteq Kid /\ \A s \in Secrets : PairName(s.val)
ASSUME AlgsAssumption ==
    /\ {"unset", "HSS-LMS"} \cup DOMAIN MlDsaPubLen \subseteq DOMAIN AlgInt
    /\ DOMAIN AlgInt \subseteq STRING \ {"big"} /\ \A a \in DOMAIN AlgInt : AlgInt[a] \in Int
    /\ "none" \notin DOMAIN MlDsaPubLen
    /\ \A a \in DOMAIN MlDsaPubLen : MlDsaPubLen[a] \in Nat /\ MlDsaPubLen[a] >= 256

VARIABLES
    key,       \* the WOLFCOSE_KEY
    obj,       \* the wolfCrypt object the application has
    pc,        \* idle, or what wc_CoseKey_Decode is at
    in,        \* its input,
    n,         \*   the entries taken,
    mem,       \*   the byte strings found: nData, xData, yData, dData, ...
    badType,   \*   rsaPrivateTypeInvalid
    op, ret,   \* the last call and its code
    out,       \* the COSE_Key encoded
    sent,      \* ghost: of what it is the encoding
    before,    \* ghost: the object when decoding began
    entrusted, \* ghost: the pair whose private half was given last, or "failed"
    kept       \* ghost: key and object when a signer was attached

decoder == <<in, n, mem, badType, before>>
ghosts  == <<entrusted, kept>>
vars    == <<key, obj, pc, decoder, op, ret, out, sent, ghosts>>

NULL    == [val |-> "NULL", len |-> 0]
Zero    == [kty |-> "0", alg |-> "unset", crv |-> "0", kid |-> NULL, union |-> NULL,
            att |-> "none", hasPrivate |-> FALSE, signCb |-> FALSE, seed |-> "NULL"]
NoInput == [entries |-> <<>>, tail |-> FALSE]
NoMembers == [l \in Members |-> NULL]
NotSent == [key |-> Zero, obj |-> [kind |-> "none"], public |-> FALSE]

Init == /\ obj \in Objects
        /\ key = Zero
        /\ pc = "idle"
        /\ in = NoInput /\ n = 0 /\ mem = NoMembers /\ badType = FALSE
        /\ before = obj
        /\ op = "init" /\ ret = "ok"
        /\ out = <<>> /\ sent = NotSent
        /\ entrusted = "none"
        /\ kept = <<>>

Holds(o, half) == o[half] # "none"

-----------------------------------------------------------------------------
(* Attaching.                                                              *)

\* A call ends with this code.
Return(call, code) == /\ op' = call
                      /\ ret' = code
                      /\ UNCHANGED pc

Forget == out' = <<>> /\ sent' = NotSent

\* A COSE_Key is taken along to a fresh key with an empty object of the
\* same kind, to be decoded there.
Keep(ops) == IF op \in ops THEN UNCHANGED <<out, sent>> ELSE Forget
Rest   == in' = NoInput /\ n' = 0 /\ mem' = NoMembers /\ badType' = FALSE /\ before' = obj'

\* wc_CoseKey_Free, then wc_CoseKey_Init for another wolfCrypt object.
Fresh(o) ==
    /\ pc = "idle"
    /\ obj' = o
    /\ key' = Zero
    /\ entrusted' = "none" /\ kept' = <<>>
    /\ Return("init", "ok")
    /\ Rest
    /\ IF ~ Holds(o, "pub") /\ ~ Holds(o, "priv") /\ o.kind = sent.obj.kind
       THEN UNCHANGED <<out, sent>> ELSE Forget

\* (slip) a delegated signer stays
PointAtKeepSigner(kty, crv, alg, att, private) ==
    [key EXCEPT !.kty = kty, !.crv = crv, !.alg = alg, !.att = att,
                !.union.val = "object", !.hasPrivate = private]

\* What the setters of wolfCrypt objects have in common: the union holds a
\* pointer, over the first bytes of what it held.
PointAt(kty, crv, alg, att, private) ==
    [key EXCEPT !.kty = kty, !.crv = crv, !.alg = alg, !.att = att,
                !.union.val = "object", !.hasPrivate = private, !.signCb = FALSE]

Setter(code, then, private) ==
    /\ pc = "idle"
    /\ Return("set", code)
    /\ key' = IF code = "ok" THEN then ELSE key
    /\ entrusted' = IF code # "ok" THEN entrusted ELSE private
    /\ kept' = IF code = "ok" THEN <<>> ELSE kept
    /\ obj' = obj
    /\ Rest
    /\ Keep({"init"})

\* wolfCose_EccKeyCheckCurve: an empty key is attached to be decoded into.
EccKeyCheckCurve(crv) == Fails(obj.n # 0 /\ obj.par # crv, "arg")

EccPrivate == Holds(obj, "pub") /\ Holds(obj, "priv") \* ECC_PRIVATEKEY

SetEcc(crv) ==
    /\ obj.kind = "ecc"
    /\ Setter(First(<<Fails(crv \notin Ec2Curves, "arg"), EccKeyCheckCurve(crv)>>),
              PointAt("EC2", crv, "unset", "ecc", EccPrivate),
              IF EccPrivate THEN obj.priv ELSE "none")

SetEd == /\ obj.kind \in {"ed25519", "ed448"}
         /\ Setter("ok", PointAt("OKP", IF obj.kind = "ed25519" THEN "Ed25519" ELSE "Ed448",
                                 "unset", obj.kind, Holds(obj, "priv")), obj.priv)

\* The seed is the caller's: nothing here ties it to the object.
SetMlDsa(alg, seed, seedLen) ==
    /\ obj.kind = "mldsa"
    /\ Setter(First(<<Fails(alg \notin DOMAIN MlDsaPubLen, "alg"),
                      Fails(seed # "NULL" /\ seedLen # SeedSize, "arg")>>),
              [PointAt("AKP", "0", alg, "mldsa", Holds(obj, "priv")) EXCEPT !.seed = seed],
              obj.priv)

SetLms == /\ obj.kind = "lms"
          /\ Setter("ok", PointAt("HSS-LMS", "0", "HSS-LMS", "lms", Holds(obj, "priv")), obj.priv)

SetRsa == /\ obj.kind = "rsa"
          /\ Setter("ok", PointAt("RSA", key.crv, "unset", "rsa", Holds(obj, "priv")), obj.priv)

SetSymmetric(data) ==
    Setter(Fails(data.len = 0, "arg"),
           [PointAt("Symmetric", key.crv, "unset", "symmetric", TRUE) EXCEPT !.union = data],
           data.val)

SetExtSigner(cb) ==
    /\ pc = "idle"
    /\ Return("set", "ok")
    /\ key' = [key EXCEPT !.signCb = cb]
    /\ kept' = IF cb THEN <<key.hasPrivate, key.union, obj>> ELSE <<>>
    /\ obj' = obj
    /\ Rest
    /\ Keep({"init"})
    /\ UNCHANGED entrusted

\* kid and alg are the caller's to set.
SetMeta(kid, alg) ==
    /\ pc = "idle"
    /\ Return("set", "ok")
    /\ key' = [key EXCEPT !.kid = kid, !.alg = alg]
    /\ obj' = obj
    /\ Forget
    /\ Rest
    /\ UNCHANGED ghosts

-----------------------------------------------------------------------------
(* Encoding.  "public" is WOLFCOSE_KEY_PUBLIC_ONLY.                        *)

Number(label, val)        == [label |-> label, type |-> "uint", val |-> val, len |-> 0]
Bytes(label, val, len) == [label |-> label, type |-> "bstr", val |-> val, len |-> len]

\* (slip) a delegated key is encoded with what it holds
KeyEmitsPrivateDelegated(k, public) == k.hasPrivate /\ ~ public

\* wolfCose_KeyEmitsPrivate.
KeyEmitsPrivate(k, public) == k.hasPrivate /\ ~ public /\ ~ k.signCb

\* A device keeps the CRT factors of an RSA key to itself.
EmitsRsa(k, o, public)   == KeyEmitsPrivate(k, public) /\ ~ o.device
EmitsMlDsa(k, public) == KeyEmitsPrivate(k, public) /\ k.seed # "NULL"

Optional(k) == (IF k.kid.len > 0 THEN <<Bytes("kid", k.kid.val, k.kid.len)>> ELSE <<>>)
               \o (IF k.alg # "unset" THEN <<Number("alg", k.alg)>> ELSE <<>>)
Common(k)   == <<Number("kty", k.kty)>> \o Optional(k)

\* wolfCose_EncodeEc2Map.
Ec2Map(k, pub, priv, len, private) ==
    Common(k) \o <<Number("-1", k.crv), Bytes("-2", pub, len), Bytes("-3", pub, len)>>
              \o (IF private THEN <<Bytes("-4", priv, len)>> ELSE <<>>)

RsaHalf(len) == len - len \div 2

RsaMap(k, o, private) ==
    Common(k) \o <<Bytes("-1", o.pub, o.n), Bytes("-2", o.pub, o.e)>>
              \o (IF private
                  THEN <<Bytes("-3", o.priv, o.n)>>
                       \o [i \in 1 .. 5 |-> Bytes(<<"-4", "-5", "-6", "-7", "-8">>[i],
                                                  o.priv, RsaHalf(o.n))]
                  ELSE <<>>)

AkpMap(k, o, private) ==
    Common(k) \o <<Bytes("-1", o.pub, o.n)>>
              \o (IF private THEN <<Bytes("-2", k.seed, SeedSize)>> ELSE <<>>)

LmsMap(k, o) == Common(k) \o <<Bytes("-1", o.pub, o.n)>>

OkpMap(k, o, private) ==
    Common(k) \o <<Number("-1", k.crv), Bytes("-2", o.pub, CrvSize[k.crv])>>
              \o (IF private THEN <<Bytes("-4", o.priv, CrvSize[k.crv])>> ELSE <<>>)

SymmetricMap(k) == Common(k) \o <<Bytes("-1", k.union.val, k.union.len)>>

\* The entries wc_CoseKey_Encode_ex writes, of a key that it accepts.
Map(k, o, public) ==
    CASE k.kty = "EC2"     -> Ec2Map(k, o.pub, o.priv, o.n, KeyEmitsPrivate(k, public))
      [] k.kty = "RSA"     -> RsaMap(k, o, EmitsRsa(k, o, public))
      [] k.kty = "AKP"     -> AkpMap(k, o, EmitsMlDsa(k, public))
      [] k.kty = "HSS-LMS" -> LmsMap(k, o)
      [] k.kty = "OKP"     -> OkpMap(k, o, KeyEmitsPrivate(k, public))
      [] OTHER             -> SymmetricMap(k)

\* What keeps wc_CoseKey_Encode_ex from encoding a key, for want of room apart:
\* nothing attached, no public half to export, and then what each type needs.
NoObject(k)    == Fails(k.union.val = "NULL", "arg")
NoPublic(o)    == Fails(~ Holds(o, "pub"), "crypto")
Ec2Curve(k, o) == First(<<Fails(k.crv \notin DOMAIN CrvSize, "alg"),
                          Fails(k.crv \in DOMAIN CrvSize /\ o.n # CrvSize[k.crv], "key")>>)

Ec2EncodeCode(k, o, private) ==
    First(<<NoObject(k),
            IF Ec2Curve(k, o) = "alg" THEN "alg" ELSE NoPublic(o),
            Ec2Curve(k, o),
            Fails(private /\ ~ Holds(o, "priv"), "crypto")>>)

\* p and q are first exported to half the modulus each.
RsaEncodeCode(k, o, private) ==
    First(<<NoObject(k), NoPublic(o), Fails(private /\ o.n % 2 = 1, "crypto")>>)

AkpEncodeCode(k, o) == First(<<NoObject(k), Fails(k.alg = "unset", "alg"), NoPublic(o)>>)

LmsEncodeCode(k, o) ==
    First(<<Fails(k.att # "lms", "key"), NoObject(k),
            Fails(k.alg \notin {"unset", "HSS-LMS"}, "alg"),
            Fails(~ Holds(o, "pub"), "key")>>)

OkpCurve(k) == First(<<Fails(k.crv \notin OkpCurves, "alg"), NoObject(k)>>)

SymmetricEncodeCode(k, public) ==
    Fails(public \/ k.union.val = "NULL" \/ k.union.len = 0 \/ k.signCb, "key")

EncodeCode(k, o, public) ==
    CASE k.kty = "EC2"       -> Ec2EncodeCode(k, o, KeyEmitsPrivate(k, public))
      [] k.kty = "RSA"       -> RsaEncodeCode(k, o, EmitsRsa(k, o, public))
      [] k.kty = "AKP"       -> AkpEncodeCode(k, o)
      [] k.kty = "HSS-LMS"   -> LmsEncodeCode(k, o)
      [] k.kty = "OKP"       -> First(<<OkpCurve(k), NoPublic(o)>>)
      [] k.kty = "Symmetric" -> SymmetricEncodeCode(k, public)
      [] OTHER               -> "key"

\* n and d of an RSA key, and an ML-DSA public key, go behind a reserved head.
Reserved(k, e) == \/ k.kty = "RSA" /\ e.label \in {"-1", "-3"}
                  \/ k.kty = "AKP" /\ e.label = "-1"

\* Every label takes one byte, and so do key types and curves.
EntrySize(k, e) == 1 + (IF e.type = "bstr"
                        THEN IF Reserved(k, e) THEN ReservedBstrSize(e.len) ELSE BstrSize(e.len)
                        ELSE IF e.label = "alg" THEN WrittenIntSize(AlgInt[e.val]) ELSE 1)

\* Where the encoder is after i of the entries.
Written(k, map) ==
    LET pos[i \in 0 .. Len(map)] ==
            IF i = 0 THEN HeadSize(Len(map)) ELSE pos[i - 1] + EntrySize(k, map[i])
    IN  pos

\* How far into the buffer the encoder reaches at entry i: a reserved head has
\* three bytes, and d is exported with e, n, p and q behind it.
Reach(k, map, i) ==
    LET at == Written(k, map)[i - 1] + 1
    IN  IF ~ Reserved(k, map[i]) THEN Written(k, map)[i]
        ELSE at + 3 + map[i].len + (IF map[i].label = "-3" THEN 8 + 2 * map[i].len ELSE 0)

Encoded(k, map)    == Written(k, map)[Len(map)]
Misfits(k, map, room) == {i \in 1 .. Len(map) : Reach(k, map, i) > room}

\* The first entry without room tells the code: wolfCrypt itself refuses to
\* export a modulus or public key into what is left behind its head.
RoomCode(k, map, room) ==
    LET no == Misfits(k, map, room)
        i  == CHOOSE j \in no : \A other \in no : j <= other
    IN  IF no = {} THEN "ok"
        ELSE IF /\ Reserved(k, map[i]) /\ map[i].label = "-1"
                /\ Written(k, map)[i - 1] + 4 <= room
             THEN "crypto" ELSE "small"

EncodeExCode(k, o, public, room) ==
    IF EncodeCode(k, o, public) # "ok" THEN EncodeCode(k, o, public)
    ELSE RoomCode(k, Map(k, o, public), room)

\* The union member that each branch of the encoder reads, by the key type.
Reads(k) == CASE k.kty = "EC2" -> "ecc"
              [] k.kty = "RSA" -> "rsa"
              [] k.kty = "AKP" -> "mldsa"
              [] k.kty = "OKP" /\ k.crv = "Ed25519" -> "ed25519"
              [] k.kty = "OKP" /\ k.crv = "Ed448" -> "ed448"
              [] k.kty = "HSS-LMS" /\ k.att = "lms" -> "lms"
              [] k.kty = "Symmetric" -> "bytes"
              [] OTHER -> "none"
Member(k, o) == IF k.union.val = "NULL" THEN "none"
                ELSE IF k.union.val = "object" THEN o.kind ELSE "bytes"
Misreads(k, o) == {Reads(k), Member(k, o)} \cap {"none"} = {} /\ Reads(k) # Member(k, o)

\* An encoding left in the buffer stays until the next; a refusal clears it.
Emit(call, code, map, k, o, public) ==
    /\ Return(call, code)
    /\ out' = IF code = "ok" THEN map ELSE <<>>
    /\ sent' = IF code = "ok" THEN [key |-> k, obj |-> o, public |-> public] ELSE NotSent
    /\ UNCHANGED <<key, obj>>
    /\ Rest
    /\ UNCHANGED ghosts

\* An application does not encode what a failed call has left.  Reading another
\* member than the one attached may give anything.
Encode(public, room) ==
    /\ pc = "idle"
    /\ entrusted # "failed"
    /\ IF Misreads(key, obj)
       THEN \E code \in {"ok", "crypto", "key", "small"} :
                Emit("encode", code, <<>>, key, obj, public)
       ELSE Emit("encode", EncodeExCode(key, obj, public, room), Map(key, obj, public),
                 key, obj, public)

\* wc_CoseKey_EncodeEccRaw: coordinates of the application, and a key that only
\* carries what goes with them.
EncodeEccRaw(crv, coordLen, pair, private, kid, alg, room) ==
    LET k == [Zero EXCEPT !.kty = "EC2", !.crv = crv, !.alg = alg, !.kid = kid,
                          !.hasPrivate = private]
        map == Ec2Map(k, pair, pair, coordLen, private)
        o == [kind |-> "ecc", par |-> crv, n |-> coordLen, e |-> 0, device |-> FALSE,
              pub |-> pair, priv |-> IF private THEN pair ELSE "none"]
    IN  /\ pc = "idle"
        /\ Emit("raw",
                First(<<Fails(crv \notin Ec2Curves, "arg"),
                        Fails(crv \in Ec2Curves /\ coordLen # CrvSize[crv], "arg"),
                        Fails(kid.val = "NULL" /\ kid.len # 0, "arg"),
                        RoomCode(k, map, room)>>), map, k, o, ~ private)

-----------------------------------------------------------------------------
(* wc_CoseKey_EncodeSize_ex, a computation of its own.                     *)

\* wolfCose_KeyCommonSize.
KeyCommonSize(k, entries) ==
    HeadSize(entries + Len(Optional(k))) + 1 + 1
    + (IF k.kid.len > 0 THEN 1 + BstrSize(k.kid.len) ELSE 0)
    + (IF k.alg # "unset" THEN 1 + IntSize(AlgInt[k.alg]) ELSE 0)

KeyBstrEntrySize(len) == 1 + BstrSize(len)

\* What keeps it from computing one.
SizeCode(k, o, public) ==
    CASE k.kty = "EC2" -> First(<<NoObject(k), Ec2Curve(k, o)>>)
      [] k.kty = "RSA" -> First(<<NoObject(k), Fails(o.n = 0, "crypto")>>)
      [] k.kty = "AKP" -> First(<<NoObject(k), Fails(k.alg = "unset", "alg"),
                                  Fails(o.par = "none", "crypto")>>)
      [] k.kty = "OKP" -> OkpCurve(k)
      [] OTHER -> EncodeCode(k, o, public)

Ec2Size(k, private) ==
    KeyCommonSize(k, IF private THEN 5 ELSE 4) + 2
    + (IF private THEN 3 ELSE 2) * KeyBstrEntrySize(CrvSize[k.crv])

RsaSize(k, o, private) ==
    KeyCommonSize(k, IF private THEN 9 ELSE 3)
    + 1 + ReservedBstrSize(o.n) + KeyBstrEntrySize(o.e)
    + (IF private THEN 1 + ReservedBstrSize(o.n) + 5 * KeyBstrEntrySize((o.n + 1) \div 2) ELSE 0)

AkpSize(k, o, private) ==
    KeyCommonSize(k, IF private THEN 3 ELSE 2)
    + 1 + ReservedBstrSize(o.n) + (IF private THEN KeyBstrEntrySize(SeedSize) ELSE 0)

LmsSize(k, o) == KeyCommonSize(k, 2) + KeyBstrEntrySize(o.n)

OkpSize(k, private) ==
    KeyCommonSize(k, IF private THEN 4 ELSE 3) + 2
    + (IF private THEN 2 ELSE 1) * KeyBstrEntrySize(CrvSize[k.crv])

SymmetricSize(k) == KeyCommonSize(k, 2) + KeyBstrEntrySize(k.union.len)

Size(k, o, public) ==
    CASE k.kty = "EC2"     -> Ec2Size(k, KeyEmitsPrivate(k, public))
      [] k.kty = "RSA"     -> RsaSize(k, o, EmitsRsa(k, o, public))
      [] k.kty = "AKP"     -> AkpSize(k, o, EmitsMlDsa(k, public))
      [] k.kty = "HSS-LMS" -> LmsSize(k, o)
      [] k.kty = "OKP"     -> OkpSize(k, KeyEmitsPrivate(k, public))
      [] OTHER             -> SymmetricSize(k)

-----------------------------------------------------------------------------
(* wc_CoseKey_Decode, one entry a step, and wc_CoseKey_PeekInfo.           *)

IsInt(e) == e.type \in {"uint", "nint"}

\* What both make of an entry; they differ in the values they look into.
LabelCode(e, earlier) ==
    Fails(e.label = "text" \/ e.type = "bad" \/ \E j \in DOMAIN earlier : earlier[j].label = e.label,
          "cbor")

KtyCode(e) == First(<<Fails(e.type # "uint", "cbor"), Fails(e.val = "big", "header")>>)

IntCode(e, code) == First(<<Fails(~ IsInt(e), "cbor"), Fails(e.val = "big", code)>>)

EntryCode(e) ==
    CASE e.label = "kty" -> KtyCode(e)
      [] e.label = "kid" -> Fails(e.type # "bstr", "cbor")
      [] e.label = "alg" -> IF e.type = "tstr" THEN "alg" ELSE IntCode(e, "alg")
      [] e.label = "ops" -> "unsupported"
      [] e.label = "-1" /\ e.type # "bstr" -> IntCode(e, "header")
      [] e.label \in {"-2", "-3", "-4"} -> Fails(e.type # "bstr", "cbor")
      [] OTHER -> "ok"

\* Labels whose type matters to an RSA key alone.
Deferred == {"-5", "-6", "-7", "-8"}

ByteString(e) == [val |-> e.val, len |-> e.len]

Refuse(code) == /\ pc' = "idle"
                /\ ret' = code
                /\ UNCHANGED <<key, obj, n, mem, badType>>

Reset == [Zero EXCEPT !.att = key.att, !.union = IF key.att = "none" THEN NULL ELSE key.union,
                      !.signCb = key.signCb]

\* A delegated key holds nothing, and shall not begin to.
DecodeRefuses == key.signCb

\* The reset comes before anything is read.
DecodeBegin(m) ==
    /\ pc = "idle"
    /\ n' = 0 /\ mem' = NoMembers /\ badType' = FALSE /\ before' = obj
    /\ op' = "decode"
    /\ IF DecodeRefuses
       THEN /\ pc' = "idle" /\ ret' = "key"
            /\ in' = NoInput
            /\ UNCHANGED <<key, entrusted>>
       ELSE /\ key' = Reset
            /\ in' = m
            /\ entrusted' = "failed"
            /\ IF Len(m.entries) > MaxItems THEN pc' = "idle" /\ ret' = "cbor"
               ELSE pc' = "entry" /\ ret' = "ok"
    /\ IF m.entries = out THEN Keep({"init", "set"}) ELSE Forget
    /\ UNCHANGED <<obj, kept>>

\* (slip) what label -1 holds is taken from the key type seen so far
TakeByKty(e) ==
    /\ key' = CASE e.label = "kty" -> [key EXCEPT !.kty = e.val]
                [] e.label = "kid" -> [key EXCEPT !.kid = ByteString(e)]
                [] e.label = "alg" -> [key EXCEPT !.alg = e.val]
                [] e.label = "-1" /\ key.kty \in {"EC2", "OKP"} -> [key EXCEPT !.crv = e.val]
                [] OTHER -> key
    /\ mem' = IF e.label \in Members /\ e.type = "bstr"
              THEN [mem EXCEPT ![e.label] = ByteString(e)] ELSE mem
    /\ badType' = (badType \/ (e.label \in Deferred /\ e.type # "bstr"))

\* Where an accepted entry goes.
Take(e) ==
    /\ key' = CASE e.label = "kty" -> [key EXCEPT !.kty = e.val]
                [] e.label = "kid" -> [key EXCEPT !.kid = ByteString(e)]
                [] e.label = "alg" -> [key EXCEPT !.alg = e.val]
                [] e.label = "-1" /\ e.type # "bstr" -> [key EXCEPT !.crv = e.val]
                [] OTHER -> key
    /\ mem' = IF e.label \in Members /\ e.type = "bstr"
              THEN [mem EXCEPT ![e.label] = ByteString(e)] ELSE mem
    /\ badType' = (badType \/ (e.label \in Deferred /\ e.type # "bstr"))

DecodeEntry ==
    /\ pc = "entry" /\ n < Len(in.entries)
    /\ LET e == in.entries[n + 1]
           code == First(<<LabelCode(e, SubSeq(in.entries, 1, n)), EntryCode(e)>>)
       IN  IF code # "ok" THEN Refuse(code)
           ELSE /\ Take(e)
                /\ n' = n + 1
                /\ UNCHANGED <<obj, pc, ret>>
    /\ UNCHANGED <<in, before, op, out, sent, ghosts>>

Has(l) == mem[l].val # "NULL"

Attachable == {<<"ecc", "EC2">>, <<"rsa", "RSA">>, <<"mldsa", "AKP">>, <<"symmetric", "Symmetric">>,
               <<"lms", "HSS-LMS">>, <<"ed25519", "OKP">>, <<"ed448", "OKP">>}

\* wolfCose_KeyAttachedTypeCheck.
AttachedTypeCheck(k) ==
    Fails(\/ k.att # "none" /\ <<k.att, k.kty>> \notin Attachable
          \/ k.att = "ed25519" /\ k.crv # "Ed25519"
          \/ k.att = "ed448" /\ k.crv # "Ed448", "key")

RsaCode ==
    LET takes == key.att \in {"none", "rsa"}
        half == RsaHalf(mem["-1"].len)
    IN  First(<<Fails(badType, "header"),
                Fails(in.tail, "cbor"),
                Fails(takes /\ (mem["-1"].len = 0 \/ mem["-2"].len = 0), "header"),
                Fails(/\ Has("-3")
                      /\ \/ mem["-3"].len > mem["-1"].len
                         \/ \E l \in RsaPrivate \ {"-3"} : mem[l].len > half, "header"),
                Fails(takes /\ (\E l \in RsaPrivate : Has(l)) /\ (\E l \in RsaPrivate : ~ Has(l)),
                      "header")>>)

CoordinatesFit(curves, labels) ==
    key.crv \in curves => \A l \in labels : Has(l) => mem[l].len = CrvSize[key.crv]

Ec2Code ==
    First(<<Fails((~ Has("-2") \/ ~ Has("-3")) /\ ~ Has("-4"), "header"),
            Fails(key.crv \notin Ec2Curves, "alg"),
            Fails(~ CoordinatesFit(Ec2Curves, {"-2", "-3", "-4"}), "header")>>)

OkpCode ==
    First(<<Fails(~ Has("-2") /\ ~ Has("-4"), "header"),
            Fails(key.crv \notin OkpCurves, "alg"),
            Fails(~ CoordinatesFit(OkpCurves, {"-2", "-4"}), "header")>>)

AkpCode ==
    First(<<Fails(key.alg \notin DOMAIN MlDsaPubLen, "alg"),
            Fails(~ Has("-1"), "header"),
            Fails(Has("-2") /\ mem["-2"].len # SeedSize, "header")>>)

LmsCode ==
    First(<<Fails(key.alg \notin {"unset", "HSS-LMS"}, "alg"),
            Fails(~ Has("-1") \/ \E l \in {"-2", "-3", "-4"} : Has(l), "header")>>)

\* The checks behind the last entry, whatever is attached.
CheckCode ==
    First(<<Fails(key.kty = "0", "header"),
            IF key.kty = "RSA" THEN RsaCode ELSE Fails(in.tail, "cbor"),
            IF key.kty = "EC2" THEN Ec2Code ELSE IF key.kty = "OKP" THEN OkpCode ELSE "ok",
            AttachedTypeCheck(key),
            IF key.kty = "AKP" THEN AkpCode ELSE IF key.kty = "HSS-LMS" THEN LmsCode ELSE "ok">>)

DecodeCheck ==
    /\ pc = "entry" /\ n = Len(in.entries)
    /\ IF CheckCode # "ok" THEN Refuse(CheckCode)
       ELSE pc' = "import" /\ UNCHANGED <<key, obj, n, mem, badType, ret>>
    /\ UNCHANGED <<in, before, op, out, sent, ghosts>>

-----------------------------------------------------------------------------
(* Importing, the last step.                                               *)

Cleared(o) == [o EXCEPT !.pub = "none", !.priv = "none"]

\* The importer has done its work, or has left the object to be cleaned up.
Imported(o, private) ==
    /\ obj' = o
    /\ key' = [key EXCEPT !.hasPrivate = private]
    /\ ret' = "ok"
    /\ entrusted' = IF private THEN o.priv ELSE "none"

NotImported(o, code) ==
    /\ obj' = o
    /\ ret' = code
    /\ UNCHANGED <<key, entrusted>>

\* wolfCose_EccPrivateImportBegin.
EccPrivateImportBegin ==
    First(<<Fails(obj.n # 0 \/ Holds(obj, "pub") \/ Holds(obj, "priv"), "arg"),
            Fails(obj.device, "unsupported")>>)

\* (slip) the type and curve are restored, the scalar stays
EccPrivateImportRollbackKeeps(half, saved) ==
    [half EXCEPT !.par = saved.par, !.n = saved.n, !.pub = saved.pub]

\* wolfCose_EccPrivateImportRollback.
EccPrivateImportRollback(half, saved) ==
    [half EXCEPT !.par = saved.par, !.n = saved.n, !.pub = saved.pub, !.priv = "none"]

ImportEcc ==
    LET point  == Has("-2") /\ Has("-3")
        filled == [obj EXCEPT !.par = key.crv, !.n = CrvSize[key.crv],
                              !.pub = IF point THEN mem["-2"].val ELSE "none",
                              !.priv = IF Has("-4") THEN mem["-4"].val ELSE "none"]
    IN  \/ /\ Has("-4") /\ EccPrivateImportBegin # "ok"
           /\ NotImported(obj, EccPrivateImportBegin)
        \/ /\ Has("-4") /\ EccPrivateImportBegin = "ok"
           /\ NotImported(EccPrivateImportRollback(filled, obj), "crypto")
        \/ /\ ~ Has("-4")
           /\ \E left \in {obj, Cleared(obj)} : NotImported(left, "crypto")
        \/ /\ Has("-4") => EccPrivateImportBegin = "ok"
           /\ point => mem["-2"].val = mem["-3"].val
           /\ Imported(filled, Has("-4"))

ImportRsa ==
    LET private == \A l \in {"-3", "-4", "-5", "-8"} : Has(l)
    IN  \/ NotImported(Cleared(obj), "crypto")
        \/ Imported([obj EXCEPT !.par = "rsa", !.n = mem["-1"].len, !.e = mem["-2"].len,
                                !.pub = mem["-1"].val,
                                !.priv = IF private THEN mem["-3"].val ELSE "none"], private)

\* wolfCose_MlDsaImportRollback: the level stays, the key goes.
MlDsaImportRollback(o) == Cleared(o)

\* (slip) the public key derived from the seed is not compared
SeedMatchesAlways(seed, pub) == TRUE

\* wolfCose_ConstantCompare of the derived public key with the one sent.
SeedMatches(seed, pub) == seed.val = pub.val

\* The level is set first, which clears the object, then the public key, then
\* the pair derived from the seed.
ImportMlDsa ==
    LET level  == [Cleared(obj) EXCEPT !.par = key.alg, !.n = MlDsaPubLen[key.alg]]
        public == [level EXCEPT !.pub = mem["-1"].val]
        pair   == [level EXCEPT !.pub = mem["-2"].val, !.priv = mem["-2"].val]
        fits   == mem["-1"].len = MlDsaPubLen[key.alg]
    IN  \/ key.crv # "0" /\ NotImported(obj, "header")
        \/ key.crv = "0" /\ \E left \in {obj, level} : NotImported(left, "crypto")
        \/ key.crv = "0" /\ fits /\ ~ Has("-2") /\ Imported(public, FALSE)
        \/ /\ key.crv = "0" /\ fits /\ Has("-2")
           /\ \/ NotImported(MlDsaImportRollback(pair), "crypto")
              \/ /\ ~ SeedMatches(mem["-2"], mem["-1"])
                 /\ NotImported(MlDsaImportRollback(pair), "header")
              \/ /\ SeedMatches(mem["-2"], mem["-1"])
                 /\ obj' = pair
                 /\ key' = [key EXCEPT !.hasPrivate = TRUE, !.seed = mem["-2"].val]
                 /\ ret' = "ok"
                 /\ entrusted' = pair.priv

ImportLms == \/ NotImported(obj, "crypto")
             \/ Imported([obj EXCEPT !.n = mem["-1"].len, !.pub = mem["-1"].val,
                                     !.priv = "none"], FALSE)

\* Without x the public key is computed; the private half goes if that fails.
OkpUndo(o) == [o EXCEPT !.priv = "none"]

OkpMember == IF key.crv = "Ed25519" THEN "ed25519" ELSE "ed448"

ImportOkp ==
    LET private == [obj EXCEPT !.priv = mem["-4"].val]
    IN  IF key.att # OkpMember THEN NotImported(obj, "alg") ELSE
        \/ /\ Has("-4") /\ Has("-2")
           /\ \/ \E left \in {obj, Cleared(obj)} : NotImported(left, "crypto")
              \/ Imported([private EXCEPT !.pub = mem["-2"].val], TRUE)
        \/ /\ Has("-4") /\ ~ Has("-2")
           /\ \/ NotImported(obj, "crypto")
              \/ NotImported(OkpUndo(private), "crypto")
              \/ Imported([private EXCEPT !.pub = mem["-4"].val], TRUE)
        \/ /\ ~ Has("-4")
           /\ \/ NotImported(obj, "crypto")
              \/ Imported([obj EXCEPT !.pub = mem["-2"].val], FALSE)

ImportSymmetric ==
    IF mem["-1"].len = 0 THEN NotImported(obj, "header")
    ELSE /\ key' = [key EXCEPT !.union = mem["-1"], !.hasPrivate = TRUE]
         /\ ret' = "ok"
         /\ entrusted' = mem["-1"].val
         /\ UNCHANGED obj

\* Without an object attached the key only describes itself.
DecodeImport ==
    /\ pc = "import"
    /\ pc' = "idle"
    /\ CASE key.kty = "EC2" /\ key.att = "ecc"     -> ImportEcc
         [] key.kty = "RSA" /\ key.att = "rsa"     -> ImportRsa
         [] key.kty = "AKP" /\ key.att = "mldsa"   -> ImportMlDsa
         [] key.kty = "HSS-LMS" /\ key.att = "lms" -> ImportLms
         [] key.kty = "OKP" /\ key.att # "none"    -> ImportOkp
         [] key.kty = "Symmetric"                  -> ImportSymmetric
         [] OTHER -> entrusted' = "none" /\ UNCHANGED <<key, obj, ret>>
    /\ UNCHANGED <<in, n, mem, badType, before, op, out, sent, kept>>

-----------------------------------------------------------------------------
(* wc_CoseKey_PeekInfo, which changes nothing.                             *)

\* (slip) label -1 is always a curve
PeekEntryCodeCurve(e) ==
    CASE e.label = "kty" -> KtyCode(e)
      [] e.label = "kid" -> Fails(e.type # "bstr", "cbor")
      [] e.label = "alg" -> IntCode(e, "alg")
      [] e.label = "ops" -> "unsupported"
      [] e.label = "-1" -> IntCode(e, "header")
      [] OTHER -> "ok"

PeekEntryCode(e) ==
    CASE e.label = "kty" -> KtyCode(e)
      [] e.label = "kid" -> Fails(e.type # "bstr", "cbor")
      [] e.label = "alg" -> IntCode(e, "alg")
      [] e.label = "ops" -> "unsupported"
      [] e.label = "-1" /\ e.type # "bstr" -> IntCode(e, "header")
      [] OTHER -> "ok"

PeekInfo(m) ==
    LET entry(l, types) == {e \in {m.entries[i] : i \in DOMAIN m.entries} :
                                e.label = l /\ e.type \in types}
        value(l, types, default) == IF entry(l, types) = {} THEN default
                                    ELSE (CHOOSE e \in entry(l, types) : TRUE).val
    IN  [kty |-> value("kty", {"uint"}, "0"),
         alg |-> value("alg", {"uint", "nint"}, "unset"),
         crv |-> value("-1", {"uint", "nint"}, "0"),
         kid |-> IF entry("kid", {"bstr"}) = {} THEN NULL
                 ELSE ByteString(CHOOSE e \in entry("kid", {"bstr"}) : TRUE)]

PeekCode(m) ==
    LET entry(i) == First(<<LabelCode(m.entries[i], SubSeq(m.entries, 1, i - 1)),
                            PeekEntryCode(m.entries[i])>>)
    IN  First(<<Fails(Len(m.entries) > MaxItems, "cbor")>>
              \o [i \in DOMAIN m.entries |-> entry(i)]
              \o <<Fails(PeekInfo(m).kty = "0", "header"), Fails(m.tail, "cbor")>>)

-----------------------------------------------------------------------------

Set == \/ \E o \in Objects : Fresh(o)
       \/ \E crv \in DOMAIN CrvSize : SetEcc(crv)
       \/ SetEd \/ SetLms \/ SetRsa
       \/ \E alg \in DOMAIN AlgInt, seed \in {"NULL", "A", "B"}, len \in {SeedSize, 8} :
              SetMlDsa(alg, seed, len)
       \/ \E data \in Secrets : SetSymmetric(data)
       \/ \E cb \in BOOLEAN : SetExtSigner(cb)
       \/ \E m \in Metas : SetMeta(m.kid, m.alg)

\* wc_CoseKey_EncodeEccRaw has no use for the key: a fresh one is as good as any.
EncodeOne ==
    \/ \E public \in BOOLEAN, room \in Rooms : Encode(public, room)
    \/ /\ op = "init"
       /\ \E crv \in {"P256", "Ed25519"}, len \in {32, 66}, private \in BOOLEAN,
             m \in Metas, room \in Rooms :
                 EncodeEccRaw(crv, len, "A", private, m.kid, m.alg, room)

Decode == \/ \E m \in Inputs \cup {[entries |-> out, tail |-> FALSE]} : DecodeBegin(m)
          \/ DecodeEntry \/ DecodeCheck \/ DecodeImport

Next == Set \/ EncodeOne \/ Decode

Spec == Init /\ [][Next]_vars

-----------------------------------------------------------------------------
(* Properties.                                                             *)

\* Fields of 32 bits hold what fits: "big" is a number that does not.
TypeOK == /\ "big" \notin {key.kty, key.alg, key.crv}
          /\ key \in [kty : STRING, alg : STRING, crv : STRING, kid : Kid, union : Kid,
                      att : {"none", "symmetric"} \cup Kinds, hasPrivate : BOOLEAN,
                      signCb : BOOLEAN, seed : STRING]
          /\ obj \in Object
          /\ pc \in {"idle", "entry", "import"}
          /\ in \in Input /\ n \in 0 .. Len(in.entries)
          /\ mem \in [Members -> Kid] /\ badType \in BOOLEAN
          /\ before \in Object
          /\ op \in {"init", "set", "encode", "raw", "decode"}
          /\ ret \in {"ok", "arg", "alg", "key", "cbor", "header", "small", "crypto", "unsupported"}
          /\ out \in Seq(Entry)

\* The order of the entries makes no difference: what decoding has recorded
\* is what the entries taken so far say, each wherever it stood (the loop of
\* wc_CoseKey_Decode, which meets label -1 before it may know the key type).
OrderFree ==
    pc # "idle" =>
        /\ \A i \in 1 .. n :
               LET e == in.entries[i]
               IN  /\ e.label = "kty" => key.kty = e.val
                   /\ e.label = "kid" => key.kid = ByteString(e)
                   /\ e.label = "alg" => key.alg = e.val
                   /\ e.label = "-1" /\ e.type # "bstr" => key.crv = e.val
                   /\ e.label \in Members /\ e.type = "bstr" => mem[e.label] = ByteString(e)
                   /\ e.label \in Deferred /\ e.type # "bstr" => badType
        /\ LET labels == {in.entries[i].label : i \in 1 .. n}
           IN  /\ "kty" \notin labels => key.kty = "0"
               /\ "kid" \notin labels => key.kid = NULL
               /\ "alg" \notin labels => key.alg = "unset"
               /\ "-1" \notin labels => key.crv = "0"
               /\ \A l \in Members \ labels : mem[l] = NULL

Decoded(m) == pc = "idle" /\ op = "decode" /\ ret = "ok" /\ in = m

\* wc_CoseKey_PeekInfo tells of every COSE_Key that can be decoded what
\* decoding then finds, so that it is safe to attach by what it tells.
PeekAgrees ==
    Decoded(in) => /\ PeekCode(in) = "ok"
                   /\ PeekInfo(in) = [kty |-> key.kty, alg |-> key.alg, crv |-> key.crv,
                                      kid |-> key.kid]

Material(k, o) == IF k.union.val = "object" THEN o.priv ELSE k.union.val

\* A key signs with what it was given last: a delegated signer when one was
\* attached after everything else, and otherwise the private half of the last
\* object attached or key decoded, or none.  Nothing is decoded or attached
\* beneath a delegated signer: detaching it gives back what was there (the
\* setters, wc_CoseKey_Decode).
SignsWithTheLastKey ==
    /\ key.signCb => kept = <<key.hasPrivate, key.union, obj>>
    /\ key.hasPrivate /\ pc = "idle" => Material(key, obj) = entrusted /\ entrusted # "none"

\* A COSE_Key that fails to decode leaves no private half behind, in the key
\* or in the wolfCrypt object, and an ECC object that a private key should
\* have filled is as it was.
FailedDecodeKeepsNothing ==
    (pc = "idle" /\ op = "decode" /\ ret # "ok" /\ ~ key.signCb) =>
        /\ ~ key.hasPrivate
        /\ key.seed = "NULL"
        /\ obj.priv \in {"none", before.priv}
        /\ obj.kind = "ecc" /\ Has("-4") => obj = before

Secret(kty, label) == \/ kty \in {"EC2", "OKP"} /\ label = "-4"
                      \/ kty = "RSA" /\ label \in RsaPrivate
                      \/ kty = "AKP" /\ label = "-2"
                      \/ kty = "Symmetric" /\ label = "-1"

\* The private half is encoded only of a key that has it, that is not
\* delegated, and when the caller did not ask for the public half.
SecretsStay ==
    \A i \in DOMAIN out :
        Secret(sent.key.kty, out[i].label) =>
            sent.key.hasPrivate /\ ~ sent.key.signCb /\ ~ sent.public

\* wc_CoseKey_EncodeSize_ex is exact for every key that can be encoded: that
\* much room is enough, scratch space included, and one byte less is not.
SizeExact ==
    (pc = "idle" /\ op \notin {"encode", "raw"}) =>
        \A public \in BOOLEAN :
            LET map  == Map(key, obj, public)
                size == Size(key, obj, public)
            IN  (~ Misreads(key, obj) /\ EncodeCode(key, obj, public) = "ok") =>
                    /\ SizeCode(key, obj, public) = "ok"
                    /\ size = Encoded(key, map)
                    /\ RoomCode(key, map, size) = "ok"
                    /\ RoomCode(key, map, size - 1) # "ok"

\* An ML-DSA key whose alg and seed are those of its object.
Coherent(s) == s.key.kty = "AKP" => /\ s.key.alg = s.obj.par
                                    /\ EmitsMlDsa(s.key, s.public) => s.key.seed = s.obj.pub

\* What wolfCOSE encodes it decodes, into an empty object of the right type,
\* to the same key; only wolfCrypt may still refuse it.
RoundTrip ==
    LET k == sent.key
        o == sent.obj
        fits == /\ AttachedTypeCheck([k EXCEPT !.att = key.att]) = "ok"
                /\ ~ Holds(before, "pub") /\ ~ Holds(before, "priv")
                /\ before.kind = "ecc" => before.n = 0
                /\ ~ before.device
        private == \E i \in DOMAIN out : Secret(k.kty, out[i].label)
    IN  (pc = "idle" /\ op = "decode" /\ ~ key.signCb /\ out # <<>> /\ in.entries = out /\ ~ in.tail) =>
            /\ fits /\ Coherent(sent) => ret \in {"ok", "crypto"}
            /\ ret = "ok" =>
                   /\ key.kty = k.kty /\ key.alg = k.alg
                   /\ key.kid = IF k.kid.len = 0 THEN NULL ELSE k.kid
                   /\ k.kty \in {"EC2", "OKP"} => key.crv = k.crv
                   /\ k.kty = "Symmetric" => key.union = k.union /\ key.hasPrivate
                   /\ key.att \notin {"none", "symmetric"} =>
                          /\ obj.pub = o.pub
                          /\ key.hasPrivate = private
                          /\ private => obj.priv = o.priv

=============================================================================
