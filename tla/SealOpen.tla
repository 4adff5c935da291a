------------------------------ MODULE SealOpen ------------------------------
(***************************************************************************)
(* Messages under one key: wc_CoseMac0_Create and _Verify                  *)
(* (src/src/wolfcose_mac0.c), wc_CoseEncrypt0_Encrypt and _Decrypt and     *)
(* their HPKE forms (src/src/wolfcose_encrypt0.c), and the verification of *)
(* COSE_Sign1 and COSE_Sign (src/src/wolfcose_sign1.c, wolfcose_sign.c);   *)
(* their signing is the subject of LmsSigning.                             *)
(*                                                                         *)
(* One thread calls the library.  A sender fills the application's output  *)
(* buffers stage by stage; a receiver reads the message at hand, judges    *)
(* it, opens it and returns.  The output variables are the application's   *)
(* and outlive the calls, so that what an earlier call left in them shows. *)
(*                                                                         *)
(* A byte string is a record of a name, a length and the seal it carries   *)
(* ({} for none); NULL is {} and a pointer to b is {b}.  Cryptography is   *)
(* ideal: a seal says under which key and for which structure it was made, *)
(* and only that key and structure open it.  The library below may fail.   *)
(* A header bucket is a set of <<label, value>> with each label once       *)
(* (HeaderDecode has its decoding); the empty set is the empty bstr.       *)
(*                                                                         *)
(* Definitions marked (slip) are bugs the properties must tell apart from  *)
(* the code.                                                               *)
(***************************************************************************)
EXTENDS Checks, FiniteSets

CONSTANTS
    SigKind,    \* [signature algorithm -> family]
    AlgCrv,     \* [EdDSA and ECDSA algorithms -> curve, or "any"]
    DsaLevel,   \* [ML-DSA algorithm -> level]
    MacTag,     \* [MAC algorithm -> tag length]: wolfCose_MacTagSize
    MacKeyLen,  \* [MAC algorithm -> key lengths it takes]
    AeadKeyLen, \* [AEAD algorithm -> key length]
    AeadTagLen, \*   tag length,
    NonceLen,   \*   nonce length,
    AeadLimit,  \*   longest payload (AES-CCM's L = 2)
    HpkeTagLen, \* WOLFCOSE_HPKE_0_TAG_SZ
    HpkeEncSz,  \* WOLFCOSE_HPKE_0_ENC_SZ
    Keys,       \* WOLFCOSE_KEYs with what is attached to them
    Requests,   \* what an application asks a sender for
    Calls,      \* and a receiver
    Peers,      \* messages of other implementations
    MaxSealed   \* bound: distinct facts sealed here

-----------------------------------------------------------------------------
(* What the records say.                                                   *)

AtMostOne(S) == \A x, y \in S : x = y

\* The decoders refuse a label that comes twice, also when once in each bucket.
LabelsOnce(bucket) == \A p, r \in bucket : /\ p = <<p[1], p[2]>>
                                           /\ p[1] = r[1] => p = r

\* An AEAD lengthens what it seals by the tag of its algorithm.
SealedLen(s) == s.content.len + IF s.alg = "hpke0" THEN HpkeTagLen ELSE AeadTagLen[s.alg]

\* The sets that stand for a pointer or a seal hold one thing or nothing; only
\* a COSE_Sign has signers.
IsMessage(m) ==
    /\ LabelsOnce(m.prot \cup m.unprot)
    /\ AtMostOne(m.body) /\ AtMostOne(m.aside)
    /\ AtMostOne(m.seal.seal)
    /\ \A b \in m.body \cup m.aside :
          /\ AtMostOne(b.seal) /\ b.len \in Nat
          /\ \A s \in b.seal : /\ s.ctx = "Encrypt0" /\ s.content.len \in Nat
                               /\ b.len = SealedLen(s)
    /\ Len(m.entries) \in Nat /\ DOMAIN m.entries = 1 .. Len(m.entries)
    /\ m.entries # <<>> => m.last = "array" /\ m.count = 4
    /\ \A k \in DOMAIN m.entries :
          /\ LabelsOnce(m.entries[k].prot \cup m.entries[k].unprot)
          /\ AtMostOne(m.entries[k].sig.seal)

\* Every AEAD has a tag and a nonce.
ASSUME AlgsAssumption ==
    /\ "hpke0" \notin DOMAIN AeadKeyLen
    /\ HpkeTagLen \in Nat
    /\ \A a \in DOMAIN AeadKeyLen : /\ AeadTagLen[a] \in Nat /\ AeadTagLen[a] > 0
                                   /\ NonceLen[a] \in Nat /\ NonceLen[a] > 0

\* The id of a symmetric key names its bytes; only an ECC object can be empty.
ASSUME KeysAssumption ==
    /\ \A k, l \in Keys : k.kty = "symm" /\ l.kty = "symm" /\ k.id = l.id => k.len = l.len
    /\ \A k \in Keys : k.kty = "symm" => k.obj # "empty"

ASSUME RequestsAssumption ==
    \A q \in Requests :
       /\ q.api \in {"mac0", "enc0", "hpke"} /\ (q.api = "hpke" => q.alg = "hpke0")
       /\ q.key \in Keys
       /\ AtMostOne(q.payload) /\ AtMostOne(q.apart)
       /\ \A b \in q.payload \cup q.apart : b.len \in Nat /\ b.seal = {}

ASSUME CallsAssumption ==
    \A c \in Calls :
       /\ c.api \in {"sign1", "sign", "mac0", "enc0", "hpke"}
       /\ c.detached \in {"none", "aside", "other"}
       /\ c.key \in Keys /\ c.index \in Nat /\ c.room \in Nat

ASSUME PeersAssumption == \A m \in Peers : IsMessage(m)

VARIABLES
    wire,    \* the message at hand
    pc,      \* where the current call is
    ret,     \* its code so far; when idle, the code of the last call
    req,     \* the last call, a sender's request
    call,    \*   or a receiver's call
    out,     \* the sender's outputs: [msg, partial, len, apart, apartLen]
    got,     \* the receiver's: [payload, hdr, plain, plainLen]
    scratch, \* what the scratch buffer holds
    sealed,  \* ghost: what has been sealed, here or by a peer
    origin,  \* ghost: the request the message at hand answers
    fault    \* ghost: the library below failed in this call

control == <<pc, ret, req, call, fault>>
vars    == <<wire, control, out, got, scratch, sealed, origin>>

-----------------------------------------------------------------------------
(* Byte strings, headers and seals.                                        *)

Null == {}

Bytes(name, len, seal) == [name |-> name, len |-> len, seal |-> seal]

Has(bucket, label) == \E p \in bucket : p[1] = label
Value(bucket, label) == (CHOOSE p \in bucket : p[1] = label)[2]

AlgOf(prot, unprot) ==
    IF Has(prot \cup unprot, "alg") THEN Value(prot \cup unprot, "alg") ELSE "unset"

NoHdr == [alg |-> "unset", detached |-> FALSE, fields |-> {}]

\* WOLFCOSE_CTX_*.
Context == [sign1 |-> "Signature1", sign |-> "Signature", mac0 |-> "MAC0",
            enc0 |-> "Encrypt0", hpke |-> "Encrypt0"]

\* The structure a seal is made for, and by whom: wolfCose_BuildToBeSignedMaced
\* and wolfCose_BuildEncStructure; an AEAD binds the nonce as well.
Seal(api, key, alg, prot, signer, aad, content, nonce) ==
    [ctx |-> Context[api], key |-> key.id, alg |-> alg, prot |-> prot, signer |-> signer,
     aad |-> aad, content |-> content, nonce |-> nonce]

Opens(api) == api \in {"enc0", "hpke"}
Type(api)  == IF api = "hpke" THEN "enc0" ELSE api
Fields(api) == IF Opens(api) THEN 3 ELSE 4

TagLen(api, alg) == IF api = "hpke" THEN HpkeTagLen ELSE AeadTagLen[alg]

The(S) == CHOOSE x \in S : TRUE

-----------------------------------------------------------------------------
(* What the algorithms ask of keys.                                        *)

\* The pin has to match; without one, only a protected algorithm will do.
PolicyCode(key, prot, alg) ==
    First(<<Fails(key.alg \notin {"unset", alg}, "alg"),
            Fails(key.alg = "unset" /\ ~ Has(prot, "alg"), "alg")>>)

EddsaKeyCode(key, alg) ==
    First(<<Fails(key.kty # "okp", "key"),
            Fails(AlgCrv[alg] \notin {"any", key.crv}, "alg"),
            Fails(key.crv \notin {"ed25519", "ed448"}, "alg"),
            Fails(key.att # key.crv \/ key.obj = "null", "key")>>)

\* An object that holds no key yet passes: it may be a target of decode.
EcdsaKeyCode(key, alg) ==
    First(<<Fails(key.kty # "ec2" \/ key.att # "ecc", "key"),
            Fails(AlgCrv[alg] # key.crv, "alg"),
            Fails(key.obj = "null", "arg"),
            Fails(key.obj \notin {"empty", key.crv}, "alg")>>)

RsaPssCheckKey(key) ==
    Fails(key.kty # "rsa" \/ key.att # "rsa" \/ key.obj \in {"null", "short"}, "key")

MlDsaCheckKey(key, alg) ==
    Fails(key.kty # "akp" \/ key.att # "mldsa" \/ key.obj # DsaLevel[alg], "key")

LmsCheckKey(key) ==
    Fails(key.kty # "hsslms" \/ key.att # "lms" \/ key.obj = "null", "key")

SigKeyCode(key, alg) ==
    IF alg \notin DOMAIN SigKind THEN "alg"
    ELSE CASE SigKind[alg] = "eddsa" -> EddsaKeyCode(key, alg)
           [] SigKind[alg] = "ecdsa" -> EcdsaKeyCode(key, alg)
           [] SigKind[alg] = "pss"   -> RsaPssCheckKey(key)
           [] SigKind[alg] = "mldsa" -> MlDsaCheckKey(key, alg)
           [] SigKind[alg] = "lms"   -> LmsCheckKey(key)

Hpke0ValidateKey(key, needPrivate) ==
    First(<<Fails(key.att # "ecc" \/ key.kty # "ec2" \/ key.crv # "p256" \/ key.obj # "p256",
                  "key"),
            Fails(key.alg \notin {"unset", "hpke0"}, "alg"),
            Fails(needPrivate /\ ~ key.private, "key")>>)

-----------------------------------------------------------------------------
(* The sender.                                                             *)

Idle == pc = "idle"

Detached(q) == q.apart # Null

CreateCode(q) ==
    First(<<Fails(q.null, "arg"),
            Fails((q.payload = Null) = (q.apart = Null), "arg"),
            Fails(q.kid = "half", "arg"),
            Fails(q.key.kty # "symm", "key"),
            Fails(q.key.alg \notin {"unset", q.alg}, "alg"),
            Fails(q.alg \notin DOMAIN MacTag, "alg"),
            Fails(~ q.scratch, "buffer"),
            Fails(q.alg \in DOMAIN MacKeyLen /\ q.key.len \notin MacKeyLen[q.alg], "key")>>)

\* The detached buffer has to hold the ciphertext with its tag.
ApartCode(q, tagLen) ==
    Fails(\E b \in q.apart : b.len < The(q.payload).len + tagLen, "buffer")

EncryptCode(q) ==
    First(<<Fails(q.null \/ q.payload = Null, "arg"),
            Fails(q.key.kty # "symm", "key"),
            Fails(q.key.alg \notin {"unset", q.alg}, "alg"),
            IF q.alg \notin DOMAIN AeadKeyLen THEN "alg"
            ELSE First(<<Fails(q.key.len # AeadKeyLen[q.alg], "key"),
                         Fails(The(q.payload).len > AeadLimit[q.alg], "arg"),
                         ApartCode(q, AeadTagLen[q.alg]),
                         Fails(q.iv.len # NonceLen[q.alg], "arg")>>),
            Fails(~ q.scratch, "buffer")>>)

HpkeCode(q) ==
    First(<<Fails(q.null \/ q.payload = Null \/ q.kid = "half", "arg"),
            ApartCode(q, HpkeTagLen),
            Fails(~ q.scratch, "buffer"),
            Hpke0ValidateKey(q.key, FALSE)>>)

SenderCode(q) == CASE q.api = "mac0" -> CreateCode(q)
                   [] q.api = "enc0" -> EncryptCode(q)
                   [] q.api = "hpke" -> HpkeCode(q)

Prot(q) == {<<"alg", q.alg>>}
Kid(q)  == IF q.kid = "none" THEN {} ELSE {<<"kid", q.kid>>}

\* HPKE sends the encapsulated key, a fresh one for each message.
Ek(q) == Bytes("ek", HpkeEncSz, Null)

Unprot(q) == CASE q.api = "mac0" -> Kid(q)
               [] q.api = "enc0" -> {<<"iv", q.iv>>}
               [] q.api = "hpke" -> Kid(q) \cup {<<"ek", Ek(q)>>}

\* (slip) a detached payload is left out of the MAC
ContentInline(q) == IF q.payload = Null THEN Bytes("none", 0, Null) ELSE The(q.payload)

\* What is authenticated or encrypted: macPayload, payload.
Content(q) == IF q.payload = Null THEN The(q.apart) ELSE The(q.payload)

SealFor(q) ==
    Seal(q.api, q.key, q.alg, Prot(q), Null, q.aad, Content(q),
         CASE q.api = "mac0" -> Null
           [] q.api = "enc0" -> {q.iv}
           [] q.api = "hpke" -> {Ek(q)})

Ciphertext(q) == Bytes("cipher", Content(q).len + TagLen(q.api, q.alg), {SealFor(q)})

NoBytes == Bytes("none", 0, Null)

Message(q) ==
    [tag |-> Type(q.api), count |-> Fields(q.api), hdrs |-> "ok",
     prot |-> Prot(q), unprot |-> Unprot(q),
     body |-> IF q.api = "mac0" THEN q.payload
              ELSE IF Detached(q) THEN Null ELSE {Ciphertext(q)},
     aside |-> IF q.api = "mac0" THEN q.apart ELSE IF Detached(q) THEN {Ciphertext(q)} ELSE Null,
     last |-> "bstr",
     seal |-> IF q.api = "mac0" THEN Bytes("tag", MacTag[q.alg], {SealFor(q)}) ELSE NoBytes,
     entries |-> <<>>, trailing |-> FALSE]

\* What the fact of a seal is, for its holders.
KindOf(ctx) == CASE ctx = "Signature1" -> "sign1"
                 [] ctx = "Signature"  -> "sign"
                 [] ctx = "MAC0"       -> "mac0"
                 [] ctx = "Encrypt0"   -> "enc0"

FactOf(s) == [kind |-> KindOf(s.ctx), key |-> s.key, alg |-> s.alg, aad |-> s.aad,
              payload |-> s.content]

RequestFact(q) == [kind |-> Type(q.api), key |-> q.key.id, alg |-> q.alg, aad |-> q.aad,
                   payload |-> Content(q)]

Seals(m) == m.seal.seal \cup (UNION {b.seal : b \in m.body \cup m.aside})
            \cup (UNION {m.entries[k].sig.seal : k \in DOMAIN m.entries})

PeerFacts == {FactOf(s) : s \in UNION {Seals(m) : m \in Peers}}

\* A stage of a call ends it or hands over to the next.
Stage(code, next, end) == /\ ret' = code
                          /\ pc' = IF code = "ok" THEN next ELSE end

\* What wolfCrypt makes of a request that is in order.
LibraryCodes == {"ok", "crypto"}

\* The bound is on what succeeds: a request bound to fail is always tried.
Bounded(q) ==
    \/ Cardinality(sealed \ PeerFacts) < MaxSealed
    \/ SenderCode(q) # "ok" \/ q.room # "all"
    \/ q.payload \cup q.apart # Null /\ RequestFact(q) \in sealed

\* The checks and the structure in scratch; for HPKE the ephemeral key.
Create(q) ==
    /\ Idle
    /\ Bounded(q)
    /\ \E lib \in LibraryCodes :
           /\ Stage(First(<<SenderCode(q), lib>>),
                    IF q.api = "mac0" THEN "encode" ELSE "head", "finish")
           /\ fault' = (lib # "ok")
    /\ req' = {q}
    /\ call' = {}
    /\ scratch' = "used"
    /\ UNCHANGED <<wire, out, got, sealed, origin>>

\* Some of the output buffer has been written over.
Overwritten == [out EXCEPT !.msg = Null, !.partial = TRUE]

\* The MAC is computed before anything is written.
EncodeMac0 ==
    /\ pc = "encode"
    /\ Stage(Fails(The(req).room # "all", "buffer"), "finish", "finish")
    /\ out' = Overwritten
    /\ UNCHANGED <<wire, got, req, call, fault, scratch, sealed, origin>>

\* Tag, array, headers.
EncodeHead ==
    /\ pc = "head"
    /\ Stage(Fails(The(req).room = "none", "buffer"),
             IF The(req).api = "hpke" /\ Detached(The(req)) THEN "null" ELSE "encrypt", "finish")
    /\ out' = Overwritten
    /\ UNCHANGED <<wire, got, req, call, fault, scratch, sealed, origin>>

\* A detached ciphertext goes to its own buffer, an attached one into the
\* message once its head and its bytes are known to fit.
Encrypt ==
    LET q == The(req) IN
    /\ pc = "encrypt"
    /\ \E lib \in LibraryCodes :
           /\ fault' = (lib # "ok")
           /\ Stage(First(<<Fails(~ Detached(q) /\ q.room # "all", "buffer"), lib>>),
                    IF q.api = "enc0" /\ Detached(q) THEN "null" ELSE "finish", "finish")
           /\ out' = IF ~ Detached(q) THEN out
                     ELSE [out EXCEPT !.apart = IF lib = "ok" THEN {Ciphertext(q)}
                                                ELSE {Bytes("partial", 0, Null)}]
    /\ UNCHANGED <<wire, got, req, call, scratch, sealed, origin>>

\* HPKE writes the null before it seals, AES and ChaCha20 after.
EncodeNull ==
    /\ pc = "null"
    /\ Stage(Fails(The(req).room # "all", "buffer"),
             IF The(req).api = "hpke" THEN "encrypt" ELSE "finish", "finish")
    /\ UNCHANGED <<wire, out, got, req, call, fault, scratch, sealed, origin>>

Published(q) ==
    [out EXCEPT !.msg = {Message(q)}, !.partial = FALSE, !.len = {Message(q)},
                !.apartLen = IF Opens(q.api) /\ Detached(q) THEN Ciphertext(q).len ELSE @]

\* (slip) what is in the detached buffer stays there
WipedButApart(q) ==
    [out EXCEPT !.msg = Null, !.partial = FALSE,
                !.len = IF q.api = "hpke" THEN Null ELSE @,
                !.apartLen = IF q.api = "hpke" THEN 0 ELSE @]

\* Only HPKE resets the lengths.
Wiped(q) ==
    [out EXCEPT !.msg = Null, !.partial = FALSE,
                !.apart = IF Opens(q.api) /\ Detached(q) THEN Null ELSE @,
                !.len = IF q.api = "hpke" THEN Null ELSE @,
                !.apartLen = IF q.api = "hpke" THEN 0 ELSE @]

\* wolfCose_ForceZero(scratch) on every way out.
ScratchAfter == "zero"

Finish ==
    LET q == The(req) IN
    /\ pc = "finish"
    /\ pc' = "idle"
    /\ scratch' = ScratchAfter
    /\ out' = IF ret = "ok" THEN Published(q) ELSE Wiped(q)
    /\ sealed' = IF ret = "ok" THEN sealed \cup {RequestFact(q)} ELSE sealed
    /\ UNCHANGED <<wire, got, ret, req, call, fault, origin>>

-----------------------------------------------------------------------------
(* The message on its way.                                                 *)

\* The message just created arrives, or one of a peer's; the application is
\* done with what the last call gave it, but its variables keep it.
Arrives(m, from) ==
    /\ Idle
    /\ wire' = m
    /\ origin' = from
    /\ req' = {}
    /\ call' = {}
    /\ UNCHANGED <<pc, ret, fault, out, got, scratch, sealed>>

Transmit ==
    /\ ret = "ok" /\ req # {}
    /\ \E m \in out.msg : Arrives(m, req)

FromPeer(m) == Arrives(m, {})

-----------------------------------------------------------------------------
(* The receiver.                                                           *)

ReceiverCode(c) ==
    First(<<Fails(c.null, "arg"),
            Fails(~ c.flags, "arg"),
            Fails(c.api \in {"mac0", "enc0"} /\ c.key.kty # "symm", "key")>>)

\* XMEMSET(hdr, 0): the decoders and "flags |=" only ever add to it.
Cleared(h) == NoHdr

Receive(c) ==
    /\ Idle
    /\ Stage(ReceiverCode(c), "read", "return")
    /\ call' = {c}
    /\ req' = {}
    /\ got' = IF ReceiverCode(c) = "ok" THEN [got EXCEPT !.hdr = Cleared(@)] ELSE got
    /\ fault' = FALSE
    /\ UNCHANGED <<wire, out, scratch, sealed, origin>>

\* What the application passes as detached content.
Supplied(c, m) == CASE c.detached = "none"  -> Null
                    [] c.detached = "aside" -> m.aside
                    [] c.detached = "other" -> {Bytes("other", 20, Null)}

\* (slip) detached content is preferred to what the message holds
CarriedSuppliedFirst(c, m) == IF Supplied(c, m) # Null THEN Supplied(c, m) ELSE m.body

\* What is verified or decrypted; content in the message has precedence.
Carried(c, m) == IF m.body # Null THEN m.body ELSE Supplied(c, m)

\* An empty ciphertext is refused here, but by HPKE only for its length.
DetachedCode(c, m) ==
    Fails(/\ m.body = Null
          /\ \/ Supplied(c, m) = Null
             \/ (c.api = "enc0" /\ The(Supplied(c, m)).len = 0), "detached")

\* The mode is base, and the suite named in the protected bucket or nowhere.
HpkeHdrCode(m) ==
    Fails(\/ Has(m.prot, "alg") /\ Value(m.prot, "alg") # "hpke0"
          \/ Has(m.prot, "ek") \/ Has(m.prot \cup m.unprot, "psk")
          \/ Has(m.unprot, "alg")
          \/ Has(m.prot \cup m.unprot, "iv") \/ Has(m.prot \cup m.unprot, "partial-iv")
          \/ ~ Has(m.unprot, "ek") \/ Value(m.unprot, "ek").len # HpkeEncSz, "hdr")

\* wolfCose_DecodeSkippedSignature, and what a selected entry has to be.
EntryCode(e) == First(<<Fails(e.count # 3, "malformed"), Fails(e.hdrs # "ok", "hdr")>>)

EntryCodes(m, ks) == First([k \in 1 .. Len(m.entries) |->
                               IF k \in ks THEN EntryCode(m.entries[k]) ELSE "ok"])

\* (slip) reading stops at the signer asked for
SignersCodeStops(c, m) ==
    IF m.last # "array" THEN "type"
    ELSE IF c.index >= Len(m.entries) THEN "arg"
    ELSE LET e == m.entries[c.index + 1] IN
         First(<<EntryCodes(m, 1 .. c.index + 1),
                 PolicyCode(c.key, e.prot, AlgOf(e.prot, e.unprot))>>)

\* The signers before the one asked for, that one, and those after it.
SignersCode(c, m) ==
    IF m.last # "array" THEN "type"
    ELSE IF c.index >= Len(m.entries) THEN "arg"
    ELSE LET e == m.entries[c.index + 1] IN
         First(<<EntryCodes(m, 1 .. c.index + 1),
                 PolicyCode(c.key, e.prot, AlgOf(e.prot, e.unprot)),
                 EntryCodes(m, c.index + 2 .. Len(m.entries))>>)

ReadCode(c, m) ==
    First(<<Fails(m.tag \notin {"none", Type(c.api)}, "tag"),
            Fails(m.count # Fields(c.api), "malformed"),
            Fails(m.hdrs # "ok", "hdr"),
            IF c.api = "hpke" THEN HpkeHdrCode(m) ELSE "ok",
            DetachedCode(c, m),
            CASE c.api = "sign"              -> SignersCode(c, m)
              [] c.api \in {"sign1", "mac0"} -> Fails(m.last # "bstr", "type")
              [] OTHER                       -> "ok",
            Fails(m.trailing, "malformed")>>)

\* The decoders set what they meet.
HeaderRead(h, m) ==
    [alg      |-> IF Has(m.prot \cup m.unprot, "alg") THEN AlgOf(m.prot, m.unprot) ELSE h.alg,
     detached |-> h.detached \/ m.body = Null,
     fields   |-> h.fields \cup m.prot \cup m.unprot]

Read ==
    /\ pc = "read"
    /\ Stage(ReadCode(The(call), wire), "judge", "return")
    /\ got' = [got EXCEPT !.hdr = HeaderRead(@, wire)]
    /\ UNCHANGED <<wire, out, req, call, fault, scratch, sealed, origin>>

Signer(c, m) == m.entries[c.index + 1]

\* The algorithm that is judged, used and, on success, reported.
UsedAlg(c, m) == CASE c.api = "sign" -> AlgOf(Signer(c, m).prot, Signer(c, m).unprot)
                   [] c.api = "hpke" -> "hpke0"
                   [] OTHER          -> got.hdr.alg

Fourth(c, m) == IF c.api = "sign" THEN Signer(c, m).sig ELSE m.seal

ScratchCode(c) == Fails(c.scratch = "small", "buffer")

\* wc_RsaPSS_VerifyCheck works in place: the signature is copied to scratch.
PssRoomCode(c, m, alg) ==
    Fails(alg \in DOMAIN SigKind /\ SigKind[alg] = "pss" /\ c.scratch # "ample", "buffer")

JudgeSign1(c, m) ==
    LET alg == UsedAlg(c, m) IN
    First(<<PolicyCode(c.key, m.prot, alg), ScratchCode(c), SigKeyCode(c.key, alg),
            PssRoomCode(c, m, alg)>>)

\* The policy has been applied while reading.
JudgeSign(c, m) ==
    LET alg == UsedAlg(c, m) IN
    First(<<ScratchCode(c), SigKeyCode(c.key, alg), PssRoomCode(c, m, alg)>>)

\* A tag of another length is refused before anything is computed.
JudgeMac0(c, m) ==
    LET alg == UsedAlg(c, m) IN
    First(<<PolicyCode(c.key, m.prot, alg),
            IF alg \notin DOMAIN MacTag THEN "alg" ELSE Fails(m.seal.len # MacTag[alg], "mac"),
            ScratchCode(c),
            Fails(alg \in DOMAIN MacKeyLen /\ c.key.len \notin MacKeyLen[alg], "key")>>)

JudgeEncrypt0(c, m) ==
    LET alg == UsedAlg(c, m)
        len == The(Carried(c, m)).len
        iv  == {b \in {p[2] : p \in {q \in m.prot \cup m.unprot : q[1] = "iv"}} : b.len > 0}
    IN  First(<<PolicyCode(c.key, m.prot, alg),
                IF alg \notin DOMAIN AeadKeyLen THEN "alg"
                ELSE First(<<Fails(len < AeadTagLen[alg], "malformed"),
                             Fails(c.key.len # AeadKeyLen[alg], "key"),
                             Fails(len - AeadTagLen[alg] > AeadLimit[alg], "malformed"),
                             Fails(len - AeadTagLen[alg] > c.room, "buffer"),
                             Fails(iv = {} \/ The(iv).len # NonceLen[alg], "hdr")>>),
                ScratchCode(c)>>)

JudgeHpke(c, m) ==
    LET len == The(Carried(c, m)).len IN
    First(<<Fails(len < HpkeTagLen, "malformed"),
            Fails(len - HpkeTagLen > c.room, "buffer"),
            ScratchCode(c),
            Hpke0ValidateKey(c.key, TRUE)>>)

JudgeCode(c, m) == CASE c.api = "sign1" -> JudgeSign1(c, m)
                     [] c.api = "sign"  -> JudgeSign(c, m)
                     [] c.api = "mac0"  -> JudgeMac0(c, m)
                     [] c.api = "enc0"  -> JudgeEncrypt0(c, m)
                     [] c.api = "hpke"  -> JudgeHpke(c, m)

\* The checks, with the structure rebuilt in scratch.
Judge ==
    /\ pc = "judge"
    /\ Stage(JudgeCode(The(call), wire), "open", "return")
    /\ scratch' = "used"
    /\ UNCHANGED <<wire, out, got, req, call, fault, sealed, origin>>

\* The bytes that carry the seal: signature, tag or ciphertext.
SealedBytes(c, m) == IF Opens(c.api) THEN The(Carried(c, m)) ELSE Fourth(c, m)

NonceOf(c, m) == CASE c.api = "enc0" -> {Value(m.prot \cup m.unprot, "iv")}
                   [] c.api = "hpke" -> {Value(m.unprot, "ek")}
                   [] OTHER          -> Null

\* The seal has been made for the structure the receiver rebuilds.
Fits(c, m) ==
    \E s \in SealedBytes(c, m).seal :
       s = Seal(c.api, c.key, UsedAlg(c, m), m.prot,
                IF c.api = "sign" THEN {Signer(c, m).prot} ELSE Null,
                c.aad, IF Opens(c.api) THEN s.content ELSE The(Carried(c, m)), NonceOf(c, m))

\* The code for a seal that does not fit; some libraries call it an error.
Refusals(c, m) ==
    CASE c.api = "mac0" -> {"mac"}
      [] Opens(c.api)   -> {"decrypt"}
      [] OTHER          -> IF SigKind[UsedAlg(c, m)] = "pss" THEN {"sig"} ELSE {"sig", "crypto"}

\* When the library fails: RSA-PSS takes any error for a bad signature, and
\* decryption takes one for a bad ciphertext.
FaultCodes(c, m) == IF c.api = "mac0" THEN {"crypto"} ELSE Refusals(c, m) \cup {"crypto"}

\* An empty ECC object has no public key to verify with.
Verifies(c, m) == Fits(c, m) /\ c.key.obj # "empty"

\* A decryption that fails may have written to the plaintext buffer.
Open ==
    LET c == The(call) IN
    /\ pc = "open"
    /\ \/ /\ fault' = FALSE
          /\ \E code \in IF Verifies(c, wire) THEN {"ok"} ELSE Refusals(c, wire) :
                Stage(code, "return", "return")
       \/ /\ fault' = TRUE
          /\ \E code \in FaultCodes(c, wire) : Stage(code, "return", "return")
    /\ got' = IF ~ Opens(c.api) THEN got
              ELSE [got EXCEPT !.plain =
                       IF ret' = "ok" THEN {(The(SealedBytes(c, wire).seal)).content}
                       ELSE {Bytes("unauthenticated", 0, Null)}]
    /\ UNCHANGED <<wire, out, req, call, scratch, sealed, origin>>

\* COSE_Sign reports the algorithm of the signer that was verified.
Reported(h, c) == IF c.api = "sign" THEN [h EXCEPT !.alg = UsedAlg(c, wire)] ELSE h

\* Every output of the call is cleared, whoever filled it.
Failed(g, c) ==
    [g EXCEPT !.hdr = NoHdr,
              !.payload = IF Opens(c.api) THEN @ ELSE Null,
              !.plain = IF Opens(c.api) THEN Null ELSE @,
              !.plainLen = IF Opens(c.api) THEN 0 ELSE @]

Passed(g, c) ==
    [g EXCEPT !.hdr = Reported(@, c),
              !.payload = IF Opens(c.api) THEN @ ELSE wire.body,
              !.plainLen = IF Opens(c.api) THEN The(Carried(c, wire)).len
                                                - TagLen(c.api, UsedAlg(c, wire)) ELSE @]

Return ==
    LET c == The(call) IN
    /\ pc = "return"
    /\ pc' = "idle"
    /\ scratch' = ScratchAfter
    /\ got' = IF ret = "ok" THEN Passed(got, c) ELSE Failed(got, c)
    /\ UNCHANGED <<wire, out, ret, req, call, fault, sealed, origin>>

-----------------------------------------------------------------------------
(* The specification.                                                      *)

NothingSent == [msg |-> Null, partial |-> FALSE, len |-> Null, apart |-> Null, apartLen |-> 0]
NothingGot  == [payload |-> Null, hdr |-> NoHdr, plain |-> Null, plainLen |-> 0]

Init ==
    /\ wire \in Peers
    /\ pc = "idle" /\ ret = "ok" /\ req = {} /\ call = {} /\ fault = FALSE
    /\ out = NothingSent
    /\ got = NothingGot
    /\ scratch = "zero"
    /\ sealed = PeerFacts
    /\ origin = {}

Next ==
    \/ \E q \in Requests : Create(q)
    \/ EncodeMac0 \/ EncodeHead \/ Encrypt \/ EncodeNull \/ Finish
    \/ Transmit
    \/ \E m \in Peers : FromPeer(m)
    \/ \E c \in Calls : Receive(c)
    \/ Read \/ Judge \/ Open \/ Return

Spec == Init /\ [][Next]_vars

-----------------------------------------------------------------------------
(* Properties.                                                             *)

Facts == PeerFacts \cup {RequestFact(q) : q \in {r \in Requests : r.payload \cup r.apart # Null}}

\* Types: a call is either a sender's or a receiver's, and the plaintext is
\* no longer than the buffer the caller has for it.
TypeOK ==
    /\ pc \in {"idle", "encode", "head", "encrypt", "null", "finish",
               "read", "judge", "open", "return"}
    /\ req \subseteq Requests /\ call \subseteq Calls /\ origin \subseteq Requests
    /\ req = {} \/ call = {}
    /\ pc \in {"encode", "head", "encrypt", "null", "finish"} => \E q \in Requests : req = {q}
    /\ pc \in {"read", "judge", "open", "return"} => \E c \in Calls : call = {c}
    /\ fault \in BOOLEAN /\ out.partial \in BOOLEAN
    /\ out.apartLen \in Nat /\ got.plainLen \in Nat
    /\ scratch \in {"zero", "used"}
    /\ sealed \subseteq Facts
    /\ Idle /\ ret = "ok" => \A c \in call : Opens(c.api) => The(got.plain).len <= c.room

\* What the application may use after a call: the payload it was given, or
\* the detached one it supplied, under the algorithm it was told.
Given ==
    IF ~ Idle \/ ret # "ok" THEN {}
    ELSE {[kind |-> Type(c.api), key |-> c.key.id,
           alg |-> IF c.api = "hpke" THEN "hpke0" ELSE got.hdr.alg, aad |-> c.aad,
           payload |-> IF Opens(c.api) THEN The(got.plain)
                       ELSE IF got.payload # Null THEN The(got.payload)
                       ELSE The(Supplied(c, wire))] : c \in call}

D == INSTANCE Delivery WITH given <- Given

\* Whatever arrives and however calls follow one another, an application is
\* given nothing, or what a holder of the key sealed, as the same kind of
\* message, under the same algorithm and for the same external data.
Promise == D!Spec

\* After a call scratch holds nothing of it; after a call that failed the
\* outputs hold nothing either, not even what an earlier call left there.
NothingLeftBehind ==
    Idle =>
      /\ scratch = "zero"
      /\ ret # "ok" =>
           \A c \in call :
              /\ got.hdr = NoHdr
              /\ IF Opens(c.api) THEN got.plain = Null /\ got.plainLen = 0
                 ELSE got.payload = Null

\* A sender's buffers hold a message with, when it says null, the very
\* ciphertext it stands for, or after a failure at any stage nothing at all.
NoPartialMessage ==
    Idle =>
      \A q \in req :
         /\ ~ out.partial
         /\ IF ret = "ok"
            THEN \A m \in out.msg :
                    /\ out.len = {m}
                    /\ Opens(q.api) /\ m.body = Null =>
                         /\ out.apart = m.aside /\ m.aside # Null
                         /\ out.apartLen = The(m.aside).len
            ELSE /\ out.msg = Null
                 /\ Opens(q.api) /\ Detached(q) => out.apart = Null
                 /\ q.api = "hpke" => out.len = Null /\ out.apartLen = 0

\* The algorithm of a call that succeeds was authenticated by the seal, or
\* the key is for that algorithm alone.
AlgIsVouchedFor ==
    Idle /\ ret = "ok" =>
      \A c \in call :
         LET alg == got.hdr.alg IN
         \/ c.key.alg = alg
         \/ <<"alg", alg>> \in IF c.api = "sign" THEN Signer(c, wire).prot ELSE wire.prot
         \/ c.api = "hpke" /\ ~ Has(wire.prot \cup wire.unprot, "alg")

\* What a successful call reports is this message's and this signer's, with
\* nothing of an earlier call: flags, header fields, payload, lengths.
OutputsTellMessage ==
    Idle /\ ret = "ok" =>
      \A c \in call :
         /\ got.hdr.detached = (wire.body = Null)
         /\ got.hdr.fields = wire.prot \cup wire.unprot
         /\ IF Opens(c.api) THEN got.plainLen = The(got.plain).len
            ELSE got.payload = wire.body
         /\ c.api = "sign" =>
              \A s \in Signer(c, wire).sig.seal : s.alg = got.hdr.alg

\* Only whole messages pass, whichever signer the caller is interested in.
PassesWholeMessages ==
    Idle /\ ret = "ok" =>
      \A c \in call :
         /\ ~ wire.trailing /\ wire.hdrs = "ok" /\ wire.tag \in {"none", Type(c.api)}
         /\ \A k \in DOMAIN wire.entries : EntryCode(wire.entries[k]) = "ok"

\* A call that failed, at whatever stage, leaves its caller nothing, neither
\* of its own nor of an earlier call; and no call leaves its secrets behind.
FailureLeavesNothing == NothingLeftBehind /\ NoPartialMessage

\* A receiver's call that succeeded tells of one whole message: this one, and
\* under an algorithm that is vouched for.
SuccessTellsMessage == OutputsTellMessage /\ PassesWholeMessages /\ AlgIsVouchedFor

\* A receiver with the key, the external data, what was left out of the
\* message and enough room.
Answers(c, q) ==
    /\ c.api = q.api /\ c.key.id = q.key.id /\ c.aad = q.aad
    /\ c.key.kty = q.key.kty /\ c.key.alg \in {"unset", q.alg}
    /\ c.api = "hpke" => c.key.private /\ Hpke0ValidateKey(c.key, TRUE) = "ok"
    /\ c.detached \in {"none", "aside"} /\ (wire.body = Null => c.detached = "aside")
    /\ ~ c.null /\ c.flags /\ c.scratch # "small" /\ c.room >= Content(q).len

\* Every message this library creates is accepted by it, attached or
\* detached, empty or at the limit of its mode, and gives back what went in.
RoundTrip ==
    Idle =>
      \A c \in call, q \in origin :
         Answers(c, q) /\ ~ fault =>
            /\ ret = "ok"
            /\ \A g \in Given : g.payload = Content(q)

=============================================================================
