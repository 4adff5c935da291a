----------------------------- MODULE Recipients -----------------------------
(***************************************************************************)
(* Messages for several recipients: wc_CoseEncrypt_Encrypt and _Decrypt    *)
(* (src/src/wolfcose_encrypt.c), wc_CoseMac_Create and _Verify             *)
(* (src/src/wolfcose_mac.c) and the recipient layer they share             *)
(* (src/src/wolfcose_recipient.c and wolfcose_hdr.c).                      *)
(*                                                                         *)
(* One thread calls the library.  A sender checks its recipients, obtains  *)
(* the content key, writes the body and then one recipient after another;  *)
(* a receiver walks the recipients of the message at hand, reading the one *)
(* it was told to and skipping the others with their nested recipients.    *)
(* Loops are steps, so that what they carry is state.                      *)
(*                                                                         *)
(* A header bucket is a set of <<label, value>> with each label once; its  *)
(* decoding is the subject of HeaderDecode.  An empty protected bucket is  *)
(* the empty bstr.  The recipients of a message are a sequence in the      *)
(* order of the bytes: an entry of four fields is followed by its "nested" *)
(* recipients.  Encryption is ideal: a sealed value says under which key   *)
(* and for which context.                                                  *)
(*                                                                         *)
(* Definitions marked (slip) are bugs the properties must tell apart from  *)
(* the code.                                                               *)
(***************************************************************************)
EXTENDS Checks

CONSTANTS
    KeyLen,       \* [content algorithm -> key length]: wolfCose_AeadKeyLen
    MacKeySizes,  \* [MAC algorithm -> key lengths it takes]
    KekSize,      \* [key wrap algorithm -> key length]: wolfCose_KeyWrapKeySize
    MaxDepth,     \* WOLFCOSE_CBOR_MAX_DEPTH
    Keys,         \* WOLFCOSE_KEYs
    Requests,     \* what an application asks a sender for
    Calls,        \* and a receiver
    Peers         \* messages of other implementations

Kw   == DOMAIN KekSize
Ecdh == {"ecdh256", "ecdh512"}
Distribution == Kw \cup Ecdh \cup {"direct", "hpke"}

\* Algorithms of different uses have different identifiers.
ASSUME NamesAssumption ==
    /\ Kw \cap (Ecdh \cup {"direct", "direct-hkdf", "ecdh-ss", "hpke", "unset", "text"}) = {}
    /\ (DOMAIN KeyLen \cup DOMAIN MacKeySizes) \cap {"unset", "text"} = {}
ASSUME DepthAssumption == MaxDepth \in Nat
ASSUME KeysAssumption ==
    Keys \subseteq [id : STRING, kty : {"symm", "ec2", "null"}, size : Nat, crv : STRING,
                    alg : STRING, private : BOOLEAN]
\* The id names the key: its bytes, or the pair that a public key is half of.
ASSUME IdsAssumption ==
    \A k, l \in Keys : k.id = l.id => k.kty = l.kty /\ k.size = l.size /\ k.crv = l.crv
ASSUME CallsAssumption ==
    Calls \subseteq [api : {"encrypt", "mac"}, key : Keys, policy : STRING, index : Nat,
                     detached : BOOLEAN]
ASSUME RequestsAssumption ==
    \A q \in Requests : /\ q.kind \in {"encrypt", "mac"}
                        /\ q.payload \subseteq {"inline", "detached"}
                        /\ Len(q.recs) \in Nat /\ Len(q.recs) > 0
                        /\ DOMAIN q.recs = 1 .. Len(q.recs)
                        /\ \A k \in DOMAIN q.recs : q.recs[k].key \in Keys
ASSUME PeersAssumption ==
    \A m \in Peers : /\ m.count \in Nat
                     /\ Len(m.recs) \in Nat
                     /\ \A k \in 1 .. Len(m.recs) : m.recs[k].nested \in Nat

VARIABLES
    wire,      \* the message at hand
    origin,    \* ghost: the request it answers, or <<>> for a peer's
    pc,        \* what the current call is doing
    ret,       \* the code of the last call
    req,       \* sender: the request,
    cek,       \*   the content key,
    entries,   \*   the recipients written
    call,      \* receiver: the call,
    at,        \*   the next entry in the bytes,
    remaining, \*   wolfCose_DecodeSkippedRecipient: entries left at this level,
    stack,     \*   those left at the levels above,
    skipped,   \*   the algorithm of the recipient being skipped,
    mode,      \*   recipientMode
    recAlg,    \*   recipientAlgId
    picked,    \*   ghost: the entry read as the selected recipient
    seen,      \*   ghost: the algorithms of the recipients walked
    used       \*   ghost: what the receiver's key was used for

sender   == <<req, cek, entries>>
walk     == <<at, remaining, stack, skipped, mode, recAlg, picked, seen>>
receiver == <<call, walk, used>>
vars     == <<wire, origin, pc, ret, sender, receiver>>

-----------------------------------------------------------------------------
(* Headers, keys and modes.                                                *)

Has(bucket, label) == \E p \in bucket : p[1] = label
Labels(bucket)     == {p[1] : p \in bucket}

\* A text value leaves the algorithm unset.
AlgOf(bucket) ==
    IF \E p \in bucket : p[1] = "alg" /\ p[2] # "text"
    THEN (CHOOSE p \in bucket : p[1] = "alg")[2] ELSE "unset"

Merged(prot, unprot) == IF AlgOf(prot) # "unset" THEN AlgOf(prot) ELSE AlgOf(unprot)

\* The algorithm a key is used with: in direct mode, that of the content.
KeyAlg(recipientAlg, contentAlg) ==
    IF recipientAlg \in {"unset", "direct"} THEN contentAlg ELSE recipientAlg

PinnedTo(key, alg) == key.alg \in {"unset", alg}

\* wolfCose_ValidateRecipientKeyAlg.
ValidateRecipientKeyAlg(key, recipientAlg, contentAlg) ==
    Fails(~ PinnedTo(key, KeyAlg(recipientAlg, contentAlg)), "alg")

\* wolfCose_Hpke0ValidateKey.
Hpke0ValidateKey(key, needPrivate) ==
    First(<<Fails(key.kty = "null", "arg"),
            Fails(key.kty # "ec2" \/ key.crv # "p256", "key"),
            Fails(~ PinnedTo(key, "hpke"), "alg"),
            Fails(needPrivate /\ ~ key.private, "key")>>)

KwKeyCode(key, alg) == Fails(key.kty # "symm" \/ key.size # KekSize[alg], "key")

Mode(alg) == IF alg \in {"direct", "direct-hkdf"} THEN "encryption"
             ELSE IF alg \in Ecdh \cup {"ecdh-ss"} THEN "agreement"
             ELSE "transport"

\* (slip) every recipient is taken for the first
ModeCodeAlone(alg, common) == Fails(alg = "unset", "alg")

\* wolfCose_UpdateRecipientMode.
ModeCode(alg, common) ==
    Fails(alg = "unset"
          \/ (common # "none" /\ (common # Mode(alg) \/ Mode(alg) = "agreement")), "alg")

-----------------------------------------------------------------------------
(* The sender.                                                             *)

Idle == pc = "idle"

\* The sender returns, and forgets the key.
Finish(code) == /\ ret' = code
                /\ pc' = "idle"
                /\ cek' = <<>>
                /\ entries' = <<>>

FirstAlg(q) == q.recs[1].alg
FirstKey(q) == q.recs[1].key

ArgCode(q) == First(<<Fails(\E k \in DOMAIN q.recs : q.recs[k].kid = "half", "arg"),
                      Fails(q.payload = {}, "arg"),
                      Fails(q.kind = "mac" /\ q.payload = {"inline", "detached"}, "arg")>>)

AllOf(q, Code(_)) == [k \in 1 .. Len(q.recs) |-> Code(q.recs[k])]

HpkeCode(r) == IF r.alg # "hpke" THEN "alg" ELSE Hpke0ValidateKey(r.key, FALSE)

\* (slip) the length of the key is left to the wrapping
KwCodeNoSize(r) == First(<<Fails(r.alg \notin Kw, "alg"), Fails(~ PinnedTo(r.key, r.alg), "alg"),
                           Fails(r.key.kty # "symm", "key")>>)

KwCode(r) == First(<<Fails(r.alg \notin Kw, "alg"), Fails(~ PinnedTo(r.key, r.alg), "alg"),
                     IF r.alg \in Kw THEN KwKeyCode(r.key, r.alg) ELSE "ok">>)

\* Every recipient is checked before there is a content key.
RecipientsCode(q) ==
    LET a == FirstAlg(q)
        DirectCode(r) == First(<<Fails(r.alg # "direct", "alg"),
                                 ValidateRecipientKeyAlg(r.key, r.alg, q.alg)>>)
    IN  CASE a = "hpke" -> First(<<Fails(~ q.rng, "arg")>> \o AllOf(q, HpkeCode))
          [] a \in Ecdh -> First(<<Fails(Len(q.recs) > 1, "arg"),
                                   Fails(FirstKey(q).kty # "ec2", "key"),
                                   Fails(~ q.rng, "arg"),
                                   Fails(~ PinnedTo(FirstKey(q), a), "alg")>>)
          [] a \in Kw -> First(<<Fails(~ q.rng, "arg")>> \o AllOf(q, KwCode))
          [] OTHER -> First(<<Fails(FirstKey(q).kty # "symm"
                                    \/ FirstKey(q).size # KeyLen[q.alg], "key"),
                              Fails(~ PinnedTo(FirstKey(q), q.alg), "alg")>>
                            \o AllOf(q, DirectCode))

\* The checks of wc_CoseEncrypt_Encrypt.
EncryptCode(q) ==
    IF ArgCode(q) # "ok" THEN ArgCode(q)
    ELSE IF q.alg \notin DOMAIN KeyLen THEN "alg"
    ELSE IF ~ q.nonce THEN "arg"
    ELSE RecipientsCode(q)

\* Those of wc_CoseMac_Create, up to the MAC.
MacCode(q) ==
    First(<<ArgCode(q),
            Fails(FirstKey(q).kty # "symm", "key"),
            Fails(\E k \in DOMAIN q.recs : ~ PinnedTo(q.recs[k].key, q.alg), "alg"),
            Fails(\E k \in DOMAIN q.recs : q.recs[k].alg # "direct", "alg"),
            Fails(q.alg \notin DOMAIN MacKeySizes, "alg"),
            IF q.alg \in DOMAIN MacKeySizes
            THEN Fails(FirstKey(q).size \notin MacKeySizes[q.alg], "key") ELSE "ok">>)

\* (slip) an algorithm is always protected
ProtectedOfAll(r) == {<<"alg", r.alg>>}

\* Direct and key wrap leave the protected bucket empty; HPKE binds the kid.
ProtectedOf(r) == IF r.alg = "hpke" THEN {<<"alg", "hpke">>} \cup
                                         (IF r.kid = "none" THEN {} ELSE {<<"kid", r.kid>>})
                  ELSE IF r.alg \in Ecdh THEN {<<"alg", r.alg>>}
                  ELSE {}

UnprotectedOf(r) ==
    (IF r.alg \in Ecdh THEN {<<"eph", r.key.crv>>}
     ELSE IF r.alg = "hpke" THEN {<<"ek", "ok">>} ELSE {<<"alg", r.alg>>})
    \cup (IF r.kid = "none" \/ r.alg = "hpke" THEN {} ELSE {<<"kid", r.kid>>})

\* The content key: agreed on, random, or the first recipient's.
Agreed(key, alg, contentAlg, prot) == <<"agreed", key.id, alg, contentAlg, prot>>
Held(key) == <<"held", key.id>>
Cek(q) ==
    IF q.kind = "encrypt" /\ FirstAlg(q) \in Ecdh
    THEN Agreed(FirstKey(q), FirstAlg(q), q.alg, ProtectedOf(q.recs[1]))
    ELSE IF q.kind = "encrypt" /\ FirstAlg(q) # "direct" THEN <<"random", KeyLen[q.alg]>>
    ELSE Held(FirstKey(q))

\* wolfCose_KeyWrap and wolfCose_Hpke0Seal, which check the key again.
WrapCode(r) == IF r.alg \in Kw THEN KwKeyCode(r.key, r.alg)
               ELSE IF r.alg = "hpke" THEN Hpke0ValidateKey(r.key, FALSE)
               ELSE "ok"

Wrapped(q, r) ==
    IF r.alg \in Kw THEN <<"wrap", r.key.id, cek>>
    ELSE IF r.alg = "hpke" THEN <<"seal", r.key.id, <<q.alg, ProtectedOf(r)>>, cek>>
    ELSE <<"bstr">>

EncodeRecipient(q, r) == [fields |-> 3, prot |-> ProtectedOf(r), unprot |-> UnprotectedOf(r),
                          value |-> Wrapped(q, r), nested |-> 0]

\* The body: encrypted content, or a payload and its tag.
Message(q) ==
    LET prot == {<<"alg", q.alg>>}
        inline == "inline" \in q.payload
    IN  [tag |-> q.kind, fields |-> IF q.kind = "mac" THEN 5 ELSE 4, prot |-> prot,
         unprot |-> IF q.kind = "mac" THEN {} ELSE {<<"iv", "ok">>},
         content |-> IF q.kind = "encrypt" THEN <<"sealed", cek, q.alg, prot>>
                     ELSE IF inline THEN <<"payload">> ELSE <<"null">>,
         aside |-> <<"payload">>,
         mac |-> IF q.kind = "mac" THEN <<cek, q.alg, prot, <<"payload">> >> ELSE <<>>,
         count |-> Len(q.recs), recs |-> entries]

\* wc_CoseEncrypt_Encrypt or wc_CoseMac_Create is called.
Start ==
    /\ Idle
    /\ wire = <<>>
    /\ req = <<>>
    /\ \E q \in Requests :
          LET code == IF q.kind = "mac" THEN MacCode(q) ELSE EncryptCode(q)
          IN  /\ req' = q
              /\ IF code # "ok" THEN Finish(code)
                 ELSE /\ pc' = IF q.kind = "mac" THEN "body" ELSE "cek"
                      /\ cek' = IF q.kind = "mac" THEN Cek(q) ELSE <<>>
                      /\ ret' = "ok"
                      /\ UNCHANGED entries
    /\ UNCHANGED <<wire, origin, receiver>>

\* wc_RNG_GenerateBlock, wolfCose_EcdhEsDirect, or the key of the first recipient.
ObtainCek ==
    /\ pc = "cek"
    /\ \/ /\ cek' = Cek(req)
          /\ pc' = "body"
          /\ UNCHANGED <<entries, ret>>
       \/ /\ FirstAlg(req) # "direct"
          /\ Finish("crypto")
    /\ UNCHANGED <<wire, origin, req, receiver>>

\* Headers and content.  A detached content is refused once the headers are written.
BodyCode(q) == First(<<Fails(q.room < 1, "overflow"),
                       Fails(q.kind = "encrypt" /\ "detached" \in q.payload, "unsupported"),
                       Fails(q.room < 2, "overflow")>>)

WriteBody ==
    /\ pc = "body"
    /\ \/ /\ BodyCode(req) = "ok"
          /\ pc' = "recipients"
          /\ UNCHANGED <<cek, entries, ret>>
       \/ /\ BodyCode(req) # "ok"
          /\ Finish(BodyCode(req))
       \/ Finish("crypto")
    /\ UNCHANGED <<wire, origin, req, receiver>>

\* One COSE_recipient.  A long kid does not fit in HPKE's protected bucket.
Next1 == req.recs[Len(entries) + 1]
NextCode == First(<<Fails(Next1.alg = "hpke" /\ Next1.kid = "long", "overflow"),
                    WrapCode(Next1),
                    Fails(req.room < 3 + Len(entries), "overflow")>>)

WriteRecipient ==
    /\ pc = "recipients"
    /\ Len(entries) < Len(req.recs)
    /\ \/ /\ NextCode = "ok"
          /\ entries' = Append(entries, EncodeRecipient(req, Next1))
          /\ UNCHANGED <<pc, cek, ret>>
       \/ /\ NextCode # "ok"
          /\ Finish(NextCode)
       \/ /\ Next1.alg \in Kw \cup {"hpke"}
          /\ Finish("crypto")
    /\ UNCHANGED <<wire, origin, req, receiver>>

Send ==
    /\ pc = "recipients"
    /\ Len(entries) = Len(req.recs)
    /\ wire' = Message(req)
    /\ origin' = req
    /\ req' = <<>>
    /\ Finish("ok")
    /\ UNCHANGED receiver

\* A message of another implementation arrives.
Arrive ==
    /\ Idle
    /\ wire = <<>>
    /\ req = <<>>
    /\ wire' \in Peers
    /\ ret' = "ok"
    /\ UNCHANGED <<origin, pc, sender, receiver>>

-----------------------------------------------------------------------------
(* The receiver: the body.                                                 *)

ContentAlg == Merged(wire.prot, wire.unprot)
IsMac      == call.api = "mac"
Content(m, c) == IF m.content = <<"null">> /\ c.detached THEN m.aside ELSE m.content

ReceiveCode(m, c) ==
    First(<<Fails(m.tag \notin {c.api, "none"}, "tag"),
            Fails(m.fields # (IF c.api = "mac" THEN 5 ELSE 4), "malformed"),
            Fails(Labels(m.prot) \cap Labels(m.unprot) # {}, "malformed"),
            Fails(c.api = "encrypt" /\ Merged(m.prot, m.unprot) \notin DOMAIN KeyLen, "alg"),
            Fails(c.api = "encrypt" /\ <<"iv", "ok">> \notin m.prot \cup m.unprot, "hdr"),
            Fails(m.content = <<"null">> /\ ~ c.detached, "detached"),
            Fails(m.content = <<"other">>, "type"),
            Fails(c.index >= m.count, "arg")>>)

Refuse(code) == /\ ret' = code
                /\ pc' = "idle"

\* wc_CoseEncrypt_Decrypt or wc_CoseMac_Verify is called.
Receive ==
    /\ Idle
    /\ wire # <<>>
    /\ call = <<>>
    /\ \E c \in Calls :
          /\ call' = c
          /\ IF ReceiveCode(wire, c) # "ok" THEN Refuse(ReceiveCode(wire, c))
             ELSE /\ pc' = IF c.index = 0 THEN "read" ELSE "skip"
                  /\ ret' = "ok"
    /\ UNCHANGED <<wire, origin, sender, walk, used>>

-----------------------------------------------------------------------------
(* Skipping a recipient with those nested in it.                           *)

AtEnd == at > Len(wire.recs)
Entry == wire.recs[at]

IsBstr(v) == v[1] \in {"bstr", "short", "wrap", "seal"}

\* The algorithm of a recipient that is not read: HPKE may be implied by its key.
SkippedAlg(e) == IF ~ Has(e.prot \cup e.unprot, "alg") /\ Has(e.unprot, "ek") THEN "hpke"
                 ELSE Merged(e.prot, e.unprot)

\* wolfCose_DecodeSkippedHeaderEntry, and the tests of its caller.
SkippedCode(e, depth) ==
    LET direct == Merged(e.prot, e.unprot) = "direct"
    IN  First(<<Fails(e.fields \notin {3, 4}, "malformed"),
                Fails(Has(e.prot, "alg") /\ Has(e.unprot, "alg"), "malformed"),
                Fails(direct /\ e.prot # {}, "hdr"),
                Fails(direct /\ e.value # <<"bstr">>, "hdr"),
                Fails(e.value # <<"null">> /\ ~ IsBstr(e.value), "type"),
                Fails(e.fields = 4 /\ direct, "hdr"),
                Fails(e.fields = 4 /\ e.nested = 0, "malformed"),
                Fails(e.fields = 4 /\ depth >= MaxDepth, "depth")>>)

SkipEntry ==
    /\ pc = "skip"
    /\ remaining > 0
    /\ LET code == IF AtEnd THEN "malformed" ELSE SkippedCode(Entry, Len(stack))
       IN  IF code # "ok"
           THEN Refuse(code) /\ UNCHANGED <<at, remaining, stack, skipped>>
           ELSE /\ at' = at + 1
                /\ skipped' = IF stack = <<>> THEN SkippedAlg(Entry) ELSE skipped
                /\ IF Entry.fields = 4
                   THEN /\ stack' = Append(stack, remaining - 1)
                        /\ remaining' = Entry.nested
                   ELSE /\ remaining' = remaining - 1
                        /\ UNCHANGED stack
                /\ UNCHANGED <<pc, ret>>
    /\ UNCHANGED <<wire, origin, sender, call, mode, recAlg, picked, seen, used>>

\* (slip) the level above is taken for the outermost one
ReturnToFirst ==
    /\ pc = "skip"
    /\ remaining = 0
    /\ stack # <<>>
    /\ remaining' = stack[1]
    /\ stack' = SubSeq(stack, 1, Len(stack) - 1)
    /\ UNCHANGED <<wire, origin, pc, ret, sender, call, at, skipped, mode, recAlg, picked,
                   seen, used>>

\* (slip) the level stays on the stack
ReturnKeepsLevel ==
    /\ pc = "skip"
    /\ remaining = 0
    /\ stack # <<>>
    /\ remaining' = stack[Len(stack)]
    /\ stack' = stack
    /\ UNCHANGED <<wire, origin, pc, ret, sender, call, at, skipped, mode, recAlg, picked,
                   seen, used>>

\* Nothing left at this level: back to the one above.
Return ==
    /\ pc = "skip"
    /\ remaining = 0
    /\ stack # <<>>
    /\ remaining' = stack[Len(stack)]
    /\ stack' = SubSeq(stack, 1, Len(stack) - 1)
    /\ UNCHANGED <<wire, origin, pc, ret, sender, call, at, skipped, mode, recAlg, picked,
                   seen, used>>

\* Where the walk goes when n recipients are behind it.
Toward(n) == IF n = call.index THEN "read"
             ELSE IF n < wire.count THEN "skip" ELSE "key"

Walked(alg) == /\ mode' = Mode(alg)
               /\ seen' = Append(seen, alg)
               /\ pc' = Toward(Len(seen) + 1)
               /\ remaining' = 1

\* The recipient is behind: wolfCose_UpdateRecipientMode.
Skipped ==
    /\ pc = "skip"
    /\ remaining = 0
    /\ stack = <<>>
    /\ IF ModeCode(skipped, mode) # "ok"
       THEN Refuse(ModeCode(skipped, mode)) /\ UNCHANGED <<mode, seen, remaining>>
       ELSE Walked(skipped) /\ UNCHANGED ret
    /\ UNCHANGED <<wire, origin, sender, call, at, stack, skipped, recAlg, picked, used>>

-----------------------------------------------------------------------------
(* Reading the selected recipient.                                         *)

\* HPKE by the protected algorithm, or by the caller's word for it.
IsHpke(e, c) == IF Has(e.prot, "alg") THEN AlgOf(e.prot) = "hpke" ELSE c.policy = "hpke"
IsEcdh(e)    == AlgOf(e.prot) \in Ecdh

\* recipientAlgId before and after the unprotected bucket.
EarlyAlg(e, c) == IF IsHpke(e, c) THEN "hpke" ELSE AlgOf(e.prot)
FinalAlg(e, c) == IF IsHpke(e, c) THEN "hpke"
                  ELSE IF IsEcdh(e) THEN AlgOf(e.prot) ELSE Merged(e.prot, e.unprot)

PolicyCode(c, alg) == Fails(c.policy \notin {"unset", alg}, "alg")

EarlyCode(e, c) ==
    LET alg == EarlyAlg(e, c)
    IN  IF alg = "unset" THEN "ok"
        ELSE First(<<ValidateRecipientKeyAlg(c.key, alg, ContentAlg),
                     Fails(alg \notin Distribution, "alg"),
                     PolicyCode(c, alg),
                     Fails(alg \in Ecdh /\ wire.count # 1, "hdr")>>)

UnprotectedCode(e, c) ==
    First(<<Fails(Labels(e.prot) \cap Labels(e.unprot) # {}, "malformed"),
            Fails(IsEcdh(e) /\ ~ Has(e.unprot, "eph"), "hdr"),
            Fails(IsEcdh(e) /\ c.key.kty # "null" /\ <<"eph", c.key.crv>> \notin e.unprot, "hdr"),
            Fails(IsHpke(e, c) /\ \/ ~ Has(e.prot, "alg") /\ Has(e.unprot, "alg")
                                  \/ Has(e.prot \cup e.unprot, "iv")
                                  \/ <<"ek", "ok">> \notin e.unprot, "hdr")>>)

\* An unprotected content algorithm needs a key pinned to it, or HPKE.
ContentAlgCode(c, alg) ==
    Fails(/\ ~ Has(wire.prot, "alg")
          /\ alg # "hpke"
          /\ alg # "direct" \/ c.key.kty = "null" \/ c.key.alg # ContentAlg, "alg")

\* The third field: a wrapped key, or nothing.
ValueCode(v, alg) ==
    IF alg \in Kw \cup {"hpke"}
    THEN First(<<Fails(~ IsBstr(v), "type"), Fails(v \in {<<"bstr">>, <<"short">>}, "malformed")>>)
    ELSE IF alg = "direct" THEN Fails(v # <<"bstr">>, "hdr")
    ELSE First(<<Fails(v # <<"null">> /\ ~ IsBstr(v), "type"),
                 Fails(v \notin {<<"null">>, <<"bstr">>}, "malformed")>>)

\* The selected recipient in wc_CoseEncrypt_Decrypt.
EncryptRecipientCode(e, c) ==
    LET alg == FinalAlg(e, c)
    IN  First(<<Fails(e.fields # 3, "malformed"),
                Fails(IsHpke(e, c) /\ Has(e.prot, "ek"), "hdr"),
                EarlyCode(e, c),
                UnprotectedCode(e, c),
                ValidateRecipientKeyAlg(c.key, alg, ContentAlg),
                ModeCode(alg, mode),
                Fails(alg = "direct" /\ e.prot # {}, "hdr"),
                Fails(alg \notin Distribution, "alg"),
                Fails(alg \in Kw /\ e.prot # {}, "hdr"),
                Fails(alg \in Ecdh /\ ~ IsEcdh(e), "alg"),
                PolicyCode(c, alg),
                ContentAlgCode(c, alg),
                ValueCode(e.value, alg)>>)

\* And in wc_CoseMac_Verify, which looks at its algorithm later.
MacRecipientCode(e, alg) ==
    First(<<Fails(e.fields # 3, "malformed"),
            Fails(Labels(e.prot) \cap Labels(e.unprot) # {}, "malformed"),
            ModeCode(alg, mode),
            Fails(alg = "direct" /\ e.prot # {}, "hdr"),
            Fails(alg = "direct" /\ e.value # <<"bstr">>, "hdr"),
            Fails(e.value # <<"null">> /\ ~ IsBstr(e.value), "type")>>)

Read ==
    /\ pc = "read"
    /\ LET alg  == IF AtEnd THEN "unset" ELSE IF IsMac THEN Merged(Entry.prot, Entry.unprot)
                   ELSE FinalAlg(Entry, call)
           code == IF AtEnd THEN "malformed" ELSE IF IsMac THEN MacRecipientCode(Entry, alg)
                   ELSE EncryptRecipientCode(Entry, call)
       IN  IF code # "ok"
           THEN Refuse(code) /\ UNCHANGED <<at, remaining, mode, seen, recAlg, picked>>
           ELSE /\ recAlg' = alg
                /\ picked' = at
                /\ at' = at + 1
                /\ Walked(alg)
                /\ UNCHANGED ret
    /\ UNCHANGED <<wire, origin, sender, call, stack, skipped, used>>

-----------------------------------------------------------------------------
(* Using the key, once the whole message is behind.                        *)

Picked == wire.recs[picked]

\* What is checked before the key is used, in each mode.
KeyCode ==
    LET key == call.key
        v   == Picked.value
    IN  CASE recAlg = "hpke" ->
                 First(<<Fails(v[1] # "seal" \/ v[4] # <<"random", KeyLen[ContentAlg]>>, "hdr"),
                         Fails(~ IsHpke(Picked, call), "arg"),
                         Hpke0ValidateKey(key, TRUE)>>)
          [] recAlg \in Ecdh -> Fails(key.kty # "ec2" \/ ~ key.private, "key")
          [] recAlg \in Kw -> KwKeyCode(key, recAlg)
          [] OTHER -> Fails(key.kty # "symm" \/ key.size # KeyLen[ContentAlg], "key")

\* What comes of it: the content key, or a refusal.
UnwrapCode ==
    LET v == Picked.value
    IN  CASE recAlg = "hpke" ->
                 Fails(v[2] # call.key.id \/ v[3] # <<ContentAlg, Picked.prot>>, "decrypt")
          [] recAlg \in Kw ->
                 First(<<Fails(v[1] # "wrap" \/ v[2] # call.key.id, "crypto"),
                         Fails(v[1] = "wrap" /\ v[3] # <<"random", KeyLen[ContentAlg]>>, "key")>>)
          [] OTHER -> "ok"

DecKey == CASE recAlg = "hpke"    -> Picked.value[4]
            [] recAlg \in Ecdh    -> Agreed(call.key, recAlg, ContentAlg, Picked.prot)
            [] recAlg \in Kw      -> Picked.value[3]
            [] OTHER              -> Held(call.key)

ContentCode(room) ==
    LET ct == Content(wire, call)
    IN  First(<<Fails(ct = <<"short">>, "malformed"), Fails(~ room, "overflow"),
                Fails(ct # <<"sealed", DecKey, ContentAlg, wire.prot>>, "decrypt")>>)

\* wc_CoseEncrypt_Decrypt, from the trailing bytes to the plaintext.
Decrypt ==
    /\ pc = "key"
    /\ ~ IsMac
    /\ \E room \in BOOLEAN : \* plaintextSz is large enough
          LET early == IF ~ AtEnd THEN "malformed" ELSE KeyCode
          IN  /\ used' = IF early = "ok" THEN KeyAlg(recAlg, ContentAlg) ELSE "none"
              /\ Refuse(IF early # "ok" THEN early
                        ELSE IF UnwrapCode # "ok" THEN UnwrapCode ELSE ContentCode(room))
    /\ UNCHANGED <<wire, origin, sender, call, walk>>

\* wc_CoseMac_Verify, from the trailing bytes to the tag.
MacKeyCode ==
    LET key == call.key
    IN  First(<<Fails(~ AtEnd, "malformed"),
                Fails(key.kty # "symm", "key"),
                Fails(key.alg = "unset" /\ ~ Has(wire.prot, "alg"), "alg"),
                Fails(~ PinnedTo(key, ContentAlg), "alg"),
                Fails(recAlg # "direct", "unsupported"),
                PolicyCode(call, recAlg),
                Fails(ContentAlg \notin DOMAIN MacKeySizes, "alg"),
                IF ContentAlg \in DOMAIN MacKeySizes
                THEN Fails(key.size \notin MacKeySizes[ContentAlg], "key") ELSE "ok">>)

Verify ==
    /\ pc = "key"
    /\ IsMac
    /\ used' = IF MacKeyCode = "ok" THEN ContentAlg ELSE "none"
    /\ Refuse(IF MacKeyCode # "ok" THEN MacKeyCode
              ELSE Fails(wire.mac # <<Held(call.key), ContentAlg, wire.prot,
                                      Content(wire, call)>>, "mac"))
    /\ UNCHANGED <<wire, origin, sender, call, walk>>

\* The application takes the result; a message stays for another recipient or goes.
\* Nothing else is left: the library keeps no state between calls.
Collect ==
    /\ Idle
    /\ call # <<>> \/ req # <<>>
    /\ \/ UNCHANGED <<wire, origin>>
       \/ wire # <<>> /\ wire' = <<>> /\ origin' = <<>>
    /\ ret' = "ok"
    /\ req' = <<>>    /\ call' = <<>>    /\ used' = "none"
    /\ at' = 1        /\ remaining' = 1  /\ stack' = <<>>  /\ skipped' = "unset"
    /\ mode' = "none" /\ recAlg' = "unset" /\ picked' = 0  /\ seen' = <<>>
    /\ UNCHANGED <<pc, cek, entries>>

-----------------------------------------------------------------------------
Init ==
    /\ wire = <<>>  /\ origin = <<>>
    /\ pc = "idle"  /\ ret = "ok"
    /\ req = <<>>   /\ cek = <<>>   /\ entries = <<>>
    /\ call = <<>>  /\ used = "none"
    /\ at = 1       /\ remaining = 1  /\ stack = <<>>  /\ skipped = "unset"
    /\ mode = "none" /\ recAlg = "unset" /\ picked = 0 /\ seen = <<>>

Sending   == Start \/ ObtainCek \/ WriteBody \/ WriteRecipient \/ Send
Receiving == Receive \/ SkipEntry \/ Return \/ Skipped \/ Read \/ Decrypt \/ Verify
             \/ Collect
Next      == Sending \/ Arrive \/ Receiving

\* A call that has begun goes on: the library never waits.
Going == ObtainCek \/ WriteBody \/ WriteRecipient \/ Send
         \/ SkipEntry \/ Return \/ Skipped \/ Read \/ Decrypt \/ Verify

Spec == Init /\ [][Next]_vars /\ WF_vars(Going)

-----------------------------------------------------------------------------
(* Properties.                                                             *)

\* Every variable keeps its shape, the walk stays within the message and its stack
\* within WOLFCOSE_CBOR_MAX_DEPTH (the array "stack" of wolfCose_DecodeSkippedRecipient).
TypeOK ==
    /\ pc \in {"idle", "cek", "body", "recipients", "skip", "read", "key"}
    /\ remaining \in Nat
    /\ stack \in Seq(Nat) /\ Len(stack) <= MaxDepth
    /\ at \in Nat \ {0} /\ picked \in Nat /\ picked < at
    /\ mode \in {"none", "encryption", "agreement", "transport"}
    /\ call # <<>> => call \in Calls
    /\ pc \in {"skip", "read", "key"} => call # <<>> /\ wire # <<>> /\ call.index < wire.count

\* So many recipients are left to read, and the first of them starts there.
Spot == [left : Nat, from : Nat]

\* The first recipient with what is inside it, then the rest.
TreesFrom(recs, end, s) ==
    LET inside == IF recs[s.from].fields = 4 THEN recs[s.from].nested ELSE 0
        first  == end[[left |-> inside, from |-> s.from + 1]]
    IN  IF s.left = 0 \/ s.from = 0 THEN s.from
        ELSE IF s.from > Len(recs) THEN 0
        ELSE end[[left |-> s.left - 1, from |-> first]]

\* Where n recipients end, with those nested in them, if the first starts at p; 0
\* if the message ends first.
TreesEnd(recs, n, p) ==
    LET end[s \in Spot] == TreesFrom(recs, end, s)
    IN  end[[left |-> n, from |-> p]]

\* The receiver's key is not used before the whole message was walked: the entry
\* read is the recipient asked for, the walk stepped over exactly the recipients
\* nested in the others, it saw the algorithm of each, and nothing follows the last
\* one (recipientIndex and the two loops over wolfCose_DecodeSkippedRecipient).
WalkFollowsMessage ==
    used # "none" =>
        /\ picked = TreesEnd(wire.recs, call.index, 1)
        /\ TreesEnd(wire.recs, wire.count, 1) = Len(wire.recs) + 1
        /\ seen = [k \in 1 .. wire.count |->
                      SkippedAlg(wire.recs[TreesEnd(wire.recs, k - 1, 1)])]

\* Nor before every recipient is known to share one key management mode, with a
\* key agreement alone in its message (wolfCose_UpdateRecipientMode).
ModesNeverMixed ==
    used # "none" =>
        /\ Len(seen) = wire.count
        /\ \A j, k \in 1 .. Len(seen) : Mode(seen[j]) = Mode(seen[k])
        /\ \A j \in 1 .. Len(seen) : Mode(seen[j]) = "agreement" => Len(seen) = 1

\* A key made for one algorithm is used with no other, whether it unwraps, agrees
\* or opens the content itself, and the caller's recipient->algId is respected
\* (wolfCose_ValidateRecipientKeyAlg, called before and after the unprotected bucket).
KeyUsedAsPinned ==
    used # "none" => /\ call.key.alg \in {"unset", used}
                     /\ call.policy \in {"unset", recAlg}

\* A content algorithm that only the unprotected bucket names is believed when the
\* receiver's direct key is pinned to it, or HPKE authenticates it (bodyAlgProtected).
ContentAlgVouched ==
    used # "none" => \/ Has(wire.prot, "alg")
                     \/ recAlg = "hpke"
                     \/ recAlg = "direct" /\ call.key.alg = ContentAlg

\* A receiver uses its key in one mode, for what it was made for and, with what the
\* message says unprotected, for no more than somebody vouches for.
KeyUse == ModesNeverMixed /\ KeyUsedAsPinned /\ ContentAlgVouched

\* The call of somebody the request of the sender was for.
Addressed(q, c) ==
    /\ c.api = q.kind
    /\ c.index < Len(q.recs)
    /\ LET r == q.recs[c.index + 1]
       IN  /\ c.policy \in {"unset", r.alg}
           /\ c.key.id = (IF r.alg = "direct" THEN FirstKey(q) ELSE r.key).id
           /\ c.key.private
           /\ PinnedTo(c.key, KeyAlg(r.alg, q.alg))
    /\ "detached" \in q.payload => c.detached

\* Whatever wc_CoseEncrypt_Encrypt or wc_CoseMac_Create returned as a message, each
\* of its recipients can read: what one side writes, in which bucket and under
\* which key, is what the other side insists on.
EveryRecipientReads ==
    /\ Idle
    /\ call # <<>>
    /\ origin # <<>>
    => (Addressed(origin, call) => ret \in {"ok", "overflow"})

\* No recipient is refused once there is a content key, let alone once some of the
\* message is written: what can still fail is the room, the backend or a detached
\* content.
NoLateRefusal ==
    [][(pc \in {"cek", "body", "recipients"} /\ pc' = "idle")
       => ret' \in {"ok", "overflow", "crypto", "unsupported"}]_vars

\* Every call returns: the explicit stack is unwound, whatever counts a message claims.
CallsEnd == pc # "idle" ~> pc = "idle"

=============================================================================
