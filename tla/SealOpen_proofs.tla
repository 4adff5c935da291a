--------------------------- MODULE SealOpen_proofs ---------------------------
(***************************************************************************)
(* For any keys, requests, calls and messages: an application is given     *)
(* nothing or what a holder of the key sealed, under an algorithm that     *)
(* somebody vouches for, no call leaves behind what it should not, and     *)
(* what is created here is accepted here.                                  *)
(***************************************************************************)
EXTENDS SealOpen, Checks_proofs

-----------------------------------------------------------------------------
(* Sets that stand for one thing or nothing.                               *)

LEMMA TheOne == ASSUME NEW x PROVE The({x}) = x
BY DEF The

LEMMA TheOf ==
    ASSUME NEW S, AtMostOne(S), NEW x \in S
    PROVE  The(S) = x
BY DEF The, AtMostOne

LEMMA OneOf ==
    ASSUME NEW S, AtMostOne(S), S # {}
    PROVE  S = {The(S)}
BY DEF The, AtMostOne

-----------------------------------------------------------------------------
(* What the lists of checks establish.                                     *)

\* The key is pinned to the algorithm or the algorithm is protected.
LEMMA PolicyOk ==
    ASSUME NEW key, NEW prot, NEW alg, PolicyCode(key, prot, alg) = "ok"
    PROVE  key.alg = alg \/ Has(prot, "alg")
<1>1. /\ Fails(key.alg \notin {"unset", alg}, "alg") = "ok"
      /\ Fails(key.alg = "unset" /\ ~ Has(prot, "alg"), "alg") = "ok"
  BY PairOf DEF PolicyCode
<1> QED BY <1>1 DEF Fails

\* Where no label comes twice, the algorithm is that of the protected bucket.
LEMMA AlgIn ==
    ASSUME NEW prot, NEW unprot, LabelsOnce(prot \cup unprot), Has(prot, "alg")
    PROVE  <<"alg", AlgOf(prot, unprot)>> \in prot
<1>1. PICK p \in prot : p[1] = "alg"
  BY DEF Has
<1> DEFINE r == CHOOSE x \in prot \cup unprot : x[1] = "alg"
<1>2. r \in prot \cup unprot /\ r[1] = "alg"
  BY <1>1
<1>3. Has(prot \cup unprot, "alg")
  BY <1>1 DEF Has
<1>4. AlgOf(prot, unprot) = r[2]
  BY <1>3 DEF AlgOf, Value
<1> HIDE DEF r
<1>5. p = r /\ p = <<p[1], p[2]>>
  BY <1>1, <1>2 DEF LabelsOnce
<1> QED BY <1>1, <1>4, <1>5

\* A list of codes given by a formula.
LEMMA ListPasses ==
    ASSUME NEW n \in Nat, NEW f, f = [k \in 1 .. n |-> f[k]], First(f) = "ok"
    PROVE  \A k \in 1 .. n : f[k] = "ok"
<1>1. f \in Seq({f[k] : k \in 1 .. n}) /\ Len(f) = n
  <2> DEFINE S == {f[k] : k \in 1 .. n}
  <2>1. f \in [1 .. n -> S]
    OBVIOUS
  <2> HIDE DEF S
  <2>2. f \in Seq(S)
    BY <2>1, SeqDef
  <2>3. Len(f) = n
    BY <2>1, <2>2, LenProperties
  <2> QED BY <2>2, <2>3 DEF S
<1> QED BY <1>1, AllPass

LEMMA EntryCodesOk ==
    ASSUME NEW m, IsMessage(m), NEW ks, EntryCodes(m, ks) = "ok"
    PROVE  \A k \in ks \cap (1 .. Len(m.entries)) : EntryCode(m.entries[k]) = "ok"
<1> DEFINE f == [k \in 1 .. Len(m.entries) |-> IF k \in ks THEN EntryCode(m.entries[k]) ELSE "ok"]
           n == Len(m.entries)
<1>1. n \in Nat
  BY DEF IsMessage
<1>2. First(f) = "ok" /\ f = [k \in 1 .. n |-> f[k]]
  BY DEF EntryCodes
<1>3. \A k \in 1 .. n : f[k] = "ok"
  <2> HIDE DEF f, n
  <2> QED BY <1>1, <1>2, ListPasses
<1> QED BY <1>3

\* The signer asked for is there, its key policy holds and every entry is whole.
LEMMA SignersOk ==
    ASSUME NEW c, c.index \in Nat, NEW m, IsMessage(m), SignersCode(c, m) = "ok"
    PROVE  /\ c.index + 1 \in DOMAIN m.entries
           /\ PolicyCode(c.key, Signer(c, m).prot, AlgOf(Signer(c, m).prot, Signer(c, m).unprot)) = "ok"
           /\ \A k \in DOMAIN m.entries : EntryCode(m.entries[k]) = "ok"
<1> DEFINE n == Len(m.entries)
           e == Signer(c, m)
<1>1. n \in Nat /\ DOMAIN m.entries = 1 .. n
  BY DEF IsMessage
<1>2. ~ (c.index >= n)
  BY DEF SignersCode
<1>3. First(<<EntryCodes(m, 1 .. c.index + 1), PolicyCode(c.key, e.prot, AlgOf(e.prot, e.unprot)),
              EntryCodes(m, c.index + 2 .. n)>>) = "ok"
  BY <1>2 DEF SignersCode, Signer
<1>4. /\ EntryCodes(m, 1 .. c.index + 1) = "ok"
      /\ PolicyCode(c.key, e.prot, AlgOf(e.prot, e.unprot)) = "ok"
      /\ EntryCodes(m, c.index + 2 .. n) = "ok"
  BY <1>3, TripleOf
<1>5. \A k \in 1 .. n : k \in 1 .. c.index + 1 \/ k \in c.index + 2 .. n
  BY <1>1, <1>2
<1>6. \A k \in 1 .. n : EntryCode(m.entries[k]) = "ok"
  BY <1>4, <1>5, EntryCodesOk
<1> QED BY <1>1, <1>2, <1>4, <1>6

LEMMA ReadOk ==
    ASSUME NEW c \in Calls, NEW m, IsMessage(m), ReadCode(c, m) = "ok"
    PROVE  /\ m.tag \in {"none", Type(c.api)} /\ m.count = Fields(c.api) /\ m.hdrs = "ok"
           /\ c.api = "hpke" => HpkeHdrCode(m) = "ok"
           /\ Carried(c, m) # {}
           /\ c.api = "sign" => SignersCode(c, m) = "ok"
           /\ c.api \in {"sign1", "mac0"} => m.last = "bstr"
           /\ ~ m.trailing
<1> DEFINE fourth == CASE c.api = "sign"              -> SignersCode(c, m)
                       [] c.api \in {"sign1", "mac0"} -> Fails(m.last # "bstr", "type")
                       [] OTHER                       -> "ok"
<1>1. /\ Fails(m.tag \notin {"none", Type(c.api)}, "tag") = "ok"
      /\ Fails(m.count # Fields(c.api), "malformed") = "ok"
      /\ Fails(m.hdrs # "ok", "hdr") = "ok"
      /\ (IF c.api = "hpke" THEN HpkeHdrCode(m) ELSE "ok") = "ok"
      /\ DetachedCode(c, m) = "ok"
      /\ fourth = "ok"
      /\ Fails(m.trailing, "malformed") = "ok"
  <2> HIDE DEF fourth
  <2>1. First(<<Fails(m.tag \notin {"none", Type(c.api)}, "tag"),
            Fails(m.count # Fields(c.api), "malformed"),
            Fails(m.hdrs # "ok", "hdr"),
            IF c.api = "hpke" THEN HpkeHdrCode(m) ELSE "ok",
            DetachedCode(c, m), fourth,
            Fails(m.trailing, "malformed")>>) = "ok"
    BY DEF ReadCode, fourth
  <2> QED BY <2>1, SevenOf
<1>2. Carried(c, m) # {}
  BY <1>1 DEF DetachedCode, Carried, Fails, Null
<1>3. c.api = "sign" => SignersCode(c, m) = "ok"
  BY <1>1
<1>4. c.api \in {"sign1", "mac0"} => m.last = "bstr"
  BY <1>1 DEF Fails
<1> QED BY <1>1, <1>2, <1>3, <1>4 DEF Fails

\* Every entry of a message that is read is whole.
LEMMA WholeMessage ==
    ASSUME NEW c \in Calls, NEW m, IsMessage(m), ReadCode(c, m) = "ok"
    PROVE  \A k \in DOMAIN m.entries : EntryCode(m.entries[k]) = "ok"
<1>1. c.index \in Nat /\ c.api \in {"sign1", "sign", "mac0", "enc0", "hpke"}
  BY CallsAssumption
<1>2. CASE c.api = "sign"
  BY <1>1, <1>2, ReadOk, SignersOk
<1>3. CASE c.api # "sign"
  <2>1. m.last = "bstr" \/ m.count = 3
    BY <1>1, <1>3, ReadOk DEF Fields, Opens
  <2>2. m.entries = <<>>
    BY <2>1 DEF IsMessage
  <2>3. DOMAIN m.entries = 1 .. Len(m.entries) /\ Len(m.entries) = 0
    BY <2>2 DEF IsMessage
  <2> QED BY <2>3
<1> QED BY <1>2, <1>3

\* HPKE's algorithm is protected or nowhere.
LEMMA HpkeHdrOk ==
    ASSUME NEW m, HpkeHdrCode(m) = "ok"
    PROVE  ~ Has(m.unprot, "alg")
BY DEF HpkeHdrCode, Fails

LEMMA JudgeOk ==
    ASSUME NEW c \in Calls, NEW m, JudgeCode(c, m) = "ok"
    PROVE  /\ c.api \in {"sign1", "mac0", "enc0"} => PolicyCode(c.key, m.prot, UsedAlg(c, m)) = "ok"
           /\ c.api = "enc0" =>
                /\ UsedAlg(c, m) \in DOMAIN AeadKeyLen
                /\ ~ (The(Carried(c, m)).len - AeadTagLen[UsedAlg(c, m)] > c.room)
           /\ c.api = "hpke" => ~ (The(Carried(c, m)).len - HpkeTagLen > c.room)
<1> DEFINE alg == UsedAlg(c, m)
           len == The(Carried(c, m)).len
<1>1. CASE c.api = "sign1"
  <2>1. JudgeSign1(c, m) = "ok"
    BY <1>1 DEF JudgeCode
  <2> QED BY <1>1, <2>1, FourOf DEF JudgeSign1
<1>2. CASE c.api = "mac0"
  <2>1. JudgeMac0(c, m) = "ok"
    BY <1>2 DEF JudgeCode
  <2> QED BY <1>2, <2>1, FourOf DEF JudgeMac0
<1>3. CASE c.api = "enc0"
  <2>1. JudgeEncrypt0(c, m) = "ok"
    BY <1>3 DEF JudgeCode
  <2> DEFINE iv == {b \in {p[2] : p \in {q \in m.prot \cup m.unprot : q[1] = "iv"}} : b.len > 0}
             five == First(<<Fails(len < AeadTagLen[alg], "malformed"),
                             Fails(c.key.len # AeadKeyLen[alg], "key"),
                             Fails(len - AeadTagLen[alg] > AeadLimit[alg], "malformed"),
                             Fails(len - AeadTagLen[alg] > c.room, "buffer"),
                             Fails(iv = {} \/ The(iv).len # NonceLen[alg], "hdr")>>)
             mid == IF alg \notin DOMAIN AeadKeyLen THEN "alg" ELSE five
  <2>2. First(<<PolicyCode(c.key, m.prot, alg), mid, ScratchCode(c)>>) = "ok"
    BY <2>1 DEF JudgeEncrypt0
  <2> HIDE DEF mid
  <2>3. PolicyCode(c.key, m.prot, alg) = "ok" /\ mid = "ok"
    BY <2>2, TripleOf
  <2> HIDE DEF five
  <2>4. alg \in DOMAIN AeadKeyLen /\ five = "ok"
    BY <2>3 DEF mid
  <2> HIDE DEF iv, alg, len
  <2>5. Fails(len - AeadTagLen[alg] > c.room, "buffer") = "ok"
    BY <2>4, FiveOf DEF five
  <2> QED BY <1>3, <2>3, <2>4, <2>5 DEF Fails, alg, len
<1>4. CASE c.api = "hpke"
  <2>1. JudgeHpke(c, m) = "ok"
    BY <1>4 DEF JudgeCode
  <2>2. Fails(len - HpkeTagLen > c.room, "buffer") = "ok"
    BY <2>1, FourOf DEF JudgeHpke
  <2> QED BY <1>4, <2>2 DEF Fails
<1>5. CASE c.api = "sign"
  BY <1>5
<1> QED BY <1>1, <1>2, <1>3, <1>4, <1>5, CallsAssumption

\* What the checks of a sender find.
LEMMA MacAsked ==
    ASSUME NEW q \in Requests, q.api = "mac0", SenderCode(q) = "ok"
    PROVE  /\ q.payload = {} <=> q.apart # {}
           /\ q.key.kty = "symm"
           /\ q.alg \in DOMAIN MacTag
           /\ q.alg \in DOMAIN MacKeyLen => q.key.len \in MacKeyLen[q.alg]
<1> DEFINE one   == Fails((q.payload = Null) = (q.apart = Null), "arg")
           two   == Fails(q.key.kty # "symm", "key")
           three == Fails(q.alg \notin DOMAIN MacTag, "alg")
           four  == Fails(q.alg \in DOMAIN MacKeyLen /\ q.key.len \notin MacKeyLen[q.alg], "key")
           s == <<Fails(q.null, "arg"), one, Fails(q.kid = "half", "arg"), two,
                  Fails(q.key.alg \notin {"unset", q.alg}, "alg"), three,
                  Fails(~ q.scratch, "buffer"), four>>
<1>1. First(s) = "ok"
  <2>1. CreateCode(q) = "ok"
    BY DEF SenderCode
  <2> QED BY <2>1 DEF CreateCode
<1> HIDE DEF one, two, three, four
<1>2. Len(s) = 8 /\ s[2] = one /\ s[4] = two /\ s[6] = three /\ s[8] = four
  OBVIOUS
<1> HIDE DEF s
<1>3. \A k \in 1 .. Len(s) : s[k] = "ok"
  <2>1. Len(s) \in Nat
    BY <1>2
  <2> QED BY <1>1, <2>1, AllPass
<1>4. one = "ok" /\ two = "ok" /\ three = "ok" /\ four = "ok"
  BY <1>2, <1>3
<1>5. q.payload = {} <=> q.apart # {}
  BY <1>4 DEF one, Fails, Null
<1>6. q.key.kty = "symm" /\ q.alg \in DOMAIN MacTag
  BY <1>4 DEF two, three, Fails
<1>7. q.alg \in DOMAIN MacKeyLen => q.key.len \in MacKeyLen[q.alg]
  BY <1>4 DEF four, Fails
<1> QED BY <1>5, <1>6, <1>7

LEMMA EncAsked ==
    ASSUME NEW q \in Requests, q.api = "enc0", SenderCode(q) = "ok"
    PROVE  /\ q.payload # {}
           /\ q.key.kty = "symm"
           /\ q.alg \in DOMAIN AeadKeyLen
           /\ q.key.len = AeadKeyLen[q.alg]
           /\ ~ (The(q.payload).len > AeadLimit[q.alg])
           /\ q.iv.len = NonceLen[q.alg]
<1> DEFINE a == Fails(q.key.len # AeadKeyLen[q.alg], "key")
           b == Fails(The(q.payload).len > AeadLimit[q.alg], "arg")
           d == Fails(q.iv.len # NonceLen[q.alg], "arg")
           inner == First(<<a, b, ApartCode(q, AeadTagLen[q.alg]), d>>)
           mid == IF q.alg \notin DOMAIN AeadKeyLen THEN "alg" ELSE inner
           two == Fails(q.key.kty # "symm", "key")
<1>1. First(<<Fails(q.null \/ q.payload = Null, "arg"), two,
              Fails(q.key.alg \notin {"unset", q.alg}, "alg"), mid,
              Fails(~ q.scratch, "buffer")>>) = "ok"
  <2>1. EncryptCode(q) = "ok"
    BY DEF SenderCode
  <2> QED BY <2>1, Zenon DEF EncryptCode
<1> HIDE DEF mid, two
<1>2. Fails(q.null \/ q.payload = Null, "arg") = "ok" /\ mid = "ok" /\ two = "ok"
  BY <1>1, FiveOf
<1> HIDE DEF inner
<1>3. inner = "ok" /\ q.alg \in DOMAIN AeadKeyLen
  BY <1>2 DEF mid
<1> HIDE DEF a, b, d
<1>4. a = "ok" /\ b = "ok" /\ d = "ok"
  BY <1>3, FourOf DEF inner
<1>5. q.payload # {} /\ q.key.kty = "symm"
  BY <1>2 DEF two, Fails, Null
<1>6. q.key.len = AeadKeyLen[q.alg]
  BY <1>4 DEF a, Fails
<1>7. ~ (The(q.payload).len > AeadLimit[q.alg])
  BY <1>4 DEF b, Fails
<1>8. q.iv.len = NonceLen[q.alg]
  BY <1>4 DEF d, Fails
<1> QED BY <1>3, <1>5, <1>6, <1>7, <1>8

\* A sender that goes on has content.
LEMMA SenderOk ==
    ASSUME NEW q \in Requests, SenderCode(q) = "ok"
    PROVE  /\ q.payload \cup q.apart # {}
           /\ q.api = "mac0" => (q.payload = {} \/ q.apart = {})
           /\ Opens(q.api) => q.payload # {}
           /\ q.api = "enc0" => q.alg \in DOMAIN AeadKeyLen
<1>1. CASE q.api = "mac0"
  BY <1>1, MacAsked DEF Opens
<1>2. CASE q.api = "enc0"
  BY <1>2, EncAsked DEF Opens
<1>3. CASE q.api = "hpke"
  <2>1. HpkeCode(q) = "ok"
    BY <1>3 DEF SenderCode
  <2>2. Fails(q.null \/ q.payload = Null \/ q.kid = "half", "arg") = "ok"
    BY <2>1, FourOf DEF HpkeCode
  <2> QED BY <1>3, <2>2 DEF Fails, Null
<1> QED BY <1>1, <1>2, <1>3, RequestsAssumption

-----------------------------------------------------------------------------
(* The inductive invariant.                                                *)

Sending   == pc \in {"encode", "head", "encrypt", "null", "finish"}
Receiving == pc \in {"read", "judge", "open", "return"}

Shape ==
    /\ out = [msg |-> out.msg, partial |-> out.partial, len |-> out.len, apart |-> out.apart,
              apartLen |-> out.apartLen]
    /\ got = [payload |-> got.payload, hdr |-> got.hdr, plain |-> got.plain,
              plainLen |-> got.plainLen]

Typed ==
    /\ pc \in {"idle", "encode", "head", "encrypt", "null", "finish",
               "read", "judge", "open", "return"}
    /\ req \subseteq Requests /\ call \subseteq Calls /\ origin \subseteq Requests
    /\ req = {} \/ call = {}
    /\ Sending => \E q \in Requests : req = {q}
    /\ Receiving => \E c \in Calls : call = {c}
    /\ fault \in BOOLEAN /\ out.partial \in BOOLEAN
    /\ out.apartLen \in Nat /\ got.plainLen \in Nat
    /\ scratch \in {"zero", "used"}
    /\ PeerFacts \subseteq sealed /\ sealed \subseteq Facts
    /\ Shape

\* A message of well-formed parts whose seals somebody made.
Sent(m) == IsMessage(m) /\ \A s \in Seals(m) : FactOf(s) \in sealed

\* What a sender has found and done so far.
Writing ==
    /\ \A m \in out.msg : Sent(m)
    /\ \A q \in req :
          /\ pc = "encode" => q.api = "mac0"
          /\ pc \in {"head", "encrypt", "null"} => Opens(q.api)
          /\ pc = "null" => Detached(q)
          /\ Sending /\ (pc = "finish" => ret = "ok") => SenderCode(q) = "ok"
          /\ /\ Opens(q.api) /\ Detached(q)
             /\ (pc = "null" /\ q.api = "enc0") \/ (pc = "finish" /\ ret = "ok")
             => out.apart = {Ciphertext(q)}

\* The algorithm a receiver uses, by what the message says.
ReadAlg(c, m) == CASE c.api = "sign" -> AlgOf(Signer(c, m).prot, Signer(c, m).unprot)
                   [] c.api = "hpke" -> "hpke0"
                   [] OTHER          -> AlgOf(m.prot, m.unprot)

Judged(c, m) ==
    /\ c.api \in {"sign1", "mac0", "enc0"} => c.key.alg = ReadAlg(c, m) \/ Has(m.prot, "alg")
    /\ c.api = "enc0" => /\ ReadAlg(c, m) \in DOMAIN AeadKeyLen
                         /\ ~ (The(Carried(c, m)).len - AeadTagLen[ReadAlg(c, m)] > c.room)
    /\ c.api = "hpke" => ~ (The(Carried(c, m)).len - HpkeTagLen > c.room)

ExpectedSeal(c, m, content) ==
    Seal(c.api, c.key, ReadAlg(c, m), m.prot, IF c.api = "sign" THEN {Signer(c, m).prot} ELSE Null,
         c.aad, content, NonceOf(c, m))

Opened(c, m) ==
    \E s \in SealedBytes(c, m).seal :
       s = ExpectedSeal(c, m, IF Opens(c.api) THEN s.content ELSE The(Carried(c, m)))

\* What a receiver has found and done so far.
Reading ==
    /\ Sent(wire)
    /\ pc = "read" => got.hdr = NoHdr
    /\ \A c \in call :
          /\ pc \in {"judge", "open"} \/ (pc = "return" /\ ret = "ok") =>
                ReadCode(c, wire) = "ok" /\ got.hdr = HeaderRead(NoHdr, wire)
          /\ pc = "open" \/ (pc = "return" /\ ret = "ok") => Judged(c, wire)
          /\ pc = "return" /\ ret = "ok" =>
                /\ Opened(c, wire)
                /\ Opens(c.api) => got.plain = {(The(SealedBytes(c, wire).seal)).content}

\* What an application sees between two calls.
AtRest ==
    /\ Idle /\ ret = "ok" => \A c \in call : Opens(c.api) => The(got.plain).len <= c.room
    /\ NothingLeftBehind
    /\ NoPartialMessage
    /\ AlgIsVouchedFor
    /\ OutputsTellMessage
    /\ PassesWholeMessages
    /\ Given \subseteq sealed

Inv == Typed /\ Writing /\ Reading /\ AtRest

-----------------------------------------------------------------------------
(* Facts on single states.                                                 *)

\* While a call runs there is nothing to show.
LEMMA AwayFromRest == pc # "idle" => AtRest
BY DEF AtRest, NothingLeftBehind, NoPartialMessage, AlgIsVouchedFor, OutputsTellMessage,
       PassesWholeMessages, Given, Idle

LEMMA AwayFromRestNext == pc' # "idle" => AtRest'
BY DEF AtRest, NothingLeftBehind, NoPartialMessage, AlgIsVouchedFor, OutputsTellMessage,
       PassesWholeMessages, Given, Idle

LEMMA UsedIsRead ==
    ASSUME NEW c, got.hdr = HeaderRead(NoHdr, wire)
    PROVE  UsedAlg(c, wire) = ReadAlg(c, wire)
BY DEF UsedAlg, ReadAlg, HeaderRead, NoHdr, AlgOf

\* The fact of the seal a receiver expects.
LEMMA ExpectedFact ==
    ASSUME NEW c \in Calls, NEW m, NEW content
    PROVE  FactOf(ExpectedSeal(c, m, content)) =
             [kind |-> Type(c.api), key |-> c.key.id, alg |-> ReadAlg(c, m), aad |-> c.aad,
              payload |-> content]
BY CallsAssumption DEF FactOf, ExpectedSeal, Seal, KindOf, Context, Type

LEMMA SealFact ==
    ASSUME NEW q \in Requests
    PROVE  /\ FactOf(SealFor(q)) = RequestFact(q)
           /\ SealFor(q).ctx = Context[q.api] /\ SealFor(q).alg = q.alg
           /\ SealFor(q).content = Content(q)
BY RequestsAssumption DEF FactOf, SealFor, Seal, KindOf, Context, Type, RequestFact

\* The bytes a receiver opens carry one of the message's seals, if any.
LEMMA SealedBytesOk ==
    ASSUME NEW c \in Calls, NEW m, IsMessage(m), ReadCode(c, m) = "ok"
    PROVE  /\ SealedBytes(c, m).seal \subseteq Seals(m)
           /\ AtMostOne(SealedBytes(c, m).seal)
           /\ Opens(c.api) /\ SealedBytes(c, m).seal # {} =>
                Carried(c, m) \subseteq m.body \cup m.aside
<1>1. CASE Opens(c.api)
  <2>1. Carried(c, m) # {}
    BY ReadOk
  <2>2. CASE m.body = {} /\ c.detached = "other"
    <3>1. Carried(c, m) = {Bytes("other", 20, Null)}
      BY <2>2 DEF Carried, Supplied, Null
    <3>2. SealedBytes(c, m) = Bytes("other", 20, Null)
      BY <1>1, <3>1, TheOne DEF SealedBytes
    <3>3. SealedBytes(c, m).seal = {}
      BY <3>2 DEF Bytes, Null
    <3> QED BY <3>3 DEF AtMostOne
  <2>3. CASE ~ (m.body = {} /\ c.detached = "other")
    <3>1. Carried(c, m) = m.body \/ Carried(c, m) = m.aside
      BY <2>1, <2>3, CallsAssumption DEF Carried, Supplied, Null
    <3>2. The(Carried(c, m)) \in Carried(c, m)
      BY <2>1 DEF The
    <3>3. /\ SealedBytes(c, m) = The(Carried(c, m))
          /\ SealedBytes(c, m) \in m.body \cup m.aside
      BY <1>1, <3>1, <3>2 DEF SealedBytes
    <3>4. SealedBytes(c, m).seal \subseteq Seals(m)
      BY <3>3 DEF Seals
    <3>5. \A b \in m.body \cup m.aside : AtMostOne(b.seal)
      BY DEF IsMessage
    <3>6. AtMostOne(SealedBytes(c, m).seal)
      BY <3>3, <3>5
    <3>7. Carried(c, m) \subseteq m.body \cup m.aside
      BY <3>1
    <3> QED BY <3>4, <3>6, <3>7
  <2> QED BY <2>2, <2>3
<1>2. CASE ~ Opens(c.api) /\ c.api # "sign"
  BY <1>2 DEF SealedBytes, Fourth, Seals, IsMessage
<1>3. CASE c.api = "sign"
  <2>1. c.index + 1 \in DOMAIN m.entries
    BY <1>3, ReadOk, SignersOk, CallsAssumption
  <2>2. SealedBytes(c, m) = m.entries[c.index + 1].sig
    BY <1>3 DEF SealedBytes, Fourth, Signer, Opens
  <2>3. SealedBytes(c, m).seal \subseteq Seals(m)
    <3> DEFINE T == {m.entries[k].sig.seal : k \in DOMAIN m.entries}
    <3>1. SealedBytes(c, m).seal \in T
      BY <2>1, <2>2
    <3> DEFINE R == m.seal.seal \cup UNION {b.seal : b \in m.body \cup m.aside}
    <3>2. Seals(m) = R \cup UNION T
      BY Zenon DEF Seals
    <3> HIDE DEF R, T
    <3> QED BY <3>1, <3>2
  <2>4. AtMostOne(SealedBytes(c, m).seal)
    BY <2>1, <2>2 DEF IsMessage
  <2>5. ~ Opens(c.api)
    BY <1>3 DEF Opens
  <2> QED BY <2>3, <2>4, <2>5
<1> QED BY <1>1, <1>2, <1>3

-----------------------------------------------------------------------------
(* The first state and the sender's steps.                                 *)

LEMMA PeerSent ==
    ASSUME NEW m \in Peers
    PROVE  IsMessage(m) /\ \A s \in Seals(m) : FactOf(s) \in PeerFacts
BY PeersAssumption DEF PeerFacts

THEOREM InitInv == Init => Inv
<1> SUFFICES ASSUME Init PROVE Inv
  OBVIOUS
<1>1. /\ wire \in Peers /\ pc = "idle" /\ ret = "ok" /\ req = {} /\ call = {} /\ fault = FALSE
      /\ out = [msg |-> {}, partial |-> FALSE, len |-> {}, apart |-> {}, apartLen |-> 0]
      /\ got = [payload |-> {}, hdr |-> NoHdr, plain |-> {}, plainLen |-> 0]
      /\ scratch = "zero" /\ sealed = PeerFacts /\ origin = {}
  BY DEF Init, NothingSent, NothingGot, Null
<1>2. Typed
  BY <1>1 DEF Typed, Sending, Receiving, Shape, Facts
<1>3. Writing
  BY <1>1 DEF Writing
<1>4. Reading
  BY <1>1, PeerSent DEF Reading, Sent
<1>5. AtRest
  BY <1>1 DEF AtRest, NothingLeftBehind, NoPartialMessage, AlgIsVouchedFor, OutputsTellMessage,
              PassesWholeMessages, Given
<1> QED BY <1>2, <1>3, <1>4, <1>5 DEF Inv

LEMMA SendingStep ==
    ASSUME Inv, NEW q \in Requests, req' = {q}, call' = {},
           pc' \in {"encode", "head", "encrypt", "null", "finish"},
           UNCHANGED <<wire, got, sealed, origin>>,
           fault' \in BOOLEAN, scratch' \in {"zero", "used"},
           out' = [msg |-> out'.msg, partial |-> out'.partial, len |-> out'.len,
                   apart |-> out'.apart, apartLen |-> out'.apartLen],
           out'.msg \subseteq out.msg, out'.partial \in BOOLEAN, out'.apartLen \in Nat,
           pc' = "encode" => q.api = "mac0",
           pc' \in {"head", "encrypt", "null"} => Opens(q.api),
           pc' = "null" => Detached(q),
           (pc' = "finish" => ret' = "ok") => SenderCode(q) = "ok",
           Opens(q.api) /\ Detached(q)
             /\ ((pc' = "null" /\ q.api = "enc0") \/ (pc' = "finish" /\ ret' = "ok"))
             => out'.apart = {Ciphertext(q)}
    PROVE  Inv'
<1>1. Typed'
  BY DEF Inv, Typed, Sending, Receiving, Shape
<1>2. Writing'
  <2>1. \A m \in out'.msg : Sent(m)'
    BY DEF Inv, Writing, Sent
  <2> QED BY <2>1 DEF Writing, Sending
<1>3. Reading'
  BY DEF Inv, Reading, Sent
<1>4. AtRest'
  BY AwayFromRestNext
<1> QED BY <1>1, <1>2, <1>3, <1>4 DEF Inv

LEMMA CreateStep == Inv /\ (\E q \in Requests : Create(q)) => Inv'
<1> SUFFICES ASSUME Inv, NEW q \in Requests, Create(q) PROVE Inv'
  OBVIOUS
<1>1. PICK lib \in LibraryCodes :
         /\ Stage(First(<<SenderCode(q), lib>>), IF q.api = "mac0" THEN "encode" ELSE "head", "finish")
         /\ fault' = (lib # "ok")
  BY DEF Create
<1>2. /\ req' = {q} /\ call' = {} /\ scratch' = "used"
      /\ UNCHANGED <<wire, out, got, sealed, origin>>
  BY DEF Create
<1>3. ret' = "ok" => SenderCode(q) = "ok"
  <2>1. ret' = First(<<SenderCode(q), lib>>)
    BY <1>1 DEF Stage
  <2> DEFINE a == SenderCode(q)
  <2> HIDE DEF a
  <2>2. First(<<a, lib>>) = "ok" => a = "ok"
    BY PairOf
  <2> QED BY <2>1, <2>2 DEF a
<1>4. /\ pc' \in {"encode", "head", "finish"}
      /\ pc' = "finish" <=> ret' # "ok"
      /\ pc' = "encode" => q.api = "mac0"
      /\ pc' = "head" => q.api # "mac0"
  BY <1>1 DEF Stage
<1>5. pc' = "head" => Opens(q.api)
  BY <1>4, RequestsAssumption DEF Opens
<1>6. /\ out' = [msg |-> out'.msg, partial |-> out'.partial, len |-> out'.len,
                 apart |-> out'.apart, apartLen |-> out'.apartLen]
      /\ out'.msg \subseteq out.msg /\ out'.partial \in BOOLEAN /\ out'.apartLen \in Nat
  BY <1>2 DEF Inv, Typed, Shape
<1>7. fault' \in BOOLEAN
  BY <1>1
<1> QED BY <1>2, <1>3, <1>4, <1>5, <1>6, <1>7, SendingStep

\* What the other sender's steps have in common.
LEMMA SenderRuns ==
    ASSUME Inv, pc \in {"encode", "head", "encrypt", "null"}
    PROVE  \E q \in Requests :
             /\ req = {q} /\ The(req) = q /\ call = {}
             /\ SenderCode(q) = "ok"
             /\ pc = "encode" => q.api = "mac0"
             /\ pc \in {"head", "encrypt", "null"} => Opens(q.api)
             /\ pc = "null" => Detached(q)
             /\ Opens(q.api) /\ Detached(q) /\ pc = "null" /\ q.api = "enc0" =>
                  out.apart = {Ciphertext(q)}
<1>1. PICK q \in Requests : req = {q}
  BY DEF Inv, Typed, Sending
<1>2. The(req) = q /\ call = {}
  BY <1>1, TheOne DEF Inv, Typed
<1> QED BY <1>1, <1>2 DEF Inv, Writing, Sending

LEMMA EncodeMac0Step == Inv /\ EncodeMac0 => Inv'
<1> SUFFICES ASSUME Inv, EncodeMac0 PROVE Inv'
  OBVIOUS
<1>1. PICK q \in Requests : /\ req = {q} /\ call = {} /\ SenderCode(q) = "ok"
                            /\ q.api = "mac0"
  BY SenderRuns DEF EncodeMac0
<1>2. /\ pc' = "finish" /\ req' = {q} /\ call' = {} /\ fault' = fault /\ scratch' = scratch
      /\ out' = [out EXCEPT !.msg = {}, !.partial = TRUE]
      /\ UNCHANGED <<wire, got, sealed, origin>>
  BY <1>1 DEF EncodeMac0, Stage, Overwritten, Null
<1>3. ~ Opens(q.api)
  BY <1>1 DEF Opens
<1>4. /\ out' = [msg |-> out'.msg, partial |-> out'.partial, len |-> out'.len,
                 apart |-> out'.apart, apartLen |-> out'.apartLen]
      /\ out'.msg = {} /\ out'.partial \in BOOLEAN /\ out'.apartLen \in Nat
  BY <1>2 DEF Inv, Typed, Shape
<1>5. fault' \in BOOLEAN /\ scratch' \in {"zero", "used"}
  BY <1>2 DEF Inv, Typed
<1> QED BY <1>1, <1>2, <1>3, <1>4, <1>5, SendingStep

LEMMA EncodeHeadStep == Inv /\ EncodeHead => Inv'
<1> SUFFICES ASSUME Inv, EncodeHead PROVE Inv'
  OBVIOUS
<1>1. PICK q \in Requests : /\ req = {q} /\ The(req) = q /\ call = {} /\ SenderCode(q) = "ok"
                            /\ Opens(q.api)
  BY SenderRuns DEF EncodeHead
<1>2. /\ req' = {q} /\ call' = {} /\ fault' = fault /\ scratch' = scratch
      /\ out' = [out EXCEPT !.msg = {}, !.partial = TRUE]
      /\ UNCHANGED <<wire, got, sealed, origin>>
      /\ pc' \in {"null", "encrypt", "finish"}
      /\ pc' = "finish" => ret' # "ok"
      /\ pc' = "null" => q.api = "hpke" /\ Detached(q)
  BY <1>1 DEF EncodeHead, Stage, Overwritten, Null
<1>4. /\ out' = [msg |-> out'.msg, partial |-> out'.partial, len |-> out'.len,
                 apart |-> out'.apart, apartLen |-> out'.apartLen]
      /\ out'.msg = {} /\ out'.partial \in BOOLEAN /\ out'.apartLen \in Nat
  BY <1>2 DEF Inv, Typed, Shape
<1>5. fault' \in BOOLEAN /\ scratch' \in {"zero", "used"}
  BY <1>2 DEF Inv, Typed
<1> QED BY <1>1, <1>2, <1>4, <1>5, SendingStep

LEMMA EncryptStep == Inv /\ Encrypt => Inv'
<1> SUFFICES ASSUME Inv, Encrypt PROVE Inv'
  OBVIOUS
<1>1. PICK q \in Requests : /\ req = {q} /\ The(req) = q /\ call = {} /\ SenderCode(q) = "ok"
                            /\ Opens(q.api)
  BY SenderRuns DEF Encrypt
<1>2. PICK lib \in LibraryCodes :
         /\ fault' = (lib # "ok")
         /\ Stage(First(<<Fails(~ Detached(q) /\ q.room # "all", "buffer"), lib>>),
                  IF q.api = "enc0" /\ Detached(q) THEN "null" ELSE "finish", "finish")
         /\ out' = IF ~ Detached(q) THEN out
                   ELSE [out EXCEPT !.apart = IF lib = "ok" THEN {Ciphertext(q)}
                                              ELSE {Bytes("partial", 0, Null)}]
  BY <1>1 DEF Encrypt
<1>3. /\ req' = {q} /\ call' = {} /\ scratch' = scratch
      /\ UNCHANGED <<wire, got, sealed, origin>>
  BY <1>1 DEF Encrypt
<1>4. ret' = "ok" => lib = "ok"
  <2> DEFINE a == Fails(~ Detached(q) /\ q.room # "all", "buffer")
  <2>1. ret' = First(<<a, lib>>)
    BY <1>2 DEF Stage
  <2> HIDE DEF a
  <2>2. First(<<a, lib>>) = "ok" => lib = "ok"
    BY PairOf
  <2> QED BY <2>1, <2>2
<1>5. /\ pc' \in {"null", "finish"}
      /\ pc' = "null" => q.api = "enc0" /\ Detached(q) /\ ret' = "ok"
  BY <1>2 DEF Stage
<1>6. /\ out' = [msg |-> out'.msg, partial |-> out'.partial, len |-> out'.len,
                 apart |-> out'.apart, apartLen |-> out'.apartLen]
      /\ out'.msg \subseteq out.msg /\ out'.partial \in BOOLEAN /\ out'.apartLen \in Nat
      /\ Detached(q) /\ lib = "ok" => out'.apart = {Ciphertext(q)}
  BY <1>2 DEF Inv, Typed, Shape
<1>7. fault' \in BOOLEAN /\ scratch' \in {"zero", "used"}
  BY <1>2, <1>3 DEF Inv, Typed
<1> QED BY <1>1, <1>3, <1>4, <1>5, <1>6, <1>7, SendingStep

LEMMA EncodeNullStep == Inv /\ EncodeNull => Inv'
<1> SUFFICES ASSUME Inv, EncodeNull PROVE Inv'
  OBVIOUS
<1>1. PICK q \in Requests : /\ req = {q} /\ The(req) = q /\ call = {} /\ SenderCode(q) = "ok"
                            /\ Opens(q.api) /\ Detached(q)
                            /\ q.api = "enc0" => out.apart = {Ciphertext(q)}
  BY SenderRuns DEF EncodeNull
<1>2. /\ req' = {q} /\ call' = {} /\ fault' = fault /\ scratch' = scratch
      /\ UNCHANGED <<wire, out, got, sealed, origin>>
      /\ pc' \in {"encrypt", "finish"}
      /\ pc' = "finish" /\ ret' = "ok" => q.api # "hpke"
  BY <1>1 DEF EncodeNull, Stage
<1>3. pc' = "finish" /\ ret' = "ok" => out'.apart = {Ciphertext(q)}
  BY <1>1, <1>2 DEF Opens
<1>4. /\ out' = [msg |-> out'.msg, partial |-> out'.partial, len |-> out'.len,
                 apart |-> out'.apart, apartLen |-> out'.apartLen]
      /\ out'.msg \subseteq out.msg /\ out'.partial \in BOOLEAN /\ out'.apartLen \in Nat
  BY <1>2 DEF Inv, Typed, Shape
<1>5. fault' \in BOOLEAN /\ scratch' \in {"zero", "used"}
  BY <1>2 DEF Inv, Typed
<1> QED BY <1>1, <1>2, <1>3, <1>4, <1>5, SendingStep

-----------------------------------------------------------------------------
(* What a sender publishes.                                                *)

LEMMA ContentOk ==
    ASSUME NEW q \in Requests, SenderCode(q) = "ok"
    PROVE  /\ Content(q) \in q.payload \cup q.apart
           /\ Content(q).len \in Nat /\ Content(q).seal = {}
           /\ RequestFact(q) \in Facts
<1>1. q.payload \cup q.apart # {}
  BY SenderOk
<1>2. Content(q) \in q.payload \cup q.apart
  BY <1>1 DEF Content, The, Null
<1> QED BY <1>1, <1>2, RequestsAssumption DEF Facts, Null

LEMMA CiphertextOk ==
    ASSUME NEW q \in Requests, SenderCode(q) = "ok", Opens(q.api)
    PROVE  /\ Ciphertext(q).len \in Nat /\ Ciphertext(q).seal = {SealFor(q)}
           /\ Ciphertext(q).len = SealedLen(SealFor(q))
<1>1. q.api \in {"enc0", "hpke"} /\ (q.api = "hpke" => q.alg = "hpke0")
  BY RequestsAssumption DEF Opens
<1>2. q.api = "enc0" => q.alg \in DOMAIN AeadKeyLen /\ q.alg # "hpke0"
  BY SenderOk, AlgsAssumption
<1>3. TagLen(q.api, q.alg) \in Nat
  BY <1>1, <1>2, AlgsAssumption DEF TagLen
<1>4. SealedLen(SealFor(q)) = Content(q).len + TagLen(q.api, q.alg)
  BY <1>1, <1>2, SealFact DEF SealedLen, TagLen
<1>5. Ciphertext(q).len = Content(q).len + TagLen(q.api, q.alg) /\ Ciphertext(q).seal = {SealFor(q)}
  BY DEF Ciphertext, Bytes
<1> QED BY <1>3, <1>4, <1>5, ContentOk

\* It is a message of well-formed parts with the one seal of the request.
LEMMA MessageOk ==
    ASSUME NEW q \in Requests, SenderCode(q) = "ok"
    PROVE  IsMessage(Message(q)) /\ Seals(Message(q)) \subseteq {SealFor(q)}
<1> DEFINE m == Message(q)
<1>1. LabelsOnce(m.prot \cup m.unprot)
  <2>1. m.prot = {<<"alg", q.alg>>} /\ m.unprot = Unprot(q)
    BY DEF Message, Prot
  <2>2. Unprot(q) \subseteq {<<"kid", q.kid>>, <<"iv", q.iv>>, <<"ek", Ek(q)>>}
    BY RequestsAssumption DEF Unprot, Kid
  <2> HIDE DEF m
  <2> QED BY <2>1, <2>2 DEF LabelsOnce
<1>2. CASE q.api = "mac0"
  <2>1. /\ m.body = q.payload /\ m.aside = q.apart /\ m.seal.seal = {SealFor(q)}
        /\ m.entries = <<>>
    BY <1>2 DEF Message, Bytes
  <2>2. \A b \in m.body \cup m.aside : b.seal = {} /\ b.len \in Nat
    BY <2>1, RequestsAssumption
  <2>3. AtMostOne(m.body) /\ AtMostOne(m.aside)
    BY <2>1, RequestsAssumption
  <2> HIDE DEF m
  <2>4. IsMessage(m)
    BY <1>1, <2>1, <2>2, <2>3 DEF IsMessage, AtMostOne
  <2>5. Seals(m) = {SealFor(q)}
    BY <2>1, <2>2 DEF Seals
  <2> QED BY <2>4, <2>5 DEF m
<1>3. CASE q.api # "mac0"
  <2>1. /\ m.body \cup m.aside = {Ciphertext(q)} /\ m.seal.seal = {} /\ m.entries = <<>>
        /\ AtMostOne(m.body) /\ AtMostOne(m.aside)
    BY <1>3 DEF Message, Bytes, NoBytes, Null, AtMostOne
  <2>2. Opens(q.api) /\ q.api \in {"enc0", "hpke"}
    BY <1>3, RequestsAssumption DEF Opens
  <2>3. /\ SealFor(q).ctx = "Encrypt0" /\ SealFor(q).content.len \in Nat
        /\ Ciphertext(q).len \in Nat /\ Ciphertext(q).seal = {SealFor(q)}
        /\ Ciphertext(q).len = SealedLen(SealFor(q))
    BY <2>2, CiphertextOk, SealFact, ContentOk DEF Context
  <2> HIDE DEF m
  <2>4. IsMessage(m)
    BY <1>1, <2>1, <2>3 DEF IsMessage, AtMostOne
  <2>5. Seals(m) \subseteq {SealFor(q)}
    BY <2>1, <2>3 DEF Seals
  <2> QED BY <2>4, <2>5 DEF m
<1> QED BY <1>2, <1>3

LEMMA FinishStep == Inv /\ Finish => Inv'
<1> SUFFICES ASSUME Inv, Finish PROVE Inv'
  OBVIOUS
<1>1. PICK q \in Requests : req = {q}
  BY DEF Inv, Typed, Sending, Finish
<1>2. /\ The(req) = q /\ call = {} /\ (ret = "ok" => SenderCode(q) = "ok")
      /\ ret = "ok" /\ Opens(q.api) /\ Detached(q) => out.apart = {Ciphertext(q)}
  BY <1>1, TheOne DEF Inv, Typed, Writing, Sending, Finish
<1>3. /\ pc' = "idle" /\ scratch' = "zero"
      /\ out' = IF ret = "ok" THEN Published(q) ELSE Wiped(q)
      /\ sealed' = IF ret = "ok" THEN sealed \cup {RequestFact(q)} ELSE sealed
      /\ wire' = wire /\ got' = got /\ ret' = ret /\ req' = {q} /\ call' = {} /\ fault' = fault
      /\ origin' = origin
  BY <1>1, <1>2 DEF Finish, ScratchAfter
<1>4. sealed \subseteq sealed' /\ sealed' \subseteq Facts
  BY <1>2, <1>3, ContentOk DEF Inv, Typed
<1>5. ret = "ok" => Sent(Message(q))'
  BY <1>2, <1>3, MessageOk, SealFact DEF Sent
<1>6. CASE ret = "ok"
  <2>1. /\ out'.msg = {Message(q)} /\ out'.partial = FALSE /\ out'.len = {Message(q)}
        /\ out'.apart = out.apart
        /\ out'.apartLen = IF Opens(q.api) /\ Detached(q) THEN Ciphertext(q).len ELSE out.apartLen
        /\ out' = [msg |-> out'.msg, partial |-> out'.partial, len |-> out'.len,
                   apart |-> out'.apart, apartLen |-> out'.apartLen]
    BY <1>3, <1>6 DEF Published, Inv, Typed, Shape
  <2>2. out'.apartLen \in Nat
    BY <1>2, <1>6, <2>1, CiphertextOk DEF Inv, Typed
  <2>3. Typed'
    BY <1>3, <1>4, <2>1, <2>2 DEF Inv, Typed, Sending, Receiving, Shape
  <2>4. Writing'
    BY <1>3, <1>5, <1>6, <2>1 DEF Writing, Sending
  <2>5. NoPartialMessage'
    <3> SUFFICES ASSUME Opens(q.api), Message(q).body = {}
                 PROVE  /\ out'.apart = Message(q).aside /\ Message(q).aside # {}
                        /\ out'.apartLen = The(Message(q).aside).len
      BY <1>3, <1>6, <2>1 DEF NoPartialMessage, Null
    <3>1. Detached(q) /\ Message(q).aside = {Ciphertext(q)}
      BY DEF Message, Opens, Null
    <3> QED BY <1>2, <1>6, <2>1, <3>1, TheOne
  <2> QED BY <1>3, <1>4, <2>3, <2>4, <2>5
          DEF Inv, Reading, Sent, AtRest, NothingLeftBehind, AlgIsVouchedFor, OutputsTellMessage,
              PassesWholeMessages, Given, Idle
<1>7. CASE ret # "ok"
  <2>1. /\ out'.msg = {} /\ out'.partial = FALSE
        /\ Opens(q.api) /\ Detached(q) => out'.apart = {}
        /\ q.api = "hpke" => out'.len = {} /\ out'.apartLen = 0
        /\ out'.apartLen \in Nat
        /\ out' = [msg |-> out'.msg, partial |-> out'.partial, len |-> out'.len,
                   apart |-> out'.apart, apartLen |-> out'.apartLen]
    BY <1>3, <1>7 DEF Wiped, Null, Inv, Typed, Shape
  <2>2. Typed'
    BY <1>3, <1>4, <2>1 DEF Inv, Typed, Sending, Receiving, Shape
  <2>3. Writing'
    BY <1>3, <1>7, <2>1 DEF Writing, Sending
  <2>4. NoPartialMessage'
    BY <1>3, <1>7, <2>1 DEF NoPartialMessage, Null
  <2> QED BY <1>3, <1>4, <1>7, <2>2, <2>3, <2>4
          DEF Inv, Reading, Sent, AtRest, NothingLeftBehind, AlgIsVouchedFor, OutputsTellMessage,
              PassesWholeMessages, Given, Idle
<1> QED BY <1>6, <1>7

-----------------------------------------------------------------------------
(* A message on its way, and the receiver's steps.                         *)

LEMMA ArrivesStep ==
    ASSUME Inv, NEW m, Sent(m), NEW from, from \subseteq Requests, Arrives(m, from)
    PROVE  Inv'
<1>1. /\ wire' = m /\ origin' = from /\ req' = {} /\ call' = {} /\ pc = "idle"
      /\ UNCHANGED <<pc, ret, fault, out, got, scratch, sealed>>
  BY DEF Arrives, Idle
<1>2. Typed'
  BY <1>1 DEF Inv, Typed, Sending, Receiving, Shape
<1>3. Writing'
  BY <1>1 DEF Inv, Writing, Sent
<1>4. Reading'
  BY <1>1 DEF Reading, Sent
<1>5. AtRest'
  BY <1>1 DEF Inv, AtRest, NothingLeftBehind, NoPartialMessage, AlgIsVouchedFor,
              OutputsTellMessage, PassesWholeMessages, Given, Idle
<1> QED BY <1>2, <1>3, <1>4, <1>5 DEF Inv

LEMMA TransmitStep == Inv /\ Transmit => Inv'
<1> SUFFICES ASSUME Inv, Transmit PROVE Inv'
  OBVIOUS
<1>1. PICK m \in out.msg : Arrives(m, req)
  BY DEF Transmit
<1>2. Sent(m) /\ req \subseteq Requests
  BY DEF Inv, Writing, Typed
<1> QED BY <1>1, <1>2, ArrivesStep

LEMMA FromPeerStep == Inv /\ (\E m \in Peers : FromPeer(m)) => Inv'
<1> SUFFICES ASSUME Inv, NEW m \in Peers, Arrives(m, {}) PROVE Inv'
  BY DEF FromPeer
<1>1. Sent(m)
  BY PeerSent DEF Sent, Inv, Typed
<1> QED BY <1>1, ArrivesStep

\* What the receiver's steps have in common until they return.
LEMMA ReceivingStep ==
    ASSUME Inv, NEW c \in Calls, req' = {}, call' = {c},
           pc' \in {"read", "judge", "open", "return"},
           UNCHANGED <<wire, out, sealed, origin>>,
           fault' \in BOOLEAN, scratch' \in {"zero", "used"},
           got' = [payload |-> got'.payload, hdr |-> got'.hdr, plain |-> got'.plain,
                   plainLen |-> got'.plainLen],
           got'.plainLen \in Nat,
           pc' = "read" => got'.hdr = NoHdr,
           pc' \in {"judge", "open"} \/ (pc' = "return" /\ ret' = "ok") =>
              ReadCode(c, wire) = "ok" /\ got'.hdr = HeaderRead(NoHdr, wire),
           pc' = "open" \/ (pc' = "return" /\ ret' = "ok") => Judged(c, wire),
           pc' = "return" /\ ret' = "ok" =>
              /\ Opened(c, wire)
              /\ Opens(c.api) => got'.plain = {(The(SealedBytes(c, wire).seal)).content}
    PROVE  Inv'
<1>1. Typed'
  BY DEF Inv, Typed, Sending, Receiving, Shape
<1>2. Writing'
  BY DEF Inv, Writing, Sent
<1>3. Reading'
  <2> Sent(wire)'
    BY DEF Inv, Reading, Sent
  <2> QED BY DEF Reading
<1>4. AtRest'
  BY AwayFromRestNext
<1> QED BY <1>1, <1>2, <1>3, <1>4 DEF Inv

LEMMA ReceiveStep == Inv /\ (\E c \in Calls : Receive(c)) => Inv'
<1> SUFFICES ASSUME Inv, NEW c \in Calls, Receive(c) PROVE Inv'
  OBVIOUS
<1>1. /\ req' = {} /\ call' = {c} /\ fault' = FALSE /\ scratch' = scratch
      /\ UNCHANGED <<wire, out, sealed, origin>>
  BY DEF Receive
<1>2. /\ pc' \in {"read", "return"}
      /\ pc' = "return" => ret' # "ok"
      /\ pc' = "read" => ReceiverCode(c) = "ok"
  BY DEF Receive, Stage
<1>3. /\ got' = [payload |-> got'.payload, hdr |-> got'.hdr, plain |-> got'.plain,
                 plainLen |-> got'.plainLen]
      /\ got'.plainLen \in Nat /\ (pc' = "read" => got'.hdr = NoHdr)
  BY <1>2 DEF Receive, Cleared, Inv, Typed, Shape
<1>4. scratch' \in {"zero", "used"}
  BY <1>1 DEF Inv, Typed
<1> QED BY <1>1, <1>2, <1>3, <1>4, ReceivingStep

LEMMA ReceiverRuns ==
    ASSUME Inv, Receiving
    PROVE  \E c \in Calls : /\ call = {c} /\ The(call) = c /\ req = {}
<1>1. PICK c \in Calls : call = {c}
  BY DEF Inv, Typed
<1> QED BY <1>1, TheOne DEF Inv, Typed

LEMMA ReadStep == Inv /\ Read => Inv'
<1> SUFFICES ASSUME Inv, Read PROVE Inv'
  OBVIOUS
<1>1. PICK c \in Calls : call = {c} /\ The(call) = c /\ req = {}
  BY ReceiverRuns DEF Receiving, Read
<1>2. /\ req' = {} /\ call' = {c}
      /\ UNCHANGED <<wire, out, fault, scratch, sealed, origin>>
      /\ got' = [got EXCEPT !.hdr = HeaderRead(NoHdr, wire)]
      /\ Stage(ReadCode(c, wire), "judge", "return")
  BY <1>1 DEF Read, Inv, Reading
<1>3. /\ pc' \in {"judge", "return"}
      /\ pc' = "return" => ret' # "ok"
      /\ pc' = "judge" => ReadCode(c, wire) = "ok"
  BY <1>2 DEF Stage
<1>4. /\ got' = [payload |-> got'.payload, hdr |-> got'.hdr, plain |-> got'.plain,
                 plainLen |-> got'.plainLen]
      /\ got'.plainLen \in Nat /\ got'.hdr = HeaderRead(NoHdr, wire)
  BY <1>2 DEF Inv, Typed, Shape
<1>5. fault' \in BOOLEAN /\ scratch' \in {"zero", "used"}
  BY <1>2 DEF Inv, Typed
<1> QED BY <1>2, <1>3, <1>4, <1>5, ReceivingStep

LEMMA JudgeStep == Inv /\ Judge => Inv'
<1> SUFFICES ASSUME Inv, Judge PROVE Inv'
  OBVIOUS
<1>1. PICK c \in Calls : call = {c} /\ The(call) = c /\ req = {}
  BY ReceiverRuns DEF Receiving, Judge
<1>2. /\ req' = {} /\ call' = {c} /\ scratch' = "used"
      /\ UNCHANGED <<wire, out, got, fault, sealed, origin>>
      /\ Stage(JudgeCode(c, wire), "open", "return")
  BY <1>1 DEF Judge
<1>3. ReadCode(c, wire) = "ok" /\ got.hdr = HeaderRead(NoHdr, wire)
  BY <1>1 DEF Judge, Inv, Reading
<1>4. /\ pc' \in {"open", "return"}
      /\ pc' = "return" => ret' # "ok"
      /\ pc' = "open" => JudgeCode(c, wire) = "ok"
  BY <1>2 DEF Stage
<1>5. pc' = "open" => Judged(c, wire)
  BY <1>3, <1>4, JudgeOk, UsedIsRead, PolicyOk DEF Judged
<1>6. /\ got' = [payload |-> got'.payload, hdr |-> got'.hdr, plain |-> got'.plain,
                 plainLen |-> got'.plainLen]
      /\ got'.plainLen \in Nat /\ fault' \in BOOLEAN
  BY <1>2 DEF Inv, Typed, Shape
<1> QED BY <1>2, <1>3, <1>4, <1>5, <1>6, ReceivingStep

LEMMA OpenStep == Inv /\ Open => Inv'
<1> SUFFICES ASSUME Inv, Open PROVE Inv'
  OBVIOUS
<1>1. PICK c \in Calls : call = {c} /\ The(call) = c /\ req = {}
  BY ReceiverRuns DEF Receiving, Open
<1>2. /\ req' = {} /\ call' = {c} /\ scratch' = scratch
      /\ UNCHANGED <<wire, out, sealed, origin>>
      /\ pc' = "return"
  BY <1>1 DEF Open, Stage
<1>3. ReadCode(c, wire) = "ok" /\ got.hdr = HeaderRead(NoHdr, wire) /\ Judged(c, wire)
  BY <1>1 DEF Open, Inv, Reading
<1>4. ret' = "ok" => Fits(c, wire)
  <2>1. "ok" \notin Refusals(c, wire) /\ "ok" \notin FaultCodes(c, wire)
    <3>1. c.api \in {"sign1", "sign", "mac0", "enc0", "hpke"}
      BY CallsAssumption
    <3> QED BY <3>1 DEF Refusals, FaultCodes, Opens
  <2> QED BY <1>1, <2>1 DEF Open, Stage, Verifies
<1>5. Fits(c, wire) => Opened(c, wire)
  BY <1>3, UsedIsRead DEF Fits, Opened, ExpectedSeal
<1>6. /\ got' = [payload |-> got'.payload, hdr |-> got'.hdr, plain |-> got'.plain,
                 plainLen |-> got'.plainLen]
      /\ got'.plainLen \in Nat /\ got'.hdr = got.hdr
      /\ ret' = "ok" /\ Opens(c.api) => got'.plain = {(The(SealedBytes(c, wire).seal)).content}
  BY <1>1 DEF Open, Inv, Typed, Shape
<1>7. fault' \in BOOLEAN /\ scratch' \in {"zero", "used"}
  BY <1>2 DEF Open, Inv, Typed
<1> QED BY <1>2, <1>3, <1>4, <1>5, <1>6, <1>7, ReceivingStep

-----------------------------------------------------------------------------
(* A receiver returns.                                                     *)

\* Behind a success there is one seal, for the structure of this call.
LEMMA WhatOpened ==
    ASSUME Inv, pc = "return", ret = "ok", NEW c \in Calls, call = {c}
    PROVE  /\ ReadCode(c, wire) = "ok" /\ got.hdr = HeaderRead(NoHdr, wire) /\ Judged(c, wire)
           /\ UsedAlg(c, wire) = ReadAlg(c, wire) /\ IsMessage(wire)
           /\ \E s : /\ SealedBytes(c, wire).seal = {s}
                     /\ s = ExpectedSeal(c, wire, IF Opens(c.api) THEN s.content
                                                  ELSE The(Carried(c, wire)))
                     /\ FactOf(s) \in sealed
                     /\ Opens(c.api) => got.plain = {s.content}
<1>1. /\ ReadCode(c, wire) = "ok" /\ got.hdr = HeaderRead(NoHdr, wire) /\ Judged(c, wire)
      /\ Opened(c, wire) /\ Sent(wire)
      /\ Opens(c.api) => got.plain = {(The(SealedBytes(c, wire).seal)).content}
  BY DEF Inv, Reading
<1>2. PICK s \in SealedBytes(c, wire).seal :
         s = ExpectedSeal(c, wire, IF Opens(c.api) THEN s.content ELSE The(Carried(c, wire)))
  BY <1>1 DEF Opened
<1>3. SealedBytes(c, wire).seal = {s} /\ s \in Seals(wire)
  BY <1>1, <1>2, SealedBytesOk DEF AtMostOne, Sent
<1>4. FactOf(s) \in sealed
  BY <1>1, <1>3 DEF Sent
<1>5. Opens(c.api) => got.plain = {s.content}
  BY <1>1, <1>3, TheOne
<1>6. UsedAlg(c, wire) = ReadAlg(c, wire)
  BY <1>1, UsedIsRead
<1> QED BY <1>1, <1>2, <1>3, <1>4, <1>5, <1>6 DEF Sent

\* The plaintext is what the ciphertext has besides its tag.
LEMMA PlainLen ==
    ASSUME NEW c \in Calls, NEW m, IsMessage(m), ReadCode(c, m) = "ok", Judged(c, m),
           Opens(c.api), NEW s, SealedBytes(c, m).seal = {s},
           s = ExpectedSeal(c, m, s.content)
    PROVE  /\ s.content.len \in Nat /\ s.content.len <= c.room
           /\ s.content.len = The(Carried(c, m)).len - TagLen(c.api, ReadAlg(c, m))
<1> DEFINE b == The(Carried(c, m))
<1>1. b = SealedBytes(c, m)
  BY DEF SealedBytes
<1>2. Carried(c, m) \subseteq m.body \cup m.aside /\ b \in Carried(c, m)
  BY SealedBytesOk, ReadOk DEF The
<1>3. b.len = SealedLen(s) /\ s.content.len \in Nat
  BY <1>1, <1>2 DEF IsMessage
<1>4. s.alg = ReadAlg(c, m)
  BY DEF ExpectedSeal, Seal
<1> HIDE DEF b
<1>5. CASE c.api = "enc0"
  <2>1. ReadAlg(c, m) \in DOMAIN AeadKeyLen /\ ~ (b.len - AeadTagLen[ReadAlg(c, m)] > c.room)
    BY <1>5 DEF Judged, b
  <2>2. b.len = s.content.len + AeadTagLen[ReadAlg(c, m)] /\ AeadTagLen[ReadAlg(c, m)] \in Nat
    BY <1>3, <1>4, <2>1, AlgsAssumption DEF SealedLen
  <2>3. TagLen(c.api, ReadAlg(c, m)) = AeadTagLen[ReadAlg(c, m)] /\ c.room \in Nat
    BY <1>5, CallsAssumption DEF TagLen
  <2> QED BY <1>3, <2>1, <2>2, <2>3 DEF b
<1>6. CASE c.api = "hpke"
  <2>1. ~ (b.len - HpkeTagLen > c.room)
    BY <1>6 DEF Judged, b
  <2>2. s.alg = "hpke0"
    BY <1>4, <1>6 DEF ReadAlg
  <2>3. b.len = s.content.len + HpkeTagLen /\ HpkeTagLen \in Nat
    BY <1>3, <2>2, AlgsAssumption DEF SealedLen
  <2>4. TagLen(c.api, ReadAlg(c, m)) = HpkeTagLen /\ c.room \in Nat
    BY <1>6, CallsAssumption DEF TagLen
  <2> QED BY <1>3, <2>1, <2>3, <2>4 DEF b
<1> QED BY <1>5, <1>6 DEF Opens

\* The algorithm of a success is the key's own or was under the seal.
LEMMA Vouched ==
    ASSUME NEW c \in Calls, NEW m, IsMessage(m), ReadCode(c, m) = "ok", Judged(c, m)
    PROVE  \/ c.api # "hpke" /\ c.key.alg = ReadAlg(c, m)
           \/ <<"alg", IF c.api = "hpke" THEN AlgOf(m.prot, m.unprot) ELSE ReadAlg(c, m)>>
                 \in IF c.api = "sign" THEN Signer(c, m).prot ELSE m.prot
           \/ c.api = "hpke" /\ ~ Has(m.prot \cup m.unprot, "alg")
<1>1. LabelsOnce(m.prot \cup m.unprot)
  BY DEF IsMessage
<1>2. CASE c.api = "sign"
  <2> DEFINE e == Signer(c, m)
  <2>1. /\ c.index + 1 \in DOMAIN m.entries
        /\ PolicyCode(c.key, e.prot, AlgOf(e.prot, e.unprot)) = "ok"
    BY <1>2, ReadOk, SignersOk, CallsAssumption
  <2>2. LabelsOnce(e.prot \cup e.unprot)
    BY <2>1 DEF IsMessage, Signer
  <2> HIDE DEF e
  <2>3. c.key.alg = AlgOf(e.prot, e.unprot) \/ <<"alg", AlgOf(e.prot, e.unprot)>> \in e.prot
    BY <2>1, <2>2, PolicyOk, AlgIn
  <2> QED BY <1>2, <2>3 DEF ReadAlg, e
<1>3. CASE c.api = "hpke"
  <2>1. ~ Has(m.unprot, "alg")
    BY <1>3, ReadOk, HpkeHdrOk
  <2>2. Has(m.prot \cup m.unprot, "alg") => Has(m.prot, "alg")
    BY <2>1 DEF Has
  <2> QED BY <1>1, <1>3, <2>2, AlgIn
<1>4. CASE c.api \in {"sign1", "mac0", "enc0"}
  <2>1. ReadAlg(c, m) = AlgOf(m.prot, m.unprot)
    BY <1>4 DEF ReadAlg
  <2>2. c.key.alg = ReadAlg(c, m) \/ Has(m.prot, "alg")
    BY <1>4 DEF Judged
  <2> QED BY <1>1, <1>4, <2>1, <2>2, AlgIn
<1> QED BY <1>2, <1>3, <1>4, CallsAssumption

\* What a call that succeeds hands out is what one seal says.
LEMMA GivesSealed ==
    ASSUME Inv, pc = "return", ret = "ok", NEW c \in Calls, call = {c}, req = {}, Return
    PROVE  /\ Given' \subseteq sealed
           /\ \E f : Given' = {f} /\ \A t \in SealedBytes(c, wire).seal : f.payload = t.content
<1>1. PICK s : /\ SealedBytes(c, wire).seal = {s}
               /\ s = ExpectedSeal(c, wire, IF Opens(c.api) THEN s.content
                                            ELSE The(Carried(c, wire)))
               /\ FactOf(s) \in sealed
               /\ Opens(c.api) => got.plain = {s.content}
  BY WhatOpened
<1> DEFINE content == IF Opens(c.api) THEN s.content ELSE The(Carried(c, wire))
           f == [kind |-> Type(c.api), key |-> c.key.id, alg |-> ReadAlg(c, wire), aad |-> c.aad,
                 payload |-> content]
           g == [kind |-> Type(c.api), key |-> c.key.id,
                 alg |-> IF c.api = "hpke" THEN "hpke0" ELSE got'.hdr.alg, aad |-> c.aad,
                 payload |-> IF Opens(c.api) THEN The(got'.plain)
                             ELSE IF got'.payload # Null THEN The(got'.payload)
                             ELSE The(Supplied(c, wire))]
<1>2. f \in sealed
  BY <1>1, ExpectedFact
<1>3. /\ pc' = "idle" /\ ret' = "ok" /\ call' = {c} /\ wire' = wire
      /\ got' = Passed(got, c)
  BY TheOne DEF Return
<1>4. Given' = {g}
  BY <1>3 DEF Given, Idle
<1>5. (IF c.api = "hpke" THEN "hpke0" ELSE got'.hdr.alg) = ReadAlg(c, wire)
  <2>1. got.hdr = HeaderRead(NoHdr, wire) /\ UsedAlg(c, wire) = ReadAlg(c, wire)
    BY WhatOpened
  <2>2. got'.hdr = IF c.api = "sign" THEN [got.hdr EXCEPT !.alg = UsedAlg(c, wire)] ELSE got.hdr
    BY <1>3 DEF Passed, Reported, Inv, Typed, Shape
  <2> QED BY <2>1, <2>2 DEF ReadAlg, UsedAlg, HeaderRead
<1>6. (IF Opens(c.api) THEN The(got'.plain)
       ELSE IF got'.payload # Null THEN The(got'.payload) ELSE The(Supplied(c, wire))) = content
  <2>1. CASE Opens(c.api)
    BY <1>1, <1>3, <2>1, TheOne DEF Passed, Inv, Typed, Shape
  <2>2. CASE ~ Opens(c.api)
    <3>1. got'.payload = wire.body
      BY <1>3, <2>2 DEF Passed, Inv, Typed, Shape
    <3> QED BY <2>2, <3>1 DEF Carried
  <2> QED BY <2>1, <2>2
<1>7. g = f
  BY <1>5, <1>6
<1>8. content = s.content
  BY <1>1 DEF ExpectedSeal, Seal
<1>9. f.payload = content
  OBVIOUS
<1> HIDE DEF content, f, g
<1> QED BY <1>1, <1>2, <1>4, <1>7, <1>8, <1>9

LEMMA ReturnStep == Inv /\ Return => Inv'
<1> SUFFICES ASSUME Inv, Return PROVE Inv'
  OBVIOUS
<1>1. PICK c \in Calls : call = {c} /\ The(call) = c /\ req = {}
  BY ReceiverRuns DEF Receiving, Return
<1>2. /\ pc = "return" /\ pc' = "idle" /\ scratch' = "zero"
      /\ got' = IF ret = "ok" THEN Passed(got, c) ELSE Failed(got, c)
      /\ wire' = wire /\ out' = out /\ ret' = ret /\ req' = {} /\ call' = {c} /\ fault' = fault
      /\ sealed' = sealed /\ origin' = origin
  BY <1>1 DEF Return, ScratchAfter
<1>3. /\ got' = [payload |-> got'.payload, hdr |-> got'.hdr, plain |-> got'.plain,
                 plainLen |-> got'.plainLen]
      /\ ret # "ok" => got'.plainLen \in {0, got.plainLen}
      /\ ret = "ok" /\ ~ Opens(c.api) => got'.plainLen = got.plainLen
  BY <1>2 DEF Passed, Failed, Inv, Typed, Shape
<1>4. Writing' /\ Reading'
  BY <1>2 DEF Inv, Writing, Reading, Sent, Sending
<1>5. NoPartialMessage'
  BY <1>2 DEF NoPartialMessage
<1>6. CASE ret # "ok"
  <2>1. Typed'
    BY <1>2, <1>3, <1>6 DEF Inv, Typed, Sending, Receiving, Shape
  <2>2. NothingLeftBehind'
    BY <1>2, <1>6 DEF NothingLeftBehind, Failed, Null, Inv, Typed, Shape
  <2>3. AtRest'
    BY <1>2, <1>5, <1>6, <2>2 DEF AtRest, AlgIsVouchedFor, OutputsTellMessage,
                                  PassesWholeMessages, Given
  <2> QED BY <1>4, <2>1, <2>3 DEF Inv
<1>7. CASE ret = "ok"
  <2>1. PICK s : /\ SealedBytes(c, wire).seal = {s}
                 /\ s = ExpectedSeal(c, wire, IF Opens(c.api) THEN s.content
                                              ELSE The(Carried(c, wire)))
                 /\ Opens(c.api) => got.plain = {s.content}
    BY <1>1, <1>2, <1>7, WhatOpened
  <2>2. /\ ReadCode(c, wire) = "ok" /\ got.hdr = HeaderRead(NoHdr, wire) /\ Judged(c, wire)
        /\ UsedAlg(c, wire) = ReadAlg(c, wire) /\ IsMessage(wire)
    BY <1>1, <1>2, <1>7, WhatOpened
  <2>3. /\ got'.hdr = IF c.api = "sign" THEN [got.hdr EXCEPT !.alg = UsedAlg(c, wire)] ELSE got.hdr
        /\ got'.plain = got.plain
        /\ ~ Opens(c.api) => got'.payload = wire.body
        /\ Opens(c.api) => got'.plainLen = The(Carried(c, wire)).len
                                           - TagLen(c.api, UsedAlg(c, wire))
    BY <1>2, <1>7 DEF Passed, Reported, Inv, Typed, Shape
  <2>4. Opens(c.api) => /\ The(got'.plain) = s.content
                        /\ s.content.len \in Nat /\ s.content.len <= c.room
                        /\ got'.plainLen = s.content.len
    <3> SUFFICES ASSUME Opens(c.api) PROVE /\ The(got'.plain) = s.content
                                           /\ s.content.len \in Nat /\ s.content.len <= c.room
                                           /\ got'.plainLen = s.content.len
      OBVIOUS
    <3>1. s = ExpectedSeal(c, wire, s.content) /\ got'.plain = {s.content}
      BY <2>1, <2>3
    <3>2. /\ s.content.len \in Nat /\ s.content.len <= c.room
          /\ s.content.len = The(Carried(c, wire)).len - TagLen(c.api, ReadAlg(c, wire))
      BY <2>1, <2>2, <3>1, PlainLen
    <3> QED BY <2>2, <2>3, <3>1, <3>2, TheOne
  <2>5. Typed'
    BY <1>2, <1>3, <1>7, <2>4 DEF Inv, Typed, Sending, Receiving, Shape
  <2>6. NothingLeftBehind'
    BY <1>2, <1>7 DEF NothingLeftBehind
  <2>7. AlgIsVouchedFor'
    <3>1. got'.hdr.alg = IF c.api = "hpke" THEN AlgOf(wire.prot, wire.unprot) ELSE ReadAlg(c, wire)
      BY <2>2, <2>3 DEF HeaderRead, NoHdr, ReadAlg, UsedAlg, AlgOf
    <3>2. \/ c.key.alg = got'.hdr.alg
          \/ <<"alg", got'.hdr.alg>> \in IF c.api = "sign" THEN Signer(c, wire).prot ELSE wire.prot
          \/ c.api = "hpke" /\ ~ Has(wire.prot \cup wire.unprot, "alg")
      BY <2>2, <3>1, Vouched
    <3>3. Signer(c, wire)' = Signer(c, wire)
      BY <1>2 DEF Signer
    <3> QED BY <1>2, <1>7, <3>2, <3>3 DEF AlgIsVouchedFor
  <2>8. OutputsTellMessage'
    <3>1. got'.hdr.detached = (wire.body = Null) /\ got'.hdr.fields = wire.prot \cup wire.unprot
      BY <2>2, <2>3 DEF HeaderRead, NoHdr
    <3>2. ASSUME c.api = "sign", NEW t \in Signer(c, wire).sig.seal PROVE t.alg = got'.hdr.alg
      <4>1. SealedBytes(c, wire) = Signer(c, wire).sig
        BY <3>2 DEF SealedBytes, Fourth, Opens
      <4>2. t = s
        BY <2>1, <3>2, <4>1
      <4>3. s.alg = ReadAlg(c, wire)
        BY <2>1 DEF ExpectedSeal, Seal
      <4>4. got'.hdr.alg = ReadAlg(c, wire)
        BY <2>2, <2>3, <3>2 DEF HeaderRead
      <4> QED BY <4>2, <4>3, <4>4
    <3>3. Signer(c, wire)' = Signer(c, wire)
      BY <1>2 DEF Signer
    <3> QED BY <1>2, <1>7, <2>3, <2>4, <3>1, <3>2, <3>3 DEF OutputsTellMessage
  <2>9. PassesWholeMessages'
    BY <1>2, <1>7, <2>2, ReadOk, WholeMessage DEF PassesWholeMessages
  <2>10. Given' \subseteq sealed'
    BY <1>1, <1>2, <1>7, GivesSealed
  <2>11. (Idle /\ ret = "ok" => \A k \in call : Opens(k.api) => The(got.plain).len <= k.room)'
    BY <1>2, <2>4
  <2> QED BY <1>4, <1>5, <2>5, <2>6, <2>7, <2>8, <2>9, <2>10, <2>11 DEF Inv, AtRest
<1> QED BY <1>6, <1>7

-----------------------------------------------------------------------------
(* The theorems.                                                           *)

LEMMA Stutter == Inv /\ UNCHANGED vars => Inv'
<1> SUFFICES ASSUME Inv, UNCHANGED vars PROVE Inv'
  OBVIOUS
<1>1. UNCHANGED <<wire, pc, ret, req, call, fault, out, got, scratch, sealed, origin>>
  BY DEF vars, control
<1>2. Typed' /\ Writing' /\ Reading'
  BY <1>1 DEF Inv, Typed, Sending, Receiving, Shape, Writing, Reading, Sent
<1>3. Given' = Given
  BY <1>1 DEF Given, Idle
<1>4. NothingLeftBehind' /\ NoPartialMessage' /\ PassesWholeMessages'
  BY <1>1 DEF Inv, AtRest, NothingLeftBehind, NoPartialMessage, PassesWholeMessages, Idle
<1>5. \A c \in call : Signer(c, wire)' = Signer(c, wire)
  BY <1>1 DEF Signer
<1>6. AlgIsVouchedFor' /\ OutputsTellMessage'
  BY <1>1, <1>5 DEF Inv, AtRest, AlgIsVouchedFor, OutputsTellMessage, Idle
<1> QED BY <1>1, <1>2, <1>3, <1>4, <1>6 DEF Inv, AtRest, Idle

\* The inductive invariant holds in every reachable state.
THEOREM AlwaysInv == Spec => []Inv
<1>1. Inv /\ [Next]_vars => Inv'
  BY CreateStep, EncodeMac0Step, EncodeHeadStep, EncryptStep, EncodeNullStep, FinishStep,
     TransmitStep, FromPeerStep, ReceiveStep, ReadStep, JudgeStep, OpenStep, ReturnStep, Stutter
  DEF Next
<1> QED BY InitInv, <1>1, PTL DEF Spec

\* Types; a plaintext is never longer than the buffer the caller has for it.
THEOREM TypesHold == Spec => []TypeOK
<1>1. Inv => TypeOK
  BY DEF Inv, Typed, Sending, Receiving, AtRest, TypeOK
<1> QED BY AlwaysInv, <1>1, PTL

\* After a failed call, at whatever stage, the outputs hold nothing: neither a
\* receiver's nor a sender's; and after any call scratch is zero.
THEOREM FailuresLeaveNothing == Spec => []FailureLeavesNothing
<1>1. Inv => FailureLeavesNothing
  BY DEF Inv, AtRest, FailureLeavesNothing
<1> QED BY AlwaysInv, <1>1, PTL

\* Flags, header fields, payload and lengths are those of this message, which
\* is whole; no algorithm is used on the word of an unprotected header alone.
THEOREM SuccessTells == Spec => []SuccessTellsMessage
<1>1. Inv => SuccessTellsMessage
  BY DEF Inv, AtRest, SuccessTellsMessage
<1> QED BY AlwaysInv, <1>1, PTL

-----------------------------------------------------------------------------
(* Round trip: what the receiver's checks ask, the sender's have seen to.  *)

\* Where no label comes twice, an entry is found by its label.
LEMMA Finds ==
    ASSUME NEW bucket, LabelsOnce(bucket), NEW l, NEW v, <<l, v>> \in bucket
    PROVE  Has(bucket, l) /\ Value(bucket, l) = v
<1> DEFINE r == CHOOSE p \in bucket : p[1] = l
<1>1. <<l, v>>[1] = l /\ <<l, v>>[2] = v
  OBVIOUS
<1>2. r \in bucket /\ r[1] = l
  BY <1>1
<1>3. Value(bucket, l) = r[2]
  BY DEF Value
<1> HIDE DEF r
<1>4. r = <<l, v>>
  BY <1>1, <1>2 DEF LabelsOnce
<1>5. Has(bucket, l)
  BY <1>1 DEF Has
<1> QED BY <1>1, <1>3, <1>4, <1>5

\* A message names its algorithm under protection.
LEMMA MessageAlg ==
    ASSUME NEW q \in Requests, SenderCode(q) = "ok"
    PROVE  /\ Has(Message(q).prot, "alg")
           /\ AlgOf(Message(q).prot, Message(q).unprot) = q.alg
<1> DEFINE m == Message(q)
<1>1. LabelsOnce(m.prot \cup m.unprot)
  BY MessageOk DEF IsMessage
<1>2. m.prot = {<<"alg", q.alg>>}
  BY DEF Message, Prot
<1> HIDE DEF m
<1>3. <<"alg", q.alg>> \in m.prot \cup m.unprot
  BY <1>2
<1>4. Has(m.prot \cup m.unprot, "alg") /\ Value(m.prot \cup m.unprot, "alg") = q.alg
  BY <1>1, <1>3, Finds
<1>5. <<"alg", q.alg>>[1] = "alg"
  OBVIOUS
<1>6. Has(m.prot, "alg")
  BY <1>2, <1>5 DEF Has
<1> QED BY <1>4, <1>6 DEF AlgOf, m

LEMMA ReadAlgOf ==
    ASSUME NEW q \in Requests, SenderCode(q) = "ok", NEW c, c.api = q.api
    PROVE  ReadAlg(c, Message(q)) = q.alg
<1>1. q.api \in {"mac0", "enc0", "hpke"} /\ (q.api = "hpke" => q.alg = "hpke0")
  BY RequestsAssumption
<1> QED BY <1>1, MessageAlg DEF ReadAlg

\* What a receiver that answers opens is what the sender made.
LEMMA CarriedOf ==
    ASSUME NEW q \in Requests, SenderCode(q) = "ok", wire = Message(q),
           NEW c \in Calls, Answers(c, q)
    PROVE  /\ q.api = "mac0" => Carried(c, wire) # {} /\ The(Carried(c, wire)) = Content(q)
           /\ Opens(q.api) => Carried(c, wire) = {Ciphertext(q)}
                              /\ The(Carried(c, wire)) = Ciphertext(q)
<1>1. wire.body = {} => c.detached = "aside"
  BY DEF Answers, Null
<1>2. Carried(c, wire) = IF wire.body = {} THEN wire.aside ELSE wire.body
  BY <1>1 DEF Carried, Supplied, Null
<1>3. CASE q.api = "mac0"
  <2>1. wire.body = q.payload /\ wire.aside = q.apart
    BY <1>3 DEF Message
  <2>2. q.payload = {} <=> q.apart # {}
    BY <1>3, MacAsked
  <2>3. The(Carried(c, wire)) = Content(q)
    BY <1>2, <2>1 DEF Content, Null
  <2> QED BY <1>2, <1>3, <2>1, <2>2, <2>3 DEF Opens
<1>4. CASE q.api # "mac0"
  <2>1. \/ wire.body = {} /\ wire.aside = {Ciphertext(q)}
        \/ wire.body = {Ciphertext(q)}
    BY <1>4 DEF Message, Null
  <2>2. Carried(c, wire) = {Ciphertext(q)}
    BY <1>2, <2>1
  <2> QED BY <1>4, <2>2, TheOne
<1> QED BY <1>3, <1>4

\* It is read,
LEMMA ReadsMessage ==
    ASSUME NEW q \in Requests, SenderCode(q) = "ok", wire = Message(q),
           NEW c \in Calls, Answers(c, q)
    PROVE  ReadCode(c, wire) = "ok"
<1>1. q.api \in {"mac0", "enc0", "hpke"} /\ c.api = q.api
  BY RequestsAssumption DEF Answers
<1>2. /\ wire.tag = Type(c.api) /\ wire.count = Fields(c.api) /\ wire.hdrs = "ok"
      /\ wire.last = "bstr" /\ ~ wire.trailing
      /\ wire.prot = {<<"alg", q.alg>>} /\ wire.unprot = Unprot(q)
  BY <1>1 DEF Message, Prot
<1>3. c.api = "hpke" => HpkeHdrCode(wire) = "ok"
  <2> SUFFICES ASSUME c.api = "hpke" PROVE HpkeHdrCode(wire) = "ok"
    OBVIOUS
  <2>1. q.alg = "hpke0" /\ wire.unprot = Kid(q) \cup {<<"ek", Ek(q)>>}
    BY <1>1, <1>2, RequestsAssumption DEF Unprot
  <2>2. LabelsOnce(wire.prot \cup wire.unprot)
    BY MessageOk DEF IsMessage
  <2>3. Kid(q) \subseteq {<<"kid", q.kid>>}
    BY DEF Kid
  <2>4. \A p \in wire.prot : p[1] = "alg"
    BY <1>2
  <2>5. \A p \in wire.unprot : p[1] \in {"kid", "ek"}
    BY <2>1, <2>3
  <2>6. LabelsOnce(wire.prot) /\ LabelsOnce(wire.unprot)
    BY <2>2 DEF LabelsOnce
  <2>7. Value(wire.prot, "alg") = "hpke0"
    BY <1>2, <2>1, <2>6, Finds
  <2>8. Has(wire.unprot, "ek") /\ Value(wire.unprot, "ek") = Ek(q)
    BY <2>1, <2>6, Finds
  <2>9. Ek(q).len = HpkeEncSz
    BY DEF Ek, Bytes
  <2>10. /\ ~ Has(wire.prot, "ek") /\ ~ Has(wire.prot \cup wire.unprot, "psk")
         /\ ~ Has(wire.unprot, "alg") /\ ~ Has(wire.prot \cup wire.unprot, "iv")
         /\ ~ Has(wire.prot \cup wire.unprot, "partial-iv")
    BY <2>4, <2>5 DEF Has
  <2> QED BY <2>7, <2>8, <2>9, <2>10 DEF HpkeHdrCode, Fails
<1>4. DetachedCode(c, wire) = "ok"
  <2>1. CASE wire.body # {}
    BY <2>1 DEF DetachedCode, Fails, Null
  <2>2. CASE wire.body = {}
    <3>1. Carried(c, wire) = Supplied(c, wire)
      BY <2>2 DEF Carried, Null
    <3>2. Carried(c, wire) # {}
      BY <1>1, CarriedOf DEF Opens
    <3>3. c.api = "enc0" => The(Supplied(c, wire)).len # 0
      <4> SUFFICES ASSUME c.api = "enc0" PROVE The(Supplied(c, wire)).len # 0
        OBVIOUS
      <4>1. The(Supplied(c, wire)) = Ciphertext(q)
        BY <1>1, <3>1, CarriedOf DEF Opens
      <4>2. Ciphertext(q).len = Content(q).len + AeadTagLen[q.alg]
        BY <1>1 DEF Ciphertext, Bytes, TagLen
      <4>3. q.alg \in DOMAIN AeadKeyLen
        BY <1>1, EncAsked
      <4>4. Content(q).len \in Nat
        BY ContentOk
      <4> QED BY <4>1, <4>2, <4>3, <4>4, AlgsAssumption
    <3> QED BY <3>1, <3>2, <3>3 DEF DetachedCode, Fails, Null
  <2> QED BY <2>1, <2>2
<1> DEFINE fourth == CASE c.api = "sign"              -> SignersCode(c, wire)
                       [] c.api \in {"sign1", "mac0"} -> Fails(wire.last # "bstr", "type")
                       [] OTHER                       -> "ok"
<1>5. fourth = "ok"
  <2>1. CASE c.api = "mac0"
    BY <1>2, <2>1 DEF Fails
  <2>2. CASE c.api \in {"enc0", "hpke"}
    BY <2>2
  <2> QED BY <1>1, <2>1, <2>2
<1>6. /\ Fails(wire.tag \notin {"none", Type(c.api)}, "tag") = "ok"
      /\ Fails(wire.count # Fields(c.api), "malformed") = "ok"
      /\ Fails(wire.hdrs # "ok", "hdr") = "ok"
      /\ (IF c.api = "hpke" THEN HpkeHdrCode(wire) ELSE "ok") = "ok"
      /\ Fails(wire.trailing, "malformed") = "ok"
  BY <1>2, <1>3 DEF Fails
<1> HIDE DEF fourth
<1>7. First(<<Fails(wire.tag \notin {"none", Type(c.api)}, "tag"),
            Fails(wire.count # Fields(c.api), "malformed"),
            Fails(wire.hdrs # "ok", "hdr"),
            IF c.api = "hpke" THEN HpkeHdrCode(wire) ELSE "ok",
            DetachedCode(c, wire), fourth,
            Fails(wire.trailing, "malformed")>>) = "ok"
  BY <1>4, <1>5, <1>6, SevenIff
<1> QED BY <1>7, Zenon DEF ReadCode, fourth

\* judged fit,
LEMMA JudgesMessage ==
    ASSUME NEW q \in Requests, SenderCode(q) = "ok", wire = Message(q),
           NEW c \in Calls, Answers(c, q), got.hdr = HeaderRead(NoHdr, wire)
    PROVE  JudgeCode(c, wire) = "ok"
<1>1. q.api \in {"mac0", "enc0", "hpke"} /\ c.api = q.api
  BY RequestsAssumption DEF Answers
<1>2. UsedAlg(c, wire) = q.alg
  BY <1>1, UsedIsRead, ReadAlgOf
<1>3. PolicyCode(c.key, wire.prot, q.alg) = "ok"
  <2>1. c.key.alg \in {"unset", q.alg}
    BY DEF Answers
  <2>2. Has(wire.prot, "alg")
    BY MessageAlg
  <2>3. Fails(c.key.alg \notin {"unset", q.alg}, "alg") = "ok"
    BY <2>1 DEF Fails
  <2>4. Fails(c.key.alg = "unset" /\ ~ Has(wire.prot, "alg"), "alg") = "ok"
    BY <2>2 DEF Fails
  <2> QED BY <2>3, <2>4, PairIff DEF PolicyCode
<1>4. ScratchCode(c) = "ok"
  BY DEF Answers, ScratchCode, Fails
<1>5. c.key \in Keys /\ q.key \in Keys /\ c.room \in Nat /\ c.key.kty = q.key.kty /\ c.key.id = q.key.id
      /\ c.room >= Content(q).len
  BY CallsAssumption, RequestsAssumption DEF Answers
<1>6. q.key.kty = "symm" => c.key.len = q.key.len
  BY <1>5, KeysAssumption
<1>7. CASE c.api = "mac0"
  <2>1. wire.seal.len = MacTag[q.alg]
    BY <1>1, <1>7 DEF Message, Bytes
  <2>2. /\ q.alg \in DOMAIN MacTag /\ q.key.kty = "symm"
        /\ q.alg \in DOMAIN MacKeyLen => q.key.len \in MacKeyLen[q.alg]
    BY <1>1, <1>7, MacAsked
  <2> DEFINE tag == IF q.alg \notin DOMAIN MacTag THEN "alg" ELSE Fails(wire.seal.len # MacTag[q.alg], "mac")
             len == Fails(q.alg \in DOMAIN MacKeyLen /\ c.key.len \notin MacKeyLen[q.alg], "key")
  <2>3. tag = "ok"
    BY <2>1, <2>2 DEF Fails
  <2>4. len = "ok"
    BY <1>6, <2>2 DEF Fails
  <2> HIDE DEF tag, len
  <2>5. First(<<PolicyCode(c.key, wire.prot, q.alg), tag, ScratchCode(c), len>>) = "ok"
    BY <1>3, <1>4, <2>3, <2>4, FourIff
  <2>6. JudgeMac0(c, wire) = "ok"
    BY <1>2, <2>5, Zenon DEF JudgeMac0, tag, len
  <2> QED BY <1>7, <2>6 DEF JudgeCode
<1>8. CASE c.api = "enc0"
  <2> DEFINE l == The(Carried(c, wire)).len
             iv == {b \in {p[2] : p \in {r \in wire.prot \cup wire.unprot : r[1] = "iv"}} : b.len > 0}
             a == Fails(l < AeadTagLen[q.alg], "malformed")
             b2 == Fails(c.key.len # AeadKeyLen[q.alg], "key")
             d == Fails(l - AeadTagLen[q.alg] > AeadLimit[q.alg], "malformed")
             e == Fails(l - AeadTagLen[q.alg] > c.room, "buffer")
             g == Fails(iv = {} \/ The(iv).len # NonceLen[q.alg], "hdr")
             mid == IF q.alg \notin DOMAIN AeadKeyLen THEN "alg" ELSE First(<<a, b2, d, e, g>>)
  <2>1. /\ q.alg \in DOMAIN AeadKeyLen /\ q.key.kty = "symm" /\ q.key.len = AeadKeyLen[q.alg]
        /\ ~ (The(q.payload).len > AeadLimit[q.alg]) /\ q.iv.len = NonceLen[q.alg]
        /\ q.payload # {}
    BY <1>1, <1>8, EncAsked
  <2>2. l = Content(q).len + AeadTagLen[q.alg] /\ Content(q).len \in Nat
    <3>1. The(Carried(c, wire)) = Ciphertext(q)
      BY <1>1, <1>8, CarriedOf DEF Opens
    <3>2. Ciphertext(q).len = Content(q).len + AeadTagLen[q.alg]
      BY <1>1, <1>8 DEF Ciphertext, Bytes, TagLen
    <3> QED BY <3>1, <3>2, ContentOk
  <2>3. /\ AeadTagLen[q.alg] \in Nat /\ NonceLen[q.alg] > 0
    BY <2>1, AlgsAssumption
  <2>4. Content(q) = The(q.payload)
    BY <2>1 DEF Content, Null
  <2>5. iv = {q.iv}
    <3>1. wire.prot = {<<"alg", q.alg>>} /\ wire.unprot = {<<"iv", q.iv>>}
      BY <1>1, <1>8 DEF Message, Prot, Unprot
    <3>2. {r \in wire.prot \cup wire.unprot : r[1] = "iv"} = {<<"iv", q.iv>>}
      BY <3>1
    <3>3. {p[2] : p \in {<<"iv", q.iv>>}} = {q.iv}
      OBVIOUS
    <3>4. q.iv.len > 0
      BY <2>1, <2>3
    <3> QED BY <3>2, <3>3, <3>4
  <2> HIDE DEF l, iv
  <2>6. a = "ok" /\ b2 = "ok"
    BY <1>6, <2>1, <2>2, <2>3 DEF Fails
  <2>7. d = "ok"
    BY <2>1, <2>2, <2>3, <2>4 DEF Fails
  <2>8. e = "ok"
    BY <1>5, <2>2, <2>3 DEF Fails
  <2>9. g = "ok"
    BY <2>1, <2>5, TheOne DEF Fails
  <2> HIDE DEF a, b2, d, e, g
  <2>10. First(<<a, b2, d, e, g>>) = "ok"
    BY <2>6, <2>7, <2>8, <2>9, FiveIff
  <2>11. mid = "ok"
    BY <2>1, <2>10
  <2> HIDE DEF mid
  <2>12. First(<<PolicyCode(c.key, wire.prot, q.alg), mid, ScratchCode(c)>>) = "ok"
    BY <1>3, <1>4, <2>11, TripleIff
  <2>13. JudgeEncrypt0(c, wire) = "ok"
    BY <1>2, <2>12, Zenon DEF JudgeEncrypt0, mid, a, b2, d, e, g, l, iv
  <2> QED BY <1>8, <2>13 DEF JudgeCode
<1>9. CASE c.api = "hpke"
  <2> DEFINE l == The(Carried(c, wire)).len
  <2>1. l = Content(q).len + HpkeTagLen /\ Content(q).len \in Nat
    <3>1. The(Carried(c, wire)) = Ciphertext(q)
      BY <1>1, <1>9, CarriedOf DEF Opens
    <3>2. Ciphertext(q).len = Content(q).len + HpkeTagLen
      BY <1>1, <1>9 DEF Ciphertext, Bytes, TagLen
    <3> QED BY <3>1, <3>2, ContentOk
  <2>2. Hpke0ValidateKey(c.key, TRUE) = "ok"
    BY <1>9 DEF Answers
  <2> HIDE DEF l
  <2>3. Fails(l < HpkeTagLen, "malformed") = "ok" /\ Fails(l - HpkeTagLen > c.room, "buffer") = "ok"
    BY <1>5, <2>1, AlgsAssumption DEF Fails
  <2> DEFINE a == Fails(l < HpkeTagLen, "malformed")
             b == Fails(l - HpkeTagLen > c.room, "buffer")
             d == Hpke0ValidateKey(c.key, TRUE)
  <2>4. a = "ok" /\ b = "ok" /\ d = "ok"
    BY <2>2, <2>3
  <2> HIDE DEF a, b, d
  <2>5. First(<<a, b, ScratchCode(c), d>>) = "ok"
    BY <1>4, <2>4, FourIff
  <2>6. JudgeHpke(c, wire) = "ok"
    BY <2>5, Zenon DEF JudgeHpke, l, a, b, d
  <2> QED BY <1>9, <2>6 DEF JudgeCode
<1> QED BY <1>1, <1>7, <1>8, <1>9

\* and opened.
LEMMA OpensMessage ==
    ASSUME NEW q \in Requests, SenderCode(q) = "ok", wire = Message(q),
           NEW c \in Calls, Answers(c, q), got.hdr = HeaderRead(NoHdr, wire)
    PROVE  Verifies(c, wire)
<1>1. q.api \in {"mac0", "enc0", "hpke"} /\ c.api = q.api
  BY RequestsAssumption DEF Answers
<1>2. UsedAlg(c, wire) = q.alg
  BY <1>1, UsedIsRead, ReadAlgOf
<1>3. wire.prot = Prot(q) /\ wire.unprot = Unprot(q)
  BY DEF Message
<1>4. SealFor(q) \in SealedBytes(c, wire).seal
  <2>1. CASE q.api = "mac0"
    BY <1>1, <2>1 DEF SealedBytes, Opens, Fourth, Message, Bytes
  <2>2. CASE q.api # "mac0"
    <3>1. SealedBytes(c, wire) = Ciphertext(q)
      BY <1>1, <2>2, CarriedOf DEF SealedBytes, Opens
    <3> QED BY <3>1 DEF Ciphertext, Bytes
  <2> QED BY <2>1, <2>2
<1>5. NonceOf(c, wire) = CASE q.api = "mac0" -> Null
                           [] q.api = "enc0" -> {q.iv}
                           [] q.api = "hpke" -> {Ek(q)}
  <2>1. LabelsOnce(wire.prot \cup wire.unprot)
    BY MessageOk DEF IsMessage
  <2>2. LabelsOnce(wire.unprot)
    BY <2>1 DEF LabelsOnce
  <2>3. CASE q.api = "mac0"
    BY <1>1, <2>3 DEF NonceOf
  <2>4. CASE q.api = "enc0"
    <3>1. <<"iv", q.iv>> \in wire.prot \cup wire.unprot
      BY <1>3, <2>4 DEF Unprot
    <3>2. Value(wire.prot \cup wire.unprot, "iv") = q.iv
      BY <2>1, <3>1, Finds
    <3> QED BY <1>1, <2>4, <3>2 DEF NonceOf
  <2>5. CASE q.api = "hpke"
    <3>1. <<"ek", Ek(q)>> \in wire.unprot
      BY <1>3, <2>5 DEF Unprot
    <3>2. Value(wire.unprot, "ek") = Ek(q)
      BY <2>2, <3>1, Finds
    <3> QED BY <1>1, <2>5, <3>2 DEF NonceOf
  <2> QED BY <1>1, <2>3, <2>4, <2>5
<1>6. (IF Opens(c.api) THEN SealFor(q).content ELSE The(Carried(c, wire))) = Content(q)
  BY <1>1, CarriedOf, SealFact DEF Opens
<1>7. c.key.id = q.key.id /\ c.aad = q.aad /\ c.api # "sign"
  BY <1>1 DEF Answers
<1>8. SealFor(q) = Seal(c.api, c.key, UsedAlg(c, wire), wire.prot,
                IF c.api = "sign" THEN {Signer(c, wire).prot} ELSE Null,
                c.aad, IF Opens(c.api) THEN SealFor(q).content ELSE The(Carried(c, wire)), NonceOf(c, wire))
  BY <1>1, <1>2, <1>3, <1>5, <1>6, <1>7, Zenon DEF SealFor, Seal
<1>9. Fits(c, wire)
  BY <1>4, <1>8, Zenon DEF Fits
<1>10. c.key.obj # "empty"
  <2>1. CASE q.api = "hpke"
    <3>1. Hpke0ValidateKey(c.key, TRUE) = "ok"
      BY <1>1, <2>1 DEF Answers
    <3>2. Fails(c.key.att # "ecc" \/ c.key.kty # "ec2" \/ c.key.crv # "p256" \/ c.key.obj # "p256",
                  "key") = "ok"
      BY <3>1, TripleOf DEF Hpke0ValidateKey
    <3> QED BY <3>2 DEF Fails
  <2>2. CASE q.api # "hpke"
    <3>1. q.key.kty = "symm"
      BY <1>1, <2>2, MacAsked, EncAsked
    <3>2. c.key \in Keys /\ c.key.kty = "symm"
      BY <3>1, CallsAssumption DEF Answers
    <3> QED BY <3>2, KeysAssumption
  <2> QED BY <2>1, <2>2
<1> QED BY <1>9, <1>10 DEF Verifies

-----------------------------------------------------------------------------
(* The second layer of the invariant.                                      *)

\* What becomes of a message on its way from a sender to a receiver.
Tracking ==
    /\ \A q \in origin : SenderCode(q) = "ok" /\ wire = Message(q)
    /\ Idle /\ ret = "ok" => \A q \in req : SenderCode(q) = "ok" /\ out.msg = {Message(q)}
    /\ pc = "return" => \A c \in call, q \in origin : Answers(c, q) /\ ~ fault => ret = "ok"
    /\ RoundTrip

LEMMA InitTracks == Init => Tracking
BY DEF Init, Tracking, RoundTrip

\* A sender at work.
LEMMA SendTracks ==
    ASSUME Tracking, pc' # "idle", pc' # "return", UNCHANGED <<wire, origin>>
    PROVE  Tracking'
BY DEF Tracking, RoundTrip, Idle

LEMMA FinishTracks == Inv /\ Tracking /\ Finish => Tracking'
<1> SUFFICES ASSUME Inv, Tracking, Finish PROVE Tracking'
  OBVIOUS
<1>1. PICK q \in Requests : req = {q}
  BY DEF Inv, Typed, Sending, Finish
<1>2. The(req) = q /\ call = {} /\ (ret = "ok" => SenderCode(q) = "ok")
  BY <1>1, TheOne DEF Inv, Typed, Writing, Sending, Finish
<1>3. /\ pc' = "idle" /\ ret' = ret /\ req' = {q} /\ call' = {}
      /\ UNCHANGED <<wire, origin>>
      /\ ret = "ok" => out' = Published(q)
  BY <1>1, <1>2 DEF Finish
<1>4. ret = "ok" => out'.msg = {Message(q)}
  BY <1>3 DEF Published, Inv, Typed, Shape
<1> QED BY <1>2, <1>3, <1>4 DEF Tracking, RoundTrip, Idle

LEMMA TransmitTracks == Inv /\ Tracking /\ Transmit => Tracking'
<1> SUFFICES ASSUME Inv, Tracking, NEW m \in out.msg, Arrives(m, req), ret = "ok" PROVE Tracking'
  BY DEF Transmit
<1>1. /\ wire' = m /\ origin' = req /\ req' = {} /\ call' = {} /\ pc = "idle" /\ pc' = pc
  BY DEF Arrives, Idle
<1>2. \A q \in req : SenderCode(q) = "ok" /\ m = Message(q)
  BY <1>1 DEF Tracking, Idle
<1> QED BY <1>1, <1>2 DEF Tracking, RoundTrip, Idle

LEMMA FromPeerTracks == Inv /\ Tracking /\ (\E m \in Peers : FromPeer(m)) => Tracking'
<1> SUFFICES ASSUME Inv, Tracking, NEW m \in Peers, Arrives(m, {}) PROVE Tracking'
  BY DEF FromPeer
<1>1. wire' = m /\ origin' = {} /\ req' = {} /\ call' = {} /\ pc = "idle" /\ pc' = pc
  BY DEF Arrives, Idle
<1> QED BY <1>1 DEF Tracking, RoundTrip, Idle

\* A receiver at work: when it gives up, it is not one that answers.
LEMMA ReceiverTracks ==
    ASSUME Inv, Tracking, NEW c \in Calls, call' = {c}, req' = {}, pc' # "idle",
           UNCHANGED <<wire, origin>>,
           \A q \in Requests : /\ pc' = "return" /\ SenderCode(q) = "ok" /\ wire = Message(q)
                               /\ Answers(c, q) /\ ~ fault'
                               => ret' = "ok"
    PROVE  Tracking'
<1>1. \A q \in origin' : SenderCode(q) = "ok" /\ wire' = Message(q)
  BY DEF Tracking
<1>2. ASSUME pc' = "return", NEW q \in origin', Answers(c, q)', ~ fault' PROVE ret' = "ok"
  <2>1. q \in Requests
    BY DEF Inv, Typed
  <2>2. Answers(c, q)
    BY <1>2 DEF Answers
  <2> QED BY <1>1, <1>2, <2>1, <2>2
<1>3. ~ Idle'
  BY DEF Idle
<1>4. RoundTrip'
  BY <1>3 DEF RoundTrip
<1> QED BY <1>1, <1>2, <1>3, <1>4 DEF Tracking

LEMMA ReceiveTracks == Inv /\ Tracking /\ (\E c \in Calls : Receive(c)) => Tracking'
<1> SUFFICES ASSUME Inv, Tracking, NEW c \in Calls, Receive(c) PROVE Tracking'
  OBVIOUS
<1>1. /\ call' = {c} /\ req' = {} /\ UNCHANGED <<wire, origin>>
      /\ pc' = IF ReceiverCode(c) = "ok" THEN "read" ELSE "return"
      /\ ret' = ReceiverCode(c)
  BY DEF Receive, Stage
<1>2. ASSUME NEW q \in Requests, SenderCode(q) = "ok", Answers(c, q) PROVE ReceiverCode(c) = "ok"
  <2>1. c.api = q.api /\ c.key.kty = q.key.kty /\ ~ c.null /\ c.flags
    BY <1>2 DEF Answers
  <2>2. c.api \in {"mac0", "enc0"} => q.key.kty = "symm"
    BY <1>2, <2>1, MacAsked, EncAsked
  <2> DEFINE a == Fails(c.null, "arg")
             b == Fails(~ c.flags, "arg")
             d == Fails(c.api \in {"mac0", "enc0"} /\ c.key.kty # "symm", "key")
  <2>3. a = "ok" /\ b = "ok" /\ d = "ok"
    BY <2>1, <2>2 DEF Fails
  <2> HIDE DEF a, b, d
  <2>4. First(<<a, b, d>>) = "ok"
    BY <2>3, TripleIff
  <2> QED BY <2>4, Zenon DEF ReceiverCode, a, b, d
<1> QED BY <1>1, <1>2, ReceiverTracks

LEMMA ReadTracks == Inv /\ Tracking /\ Read => Tracking'
<1> SUFFICES ASSUME Inv, Tracking, Read PROVE Tracking'
  OBVIOUS
<1>1. PICK c \in Calls : call = {c} /\ The(call) = c /\ req = {}
  BY ReceiverRuns DEF Receiving, Read
<1>2. /\ call' = {c} /\ req' = {} /\ UNCHANGED <<wire, origin>>
      /\ pc' = (IF ReadCode(c, wire) = "ok" THEN "judge" ELSE "return")
      /\ ret' = ReadCode(c, wire)
  BY <1>1 DEF Read, Stage
<1>3. \A q \in Requests : SenderCode(q) = "ok" /\ wire = Message(q) /\ Answers(c, q)
                          => ReadCode(c, wire) = "ok"
  BY ReadsMessage
<1> QED BY <1>2, <1>3, ReceiverTracks

LEMMA JudgeTracks == Inv /\ Tracking /\ Judge => Tracking'
<1> SUFFICES ASSUME Inv, Tracking, Judge PROVE Tracking'
  OBVIOUS
<1>1. PICK c \in Calls : call = {c} /\ The(call) = c /\ req = {}
  BY ReceiverRuns DEF Receiving, Judge
<1>2. /\ call' = {c} /\ req' = {} /\ UNCHANGED <<wire, origin>>
      /\ pc' = (IF JudgeCode(c, wire) = "ok" THEN "open" ELSE "return")
      /\ ret' = JudgeCode(c, wire)
  BY <1>1 DEF Judge, Stage
<1>3. got.hdr = HeaderRead(NoHdr, wire)
  BY <1>1 DEF Judge, Inv, Reading
<1>4. \A q \in Requests : SenderCode(q) = "ok" /\ wire = Message(q) /\ Answers(c, q)
                          => JudgeCode(c, wire) = "ok"
  BY <1>3, JudgesMessage
<1> QED BY <1>2, <1>4, ReceiverTracks

LEMMA OpenTracks == Inv /\ Tracking /\ Open => Tracking'
<1> SUFFICES ASSUME Inv, Tracking, Open PROVE Tracking'
  OBVIOUS
<1>1. PICK c \in Calls : call = {c} /\ The(call) = c /\ req = {}
  BY ReceiverRuns DEF Receiving, Open
<1>2. /\ call' = {c} /\ req' = {} /\ UNCHANGED <<wire, origin>> /\ pc' = "return"
      /\ ~ fault' /\ Verifies(c, wire) => ret' = "ok"
  BY <1>1 DEF Open, Stage
<1>3. got.hdr = HeaderRead(NoHdr, wire)
  BY <1>1 DEF Open, Inv, Reading
<1>4. \A q \in Requests : SenderCode(q) = "ok" /\ wire = Message(q) /\ Answers(c, q)
                          => Verifies(c, wire)
  BY <1>3, OpensMessage
<1> QED BY <1>2, <1>4, ReceiverTracks

\* What comes out is the content of the one seal of the message.
LEMMA ReturnTracks == Inv /\ Tracking /\ Return => Tracking'
<1> SUFFICES ASSUME Inv, Tracking, Return PROVE Tracking'
  OBVIOUS
<1>1. PICK c \in Calls : call = {c} /\ The(call) = c /\ req = {}
  BY ReceiverRuns DEF Receiving, Return
<1>2. /\ pc = "return" /\ pc' = "idle" /\ call' = {c} /\ req' = {} /\ ret' = ret /\ fault' = fault
      /\ UNCHANGED <<wire, origin>>
  BY <1>1 DEF Return
<1>3. ASSUME NEW q \in origin, Answers(c, q), ~ fault
      PROVE  ret = "ok" /\ \A g \in Given' : g.payload = Content(q)
  <2>1. ret = "ok" /\ SenderCode(q) = "ok" /\ wire = Message(q) /\ q \in Requests
    BY <1>1, <1>2, <1>3 DEF Tracking, Inv, Typed
  <2>2. PICK f : Given' = {f} /\ \A t \in SealedBytes(c, wire).seal : f.payload = t.content
    BY <1>1, <1>2, <2>1, GivesSealed
  <2>3. PICK s : SealedBytes(c, wire).seal = {s}
    BY <1>1, <1>2, <2>1, WhatOpened
  <2>4. ReadCode(c, wire) = "ok" /\ IsMessage(wire)
    BY <1>1, <1>2, <2>1, WhatOpened
  <2>5. s \in Seals(wire)
    BY <2>3, <2>4, SealedBytesOk
  <2>6. s = SealFor(q)
    BY <2>1, <2>5, MessageOk
  <2> QED BY <2>1, <2>2, <2>3, <2>6, SealFact
<1>4. RoundTrip'
  <2> SUFFICES ASSUME NEW q \in origin, Answers(c, q)', ~ fault
               PROVE  ret = "ok" /\ \A g \in Given' : g.payload = Content(q)
    BY <1>2 DEF RoundTrip
  <2>1. Answers(c, q)
    BY <1>2 DEF Answers
  <2> QED BY <1>3, <2>1
<1> QED BY <1>2, <1>4 DEF Tracking, Idle

LEMMA StutterTracks == Tracking /\ UNCHANGED vars => Tracking'
<1> SUFFICES ASSUME Tracking, UNCHANGED vars PROVE Tracking'
  OBVIOUS
<1>1. UNCHANGED <<wire, pc, ret, req, call, fault, out, got, scratch, sealed, origin>>
  BY DEF vars, control
<1>2. Given' = Given
  BY <1>1 DEF Given, Idle
<1>3. \A c, q : Answers(c, q)' <=> Answers(c, q)
  BY <1>1 DEF Answers
<1>4. RoundTrip'
  BY <1>1, <1>2, <1>3 DEF Tracking, RoundTrip, Idle
<1> QED BY <1>1, <1>3, <1>4 DEF Tracking, Idle

LEMMA StepTracks == Inv /\ Tracking /\ [Next]_vars => Tracking'
<1> SUFFICES ASSUME Inv, Tracking, [Next]_vars PROVE Tracking'
  OBVIOUS
<1>1. CASE \E q \in Requests : Create(q)
  BY <1>1, SendTracks DEF Create, Stage
<1>2. CASE EncodeMac0 \/ EncodeHead \/ Encrypt \/ EncodeNull
  BY <1>2, SendTracks DEF EncodeMac0, EncodeHead, Encrypt, EncodeNull, Stage
<1> QED BY <1>1, <1>2, FinishTracks, TransmitTracks, FromPeerTracks, ReceiveTracks, ReadTracks,
           JudgeTracks, OpenTracks, ReturnTracks, StutterTracks DEF Next

\* Whatever a sender returns as a message, the receiver with the key, the room
\* and what was left out of the message accepts, and gives back the content.
THEOREM WhatIsCreatedOpens == Spec => []RoundTrip
<1>1. Inv /\ Tracking /\ [Next]_vars => Tracking'
  BY StepTracks
<1>2. Spec => []Tracking
  BY InitTracks, <1>1, AlwaysInv, PTL DEF Spec
<1>3. Tracking => RoundTrip
  BY DEF Tracking
<1> QED BY <1>2, <1>3, PTL

-----------------------------------------------------------------------------
(* The refinement: the calls keep what Delivery promises.                  *)

LEMMA InitRefines == Init => D!Init
BY DEF Init, D!Init, Given, Facts

\* A call that begins, or runs, takes back what the last one gave.
LEMMA TakesBack ==
    ASSUME Given' = {}, sealed' = sealed
    PROVE  D!Next \/ UNCHANGED <<sealed, Given>>
BY DEF D!Next, D!Withdraw

LEMMA StepRefines == Inv /\ [Next]_vars => [D!Next]_<<sealed, Given>>
<1> SUFFICES ASSUME Inv, [Next]_vars PROVE D!Next \/ UNCHANGED <<sealed, Given>>
  OBVIOUS
<1>1. CASE \E q \in Requests : Create(q)
  <2>1. pc' # "idle" /\ sealed' = sealed
    BY <1>1 DEF Create, Stage
  <2> QED BY <2>1, TakesBack DEF Given, Idle
<1>2. CASE EncodeMac0 \/ EncodeHead \/ Encrypt \/ EncodeNull
  <2>1. pc' # "idle" /\ sealed' = sealed
    BY <1>2 DEF EncodeMac0, EncodeHead, Encrypt, EncodeNull, Stage
  <2> QED BY <2>1, TakesBack DEF Given, Idle
<1>3. CASE Finish
  <2>1. PICK q \in Requests : req = {q}
    BY <1>3 DEF Inv, Typed, Sending, Finish
  <2>2. The(req) = q /\ call = {} /\ (ret = "ok" => SenderCode(q) = "ok")
    BY <1>3, <2>1, TheOne DEF Inv, Typed, Writing, Sending, Finish
  <2>3. Given = {} /\ Given' = {}
    BY <1>3, <2>2 DEF Finish, Given, Idle
  <2>4. sealed' = IF ret = "ok" THEN sealed \cup {RequestFact(q)} ELSE sealed
    BY <1>3, <2>2 DEF Finish
  <2>5. ret = "ok" => RequestFact(q) \in Facts
    BY <2>2, ContentOk
  <2>6. CASE ret = "ok"
    BY <2>3, <2>4, <2>5, <2>6 DEF D!Next, D!Seal
  <2>7. CASE ret # "ok"
    BY <2>3, <2>4, <2>7
  <2> QED BY <2>6, <2>7
<1>4. CASE Transmit \/ \E m \in Peers : FromPeer(m)
  <2>1. call' = {} /\ sealed' = sealed
    BY <1>4 DEF Transmit, FromPeer, Arrives
  <2> QED BY <2>1, TakesBack DEF Given
<1>5. CASE \E c \in Calls : Receive(c)
  <2>1. pc' # "idle" /\ sealed' = sealed
    BY <1>5 DEF Receive, Stage
  <2> QED BY <2>1, TakesBack DEF Given, Idle
<1>6. CASE Read \/ Judge \/ Open
  <2>1. pc' # "idle" /\ sealed' = sealed
    BY <1>6 DEF Read, Judge, Open, Stage
  <2> QED BY <2>1, TakesBack DEF Given, Idle
<1>7. CASE Return
  <2>1. PICK c \in Calls : call = {c} /\ req = {}
    BY <1>7, ReceiverRuns DEF Receiving, Return
  <2>2. pc = "return" /\ ret' = ret /\ sealed' = sealed
    BY <1>7 DEF Return
  <2>3. Given = {}
    BY <2>2 DEF Given, Idle
  <2>4. CASE ret # "ok"
    BY <2>2, <2>4, TakesBack DEF Given
  <2>5. CASE ret = "ok"
    <3>1. Given' \subseteq sealed /\ \E f : Given' = {f}
      BY <1>7, <2>1, <2>2, <2>5, GivesSealed
    <3>2. sealed \subseteq Facts
      BY DEF Inv, Typed
    <3> QED BY <2>2, <2>3, <3>1, <3>2 DEF D!Next, D!Give
  <2> QED BY <2>4, <2>5
<1>8. CASE UNCHANGED vars
  BY <1>8 DEF vars, control, Given, Idle
<1> QED BY <1>1, <1>2, <1>3, <1>4, <1>5, <1>6, <1>7, <1>8 DEF Next

\* Every behaviour of the calls is one of Delivery: an application is given
\* nothing, or what a holder of the key sealed.
THEOREM Refines == Spec => Promise
<1>1. Spec => D!Init /\ [][D!Next]_<<sealed, Given>>
  BY InitRefines, StepRefines, AlwaysInv, PTL DEF Spec
<1> QED BY <1>1 DEF Promise, D!Spec

=============================================================================
