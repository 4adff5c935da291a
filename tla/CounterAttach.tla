---------------------------- MODULE CounterAttach ----------------------------
(***************************************************************************)
(* Countersignatures (src/src/wolfcose_countersign.c): reading the target  *)
(* message, planning and attaching a countersignature in the bytes of the  *)
(* message, and verifying one.                                             *)
(*                                                                         *)
(* A message is a sequence of cells <<kind, value>>.  The head of an       *)
(* array, map or byte string takes one cell, or two when its argument is   *)
(* above Inline; a byte string is its head and its content.  Positions are *)
(* those of TLA+ sequences, 0 stands for a refused parse.  A signature is  *)
(* ideal: its first cell says what was signed, with which key.             *)
(*                                                                         *)
(* Definitions marked (slip) are bugs the properties must tell apart from  *)
(* the code.                                                               *)
(***************************************************************************)
EXTENDS Checks, Functions

CONSTANTS
    MaxItems,  \* WOLFCOSE_MAX_MAP_ITEMS
    Inline,    \* the largest argument of a one-cell head (23 in CBOR)
    Messages,  \* the messages an application may start from
    Keys, Pin, Fit, HasPrivate,   \* WOLFCOSE_KEYs: alg pin, kind, private half
    SignatureLen,  \* [alg -> signature length]
    Requests,  \* countersignatures an application may ask for
    DetachedPayload, Aad,  \* the detached payload and the external AAD it supplies
    MaxAdds    \* bound: successful calls

CounterAlgs == DOMAIN SignatureLen

ASSUME LimitsAssumption == MaxItems \in Nat /\ MaxItems >= 4 /\ Inline \in Nat /\ Inline >= 3
ASSUME KeysAssumption == /\ Pin \in [Keys -> CounterAlgs \cup {"LMS", "unset"}]
                         /\ Fit \in [Keys -> SUBSET CounterAlgs]
                         /\ HasPrivate \in [Keys -> BOOLEAN]
ASSUME SignatureLenAssumption == SignatureLen \in [CounterAlgs -> Nat]
ASSUME MessagesAssumption == \A m \in Messages : Len(m) \in Nat
ASSUME RequestsAssumption ==
    Requests \subseteq [key : Keys, alg : CounterAlgs \cup {"LMS", "none"}, kid : Seq({"kid"}),
                        abbreviated : BOOLEAN]

VARIABLES in,      \* the message the application holds
          addRet,  \* the code of the last call
          outLen,  \* *outLen
          last,    \* ghost: what the last call was asked for
          ran,     \* ghost: the signing backend ran in that call
          backendFault,  \* ghost: and failed, or reported a wrong length
          adds,    \* ghost: calls that succeeded
          read     \* ghost: what a reader makes of "in"

counterVars == <<in, addRet, outLen, last, ran, backendFault, adds, read>>

\* Header labels.
ALG   == 1
CRIT  == 2
KID   == 4
FULL  == 11
ABBR  == 12
LEGACY_FULL == 7
LEGACY_ABBR == 9

CounterType == [l \in {FULL, ABBR, LEGACY_FULL, LEGACY_ABBR} |->
                   IF l \in {FULL, LEGACY_FULL} THEN "array" ELSE "bstr"]

Tags      == {"sign1", "sign", "encrypt0", "encrypt", "mac0", "mac"}
WithOther == {"sign1", "mac0", "mac"}         \* a bstr after the payload
WithChildren == {"sign", "encrypt", "mac"}    \* an array of signers, recipients
Fields(tag) == CASE tag = "encrypt0" -> 3 [] tag = "mac" -> 5 [] OTHER -> 4

-----------------------------------------------------------------------------
(* Cells.                                                                  *)

HeadLen(n) == IF n <= Inline THEN 1 ELSE 2
BstrLen(n) == HeadLen(n) + n

HeadCells(kind, n) == [k \in 1 .. HeadLen(n) |-> IF k = 1 THEN <<kind, n>> ELSE <<"arg", n>>]
Bstr(content) == HeadCells("bstr", Len(content)) \o content

At(buf, p) == IF p \in 1 .. Len(buf) THEN buf[p] ELSE <<"end", "none">>

HeadEnd(buf, kind, p) ==
    IF At(buf, p)[1] = kind /\ p + HeadLen(buf[p][2]) <= Len(buf) + 1
    THEN p + HeadLen(buf[p][2]) ELSE 0

BstrEnd(buf, p) ==
    LET h == HeadEnd(buf, "bstr", p)
    IN  IF h # 0 /\ h + buf[p][2] \in h .. (Len(buf) + 1) THEN h + buf[p][2] ELSE 0

Content(buf, p) == SubSeq(buf, HeadEnd(buf, "bstr", p), BstrEnd(buf, p) - 1)

\* wc_CBOR_SkipItem, n times from position p.
ItemsEnd(buf, n, p) ==
    LET after[m \in Nat, q \in Nat] ==
            IF m = 0 \/ q = 0 THEN q
            ELSE LET kind == At(buf, q)[1]
                     h    == HeadEnd(buf, kind, q)
                 IN  after[m - 1,
                           CASE kind = "array" -> IF h = 0 THEN 0 ELSE after[buf[q][2], h]
                             [] kind = "map"   -> IF h = 0 THEN 0 ELSE after[2 * buf[q][2], h]
                             [] kind = "bstr"  -> BstrEnd(buf, q)
                             [] kind \in {"item", "label", "alg", "null"} -> q + 1
                             [] OTHER          -> 0]
    IN  after[n, p]

\* The pairs of a map whose n pairs start at p, up to the first bad one.
Entries(buf, n, p) ==
    LET pairs[m \in Nat, q \in Nat] ==
            IF m = 0 THEN <<>>
            ELSE LET end == ItemsEnd(buf, 1, q + 1)
                 IN  <<[label |-> IF At(buf, q)[1] = "label" THEN buf[q][2] ELSE 0,
                        start |-> q + 1, end |-> end]>>
                     \o (IF end = 0 THEN <<>> ELSE pairs[m - 1, end])
    IN  pairs[n, p]

Write(buf, to, cells) ==
    SubSeq(buf, 1, to - 1) \o cells \o SubSeq(buf, to + Len(cells), Len(buf))

Move(buf, to, from, n) == Write(buf, to, SubSeq(buf, from, from + n - 1))   \* memmove

-----------------------------------------------------------------------------
(* Reading a message.                                                      *)

\* The header rules: crit is for the protected bucket, a label appears once in
\* both buckets, kid is a byte string.
EntryCode(buf, es, k, protected, types) ==
    LET e == es[k]
    IN  First(<<Fails(e.label = 0, "malformed"),
                Fails(e.label = CRIT, "hdr"),
                Fails(e.label \in protected \/ \E j \in 1 .. (k - 1) : es[j].label = e.label,
                      "malformed"),
                Fails(e.end = 0, "malformed"),
                Fails(e.label \in DOMAIN types /\ At(buf, e.start)[1] # types[e.label],
                      "malformed")>>)

MapCode(buf, es, protected, types) ==
    First([k \in 1 .. Len(es) |-> EntryCode(buf, es, k, protected, types)])

MapOf(buf, p, h, n, es, protected) ==
    [code |-> First(<<Fails(h = 0, "malformed"), Fails(n > MaxItems, "malformed"),
                      MapCode(buf, es, protected, CounterType),
                      MapCode(buf, es, protected, [l \in {KID} |-> "bstr"])>>),
     start |-> p, content |-> h, count |-> n, entries |-> es,
     end |-> IF es = <<>> THEN h ELSE es[Len(es)].end]

\* wolfCose_ParseCounterMap, then wolfCose_DecodeUnprotectedHdr over the same map.
ParseCounterMap(buf, p, protected) ==
    LET h == HeadEnd(buf, "map", p)
        n == IF h = 0 THEN 0 ELSE buf[p][2]
    IN  MapOf(buf, p, h, n, IF n > MaxItems THEN <<>> ELSE Entries(buf, n, h), protected)

\* What follows the payload: a tag or signature, signers or recipients.
TailEnd(buf, tag, p) ==
    LET other == IF tag \in WithOther THEN BstrEnd(buf, p) ELSE p
        h     == HeadEnd(buf, "array", other)
    IN  IF tag \notin WithChildren THEN other
        ELSE IF h # 0 /\ buf[other][2] > 0
                /\ \A k \in h .. (h + buf[other][2] - 1) : At(buf, k)[1] = "child"
        THEN h + buf[other][2] ELSE 0

TargetOf(buf, arr, body, labels, map, supplied) ==
    LET tag      == At(buf, 1)
        detached == At(buf, map.end)[1] = "null"
        payEnd   == IF detached THEN map.end + 1 ELSE BstrEnd(buf, map.end)
    IN  [code |-> First(<<Fails(tag[1] # "tag" \/ tag[2] \notin Tags, "tag"),
                          Fails(arr = 0 \/ At(buf, 2)[2] # Fields(tag[2]), "malformed"),
                          Fails(map.start = 0, "malformed"),
                          Fails(labels \cap DOMAIN CounterType # {}, "hdr"),
                          map.code,
                          Fails(detached /\ ~ supplied, "detached"),
                          Fails(payEnd = 0, "malformed"),
                          Fails(TailEnd(buf, tag[2], payEnd) # Len(buf) + 1, "malformed")>>),
         body |-> body, map |-> map, payload |-> IF detached THEN DetachedPayload
                                                 ELSE Content(buf, map.end),
         other |-> IF tag[2] \in WithOther THEN <<Content(buf, payEnd)>> ELSE <<>>]

\* wolfCose_ParseCounterTarget.
ParseCounterTarget(buf, supplied) ==
    LET arr    == HeadEnd(buf, "array", 2)
        body   == Content(buf, arr)
        labels == IF body = <<>> THEN {} ELSE body[1][2]
    IN  TargetOf(buf, arr, body, labels, ParseCounterMap(buf, BstrEnd(buf, arr), labels),
                 supplied)

Has(t, label) == \E k \in DOMAIN t.map.entries : t.map.entries[k].label = label
Value(t, label) == t.map.entries[CHOOSE k \in DOMAIN t.map.entries :
                                     t.map.entries[k].label = label]

FullCounterOf(buf, start, end, h, n, es) ==
    LET arr    == HeadEnd(buf, "array", start)
        prot   == Content(buf, arr)
        mapEnd == IF es = <<>> THEN h ELSE es[Len(es)].end
        algs   == {k \in DOMAIN es : es[k].label = ALG}
    IN  [code |-> First(<<Fails(arr = 0 \/ At(buf, start)[2] # 3, "malformed"),
                          Fails(BstrEnd(buf, arr) = 0, "malformed"),
                          Fails(h = 0 \/ n > MaxItems, "malformed"),
                          MapCode(buf, es, IF prot = <<>> THEN {} ELSE {ALG},
                                  [l \in {KID, ALG} |-> IF l = KID THEN "bstr" ELSE "alg"]),
                          Fails(mapEnd = 0 \/ BstrEnd(buf, mapEnd) # end, "malformed")>>),
         alg |-> IF prot # <<>> THEN prot[1][2]
                 ELSE IF algs # {} THEN At(buf, es[CHOOSE k \in algs : TRUE].start)[2]
                 ELSE "unset",
         algProtected |-> prot # <<>>,
         prot |-> prot,
         sig |-> Content(buf, mapEnd)]

\* wolfCose_DecodeFullCounter, and wolfCose_ValidateFullCounter for its code.
DecodeFullCounter(buf, start, end) ==
    LET p == BstrEnd(buf, HeadEnd(buf, "array", start))
        h == HeadEnd(buf, "map", p)
        n == IF h = 0 THEN 0 ELSE buf[p][2]
    IN  FullCounterOf(buf, start, end, h, n, IF n > MaxItems THEN <<>> ELSE Entries(buf, n, h))

\* wolfCose_CounterListInfo: one countersignature, or a list of them.
CounterListInfo(buf, start, end) ==
    LET arr   == HeadEnd(buf, "array", start)
        n     == IF arr = 0 THEN 0 ELSE buf[start][2]
        first == At(buf, arr)[1]
        at[k \in 1 .. (MaxItems + 1)] == IF k = 1 THEN arr ELSE ItemsEnd(buf, 1, at[k - 1])
        list  == n \in 1 .. MaxItems /\ at[n + 1] = end
                 /\ \A k \in 1 .. n : DecodeFullCounter(buf, at[k], at[k + 1]).code = "ok"
    IN  [code   |-> IF n = 0 \/ arr >= end THEN "malformed"
                    ELSE IF first = "bstr" THEN DecodeFullCounter(buf, start, end).code
                    ELSE Fails(first # "array" \/ ~ list, "malformed"),
         count  |-> IF first = "array" THEN n ELSE 1,
         isList |-> first = "array"]

-----------------------------------------------------------------------------
(* What is signed.                                                         *)

\* wolfCose_BuildCounterStructure: the contexts of RFC 9338 and RFC 8152, and
\* whether the field after the payload is covered.
Structure(t, prot, abbreviated, legacy) ==
    LET covered == ~ legacy /\ t.other # <<>>
    IN  [context |-> <<IF abbreviated THEN "CounterSignature0" ELSE "CounterSignature",
                       IF covered THEN "V2" ELSE "">>,
         body |-> t.body, prot |-> IF abbreviated THEN <<>> ELSE <<prot>>, aad |-> Aad,
         payload |-> t.payload, other |-> IF covered THEN t.other ELSE <<>>]

Sign(key, alg, tbs) == [k \in 1 .. SignatureLen[alg] |->
                            IF k = 1 THEN <<"sig", [key |-> key, alg |-> alg, tbs |-> tbs]>>
                            ELSE <<"pad", k>>]

PinCode(key, alg) == Fails(Pin[key] # "unset" /\ Pin[key] # alg, "alg")
FitCode(key, alg) ==
    First(<<Fails(alg \notin CounterAlgs, "alg"), Fails(alg \notin Fit[key], "key")>>)

\* wolfCose_CounterVerifyTbs.
VerifyTbs(key, alg, tbs, sig) ==
    LET unfit == First(<<PinCode(key, alg), FitCode(key, alg)>>)
    IN  IF unfit # "ok" THEN unfit ELSE Fails(sig # Sign(key, alg, tbs), "sig")

\* wc_Cose_VerifyCounterSignature: the V2 value if there is one.
VerifyFullOf(t, buf, key, index) ==
    LET legacy == ~ Has(t, FULL)
        v      == Value(t, IF legacy THEN LEGACY_FULL ELSE FULL)
        info   == CounterListInfo(buf, v.start, v.end)
        arr    == HeadEnd(buf, "array", v.start)
        c      == IF info.isList
                  THEN LET start == ItemsEnd(buf, index, arr)
                       IN  DecodeFullCounter(buf, start, ItemsEnd(buf, 1, start))
                  ELSE DecodeFullCounter(buf, v.start, v.end)
    IN  IF t.code # "ok" THEN t.code
        ELSE IF ~ Has(t, FULL) /\ ~ Has(t, LEGACY_FULL) THEN "hdr"
        ELSE IF info.code # "ok" THEN info.code
        ELSE IF index >= info.count THEN "arg"
        ELSE IF ~ c.algProtected /\ (Pin[key] = "unset" \/ Pin[key] # c.alg) THEN "alg"
        ELSE VerifyTbs(key, c.alg, Structure(t, c.prot, FALSE, legacy), c.sig)

VerifyFull(buf, key, index) == VerifyFullOf(ParseCounterTarget(buf, TRUE), buf, key, index)

\* wc_Cose_VerifyCounterSignature0.
VerifyAbbreviatedOf(t, buf, key, alg) ==
    LET legacy == ~ Has(t, ABBR)
        v      == Value(t, IF legacy THEN LEGACY_ABBR ELSE ABBR)
    IN  IF t.code # "ok" THEN t.code
        ELSE IF ~ Has(t, ABBR) /\ ~ Has(t, LEGACY_ABBR) THEN "hdr"
        ELSE VerifyTbs(key, alg, Structure(t, <<>>, TRUE, legacy), Content(buf, v.start))

VerifyAbbreviated(buf, key, alg) ==
    VerifyAbbreviatedOf(ParseCounterTarget(buf, TRUE), buf, key, alg)

-----------------------------------------------------------------------------
(* Attaching.                                                              *)

ProtectedHdr(alg) == << <<"alg", alg>> >>   \* {1: alg}

KidCells(kid) == [k \in 1 .. Len(kid) |-> <<"item", kid[k]>>]

\* wolfCose_EncodeFullCounter.
EncodeFullCounter(alg, kid, sig) ==
    HeadCells("array", 3) \o Bstr(ProtectedHdr(alg))
        \o (IF kid = <<>> THEN HeadCells("map", 0)
            ELSE HeadCells("map", 1) \o << <<"label", KID>> >> \o Bstr(KidCells(kid)))
        \o Bstr(sig)

\* (slip) the size forgets the key identifier
FullCounterSizeNoKid(protLen, kidLen, sigLen) == 1 + BstrLen(protLen) + 1 + BstrLen(sigLen)

\* wolfCose_FullCounterSize.
FullCounterSize(protLen, kidLen, sigLen) ==
    1 + BstrLen(protLen) + 1 + (IF kidLen # 0 THEN 1 + BstrLen(kidLen) ELSE 0)
        + BstrLen(sigLen)

\* (slip) a V2 value is attached beside a legacy one
RefusedKindV2Only(t, abbreviated) == abbreviated /\ Has(t, ABBR)

\* One abbreviated value, and no V2 value that would hide a legacy one.
RefusedKind(t, abbreviated) ==
    IF abbreviated THEN Has(t, ABBR) \/ Has(t, LEGACY_ABBR) ELSE Has(t, LEGACY_FULL)

\* (slip) a full list takes one more
NoRoomOffByOne(t, info, replaces) ==
    IF replaces THEN info.isList /\ info.count > MaxItems ELSE t.map.count > MaxItems

\* The header map, or the list, is at its limit.
NoRoom(t, info, replaces) ==
    IF replaces THEN info.isList /\ info.count >= MaxItems ELSE t.map.count >= MaxItems

PlanOf(t, buf, r, replaces, info) ==
    LET v        == Value(t, FULL)
        size     == IF r.abbreviated THEN BstrLen(SignatureLen[r.alg])
                    ELSE FullCounterSize(1, Len(r.kid), SignatureLen[r.alg])
        oldLen   == IF replaces THEN v.end - v.start ELSE 0
        offset   == IF info.isList THEN HeadLen(info.count) ELSE 0
        newLen   == HeadLen(IF info.isList THEN info.count + 1 ELSE 2) + (oldLen - offset)
                        + size
        newCount == t.map.count + 1
        delta    == IF replaces THEN newLen - oldLen
                    ELSE 1 + size + (HeadLen(newCount) - (t.map.content - t.map.start))
    IN  [code |-> First(<<Fails(RefusedKind(t, r.abbreviated), "hdr"), info.code,
                          Fails(NoRoom(t, info, replaces), "hdr")>>),
         replaces |-> replaces, info |-> info, oldLen |-> oldLen, offset |-> offset,
         newLen |-> newLen, newCount |-> newCount, delta |-> delta,
         finalLen |-> Len(buf) + delta]

\* wolfCose_PlanAttachCounter, but for the size of the output buffer.
PlanAttachCounter(t, buf, r) ==
    LET replaces == ~ r.abbreviated /\ Has(t, FULL)
        v        == Value(t, FULL)
    IN  PlanOf(t, buf, r, replaces,
               IF replaces THEN CounterListInfo(buf, v.start, v.end)
               ELSE [code |-> "ok", count |-> 0, isList |-> FALSE])

\* The branch of wolfCose_AttachCounter that grows label 11: a lone value becomes
\* a list, a list gets a new head and one more value.
ReplaceValue(out, t, plan, counter) ==
    LET v      == Value(t, FULL)
        newEnd == v.start + plan.newLen
        count  == IF plan.info.isList THEN plan.info.count + 1 ELSE 2
        kept   == plan.oldLen - plan.offset
        idx    == HeadLen(count) + kept
        b2     == Move(out, newEnd, v.end, t.map.end - v.end)
        b3     == Move(b2, v.start + HeadLen(count), v.start + plan.offset, kept)
        b4     == Write(b3, v.start, HeadCells("array", count))
    IN  [buf  |-> Write(b4, v.start + idx, counter),
         code |-> First(<<Fails(idx + Len(counter) > plan.newLen, "small"),
                          Fails(idx + Len(counter) # plan.newLen, "malformed")>>)]

\* The branch that adds a header parameter at the end of the map.
AddParameter(out, t, plan, label, value) ==
    LET start  == t.map.start + HeadLen(plan.newCount)
        kept   == t.map.end - t.map.content
        cells  == << <<"label", label>> >> \o value
        end    == start + kept + Len(cells)
        b2     == Move(out, start, t.map.content, kept)
        b3     == Write(b2, t.map.start, HeadCells("map", plan.newCount))
    IN  [buf  |-> Write(b3, start + kept, cells),
         code |-> First(<<Fails(end > plan.finalLen + 1, "small"),
                          Fails(end # t.map.end + plan.delta, "malformed")>>)]

\* wolfCose_AttachCounter: what follows the map moves first.
AttachCounter(out, t, plan, buf, r, sig) ==
    LET b1 == Move(out, t.map.end + plan.delta, t.map.end, Len(buf) + 1 - t.map.end)
    IN  IF plan.replaces
        THEN ReplaceValue(b1, t, plan, EncodeFullCounter(r.alg, r.kid, sig))
        ELSE IF r.abbreviated THEN AddParameter(b1, t, plan, ABBR, Bstr(sig))
        ELSE AddParameter(b1, t, plan, FULL, EncodeFullCounter(r.alg, r.kid, sig))

-----------------------------------------------------------------------------
(* The message as a reader sees it.                                        *)

Slice(buf, start, end) == SubSeq(buf, start, end - 1)

FullCounters(buf, t) ==
    LET v    == Value(t, FULL)
        info == CounterListInfo(buf, v.start, v.end)
        at[k \in 1 .. (info.count + 1)] ==
            IF k = 1 THEN HeadEnd(buf, "array", v.start) ELSE ItemsEnd(buf, 1, at[k - 1])
    IN  IF ~ Has(t, FULL) THEN <<>>
        ELSE IF info.code = "ok" /\ info.isList
        THEN [k \in 1 .. info.count |-> Slice(buf, at[k], at[k + 1])]
        ELSE <<Slice(buf, v.start, v.end)>>

ReadingOf(t, buf) ==
    LET es    == t.map.entries
        other == SelectSeq(es, LAMBDA e : e.label \notin {FULL, ABBR})
    IN  IF t.code # "ok"
        THEN [readable |-> FALSE, full |-> <<>>, abbreviated |-> <<>>,
              rest |-> [entries |-> <<>>]]
        ELSE [readable |-> TRUE, full |-> FullCounters(buf, t),
              abbreviated |-> IF Has(t, ABBR)
                              THEN <<Slice(buf, Value(t, ABBR).start, Value(t, ABBR).end)>>
                              ELSE <<>>,
              rest |-> [entries |-> [k \in 1 .. Len(other) |->
                                        Slice(buf, other[k].start - 1, other[k].end)],
                        head |-> Slice(buf, 1, t.map.start),
                        tail |-> Slice(buf, t.map.end, Len(buf) + 1)]]

Reading(buf) == ReadingOf(ParseCounterTarget(buf, TRUE), buf)

-----------------------------------------------------------------------------
(* wc_Cose_AddCounterSignature and wc_Cose_AddCounterSignature0.           *)

\* (slip) the countersigner's protected header is left out of what is signed
TbsWithoutHeader(t, r) == Structure(t, <<>>, r.abbreviated, FALSE)

Tbs(t, r) == Structure(t, ProtectedHdr(r.alg), r.abbreviated, FALSE)

\* What goes wrong around a call: one thing at a time.
Circumstances == {"none", "no payload", "short scratch", "short output",
                  "backend fails", "wrong length"}

\* The size of the output buffer: exact, or one short.
OutSz(plan, c) == plan.finalLen - (IF c = "short output" THEN 1 ELSE 0)

TargetFor(c) == ParseCounterTarget(in, c # "no payload")

\* Every refusal comes before the signing backend.
RefusalOf(t, plan, r, c) ==
    IF r.alg = "LMS" THEN "alg"
    ELSE IF t.code # "ok" THEN t.code
    ELSE IF r.alg \notin CounterAlgs THEN "alg"
    ELSE First(<<Fails(c = "short scratch", "small"),
                 plan.code,
                 Fails(plan.finalLen > OutSz(plan, c), "small"),
                 Fails(~ HasPrivate[r.key], "key"),
                 PinCode(r.key, r.alg),
                 FitCode(r.key, r.alg)>>)

Refusal(t, r, c) == RefusalOf(t, PlanAttachCounter(t, in, r), r, c)

CounterInit ==
    /\ in \in Messages
    /\ addRet = "ok"
    /\ outLen = 0
    /\ last = <<>>
    /\ ran = FALSE
    /\ backendFault = FALSE
    /\ adds = 0
    /\ read = Reading(in)

\* Bound: up to MaxAdds countersignatures, and no call after one that failed (which
\* has changed nothing: FailureLeavesAlone).
Calling == addRet = "ok" /\ adds < MaxAdds

Refuse(r, code) == /\ addRet' = code
                   /\ ran' = FALSE
                   /\ backendFault' = FALSE
                   /\ outLen' = 0
                   /\ last' = <<r>>
                   /\ UNCHANGED <<in, adds, read>>

AddRefused == /\ Calling
              /\ \E c \in Circumstances :
                     LET t == TargetFor(c)
                     IN  \E r \in Requests : /\ Refusal(t, r, c) # "ok"
                                            /\ Refuse(r, Refusal(t, r, c))

\* The backend fails, or its signature has not the length that was planned for.
SignFails == /\ Calling
             /\ \E c \in {"backend fails", "wrong length"} :
                    LET t == TargetFor(c)
                    IN  \E r \in Requests : Refusal(t, r, c) = "ok" /\ last' = <<r>>
             /\ addRet' = "crypto"
             /\ ran' = TRUE
             /\ backendFault' = TRUE
             /\ outLen' = 0
             /\ UNCHANGED <<in, adds, read>>

\* out = in, or a buffer of its own: a failure shows in the message only if it is
\* the same buffer.
FinishAdd(done, finalLen, inPlace) ==
    /\ addRet' = done.code
    /\ in' = IF done.code = "ok" THEN SubSeq(done.buf, 1, finalLen)
             ELSE IF inPlace THEN SubSeq(done.buf, 1, Len(in)) ELSE in
    /\ outLen' = IF done.code = "ok" THEN finalLen ELSE 0
    /\ adds' = adds + (IF done.code = "ok" THEN 1 ELSE 0)

AttachWith(t, plan, r, c) ==
    LET out == in \o [k \in 1 .. (OutSz(plan, c) - Len(in)) |-> <<"junk", 0>>]
    IN  AttachCounter(out, t, plan, in, r, Sign(r.key, r.alg, Tbs(t, r)))

AddAttaches ==
    /\ Calling
    /\ \E c \in Circumstances \ {"backend fails", "wrong length"} :
           LET t == TargetFor(c)
           IN  \E r \in Requests, inPlace \in BOOLEAN :
                   LET plan == PlanAttachCounter(t, in, r)
                   IN  /\ Refusal(t, r, c) = "ok"
                       /\ FinishAdd(AttachWith(t, plan, r, c), plan.finalLen, inPlace)
                       /\ last' = <<r>>
    /\ ran' = TRUE
    /\ backendFault' = FALSE
    /\ read' = Reading(in')

CounterNext == AddRefused \/ SignFails \/ AddAttaches

CounterSpec == CounterInit /\ [][CounterNext]_counterVars

Promise == INSTANCE CounterMessage WITH message <- read

-----------------------------------------------------------------------------
(* Properties.                                                             *)

\* The moves in the bytes of the message amount to one more countersignature and
\* nothing else: CounterMessage, of what the parser makes of the bytes.
KeepsPromise == Promise!Spec

EarlierStayVerifiable ==
    \A t \in {ParseCounterTarget(in, TRUE)}, u \in {ParseCounterTarget(in', TRUE)}, key \in Keys :
        /\ \A index \in 0 .. (MaxItems - 1) :
               VerifyFullOf(t, in, key, index) = "ok" => VerifyFullOf(u, in', key, index) = "ok"
        /\ \A alg \in CounterAlgs :
               VerifyAbbreviatedOf(t, in, key, alg) = "ok"
                   => VerifyAbbreviatedOf(u, in', key, alg) = "ok"

AttachedVerifies ==
    LET r == last'[1]
    IN  IF r.abbreviated
        THEN VerifyAbbreviated(in', r.key, r.alg) = "ok"
        ELSE \E index \in 0 .. (MaxItems - 1) : /\ VerifyFull(in', r.key, index) = "ok"
                                                /\ VerifyFull(in', r.key, index + 1) = "arg"

\* What was attached verifies with the key it was made with, as the last one of
\* its kind, in a message of the length returned.  What verified before goes on
\* verifying, at the same index: full and abbreviated, V2 and legacy.
CountersignaturesVerify ==
    [][/\ in' # in => EarlierStayVerifiable
       /\ adds' > adds => AttachedVerifies /\ outLen' = Len(in')]_counterVars

\* A call that fails leaves the message as it was, even one that works in place,
\* and no length: every reason to fail is met before the first byte is moved.
FailureLeavesAlone ==
    [][addRet' # "ok" => in' = in /\ outLen' = 0]_counterVars

\* The backend may be a one-time key: it only runs for a call that then succeeds,
\* unless the backend itself is at fault.
NoSignatureWasted == ran /\ addRet # "ok" => backendFault

=============================================================================
