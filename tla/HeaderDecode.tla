---------------------------- MODULE HeaderDecode ----------------------------
(***************************************************************************)
(* Decoding the two header buckets of a COSE message                       *)
(* (src/src/wolfcose_hdr.c) and what every single-key receiver then does   *)
(* with the algorithm it found (wc_CoseSign1_Verify, wc_CoseMac0_Verify,   *)
(* wc_CoseEncrypt0_Decrypt).                                               *)
(*                                                                         *)
(* The protected bucket is what the signature or tag covers; the other one *)
(* anybody may change.  A bucket is the sequence of the entries its map    *)
(* announces, each with a label and a value already told apart by kind;    *)
(* <<"bad", code>> is one that CBOR refuses with that code.  One action is *)
(* one entry, or the checks at the end of a bucket.                        *)
(*                                                                         *)
(* Definitions marked (slip) are bugs the properties must tell apart from  *)
(* the code.                                                               *)
(***************************************************************************)
EXTENDS Checks, Functions

CONSTANTS
    MaxItems,   \* WOLFCOSE_MAX_MAP_ITEMS
    Int32Max,   \* INT32_MAX, and
    Int64Max,   \* INT64_MAX: scaled down, only the order matters
    Messages,   \* the messages a receiver may get
    Pins,       \* the key->alg a receiver may have set
    Supported   \* algorithms the receiver has code for

\* Header labels.
ALG          == 1
CRIT         == 2
CONTENT_TYPE == 3
KID          == 4
IV           == 5
PARTIAL_IV   == 6
X5CHAIN      == 33
HPKE_EK      == -4
COUNTERSIGNATURES == {7, 9, 11, 12}

Int32 == (-Int32Max - 1) .. Int32Max
UNSET == 0

\* Labels and values are <<kind, content>>.
Label  == ({"int"} \X Int) \cup ({"text"} \X STRING)
          \cup ({"bad"} \X {"malformed", "type", "overflow"})
Scalar == ({"int"} \X Int) \cup ({"bstr", "tstr", "other", "bad"} \X STRING)
Value  == Scalar \cup ({"array"} \X Seq(Scalar))

\* "code" is what opening the map gives, "trailing" is bytes after its last entry.
Bucket == [code : {"ok", "malformed", "type"}, trailing : BOOLEAN,
           entries : Seq([label : Label, value : Value])]

Message == [protected : Bucket, unprotected : Bucket, wantEk : BOOLEAN]

ASSUME LimitsAssumption == /\ MaxItems \in Nat
                           /\ Int32Max \in Nat /\ Int32Max >= 64
                           /\ Int64Max \in Nat /\ Int64Max > Int32Max
ASSUME AlgsAssumption == Pins \subseteq Int32 /\ Supported \subseteq Int32 \ {UNSET}
ASSUME MessagesAssumption == Messages \subseteq Message

VARIABLES
    msg,           \* the message at hand
    pc,            \* which bucket is being decoded
    i,             \* entries of it taken so far
    hdrState,      \* labels of the protected bucket, then of both
    unprotState,   \* labels of the unprotected one
    hdr,           \* WOLFCOSE_HDR
    critLabels,    \* bits of the labels listed in crit
    understood,    \* contentTypeUnderstood
    algProtected,  \* what the receiver noted between the buckets
    pin,           \* key->alg
    ret            \* the code to return

vars == <<msg, pc, i, hdrState, unprotState, hdr, critLabels, understood, algProtected,
          pin, ret>>

NULL == <<"NULL", "">>
NoHdr == [alg |-> UNSET, contentType |-> UNSET, kid |-> NULL, iv |-> NULL,
          partialIv |-> NULL, ek |-> NULL, flags |-> {}]
NoLabels == [bits |-> {}, ints |-> <<>>, texts |-> <<>>]

Init == /\ msg \in Messages
        /\ pc = "start"
        /\ i = 0
        /\ hdrState = NoLabels
        /\ unprotState = NoLabels
        /\ hdr = NoHdr
        /\ critLabels = {}
        /\ understood = FALSE
        /\ algProtected = FALSE
        /\ pin = UNSET
        /\ ret = "ok"

-----------------------------------------------------------------------------
(* WOLFCOSE_HDR_STATE: a bit for each small label, an array for the rest.  *)

NoBit == -1

\* wolfCose_LabelBit.
LabelBit(n) == IF n \in 1 .. 16 THEN n - 1
               ELSE IF n \in -16 .. -1 THEN 15 - n
               ELSE NoBit

ContainsInt(st, n) == (LabelBit(n) # NoBit /\ LabelBit(n) \in st.bits) \/ n \in Range(st.ints)

\* wolfCose_HdrStateContainsLabel.
Contains(st, label) == IF label[1] = "text" THEN label[2] \in Range(st.texts)
                       ELSE ContainsInt(st, label[2])

\* wolfCose_HdrStateAddLabel: no slot left, and the label added.
NoSlot(st, label) == IF label[1] = "text" THEN Len(st.texts) >= MaxItems
                     ELSE LabelBit(label[2]) = NoBit /\ Len(st.ints) >= MaxItems

Add(st, label) ==
    IF label[1] = "text" THEN [st EXCEPT !.texts = Append(@, label[2])]
    ELSE IF LabelBit(label[2]) # NoBit THEN [st EXCEPT !.bits = @ \cup {LabelBit(label[2])}]
    ELSE [st EXCEPT !.ints = Append(@, label[2])]

-----------------------------------------------------------------------------
(* Taking one entry.                                                       *)

InProtected == pc = "protected"
Current == IF InProtected THEN msg.protected ELSE msg.unprotected
Entry   == Current.entries[i + 1]
Is(n)   == Entry.label = <<"int", n>>

\* Leave the decoder; every receiver then clears the header.
Refuse(code) == /\ ret' = code
                /\ pc' = "done"
                /\ hdr' = NoHdr
                /\ UNCHANGED <<i, critLabels, understood, algProtected, pin>>

\* The label: an integer or text, not crit outside the protected bucket, and not
\* seen before in either.
LabelCode ==
    LET own == IF InProtected THEN hdrState ELSE unprotState
    IN  IF Entry.label[1] = "bad" THEN Entry.label[2]
        ELSE First(<<Fails(~ InProtected /\ Is(CRIT), "hdr"),
                     Fails(Contains(own, Entry.label), "malformed"),
                     Fails(Contains(hdrState, Entry.label), "malformed"),
                     Fails(NoSlot(own, Entry.label), "malformed")>>)

Reading == pc \in {"protected", "unprotected"} /\ i < Len(Current.entries)

RefuseLabel == /\ Reading
               /\ LabelCode # "ok"
               /\ Refuse(LabelCode)
               /\ UNCHANGED <<msg, hdrState, unprotState>>

\* An entry whose label was taken, and whose value decodes with this code.
Take(code) == /\ Reading
              /\ LabelCode = "ok"
              /\ IF InProtected
                 THEN hdrState' = Add(hdrState, Entry.label) /\ UNCHANGED unprotState
                 ELSE unprotState' = Add(unprotState, Entry.label) /\ UNCHANGED hdrState
              /\ IF code = "ok" THEN i' = i + 1 /\ UNCHANGED <<pc, ret>>
                 ELSE ret' = code /\ pc' = "done" /\ UNCHANGED i
              /\ UNCHANGED <<msg, algProtected, pin>>

Kind    == Entry.value[1]
Content == Entry.value[2]

\* The typed CBOR decoders.
SkipCode == Fails(Kind = "bad", "malformed")
BstrCode == First(<<SkipCode, Fails(Kind # "bstr", "type")>>)
UintCode(v) == CASE v[1] = "bad" -> "malformed"
                 [] v[1] = "int" -> Fails(v[2] < 0, "type")
                 [] OTHER        -> "type"
IntCode(v) == CASE v[1] = "bad" -> "malformed"
                [] v[1] = "int" -> Fails(v[2] > Int64Max \/ v[2] < -Int64Max - 1, "overflow")
                [] OTHER        -> "type"

Keep(code, h) == hdr' = IF code = "ok" THEN h ELSE NoHdr

\* An algorithm named by text is stepped over; a number has to fit in 32 bits.
DecodeAlg ==
    LET code == IF Kind = "tstr" THEN SkipCode
                ELSE First(<<IntCode(Entry.value),
                             IF IntCode(Entry.value) # "ok" THEN "ok"
                             ELSE Fails(Content \notin Int32, "alg")>>)
    IN  /\ Reading
        /\ Is(ALG)
        /\ Take(code)
        /\ Keep(code, IF Kind = "tstr" THEN hdr ELSE [hdr EXCEPT !.alg = Content])
        /\ UNCHANGED <<critLabels, understood>>

\* The labels of crit: numbers of parameters this library processes.
CritCode(v) == CASE v[1] = "tstr" -> "hdr"
                 [] OTHER -> LET code == IntCode(v)
                             IN  IF code # "ok" THEN code ELSE Fails(v[2] \notin 1 .. 6, "hdr")

DecodeCrit ==
    LET n    == Len(Content)
        code == CASE Kind = "bad"   -> "malformed"
                  [] Kind = "array" -> First(<<Fails(n = 0 \/ n > MaxItems, "hdr")>>
                                             \o [k \in 1 .. n |-> CritCode(Content[k])])
                  [] OTHER          -> "type"
    IN  /\ Reading
        /\ InProtected
        /\ Is(CRIT)
        /\ Take(code)
        /\ Keep(code, hdr)
        /\ critLabels' = IF code = "ok" THEN {LabelBit(Content[k][2]) : k \in 1 .. n}
                         ELSE critLabels
        /\ UNCHANGED understood

\* (slip) only a number sets the flag
DecodeContentTypeLateFlag ==
    LET code == IF Kind = "tstr" THEN SkipCode
                ELSE IF UintCode(Entry.value) # "ok" THEN UintCode(Entry.value)
                ELSE Fails(Content > Int32Max, "hdr")
        h    == IF InProtected THEN hdr ELSE [hdr EXCEPT !.flags = @ \cup {"unprotected"}]
    IN  /\ Reading
        /\ Is(CONTENT_TYPE)
        /\ Take(code)
        /\ Keep(code, IF Kind = "tstr" THEN hdr ELSE [h EXCEPT !.contentType = Content])
        /\ understood' = (understood \/ (InProtected /\ code = "ok" /\ Kind # "tstr"))
        /\ UNCHANGED critLabels

\* Text content types are stepped over: only numbers count as understood.
DecodeContentType ==
    LET code == IF Kind = "tstr" THEN SkipCode
                ELSE IF UintCode(Entry.value) # "ok" THEN UintCode(Entry.value)
                ELSE Fails(Content > Int32Max, "hdr")
        h    == IF InProtected THEN hdr ELSE [hdr EXCEPT !.flags = @ \cup {"unprotected"}]
    IN  /\ Reading
        /\ Is(CONTENT_TYPE)
        /\ Take(code)
        /\ Keep(code, IF Kind = "tstr" THEN h ELSE [h EXCEPT !.contentType = Content])
        /\ understood' = (understood \/ (InProtected /\ code = "ok" /\ Kind # "tstr"))
        /\ UNCHANGED critLabels

DecodeBstr(n, field) == /\ Reading
                        /\ Is(n)
                        /\ Take(BstrCode)
                        /\ Keep(BstrCode, [hdr EXCEPT ![field] = Entry.value])
                        /\ UNCHANGED <<critLabels, understood>>

\* Only an HPKE receiver asks for the encapsulated key, in the unprotected bucket.
WantsEk == ~ InProtected /\ msg.wantEk

DecodeEk == WantsEk /\ DecodeBstr(HPKE_EK, "ek")

DecodeX5chain == /\ Reading
                 /\ Is(X5CHAIN)
                 /\ Take(SkipCode)
                 /\ Keep(SkipCode, [hdr EXCEPT !.flags = @ \cup {"x5chain"}])
                 /\ UNCHANGED <<critLabels, understood>>

Known == {ALG, CONTENT_TYPE, KID, IV, PARTIAL_IV, X5CHAIN}
         \cup (IF InProtected THEN {CRIT} ELSE {})
         \cup (IF WantsEk THEN {HPKE_EK} ELSE {})

SkipUnknown == /\ Reading
               /\ \A n \in Known : ~ Is(n)
               /\ Take(SkipCode)
               /\ Keep(SkipCode, hdr)
               /\ UNCHANGED <<critLabels, understood>>

-----------------------------------------------------------------------------
(* The buckets as a whole.                                                 *)

OpenCode(bucket) == IF bucket.code # "ok" THEN bucket.code
                    ELSE Fails(Len(bucket.entries) > MaxItems, "malformed")

Go(code, next, to) == \* on to the next part, unless the code refuses
    IF code = "ok" THEN /\ pc' = to
                        /\ next
                        /\ UNCHANGED <<ret, hdr, critLabels, understood, pin>>
    ELSE Refuse(code)

OpenProtected == /\ pc = "start"
                 /\ Go(OpenCode(msg.protected), UNCHANGED <<i, algProtected>>, "protected")
                 /\ UNCHANGED <<msg, hdrState, unprotState>>

\* (slip) crit may name what is only in the unprotected bucket
ProtectedEndCodeAnywhere ==
    First(<<Fails(LabelBit(CONTENT_TYPE) \in critLabels /\ ~ understood, "hdr"),
            Fails(\E n \in COUNTERSIGNATURES : ContainsInt(hdrState, n), "hdr"),
            Fails(hdr.iv # NULL /\ hdr.partialIv # NULL, "hdr"),
            Fails(msg.protected.trailing, "malformed")>>)

ProtectedEndCode ==
    First(<<Fails(~ (critLabels \subseteq hdrState.bits), "hdr"),
            Fails(LabelBit(CONTENT_TYPE) \in critLabels /\ ~ understood, "hdr"),
            Fails(\E n \in COUNTERSIGNATURES : ContainsInt(hdrState, n), "hdr"),
            Fails(hdr.iv # NULL /\ hdr.partialIv # NULL, "hdr"),
            Fails(msg.protected.trailing, "malformed")>>)

\* The receiver looks now whether the algorithm is protected: later the labels of
\* the other bucket are in hdrState too.
EndProtected == /\ InProtected
                /\ i = Len(msg.protected.entries)
                /\ Go(ProtectedEndCode,
                      i' = 0 /\ algProtected' = ContainsInt(hdrState, ALG), "between")
                /\ UNCHANGED <<msg, hdrState, unprotState>>

OpenUnprotected == /\ pc = "between"
                   /\ Go(OpenCode(msg.unprotected), UNCHANGED <<i, algProtected>>,
                         "unprotected")
                   /\ UNCHANGED <<msg, hdrState, unprotState>>

\* (slip) the receiver looks for the algorithm when both buckets are decoded
EndUnprotectedLate ==
    LET code == Fails(hdr.iv # NULL /\ hdr.partialIv # NULL, "hdr")
    IN  /\ pc = "unprotected"
        /\ i = Len(msg.unprotected.entries)
        /\ hdrState' = [hdrState EXCEPT !.bits = @ \cup unprotState.bits]
        /\ Go(code, UNCHANGED i /\ algProtected' = ContainsInt(hdrState', ALG), "decoded")
        /\ UNCHANGED <<msg, unprotState>>

EndUnprotected ==
    LET code == Fails(hdr.iv # NULL /\ hdr.partialIv # NULL, "hdr")
    IN  /\ pc = "unprotected"
        /\ i = Len(msg.unprotected.entries)
        /\ IF code = "ok"
           THEN hdrState' = [hdrState EXCEPT !.bits = @ \cup unprotState.bits]
           ELSE UNCHANGED hdrState
        /\ Go(code, UNCHANGED <<i, algProtected>>, "decoded")
        /\ UNCHANGED <<msg, unprotState>>

-----------------------------------------------------------------------------
(* The receiver.                                                           *)

AlgCode(p) == First(<<Fails(p # UNSET /\ p # hdr.alg, "alg"),
                      Fails(p = UNSET /\ ~ algProtected, "alg"),
                      Fails(hdr.alg \notin Supported, "alg")>>)

\* The key says which algorithm it is for, or the sender's word counts if it is
\* protected; and there must be code for it.
CheckAlg == /\ pc = "decoded"
            /\ \E p \in Pins :
                   /\ pin' = p
                   /\ ret' = AlgCode(p)
                   /\ hdr' = IF AlgCode(p) = "ok" THEN hdr ELSE NoHdr
            /\ pc' = "done"
            /\ UNCHANGED <<msg, i, hdrState, unprotState, critLabels, understood,
                           algProtected>>

Next == \/ OpenProtected
        \/ RefuseLabel
        \/ DecodeAlg
        \/ DecodeCrit
        \/ DecodeContentType
        \/ DecodeBstr(KID, "kid")
        \/ DecodeBstr(IV, "iv")
        \/ DecodeBstr(PARTIAL_IV, "partialIv")
        \/ DecodeEk
        \/ DecodeX5chain
        \/ SkipUnknown
        \/ EndProtected
        \/ OpenUnprotected
        \/ EndUnprotected
        \/ CheckAlg

Spec == Init /\ [][Next]_vars

-----------------------------------------------------------------------------
(* What the two buckets mean, read as a whole.                             *)

Entries == msg.protected.entries \o msg.unprotected.entries

Labels(entries) == {entries[k].label : k \in DOMAIN entries}

Values(n) == {Entries[k].value : k \in {j \in DOMAIN Entries : Entries[j].label = <<"int", n>>}}

ProtectedValues(n) ==
    LET entries == msg.protected.entries
    IN  {entries[k].value : k \in {j \in DOMAIN entries : entries[j].label = <<"int", n>>}}

Critical == UNION {{v[2][k][2] : k \in DOMAIN v[2]} : v \in ProtectedValues(CRIT)}

GoodValue(n, v, protected) ==
    /\ v[1] # "bad"
    /\ n = ALG => v[1] = "tstr" \/ (v[1] = "int" /\ v[2] \in Int32)
    /\ n = CONTENT_TYPE => v[1] = "tstr" \/ (v[1] = "int" /\ v[2] \in 0 .. Int32Max)
    /\ n \in {KID, IV, PARTIAL_IV} => v[1] = "bstr"
    /\ n = HPKE_EK /\ ~ protected /\ msg.wantEk => v[1] = "bstr"
    /\ n = CRIT => /\ protected
                   /\ v[1] = "array"
                   /\ Len(v[2]) \in 1 .. MaxItems
                   /\ \A k \in DOMAIN v[2] : v[2][k][1] = "int" /\ v[2][k][2] \in 1 .. 6

GoodBucket(bucket, protected) ==
    /\ bucket.code = "ok"
    /\ Len(bucket.entries) <= MaxItems
    /\ \A k \in DOMAIN bucket.entries :
           LET e == bucket.entries[k]
           IN  /\ e.label[1] # "bad"
               /\ GoodValue(IF e.label[1] = "int" THEN e.label[2] ELSE UNSET, e.value, protected)

Distinct(labels) == \A j, k \in DOMAIN labels : labels[j] = labels[k] => j = k

WellFormed ==
    /\ GoodBucket(msg.protected, TRUE)
    /\ GoodBucket(msg.unprotected, FALSE)
    /\ ~ msg.protected.trailing
    /\ Distinct([k \in DOMAIN Entries |-> Entries[k].label])
    /\ \A n \in Critical : ProtectedValues(n) # {}
    /\ CONTENT_TYPE \in Critical => \A v \in ProtectedValues(CONTENT_TYPE) : v[1] = "int"
    /\ \A n \in COUNTERSIGNATURES : ProtectedValues(n) = {}
    /\ Values(IV) = {} \/ Values(PARTIAL_IV) = {}

-----------------------------------------------------------------------------
(* Properties.                                                             *)

Codes == {"ok", "malformed", "type", "overflow", "hdr", "alg"}

IsState(st) == /\ st \in [bits : SUBSET (0 .. 31), ints : Seq(Int), texts : Seq(STRING)]
               /\ Len(st.ints) <= MaxItems
               /\ Len(st.texts) <= MaxItems

TypeOK == /\ msg \in Message
          /\ pc \in {"start", "protected", "between", "unprotected", "decoded", "done"}
          /\ i \in 0 .. MaxItems
          /\ IsState(hdrState)
          /\ IsState(unprotState)
          /\ critLabels \subseteq 0 .. 31
          /\ understood \in BOOLEAN
          /\ algProtected \in BOOLEAN
          /\ pin \in Pins \cup {UNSET}
          /\ ret \in Codes

Accepted == pc \in {"decoded", "done"} /\ ret = "ok"

\* No label counts twice: small or large, integer or text, within a bucket or one in
\* each, so that an unprotected parameter never stands beside a protected one.
NoLabelTwice == Accepted => Distinct([k \in DOMAIN Entries |-> Entries[k].label])

\* The decoder accepts the messages that the header rules accept, and no other: what
\* is critical is there and understood, and no limit of the label table is met
\* before the one on the map.
AcceptsWellFormed == /\ pc = "decoded" => WellFormed
                     /\ pc = "done" /\ WellFormed => ret \in {"ok", "alg"}

\* What the header says is what the one entry for it says, whichever bucket that is in.
HeaderTellsMessage ==
    Accepted =>
        /\ hdr.kid \in Values(KID) \cup {NULL} /\ (hdr.kid = NULL <=> Values(KID) = {})
        /\ hdr.iv \in Values(IV) \cup {NULL} /\ (hdr.iv = NULL <=> Values(IV) = {})
        /\ hdr.partialIv = NULL <=> Values(PARTIAL_IV) = {}
        /\ \A v \in Values(ALG) : hdr.alg = IF v[1] = "int" THEN v[2] ELSE UNSET
        /\ Values(ALG) = {} => hdr.alg = UNSET
        /\ \A v \in Values(CONTENT_TYPE) :
               hdr.contentType = IF v[1] = "int" THEN v[2] ELSE UNSET
        /\ "unprotected" \in hdr.flags <=>
               (Values(CONTENT_TYPE) # {} /\ ProtectedValues(CONTENT_TYPE) = {})

\* The algorithm a receiver goes on with is one that the sender protected or that the
\* key is for: never one that only the unprotected bucket names.
AlgIsVouchedFor ==
    (pc = "done" /\ ret = "ok") =>
        /\ hdr.alg \in Supported
        /\ pin = hdr.alg \/ <<"int", hdr.alg>> \in ProtectedValues(ALG)

=============================================================================
