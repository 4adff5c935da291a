------------------------ MODULE HeaderDecode_proofs ------------------------
(***************************************************************************)
(* For any message, limit and set of algorithms: a message that is         *)
(* accepted names no label twice, and the algorithm a receiver goes on     *)
(* with is one that the sender protected or that the key is for.  With     *)
(* what was read so far (Read): the messages accepted are those that keep  *)
(* every rule, and the header says what their entries say.                 *)
(***************************************************************************)
EXTENDS HeaderDecode, Checks_proofs

-----------------------------------------------------------------------------
(* The table of labels: what was added is found again.                     *)

LEMMA RangeAppend ==
    ASSUME NEW S, NEW s \in Seq(S), NEW x \in S
    PROVE  Range(Append(s, x)) = Range(s) \cup {x}
<1> DEFINE t == Append(s, x)
<1>1. /\ t \in Seq(S) /\ Len(t) = Len(s) + 1 /\ Len(s) \in Nat
      /\ \A k \in 1 .. Len(s) : t[k] = s[k]
      /\ t[Len(s) + 1] = x
  BY AppendProperties, LenProperties
<1>2. DOMAIN s = 1 .. Len(s) /\ DOMAIN t = 1 .. Len(s) + 1
  BY <1>1, LenProperties
<1> HIDE DEF t
<1>3. Range(s) \cup {x} \subseteq Range(t)
  BY <1>1, <1>2 DEF Range
<1>4. ASSUME NEW k \in 1 .. Len(s) + 1 PROVE t[k] \in Range(s) \cup {x}
  <2>1. CASE k = Len(s) + 1
    BY <1>1, <2>1
  <2>2. CASE k # Len(s) + 1
    <3>1. k \in 1 .. Len(s)
      BY <1>1, <2>2
    <3> QED BY <1>1, <1>2, <3>1 DEF Range
  <2> QED BY <2>1, <2>2
<1>5. Range(t) \subseteq Range(s) \cup {x}
  BY <1>2, <1>4 DEF Range
<1> QED BY <1>3, <1>5 DEF t

LEMMA BitRange ==
    ASSUME NEW n \in Int
    PROVE  LabelBit(n) # NoBit => LabelBit(n) \in 0 .. 31
BY DEF LabelBit, NoBit

\* A label the decoder may add, as opposed to one that CBOR refuses.
GoodLabel == ({"int"} \X Int) \cup ({"text"} \X STRING)

StateType == [bits : SUBSET (0 .. 31), ints : Seq(Int), texts : Seq(STRING)]

LEMMA AddContains ==
    ASSUME NEW st \in StateType, NEW label \in GoodLabel
    PROVE  /\ Add(st, label) \in StateType
           /\ Contains(Add(st, label), label)
           /\ \A old : Contains(st, old) => Contains(Add(st, label), old)
<1> DEFINE new == Add(st, label)
<1>0. st.bits \subseteq 0 .. 31 /\ st.ints \in Seq(Int) /\ st.texts \in Seq(STRING)
  BY DEF StateType
<1>1. CASE label[1] = "text"
  <2>1. label[2] \in STRING
    BY <1>1 DEF GoodLabel
  <2>2. /\ new \in StateType
        /\ new.bits = st.bits /\ new.ints = st.ints
        /\ new.texts = Append(st.texts, label[2])
    BY <1>0, <1>1, <2>1, AppendProperties DEF Add, StateType
  <2>3. Range(new.texts) = Range(st.texts) \cup {label[2]}
    BY <1>0, <2>1, <2>2, RangeAppend
  <2> HIDE DEF new
  <2>4. Contains(new, label)
    BY <1>1, <2>3 DEF Contains
  <2>5. ASSUME NEW old, Contains(st, old) PROVE Contains(new, old)
    BY <2>2, <2>3, <2>5 DEF Contains, ContainsInt
  <2> QED BY <2>2, <2>4, <2>5 DEF new
<1>2. CASE label[1] # "text" /\ LabelBit(label[2]) # NoBit
  <2>1. label[2] \in Int
    BY <1>2 DEF GoodLabel
  <2>2. LabelBit(label[2]) \in 0 .. 31
    BY <1>2, <2>1, BitRange
  <2>3. /\ new \in StateType
        /\ new.bits = st.bits \cup {LabelBit(label[2])}
        /\ new.ints = st.ints /\ new.texts = st.texts
    BY <1>0, <1>2, <2>2 DEF Add, StateType
  <2> HIDE DEF new
  <2>4. Contains(new, label)
    BY <1>2, <2>3 DEF Contains, ContainsInt
  <2>5. ASSUME NEW old, Contains(st, old) PROVE Contains(new, old)
    BY <2>3, <2>5 DEF Contains, ContainsInt
  <2> QED BY <2>3, <2>4, <2>5 DEF new
<1>3. CASE label[1] # "text" /\ LabelBit(label[2]) = NoBit
  <2>1. label[2] \in Int
    BY <1>3 DEF GoodLabel
  <2>2. /\ new \in StateType
        /\ new.ints = Append(st.ints, label[2])
        /\ new.bits = st.bits /\ new.texts = st.texts
    BY <1>0, <1>3, <2>1, AppendProperties DEF Add, StateType
  <2>3. Range(new.ints) = Range(st.ints) \cup {label[2]}
    BY <1>0, <2>1, <2>2, RangeAppend
  <2> HIDE DEF new
  <2>4. Contains(new, label)
    BY <1>3, <2>3 DEF Contains, ContainsInt
  <2>5. ASSUME NEW old, Contains(st, old) PROVE Contains(new, old)
    BY <2>2, <2>3, <2>5 DEF Contains, ContainsInt
  <2> QED BY <2>2, <2>4, <2>5 DEF new
<1> QED BY <1>1, <1>2, <1>3

-----------------------------------------------------------------------------
(* The codes of the decoders.                                              *)

LEMMA UintIntCode ==
    ASSUME NEW v \in Scalar
    PROVE  /\ UintCode(v) \in Codes /\ IntCode(v) \in Codes
           /\ UintCode(v) = "ok" => v[1] = "int" /\ v[2] \in Int
           /\ IntCode(v) = "ok" => v[1] = "int" /\ v[2] \in Int
<1>1. v[1] = "int" => v[2] \in Int
  BY DEF Scalar
<1> QED BY <1>1 DEF UintCode, IntCode, Fails, Codes

LEMMA CritLabelCode ==
    ASSUME NEW v \in Scalar
    PROVE  /\ CritCode(v) \in Codes
           /\ CritCode(v) = "ok" => v[2] \in 1 .. 6
<1>1. IntCode(v) \in Codes /\ (IntCode(v) = "ok" => v[2] \in Int)
  BY UintIntCode
<1>2. CASE v[1] = "tstr"
  BY <1>2 DEF CritCode, Codes
<1>3. CASE v[1] # "tstr"
  <2>1. CritCode(v) = IF IntCode(v) # "ok" THEN IntCode(v) ELSE Fails(v[2] \notin 1 .. 6, "hdr")
    BY <1>3 DEF CritCode
  <2> QED BY <1>1, <2>1 DEF Fails, Codes
<1> QED BY <1>2, <1>3

-----------------------------------------------------------------------------
(* The invariant.                                                          *)

PEntries == msg.protected.entries
UEntries == msg.unprotected.entries

\* The first n labels of the protected bucket are in its table, and differ.
ProtectedSeen(n) ==
    /\ \A k \in 1 .. n : Contains(hdrState, PEntries[k].label)
    /\ \A j, k \in 1 .. n : PEntries[j].label = PEntries[k].label => j = k

\* The same of the other bucket, and none of them is in the table of the protected one.
UnprotectedSeen(n) ==
    /\ \A k \in 1 .. n : /\ Contains(unprotState, UEntries[k].label)
                         /\ ~ Contains(hdrState, UEntries[k].label)
    /\ \A j, k \in 1 .. n : UEntries[j].label = UEntries[k].label => j = k

AllDistinct == Distinct([k \in DOMAIN Entries |-> Entries[k].label])

Progress ==
    /\ pc \in {"start", "between"} => i = 0
    /\ pc = "protected" => /\ Len(PEntries) <= MaxItems /\ i <= Len(PEntries)
                           /\ ProtectedSeen(i)
    /\ pc \in {"between", "unprotected"} => ProtectedSeen(Len(PEntries))
    /\ pc = "unprotected" => /\ Len(UEntries) <= MaxItems /\ i <= Len(UEntries)
                             /\ UnprotectedSeen(i)
    /\ pc = "decoded" \/ Accepted => AllDistinct

\* An algorithm found in the protected bucket is in the table when the receiver looks,
\* and while it is there no other entry can take its place.
Vouched == hdr.alg = UNSET \/ <<"int", hdr.alg>> \in ProtectedValues(ALG)

AlgSource ==
    /\ "alg" \in DOMAIN hdr
    /\ pc \in {"start", "protected"} => Vouched
    /\ pc \in {"between", "unprotected"} /\ algProtected => Vouched /\ ContainsInt(hdrState, ALG)
    /\ pc = "decoded" /\ algProtected => Vouched
    /\ pc = "done" /\ ret = "ok" => /\ hdr.alg \in Supported
                                    /\ pin = hdr.alg \/ Vouched

IInv == TypeOK /\ Progress /\ AlgSource

LEMMA MessageShape ==
    ASSUME msg \in Message
    PROVE  /\ PEntries \in Seq([label : Label, value : Value])
           /\ UEntries \in Seq([label : Label, value : Value])
           /\ msg.protected \in Bucket /\ msg.unprotected \in Bucket
           /\ Len(PEntries) \in Nat /\ Len(UEntries) \in Nat
BY DEF Message, Bucket, PEntries, UEntries

LEMMA InitIInv == Init => IInv
<1> SUFFICES ASSUME Init PROVE IInv
  OBVIOUS
<1>1. msg \in Message
  BY MessagesAssumption DEF Init
<1>2. IsState(NoLabels)
  <2>1. {} \in SUBSET (0 .. 31) /\ <<>> \in Seq(Int) /\ <<>> \in Seq(STRING) /\ Len(<<>>) = 0
    OBVIOUS
  <2> QED BY <2>1, LimitsAssumption DEF NoLabels, IsState
<1>3. understood \in BOOLEAN /\ algProtected \in BOOLEAN
  BY DEF Init
<1>4. /\ pc \in {"start", "protected", "between", "unprotected", "decoded", "done"}
      /\ i \in 0 .. MaxItems
      /\ critLabels \subseteq 0 .. 31
      /\ pin \in Pins \cup {UNSET}
      /\ ret \in Codes
  BY LimitsAssumption DEF Init, Codes
<1>5. IsState(hdrState) /\ IsState(unprotState)
  BY <1>2 DEF Init
<1>6. TypeOK
  BY <1>1, <1>3, <1>4, <1>5 DEF TypeOK
<1>7. Progress
  BY DEF Init, Progress, Accepted
<1>8. AlgSource
  BY DEF Init, AlgSource, Vouched, NoHdr
<1> QED BY <1>6, <1>7, <1>8 DEF IInv

-----------------------------------------------------------------------------
(* Refusing.                                                               *)

LEMMA RefuseStep ==
    ASSUME IInv, NEW code \in Codes, code # "ok", Refuse(code),
           UNCHANGED <<msg, hdrState, unprotState>>
    PROVE  IInv'
<1>1. TypeOK'
  <2>1. /\ msg' \in Message /\ pc' = "done" /\ i' \in 0 .. MaxItems
        /\ critLabels' \subseteq 0 .. 31
        /\ pin' \in Pins \cup {UNSET} /\ ret' \in Codes
    BY DEF IInv, TypeOK, Refuse
  <2>2. understood' \in BOOLEAN /\ algProtected' \in BOOLEAN
    BY DEF IInv, TypeOK, Refuse
  <2>3. IsState(hdrState)' /\ IsState(unprotState)'
    BY DEF IInv, TypeOK, IsState
  <2> QED BY <2>1, <2>2, <2>3 DEF TypeOK
<1>2. pc' = "done" /\ ret' # "ok" /\ hdr' = NoHdr
  BY DEF Refuse
<1>3. Progress'
  BY <1>2 DEF Progress, Accepted
<1>4. AlgSource'
  BY <1>2 DEF AlgSource, NoHdr
<1> QED BY <1>1, <1>3, <1>4 DEF IInv

-----------------------------------------------------------------------------
(* Taking an entry.                                                        *)

LEMMA EntryShape ==
    ASSUME TypeOK, Reading
    PROVE  /\ Entry.label \in Label /\ Entry.value \in Value
           /\ i + 1 \in 1 .. Len(Current.entries)
           /\ pc = "protected" => Entry = PEntries[i + 1] /\ i < Len(PEntries)
           /\ pc = "unprotected" => Entry = UEntries[i + 1] /\ i < Len(UEntries)
<1>1. msg \in Message /\ i \in Nat
  BY LimitsAssumption DEF TypeOK
<1>2. /\ pc = "protected" => Current.entries = PEntries
      /\ pc = "unprotected" => Current.entries = UEntries
      /\ pc \in {"protected", "unprotected"}
  BY DEF Current, InProtected, PEntries, UEntries, Reading
<1>3. /\ Current.entries \in Seq([label : Label, value : Value])
      /\ Len(Current.entries) \in Nat
  BY <1>1, <1>2, MessageShape
<1>4. i + 1 \in 1 .. Len(Current.entries)
  BY <1>1, <1>3 DEF Reading
<1>5. Current.entries[i + 1] \in [label : Label, value : Value]
  BY <1>3, <1>4, ElementOfSeq
<1>6. Entry \in [label : Label, value : Value]
  BY <1>5 DEF Entry
<1>7. Entry.label \in Label /\ Entry.value \in Value
  BY <1>6
<1> QED BY <1>2, <1>4, <1>7 DEF Reading, Entry

Own == IF InProtected THEN hdrState ELSE unprotState

LEMMA LabelOk ==
    ASSUME TypeOK, Reading
    PROVE  /\ LabelCode \in Codes
           /\ LabelCode = "ok" => /\ Entry.label \in GoodLabel
                                  /\ ~ Contains(Own, Entry.label)
                                  /\ ~ Contains(hdrState, Entry.label)
                                  /\ ~ NoSlot(Own, Entry.label)
<1>1. Entry.label \in Label
  BY EntryShape
<1>2. CASE Entry.label[1] = "bad"
  <2>1. LabelCode = Entry.label[2]
    BY <1>2 DEF LabelCode
  <2>2. Entry.label[2] \in {"malformed", "type", "overflow"}
    BY <1>1, <1>2 DEF Label
  <2> QED BY <2>1, <2>2 DEF Codes
<1>3. CASE Entry.label[1] # "bad"
  <2> DEFINE a == Fails(~ InProtected /\ Is(CRIT), "hdr")
             b == Fails(Contains(Own, Entry.label), "malformed")
             c == Fails(Contains(hdrState, Entry.label), "malformed")
             d == Fails(NoSlot(Own, Entry.label), "malformed")
  <2>1. LabelCode = First(<<a, b, c, d>>)
    BY <1>3 DEF LabelCode, Own
  <2>2. Entry.label \in GoodLabel
    BY <1>1, <1>3 DEF Label, GoodLabel
  <2>3. /\ a \in {"ok", "hdr"} /\ b \in {"ok", "malformed"}
        /\ c \in {"ok", "malformed"} /\ d \in {"ok", "malformed"}
    BY DEF Fails
  <2>4. b = "ok" => ~ Contains(Own, Entry.label)
    BY DEF Fails
  <2>5. c = "ok" => ~ Contains(hdrState, Entry.label)
    BY DEF Fails
  <2>6. d = "ok" => ~ NoSlot(Own, Entry.label)
    BY DEF Fails
  <2> HIDE DEF a, b, c, d
  <2>7. /\ LabelCode \in {"ok", a, b, c, d}
        /\ LabelCode = "ok" => b = "ok" /\ c = "ok" /\ d = "ok"
    BY <2>1, FourOf
  <2>8. LabelCode \in Codes
    BY <2>3, <2>7 DEF Codes
  <2> QED BY <2>2, <2>4, <2>5, <2>6, <2>7, <2>8
<1> QED BY <1>2, <1>3

\* The table stays within its limit, and finds what it found before.
LEMMA AddState ==
    ASSUME NEW st, IsState(st), NEW label \in GoodLabel, ~ NoSlot(st, label)
    PROVE  /\ IsState(Add(st, label))
           /\ Contains(Add(st, label), label)
           /\ \A old : Contains(st, old) => Contains(Add(st, label), old)
<1>1. st \in StateType
  BY DEF IsState, StateType
<1>2. Add(st, label) \in StateType
  BY <1>1, AddContains
<1>3. Len(Add(st, label).ints) <= MaxItems /\ Len(Add(st, label).texts) <= MaxItems
  <2>1. CASE label[1] = "text"
    <3>1. label[2] \in STRING
      BY <2>1 DEF GoodLabel
    <3>2. Len(Append(st.texts, label[2])) = Len(st.texts) + 1 /\ Len(st.texts) \in Nat
      BY <3>1, AppendProperties, LenProperties DEF IsState
    <3>3. Len(st.texts) < MaxItems
      BY <2>1, <3>2, LimitsAssumption DEF NoSlot
    <3> QED BY <1>1, <2>1, <3>2, <3>3, LimitsAssumption DEF Add, IsState, StateType
  <2>2. CASE label[1] # "text" /\ LabelBit(label[2]) # NoBit
    BY <1>1, <2>2 DEF Add, IsState, StateType
  <2>3. CASE label[1] # "text" /\ LabelBit(label[2]) = NoBit
    <3>1. label[2] \in Int
      BY <2>3 DEF GoodLabel
    <3>2. Len(Append(st.ints, label[2])) = Len(st.ints) + 1 /\ Len(st.ints) \in Nat
      BY <3>1, AppendProperties, LenProperties DEF IsState
    <3>3. Len(st.ints) < MaxItems
      BY <2>3, <3>2, LimitsAssumption DEF NoSlot
    <3> QED BY <1>1, <2>3, <3>2, <3>3, LimitsAssumption DEF Add, IsState, StateType
  <2> QED BY <2>1, <2>2, <2>3
<1>4. IsState(Add(st, label))
  BY <1>2, <1>3 DEF IsState, StateType
<1> QED BY <1>1, <1>4, AddContains

\* What every accepted entry does to the tables, and what a refused one leaves.
LEMMA TakeStep ==
    ASSUME IInv, NEW code \in Codes, Take(code)
    PROVE  /\ msg' \in Message /\ ret' \in Codes
           /\ pc' \in {"protected", "unprotected", "done"}
           /\ i' \in 0 .. MaxItems
           /\ IsState(hdrState)' /\ IsState(unprotState)'
           /\ algProtected' \in BOOLEAN
           /\ pin' \in Pins \cup {UNSET}
           /\ Progress'
<1> DEFINE label == Entry.label
<1>1. TypeOK /\ Progress /\ Reading /\ LabelCode = "ok"
  BY DEF IInv, Take
<1>2. /\ msg' = msg /\ algProtected' = algProtected /\ pin' = pin
      /\ msg \in Message /\ i \in Nat /\ MaxItems \in Nat /\ ret \in Codes
      /\ pin \in Pins \cup {UNSET}
      /\ IsState(hdrState) /\ IsState(unprotState)
  BY <1>1, LimitsAssumption DEF Take, TypeOK
<1>3. algProtected' \in BOOLEAN
  BY <1>1, <1>2 DEF TypeOK
<1>4. /\ label \in GoodLabel
      /\ ~ Contains(Own, label) /\ ~ Contains(hdrState, label) /\ ~ NoSlot(Own, label)
  BY <1>1, LabelOk
<1>5. Len(PEntries) \in Nat /\ Len(UEntries) \in Nat
  BY <1>2, MessageShape
<1>6. /\ pc \in {"protected", "unprotected"}
      /\ pc = "protected" => label = PEntries[i + 1].label /\ i < Len(PEntries)
      /\ pc = "unprotected" => label = UEntries[i + 1].label /\ i < Len(UEntries)
  BY <1>1, EntryShape DEF Reading
<1>7. CASE pc = "protected"
  <2>1. Own = hdrState /\ hdrState' = Add(hdrState, label) /\ unprotState' = unprotState
    BY <1>7 DEF Own, InProtected, Take
  <2> HIDE DEF label
  <2>2. /\ IsState(Add(hdrState, label))
        /\ Contains(Add(hdrState, label), label)
        /\ \A old : Contains(hdrState, old) => Contains(Add(hdrState, label), old)
    BY <1>2, <1>4, <2>1, AddState
  <2>3. IsState(hdrState)' /\ IsState(unprotState)'
    BY <1>2, <2>1, <2>2 DEF IsState
  <2>4. Len(PEntries) <= MaxItems /\ i <= Len(PEntries) /\ ProtectedSeen(i)
    BY <1>1, <1>7 DEF Progress
  <2>5. CASE code = "ok"
    <3>1. pc' = pc /\ ret' = ret /\ i' = i + 1 /\ PEntries' = PEntries
      BY <1>2, <2>5 DEF Take, PEntries
    <3>2. ASSUME NEW k \in 1 .. i + 1 PROVE Contains(hdrState', PEntries[k].label)
      <4>1. CASE k \in 1 .. i
        BY <2>1, <2>2, <2>4, <4>1 DEF ProtectedSeen
      <4>2. CASE k = i + 1
        BY <1>6, <1>7, <2>1, <2>2, <4>2
      <4> QED BY <1>2, <4>1, <4>2
    <3>3. ASSUME NEW j \in 1 .. i + 1, NEW k \in 1 .. i + 1,
                 PEntries[j].label = PEntries[k].label
          PROVE  j = k
      <4>1. \A m \in 1 .. i : PEntries[m].label # label
        BY <1>4, <2>4 DEF ProtectedSeen
      <4>2. j \in 1 .. i \/ j = i + 1
        BY <1>2
      <4>3. k \in 1 .. i \/ k = i + 1
        BY <1>2
      <4> QED BY <1>6, <1>7, <2>4, <3>3, <4>1, <4>2, <4>3 DEF ProtectedSeen
    <3>4. ProtectedSeen(i)'
      BY <3>1, <3>2, <3>3 DEF ProtectedSeen
    <3>5. Progress'
      BY <1>2, <1>5, <1>6, <1>7, <2>4, <3>1, <3>4 DEF Progress, Accepted
    <3> QED BY <1>2, <1>3, <1>5, <1>6, <1>7, <2>3, <2>4, <3>1, <3>5
  <2>6. CASE code # "ok"
    <3>1. pc' = "done" /\ ret' = code /\ i' = i
      BY <2>6 DEF Take
    <3>2. Progress'
      BY <2>6, <3>1 DEF Progress, Accepted
    <3>3. i' \in 0 .. MaxItems
      BY <1>1, <3>1 DEF TypeOK
    <3> QED BY <1>2, <1>3, <2>3, <3>1, <3>2, <3>3
  <2> QED BY <2>5, <2>6
<1>8. CASE pc = "unprotected"
  <2>1. Own = unprotState /\ unprotState' = Add(unprotState, label) /\ hdrState' = hdrState
    BY <1>8 DEF Own, InProtected, Take
  <2> HIDE DEF label
  <2>2. /\ IsState(Add(unprotState, label))
        /\ Contains(Add(unprotState, label), label)
        /\ \A old : Contains(unprotState, old) => Contains(Add(unprotState, label), old)
    BY <1>2, <1>4, <2>1, AddState
  <2>3. IsState(hdrState)' /\ IsState(unprotState)'
    BY <1>2, <2>1, <2>2 DEF IsState
  <2>4. /\ Len(UEntries) <= MaxItems /\ i <= Len(UEntries)
        /\ ProtectedSeen(Len(PEntries)) /\ UnprotectedSeen(i)
    BY <1>1, <1>8 DEF Progress
  <2>5. CASE code = "ok"
    <3>1. /\ pc' = pc /\ ret' = ret /\ i' = i + 1
          /\ PEntries' = PEntries /\ UEntries' = UEntries
      BY <1>2, <2>5 DEF Take, PEntries, UEntries
    <3>2. ASSUME NEW k \in 1 .. i + 1
          PROVE  /\ Contains(unprotState', UEntries[k].label)
                 /\ ~ Contains(hdrState, UEntries[k].label)
      <4>1. CASE k \in 1 .. i
        BY <2>1, <2>2, <2>4, <4>1 DEF UnprotectedSeen
      <4>2. CASE k = i + 1
        BY <1>4, <1>6, <1>8, <2>1, <2>2, <4>2
      <4> QED BY <1>2, <4>1, <4>2
    <3>3. ASSUME NEW j \in 1 .. i + 1, NEW k \in 1 .. i + 1,
                 UEntries[j].label = UEntries[k].label
          PROVE  j = k
      <4>1. \A m \in 1 .. i : UEntries[m].label # label
        BY <1>4, <2>1, <2>4 DEF UnprotectedSeen
      <4>2. j \in 1 .. i \/ j = i + 1
        BY <1>2
      <4>3. k \in 1 .. i \/ k = i + 1
        BY <1>2
      <4> QED BY <1>6, <1>8, <2>4, <3>3, <4>1, <4>2, <4>3 DEF UnprotectedSeen
    <3>4. UnprotectedSeen(i)'
      BY <2>1, <3>1, <3>2, <3>3 DEF UnprotectedSeen
    <3>5. ProtectedSeen(Len(PEntries))'
      BY <2>1, <2>4, <3>1 DEF ProtectedSeen
    <3>6. Progress'
      BY <1>2, <1>5, <1>6, <1>8, <2>4, <3>1, <3>4, <3>5 DEF Progress, Accepted
    <3> QED BY <1>2, <1>3, <1>5, <1>6, <1>8, <2>3, <2>4, <3>1, <3>6
  <2>6. CASE code # "ok"
    <3>1. pc' = "done" /\ ret' = code /\ i' = i
      BY <2>6 DEF Take
    <3>2. Progress'
      BY <2>6, <3>1 DEF Progress, Accepted
    <3>3. i' \in 0 .. MaxItems
      BY <1>1, <3>1 DEF TypeOK
    <3> QED BY <1>2, <1>3, <2>3, <3>1, <3>2, <3>3
  <2> QED BY <2>5, <2>6
<1> QED BY <1>6, <1>7, <1>8

\* An entry that does not set the algorithm.
LEMMA OtherEntry ==
    ASSUME IInv, NEW code \in Codes, Take(code),
           "alg" \in DOMAIN hdr', hdr'.alg \in {hdr.alg, UNSET}
    PROVE  AlgSource'
<1>1. /\ AlgSource /\ msg' = msg /\ algProtected' = algProtected
      /\ pc \in {"protected", "unprotected"}
  BY DEF IInv, Take, Reading
<1>2. Vouched => Vouched'
  BY <1>1 DEF Vouched, ProtectedValues
<1>3. CASE code # "ok"
  <2>1. pc' = "done" /\ ret' # "ok"
    BY <1>3 DEF Take
  <2> QED BY <2>1 DEF AlgSource
<1>4. CASE code = "ok"
  <2>1. pc' = pc /\ (pc = "unprotected" => hdrState' = hdrState)
    BY <1>4 DEF Take, InProtected
  <2> QED BY <1>1, <1>2, <2>1 DEF AlgSource
<1> QED BY <1>3, <1>4

LEMMA EntryStep ==
    ASSUME IInv, NEW code \in Codes, Take(code), AlgSource',
           critLabels' \subseteq 0 .. 31, understood' \in BOOLEAN
    PROVE  IInv'
<1>1. /\ msg' \in Message /\ ret' \in Codes
      /\ pc' \in {"start", "protected", "between", "unprotected", "decoded", "done"}
      /\ i' \in 0 .. MaxItems
      /\ IsState(hdrState)' /\ IsState(unprotState)'
      /\ pin' \in Pins \cup {UNSET}
      /\ Progress'
  BY TakeStep
<1>2. algProtected' \in BOOLEAN
  BY TakeStep
<1>3. TypeOK'
  BY <1>1, <1>2 DEF TypeOK
<1> QED BY <1>1, <1>3 DEF IInv

\* An entry that does not touch the algorithm, nor what crit and the content type say.
LEMMA PlainEntryStep ==
    ASSUME IInv, NEW code \in Codes, Take(code), NEW h, Keep(code, h),
           "alg" \in DOMAIN h, h.alg = hdr.alg, UNCHANGED <<critLabels, understood>>
    PROVE  IInv'
<1>1. "alg" \in DOMAIN hdr' /\ hdr'.alg \in {hdr.alg, UNSET}
  BY DEF Keep, NoHdr
<1>2. AlgSource'
  BY <1>1, OtherEntry
<1>3. critLabels' \subseteq 0 .. 31
  BY DEF IInv, TypeOK
<1>4. understood' \in BOOLEAN
  BY DEF IInv, TypeOK
<1> QED BY <1>2, <1>3, <1>4, EntryStep

LEMMA ValueCodes ==
    SkipCode \in Codes /\ BstrCode \in Codes
<1>1. SkipCode \in {"ok", "malformed"}
  BY DEF SkipCode, Fails
<1>2. Fails(Kind # "bstr", "type") \in {"ok", "type"}
  BY DEF Fails
<1>3. BstrCode \in {"ok", SkipCode, Fails(Kind # "bstr", "type")}
  BY PairOf DEF BstrCode
<1> QED BY <1>1, <1>2, <1>3 DEF Codes

LEMMA EntryOfTake ==
    ASSUME IInv, NEW code, Take(code)
    PROVE  /\ TypeOK /\ Reading /\ AlgSource
           /\ "alg" \in DOMAIN hdr
           /\ LabelCode = "ok"
BY DEF IInv, Take, AlgSource

\* The value of an integer entry: the decoder of an entry that is no scalar refuses.
LEMMA EntryInt ==
    ASSUME TypeOK, Reading
    PROVE  /\ UintCode(Entry.value) \in Codes /\ IntCode(Entry.value) \in Codes
           /\ UintCode(Entry.value) = "ok" => Kind = "int"
           /\ IntCode(Entry.value) = "ok" => Entry.value = <<"int", Content>>
<1>1. Entry.value \in Value
  BY EntryShape
<1>2. CASE Entry.value \in Scalar
  <2>1. /\ UintCode(Entry.value) \in Codes /\ IntCode(Entry.value) \in Codes
        /\ UintCode(Entry.value) = "ok" => Kind = "int"
        /\ IntCode(Entry.value) = "ok" => Kind = "int"
    BY <1>2, UintIntCode DEF Kind
  <2>2. Kind = "int" => Entry.value = <<"int", Content>>
    BY <1>2 DEF Scalar, Kind, Content
  <2> QED BY <2>1, <2>2
<1>3. CASE Entry.value \in {"array"} \X Seq(Scalar)
  BY <1>3 DEF UintCode, IntCode, Codes
<1> QED BY <1>1, <1>2, <1>3 DEF Value

LEMMA DecodeAlgStep ==
    ASSUME IInv, DecodeAlg
    PROVE  IInv'
<1> DEFINE a == IntCode(Entry.value)
           b == IF a # "ok" THEN "ok" ELSE Fails(Content \notin Int32, "alg")
           code == IF Kind = "tstr" THEN SkipCode ELSE First(<<a, b>>)
           h == IF Kind = "tstr" THEN hdr ELSE [hdr EXCEPT !.alg = Content]
<1>1. Take(code) /\ Keep(code, h) /\ Is(ALG) /\ UNCHANGED <<critLabels, understood>>
  BY DEF DecodeAlg
<1>2. /\ TypeOK /\ Reading /\ AlgSource /\ "alg" \in DOMAIN hdr /\ LabelCode = "ok"
  <2> HIDE DEF code
  <2> QED BY <1>1, EntryOfTake
<1>3. a \in Codes /\ (a = "ok" => Entry.value = <<"int", Content>>)
  BY <1>2, EntryInt
<1>4. b \in {"ok", "alg"}
  BY DEF Fails
<1>5. First(<<a, b>>) \in {"ok", a, b} /\ (First(<<a, b>>) = "ok" => a = "ok")
  <2> HIDE DEF a, b
  <2> QED BY PairOf
<1>6. code \in Codes
  <2> HIDE DEF a, b
  <2> QED BY <1>3, <1>4, <1>5, ValueCodes DEF Codes
<1>7. code = "ok" /\ Kind # "tstr" => Entry.value = <<"int", Content>>
  <2> HIDE DEF a, b
  <2> QED BY <1>3, <1>5
<1> HIDE DEF a, b, code
<1>8. CASE Kind = "tstr" \/ code # "ok"
  <2>1. "alg" \in DOMAIN hdr' /\ hdr'.alg \in {hdr.alg, UNSET}
    BY <1>1, <1>2, <1>8 DEF Keep, NoHdr
  <2>2. AlgSource'
    BY <1>1, <1>6, <2>1, OtherEntry
  <2>3. critLabels' \subseteq 0 .. 31
    BY <1>1, <1>2 DEF TypeOK
  <2>4. understood' \in BOOLEAN
    BY <1>1, <1>2 DEF TypeOK
  <2> QED BY <1>1, <1>6, <2>2, <2>3, <2>4, EntryStep
<1>9. CASE Kind # "tstr" /\ code = "ok"
  <2>1. "alg" \in DOMAIN hdr' /\ hdr'.alg = Content
    BY <1>1, <1>2, <1>9 DEF Keep
  <2>2. pc' = pc /\ msg' = msg /\ algProtected' = algProtected /\ pc \in {"protected", "unprotected"}
    BY <1>1, <1>9 DEF Take, Reading
  <2>3. CASE pc = "protected"
    <3>1. Entry = PEntries[i + 1] /\ i + 1 \in 1 .. Len(PEntries) /\ PEntries = msg.protected.entries
      BY <1>2, <2>3, EntryShape DEF Current, InProtected, PEntries
    <3>2. PEntries \in Seq([label : Label, value : Value])
      BY <1>2, MessageShape DEF TypeOK
    <3>3. i + 1 \in DOMAIN PEntries
      BY <3>1, <3>2, LenProperties
    <3>4. Entry.value \in ProtectedValues(ALG)
      BY <1>1, <3>1, <3>3 DEF ProtectedValues, Is
    <3>5. Vouched'
      BY <1>7, <1>9, <2>1, <2>2, <3>4 DEF Vouched, ProtectedValues
    <3> QED BY <2>1, <2>2, <2>3, <3>5, <1>2, <1>1, <1>6, EntryStep DEF AlgSource, TypeOK
  <2>4. CASE pc = "unprotected"
    <3>1. ~ Contains(hdrState, Entry.label)
      BY <1>2, LabelOk
    <3>2. ~ ContainsInt(hdrState, ALG)
      BY <1>1, <3>1 DEF Is, Contains
    <3>3. ~ algProtected
      BY <1>2, <2>4, <3>2 DEF AlgSource
    <3>4. AlgSource'
      BY <2>1, <2>2, <2>4, <3>3 DEF AlgSource
    <3> QED BY <3>4, <1>2, <1>1, <1>6, EntryStep DEF TypeOK
  <2> QED BY <2>2, <2>3, <2>4
<1> QED BY <1>8, <1>9

LEMMA DecodeCritStep ==
    ASSUME IInv, DecodeCrit
    PROVE  IInv'
<1> DEFINE n == Len(Content)
           size == <<Fails(n = 0 \/ n > MaxItems, "hdr")>>
           items == [k \in 1 .. n |-> CritCode(Content[k])]
           code == CASE Kind = "bad"   -> "malformed"
                     [] Kind = "array" -> First(size \o items)
                     [] OTHER          -> "type"
<1>1. /\ Take(code) /\ Keep(code, hdr) /\ understood' = understood
      /\ critLabels' = IF code = "ok" THEN {LabelBit(Content[k][2]) : k \in 1 .. n}
                       ELSE critLabels
  BY DEF DecodeCrit
<1>2. /\ TypeOK /\ Reading /\ AlgSource /\ "alg" \in DOMAIN hdr
  <2> HIDE DEF code
  <2> QED BY <1>1, EntryOfTake
<1>3. Kind = "array" => Content \in Seq(Scalar)
  <2>1. Entry.value \in Scalar \cup ({"array"} \X Seq(Scalar))
    BY <1>2, EntryShape DEF Value
  <2>2. Entry.value \in Scalar => Entry.value[1] # "array"
    BY DEF Scalar
  <2> QED BY <2>1, <2>2 DEF Kind, Content
<1>4. ASSUME Kind = "array"
      PROVE  /\ First(size \o items) \in Codes
             /\ First(size \o items) = "ok" => \A k \in 1 .. n : Content[k][2] \in 1 .. 6
  <2>1. n \in Nat /\ \A k \in 1 .. n : Content[k] \in Scalar
    BY <1>3, <1>4, LenProperties, ElementOfSeq
  <2>2. \A k \in 1 .. n : /\ CritCode(Content[k]) \in Codes
                          /\ CritCode(Content[k]) = "ok" => Content[k][2] \in 1 .. 6
    BY <2>1, CritLabelCode
  <2>3. size \in Seq(Codes) /\ Len(size) = 1
    <3>1. Fails(n = 0 \/ n > MaxItems, "hdr") \in Codes
      BY DEF Fails, Codes
    <3> HIDE DEF n
    <3> QED BY <3>1
  <2>4. /\ items \in Seq(Codes) /\ Len(items) = n
        /\ \A k \in 1 .. n : items[k] = CritCode(Content[k])
    <3> HIDE DEF n
    <3>1. items \in [1 .. n -> Codes]
      BY <2>2
    <3> QED BY <2>1, <3>1
  <2> HIDE DEF size, items, n
  <2>5. /\ size \o items \in Seq(Codes)
        /\ Len(size \o items) = 1 + n
        /\ \A k \in 1 .. n : (size \o items)[1 + k] = items[k]
    BY <2>1, <2>3, <2>4, ConcatProperties
  <2>6. First(size \o items) \in Codes /\ (First(size \o items) = "ok" => AllOk(size \o items))
    BY <2>5, FirstOf DEF Codes
  <2>7. ASSUME AllOk(size \o items), NEW k \in 1 .. n PROVE Content[k][2] \in 1 .. 6
    <3>1. 1 + k \in 1 .. (1 + n)
      BY <2>1
    <3>2. items[k] = "ok"
      BY <2>5, <2>7, <3>1 DEF AllOk
    <3> QED BY <2>2, <2>4, <3>2
  <2> QED BY <2>6, <2>7
<1>5. code \in Codes
  BY <1>4 DEF Codes
<1>6. critLabels' \subseteq 0 .. 31
  <2>1. CASE code # "ok"
    BY <1>1, <1>2, <2>1 DEF TypeOK
  <2>2. CASE code = "ok"
    <3>1. Kind = "array" /\ First(size \o items) = "ok"
      BY <2>2
    <3>2. \A k \in 1 .. n : Content[k][2] \in 1 .. 6
      BY <1>4, <3>1
    <3>3. critLabels' = {LabelBit(Content[k][2]) : k \in 1 .. n}
      BY <1>1, <2>2
    <3>4. \A m \in 1 .. 6 : LabelBit(m) \in 0 .. 31
      BY DEF LabelBit
    <3> HIDE DEF n
    <3> QED BY <3>2, <3>3, <3>4
  <2> QED BY <2>1, <2>2
<1> HIDE DEF code
<1>7. understood' \in BOOLEAN
  BY <1>1, <1>2 DEF TypeOK
<1>8. "alg" \in DOMAIN hdr' /\ hdr'.alg \in {hdr.alg, UNSET}
  BY <1>1, <1>2 DEF Keep, NoHdr
<1>9. AlgSource'
  BY <1>1, <1>5, <1>8, OtherEntry
<1> QED BY <1>1, <1>5, <1>6, <1>7, <1>9, EntryStep

LEMMA DecodeContentTypeStep ==
    ASSUME IInv, DecodeContentType
    PROVE  IInv'
<1> DEFINE code == IF Kind = "tstr" THEN SkipCode
                   ELSE IF UintCode(Entry.value) # "ok" THEN UintCode(Entry.value)
                   ELSE Fails(Content > Int32Max, "hdr")
           g == IF InProtected THEN hdr ELSE [hdr EXCEPT !.flags = @ \cup {"unprotected"}]
           h == IF Kind = "tstr" THEN g ELSE [g EXCEPT !.contentType = Content]
<1>1. /\ Take(code) /\ Keep(code, h) /\ UNCHANGED critLabels
      /\ understood' = (understood \/ (InProtected /\ code = "ok" /\ Kind # "tstr"))
  BY DEF DecodeContentType
<1>2. /\ TypeOK /\ Reading /\ AlgSource /\ "alg" \in DOMAIN hdr
  <2> HIDE DEF code
  <2> QED BY <1>1, EntryOfTake
<1>3. code \in Codes
  <2>1. UintCode(Entry.value) \in Codes
    BY <1>2, EntryInt
  <2>2. Fails(Content > Int32Max, "hdr") \in Codes
    BY DEF Fails, Codes
  <2> QED BY <2>1, <2>2, ValueCodes
<1> HIDE DEF code
<1>4. "alg" \in DOMAIN h /\ h.alg = hdr.alg
  BY <1>2
<1> HIDE DEF g, h
<1>5. "alg" \in DOMAIN hdr' /\ hdr'.alg \in {hdr.alg, UNSET}
  BY <1>1, <1>4 DEF Keep, NoHdr
<1>6. AlgSource'
  BY <1>1, <1>3, <1>5, OtherEntry
<1>7. understood' \in BOOLEAN
  BY <1>1
<1>8. critLabels' \subseteq 0 .. 31
  BY <1>1, <1>2 DEF TypeOK
<1> QED BY <1>1, <1>3, <1>6, <1>7, <1>8, EntryStep

LEMMA DecodeBstrStep ==
    ASSUME IInv, NEW n, NEW field \in {"kid", "iv", "partialIv", "ek"}, DecodeBstr(n, field)
    PROVE  IInv'
<1>1. /\ Take(BstrCode) /\ Keep(BstrCode, [hdr EXCEPT ![field] = Entry.value])
      /\ UNCHANGED <<critLabels, understood>>
  BY DEF DecodeBstr
<1>2. "alg" \in DOMAIN hdr
  BY <1>1, EntryOfTake
<1> DEFINE h == [hdr EXCEPT ![field] = Entry.value]
<1>3. "alg" \in DOMAIN h /\ h.alg = hdr.alg
  BY <1>2
<1> HIDE DEF h
<1> QED BY <1>1, <1>3, ValueCodes, PlainEntryStep DEF h

LEMMA DecodeX5chainStep ==
    ASSUME IInv, DecodeX5chain
    PROVE  IInv'
<1> DEFINE h == [hdr EXCEPT !.flags = @ \cup {"x5chain"}]
<1>1. Take(SkipCode) /\ Keep(SkipCode, h) /\ UNCHANGED <<critLabels, understood>>
  BY DEF DecodeX5chain
<1>2. "alg" \in DOMAIN hdr
  BY <1>1, EntryOfTake
<1>3. "alg" \in DOMAIN h /\ h.alg = hdr.alg
  BY <1>2
<1> HIDE DEF h
<1> QED BY <1>1, <1>3, ValueCodes, PlainEntryStep

LEMMA SkipUnknownStep ==
    ASSUME IInv, SkipUnknown
    PROVE  IInv'
<1>1. Take(SkipCode) /\ Keep(SkipCode, hdr) /\ UNCHANGED <<critLabels, understood>>
  BY DEF SkipUnknown
<1>2. "alg" \in DOMAIN hdr
  BY <1>1, EntryOfTake
<1> QED BY <1>1, <1>2, ValueCodes, PlainEntryStep

-----------------------------------------------------------------------------
(* The other actions.                                                      *)

LEMMA RefuseLabelStep ==
    ASSUME IInv, RefuseLabel
    PROVE  IInv'
<1>1. TypeOK /\ Reading /\ LabelCode # "ok" /\ Refuse(LabelCode)
      /\ UNCHANGED <<msg, hdrState, unprotState>>
  BY DEF RefuseLabel, IInv
<1>2. LabelCode \in Codes
  BY <1>1, LabelOk
<1> QED BY <1>1, <1>2, RefuseStep

LEMMA OpenCodeOk ==
    ASSUME NEW b \in Bucket
    PROVE  OpenCode(b) \in Codes /\ (OpenCode(b) = "ok" => Len(b.entries) <= MaxItems)
<1>1. b.code \in {"ok", "malformed", "type"} /\ Len(b.entries) \in Nat
  BY LenProperties DEF Bucket
<1> QED BY <1>1, LimitsAssumption DEF OpenCode, Fails, Codes

\* Going on to the next part of the message, nothing refused.
GoOn(to) == pc' = to /\ UNCHANGED <<ret, hdr, critLabels, understood, pin, msg>>

LEMMA GoOnType ==
    ASSUME TypeOK, NEW to \in {"protected", "between", "unprotected", "decoded"}, GoOn(to),
           i' \in 0 .. MaxItems, algProtected' \in BOOLEAN,
           IsState(hdrState)', IsState(unprotState)'
    PROVE  TypeOK'
<1>1. /\ msg' \in Message /\ ret' \in Codes /\ critLabels' \subseteq 0 .. 31
      /\ pin' \in Pins \cup {UNSET}
      /\ pc' \in {"start", "protected", "between", "unprotected", "decoded", "done"}
  BY DEF TypeOK, GoOn
<1>2. understood' \in BOOLEAN
  BY DEF TypeOK, GoOn
<1> QED BY <1>1, <1>2 DEF TypeOK

LEMMA OpenProtectedStep ==
    ASSUME IInv, OpenProtected
    PROVE  IInv'
<1> DEFINE code == OpenCode(msg.protected)
<1>1. /\ pc = "start" /\ UNCHANGED <<msg, hdrState, unprotState>>
      /\ Go(code, UNCHANGED <<i, algProtected>>, "protected")
  BY DEF OpenProtected
<1>2. TypeOK /\ Progress /\ AlgSource /\ msg.protected \in Bucket /\ Len(PEntries) \in Nat
  BY MessageShape DEF IInv, TypeOK
<1>3. code \in Codes /\ (code = "ok" => Len(PEntries) <= MaxItems)
  BY <1>2, OpenCodeOk DEF PEntries
<1> HIDE DEF code
<1>4. CASE code # "ok"
  BY <1>1, <1>3, <1>4, RefuseStep DEF Go
<1>5. CASE code = "ok"
  <2>1. GoOn("protected") /\ UNCHANGED <<i, algProtected, hdrState, unprotState>>
    BY <1>1, <1>5 DEF Go, GoOn
  <2>2. IsState(hdrState)' /\ IsState(unprotState)'
    BY <1>2, <2>1 DEF TypeOK, IsState
  <2>3. algProtected' \in BOOLEAN
    BY <1>2, <2>1 DEF TypeOK
  <2>4. TypeOK'
    BY <1>2, <2>1, <2>2, <2>3, GoOnType DEF TypeOK
  <2>5. i = 0
    BY <1>1, <1>2 DEF Progress
  <2>6. Progress'
    BY <1>2, <1>3, <1>5, <2>1, <2>5 DEF Progress, ProtectedSeen, Accepted, PEntries, GoOn
  <2>7. AlgSource'
    BY <1>1, <1>2, <2>1 DEF AlgSource, Vouched, ProtectedValues, GoOn
  <2> QED BY <2>4, <2>6, <2>7 DEF IInv
<1> QED BY <1>4, <1>5

LEMMA EndProtectedStep ==
    ASSUME IInv, EndProtected
    PROVE  IInv'
<1>1. /\ pc = "protected" /\ i = Len(PEntries) /\ UNCHANGED <<msg, hdrState, unprotState>>
      /\ Go(ProtectedEndCode, i' = 0 /\ algProtected' = ContainsInt(hdrState, ALG), "between")
  BY DEF EndProtected, InProtected, PEntries
<1>2. TypeOK /\ Progress /\ AlgSource
  BY DEF IInv
<1>3. ProtectedEndCode \in Codes
  <2> DEFINE a == Fails(~ (critLabels \subseteq hdrState.bits), "hdr")
             b == Fails(LabelBit(CONTENT_TYPE) \in critLabels /\ ~ understood, "hdr")
             c == Fails(\E n \in COUNTERSIGNATURES : ContainsInt(hdrState, n), "hdr")
             d == Fails(hdr.iv # NULL /\ hdr.partialIv # NULL, "hdr")
             e == Fails(msg.protected.trailing, "malformed")
  <2>1. a \in {"ok", "hdr"} /\ b \in {"ok", "hdr"} /\ c \in {"ok", "hdr"}
    BY DEF Fails
  <2>2. d \in {"ok", "hdr"} /\ e \in {"ok", "malformed"}
    BY DEF Fails
  <2>3. ProtectedEndCode = First(<<a, b, c, d, e>>)
    BY DEF ProtectedEndCode
  <2> HIDE DEF a, b, c, d, e
  <2>4. ProtectedEndCode \in {"ok", a, b, c, d, e}
    BY <2>3, FiveOf
  <2> QED BY <2>1, <2>2, <2>4 DEF Codes
<1>4. CASE ProtectedEndCode # "ok"
  BY <1>1, <1>3, <1>4, RefuseStep DEF Go
<1>5. CASE ProtectedEndCode = "ok"
  <2>1. /\ GoOn("between") /\ i' = 0 /\ UNCHANGED <<hdrState, unprotState>>
        /\ algProtected' = ContainsInt(hdrState, ALG)
    BY <1>1, <1>5 DEF Go, GoOn
  <2>2. IsState(hdrState)' /\ IsState(unprotState)'
    BY <1>2, <2>1 DEF TypeOK, IsState
  <2>3. algProtected' \in BOOLEAN
    BY <2>1 DEF ContainsInt
  <2>4. TypeOK'
    BY <1>2, <2>1, <2>2, <2>3, LimitsAssumption, GoOnType
  <2>5. Progress'
    BY <1>1, <1>2, <2>1 DEF Progress, ProtectedSeen, Accepted, PEntries, GoOn
  <2>6. Vouched'
    BY <1>1, <1>2, <2>1 DEF AlgSource, Vouched, ProtectedValues, GoOn
  <2>7. AlgSource'
    BY <1>2, <2>1, <2>6 DEF AlgSource, GoOn, ContainsInt
  <2> QED BY <2>4, <2>5, <2>7 DEF IInv
<1> QED BY <1>4, <1>5

LEMMA OpenUnprotectedStep ==
    ASSUME IInv, OpenUnprotected
    PROVE  IInv'
<1> DEFINE code == OpenCode(msg.unprotected)
<1>1. /\ pc = "between" /\ UNCHANGED <<msg, hdrState, unprotState>>
      /\ Go(code, UNCHANGED <<i, algProtected>>, "unprotected")
  BY DEF OpenUnprotected
<1>2. TypeOK /\ Progress /\ AlgSource /\ msg.unprotected \in Bucket /\ Len(UEntries) \in Nat
  BY MessageShape DEF IInv, TypeOK
<1>3. code \in Codes /\ (code = "ok" => Len(UEntries) <= MaxItems)
  BY <1>2, OpenCodeOk DEF UEntries
<1> HIDE DEF code
<1>4. CASE code # "ok"
  BY <1>1, <1>3, <1>4, RefuseStep DEF Go
<1>5. CASE code = "ok"
  <2>1. GoOn("unprotected") /\ UNCHANGED <<i, algProtected, hdrState, unprotState>>
    BY <1>1, <1>5 DEF Go, GoOn
  <2>2. IsState(hdrState)' /\ IsState(unprotState)'
    BY <1>2, <2>1 DEF TypeOK, IsState
  <2>3. algProtected' \in BOOLEAN
    BY <1>2, <2>1 DEF TypeOK
  <2>4. TypeOK'
    BY <1>2, <2>1, <2>2, <2>3, GoOnType DEF TypeOK
  <2>5. i = 0 /\ ProtectedSeen(Len(PEntries))
    BY <1>1, <1>2 DEF Progress
  <2>6. Progress'
    BY <1>2, <1>3, <1>5, <2>1, <2>5
    DEF Progress, ProtectedSeen, UnprotectedSeen, Accepted, PEntries, UEntries, GoOn
  <2>7. AlgSource'
    BY <1>1, <1>2, <2>1 DEF AlgSource, Vouched, ProtectedValues, GoOn, ContainsInt
  <2> QED BY <2>4, <2>6, <2>7 DEF IInv
<1> QED BY <1>4, <1>5

\* What was seen bucket by bucket, said of the whole message.
LEMMA SeenDistinct ==
    ASSUME msg \in Message, ProtectedSeen(Len(PEntries)), UnprotectedSeen(Len(UEntries))
    PROVE  AllDistinct
<1> DEFINE p == Len(PEntries)
           u == Len(UEntries)
           labels == [k \in DOMAIN Entries |-> Entries[k].label]
           S == [label : Label, value : Value]
<1>1. PEntries \in Seq(S) /\ UEntries \in Seq(S) /\ p \in Nat /\ u \in Nat
  BY MessageShape
<1>2. Entries = PEntries \o UEntries
  BY DEF Entries, PEntries, UEntries
<1> HIDE DEF S
<1>3. /\ Entries \in Seq(S) /\ Len(Entries) = p + u
      /\ \A k \in 1 .. p + u : Entries[k] = IF k <= p THEN PEntries[k] ELSE UEntries[k - p]
  BY <1>1, <1>2, ConcatProperties
<1>4. DOMAIN Entries = 1 .. p + u
  BY <1>3, LenProperties
<1> HIDE DEF p, u
<1>5. ASSUME NEW j \in 1 .. p + u, NEW k \in 1 .. p + u, Entries[j].label = Entries[k].label
      PROVE  j = k
  <2>1. CASE j <= p /\ k <= p
    <3>1. j \in 1 .. p /\ k \in 1 .. p /\ PEntries[j].label = PEntries[k].label
      BY <1>1, <1>3, <1>5, <2>1
    <3> QED BY <3>1 DEF ProtectedSeen, p
  <2>2. CASE j > p /\ k > p
    <3>1. j - p \in 1 .. u /\ k - p \in 1 .. u /\ UEntries[j - p].label = UEntries[k - p].label
      BY <1>1, <1>3, <1>5, <2>2
    <3>2. j - p = k - p
      BY <3>1 DEF UnprotectedSeen, u
    <3> QED BY <1>1, <3>2
  <2>3. ASSUME NEW x \in 1 .. p, NEW y \in 1 .. u PROVE PEntries[x].label # UEntries[y].label
    BY DEF ProtectedSeen, UnprotectedSeen, p, u
  <2>4. CASE j <= p /\ k > p
    <3>1. j \in 1 .. p /\ k - p \in 1 .. u /\ PEntries[j].label = UEntries[k - p].label
      BY <1>1, <1>3, <1>5, <2>4
    <3> QED BY <2>3, <3>1
  <2>5. CASE j > p /\ k <= p
    <3>1. k \in 1 .. p /\ j - p \in 1 .. u /\ PEntries[k].label = UEntries[j - p].label
      BY <1>1, <1>3, <1>5, <2>5
    <3> QED BY <2>3, <3>1
  <2> QED BY <1>1, <2>1, <2>2, <2>4, <2>5
<1>6. DOMAIN labels = 1 .. p + u /\ \A k \in 1 .. p + u : labels[k] = Entries[k].label
  BY <1>4
<1> HIDE DEF labels
<1>7. Distinct(labels)
  BY <1>5, <1>6 DEF Distinct
<1> QED BY <1>7 DEF AllDistinct, labels

LEMMA EndUnprotectedStep ==
    ASSUME IInv, EndUnprotected
    PROVE  IInv'
<1> DEFINE code == Fails(hdr.iv # NULL /\ hdr.partialIv # NULL, "hdr")
<1>1. /\ pc = "unprotected" /\ i = Len(UEntries) /\ UNCHANGED <<msg, unprotState>>
      /\ hdrState' = IF code = "ok"
                     THEN [hdrState EXCEPT !.bits = @ \cup unprotState.bits] ELSE hdrState
      /\ Go(code, UNCHANGED <<i, algProtected>>, "decoded")
  BY DEF EndUnprotected, UEntries
<1>2. /\ TypeOK /\ Progress /\ AlgSource /\ msg \in Message
      /\ IsState(hdrState) /\ IsState(unprotState)
  BY DEF IInv, TypeOK
<1>3. code \in Codes
  BY DEF Fails, Codes
<1> HIDE DEF code
<1>4. CASE code # "ok"
  BY <1>1, <1>3, <1>4, RefuseStep DEF Go
<1>5. CASE code = "ok"
  <2>1. /\ GoOn("decoded") /\ UNCHANGED <<i, algProtected, unprotState>>
        /\ hdrState' = [hdrState EXCEPT !.bits = @ \cup unprotState.bits]
    BY <1>1, <1>5 DEF Go, GoOn
  <2>2. IsState(hdrState)' /\ IsState(unprotState)'
    BY <1>2, <2>1 DEF IsState
  <2>3. algProtected' \in BOOLEAN
    BY <1>2, <2>1 DEF TypeOK
  <2>4. TypeOK'
    BY <1>2, <2>1, <2>2, <2>3, GoOnType DEF TypeOK
  <2>5. AllDistinct
    BY <1>1, <1>2, SeenDistinct DEF Progress
  <2>6. Progress'
    BY <2>1, <2>5 DEF Progress, Accepted, AllDistinct, Entries, GoOn
  <2>7. AlgSource'
    BY <1>1, <1>2, <2>1 DEF AlgSource, Vouched, ProtectedValues, GoOn
  <2> QED BY <2>4, <2>6, <2>7 DEF IInv
<1> QED BY <1>4, <1>5

LEMMA CheckAlgStep ==
    ASSUME IInv, CheckAlg
    PROVE  IInv'
<1>1. PICK p \in Pins : /\ pin' = p
                        /\ ret' = AlgCode(p)
                        /\ hdr' = IF AlgCode(p) = "ok" THEN hdr ELSE NoHdr
  BY DEF CheckAlg
<1>2. /\ pc = "decoded" /\ pc' = "done"
      /\ UNCHANGED <<msg, i, hdrState, unprotState, critLabels, understood, algProtected>>
  BY DEF CheckAlg
<1>3. TypeOK /\ Progress /\ AlgSource
  BY DEF IInv
<1> DEFINE a == Fails(p # UNSET /\ p # hdr.alg, "alg")
           b == Fails(p = UNSET /\ ~ algProtected, "alg")
           c == Fails(hdr.alg \notin Supported, "alg")
<1>4. /\ a \in {"ok", "alg"} /\ (a = "ok" => p = UNSET \/ p = hdr.alg)
      /\ b \in {"ok", "alg"} /\ c \in {"ok", "alg"}
  BY DEF Fails
<1>5. b = "ok" => p # UNSET \/ algProtected
  BY DEF Fails
<1>6. c = "ok" => hdr.alg \in Supported
  BY DEF Fails
<1>7. AlgCode(p) = First(<<a, b, c>>)
  BY DEF AlgCode
<1> HIDE DEF a, b, c
<1>8. /\ AlgCode(p) \in {"ok", "alg"}
      /\ AlgCode(p) = "ok" => a = "ok" /\ b = "ok" /\ c = "ok"
  BY <1>4, <1>7, TripleOf
<1>9. TypeOK'
  <2>1. understood' \in BOOLEAN /\ algProtected' \in BOOLEAN
    BY <1>2, <1>3 DEF TypeOK
  <2>2. IsState(hdrState)' /\ IsState(unprotState)'
    BY <1>2, <1>3 DEF TypeOK, IsState
  <2>3. ret' \in Codes /\ pin' \in Pins \cup {UNSET}
    BY <1>1, <1>8 DEF Codes
  <2>4. msg' \in Message /\ i' \in 0 .. MaxItems /\ critLabels' \subseteq 0 .. 31
    BY <1>2, <1>3 DEF TypeOK
  <2> QED BY <1>2, <2>1, <2>2, <2>3, <2>4 DEF TypeOK
<1>10. Progress'
  <2>1. AllDistinct
    BY <1>2, <1>3 DEF Progress
  <2>2. AllDistinct'
    BY <1>2, <2>1 DEF AllDistinct, Entries
  <2> QED BY <1>2, <2>2 DEF Progress
<1>11. AlgSource'
  <2>1. CASE AlgCode(p) # "ok"
    BY <1>1, <1>2, <2>1 DEF AlgSource, NoHdr
  <2>2. CASE AlgCode(p) = "ok"
    <3>1. hdr.alg \in Supported /\ (p = hdr.alg \/ algProtected) /\ hdr' = hdr
      BY <1>1, <1>4, <1>5, <1>6, <1>8, <2>2
    <3>2. algProtected => Vouched
      BY <1>2, <1>3 DEF AlgSource
    <3> QED BY <1>1, <1>2, <1>3, <3>1, <3>2 DEF AlgSource, Vouched, ProtectedValues
  <2> QED BY <2>1, <2>2
<1> QED BY <1>9, <1>10, <1>11 DEF IInv

LEMMA NextIInv == IInv /\ [Next]_vars => IInv'
<1> SUFFICES ASSUME IInv, [Next]_vars PROVE IInv'
  OBVIOUS
<1>1. CASE OpenProtected
  BY <1>1, OpenProtectedStep
<1>2. CASE RefuseLabel
  BY <1>2, RefuseLabelStep
<1>3. CASE DecodeAlg
  BY <1>3, DecodeAlgStep
<1>4. CASE DecodeCrit
  BY <1>4, DecodeCritStep
<1>5. CASE DecodeContentType
  BY <1>5, DecodeContentTypeStep
<1>6. CASE DecodeBstr(KID, "kid") \/ DecodeBstr(IV, "iv") \/ DecodeBstr(PARTIAL_IV, "partialIv")
  BY <1>6, DecodeBstrStep
<1>7. CASE DecodeEk
  BY <1>7, DecodeBstrStep DEF DecodeEk
<1>8. CASE DecodeX5chain
  BY <1>8, DecodeX5chainStep
<1>9. CASE SkipUnknown
  BY <1>9, SkipUnknownStep
<1>10. CASE EndProtected
  BY <1>10, EndProtectedStep
<1>11. CASE OpenUnprotected
  BY <1>11, OpenUnprotectedStep
<1>12. CASE EndUnprotected
  BY <1>12, EndUnprotectedStep
<1>13. CASE CheckAlg
  BY <1>13, CheckAlgStep
<1>14. CASE UNCHANGED vars
  <2>1. TypeOK'
    <3>1. /\ msg' \in Message /\ ret' \in Codes /\ critLabels' \subseteq 0 .. 31
          /\ pin' \in Pins \cup {UNSET} /\ i' \in 0 .. MaxItems
          /\ pc' \in {"start", "protected", "between", "unprotected", "decoded", "done"}
      BY <1>14 DEF vars, IInv, TypeOK
    <3>2. understood' \in BOOLEAN /\ algProtected' \in BOOLEAN
      BY <1>14 DEF vars, IInv, TypeOK
    <3>3. IsState(hdrState)' /\ IsState(unprotState)'
      BY <1>14 DEF vars, IInv, TypeOK, IsState
    <3> QED BY <3>1, <3>2, <3>3 DEF TypeOK
  <2>2. Progress'
    BY <1>14 DEF vars, IInv, Progress, ProtectedSeen, UnprotectedSeen, PEntries, UEntries,
                 Accepted, AllDistinct, Entries
  <2>3. AlgSource'
    BY <1>14 DEF vars, IInv, AlgSource, Vouched, ProtectedValues, ContainsInt
  <2> QED BY <2>1, <2>2, <2>3 DEF IInv
<1> QED BY <1>1, <1>2, <1>3, <1>4, <1>5, <1>6, <1>7, <1>8, <1>9, <1>10, <1>11, <1>12,
           <1>13, <1>14 DEF Next

-----------------------------------------------------------------------------
(* What was read so far: the entries of each bucket that were taken, and   *)
(* what the tables and the header say of them.                             *)

FirstP(n) == {PEntries[k] : k \in 1 .. n}
FirstU(n) == {UEntries[k] : k \in 1 .. n}

MetP == FirstP(IF pc = "start" THEN 0 ELSE IF pc = "protected" THEN i ELSE Len(PEntries))
MetU == FirstU(IF pc = "unprotected" THEN i
               ELSE IF pc \in {"decoded", "done"} THEN Len(UEntries) ELSE 0)

Vals(S, n) == {e.value : e \in {x \in S : x.label = <<"int", n>>}}

GoodEntry(e, protected) ==
    /\ e.label[1] # "bad"
    /\ GoodValue(IF e.label[1] = "int" THEN e.label[2] ELSE UNSET, e.value, protected)

\* The table holds the labels of these entries and no other, each in its place.
TableIs(st, S) ==
    /\ \A m \in Range(st.ints) : LabelBit(m) = NoBit
    /\ \A l \in GoodLabel : Contains(st, l) <=> \E e \in S : e.label = l

Sized(st, n) == Len(st.ints) <= n /\ Len(st.texts) <= n

CritOf(S) == UNION {{v[2][k][2] : k \in DOMAIN v[2]} : v \in Vals(S, CRIT)}

Fields == {"alg", "contentType", "kid", "iv", "partialIv", "ek", "flags"}

\* A byte string of the header is the value of the one entry for it.
BytesTell(x, vs) == x \in vs \cup {NULL} /\ (x = NULL <=> vs = {})

\* So is a number, unless the value is a text.
NumberTells(x, vs) == /\ \A v \in vs : x = IF v[1] = "int" THEN v[2] ELSE UNSET
                      /\ vs = {} => x = UNSET

\* The header tells what is in p, of the protected bucket, and in u, of the other.
Tells(h, p, u) ==
    /\ BytesTell(h.kid, Vals(p \cup u, KID))
    /\ BytesTell(h.iv, Vals(p \cup u, IV))
    /\ BytesTell(h.partialIv, Vals(p \cup u, PARTIAL_IV))
    /\ NumberTells(h.alg, Vals(p \cup u, ALG))
    /\ NumberTells(h.contentType, Vals(p \cup u, CONTENT_TYPE))
    /\ "unprotected" \in h.flags <=> Vals(u, CONTENT_TYPE) # {}

\* The rules that look at the protected bucket as a whole.
ProtectedFine ==
    /\ GoodBucket(msg.protected, TRUE)
    /\ ~ msg.protected.trailing
    /\ \A n \in Critical : ProtectedValues(n) # {}
    /\ CONTENT_TYPE \in Critical => \A v \in ProtectedValues(CONTENT_TYPE) : v[1] = "int"
    /\ \A n \in COUNTERSIGNATURES : ProtectedValues(n) = {}

Tables ==
    pc \in {"start", "protected", "between", "unprotected"} =>
        /\ TableIs(hdrState, MetP)
        /\ TableIs(unprotState, MetU)
        /\ pc \in {"start", "protected"} => Sized(hdrState, i)
        /\ Sized(unprotState, IF pc = "unprotected" THEN i ELSE 0)

Noted ==
    pc \in {"start", "protected"} =>
        /\ critLabels = {LabelBit(n) : n \in CritOf(MetP)}
        /\ understood <=> \E v \in Vals(MetP, CONTENT_TYPE) : v[1] # "tstr"

Ruled ==
    /\ pc = "protected" => /\ msg.protected.code = "ok"
                           /\ \A e \in MetP : GoodEntry(e, TRUE)
    /\ pc \in {"between", "unprotected"} => ProtectedFine
    /\ pc = "unprotected" => /\ msg.unprotected.code = "ok"
                             /\ \A e \in MetU : GoodEntry(e, FALSE)
    /\ pc = "decoded" => WellFormed
    /\ pc = "done" => ret \in {"ok", "alg"} \/ ~ WellFormed

Told == /\ DOMAIN hdr = Fields
        /\ pc # "done" \/ ret = "ok" => Tells(hdr, MetP, MetU)

Read == Tables /\ Noted /\ Ruled /\ Told

LEMMA BitOfOne ==
    ASSUME NEW m \in Int, NEW n \in Int, LabelBit(m) = LabelBit(n), LabelBit(m) # NoBit
    PROVE  m = n
BY DEF LabelBit, NoBit

\* A label that is added is in the table, and no other is that was not there.
LEMMA AddIs ==
    ASSUME NEW st \in StateType, NEW S, NEW e, e.label \in GoodLabel, TableIs(st, S)
    PROVE  TableIs(Add(st, e.label), S \cup {e})
<1> DEFINE label == e.label
           new == Add(st, label)
<1>0. st.bits \subseteq 0 .. 31 /\ st.ints \in Seq(Int) /\ st.texts \in Seq(STRING)
  BY DEF StateType
<1>1. label \in GoodLabel
  OBVIOUS
<1>2. \A l \in GoodLabel : (\E x \in S \cup {e} : x.label = l) <=> Contains(st, l) \/ l = label
  BY DEF TableIs
<1>3. \A m \in Range(st.ints) : LabelBit(m) = NoBit
  BY DEF TableIs
<1>4. \A l \in GoodLabel : /\ l = <<l[1], l[2]>>
                           /\ l[1] = "text" \/ (l[1] = "int" /\ l[2] \in Int)
  BY DEF GoodLabel
<1> SUFFICES /\ \A m \in Range(new.ints) : LabelBit(m) = NoBit
             /\ \A l \in GoodLabel : Contains(new, l) <=> Contains(st, l) \/ l = label
  BY <1>2 DEF TableIs
<1> HIDE DEF label
<1>5. CASE label[1] = "text"
  <2>1. label[2] \in STRING
    BY <1>1, <1>5 DEF GoodLabel
  <2>2. new.bits = st.bits /\ new.ints = st.ints /\ new.texts = Append(st.texts, label[2])
    BY <1>0, <1>5 DEF Add, StateType
  <2>3. Range(new.texts) = Range(st.texts) \cup {label[2]}
    BY <1>0, <2>1, <2>2, RangeAppend
  <2> HIDE DEF new
  <2>4. ASSUME NEW l \in GoodLabel PROVE Contains(new, l) <=> Contains(st, l) \/ l = label
    <3>1. l[1] = "text" => (l = label <=> l[2] = label[2])
      BY <1>1, <1>4, <1>5
    <3>2. l[1] # "text" => l # label
      BY <1>5
    <3> QED BY <2>2, <2>3, <3>1, <3>2 DEF Contains, ContainsInt
  <2> QED BY <1>3, <2>2, <2>4
<1>6. CASE label[1] # "text" /\ LabelBit(label[2]) # NoBit
  <2>1. label[2] \in Int /\ label[1] = "int"
    BY <1>1, <1>6 DEF GoodLabel
  <2>2. /\ new.bits = st.bits \cup {LabelBit(label[2])}
        /\ new.ints = st.ints /\ new.texts = st.texts
    BY <1>0, <1>6 DEF Add, StateType
  <2> HIDE DEF new
  <2>3. ASSUME NEW l \in GoodLabel PROVE Contains(new, l) <=> Contains(st, l) \/ l = label
    <3>1. CASE l[1] = "text"
      BY <1>6, <2>2, <3>1 DEF Contains
    <3>2. CASE l[1] # "text"
      <4>1. l[2] \in Int /\ l = <<"int", l[2]>> /\ label = <<"int", label[2]>>
        BY <1>1, <1>4, <2>1, <3>2
      <4>2. LabelBit(l[2]) # NoBit /\ LabelBit(l[2]) = LabelBit(label[2]) => l[2] = label[2]
        BY <2>1, <4>1, BitOfOne
      <4>3. l = label <=> LabelBit(l[2]) # NoBit /\ LabelBit(l[2]) = LabelBit(label[2])
        BY <1>6, <4>1, <4>2
      <4> QED BY <2>2, <3>2, <4>3 DEF Contains, ContainsInt
    <3> QED BY <3>1, <3>2
  <2> QED BY <1>3, <2>2, <2>3
<1>7. CASE label[1] # "text" /\ LabelBit(label[2]) = NoBit
  <2>1. label[2] \in Int /\ label[1] = "int"
    BY <1>1, <1>7 DEF GoodLabel
  <2>2. /\ new.ints = Append(st.ints, label[2])
        /\ new.bits = st.bits /\ new.texts = st.texts
    BY <1>0, <1>7 DEF Add, StateType
  <2>3. Range(new.ints) = Range(st.ints) \cup {label[2]}
    BY <1>0, <2>1, <2>2, RangeAppend
  <2> HIDE DEF new
  <2>4. ASSUME NEW l \in GoodLabel PROVE Contains(new, l) <=> Contains(st, l) \/ l = label
    <3>1. CASE l[1] = "text"
      BY <1>7, <2>2, <3>1 DEF Contains
    <3>2. CASE l[1] # "text"
      <4>1. l = <<"int", l[2]>> /\ label = <<"int", label[2]>>
        BY <1>1, <1>4, <2>1, <3>2
      <4>2. l = label <=> l[2] = label[2]
        BY <4>1
      <4> QED BY <2>2, <2>3, <3>2, <4>2 DEF Contains, ContainsInt
    <3> QED BY <3>1, <3>2
  <2> QED BY <1>3, <1>7, <2>3, <2>4
<1> QED BY <1>5, <1>6, <1>7

LEMMA AddSized ==
    ASSUME NEW st \in StateType, NEW label \in GoodLabel, NEW n \in Nat, Sized(st, n)
    PROVE  Sized(Add(st, label), n + 1)
<1>0. /\ st.ints \in Seq(Int) /\ st.texts \in Seq(STRING)
      /\ Len(st.ints) \in Nat /\ Len(st.texts) \in Nat
  BY LenProperties DEF StateType
<1>1. CASE label[1] = "text"
  <2>1. Add(st, label).ints = st.ints /\ Add(st, label).texts = Append(st.texts, label[2])
    BY <1>1 DEF Add, StateType
  <2>2. Len(Append(st.texts, label[2])) = Len(st.texts) + 1
    BY <1>0, <1>1 DEF GoodLabel
  <2> QED BY <1>0, <2>1, <2>2 DEF Sized
<1>2. CASE label[1] # "text" /\ LabelBit(label[2]) # NoBit
  <2>1. Add(st, label).ints = st.ints /\ Add(st, label).texts = st.texts
    BY <1>2 DEF Add, StateType
  <2> QED BY <1>0, <2>1 DEF Sized
<1>3. CASE label[1] # "text" /\ LabelBit(label[2]) = NoBit
  <2>1. Add(st, label).texts = st.texts /\ Add(st, label).ints = Append(st.ints, label[2])
    BY <1>3 DEF Add, StateType
  <2>2. Len(Append(st.ints, label[2])) = Len(st.ints) + 1
    BY <1>0, <1>3 DEF GoodLabel
  <2> QED BY <1>0, <2>1, <2>2 DEF Sized
<1> QED BY <1>1, <1>2, <1>3

-----------------------------------------------------------------------------
(* What the header says after one entry more.                              *)

LabelIs(e, n) == e.label = <<"int", n>>

EffectOn(h, e, protected, g) ==
    /\ DOMAIN g = DOMAIN h
    /\ g.kid = IF LabelIs(e, KID) THEN e.value ELSE h.kid
    /\ g.iv = IF LabelIs(e, IV) THEN e.value ELSE h.iv
    /\ g.partialIv = IF LabelIs(e, PARTIAL_IV) THEN e.value ELSE h.partialIv
    /\ g.alg = IF LabelIs(e, ALG) /\ e.value[1] # "tstr" THEN e.value[2] ELSE h.alg
    /\ g.contentType = IF LabelIs(e, CONTENT_TYPE) /\ e.value[1] # "tstr"
                       THEN e.value[2] ELSE h.contentType
    /\ "unprotected" \in g.flags <=>
           "unprotected" \in h.flags \/ (LabelIs(e, CONTENT_TYPE) /\ ~ protected)

\* The values of a label when an entry is added whose label is new.
LEMMA ValsMore ==
    ASSUME NEW S, NEW e, \A x \in S : x.label # e.label, NEW n
    PROVE  /\ LabelIs(e, n) => Vals(S, n) = {} /\ Vals(S \cup {e}, n) = {e.value}
           /\ ~ LabelIs(e, n) => Vals(S \cup {e}, n) = Vals(S, n)
BY DEF Vals, LabelIs

LEMMA BytesMore ==
    ASSUME NEW S, NEW e, \A x \in S : x.label # e.label, NEW n, NEW x, NEW y,
           BytesTell(x, Vals(S, n)), y = IF LabelIs(e, n) THEN e.value ELSE x,
           LabelIs(e, n) => e.value[1] = "bstr"
    PROVE  BytesTell(y, Vals(S \cup {e}, n))
<1>1. CASE LabelIs(e, n)
  <2>1. NULL[1] # "bstr"
    BY DEF NULL
  <2>2. y = e.value /\ e.value # NULL
    BY <1>1, <2>1
  <2>3. Vals(S \cup {e}, n) = {e.value}
    BY <1>1, ValsMore
  <2> QED BY <2>2, <2>3 DEF BytesTell
<1>2. CASE ~ LabelIs(e, n)
  <2>1. y = x /\ Vals(S \cup {e}, n) = Vals(S, n)
    BY <1>2, ValsMore
  <2> QED BY <2>1
<1> QED BY <1>1, <1>2

LEMMA NumberMore ==
    ASSUME NEW S, NEW e, \A x \in S : x.label # e.label, NEW n, NEW x, NEW y,
           NumberTells(x, Vals(S, n)),
           y = IF LabelIs(e, n) /\ e.value[1] # "tstr" THEN e.value[2] ELSE x,
           LabelIs(e, n) => e.value[1] \in {"int", "tstr"}
    PROVE  NumberTells(y, Vals(S \cup {e}, n))
<1>1. CASE LabelIs(e, n)
  <2>1. Vals(S \cup {e}, n) = {e.value} /\ x = UNSET
    BY <1>1, ValsMore DEF NumberTells
  <2>2. y = IF e.value[1] = "int" THEN e.value[2] ELSE UNSET
    BY <1>1, <2>1
  <2> QED BY <2>1, <2>2 DEF NumberTells
<1>2. CASE ~ LabelIs(e, n)
  <2>1. y = x /\ Vals(S \cup {e}, n) = Vals(S, n)
    BY <1>2, ValsMore
  <2> QED BY <2>1
<1> QED BY <1>1, <1>2

LEMMA GoodKinds ==
    ASSUME NEW e, NEW protected, GoodEntry(e, protected)
    PROVE  /\ LabelIs(e, KID) \/ LabelIs(e, IV) \/ LabelIs(e, PARTIAL_IV) => e.value[1] = "bstr"
           /\ LabelIs(e, ALG) \/ LabelIs(e, CONTENT_TYPE) => e.value[1] \in {"int", "tstr"}
           /\ LabelIs(e, CONTENT_TYPE) /\ e.value[1] = "int" => e.value[2] \in 0 .. Int32Max
<1>1. ASSUME NEW n, LabelIs(e, n) PROVE GoodValue(n, e.value, protected)
  BY <1>1 DEF GoodEntry, LabelIs
<1>2. LabelIs(e, KID) => GoodValue(KID, e.value, protected)
  BY <1>1
<1>3. LabelIs(e, IV) => GoodValue(IV, e.value, protected)
  BY <1>1
<1>4. LabelIs(e, PARTIAL_IV) => GoodValue(PARTIAL_IV, e.value, protected)
  BY <1>1
<1>5. LabelIs(e, ALG) => GoodValue(ALG, e.value, protected)
  BY <1>1
<1>6. LabelIs(e, CONTENT_TYPE) => GoodValue(CONTENT_TYPE, e.value, protected)
  BY <1>1
<1> QED BY <1>2, <1>3, <1>4, <1>5, <1>6 DEF GoodValue

\* p and u are what was read of each bucket, e is the entry that comes to one of them.
LEMMA TellsMore ==
    ASSUME NEW p, NEW u, NEW e, \A x \in p \cup u : x.label # e.label,
           NEW protected \in BOOLEAN, GoodEntry(e, protected),
           NEW h, NEW g, Tells(h, p, u), EffectOn(h, e, protected, g)
    PROVE  Tells(g, IF protected THEN p \cup {e} ELSE p, IF protected THEN u ELSE u \cup {e})
<1> DEFINE p2 == IF protected THEN p \cup {e} ELSE p
           u2 == IF protected THEN u ELSE u \cup {e}
           S == p \cup u
<1>1. p2 \cup u2 = S \cup {e}
  OBVIOUS
<1>2. \A x \in S : x.label # e.label
  OBVIOUS
<1>3. \A x \in u : x.label # e.label
  OBVIOUS
<1>4. /\ BytesTell(h.kid, Vals(S, KID)) /\ BytesTell(h.iv, Vals(S, IV))
      /\ BytesTell(h.partialIv, Vals(S, PARTIAL_IV))
      /\ NumberTells(h.alg, Vals(S, ALG)) /\ NumberTells(h.contentType, Vals(S, CONTENT_TYPE))
      /\ "unprotected" \in h.flags <=> Vals(u, CONTENT_TYPE) # {}
  BY DEF Tells
<1>5. u2 = IF protected THEN u ELSE u \cup {e}
  OBVIOUS
<1> HIDE DEF S, p2, u2
<1>6. BytesTell(g.kid, Vals(S \cup {e}, KID))
  BY <1>2, <1>4, GoodKinds, BytesMore DEF EffectOn
<1>7. BytesTell(g.iv, Vals(S \cup {e}, IV))
  BY <1>2, <1>4, GoodKinds, BytesMore DEF EffectOn
<1>8. BytesTell(g.partialIv, Vals(S \cup {e}, PARTIAL_IV))
  BY <1>2, <1>4, GoodKinds, BytesMore DEF EffectOn
<1>9. NumberTells(g.alg, Vals(S \cup {e}, ALG))
  BY <1>2, <1>4, GoodKinds, NumberMore DEF EffectOn
<1>10. NumberTells(g.contentType, Vals(S \cup {e}, CONTENT_TYPE))
  BY <1>2, <1>4, GoodKinds, NumberMore DEF EffectOn
<1>11. "unprotected" \in g.flags <=> Vals(u2, CONTENT_TYPE) # {}
  <2>1. "unprotected" \in g.flags <=>
           "unprotected" \in h.flags \/ (LabelIs(e, CONTENT_TYPE) /\ ~ protected)
    BY DEF EffectOn
  <2>2. CASE protected
    BY <1>4, <1>5, <2>1, <2>2
  <2>3. CASE ~ protected
    <3>1. /\ LabelIs(e, CONTENT_TYPE) => Vals(u2, CONTENT_TYPE) = {e.value}
          /\ ~ LabelIs(e, CONTENT_TYPE) => Vals(u2, CONTENT_TYPE) = Vals(u, CONTENT_TYPE)
      <4>1. u2 = u \cup {e}
        BY <1>5, <2>3
      <4> QED BY <1>3, <4>1, ValsMore
    <3> QED BY <1>4, <2>1, <2>3, <3>1
  <2> QED BY <2>2, <2>3
<1> QED BY <1>1, <1>6, <1>7, <1>8, <1>9, <1>10, <1>11 DEF Tells, p2, u2

-----------------------------------------------------------------------------
(* The decoders accept the good entries, and no other.                     *)

LEMMA ValueShape ==
    ASSUME NEW v \in Value
    PROVE  /\ v[1] = "int" => v[2] \in Int
           /\ v[1] = "array" => v[2] \in Seq(Scalar)
           /\ v[1] \in {"int", "bstr", "tstr", "other", "bad", "array"}
BY DEF Value, Scalar

LEMMA IntCodeIff ==
    ASSUME NEW v, v[1] = "int" => v[2] \in Int
    PROVE  /\ IntCode(v) = "ok" <=>
                  v[1] = "int" /\ v[2] <= Int64Max /\ v[2] >= -Int64Max - 1
           /\ UintCode(v) = "ok" <=> v[1] = "int" /\ v[2] >= 0
<1>1. CASE v[1] = "bad"
  BY <1>1 DEF IntCode, UintCode
<1>2. CASE v[1] = "int"
  <2>1. IntCode(v) = Fails(v[2] > Int64Max \/ v[2] < -Int64Max - 1, "overflow")
    BY <1>2 DEF IntCode
  <2>2. UintCode(v) = Fails(v[2] < 0, "type")
    BY <1>2 DEF UintCode
  <2>3. Int64Max \in Int /\ v[2] \in Int
    BY <1>2, LimitsAssumption
  <2> QED BY <1>2, <2>1, <2>2, <2>3 DEF Fails
<1>3. CASE v[1] # "bad" /\ v[1] # "int"
  BY <1>3 DEF IntCode, UintCode
<1> QED BY <1>1, <1>2, <1>3

\* One entry was taken for what it is.
TakesEntry(code) ==
    /\ Take(code)
    /\ code = "ok" <=> GoodEntry(Entry, InProtected)
    /\ code # "ok" => hdr' = NoHdr
    /\ code = "ok" =>
          /\ EffectOn(hdr, Entry, InProtected, hdr')
          /\ critLabels' = IF InProtected /\ Is(CRIT)
                           THEN {LabelBit(Content[k][2]) : k \in 1 .. Len(Content)}
                           ELSE critLabels
          /\ understood' <=> understood \/ (InProtected /\ Is(CONTENT_TYPE) /\ Kind # "tstr")

\* What is known of an entry whose label was taken.
LEMMA EntryKnown ==
    ASSUME IInv, NEW code, Take(code)
    PROVE  /\ Entry.label[1] # "bad"
           /\ Is(CRIT) => InProtected
           /\ Entry.value \in Value
           /\ \A n : Is(n) => (GoodEntry(Entry, InProtected) <=> GoodValue(n, Entry.value, InProtected))
<1>1. TypeOK /\ Reading /\ LabelCode = "ok"
  BY EntryOfTake
<1>2. Entry.label \in GoodLabel /\ Entry.value \in Value
  BY <1>1, LabelOk, EntryShape
<1>3. Entry.label[1] # "bad"
  BY <1>2 DEF GoodLabel
<1>4. Is(CRIT) => InProtected
  <2> DEFINE a == Fails(~ InProtected /\ Is(CRIT), "hdr")
             b == Fails(Contains(Own, Entry.label), "malformed")
             c == Fails(Contains(hdrState, Entry.label), "malformed")
             d == Fails(NoSlot(Own, Entry.label), "malformed")
  <2>1. First(<<a, b, c, d>>) = "ok"
    BY <1>1, <1>3 DEF LabelCode, Own
  <2>2. a = "ok" => (Is(CRIT) => InProtected)
    BY DEF Fails
  <2> HIDE DEF a, b, c, d
  <2> QED BY <2>1, <2>2, FourOf
<1>5. ASSUME NEW n, Is(n)
      PROVE  GoodEntry(Entry, InProtected) <=> GoodValue(n, Entry.value, InProtected)
  BY <1>5 DEF Is, GoodEntry
<1> QED BY <1>2, <1>3, <1>4, <1>5

\* What an entry is taken for, but for crit.
LEMMA TakesWhen ==
    ASSUME NEW code, NEW h, Take(code), Keep(code, h),
           code = "ok" <=> GoodEntry(Entry, InProtected),
           EffectOn(hdr, Entry, InProtected, h),
           ~ Is(CRIT), critLabels' = critLabels,
           code = "ok" =>
               (understood' <=> understood \/ (InProtected /\ Is(CONTENT_TYPE) /\ Kind # "tstr"))
    PROVE  TakesEntry(code)
<1>1. code # "ok" => hdr' = NoHdr
  BY DEF Keep
<1>2. code = "ok" => hdr' = h
  BY DEF Keep
<1>3. code = "ok" => EffectOn(hdr, Entry, InProtected, hdr')
  <2> SUFFICES ASSUME code = "ok" PROVE EffectOn(hdr, Entry, InProtected, hdr')
    OBVIOUS
  <2>1. hdr' = h
    BY <1>2
  <2> QED BY <2>1
<1>4. critLabels' = IF InProtected /\ Is(CRIT)
                    THEN {LabelBit(Content[k][2]) : k \in 1 .. Len(Content)}
                    ELSE critLabels
  OBVIOUS
<1> QED BY <1>1, <1>3, <1>4, Zenon DEF TakesEntry

LEMMA TakesAlg ==
    ASSUME IInv, DOMAIN hdr = Fields, DecodeAlg
    PROVE  \E code \in Codes : TakesEntry(code)
<1> DEFINE v == Entry.value
           a == IntCode(v)
           b == IF a # "ok" THEN "ok" ELSE Fails(Content \notin Int32, "alg")
           code == IF Kind = "tstr" THEN SkipCode ELSE First(<<a, b>>)
           h == IF Kind = "tstr" THEN hdr ELSE [hdr EXCEPT !.alg = Content]
<1>1. Take(code) /\ Keep(code, h) /\ Is(ALG) /\ UNCHANGED <<critLabels, understood>>
  BY DEF DecodeAlg
<1>2. /\ v \in Value /\ (v[1] = "int" => v[2] \in Int)
      /\ GoodEntry(Entry, InProtected) <=> GoodValue(ALG, v, InProtected)
      /\ TypeOK /\ Reading
  <2> HIDE DEF code
  <2> QED BY <1>1, EntryKnown, EntryOfTake, ValueShape
<1>3. GoodEntry(Entry, InProtected) <=>
         v[1] # "bad" /\ (v[1] = "tstr" \/ (v[1] = "int" /\ v[2] \in Int32))
  BY <1>2 DEF GoodValue, ALG, CRIT, CONTENT_TYPE, KID, IV, PARTIAL_IV, HPKE_EK
<1>4. code = "ok" <=> v[1] # "bad" /\ (v[1] = "tstr" \/ (v[1] = "int" /\ v[2] \in Int32))
  <2>1. CASE Kind = "tstr"
    <3>1. code = "ok"
      BY <2>1 DEF SkipCode, Fails
    <3> QED BY <2>1, <3>1 DEF Kind
  <2>2. CASE Kind # "tstr"
    <3>1. code = "ok" <=> a = "ok" /\ b = "ok"
      <4> HIDE DEF a, b
      <4> QED BY <2>2, PairIff
    <3>2. a = "ok" <=> v[1] = "int" /\ v[2] <= Int64Max /\ v[2] >= -Int64Max - 1
      BY <1>2, IntCodeIff
    <3>3. a = "ok" => (b = "ok" <=> v[2] \in Int32)
      <4>1. a = "ok" => b = Fails(v[2] \notin Int32, "alg")
        BY DEF Content
      <4> QED BY <4>1 DEF Fails
    <3>4. v[1] = "int" /\ v[2] \in Int32 => v[2] <= Int64Max /\ v[2] >= -Int64Max - 1
      BY LimitsAssumption DEF Int32
    <3> HIDE DEF a, b, code, v
    <3> QED BY <2>2, <3>1, <3>2, <3>3, <3>4 DEF Kind, v
  <2> QED BY <2>1, <2>2
<1>5. code \in Codes
  <2>1. a \in Codes
    BY <1>2, EntryInt
  <2>2. b \in Codes
    BY DEF Fails, Codes
  <2>3. First(<<a, b>>) \in {"ok", a, b}
    <3> HIDE DEF a, b
    <3> QED BY PairOf
  <2>4. "ok" \in Codes
    BY DEF Codes
  <2> HIDE DEF a, b
  <2> QED BY <2>1, <2>2, <2>3, <2>4, ValueCodes
<1>6. EffectOn(hdr, Entry, InProtected, h)
  <2>1. /\ LabelIs(Entry, ALG)
        /\ ~ LabelIs(Entry, KID) /\ ~ LabelIs(Entry, IV) /\ ~ LabelIs(Entry, PARTIAL_IV)
        /\ ~ LabelIs(Entry, CONTENT_TYPE)
    BY <1>1 DEF Is, LabelIs, ALG, KID, IV, PARTIAL_IV, CONTENT_TYPE
  <2>2. /\ DOMAIN h = DOMAIN hdr
        /\ h.kid = hdr.kid /\ h.iv = hdr.iv /\ h.partialIv = hdr.partialIv
        /\ h.contentType = hdr.contentType /\ h.flags = hdr.flags
        /\ h.alg = IF Kind # "tstr" THEN Content ELSE hdr.alg
    BY DEF Fields
  <2> HIDE DEF h
  <2> QED BY <2>1, <2>2 DEF EffectOn, Kind, Content
<1>7. ~ Is(CRIT) /\ ~ Is(CONTENT_TYPE)
  BY <1>1 DEF Is, ALG, CRIT, CONTENT_TYPE
<1>8. code = "ok" <=> GoodEntry(Entry, InProtected)
  BY <1>3, <1>4
<1> HIDE DEF code, h, v
<1>9. TakesEntry(code)
  BY <1>1, <1>6, <1>7, <1>8, TakesWhen
<1> QED BY <1>5, <1>9

LEMMA TakesContentType ==
    ASSUME IInv, DOMAIN hdr = Fields, DecodeContentType
    PROVE  \E code \in Codes : TakesEntry(code)
<1> DEFINE v == Entry.value
           code == IF Kind = "tstr" THEN SkipCode
                   ELSE IF UintCode(v) # "ok" THEN UintCode(v)
                   ELSE Fails(Content > Int32Max, "hdr")
           g == IF InProtected THEN hdr ELSE [hdr EXCEPT !.flags = @ \cup {"unprotected"}]
           h == IF Kind = "tstr" THEN g ELSE [g EXCEPT !.contentType = Content]
<1>1. /\ Take(code) /\ Keep(code, h) /\ Is(CONTENT_TYPE) /\ UNCHANGED critLabels
      /\ understood' = (understood \/ (InProtected /\ code = "ok" /\ Kind # "tstr"))
  BY DEF DecodeContentType
<1>2. /\ v \in Value /\ (v[1] = "int" => v[2] \in Int)
      /\ GoodEntry(Entry, InProtected) <=> GoodValue(CONTENT_TYPE, v, InProtected)
      /\ TypeOK /\ Reading
  <2> HIDE DEF code
  <2> QED BY <1>1, EntryKnown, EntryOfTake, ValueShape
<1>3. GoodEntry(Entry, InProtected) <=>
         v[1] # "bad" /\ (v[1] = "tstr" \/ (v[1] = "int" /\ v[2] \in 0 .. Int32Max))
  BY <1>2 DEF GoodValue, ALG, CRIT, CONTENT_TYPE, KID, IV, PARTIAL_IV, HPKE_EK
<1>4. code = "ok" <=> v[1] # "bad" /\ (v[1] = "tstr" \/ (v[1] = "int" /\ v[2] \in 0 .. Int32Max))
  <2>1. CASE Kind = "tstr"
    <3>1. code = "ok"
      BY <2>1 DEF SkipCode, Fails
    <3> QED BY <2>1, <3>1 DEF Kind
  <2>2. CASE Kind # "tstr"
    <3>1. UintCode(v) = "ok" <=> v[1] = "int" /\ v[2] >= 0
      BY <1>2, IntCodeIff
    <3>2. UintCode(v) = "ok" => code = Fails(v[2] > Int32Max, "hdr")
      BY <2>2 DEF Content
    <3>3. UintCode(v) # "ok" => code # "ok"
      BY <2>2
    <3>4. v[1] = "int" => (v[2] \in 0 .. Int32Max <=> v[2] >= 0 /\ ~ (v[2] > Int32Max))
      BY <1>2, LimitsAssumption
    <3> HIDE DEF code, v
    <3> QED BY <2>2, <3>1, <3>2, <3>3, <3>4 DEF Kind, Fails, v
  <2> QED BY <2>1, <2>2
<1>5. code \in Codes
  <2>1. UintCode(v) \in Codes
    BY <1>2, EntryInt
  <2>2. Fails(Content > Int32Max, "hdr") \in Codes
    BY DEF Fails, Codes
  <2> QED BY <2>1, <2>2, ValueCodes
<1>6. EffectOn(hdr, Entry, InProtected, h)
  <2>1. /\ LabelIs(Entry, CONTENT_TYPE)
        /\ ~ LabelIs(Entry, KID) /\ ~ LabelIs(Entry, IV) /\ ~ LabelIs(Entry, PARTIAL_IV)
        /\ ~ LabelIs(Entry, ALG)
    BY <1>1 DEF Is, LabelIs, ALG, KID, IV, PARTIAL_IV, CONTENT_TYPE
  <2>2. /\ DOMAIN g = Fields
        /\ g.kid = hdr.kid /\ g.iv = hdr.iv /\ g.partialIv = hdr.partialIv
        /\ g.alg = hdr.alg /\ g.contentType = hdr.contentType
        /\ "unprotected" \in g.flags <=> "unprotected" \in hdr.flags \/ ~ InProtected
    BY DEF Fields
  <2> HIDE DEF g
  <2>3. /\ DOMAIN h = DOMAIN hdr
        /\ h.kid = hdr.kid /\ h.iv = hdr.iv /\ h.partialIv = hdr.partialIv
        /\ h.alg = hdr.alg /\ h.flags = g.flags
        /\ h.contentType = IF Kind # "tstr" THEN Content ELSE hdr.contentType
    BY <2>2 DEF Fields
  <2> HIDE DEF h
  <2> QED BY <2>1, <2>2, <2>3 DEF EffectOn, Kind, Content
<1>7. ~ Is(CRIT)
  BY <1>1 DEF Is, CRIT, CONTENT_TYPE
<1>8. code = "ok" <=> GoodEntry(Entry, InProtected)
  BY <1>3, <1>4
<1> HIDE DEF code, h, v
<1>9. TakesEntry(code)
  BY <1>1, <1>6, <1>7, <1>8, TakesWhen
<1> QED BY <1>5, <1>9

LEMMA TakesBstr ==
    ASSUME IInv, DOMAIN hdr = Fields,
           NEW n, NEW field, DecodeBstr(n, field),
           \/ n = KID /\ field = "kid"
           \/ n = IV /\ field = "iv"
           \/ n = PARTIAL_IV /\ field = "partialIv"
           \/ n = HPKE_EK /\ field = "ek" /\ WantsEk
    PROVE  \E code \in Codes : TakesEntry(code)
<1> DEFINE v == Entry.value
           h == [hdr EXCEPT ![field] = v]
<1>1. Take(BstrCode) /\ Keep(BstrCode, h) /\ Is(n) /\ UNCHANGED <<critLabels, understood>>
  BY DEF DecodeBstr
<1>2. GoodEntry(Entry, InProtected) <=> GoodValue(n, v, InProtected)
  BY <1>1, EntryKnown
<1>3. GoodEntry(Entry, InProtected) <=> v[1] # "bad" /\ v[1] = "bstr"
  BY <1>2 DEF GoodValue, ALG, CRIT, CONTENT_TYPE, KID, IV, PARTIAL_IV, HPKE_EK, WantsEk
<1>4. BstrCode = "ok" <=> v[1] # "bad" /\ v[1] = "bstr"
  <2>1. BstrCode = "ok" <=> SkipCode = "ok" /\ Fails(Kind # "bstr", "type") = "ok"
    BY PairIff DEF BstrCode
  <2> QED BY <2>1 DEF SkipCode, Fails, Kind
<1>5. EffectOn(hdr, Entry, InProtected, h)
  <2>1. /\ ~ LabelIs(Entry, ALG) /\ ~ LabelIs(Entry, CONTENT_TYPE)
        /\ LabelIs(Entry, KID) <=> field = "kid"
        /\ LabelIs(Entry, IV) <=> field = "iv"
        /\ LabelIs(Entry, PARTIAL_IV) <=> field = "partialIv"
    BY <1>1 DEF Is, LabelIs, ALG, KID, IV, PARTIAL_IV, CONTENT_TYPE, HPKE_EK
  <2>2. field \in {"kid", "iv", "partialIv", "ek"}
    OBVIOUS
  <2>3. /\ DOMAIN h = DOMAIN hdr
        /\ h.kid = IF field = "kid" THEN v ELSE hdr.kid
        /\ h.iv = IF field = "iv" THEN v ELSE hdr.iv
        /\ h.partialIv = IF field = "partialIv" THEN v ELSE hdr.partialIv
        /\ h.alg = hdr.alg /\ h.contentType = hdr.contentType /\ h.flags = hdr.flags
    BY <2>2 DEF Fields
  <2> HIDE DEF h
  <2> QED BY <2>1, <2>3 DEF EffectOn
<1>6. ~ Is(CRIT) /\ ~ Is(CONTENT_TYPE)
  BY <1>1 DEF Is, ALG, KID, IV, PARTIAL_IV, CONTENT_TYPE, HPKE_EK, CRIT
<1>7. BstrCode = "ok" <=> GoodEntry(Entry, InProtected)
  BY <1>3, <1>4
<1> HIDE DEF h, v
<1>8. TakesEntry(BstrCode)
  BY <1>1, <1>5, <1>6, <1>7, TakesWhen
<1> QED BY <1>8, ValueCodes

\* An entry that is stepped over, whatever its value.
LEMMA TakesSkipped ==
    ASSUME IInv, DOMAIN hdr = Fields, NEW h, Take(SkipCode), Keep(SkipCode, h),
           UNCHANGED <<critLabels, understood>>,
           h = hdr \/ h = [hdr EXCEPT !.flags = @ \cup {"x5chain"}],
           \A n \in {ALG, CRIT, CONTENT_TYPE, KID, IV, PARTIAL_IV} : ~ Is(n),
           Is(HPKE_EK) => ~ WantsEk
    PROVE  \E code \in Codes : TakesEntry(code)
<1> DEFINE v == Entry.value
           n == IF Entry.label[1] = "int" THEN Entry.label[2] ELSE UNSET
<1>1. Entry.label \in GoodLabel
  BY EntryOfTake, LabelOk
<1>2. ASSUME NEW m \in {ALG, CRIT, CONTENT_TYPE, KID, IV, PARTIAL_IV} PROVE n # m
  <2>1. CASE Entry.label[1] = "int"
    <3>1. Entry.label = <<"int", Entry.label[2]>>
      BY <1>1, <2>1 DEF GoodLabel
    <3> QED BY <1>2, <2>1, <3>1 DEF Is
  <2>2. CASE Entry.label[1] # "int"
    BY <2>2 DEF UNSET, ALG, CRIT, CONTENT_TYPE, KID, IV, PARTIAL_IV
  <2> QED BY <2>1, <2>2
<1>3. n = HPKE_EK => ~ WantsEk
  <2>1. CASE Entry.label[1] = "int"
    <3>1. Entry.label = <<"int", Entry.label[2]>>
      BY <1>1, <2>1 DEF GoodLabel
    <3> QED BY <2>1, <3>1 DEF Is
  <2>2. CASE Entry.label[1] # "int"
    BY <2>2 DEF UNSET, HPKE_EK
  <2> QED BY <2>1, <2>2
<1>4. GoodEntry(Entry, InProtected) <=> GoodValue(n, v, InProtected)
  BY <1>1 DEF GoodEntry, GoodLabel
<1> HIDE DEF n
<1>5. n # ALG /\ n # CRIT /\ n # CONTENT_TYPE /\ n \notin {KID, IV, PARTIAL_IV}
  BY <1>2
<1>6. GoodValue(n, v, InProtected) <=> v[1] # "bad"
  BY <1>3, <1>5 DEF GoodValue, WantsEk
<1>7. SkipCode = "ok" <=> v[1] # "bad"
  BY DEF SkipCode, Fails, Kind
<1>8. EffectOn(hdr, Entry, InProtected, h)
  <2>1. /\ ~ LabelIs(Entry, ALG) /\ ~ LabelIs(Entry, CONTENT_TYPE)
        /\ ~ LabelIs(Entry, KID) /\ ~ LabelIs(Entry, IV) /\ ~ LabelIs(Entry, PARTIAL_IV)
    BY DEF Is, LabelIs
  <2>2. /\ DOMAIN h = DOMAIN hdr
        /\ h.kid = hdr.kid /\ h.iv = hdr.iv /\ h.partialIv = hdr.partialIv
        /\ h.alg = hdr.alg /\ h.contentType = hdr.contentType
        /\ "unprotected" \in h.flags <=> "unprotected" \in hdr.flags
    BY DEF Fields
  <2> QED BY <2>1, <2>2 DEF EffectOn
<1>9. ~ Is(CRIT) /\ ~ Is(CONTENT_TYPE)
  OBVIOUS
<1>10. SkipCode = "ok" <=> GoodEntry(Entry, InProtected)
  BY <1>4, <1>6, <1>7
<1> HIDE DEF v
<1>11. TakesEntry(SkipCode)
  BY <1>8, <1>9, <1>10, TakesWhen
<1> QED BY <1>11, ValueCodes

\* One check, then one for each member of a list.
LEMMA OneAndEachIff ==
    ASSUME NEW a, NEW T, NEW n \in Nat, NEW f \in [1 .. n -> T]
    PROVE  First(<<a>> \o f) = "ok" <=> a = "ok" /\ \A k \in 1 .. n : f[k] = "ok"
<1> DEFINE S == {a} \cup T
           s == <<a>>
           t == s \o f
<1>1. s \in Seq(S) /\ Len(s) = 1 /\ s[1] = a
  OBVIOUS
<1>2. f \in [1 .. n -> S]
  OBVIOUS
<1> HIDE DEF S
<1>3. f \in Seq(S) /\ Len(f) = n
  BY <1>2, SeqDef, LenProperties
<1> HIDE DEF s
<1>4. /\ t \in Seq(S) /\ Len(t) = 1 + n
      /\ \A k \in 1 .. 1 + n : t[k] = IF k <= 1 THEN s[k] ELSE f[k - 1]
  <2>1. /\ t \in Seq(S) /\ Len(t) = Len(s) + Len(f)
        /\ \A k \in 1 .. Len(s) + Len(f) :
               t[k] = IF k <= Len(s) THEN s[k] ELSE f[k - Len(s)]
    BY <1>1, <1>3, ConcatProperties
  <2> HIDE DEF t
  <2> QED BY <1>1, <1>3, <2>1
<1> HIDE DEF t
<1>5. (\A k \in 1 .. Len(t) : t[k] = "ok") <=> a = "ok" /\ \A k \in 1 .. n : f[k] = "ok"
  <2>1. ASSUME \A k \in 1 .. Len(t) : t[k] = "ok"
        PROVE  a = "ok" /\ \A k \in 1 .. n : f[k] = "ok"
    <3>1. t[1] = "ok" /\ t[1] = a
      BY <1>1, <1>4, <2>1
    <3>2. ASSUME NEW k \in 1 .. n PROVE f[k] = "ok"
      <4>1. k + 1 \in 1 .. 1 + n /\ ~ (k + 1 <= 1) /\ (k + 1) - 1 = k
        OBVIOUS
      <4>2. t[k + 1] = f[(k + 1) - 1] /\ t[k + 1] = "ok"
        BY <1>4, <2>1, <4>1
      <4> QED BY <4>1, <4>2
    <3> QED BY <3>1, <3>2
  <2>2. ASSUME a = "ok", \A k \in 1 .. n : f[k] = "ok", NEW k \in 1 .. Len(t)
        PROVE  t[k] = "ok"
    <3>1. CASE k = 1
      BY <1>1, <1>4, <2>2, <3>1
    <3>2. CASE k # 1
      <4>1. k - 1 \in 1 .. n /\ ~ (k <= 1) /\ k \in 1 .. 1 + n
        BY <1>4, <3>2
      <4> QED BY <1>4, <2>2, <4>1
    <3> QED BY <3>1, <3>2
  <2> QED BY <2>1, <2>2
<1>6. First(t) = "ok" <=> \A k \in 1 .. Len(t) : t[k] = "ok"
  <2>1. Len(t) \in Nat
    BY <1>4
  <2> QED BY <2>1, AllPass, NoRefusal
<1> QED BY <1>5, <1>6 DEF t, s

LEMMA CritCodeIff ==
    ASSUME NEW v \in Scalar
    PROVE  CritCode(v) = "ok" <=> v[1] = "int" /\ v[2] \in 1 .. 6
<1>1. v[1] = "int" => v[2] \in Int
  BY DEF Scalar
<1>2. CASE v[1] = "tstr"
  BY <1>2 DEF CritCode
<1>3. CASE v[1] # "tstr"
  <2>1. CritCode(v) = IF IntCode(v) # "ok" THEN IntCode(v) ELSE Fails(v[2] \notin 1 .. 6, "hdr")
    BY <1>3 DEF CritCode
  <2>2. IntCode(v) = "ok" <=> v[1] = "int" /\ v[2] <= Int64Max /\ v[2] >= -Int64Max - 1
    BY <1>1, IntCodeIff
  <2>3. v[1] = "int" /\ v[2] \in 1 .. 6 => v[2] <= Int64Max /\ v[2] >= -Int64Max - 1
    BY LimitsAssumption
  <2> QED BY <2>1, <2>2, <2>3 DEF Fails
<1> QED BY <1>2, <1>3

LEMMA TakesCrit ==
    ASSUME IInv, DOMAIN hdr = Fields, DecodeCrit
    PROVE  \E code \in Codes : TakesEntry(code)
<1> DEFINE n == Len(Content)
           first == Fails(n = 0 \/ n > MaxItems, "hdr")
           items == [k \in 1 .. n |-> CritCode(Content[k])]
           all == First(<<first>> \o items)
           code == CASE Kind = "bad"   -> "malformed"
                     [] Kind = "array" -> all
                     [] OTHER          -> "type"
           fine == /\ n \in 1 .. MaxItems
                   /\ \A k \in 1 .. n : Content[k][1] = "int" /\ Content[k][2] \in 1 .. 6
<1>1. /\ Take(code) /\ Keep(code, hdr) /\ understood' = understood /\ Is(CRIT) /\ InProtected
      /\ critLabels' = IF code = "ok" THEN {LabelBit(Content[k][2]) : k \in 1 .. n}
                       ELSE critLabels
  BY DEF DecodeCrit
<1>2. /\ Entry.value \in Value
      /\ GoodEntry(Entry, InProtected) <=> GoodValue(CRIT, Entry.value, InProtected)
  <2> HIDE DEF code
  <2> QED BY <1>1, EntryKnown
<1>3. Kind = "array" => Content \in Seq(Scalar)
  BY <1>2, ValueShape DEF Kind, Content
<1>4. Kind = "array" => (all = "ok" <=> fine)
  <2> SUFFICES ASSUME Kind = "array" PROVE all = "ok" <=> fine
    OBVIOUS
  <2>1. n \in Nat /\ \A k \in 1 .. n : Content[k] \in Scalar
    BY <1>3, LenProperties, ElementOfSeq
  <2>2. \A k \in 1 .. n : items[k] = "ok" <=> Content[k][1] = "int" /\ Content[k][2] \in 1 .. 6
    <3> HIDE DEF n
    <3> QED BY <2>1, CritCodeIff
  <2>3. first = "ok" <=> n \in 1 .. MaxItems
    <3> HIDE DEF n
    <3> QED BY <2>1, LimitsAssumption DEF Fails
  <2>4. items \in [1 .. n -> {CritCode(Content[k]) : k \in 1 .. n}]
    <3> HIDE DEF n
    <3> QED OBVIOUS
  <2> HIDE DEF first, items, n
  <2>5. all = "ok" <=> first = "ok" /\ \A k \in 1 .. n : items[k] = "ok"
    BY <2>1, <2>4, OneAndEachIff
  <2> QED BY <2>2, <2>3, <2>5
<1>5. GoodEntry(Entry, InProtected) <=> Kind = "array" /\ fine
  <2>1. GoodValue(CRIT, Entry.value, InProtected) <=>
          /\ Kind = "array" /\ n \in 1 .. MaxItems
          /\ \A k \in DOMAIN Content : Content[k][1] = "int" /\ Content[k][2] \in 1 .. 6
    BY <1>1 DEF GoodValue, Kind, Content, ALG, CRIT, CONTENT_TYPE, KID, IV, PARTIAL_IV, HPKE_EK
  <2>2. Kind = "array" => DOMAIN Content = 1 .. n
    BY <1>3, LenProperties
  <2> QED BY <1>2, <2>1, <2>2
<1>6. code = "ok" <=> Kind = "array" /\ all = "ok"
  <2> HIDE DEF all
  <2>1. CASE Kind = "array"
    BY <2>1
  <2>2. CASE Kind = "bad"
    BY <2>2
  <2>3. CASE Kind # "array" /\ Kind # "bad"
    BY <2>3
  <2> QED BY <2>1, <2>2, <2>3
<1>7. code \in Codes
  <2>1. Kind = "array" => all \in Codes
    <3> SUFFICES ASSUME Kind = "array" PROVE all \in Codes
      OBVIOUS
    <3>1. n \in Nat /\ \A k \in 1 .. n : Content[k] \in Scalar
      BY <1>3, LenProperties, ElementOfSeq
    <3>2. first \in Codes
      BY DEF Fails, Codes
    <3>3. items \in [1 .. n -> Codes]
      <4> HIDE DEF n
      <4> QED BY <3>1, CritLabelCode
    <3> HIDE DEF first, items, n
    <3>4. items \in Seq(Codes)
      BY <3>1, <3>3, SeqDef
    <3>5. <<first>> \in Seq(Codes)
      BY <3>2
    <3>6. <<first>> \o items \in Seq(Codes)
      BY <3>4, <3>5, ConcatProperties
    <3>7. "ok" \in Codes
      BY DEF Codes
    <3> QED BY <3>6, <3>7, FirstOf
  <2> HIDE DEF all
  <2>2. CASE Kind = "array"
    BY <2>1, <2>2
  <2>3. CASE Kind = "bad"
    BY <2>3 DEF Codes
  <2>4. CASE Kind # "array" /\ Kind # "bad"
    BY <2>4 DEF Codes
  <2> QED BY <2>2, <2>3, <2>4
<1>8. EffectOn(hdr, Entry, InProtected, hdr)
  <2>1. /\ ~ LabelIs(Entry, ALG) /\ ~ LabelIs(Entry, CONTENT_TYPE)
        /\ ~ LabelIs(Entry, KID) /\ ~ LabelIs(Entry, IV) /\ ~ LabelIs(Entry, PARTIAL_IV)
    BY <1>1 DEF Is, LabelIs, ALG, KID, IV, PARTIAL_IV, CONTENT_TYPE, CRIT
  <2> QED BY <2>1 DEF EffectOn
<1>9. ~ Is(CONTENT_TYPE)
  BY <1>1 DEF Is, CRIT, CONTENT_TYPE
<1>10. code = "ok" <=> GoodEntry(Entry, InProtected)
  BY <1>4, <1>5, <1>6
<1> HIDE DEF code
<1>11. code # "ok" => hdr' = NoHdr
  BY <1>1 DEF Keep
<1>12. code = "ok" => /\ EffectOn(hdr, Entry, InProtected, hdr')
                      /\ critLabels' = {LabelBit(Content[k][2]) : k \in 1 .. n}
  <2> SUFFICES ASSUME code = "ok"
               PROVE  /\ EffectOn(hdr, Entry, InProtected, hdr')
                      /\ critLabels' = {LabelBit(Content[k][2]) : k \in 1 .. n}
    OBVIOUS
  <2>1. hdr' = hdr
    BY <1>1 DEF Keep
  <2> QED BY <1>1, <1>8, <2>1
<1>13. TakesEntry(code)
  BY <1>1, <1>9, <1>10, <1>11, <1>12, Zenon DEF TakesEntry
<1> QED BY <1>7, <1>13

-----------------------------------------------------------------------------
(* Taking an entry: what was read grows by it.                             *)

LEMMA FirstMore ==
    ASSUME NEW n \in Nat
    PROVE  /\ FirstP(n + 1) = FirstP(n) \cup {PEntries[n + 1]}
           /\ FirstU(n + 1) = FirstU(n) \cup {UEntries[n + 1]}
<1>1. 1 .. n + 1 = (1 .. n) \cup {n + 1}
  OBVIOUS
<1> QED BY <1>1 DEF FirstP, FirstU

LEMMA FirstNone == FirstP(0) = {} /\ FirstU(0) = {}
<1>1. 1 .. 0 = {}
  OBVIOUS
<1> QED BY <1>1 DEF FirstP, FirstU

\* What the message is does not change.
LEMMA SameMessage ==
    ASSUME msg' = msg
    PROVE  /\ WellFormed' <=> WellFormed
           /\ ProtectedFine' <=> ProtectedFine
           /\ \A e, p : GoodEntry(e, p)' <=> GoodEntry(e, p)
           /\ \A n : FirstP(n)' = FirstP(n) /\ FirstU(n)' = FirstU(n)
           /\ PEntries' = PEntries /\ UEntries' = UEntries
<1>1. \A n, v, p : GoodValue(n, v, p)' <=> GoodValue(n, v, p)
  BY DEF GoodValue
<1>2. \A e, p : GoodEntry(e, p)' <=> GoodEntry(e, p)
  BY <1>1 DEF GoodEntry
<1>3. PEntries' = PEntries /\ UEntries' = UEntries
  BY DEF PEntries, UEntries
<1>4. /\ Entries' = Entries
      /\ \A n : ProtectedValues(n)' = ProtectedValues(n)
      /\ \A n : Values(n)' = Values(n)
  BY DEF Entries, ProtectedValues, Values
<1>5. Critical' = Critical
  BY <1>4 DEF Critical
<1>7. GoodBucket(msg.protected, TRUE)' <=> GoodBucket(msg.protected, TRUE)
  BY <1>1 DEF GoodBucket
<1>8. GoodBucket(msg.unprotected, FALSE)' <=> GoodBucket(msg.unprotected, FALSE)
  BY <1>1 DEF GoodBucket
<1>9. ProtectedFine' <=> ProtectedFine
  BY <1>4, <1>5, <1>7 DEF ProtectedFine
<1>10. WellFormed' <=> WellFormed
  BY <1>4, <1>5, <1>7, <1>8 DEF WellFormed
<1>11. \A n : FirstP(n)' = FirstP(n) /\ FirstU(n)' = FirstU(n)
  BY <1>3 DEF FirstP, FirstU
<1> QED BY <1>2, <1>3, <1>9, <1>10, <1>11

\* What is read and what the tables hold when an entry is at hand.
LEMMA TablesNow ==
    ASSUME TypeOK, Tables, Reading
    PROVE  /\ i \in Nat
           /\ IF InProtected THEN pc = "protected" /\ MetP = FirstP(i) /\ MetU = {}
              ELSE pc = "unprotected" /\ MetP = FirstP(Len(PEntries)) /\ MetU = FirstU(i)
           /\ TableIs(hdrState, MetP) /\ TableIs(unprotState, MetU)
           /\ Sized(Own, i)
           /\ Sized(unprotState, IF pc = "unprotected" THEN i ELSE 0)
           /\ hdrState \in StateType /\ unprotState \in StateType
<1>1. pc \in {"protected", "unprotected"} /\ (InProtected <=> pc = "protected")
  BY DEF Reading, InProtected
<1>2. /\ TableIs(hdrState, MetP) /\ TableIs(unprotState, MetU) /\ Sized(Own, i)
      /\ Sized(unprotState, IF pc = "unprotected" THEN i ELSE 0)
  BY <1>1 DEF Tables, Own
<1>3. IF InProtected THEN pc = "protected" /\ MetP = FirstP(i) /\ MetU = {}
      ELSE pc = "unprotected" /\ MetP = FirstP(Len(PEntries)) /\ MetU = FirstU(i)
  BY <1>1, FirstNone DEF MetP, MetU
<1>4. i \in Nat
  BY LimitsAssumption DEF TypeOK
<1>5. hdrState \in StateType /\ unprotState \in StateType
  BY DEF TypeOK, IsState, StateType
<1> QED BY <1>2, <1>3, <1>4, <1>5

\* The entry whose label was taken has another label than all before it.
LEMMA NewLabel ==
    ASSUME IInv, Tables, NEW code, Take(code)
    PROVE  /\ \A x \in MetP \cup MetU : x.label # Entry.label
           /\ Entry.label \in GoodLabel
<1>1. TypeOK /\ Reading /\ LabelCode = "ok"
  BY EntryOfTake
<1>2. TableIs(hdrState, MetP) /\ TableIs(unprotState, MetU) /\ (InProtected => MetU = {})
  BY <1>1, TablesNow
<1>3. /\ Entry.label \in GoodLabel
      /\ ~ Contains(Own, Entry.label)
      /\ ~ Contains(hdrState, Entry.label)
  BY <1>1, LabelOk
<1>4. \A x \in MetP : x.label # Entry.label
  BY <1>2, <1>3 DEF TableIs
<1>5. ~ InProtected => ~ Contains(unprotState, Entry.label)
  BY <1>3 DEF Own
<1>6. \A x \in MetU : x.label # Entry.label
  BY <1>2, <1>3, <1>5 DEF TableIs
<1> QED BY <1>3, <1>4, <1>6

\* A bad entry makes the message a bad one.
LEMMA BadEntry ==
    ASSUME TypeOK, Reading, ~ GoodEntry(Entry, InProtected)
    PROVE  ~ WellFormed
<1> SUFFICES ASSUME WellFormed PROVE GoodEntry(Entry, InProtected)
  OBVIOUS
<1>1. GoodBucket(Current, InProtected)
  BY DEF WellFormed, Current, InProtected
<1>2. Len(Current.entries) \in Nat /\ Current.entries \in Seq([label : Label, value : Value])
  <2>1. msg.protected \in Bucket /\ msg.unprotected \in Bucket
    BY MessageShape DEF TypeOK
  <2> QED BY <2>1, LenProperties DEF Current, Bucket
<1>3. i + 1 \in DOMAIN Current.entries
  BY <1>2, EntryShape, LenProperties
<1> QED BY <1>1, <1>3 DEF GoodBucket, GoodEntry, Entry

LEMMA MetMore ==
    ASSUME IInv, Tables, Take("ok")
    PROVE  /\ pc' = pc /\ ret' = ret /\ i' = i + 1 /\ msg' = msg
           /\ MetP' = IF InProtected THEN MetP \cup {Entry} ELSE MetP
           /\ MetU' = IF InProtected THEN MetU ELSE MetU \cup {Entry}
           /\ hdrState' = IF InProtected THEN Add(hdrState, Entry.label) ELSE hdrState
           /\ unprotState' = IF InProtected THEN unprotState ELSE Add(unprotState, Entry.label)
<1>1. /\ pc' = pc /\ ret' = ret /\ i' = i + 1 /\ msg' = msg
      /\ hdrState' = IF InProtected THEN Add(hdrState, Entry.label) ELSE hdrState
      /\ unprotState' = IF InProtected THEN unprotState ELSE Add(unprotState, Entry.label)
  BY DEF Take
<1>2. TypeOK /\ Reading
  BY EntryOfTake
<1>3. /\ i \in Nat
      /\ IF InProtected THEN MetP = FirstP(i) /\ MetU = {}
         ELSE pc = "unprotected" /\ MetP = FirstP(Len(PEntries)) /\ MetU = FirstU(i)
  BY <1>2, TablesNow
<1>4. /\ pc = "protected" => Entry = PEntries[i + 1]
      /\ pc = "unprotected" => Entry = UEntries[i + 1]
  BY <1>2, EntryShape
<1>5. PEntries' = PEntries /\ UEntries' = UEntries
  BY <1>1 DEF PEntries, UEntries
<1>6. CASE InProtected
  <2>1. pc = "protected"
    BY <1>6 DEF InProtected
  <2>2. MetP' = FirstP(i + 1)
    BY <1>1, <1>5, <2>1 DEF MetP, FirstP
  <2>3. MetU' = {}
    <3>1. MetU' = {UEntries[k] : k \in 1 .. 0}
      BY <1>1, <1>5, <2>1 DEF MetU, FirstU
    <3> QED BY <3>1
  <2> QED BY <1>1, <1>3, <1>4, <1>6, <2>1, <2>2, <2>3, FirstMore
<1>7. CASE ~ InProtected
  <2>1. pc = "unprotected"
    BY <1>3, <1>7
  <2>2. MetP' = FirstP(Len(PEntries))
    BY <1>1, <1>5, <2>1 DEF MetP, FirstP
  <2>3. MetU' = FirstU(i + 1)
    BY <1>1, <1>5, <2>1 DEF MetU, FirstU
  <2> QED BY <1>1, <1>3, <1>4, <1>7, <2>1, <2>2, <2>3, FirstMore
<1> QED BY <1>6, <1>7

\* What is listed in crit, and whether the content type is understood.
LEMMA NotedMore ==
    ASSUME NEW S, NEW e, \A x \in S : x.label # e.label, e.value \in Value,
           GoodEntry(e, TRUE)
    PROVE  /\ LabelIs(e, CRIT) =>
                  {LabelBit(n) : n \in CritOf(S \cup {e})} =
                      {LabelBit(e.value[2][k][2]) : k \in 1 .. Len(e.value[2])}
           /\ ~ LabelIs(e, CRIT) => CritOf(S \cup {e}) = CritOf(S)
           /\ (\E v \in Vals(S \cup {e}, CONTENT_TYPE) : v[1] # "tstr") <=>
                  \/ \E v \in Vals(S, CONTENT_TYPE) : v[1] # "tstr"
                  \/ LabelIs(e, CONTENT_TYPE) /\ e.value[1] # "tstr"
<1>1. ASSUME LabelIs(e, CRIT)
      PROVE  {LabelBit(n) : n \in CritOf(S \cup {e})} =
                 {LabelBit(e.value[2][k][2]) : k \in 1 .. Len(e.value[2])}
  <2>1. Vals(S \cup {e}, CRIT) = {e.value}
    BY <1>1, ValsMore
  <2>2. GoodValue(CRIT, e.value, TRUE)
    <3>1. e.label[1] = "int" /\ e.label[2] = CRIT
      BY <1>1 DEF LabelIs
    <3> QED BY <3>1 DEF GoodEntry
  <2>3. e.value[1] = "array"
    BY <2>2 DEF GoodValue
  <2>4. e.value[2] \in Seq(Scalar)
    BY <2>3, ValueShape
  <2>5. DOMAIN e.value[2] = 1 .. Len(e.value[2])
    BY <2>4, LenProperties
  <2>6. CritOf(S \cup {e}) = {e.value[2][k][2] : k \in DOMAIN e.value[2]}
    BY <2>1 DEF CritOf
  <2> QED BY <2>5, <2>6
<1>2. ASSUME ~ LabelIs(e, CRIT) PROVE CritOf(S \cup {e}) = CritOf(S)
  <2>1. Vals(S \cup {e}, CRIT) = Vals(S, CRIT)
    BY <1>2, ValsMore
  <2> QED BY <2>1 DEF CritOf
<1>3. (\E v \in Vals(S \cup {e}, CONTENT_TYPE) : v[1] # "tstr") <=>
         \/ \E v \in Vals(S, CONTENT_TYPE) : v[1] # "tstr"
         \/ LabelIs(e, CONTENT_TYPE) /\ e.value[1] # "tstr"
  <2>1. CASE LabelIs(e, CONTENT_TYPE)
    <3>1. Vals(S, CONTENT_TYPE) = {} /\ Vals(S \cup {e}, CONTENT_TYPE) = {e.value}
      BY <2>1, ValsMore
    <3> QED BY <2>1, <3>1
  <2>2. CASE ~ LabelIs(e, CONTENT_TYPE)
    <3>1. Vals(S \cup {e}, CONTENT_TYPE) = Vals(S, CONTENT_TYPE)
      BY <2>2, ValsMore
    <3> QED BY <2>2, <3>1
  <2> QED BY <2>1, <2>2
<1> QED BY <1>1, <1>2, <1>3

LEMMA EntryReads ==
    ASSUME IInv, Read, NEW code \in Codes, TakesEntry(code)
    PROVE  Read'
<1>1. /\ Take(code) /\ Tables /\ Noted /\ Ruled /\ Told /\ msg' = msg
      /\ code = "ok" <=> GoodEntry(Entry, InProtected)
  BY DEF TakesEntry, Take, Read
<1>2. TypeOK /\ Reading
  BY <1>1, EntryOfTake
<1>3. CASE code # "ok"
  <2>1. pc' = "done" /\ ret' # "ok" /\ hdr' = NoHdr
    BY <1>3 DEF TakesEntry, Take
  <2>2. ~ WellFormed'
    BY <1>1, <1>2, <1>3, BadEntry, SameMessage
  <2>3. Tables' /\ Noted'
    BY <2>1 DEF Tables, Noted
  <2>4. Ruled'
    BY <2>1, <2>2 DEF Ruled
  <2>5. Told'
    BY <2>1 DEF Told, NoHdr, Fields
  <2> QED BY <2>3, <2>4, <2>5 DEF Read
<1>4. CASE code = "ok"
  <2>0. Take("ok")
    BY <1>1, <1>4
  <2> DEFINE p == MetP
             u == MetU
             e == Entry
             b == InProtected
  <2>1. /\ pc' = pc /\ ret' = ret /\ i' = i + 1
        /\ MetP' = IF b THEN p \cup {e} ELSE p
        /\ MetU' = IF b THEN u ELSE u \cup {e}
        /\ hdrState' = IF b THEN Add(hdrState, e.label) ELSE hdrState
        /\ unprotState' = IF b THEN unprotState ELSE Add(unprotState, e.label)
    BY <1>1, <2>0, MetMore
  <2>2. /\ \A x \in p \cup u : x.label # e.label
        /\ e.label \in GoodLabel /\ i \in Nat
        /\ ~ b => pc = "unprotected"
        /\ TableIs(hdrState, p) /\ TableIs(unprotState, u) /\ Sized(Own, i)
        /\ Sized(unprotState, IF pc = "unprotected" THEN i ELSE 0)
        /\ hdrState \in StateType /\ unprotState \in StateType
    BY <1>1, <1>2, <2>0, NewLabel, TablesNow
  <2>3. /\ GoodEntry(e, b) /\ EffectOn(hdr, e, b, hdr')
        /\ critLabels' = IF b /\ Is(CRIT)
                         THEN {LabelBit(Content[k][2]) : k \in 1 .. Len(Content)}
                         ELSE critLabels
        /\ understood' <=> understood \/ (b /\ Is(CONTENT_TYPE) /\ Kind # "tstr")
    BY <1>4 DEF TakesEntry
  <2>4. b <=> pc = "protected"
    BY DEF InProtected
  <2>5. e.value \in Value
    BY <1>2, EntryShape
  <2>6. b \in BOOLEAN
    BY DEF InProtected
  <2>7. Tables'
    <3>1. TableIs(hdrState', MetP')
      BY <2>1, <2>2, AddIs
    <3>2. TableIs(unprotState', MetU')
      BY <2>1, <2>2, AddIs
    <3>3. b => Sized(hdrState', i')
      BY <2>1, <2>2, AddSized DEF Own
    <3>4. Sized(unprotState', IF pc = "unprotected" THEN i' ELSE 0)
      BY <2>1, <2>2, <2>4, AddSized DEF Own
    <3>5. pc # "start"
      BY <2>2, <2>4
    <3> HIDE DEF b
    <3> QED BY <2>1, <2>4, <3>1, <3>2, <3>3, <3>4, <3>5 DEF Tables
  <2>8. Noted'
    <3> SUFFICES ASSUME pc = "protected"
                 PROVE  /\ critLabels' = {LabelBit(n) : n \in CritOf(MetP')}
                        /\ understood' <=> \E v \in Vals(MetP', CONTENT_TYPE) : v[1] # "tstr"
      BY <2>1, <2>2, <2>4 DEF Noted
    <3>1. b /\ MetP' = p \cup {e}
      BY <2>1, <2>4
    <3>2. /\ critLabels = {LabelBit(n) : n \in CritOf(p)}
          /\ understood <=> \E v \in Vals(p, CONTENT_TYPE) : v[1] # "tstr"
      BY <1>1 DEF Noted
    <3>3. \A n : Is(n) <=> LabelIs(e, n)
      BY DEF Is, LabelIs
    <3>4. GoodEntry(e, TRUE)
      BY <2>3, <3>1
    <3>5. \A x \in p : x.label # e.label
      BY <2>2
    <3> HIDE DEF p, e, b
    <3>6. /\ LabelIs(e, CRIT) =>
                 {LabelBit(n) : n \in CritOf(p \cup {e})} =
                     {LabelBit(e.value[2][k][2]) : k \in 1 .. Len(e.value[2])}
          /\ ~ LabelIs(e, CRIT) => CritOf(p \cup {e}) = CritOf(p)
          /\ (\E v \in Vals(p \cup {e}, CONTENT_TYPE) : v[1] # "tstr") <=>
                 \/ \E v \in Vals(p, CONTENT_TYPE) : v[1] # "tstr"
                 \/ LabelIs(e, CONTENT_TYPE) /\ e.value[1] # "tstr"
      BY <2>5, <3>4, <3>5, NotedMore
    <3>7. Content = e.value[2] /\ Kind = e.value[1]
      BY DEF Content, Kind, e
    <3>8. critLabels' = {LabelBit(n) : n \in CritOf(MetP')}
      BY <2>3, <3>1, <3>2, <3>3, <3>6, <3>7
    <3>9. understood' <=> \E v \in Vals(MetP', CONTENT_TYPE) : v[1] # "tstr"
      BY <2>3, <3>1, <3>2, <3>3, <3>6, <3>7
    <3> QED BY <3>8, <3>9
  <2>9. Ruled'
    <3>1. /\ \A x, q : GoodEntry(x, q)' <=> GoodEntry(x, q)
          /\ ProtectedFine' <=> ProtectedFine
      BY <1>1, SameMessage
    <3>2. CASE pc = "protected"
      <4>1. msg.protected.code = "ok" /\ \A x \in p : GoodEntry(x, TRUE)
        BY <1>1, <3>2 DEF Ruled
      <4>2. MetP' = p \cup {e} /\ GoodEntry(e, TRUE)
        BY <2>1, <2>3, <2>4, <3>2
      <4> QED BY <1>1, <2>1, <3>1, <3>2, <4>1, <4>2 DEF Ruled
    <3>3. CASE pc = "unprotected"
      <4>1. /\ ProtectedFine /\ msg.unprotected.code = "ok"
            /\ \A x \in u : GoodEntry(x, FALSE)
        BY <1>1, <3>3 DEF Ruled
      <4>2. MetU' = u \cup {e} /\ GoodEntry(e, FALSE)
        BY <2>1, <2>3, <2>4, <3>3
      <4> QED BY <1>1, <2>1, <3>1, <3>3, <4>1, <4>2 DEF Ruled
    <3> QED BY <2>2, <2>4, <3>2, <3>3
  <2>10. Told'
    <3>1. DOMAIN hdr = Fields /\ Tells(hdr, p, u)
      BY <1>1, <2>2, <2>4 DEF Told
    <3>2. DOMAIN hdr' = Fields
      BY <2>3, <3>1 DEF EffectOn
    <3> HIDE DEF p, u, e, b
    <3>3. Tells(hdr', IF b THEN p \cup {e} ELSE p, IF b THEN u ELSE u \cup {e})
      BY <2>2, <2>3, <2>6, <3>1, TellsMore
    <3>4. Tells(hdr', MetP', MetU')
      BY <2>1, <3>3
    <3> QED BY <3>2, <3>4 DEF Told
  <2> QED BY <2>7, <2>8, <2>9, <2>10 DEF Read
<1> QED BY <1>3, <1>4

-----------------------------------------------------------------------------
(* A refusal means that the message breaks a rule.                         *)

\* The buckets of a message whose labels all differ.
LEMMA DistinctEntries ==
    ASSUME msg \in Message, AllDistinct
    PROVE  /\ \A j, k \in 1 .. Len(PEntries) : PEntries[j].label = PEntries[k].label => j = k
           /\ \A j, k \in 1 .. Len(UEntries) : UEntries[j].label = UEntries[k].label => j = k
           /\ \A j \in 1 .. Len(PEntries), k \in 1 .. Len(UEntries) :
                  PEntries[j].label # UEntries[k].label
<1> DEFINE p == Len(PEntries)
           u == Len(UEntries)
           S == [label : Label, value : Value]
<1>1. PEntries \in Seq(S) /\ UEntries \in Seq(S) /\ p \in Nat /\ u \in Nat
  BY MessageShape
<1>2. Entries = PEntries \o UEntries
  BY DEF Entries, PEntries, UEntries
<1> HIDE DEF S
<1>3. /\ Entries \in Seq(S) /\ Len(Entries) = p + u
      /\ \A k \in 1 .. p + u : Entries[k] = IF k <= p THEN PEntries[k] ELSE UEntries[k - p]
  BY <1>1, <1>2, ConcatProperties
<1>4. DOMAIN Entries = 1 .. p + u
  BY <1>3, LenProperties
<1>5. \A j, k \in 1 .. p + u : Entries[j].label = Entries[k].label => j = k
  BY <1>4 DEF AllDistinct, Distinct
<1> HIDE DEF p, u
<1>6. \A k \in 1 .. p : k \in 1 .. p + u /\ Entries[k] = PEntries[k]
  BY <1>1, <1>3
<1>7. \A k \in 1 .. u : k + p \in 1 .. p + u /\ Entries[k + p] = UEntries[k]
  <2> SUFFICES ASSUME NEW k \in 1 .. u
               PROVE  k + p \in 1 .. p + u /\ Entries[k + p] = UEntries[k]
    OBVIOUS
  <2>1. k + p \in 1 .. p + u /\ ~ (k + p <= p) /\ (k + p) - p = k
    BY <1>1
  <2> QED BY <1>3, <2>1
<1>8. \A j, k \in 1 .. p : PEntries[j].label = PEntries[k].label => j = k
  BY <1>5, <1>6
<1>9. ASSUME NEW j \in 1 .. u, NEW k \in 1 .. u, UEntries[j].label = UEntries[k].label
      PROVE  j = k
  <2>1. j + p = k + p
    BY <1>5, <1>7, <1>9
  <2> QED BY <1>1, <2>1
<1>10. ASSUME NEW j \in 1 .. p, NEW k \in 1 .. u, PEntries[j].label = UEntries[k].label
       PROVE  FALSE
  <2>1. j = k + p
    BY <1>5, <1>6, <1>7, <1>10
  <2> QED BY <1>1, <2>1
<1> QED BY <1>8, <1>9, <1>10 DEF p, u

\* The values of a label, entry by entry.
LEMMA ValuesAre ==
    ASSUME msg \in Message
    PROVE  \A n : /\ ProtectedValues(n) = Vals(FirstP(Len(PEntries)), n)
                  /\ Values(n) = Vals(FirstP(Len(PEntries)) \cup FirstU(Len(UEntries)), n)
<1> DEFINE p == Len(PEntries)
           u == Len(UEntries)
           S == [label : Label, value : Value]
<1>1. PEntries \in Seq(S) /\ UEntries \in Seq(S) /\ p \in Nat /\ u \in Nat
  BY MessageShape
<1>2. Entries = PEntries \o UEntries
  BY DEF Entries, PEntries, UEntries
<1> HIDE DEF S
<1>3. /\ Entries \in Seq(S) /\ Len(Entries) = p + u
      /\ \A k \in 1 .. p + u : Entries[k] = IF k <= p THEN PEntries[k] ELSE UEntries[k - p]
  BY <1>1, <1>2, ConcatProperties
<1>4. DOMAIN Entries = 1 .. p + u /\ DOMAIN PEntries = 1 .. p
  BY <1>1, <1>3, LenProperties
<1> HIDE DEF p, u
<1> SUFFICES ASSUME NEW n
             PROVE  /\ ProtectedValues(n) = Vals(FirstP(p), n)
                    /\ Values(n) = Vals(FirstP(p) \cup FirstU(u), n)
  BY DEF p, u
<1>5. ProtectedValues(n) = Vals(FirstP(p), n)
  BY <1>4 DEF ProtectedValues, Vals, FirstP, PEntries
<1>6. {Entries[k] : k \in 1 .. p + u} = FirstP(p) \cup FirstU(u)
  <2>1. ASSUME NEW k \in 1 .. p + u PROVE Entries[k] \in FirstP(p) \cup FirstU(u)
    <3>1. CASE k <= p
      BY <1>1, <1>3, <3>1 DEF FirstP
    <3>2. CASE ~ (k <= p)
      <4>1. k - p \in 1 .. u
        BY <1>1, <3>2
      <4> QED BY <1>3, <3>2, <4>1 DEF FirstU
    <3> QED BY <3>1, <3>2
  <2>2. ASSUME NEW k \in 1 .. p PROVE PEntries[k] \in {Entries[j] : j \in 1 .. p + u}
    <3>1. k \in 1 .. p + u /\ k <= p
      BY <1>1
    <3> QED BY <1>3, <3>1
  <2>3. ASSUME NEW k \in 1 .. u PROVE UEntries[k] \in {Entries[j] : j \in 1 .. p + u}
    <3>1. k + p \in 1 .. p + u /\ ~ (k + p <= p) /\ (k + p) - p = k
      BY <1>1
    <3>2. Entries[k + p] = UEntries[k]
      BY <1>3, <3>1
    <3> QED BY <3>1, <3>2
  <2> QED BY <2>1, <2>2, <2>3 DEF FirstP, FirstU
<1>7. Values(n) = Vals({Entries[k] : k \in 1 .. p + u}, n)
  BY <1>4 DEF Values, Vals
<1> QED BY <1>5, <1>6, <1>7

\* The label of an entry is refused only if the message breaks a rule.
LEMMA LabelRefused ==
    ASSUME TypeOK, Tables, Progress, Reading, WellFormed
    PROVE  LabelCode = "ok"
<1>1. GoodEntry(Entry, InProtected)
  BY BadEntry
<1>2. Entry.label \in GoodLabel /\ Entry.label[1] # "bad"
  BY <1>1, EntryShape DEF Label, GoodLabel, GoodEntry
<1>3. /\ i \in Nat
      /\ IF InProtected THEN pc = "protected" /\ MetP = FirstP(i) /\ MetU = {}
         ELSE pc = "unprotected" /\ MetP = FirstP(Len(PEntries)) /\ MetU = FirstU(i)
      /\ TableIs(hdrState, MetP) /\ TableIs(unprotState, MetU)
      /\ Sized(Own, i)
      /\ hdrState \in StateType /\ unprotState \in StateType
  BY TablesNow
<1>4. msg \in Message /\ AllDistinct
  BY DEF TypeOK, WellFormed, AllDistinct
<1>5. /\ \A j, k \in 1 .. Len(PEntries) : PEntries[j].label = PEntries[k].label => j = k
      /\ \A j, k \in 1 .. Len(UEntries) : UEntries[j].label = UEntries[k].label => j = k
      /\ \A j \in 1 .. Len(PEntries), k \in 1 .. Len(UEntries) :
             PEntries[j].label # UEntries[k].label
  BY <1>4, DistinctEntries
<1>6. /\ pc = "protected" => Entry = PEntries[i + 1] /\ i < Len(PEntries)
      /\ pc = "unprotected" => Entry = UEntries[i + 1] /\ i < Len(UEntries)
      /\ i + 1 \in 1 .. Len(Current.entries)
  BY EntryShape
<1>7. Len(PEntries) \in Nat /\ Len(UEntries) \in Nat
  BY <1>4, MessageShape
<1>8. /\ pc = "protected" => Len(PEntries) <= MaxItems
      /\ pc = "unprotected" => Len(UEntries) <= MaxItems
  BY DEF Progress
<1>9. \A x \in MetP \cup MetU : x.label # Entry.label
  <2>1. CASE InProtected
    <3>1. ASSUME NEW k \in 1 .. i PROVE PEntries[k].label # PEntries[i + 1].label
      <4>1. k \in 1 .. Len(PEntries) /\ i + 1 \in 1 .. Len(PEntries) /\ k # i + 1
        BY <1>3, <1>6, <1>7, <2>1
      <4> QED BY <1>5, <4>1
    <3> QED BY <1>3, <1>6, <2>1, <3>1 DEF FirstP
  <2>2. CASE ~ InProtected
    <3>1. i + 1 \in 1 .. Len(UEntries) /\ Entry = UEntries[i + 1]
      BY <1>3, <1>6, <1>7, <2>2
    <3>2. ASSUME NEW k \in 1 .. i PROVE UEntries[k].label # UEntries[i + 1].label
      <4>1. k \in 1 .. Len(UEntries) /\ k # i + 1
        BY <1>3, <1>6, <1>7, <2>2
      <4> QED BY <1>5, <3>1, <4>1
    <3>3. \A x \in MetU : x.label # Entry.label
      BY <1>3, <2>2, <3>1, <3>2 DEF FirstU
    <3>4. \A x \in MetP : x.label # Entry.label
      BY <1>3, <1>5, <2>2, <3>1 DEF FirstP
    <3> QED BY <3>3, <3>4
  <2> QED BY <2>1, <2>2
<1> DEFINE a == Fails(~ InProtected /\ Is(CRIT), "hdr")
           b == Fails(Contains(Own, Entry.label), "malformed")
           c == Fails(Contains(hdrState, Entry.label), "malformed")
           d == Fails(NoSlot(Own, Entry.label), "malformed")
<1>10. LabelCode = First(<<a, b, c, d>>)
  BY <1>2 DEF LabelCode, Own
<1>11. a = "ok"
  <2>1. ASSUME Is(CRIT) PROVE InProtected
    <3>1. Entry.label[1] = "int" /\ Entry.label[2] = CRIT
      BY <2>1 DEF Is
    <3>2. GoodValue(CRIT, Entry.value, InProtected)
      BY <1>1, <3>1 DEF GoodEntry
    <3> QED BY <3>2 DEF GoodValue
  <2> QED BY <2>1 DEF Fails
<1>12. ~ Contains(hdrState, Entry.label) /\ ~ Contains(Own, Entry.label)
  BY <1>2, <1>3, <1>9 DEF TableIs, Own
<1>13. b = "ok" /\ c = "ok"
  BY <1>12 DEF Fails
<1>14. d = "ok"
  <2>1. i < MaxItems
    BY <1>3, <1>6, <1>7, <1>8, LimitsAssumption
  <2>2. Len(Own.ints) \in Nat /\ Len(Own.texts) \in Nat
    BY <1>3, LenProperties DEF Own, StateType
  <2>3. Len(Own.ints) < MaxItems /\ Len(Own.texts) < MaxItems
    BY <1>3, <2>1, <2>2, LimitsAssumption DEF Sized
  <2>4. ~ NoSlot(Own, Entry.label)
    BY <2>2, <2>3, LimitsAssumption DEF NoSlot
  <2> QED BY <2>4 DEF Fails
<1> HIDE DEF a, b, c, d
<1> QED BY <1>10, <1>11, <1>13, <1>14, FourIff

LEMMA RefusedReads ==
    ASSUME NEW code, code # "ok", Refuse(code), msg' = msg, ~ WellFormed
    PROVE  Read'
<1>1. pc' = "done" /\ ret' # "ok" /\ hdr' = NoHdr
  BY DEF Refuse
<1>2. ~ WellFormed'
  BY SameMessage
<1> QED BY <1>1, <1>2 DEF Read, Tables, Noted, Ruled, Told, NoHdr, Fields

LEMMA RefuseLabelReads ==
    ASSUME IInv, Read, RefuseLabel
    PROVE  Read'
<1>1. /\ Reading /\ LabelCode # "ok" /\ Refuse(LabelCode) /\ msg' = msg
      /\ TypeOK /\ Progress /\ Tables
  BY DEF RefuseLabel, IInv, Read
<1>2. ~ WellFormed
  BY <1>1, LabelRefused
<1> QED BY <1>1, <1>2, RefusedReads

-----------------------------------------------------------------------------
(* The ends of the buckets.                                                *)

LEMMA OpenIff ==
    ASSUME NEW b \in Bucket
    PROVE  OpenCode(b) = "ok" <=> b.code = "ok" /\ Len(b.entries) <= MaxItems
<1>1. Len(b.entries) \in Nat
  BY LenProperties DEF Bucket
<1> QED BY <1>1, LimitsAssumption DEF OpenCode, Fails

\* A bucket is good when it opens and its entries are.
LEMMA GoodBuckets ==
    ASSUME msg \in Message
    PROVE  /\ GoodBucket(msg.protected, TRUE) <=>
                  /\ msg.protected.code = "ok" /\ Len(PEntries) <= MaxItems
                  /\ \A e \in FirstP(Len(PEntries)) : GoodEntry(e, TRUE)
           /\ GoodBucket(msg.unprotected, FALSE) <=>
                  /\ msg.unprotected.code = "ok" /\ Len(UEntries) <= MaxItems
                  /\ \A e \in FirstU(Len(UEntries)) : GoodEntry(e, FALSE)
<1>1. DOMAIN PEntries = 1 .. Len(PEntries) /\ DOMAIN UEntries = 1 .. Len(UEntries)
  BY MessageShape, LenProperties
<1>2. GoodBucket(msg.protected, TRUE) <=>
          /\ msg.protected.code = "ok" /\ Len(PEntries) <= MaxItems
          /\ \A k \in 1 .. Len(PEntries) : GoodEntry(PEntries[k], TRUE)
  BY <1>1 DEF GoodBucket, GoodEntry, PEntries
<1>3. GoodBucket(msg.unprotected, FALSE) <=>
          /\ msg.unprotected.code = "ok" /\ Len(UEntries) <= MaxItems
          /\ \A k \in 1 .. Len(UEntries) : GoodEntry(UEntries[k], FALSE)
  BY <1>1 DEF GoodBucket, GoodEntry, UEntries
<1>4. (\A k \in 1 .. Len(PEntries) : GoodEntry(PEntries[k], TRUE)) <=>
          \A e \in FirstP(Len(PEntries)) : GoodEntry(e, TRUE)
  BY DEF FirstP
<1>5. (\A k \in 1 .. Len(UEntries) : GoodEntry(UEntries[k], FALSE)) <=>
          \A e \in FirstU(Len(UEntries)) : GoodEntry(e, FALSE)
  BY DEF FirstU
<1> QED BY <1>2, <1>3, <1>4, <1>5

LEMMA OpenProtectedReads ==
    ASSUME IInv, Read, OpenProtected
    PROVE  Read'
<1>1. /\ pc = "start" /\ UNCHANGED <<msg, hdrState, unprotState>>
      /\ Go(OpenCode(msg.protected), UNCHANGED <<i, algProtected>>, "protected")
      /\ TypeOK /\ Progress /\ Tables /\ Noted /\ Ruled /\ Told
  BY DEF OpenProtected, IInv, Read
<1>2. msg \in Message /\ msg.protected \in Bucket
  BY <1>1, MessageShape DEF TypeOK
<1>3. CASE OpenCode(msg.protected) # "ok"
  <2>1. ~ GoodBucket(msg.protected, TRUE)
    BY <1>2, <1>3, OpenIff DEF GoodBucket
  <2>2. ~ WellFormed
    BY <2>1 DEF WellFormed
  <2>3. Refuse(OpenCode(msg.protected))
    BY <1>1, <1>3 DEF Go
  <2> QED BY <1>1, <1>3, <2>2, <2>3, RefusedReads
<1>4. CASE OpenCode(msg.protected) = "ok"
  <2>1. /\ pc' = "protected" /\ i' = i /\ hdr' = hdr /\ ret' = ret
        /\ critLabels' = critLabels /\ understood' = understood
        /\ hdrState' = hdrState /\ unprotState' = unprotState
    BY <1>1, <1>4 DEF Go
  <2>2. msg.protected.code = "ok"
    BY <1>2, <1>4, OpenIff
  <2>3. i = 0
    BY <1>1 DEF Progress
  <2>4. MetP = {} /\ MetU = {}
    BY <1>1, FirstNone DEF MetP, MetU
  <2>5. MetP' = {} /\ MetU' = {}
    <3>1. MetP' = {PEntries'[k] : k \in 1 .. 0} /\ MetU' = {UEntries'[k] : k \in 1 .. 0}
      BY <2>1, <2>3 DEF MetP, MetU, FirstP, FirstU
    <3> QED BY <3>1
  <2>6. Tables'
    BY <1>1, <2>1, <2>4, <2>5 DEF Tables
  <2>7. Noted'
    BY <1>1, <2>1, <2>4, <2>5 DEF Noted
  <2>8. Ruled'
    BY <1>1, <2>1, <2>2, <2>5 DEF Ruled
  <2>9. Told'
    BY <1>1, <2>1, <2>4, <2>5 DEF Told
  <2> QED BY <2>6, <2>7, <2>8, <2>9 DEF Read
<1> QED BY <1>3, <1>4

LEMMA OpenUnprotectedReads ==
    ASSUME IInv, Read, OpenUnprotected
    PROVE  Read'
<1>1. /\ pc = "between" /\ UNCHANGED <<msg, hdrState, unprotState>>
      /\ Go(OpenCode(msg.unprotected), UNCHANGED <<i, algProtected>>, "unprotected")
      /\ TypeOK /\ Progress /\ Tables /\ Noted /\ Ruled /\ Told
  BY DEF OpenUnprotected, IInv, Read
<1>2. msg \in Message /\ msg.unprotected \in Bucket
  BY <1>1, MessageShape DEF TypeOK
<1>3. CASE OpenCode(msg.unprotected) # "ok"
  <2>1. ~ GoodBucket(msg.unprotected, FALSE)
    BY <1>2, <1>3, OpenIff DEF GoodBucket
  <2>2. ~ WellFormed
    BY <2>1 DEF WellFormed
  <2>3. Refuse(OpenCode(msg.unprotected))
    BY <1>1, <1>3 DEF Go
  <2> QED BY <1>1, <1>3, <2>2, <2>3, RefusedReads
<1>4. CASE OpenCode(msg.unprotected) = "ok"
  <2>1. /\ pc' = "unprotected" /\ i' = i /\ hdr' = hdr /\ ret' = ret
        /\ hdrState' = hdrState /\ unprotState' = unprotState
    BY <1>1, <1>4 DEF Go
  <2>2. msg.unprotected.code = "ok"
    BY <1>2, <1>4, OpenIff
  <2>3. i = 0
    BY <1>1 DEF Progress
  <2>4. MetP = FirstP(Len(PEntries)) /\ MetU = {}
    BY <1>1, FirstNone DEF MetP, MetU
  <2>5. MetP' = FirstP(Len(PEntries)) /\ MetU' = {}
    <3>1. MetU' = {UEntries'[k] : k \in 1 .. 0}
      BY <2>1, <2>3 DEF MetU, FirstU
    <3>2. PEntries' = PEntries
      BY <1>1 DEF PEntries
    <3>3. MetP' = FirstP(Len(PEntries))
      BY <2>1, <3>2 DEF MetP, FirstP
    <3> QED BY <3>1, <3>3
  <2>6. Tables'
    BY <1>1, <2>1, <2>3, <2>4, <2>5 DEF Tables
  <2>7. Noted'
    BY <2>1 DEF Noted
  <2>8. ProtectedFine'
    BY <1>1, SameMessage DEF Ruled
  <2>9. Ruled'
    BY <1>1, <2>1, <2>2, <2>5, <2>8 DEF Ruled
  <2>10. Told'
    BY <1>1, <2>1, <2>4, <2>5 DEF Told
  <2> QED BY <2>6, <2>7, <2>9, <2>10 DEF Read
<1> QED BY <1>3, <1>4

\* A small label is in the table just when an entry of the bucket has it.
LEMMA TableTells ==
    ASSUME NEW st \in StateType, NEW S, TableIs(st, S), NEW n \in Int
    PROVE  /\ ContainsInt(st, n) <=> Vals(S, n) # {}
           /\ LabelBit(n) # NoBit => (LabelBit(n) \in st.bits <=> Vals(S, n) # {})
<1> DEFINE l == <<"int", n>>
<1>1. l \in GoodLabel /\ l[1] # "text" /\ l[2] = n
  BY DEF GoodLabel
<1>2. Contains(st, l) <=> ContainsInt(st, n)
  BY <1>1 DEF Contains
<1>3. Contains(st, l) <=> \E e \in S : e.label = l
  BY <1>1 DEF TableIs
<1>4. (\E e \in S : e.label = l) <=> Vals(S, n) # {}
  BY DEF Vals
<1>5. LabelBit(n) # NoBit => n \notin Range(st.ints)
  BY DEF TableIs
<1> HIDE DEF l
<1> QED BY <1>2, <1>3, <1>4, <1>5 DEF ContainsInt

\* What the decoder noted says whether what is critical is there and understood.
LEMMA CriticalChecked ==
    ASSUME NEW S, NEW st \in StateType, TableIs(st, S),
           \A e \in S : e.value \in Value /\ GoodEntry(e, TRUE),
           \A e, f \in S : e.label = f.label => e = f,
           NEW bits, bits = {LabelBit(n) : n \in CritOf(S)},
           NEW u, u <=> \E v \in Vals(S, CONTENT_TYPE) : v[1] # "tstr"
    PROVE  bits \subseteq st.bits /\ ~ (LabelBit(CONTENT_TYPE) \in bits /\ ~ u)
           <=> /\ \A n \in CritOf(S) : Vals(S, n) # {}
               /\ CONTENT_TYPE \in CritOf(S) => \A v \in Vals(S, CONTENT_TYPE) : v[1] = "int"
<1>1. ASSUME NEW n \in CritOf(S) PROVE n \in 1 .. 6
  <2>1. PICK v \in Vals(S, CRIT) : \E k \in DOMAIN v[2] : n = v[2][k][2]
    BY <1>1 DEF CritOf
  <2>2. PICK e \in S : e.label = <<"int", CRIT>> /\ v = e.value
    BY <2>1 DEF Vals
  <2>3. GoodValue(CRIT, v, TRUE)
    <3>1. e.label[1] = "int" /\ e.label[2] = CRIT
      BY <2>2
    <3> QED BY <2>2, <3>1 DEF GoodEntry
  <2> QED BY <2>1, <2>3 DEF GoodValue
<1>2. \A n \in 1 .. 6 : LabelBit(n) # NoBit /\ n \in Int
  BY DEF LabelBit, NoBit
<1>3. bits \subseteq st.bits <=> \A n \in CritOf(S) : Vals(S, n) # {}
  <2>1. \A n \in CritOf(S) : LabelBit(n) \in st.bits <=> Vals(S, n) # {}
    BY <1>1, <1>2, TableTells
  <2> QED BY <2>1
<1>4. LabelBit(CONTENT_TYPE) \in bits <=> CONTENT_TYPE \in CritOf(S)
  <2>1. CONTENT_TYPE \in 1 .. 6
    BY DEF CONTENT_TYPE
  <2>2. \A n \in CritOf(S) : LabelBit(n) = LabelBit(CONTENT_TYPE) => n = CONTENT_TYPE
    BY <1>1, <1>2, <2>1, BitOfOne
  <2> QED BY <2>2
<1>5. ASSUME Vals(S, CONTENT_TYPE) # {}
      PROVE  u <=> \A v \in Vals(S, CONTENT_TYPE) : v[1] = "int"
  <2>1. PICK e \in S : e.label = <<"int", CONTENT_TYPE>>
    BY <1>5 DEF Vals
  <2>2. Vals(S, CONTENT_TYPE) = {e.value}
    BY <2>1 DEF Vals
  <2>3. e.value[1] \in {"int", "tstr"}
    BY <2>1, GoodKinds DEF LabelIs
  <2> QED BY <2>2, <2>3
<1> QED BY <1>3, <1>4, <1>5

LEMMA EndProtectedReads ==
    ASSUME IInv, Read, EndProtected
    PROVE  Read'
<1>1. /\ pc = "protected" /\ i = Len(PEntries) /\ UNCHANGED <<msg, hdrState, unprotState>>
      /\ Go(ProtectedEndCode, i' = 0 /\ algProtected' = ContainsInt(hdrState, ALG), "between")
      /\ TypeOK /\ Progress /\ Tables /\ Noted /\ Ruled /\ Told
  BY DEF EndProtected, InProtected, PEntries, IInv, Read
<1> DEFINE S == FirstP(Len(PEntries))
<1>2. MetP = S /\ MetU = {}
  BY <1>1, FirstNone DEF MetP, MetU
<1>3. msg \in Message /\ hdrState \in StateType /\ Len(PEntries) \in Nat
  BY <1>1, MessageShape DEF TypeOK, IsState, StateType
<1>4. /\ TableIs(hdrState, S) /\ TableIs(unprotState, {}) /\ Sized(unprotState, 0)
      /\ critLabels = {LabelBit(n) : n \in CritOf(S)}
      /\ understood <=> \E v \in Vals(S, CONTENT_TYPE) : v[1] # "tstr"
      /\ msg.protected.code = "ok" /\ \A e \in S : GoodEntry(e, TRUE)
      /\ DOMAIN hdr = Fields /\ Tells(hdr, S, {})
  BY <1>1, <1>2 DEF Tables, Noted, Ruled, Told
<1>5. GoodBucket(msg.protected, TRUE)
  BY <1>1, <1>3, <1>4, GoodBuckets DEF Progress
<1>6. \A e \in S : e.value \in Value
  <2>1. \A k \in 1 .. Len(PEntries) : PEntries[k].value \in Value
    <3>1. PEntries \in Seq([label : Label, value : Value])
      BY <1>3, MessageShape
    <3>2. \A k \in 1 .. Len(PEntries) : PEntries[k] \in [label : Label, value : Value]
      BY <3>1, ElementOfSeq
    <3> QED BY <3>2
  <2> QED BY <2>1 DEF FirstP
<1>7. \A e, f \in S : e.label = f.label => e = f
  BY <1>1 DEF Progress, ProtectedSeen, FirstP
<1>8. \A n : ProtectedValues(n) = Vals(S, n)
  BY <1>3, ValuesAre
<1>9. Critical = CritOf(S)
  BY <1>8 DEF Critical, CritOf
<1> HIDE DEF S
<1> DEFINE a == Fails(~ (critLabels \subseteq hdrState.bits), "hdr")
           b == Fails(LabelBit(CONTENT_TYPE) \in critLabels /\ ~ understood, "hdr")
           c == Fails(\E n \in COUNTERSIGNATURES : ContainsInt(hdrState, n), "hdr")
           d == Fails(hdr.iv # NULL /\ hdr.partialIv # NULL, "hdr")
           e == Fails(msg.protected.trailing, "malformed")
<1>10. ProtectedEndCode = First(<<a, b, c, d, e>>)
  BY DEF ProtectedEndCode
<1>11. a = "ok" /\ b = "ok" <=>
         /\ \A n \in Critical : ProtectedValues(n) # {}
         /\ CONTENT_TYPE \in Critical => \A v \in ProtectedValues(CONTENT_TYPE) : v[1] = "int"
  <2>1. critLabels \subseteq hdrState.bits /\ ~ (LabelBit(CONTENT_TYPE) \in critLabels /\ ~ understood)
        <=> /\ \A n \in CritOf(S) : Vals(S, n) # {}
            /\ CONTENT_TYPE \in CritOf(S) => \A v \in Vals(S, CONTENT_TYPE) : v[1] = "int"
    BY <1>3, <1>4, <1>6, <1>7, CriticalChecked
  <2>2. a = "ok" <=> critLabels \subseteq hdrState.bits
    BY DEF Fails
  <2>3. b = "ok" <=> ~ (LabelBit(CONTENT_TYPE) \in critLabels /\ ~ understood)
    BY DEF Fails
  <2> HIDE DEF a, b
  <2> QED BY <1>8, <1>9, <2>1, <2>2, <2>3
<1>12. c = "ok" <=> \A n \in COUNTERSIGNATURES : ProtectedValues(n) = {}
  <2>1. \A n \in COUNTERSIGNATURES : n \in Int
    BY DEF COUNTERSIGNATURES
  <2>2. \A n \in COUNTERSIGNATURES : ContainsInt(hdrState, n) <=> ProtectedValues(n) # {}
    BY <1>3, <1>4, <1>8, <2>1, TableTells
  <2>3. c = "ok" <=> \A n \in COUNTERSIGNATURES : ~ ContainsInt(hdrState, n)
    BY DEF Fails
  <2> HIDE DEF c
  <2> QED BY <2>2, <2>3
<1>13. d = "ok" <=> hdr.iv = NULL \/ hdr.partialIv = NULL
  BY DEF Fails
<1>14. e = "ok" <=> ~ msg.protected.trailing
  BY DEF Fails
<1> HIDE DEF a, b, c, d, e
<1>15. ProtectedEndCode = "ok" <=> a = "ok" /\ b = "ok" /\ c = "ok" /\ d = "ok" /\ e = "ok"
  BY <1>10, FiveIff
<1>16. CASE ProtectedEndCode # "ok"
  <2>1. ASSUME WellFormed PROVE FALSE
    <3>1. a = "ok" /\ b = "ok" /\ c = "ok" /\ e = "ok"
      BY <1>11, <1>12, <1>14, <2>1 DEF WellFormed
    <3>2. hdr.iv # NULL /\ hdr.partialIv # NULL
      BY <1>13, <1>15, <1>16, <3>1
    <3>3. Vals(S, IV) # {} /\ Vals(S, PARTIAL_IV) # {}
      <4>1. S \cup {} = S
        OBVIOUS
      <4>2. BytesTell(hdr.iv, Vals(S, IV)) /\ BytesTell(hdr.partialIv, Vals(S, PARTIAL_IV))
        BY <1>4, <4>1 DEF Tells
      <4> QED BY <3>2, <4>2 DEF BytesTell
    <3>4. Vals(S, IV) \subseteq Values(IV) /\ Vals(S, PARTIAL_IV) \subseteq Values(PARTIAL_IV)
      <4>1. \A n : Values(n) = Vals(S \cup FirstU(Len(UEntries)), n)
        BY <1>3, ValuesAre DEF S
      <4>2. \A n : Vals(S, n) \subseteq Vals(S \cup FirstU(Len(UEntries)), n)
        BY DEF Vals
      <4> QED BY <4>1, <4>2
    <3> QED BY <2>1, <3>3, <3>4 DEF WellFormed
  <2>2. Refuse(ProtectedEndCode)
    BY <1>1, <1>16 DEF Go
  <2> QED BY <1>1, <1>16, <2>1, <2>2, RefusedReads
<1>17. CASE ProtectedEndCode = "ok"
  <2>1. ProtectedFine
    BY <1>5, <1>11, <1>12, <1>14, <1>15, <1>17 DEF ProtectedFine
  <2>2. /\ pc' = "between" /\ i' = 0 /\ hdr' = hdr /\ ret' = ret
        /\ hdrState' = hdrState /\ unprotState' = unprotState
    BY <1>1, <1>17 DEF Go
  <2>3. MetP' = S /\ MetU' = {}
    <3>1. PEntries' = PEntries /\ UEntries' = UEntries
      BY <1>1 DEF PEntries, UEntries
    <3>2. MetP' = FirstP(Len(PEntries))
      BY <2>2, <3>1 DEF MetP, FirstP
    <3>3. MetU' = {UEntries[k] : k \in 1 .. 0}
      BY <2>2, <3>1 DEF MetU, FirstU
    <3> QED BY <3>2, <3>3 DEF S
  <2>4. Tables'
    BY <1>4, <2>2, <2>3 DEF Tables
  <2>5. Noted'
    BY <2>2 DEF Noted
  <2>6. ProtectedFine'
    BY <1>1, <2>1, SameMessage
  <2>7. Ruled'
    BY <2>2, <2>6 DEF Ruled
  <2>8. Told'
    BY <1>4, <2>2, <2>3 DEF Told
  <2> QED BY <2>4, <2>5, <2>7, <2>8 DEF Read
<1> QED BY <1>16, <1>17

LEMMA EndUnprotectedReads ==
    ASSUME IInv, Read, EndUnprotected
    PROVE  Read'
<1> DEFINE code == Fails(hdr.iv # NULL /\ hdr.partialIv # NULL, "hdr")
           S == FirstP(Len(PEntries))
           T == FirstU(Len(UEntries))
<1>1. /\ pc = "unprotected" /\ i = Len(UEntries) /\ UNCHANGED <<msg, unprotState>>
      /\ Go(code, UNCHANGED <<i, algProtected>>, "decoded")
      /\ TypeOK /\ Progress /\ Tables /\ Ruled /\ Told
  BY DEF EndUnprotected, UEntries, IInv, Read
<1>2. MetP = S /\ MetU = T
  BY <1>1 DEF MetP, MetU
<1>3. msg \in Message
  BY <1>1 DEF TypeOK
<1>4. /\ ProtectedFine /\ msg.unprotected.code = "ok" /\ \A e \in T : GoodEntry(e, FALSE)
      /\ DOMAIN hdr = Fields /\ Tells(hdr, S, T)
  BY <1>1, <1>2 DEF Ruled, Told
<1>5. GoodBucket(msg.unprotected, FALSE)
  BY <1>1, <1>3, <1>4, GoodBuckets DEF Progress
<1>6. \A n : Values(n) = Vals(S \cup T, n)
  BY <1>3, ValuesAre
<1>7. AllDistinct
  BY <1>1, <1>3, SeenDistinct DEF Progress
<1> HIDE DEF S, T
<1>8. BytesTell(hdr.iv, Values(IV)) /\ BytesTell(hdr.partialIv, Values(PARTIAL_IV))
  BY <1>4, <1>6 DEF Tells
<1>9. code = "ok" <=> hdr.iv = NULL \/ hdr.partialIv = NULL
  BY DEF Fails
<1>10. code = "ok" <=> Values(IV) = {} \/ Values(PARTIAL_IV) = {}
  <2> HIDE DEF code
  <2> QED BY <1>8, <1>9 DEF BytesTell
<1> HIDE DEF code
<1>11. CASE code # "ok"
  <2>1. ~ WellFormed
    BY <1>10, <1>11 DEF WellFormed
  <2>2. Refuse(code)
    BY <1>1, <1>11 DEF Go
  <2> QED BY <1>1, <1>11, <2>1, <2>2, RefusedReads
<1>12. CASE code = "ok"
  <2>1. WellFormed
    BY <1>4, <1>5, <1>7, <1>10, <1>12 DEF WellFormed, ProtectedFine, AllDistinct
  <2>2. pc' = "decoded" /\ hdr' = hdr /\ ret' = ret
    BY <1>1, <1>12 DEF Go
  <2>3. MetP' = S /\ MetU' = T
    BY <1>1, <2>2, SameMessage DEF MetP, MetU, S, T, FirstP, FirstU
  <2>4. Tables' /\ Noted'
    BY <2>2 DEF Tables, Noted
  <2>5. WellFormed'
    BY <1>1, <2>1, SameMessage
  <2>6. Ruled'
    BY <2>2, <2>5 DEF Ruled
  <2>7. Told'
    BY <1>4, <2>2, <2>3 DEF Told
  <2> QED BY <2>4, <2>6, <2>7 DEF Read
<1> QED BY <1>11, <1>12

LEMMA CheckAlgReads ==
    ASSUME IInv, Read, CheckAlg
    PROVE  Read'
<1>1. PICK p \in Pins : /\ ret' = AlgCode(p)
                        /\ hdr' = IF AlgCode(p) = "ok" THEN hdr ELSE NoHdr
  BY DEF CheckAlg
<1>2. pc = "decoded" /\ pc' = "done" /\ msg' = msg /\ Ruled /\ Told
  BY DEF CheckAlg, Read
<1> DEFINE a == Fails(p # UNSET /\ p # hdr.alg, "alg")
           b == Fails(p = UNSET /\ ~ algProtected, "alg")
           c == Fails(hdr.alg \notin Supported, "alg")
<1>3. a \in {"ok", "alg"} /\ b \in {"ok", "alg"} /\ c \in {"ok", "alg"}
  BY DEF Fails
<1>4. AlgCode(p) = First(<<a, b, c>>)
  BY DEF AlgCode
<1> HIDE DEF a, b, c
<1>5. AlgCode(p) \in {"ok", "alg"}
  BY <1>3, <1>4, TripleOf
<1>6. Tables' /\ Noted' /\ Ruled'
  BY <1>1, <1>2, <1>5 DEF Tables, Noted, Ruled
<1>7. DOMAIN hdr = Fields /\ Tells(hdr, MetP, MetU)
  BY <1>2 DEF Told
<1>8. MetP' = MetP /\ MetU' = MetU
  BY <1>2 DEF MetP, MetU, FirstP, FirstU, PEntries, UEntries
<1>9. CASE AlgCode(p) = "ok"
  <2>1. hdr' = hdr
    BY <1>1, <1>9
  <2>2. Told'
    BY <1>7, <1>8, <2>1 DEF Told
  <2> QED BY <1>6, <2>2 DEF Read
<1>10. CASE AlgCode(p) # "ok"
  <2>1. hdr' = NoHdr /\ ret' # "ok"
    BY <1>1, <1>10
  <2>2. Told'
    BY <1>2, <2>1 DEF Told, NoHdr, Fields
  <2> QED BY <1>6, <2>2 DEF Read
<1> QED BY <1>9, <1>10

LEMMA InitRead == Init => Read
<1> SUFFICES ASSUME Init PROVE Read
  OBVIOUS
<1>1. /\ pc = "start" /\ i = 0 /\ hdr = NoHdr /\ hdrState = NoLabels /\ unprotState = NoLabels
      /\ critLabels = {} /\ understood = FALSE
  BY DEF Init
<1>2. MetP = {} /\ MetU = {}
  BY <1>1, FirstNone DEF MetP, MetU
<1>3. \A n : Vals({}, n) = {}
  BY DEF Vals
<1>4. TableIs(NoLabels, {}) /\ Sized(NoLabels, 0)
  <2>1. NoLabels.bits = {} /\ NoLabels.ints = <<>> /\ NoLabels.texts = <<>>
    BY DEF NoLabels
  <2>2. Range(<<>>) = {} /\ Len(<<>>) = 0
    BY DEF Range
  <2> HIDE DEF NoLabels
  <2>3. \A l : ~ Contains(NoLabels, l)
    BY <2>1, <2>2 DEF Contains, ContainsInt
  <2> QED BY <2>1, <2>2, <2>3 DEF TableIs, Sized
<1>5. Tables
  BY <1>1, <1>2, <1>4 DEF Tables
<1>6. Noted
  <2>1. CritOf({}) = {}
    BY <1>3 DEF CritOf
  <2> QED BY <1>1, <1>2, <1>3, <2>1 DEF Noted
<1>7. Ruled
  BY <1>1 DEF Ruled
<1>8. Told
  <2>1. {} \cup {} = {}
    OBVIOUS
  <2>2. Tells(NoHdr, {}, {})
    BY <1>3, <2>1 DEF Tells, BytesTell, NumberTells, NoHdr
  <2>3. DOMAIN NoHdr = Fields
    BY DEF NoHdr, Fields
  <2> QED BY <1>1, <1>2, <2>2, <2>3 DEF Told
<1> QED BY <1>5, <1>6, <1>7, <1>8 DEF Read

LEMMA NextRead == IInv /\ Read /\ [Next]_vars => Read'
<1> SUFFICES ASSUME IInv, Read, [Next]_vars PROVE Read'
  OBVIOUS
<1>0. DOMAIN hdr = Fields
  BY DEF Read, Told
<1>1. CASE OpenProtected
  BY <1>1, OpenProtectedReads
<1>2. CASE RefuseLabel
  BY <1>2, RefuseLabelReads
<1>3. CASE DecodeAlg
  BY <1>0, <1>3, TakesAlg, EntryReads
<1>4. CASE DecodeCrit
  BY <1>0, <1>4, TakesCrit, EntryReads
<1>5. CASE DecodeContentType
  BY <1>0, <1>5, TakesContentType, EntryReads
<1>6. CASE DecodeBstr(KID, "kid") \/ DecodeBstr(IV, "iv") \/ DecodeBstr(PARTIAL_IV, "partialIv")
  BY <1>0, <1>6, TakesBstr, EntryReads
<1>7. CASE DecodeEk
  BY <1>0, <1>7, TakesBstr, EntryReads DEF DecodeEk
<1>8. CASE DecodeX5chain
  <2>1. /\ Take(SkipCode) /\ Keep(SkipCode, [hdr EXCEPT !.flags = @ \cup {"x5chain"}])
        /\ UNCHANGED <<critLabels, understood>> /\ Is(X5CHAIN)
    BY <1>8 DEF DecodeX5chain
  <2>2. /\ \A n \in {ALG, CRIT, CONTENT_TYPE, KID, IV, PARTIAL_IV} : ~ Is(n)
        /\ ~ Is(HPKE_EK)
    BY <2>1 DEF Is, X5CHAIN, ALG, CRIT, CONTENT_TYPE, KID, IV, PARTIAL_IV, HPKE_EK
  <2> QED BY <1>0, <2>1, <2>2, TakesSkipped, EntryReads
<1>9. CASE SkipUnknown
  <2>1. /\ Take(SkipCode) /\ Keep(SkipCode, hdr) /\ UNCHANGED <<critLabels, understood>>
        /\ \A n \in Known : ~ Is(n)
    BY <1>9 DEF SkipUnknown
  <2>2. Is(CRIT) => InProtected
    BY <2>1, EntryKnown
  <2>3. \A n \in {ALG, CRIT, CONTENT_TYPE, KID, IV, PARTIAL_IV} : ~ Is(n)
    BY <2>1, <2>2 DEF Known
  <2>4. Is(HPKE_EK) => ~ WantsEk
    BY <2>1 DEF Known
  <2> QED BY <1>0, <2>1, <2>3, <2>4, TakesSkipped, EntryReads
<1>10. CASE EndProtected
  BY <1>10, EndProtectedReads
<1>11. CASE OpenUnprotected
  BY <1>11, OpenUnprotectedReads
<1>12. CASE EndUnprotected
  BY <1>12, EndUnprotectedReads
<1>13. CASE CheckAlg
  BY <1>13, CheckAlgReads
<1>14. CASE UNCHANGED vars
  <2>1. /\ msg' = msg /\ pc' = pc /\ i' = i /\ hdrState' = hdrState
        /\ unprotState' = unprotState /\ hdr' = hdr /\ critLabels' = critLabels
        /\ understood' = understood /\ ret' = ret
    BY <1>14 DEF vars
  <2>2. /\ ProtectedFine' <=> ProtectedFine
        /\ WellFormed' <=> WellFormed
        /\ \A e, p : GoodEntry(e, p)' <=> GoodEntry(e, p)
    BY <2>1, SameMessage
  <2>3. MetP' = MetP /\ MetU' = MetU
    BY <2>1 DEF MetP, MetU, FirstP, FirstU, PEntries, UEntries
  <2>4. Tables' /\ Noted'
    BY <2>1, <2>3 DEF Read, Tables, Noted
  <2>5. Ruled'
    BY <2>1, <2>2, <2>3 DEF Read, Ruled
  <2>6. Told'
    BY <2>1, <2>3 DEF Read, Told
  <2> QED BY <2>4, <2>5, <2>6 DEF Read
<1> QED BY <1>1, <1>2, <1>3, <1>4, <1>5, <1>6, <1>7, <1>8, <1>9, <1>10, <1>11, <1>12,
           <1>13, <1>14 DEF Next

-----------------------------------------------------------------------------
(* The theorems.                                                           *)

\* Every state of the decoder is well-typed: its tables hold labels of their kind and
\* never more than their limit.
THEOREM HdrTypeCorrect == Spec => []TypeOK
<1>1. IInv => TypeOK
  BY DEF IInv
<1> QED BY <1>1, InitIInv, NextIInv, PTL DEF Spec

\* A message that wolfCose_DecodeProtectedHdr and wolfCose_DecodeUnprotectedHdr accept
\* names no label twice, in one bucket or in both.
THEOREM LabelsUnique == Spec => []NoLabelTwice
<1>1. IInv => NoLabelTwice
  BY DEF IInv, Progress, NoLabelTwice, AllDistinct
<1> QED BY <1>1, InitIInv, NextIInv, PTL DEF Spec

\* The algorithm that a receiver goes on with is never one that only the unprotected
\* bucket names: the key is for it, or the protected bucket says it.
THEOREM AlgorithmVouched == Spec => []AlgIsVouchedFor
<1>1. IInv => AlgIsVouchedFor
  BY AlgsAssumption DEF IInv, AlgSource, Vouched, AlgIsVouchedFor
<1> QED BY <1>1, InitIInv, NextIInv, PTL DEF Spec

\* The two decoders accept exactly the messages that keep every rule on headers: none is
\* accepted that breaks one, and none refused that keeps them all, but for its algorithm.
THEOREM AcceptsJustRules == Spec => []AcceptsWellFormed
<1>1. Read => AcceptsWellFormed
  BY DEF Read, Ruled, AcceptsWellFormed
<1> QED BY <1>1, InitIInv, NextIInv, InitRead, NextRead, PTL DEF Spec

\* What wolfCose_DecodeProtectedHdr and wolfCose_DecodeUnprotectedHdr leave in the
\* WOLFCOSE_HDR is what the one entry for it says, in whichever bucket it stands.
THEOREM HeaderIsRead == Spec => []HeaderTellsMessage
<1>1. IInv /\ Read => HeaderTellsMessage
  <2> SUFFICES ASSUME IInv, Read, Accepted
               PROVE  /\ BytesTell(hdr.kid, Values(KID))
                      /\ BytesTell(hdr.iv, Values(IV))
                      /\ BytesTell(hdr.partialIv, Values(PARTIAL_IV))
                      /\ NumberTells(hdr.alg, Values(ALG))
                      /\ NumberTells(hdr.contentType, Values(CONTENT_TYPE))
                      /\ "unprotected" \in hdr.flags <=>
                             (Values(CONTENT_TYPE) # {} /\ ProtectedValues(CONTENT_TYPE) = {})
    BY Zenon DEF HeaderTellsMessage, BytesTell, NumberTells
  <2> DEFINE S == FirstP(Len(PEntries))
             T == FirstU(Len(UEntries))
  <2>1. MetP = S /\ MetU = T
    BY DEF Accepted, MetP, MetU
  <2>2. Tells(hdr, S, T)
    BY <2>1 DEF Accepted, Read, Told
  <2>3. msg \in Message /\ AllDistinct
    BY DEF IInv, TypeOK, Progress
  <2>4. \A n : Values(n) = Vals(S \cup T, n) /\ ProtectedValues(n) = Vals(S, n)
    BY <2>3, ValuesAre
  <2>5. Vals(T, CONTENT_TYPE) # {} => Vals(S, CONTENT_TYPE) = {}
    <3>1. \A j \in 1 .. Len(PEntries), k \in 1 .. Len(UEntries) :
              PEntries[j].label # UEntries[k].label
      BY <2>3, DistinctEntries
    <3>2. \A e \in S, f \in T : e.label # f.label
      BY <3>1 DEF FirstP, FirstU
    <3> HIDE DEF S, T
    <3> QED BY <3>2 DEF Vals
  <2> HIDE DEF S, T
  <2>6. Vals(S \cup T, CONTENT_TYPE) = Vals(S, CONTENT_TYPE) \cup Vals(T, CONTENT_TYPE)
    BY DEF Vals
  <2> QED BY <2>2, <2>4, <2>5, <2>6 DEF Tells
<1> QED BY <1>1, InitIInv, NextIInv, InitRead, NextRead, PTL DEF Spec

=============================================================================
