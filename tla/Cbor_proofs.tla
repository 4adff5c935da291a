---------------------------- MODULE Cbor_proofs ----------------------------
(***************************************************************************)
(* The skip, for every input and every nesting limit: its cursor stays     *)
(* inside the buffer and only moves forward, the stack stays inside its    *)
(* array and is never read before it is written, the loop decodes at most  *)
(* one head for each byte, and it accepts just the items the grammar has   *)
(* and stops right behind them.                                            *)
(*                                                                         *)
(* The last needs the grammar's recursion as a fact: ItemsEnd is defined   *)
(* by what it says of places further on in the buffer, so a function that  *)
(* does exists for the last k places of every buffer, by the least k for   *)
(* which it would not (EndExists), and CHOOSE has one to choose.           *)
(*                                                                         *)
(* The encoder and the typed decoders, for every set of values and every   *)
(* buffer shorter than Huge: what was encoded reads back as it was,        *)
(* reading an item and encoding it gives its bytes again, and an encoder   *)
(* writes nothing but what lies behind its cursor.  Both go by the lemmas  *)
(* on the head decoder.                                                    *)
(***************************************************************************)
EXTENDS CborSkip, CborCodec, Checks_proofs, FiniteSetTheorems

\* The strengthening: the loop goes on only while nothing was refused.
RunningMeansOk == pc # "done" => ret = "ok"

IInv == TypeOK /\ SavedCountsOnly /\ OneHeadPerByte /\ RunningMeansOk

\* Four 16-bit limbs make an argument.
LEMMA LimbsMakeArg ==
    ASSUME NEW w1 \in Limb, NEW w2 \in Limb, NEW w3 \in Limb, NEW w4 \in Limb
    PROVE  <<w1, w2, w3, w4>> \in Arg
<1> DEFINE v == <<w1, w2, w3, w4>>
<1>1. \A k \in 1 .. 4 : v[k] \in Limb
  OBVIOUS
<1>2. v = [k \in 1 .. 4 |-> v[k]]
  OBVIOUS
<1> QED BY <1>1, <1>2 DEF Arg

\* Bytes are limbs, and two bytes make a limb.
LEMMA BytesMakeLimb ==
    ASSUME NEW hi \in Byte, NEW lo \in Byte
    PROVE  lo \in Limb /\ hi * 256 + lo \in Limb
<1>1. hi \in Int /\ lo \in Int /\ 0 <= hi /\ hi <= 255 /\ 0 <= lo /\ lo <= 255
  BY DEF Byte
<1>2. hi * 256 + lo \in Int /\ 0 <= hi * 256 + lo /\ hi * 256 + lo <= 65535
  BY <1>1
<1> QED BY <1>1, <1>2 DEF Limb

\* The same, of the bytes of a buffer.
LEMMA WordLimb ==
    ASSUME NEW b \in Seq(Byte), NEW i \in Nat, i + 2 <= Len(b)
    PROVE  Word(b, i) \in Limb
<1>1. i + 1 \in 1 .. Len(b) /\ i + 2 \in 1 .. Len(b)
  OBVIOUS
<1>2. b[i + 1] \in Byte /\ b[i + 2] \in Byte
  BY <1>1, ElementOfSeq
<1>3. b[i + 1] * 256 + b[i + 2] \in Limb
  BY <1>2, BytesMakeLimb
<1> QED BY <1>3 DEF Word

\* The argument of a head, at any of its sizes, is a 64-bit number.
LEMMA LoadBEArg ==
    ASSUME NEW b \in Seq(Byte), NEW i \in Nat, NEW n \in {1, 2, 4, 8},
           i + n <= Len(b)
    PROVE  LoadBE(b, i, n) \in Arg
<1>1. 0 \in Limb
  BY DEF Limb
<1>2. CASE n = 1
  <2>1. b[i + 1] \in Byte
    BY <1>2, ElementOfSeq
  <2>2. b[i + 1] \in Limb
    BY <2>1, BytesMakeLimb
  <2>3. LoadBE(b, i, 1) = <<0, 0, 0, b[i + 1]>>
    BY DEF LoadBE, Small
  <2> QED BY <1>1, <2>2, <2>3, <1>2, LimbsMakeArg
<1>3. CASE n = 2
  <2>1. LoadBE(b, i, 2) = <<0, 0, 0, Word(b, i)>>
    BY DEF LoadBE, Small
  <2> QED BY <1>1, <2>1, <1>3, WordLimb, LimbsMakeArg
<1>4. CASE n = 4
  <2>1. LoadBE(b, i, 4) = <<0, 0, Word(b, i), Word(b, i + 2)>>
    BY DEF LoadBE
  <2>2. Word(b, i) \in Limb /\ Word(b, i + 2) \in Limb
    BY <1>4, WordLimb
  <2> QED BY <1>1, <2>1, <2>2, <1>4, LimbsMakeArg
<1>5. CASE n = 8
  <2>1. LoadBE(b, i, 8) = <<Word(b, i), Word(b, i + 2), Word(b, i + 4), Word(b, i + 6)>>
    BY DEF LoadBE
  <2>2. /\ Word(b, i) \in Limb /\ Word(b, i + 2) \in Limb
        /\ Word(b, i + 4) \in Limb /\ Word(b, i + 6) \in Limb
    BY <1>5, WordLimb
  <2> QED BY <2>1, <2>2, <1>5, LimbsMakeArg
<1> QED BY <1>2, <1>3, <1>4, <1>5

\* Comparing an argument with a size sees a natural number.
LEMMA AsNatNat == ASSUME NEW v \in Arg PROVE AsNat(v) \in Nat
<1>1. v[3] \in Limb /\ v[4] \in Limb
  BY DEF Arg
<1>2. v[3] \in Nat /\ v[4] \in Nat
  BY <1>1 DEF Limb
<1>3. v[3] * 65536 + v[4] \in Nat
  BY <1>2
<1> QED BY <1>3 DEF AsNat, Huge

\* What a head leaves behind: the cursor never moves back and never passes the
\* end of the buffer, and an accepted head consumes at least one byte.
LEMMA DecodeHeadCursor ==
    ASSUME NEW b \in Seq(Byte), NEW i \in 0 .. Len(b), NEW t \in BOOLEAN
    PROVE  LET h == DecodeHead(b, i, t)
           IN  /\ h.ret \in {"ok", "malformed", "unsupported"}
               /\ h.idx \in i .. Len(b)
               /\ h.ret = "ok" => h.idx > i /\ h.val \in Arg /\ AsNat(h.val) \in Nat
<1> DEFINE mt  == Major(b[i + 1])
           ai  == Info(b[i + 1])
           n   == ArgBytes(ai)
           val == IF n = 0 THEN Small(ai) ELSE LoadBE(b, i + 1, n)
           end == i + 1 + n
<1>1. CASE i >= Len(b)
  BY <1>1 DEF DecodeHead, Item
<1>2. CASE i < Len(b) /\ ai > 27
  BY <1>2 DEF DecodeHead, Item
<1>3. CASE i < Len(b) /\ ~ (ai > 27) /\ end > Len(b)
  BY <1>3 DEF DecodeHead, Item
<1>4. CASE i < Len(b) /\ ~ (ai > 27) /\ ~ (end > Len(b))
  <2>1. b[i + 1] \in Byte
    BY <1>4
  <2>2. ai \in 0 .. 31
    <3> DEFINE x == b[i + 1]
    <3>1. x \in 0 .. 255
      BY <2>1 DEF Byte
    <3> HIDE DEF x
    <3>2. x % 32 \in 0 .. 31
      BY <3>1
    <3> QED BY <3>2 DEF Info, x
  <2>3. n \in {0, 1, 2, 4, 8}
    BY <2>2 DEF ArgBytes
  <2>4. val \in Arg
    <3>1. CASE n = 0
      <4>1. 0 \in Byte /\ ai \in Byte
        <5> HIDE DEF ai
        <5> QED BY <2>2 DEF Byte
      <4>2. 0 \in Limb /\ ai \in Limb
        BY <4>1, BytesMakeLimb
      <4> QED BY <4>2, <3>1, LimbsMakeArg DEF Small
    <3>2. CASE n # 0
      <4>1. n \in {1, 2, 4, 8} /\ i + 1 \in Nat /\ (i + 1) + n <= Len(b)
        BY <1>4, <2>3, <3>2
      <4>2. LoadBE(b, i + 1, n) \in Arg
        BY <4>1, LoadBEArg
      <4> QED BY <4>2, <3>2
    <3> QED BY <3>1, <3>2
  <2>5. AsNat(val) \in Nat
    BY <2>4, AsNatNat
  <2>6. end \in (i + 1) .. Len(b)
    BY <1>4, <2>3
  <2> DEFINE refused == \/ mt = SIMPLE /\ ai = 24 /\ val[4] < 32
                        \/ mt # SIMPLE /\ ~ t /\ NonPreferred(ai, val)
  <2>7. CASE refused
    <3>1. DecodeHead(b, i, t) = Item("malformed", mt, val, <<>>, end)
      BY <2>7, <1>4 DEF DecodeHead
    <3> QED BY <3>1, <2>6 DEF Item
  <2>8. CASE ~ refused /\ mt \in {BSTR, TSTR}
    <3>1. DecodeHead(b, i, t) = DecodeString(b, mt, val, end)
      BY <2>8, <1>4 DEF DecodeHead
    <3> HIDE DEF mt, val, end
    <3> QED BY <3>1, <2>4, <2>5, <2>6 DEF DecodeString, Item
  <2>9. CASE ~ refused /\ mt \notin {BSTR, TSTR}
    <3>1. DecodeHead(b, i, t) = Item("ok", mt, val, <<>>, end)
      BY <2>9, <1>4 DEF DecodeHead
    <3> HIDE DEF mt, val, end
    <3> QED BY <3>1, <2>4, <2>5, <2>6 DEF Item
  <2> QED BY <2>7, <2>8, <2>9
<1>5. Len(b) \in Nat /\ i \in Nat
  OBVIOUS
<1>6. end > Len(b) \/ ~ (end > Len(b))
  OBVIOUS
<1> QED BY <1>1, <1>2, <1>3, <1>4, <1>5, <1>6

-----------------------------------------------------------------------------

\* The head read by a pass of the loop, in a state of the loop.
LEMMA NextItemCursor ==
    ASSUME TypeOK
    PROVE  /\ NextItem.ret \in {"ok", "malformed", "unsupported"}
           /\ NextItem.idx \in idx .. Len(buf)
           /\ NextItem.ret = "ok" => NextItem.idx > idx /\ AsNat(NextItem.val) \in Nat
<1>1. buf \in Seq(Byte) /\ idx \in 0 .. Len(buf) /\ tolerant \in BOOLEAN
  BY InputsAssumption DEF TypeOK
<1> QED BY <1>1, DecodeHeadCursor DEF NextItem

\* A count up to SIZE_MAX is not changed by narrowing it, and what narrowing leaves
\* is a count.
LEMMA NarrowCount ==
    ASSUME NEW n \in Nat
    PROVE  Narrow(n) \in Nat /\ (n <= SizeMax => Narrow(n) = n)
<1> DEFINE m == SizeMax + 1
<1>1. m \in Nat /\ m > 0 /\ (n <= SizeMax => n < m)
  BY SizeMaxAssumption
<1> HIDE DEF m
<1>2. n % m \in Nat /\ (n < m => n % m = n)
  BY <1>1
<1> QED BY <1>1, <1>2 DEF Narrow, m

\* The loop begins inside its bounds.
LEMMA InitIInv == Init => IInv
BY InputsAssumption, MaxDepthAssumption
   DEF Init, IInv, RunningMeansOk, TypeOK, SavedCountsOnly, OneHeadPerByte, Uninit

\* Each pass of the loop keeps the cursor, the stack and the head count in
\* their bounds.
LEMMA NextIInv == IInv /\ [Next]_vars => IInv'
<1> SUFFICES ASSUME IInv, [Next]_vars PROVE IInv'
  OBVIOUS
<1> USE MaxDepthAssumption DEF IInv, RunningMeansOk
<1>0. /\ buf \in Seq(Byte) /\ Len(buf) \in Nat /\ idx \in Nat /\ start \in Nat
      /\ depth \in Nat /\ remaining \in Nat /\ heads \in Nat
  BY InputsAssumption DEF TypeOK, SavedCountsOnly
<1>1. CASE HeadRefused
  BY <1>0, <1>1, NextItemCursor
     DEF HeadRefused, ReadHead, Refuse, TypeOK, SavedCountsOnly, OneHeadPerByte
<1>2. CASE SkipLeaf
  BY <1>0, <1>2, NextItemCursor
     DEF SkipLeaf, ReadHead, TypeOK, SavedCountsOnly, OneHeadPerByte
<1>3. CASE SkipTag
  BY <1>0, <1>3, NextItemCursor
     DEF SkipTag, ReadHead, TypeOK, SavedCountsOnly, OneHeadPerByte
<1>4. CASE ContainerTooDeep
  BY <1>0, <1>4, NextItemCursor
     DEF ContainerTooDeep, ReadHead, Refuse, TypeOK, SavedCountsOnly, OneHeadPerByte
<1>5. CASE CountTooLarge
  BY <1>0, <1>5, NextItemCursor
     DEF CountTooLarge, ReadHead, Refuse, TypeOK, SavedCountsOnly, OneHeadPerByte
<1>6. CASE EnterContainer
  <2>1. Children(NextItem) \in Nat
    <3>1. NextItem.ret = "ok"
      BY <1>6 DEF EnterContainer
    <3>2. AsNat(NextItem.val) \in Nat
      BY <3>1, NextItemCursor
    <3>3. 2 * AsNat(NextItem.val) \in Nat
      BY <3>2
    <3> QED BY <3>2, <3>3, NarrowCount DEF Children
  <2>2. depth \in 0 .. (MaxDepth - 1) /\ remaining - 1 \in Nat
    BY <1>0, <1>6 DEF EnterContainer, ReadHead, TypeOK
  <2>3. SavedCountsOnly'
    BY <1>0, <1>6, <2>1, <2>2 DEF EnterContainer, TypeOK, SavedCountsOnly
  <2>4. TypeOK'
    BY <1>0, <1>6, <2>1, <2>2, NextItemCursor DEF EnterContainer, ReadHead, TypeOK
  <2>5. OneHeadPerByte' /\ RunningMeansOk'
    BY <1>0, <1>6, NextItemCursor DEF EnterContainer, ReadHead, TypeOK, OneHeadPerByte
  <2> QED BY <2>3, <2>4, <2>5
<1>7. CASE Unwind
  <2>1. depth - 1 \in 0 .. (depth - 1) /\ depth - 1 \in 0 .. MaxDepth
    BY <1>0, <1>7 DEF Unwind, TypeOK
  <2>2. stack[depth - 1] \in Nat
    BY <2>1 DEF SavedCountsOnly
  <2>3. SavedCountsOnly'
    BY <1>0, <1>7, <2>1, <2>2 DEF Unwind, SavedCountsOnly
  <2>4. TypeOK' /\ OneHeadPerByte' /\ RunningMeansOk'
    BY <1>7, <2>1, <2>2 DEF Unwind, TypeOK, OneHeadPerByte
  <2> QED BY <2>3, <2>4
<1>8. CASE EndUnwind
  <2>1. TypeOK' /\ SavedCountsOnly' /\ RunningMeansOk'
    BY <1>0, <1>8 DEF EndUnwind, TypeOK, SavedCountsOnly
  <2>2. OneHeadPerByte'
    BY <1>8 DEF EndUnwind, OneHeadPerByte
  <2> QED BY <2>1, <2>2
<1>9. CASE UNCHANGED vars
  BY <1>9 DEF vars, TypeOK, SavedCountsOnly, OneHeadPerByte
<1> QED BY <1>1, <1>2, <1>3, <1>4, <1>5, <1>6, <1>7, <1>8, <1>9 DEF Next

\* The cursor stays between the start and the end of the buffer, the nesting
\* within the stack array: what wc_CBOR_SkipItem says of its result
\* ("wc_CBOR_Skip only ever advances idx, and never past bufSz").
THEOREM TypeCorrect == Spec => []TypeOK
<1>1. IInv => TypeOK
  BY DEF IInv
<1> QED BY <1>1, InitIInv, NextIInv, PTL DEF Spec

\* No count is taken from a stack slot the code has not written.
THEOREM NoUninitialisedCount == Spec => []SavedCountsOnly
<1>1. IInv => SavedCountsOnly
  BY DEF IInv
<1> QED BY <1>1, InitIInv, NextIInv, PTL DEF Spec

\* The work of a skip is bounded by the input's size, not by the counts in it.
THEOREM WorkBoundedByInput == Spec => []OneHeadPerByte
<1>1. IInv => OneHeadPerByte
  BY DEF IInv
<1> QED BY <1>1, InitIInv, NextIInv, PTL DEF Spec

\* A skip never gives back input: the position only moves forward.
THEOREM CursorOnlyAdvances == Spec => [][idx' >= idx]_vars
<1>1. IInv /\ [Next]_vars => [idx' >= idx]_vars
  <2> SUFFICES ASSUME IInv, Next PROVE idx' >= idx
    BY DEF vars
  <2>1. idx \in Nat /\ Len(buf) \in Nat /\ NextItem.idx \in idx .. Len(buf)
    BY NextItemCursor, InputsAssumption DEF IInv, TypeOK
  <2>2. CASE UNCHANGED idx
    BY <2>1, <2>2
  <2>3. CASE idx' = NextItem.idx
    BY <2>1, <2>3
  <2> QED BY <2>2, <2>3 DEF Next, HeadRefused, SkipLeaf, SkipTag, ContainerTooDeep,
             CountTooLarge, EnterContainer, Unwind, EndUnwind, ReadHead
<1> QED BY <1>1, InitIInv, NextIInv, PTL DEF Spec

-----------------------------------------------------------------------------
(* The grammar as a recursive function: it exists, for every item ends     *)
(* behind where it begins.                                                 *)

At(i, n, d) == [at |-> i, items |-> n, nest |-> d]

Ends(i) == [ret |-> "ok", idx |-> i]

Result == [ret : {"ok", "bad", "depth"}, idx : Nat]

\* n items take n bytes at least, all of them in the buffer.
Fine(b, f, p) ==
    /\ f[p] \in Result
    /\ f[p].idx >= p.at
    /\ f[p].ret = "ok" /\ p.at <= Len(b) => /\ f[p].idx >= p.at + p.items
                                            /\ f[p].idx <= Len(b)

\* A place is its three numbers.
LEMMA PlaceShape ==
    ASSUME NEW p \in Place
    PROVE  p = At(p.at, p.items, p.nest) /\ p.at \in Nat /\ p.items \in Nat /\ p.nest \in Nat
BY DEF Place, At

\* Three numbers make a place.
LEMMA AtPlace ==
    ASSUME NEW i \in Nat, NEW n \in Nat, NEW d \in Nat
    PROVE  /\ At(i, n, d) \in Place
           /\ At(i, n, d).at = i /\ At(i, n, d).items = n /\ At(i, n, d).nest = d
BY DEF Place, At

\* A head that is accepted: where it ends, and what is inside it.
LEMMA HeadInside ==
    ASSUME NEW b \in Seq(Byte), NEW i \in Nat, NEW t \in BOOLEAN,
           DecodeHead(b, i, t).ret = "ok"
    PROVE  LET h == DecodeHead(b, i, t)
           IN  /\ h.idx \in Nat /\ i < h.idx /\ h.idx <= Len(b)
               /\ Inside(h) \in Nat
               /\ IsContainer(h) <=> h.mt # TAG /\ Inside(h) > 0
               /\ IsContainer(h) => Children(h) = Narrow(Inside(h))
               /\ IsContainer(h) => AsNat(h.val) \in Nat /\ AsNat(h.val) <= Inside(h)
               /\ IsContainer(h) => Inside(h) = IF h.mt = MAP THEN 2 * AsNat(h.val)
                                                ELSE AsNat(h.val)
               /\ h.mt = TAG => Inside(h) = 1
               /\ ~ IsContainer(h) /\ h.mt # TAG => Inside(h) = 0
<1> DEFINE h == DecodeHead(b, i, t)
<1>1. i < Len(b)
  <2>1. i >= Len(b) => h = Item("malformed", UINT, Small(0), <<>>, i)
    BY DEF DecodeHead
  <2>2. Item("malformed", UINT, Small(0), <<>>, i).ret # "ok"
    BY DEF Item
  <2>3. Len(b) \in Nat
    BY LenProperties
  <2> HIDE DEF h
  <2> QED BY <2>1, <2>2, <2>3 DEF h
<1>2. h.idx \in i .. Len(b) /\ h.idx > i /\ h.val \in Arg /\ AsNat(h.val) \in Nat
  BY <1>1, DecodeHeadCursor
<1> HIDE DEF h
<1>3. AsNat(h.val) = 0 <=> h.val = Small(0)
  <2> DEFINE v == h.val
  <2>1. /\ v = <<v[1], v[2], v[3], v[4]>>
        /\ v[1] \in Limb /\ v[2] \in Limb /\ v[3] \in Limb /\ v[4] \in Limb
    BY <1>2 DEF Arg
  <2> HIDE DEF v
  <2>2. v[3] \in Nat /\ v[4] \in Nat /\ v[1] \in Nat /\ v[2] \in Nat
    BY <2>1 DEF Limb
  <2>3. v[3] * 65536 + v[4] = 0 <=> v[3] = 0 /\ v[4] = 0
    BY <2>2
  <2>4. AsNat(v) = 0 <=> v[1] = 0 /\ v[2] = 0 /\ v[3] = 0 /\ v[4] = 0
    BY <2>2, <2>3 DEF AsNat, Huge
  <2>5. v = Small(0) <=> v[1] = 0 /\ v[2] = 0 /\ v[3] = 0 /\ v[4] = 0
    BY <2>1 DEF Small
  <2> QED BY <2>4, <2>5 DEF v
<1>4. Inside(h) = IF h.mt = ARRAY THEN AsNat(h.val)
                  ELSE IF h.mt = MAP THEN 2 * AsNat(h.val)
                  ELSE IF h.mt = TAG THEN 1 ELSE 0
  BY DEF Inside, ARRAY, MAP, TAG
<1>5. ARRAY # MAP /\ ARRAY # TAG /\ MAP # TAG
  BY DEF ARRAY, MAP, TAG
<1> QED BY <1>1, <1>2, <1>3, <1>4, <1>5 DEF IsContainer, Children, h

\* The grammar with its names for the parts written out.
LEMMA EndFromIs ==
    ASSUME NEW b, NEW t, NEW f, NEW p
    PROVE  LET h     == DecodeHead(b, p.at, t)
               nest  == IF h.mt # TAG /\ Inside(h) > 0 THEN p.nest + 1 ELSE p.nest
               first == f[At(h.idx, Inside(h), nest)]
           IN  EndFrom(b, t, f, p) =
                   IF p.items = 0 THEN Ends(p.at)
                   ELSE IF h.ret # "ok" THEN [ret |-> "bad", idx |-> p.at]
                   ELSE IF nest > MaxDepth THEN [ret |-> "depth", idx |-> p.at]
                   ELSE IF first.ret # "ok" THEN first
                   ELSE f[At(first.idx, p.items - 1, p.nest)]
BY DEF EndFrom, At, Ends

\* Where the places further on end sensibly, this one does.
LEMMA EndFromFine ==
    ASSUME NEW b \in Seq(Byte), NEW t \in BOOLEAN, NEW f, NEW p \in Place,
           \A q \in Place : p.at < Len(b) /\ q.at > p.at => Fine(b, f, q),
           f[p] = EndFrom(b, t, f, p)
    PROVE  Fine(b, f, p)
<1> DEFINE h == DecodeHead(b, p.at, t)
           nest == IF h.mt # TAG /\ Inside(h) > 0 THEN p.nest + 1 ELSE p.nest
           q == At(h.idx, Inside(h), nest)
           first == f[q]
           r == At(first.idx, p.items - 1, p.nest)
<1>1. p.at \in Nat /\ p.items \in Nat /\ p.nest \in Nat /\ Len(b) \in Nat
  BY PlaceShape, LenProperties
<1>2. f[p] = IF p.items = 0 THEN Ends(p.at)
             ELSE IF h.ret # "ok" THEN [ret |-> "bad", idx |-> p.at]
             ELSE IF nest > MaxDepth THEN [ret |-> "depth", idx |-> p.at]
             ELSE IF first.ret # "ok" THEN first
             ELSE f[r]
  BY EndFromIs
<1>3. h.ret = "ok" => h.idx \in Nat /\ p.at < h.idx /\ h.idx <= Len(b) /\ Inside(h) \in Nat
  BY <1>1, HeadInside
<1> HIDE DEF h
<1>4. nest \in Nat
  BY <1>1
<1> HIDE DEF nest
<1>5. CASE p.items = 0
  BY <1>1, <1>2, <1>5 DEF Fine, Result, Ends
<1>6. CASE p.items # 0 /\ (h.ret # "ok" \/ nest > MaxDepth)
  BY <1>1, <1>2, <1>6 DEF Fine, Result
<1>7. CASE p.items # 0 /\ h.ret = "ok" /\ ~ (nest > MaxDepth)
  <2>1. q \in Place /\ q.at = h.idx /\ q.items = Inside(h)
    BY <1>3, <1>4, <1>7, AtPlace
  <2> HIDE DEF q
  <2>2. Fine(b, f, q)
    BY <1>1, <1>3, <1>7, <2>1
  <2>3. /\ first \in Result /\ first.idx \in Nat /\ first.idx > p.at
        /\ first.ret = "ok" => first.idx <= Len(b)
    BY <1>1, <1>3, <1>7, <2>1, <2>2 DEF Fine, Result
  <2> HIDE DEF first
  <2>4. CASE first.ret # "ok"
    BY <1>1, <1>2, <1>7, <2>3, <2>4 DEF Fine
  <2>5. CASE first.ret = "ok"
    <3>1. r \in Place /\ r.at = first.idx /\ r.items = p.items - 1
      <4>1. p.items - 1 \in Nat
        BY <1>1, <1>7
      <4> DEFINE n == p.items - 1
      <4> HIDE DEF n
      <4>2. n \in Nat
        BY <4>1 DEF n
      <4>3. r = At(first.idx, n, p.nest)
        BY DEF n
      <4> HIDE DEF r
      <4>4. r \in Place /\ r.at = first.idx /\ r.items = n
        <5>1. first.idx \in Nat /\ p.nest \in Nat
          BY <1>1, <2>3
        <5> QED BY <5>1, <4>2, <4>3, AtPlace
      <4> QED BY <4>4 DEF n
    <3> HIDE DEF r
    <3>2. Fine(b, f, r) /\ f[p] = f[r]
      BY <1>1, <1>2, <1>3, <1>7, <2>3, <2>5, <3>1
    <3>3. /\ f[r] \in Result /\ f[r].idx >= first.idx
          /\ f[r].ret = "ok" => f[r].idx >= first.idx + (p.items - 1) /\ f[r].idx <= Len(b)
      BY <2>3, <2>5, <3>1, <3>2 DEF Fine
    <3>4. f[r].idx \in Nat
      BY <3>3 DEF Result
    <3> QED BY <1>1, <2>3, <3>2, <3>3, <3>4 DEF Fine
  <2> QED BY <2>4, <2>5
<1> QED BY <1>5, <1>6, <1>7

\* The grammar asks only of places further on in the buffer.
LEMMA EndFromSame ==
    ASSUME NEW b \in Seq(Byte), NEW t \in BOOLEAN, NEW f, NEW g, NEW p \in Place,
           \A q \in Place : p.at < Len(b) /\ q.at > p.at => f[q] = g[q] /\ Fine(b, f, q)
    PROVE  EndFrom(b, t, f, p) = EndFrom(b, t, g, p)
<1> DEFINE h == DecodeHead(b, p.at, t)
           nest == IF h.mt # TAG /\ Inside(h) > 0 THEN p.nest + 1 ELSE p.nest
           q == At(h.idx, Inside(h), nest)
           end(first, rest) == IF p.items = 0 THEN Ends(p.at)
                               ELSE IF h.ret # "ok" THEN [ret |-> "bad", idx |-> p.at]
                               ELSE IF nest > MaxDepth THEN [ret |-> "depth", idx |-> p.at]
                               ELSE IF first.ret # "ok" THEN first
                               ELSE rest[At(first.idx, p.items - 1, p.nest)]
<1>1. p.at \in Nat /\ p.items \in Nat /\ p.nest \in Nat /\ Len(b) \in Nat
  BY PlaceShape, LenProperties
<1>2. EndFrom(b, t, f, p) = end(f[q], f) /\ EndFrom(b, t, g, p) = end(g[q], g)
  BY EndFromIs
<1>3. h.ret = "ok" => h.idx \in Nat /\ p.at < h.idx /\ h.idx <= Len(b) /\ Inside(h) \in Nat
  BY <1>1, HeadInside
<1> HIDE DEF h
<1>4. nest \in Nat
  BY <1>1
<1> HIDE DEF nest
<1> SUFFICES ASSUME p.items # 0, h.ret = "ok"
             PROVE  end(f[q], f) = end(g[q], g)
  BY <1>2
<1>5. q \in Place /\ q.at = h.idx /\ q.items = Inside(h)
  BY <1>3, <1>4, AtPlace
<1> HIDE DEF q
<1>6. p.at < Len(b) /\ q.at > p.at
  BY <1>1, <1>3, <1>5
<1>7. f[q] = g[q] /\ Fine(b, f, q)
  BY <1>5, <1>6
<1> DEFINE first == f[q]
           r == At(first.idx, p.items - 1, p.nest)
<1>8. first.idx \in Nat /\ first.idx > p.at
  BY <1>1, <1>3, <1>5, <1>7 DEF Fine, Result
<1>9. r \in Place /\ r.at = first.idx
  <2> DEFINE n == p.items - 1
  <2>1. n \in Nat
    BY <1>1
  <2> HIDE DEF first, n
  <2>2. r = At(first.idx, n, p.nest)
    BY DEF n
  <2> HIDE DEF r
  <2>3. first.idx \in Nat /\ p.nest \in Nat
    BY <1>1, <1>8
  <2> QED BY <2>1, <2>2, <2>3, AtPlace
<1>10. f[r] = g[r]
  <2> HIDE DEF r
  <2> QED BY <1>6, <1>8, <1>9
<1> QED BY <1>7, <1>10
\* Where the grammar has its say, n items take n bytes.
LEMMA AllFine ==
    ASSUME NEW b \in Seq(Byte), NEW t \in BOOLEAN, NEW f, NEW k \in Nat,
           \A p \in Place : p.at + k >= Len(b) => f[p] = EndFrom(b, t, f, p)
    PROVE  \A p \in Place : p.at + k >= Len(b) => Fine(b, f, p)
<1> DEFINE Good(j) == \A p \in Place : p.at + j >= Len(b) => Fine(b, f, p)
           T == {j \in Nat : j <= k /\ ~ Good(j)}
<1>0. Len(b) \in Nat
  BY LenProperties
<1>1. T = {}
  <2> SUFFICES ASSUME T # {} PROVE FALSE
    OBVIOUS
  <2>1. PICK j \in T : \A i \in T : j <= i
    <3>1. T \in SUBSET Nat
      OBVIOUS
    <3> HIDE DEF T
    <3> QED BY <3>1, LeastNat
  <2>2. j \in Nat /\ j <= k /\ ~ Good(j)
    BY <2>1
  <2>3. ASSUME NEW p \in Place, p.at + j >= Len(b)
        PROVE  Fine(b, f, p)
    <3>1. p.at \in Nat
      BY PlaceShape
    <3>2. f[p] = EndFrom(b, t, f, p)
      BY <2>2, <2>3, <3>1, <1>0
    <3>3. ASSUME NEW q \in Place, p.at < Len(b), q.at > p.at
          PROVE  Fine(b, f, q)
      <4>1. q.at \in Nat
        BY PlaceShape
      <4>2. j - 1 \in Nat /\ j - 1 <= k /\ j - 1 < j /\ q.at + (j - 1) >= Len(b)
        BY <1>0, <2>2, <2>3, <3>1, <3>3, <4>1
      <4>3. j - 1 \notin T
        <5> HIDE DEF T
        <5> QED BY <2>1, <2>2, <4>2
      <4>4. Good(j - 1)
        BY <4>2, <4>3
      <4> QED BY <4>2, <4>4
    <3> QED BY <3>2, <3>3, EndFromFine
  <2> QED BY <2>2, <2>3
<1>2. k \notin T
  BY <1>1
<1> QED BY <1>2

\* A function that says where items end, from its last k places on.
EndsFor(b, t, k, f) ==
    /\ f = [p \in Place |-> f[p]]
    /\ \A p \in Place : p.at + k >= Len(b) => f[p] = EndFrom(b, t, f, p)

\* So a function that answers it exists, for the last k places at least.
LEMMA EndExists ==
    ASSUME NEW b \in Seq(Byte), NEW t \in BOOLEAN
    PROVE  \A k \in Nat : \E f : EndsFor(b, t, k, f)
<1> DEFINE T == {k \in Nat : ~ \E f : EndsFor(b, t, k, f)}
<1>0. Len(b) \in Nat
  BY LenProperties
<1> SUFFICES ASSUME T # {} PROVE FALSE
  OBVIOUS
<1>1. PICK k \in T : \A j \in T : k <= j
  <2>1. T \in SUBSET Nat
    OBVIOUS
  <2> HIDE DEF T
  <2> QED BY <2>1, LeastNat
<1>2. k \in Nat /\ ~ \E f : EndsFor(b, t, k, f)
  BY <1>1
<1>3. PICK f : \A p \in Place : p.at + k >= Len(b) + 1 =>
                   f[p] = EndFrom(b, t, f, p) /\ Fine(b, f, p)
  <2>1. CASE k = 0
    <3> DEFINE first == [p \in Place |-> EndFrom(b, t, <<>>, p)]
    <3>1. ASSUME NEW p \in Place, p.at + k >= Len(b) + 1
          PROVE  first[p] = EndFrom(b, t, first, p) /\ Fine(b, first, p)
      <4>1. p.at \in Nat /\ ~ (p.at < Len(b))
        BY PlaceShape, <1>0, <2>1, <3>1
      <4>2. EndFrom(b, t, <<>>, p) = EndFrom(b, t, first, p)
        <5> HIDE DEF first
        <5> QED BY <4>1, EndFromSame
      <4>3. first[p] = EndFrom(b, t, <<>>, p)
        OBVIOUS
      <4>4. first[p] = EndFrom(b, t, first, p)
        BY <4>2, <4>3
      <4> HIDE DEF first
      <4> QED BY <4>1, <4>4, EndFromFine
    <3> QED BY <3>1
  <2>2. CASE k # 0
    <3>1. k - 1 \in Nat /\ ~ (k <= k - 1)
      BY <1>2, <2>2
    <3>2. k - 1 \notin T
      <4> HIDE DEF T
      <4> QED BY <1>1, <3>1
    <3>3. PICK f : EndsFor(b, t, k - 1, f)
      BY <3>1, <3>2
    <3>4. \A p \in Place : p.at + (k - 1) >= Len(b) => f[p] = EndFrom(b, t, f, p)
      BY <3>3 DEF EndsFor
    <3>5. \A p \in Place : p.at + (k - 1) >= Len(b) => Fine(b, f, p)
      <4> DEFINE m == k - 1
      <4>1. m \in Nat /\ \A p \in Place : p.at + m >= Len(b) => f[p] = EndFrom(b, t, f, p)
        BY <3>1, <3>4
      <4> HIDE DEF m
      <4>2. \A p \in Place : p.at + m >= Len(b) => Fine(b, f, p)
        BY <4>1, AllFine
      <4> QED BY <4>2 DEF m
    <3>6. \A p \in Place : p.at + k >= Len(b) + 1 => p.at + (k - 1) >= Len(b)
      BY PlaceShape, <1>0, <1>2
    <3> QED BY <3>4, <3>5, <3>6
  <2> QED BY <2>1, <2>2
<1> DEFINE g == [p \in Place |-> IF p.at + k >= Len(b) + 1 THEN f[p] ELSE EndFrom(b, t, f, p)]
<1>4. ASSUME NEW p \in Place, p.at + k >= Len(b)
      PROVE  g[p] = EndFrom(b, t, g, p)
  <2>1. g[p] = IF p.at + k >= Len(b) + 1 THEN f[p] ELSE EndFrom(b, t, f, p)
    OBVIOUS
  <2>2. g[p] = EndFrom(b, t, f, p)
    BY <1>3, <2>1
  <2>3. ASSUME NEW q \in Place, q.at > p.at
        PROVE  f[q] = g[q] /\ Fine(b, f, q)
    <3>1. q.at + k >= Len(b) + 1
      <4>1. p.at \in Nat /\ q.at \in Nat
        BY PlaceShape
      <4> QED BY <4>1, <1>0, <1>2, <1>4, <2>3
    <3>2. g[q] = f[q]
      BY <3>1
    <3> QED BY <1>3, <3>1, <3>2
  <2>4. EndFrom(b, t, f, p) = EndFrom(b, t, g, p)
    <3> HIDE DEF g
    <3> QED BY <2>3, EndFromSame
  <2> QED BY <2>2, <2>4
<1>5. g = [p \in Place |-> g[p]]
  OBVIOUS
<1> HIDE DEF g
<1> QED BY <1>2, <1>4, <1>5 DEF EndsFor

\* The grammar is well defined: its recursion says what it is.
LEMMA ItemsEndIs ==
    ASSUME NEW b \in Seq(Byte), NEW t \in BOOLEAN
    PROVE  \A p \in Place : /\ ItemsEnd(b, t)[p] = EndFrom(b, t, ItemsEnd(b, t), p)
                            /\ Fine(b, ItemsEnd(b, t), p)
<1> DEFINE U(f) == f = [p \in Place |-> EndFrom(b, t, f, p)]
           E == ItemsEnd(b, t)
<1>0. Len(b) \in Nat
  BY LenProperties
<1>1. E = CHOOSE f : U(f)
  BY DEF ItemsEnd
<1>2. \E f : U(f)
  <2>1. PICK f : EndsFor(b, t, Len(b), f)
    BY <1>0, EndExists
  <2>2. \A p \in Place : p.at + Len(b) >= Len(b)
    BY <1>0, PlaceShape
  <2>3. f = [p \in Place |-> f[p]] /\ \A p \in Place : f[p] = EndFrom(b, t, f, p)
    BY <2>1, <2>2 DEF EndsFor
  <2>4. [p \in Place |-> f[p]] = [p \in Place |-> EndFrom(b, t, f, p)]
    BY <2>3
  <2> QED BY <2>3, <2>4
<1>3. U(E)
  <2> HIDE DEF U, E
  <2> QED BY <1>1, <1>2
<1>4. \A p \in Place : E[p] = EndFrom(b, t, E, p)
  <2> HIDE DEF E
  <2> QED BY <1>3
<1>5. \A p \in Place : Fine(b, E, p)
  <2> HIDE DEF E
  <2>1. \A p \in Place : p.at + Len(b) >= Len(b) /\ E[p] = EndFrom(b, t, E, p)
    BY <1>0, <1>4, PlaceShape
  <2> QED BY <1>0, <2>1, AllFine
<1> QED BY <1>4, <1>5

\* The recursion, one case at a time.
Unfolds(b, t, i, n, d) ==
    LET E     == ItemsEnd(b, t)
        h     == DecodeHead(b, i, t)
        inner == E[At(h.idx, Inside(h), d + 1)]
        same  == E[At(h.idx, Inside(h), d)]
    IN  /\ n = 0 => E[At(i, n, d)] = Ends(i)
        /\ n # 0 /\ h.ret # "ok" => E[At(i, n, d)] = [ret |-> "bad", idx |-> i]
        /\ n # 0 /\ h.ret = "ok" /\ IsContainer(h) /\ d >= MaxDepth =>
               E[At(i, n, d)] = [ret |-> "depth", idx |-> i]
        /\ n # 0 /\ h.ret = "ok" /\ IsContainer(h) /\ d < MaxDepth =>
               E[At(i, n, d)] = IF inner.ret # "ok" THEN inner
                                ELSE E[At(inner.idx, n - 1, d)]
        /\ n # 0 /\ h.ret = "ok" /\ ~ IsContainer(h) =>
               E[At(i, n, d)] = IF same.ret # "ok" THEN same
                                ELSE E[At(same.idx, n - 1, d)]

\* ItemsEnd is such a function.
LEMMA Unfold ==
    ASSUME NEW b \in Seq(Byte), NEW t \in BOOLEAN,
           NEW i \in Nat, NEW n \in Nat, NEW d \in 0 .. MaxDepth
    PROVE  Unfolds(b, t, i, n, d)
<1> DEFINE E     == ItemsEnd(b, t)
           h     == DecodeHead(b, i, t)
           p     == At(i, n, d)
           nest  == IF h.mt # TAG /\ Inside(h) > 0 THEN d + 1 ELSE d
           first == E[At(h.idx, Inside(h), nest)]
<1>1. MaxDepth \in Nat /\ d \in Nat /\ d <= MaxDepth
  BY MaxDepthAssumption
<1>2. p \in Place /\ p.at = i /\ p.items = n /\ p.nest = d
  BY <1>1, AtPlace
<1>3. E[p] = EndFrom(b, t, E, p)
  <2> HIDE DEF p, E
  <2> QED BY <1>2, ItemsEndIs DEF E
<1>4. E[p] = IF n = 0 THEN Ends(i)
             ELSE IF h.ret # "ok" THEN [ret |-> "bad", idx |-> i]
             ELSE IF nest > MaxDepth THEN [ret |-> "depth", idx |-> i]
             ELSE IF first.ret # "ok" THEN first
             ELSE E[At(first.idx, n - 1, d)]
  <2> DEFINE hp == DecodeHead(b, p.at, t)
             np == IF hp.mt # TAG /\ Inside(hp) > 0 THEN p.nest + 1 ELSE p.nest
             fp == E[At(hp.idx, Inside(hp), np)]
  <2>1. EndFrom(b, t, E, p) =
             IF p.items = 0 THEN Ends(p.at)
             ELSE IF hp.ret # "ok" THEN [ret |-> "bad", idx |-> p.at]
             ELSE IF np > MaxDepth THEN [ret |-> "depth", idx |-> p.at]
             ELSE IF fp.ret # "ok" THEN fp
             ELSE E[At(fp.idx, p.items - 1, p.nest)]
    <3> HIDE DEF E, p
    <3> QED BY EndFromIs
  <2>2. hp = h
    BY <1>2
  <2> HIDE DEF hp, h
  <2>3. np = nest
    BY <1>2, <2>2
  <2> HIDE DEF np, nest
  <2>4. fp = first
    BY <2>2, <2>3
  <2> HIDE DEF fp, first, p, E
  <2> QED BY <1>2, <1>3, <2>1, <2>2, <2>3, <2>4
<1>5. h.ret = "ok" => (IsContainer(h) <=> h.mt # TAG /\ Inside(h) > 0)
  BY HeadInside
<1> HIDE DEF h, E, p
<1>6. h.ret = "ok" /\ IsContainer(h) => nest = d + 1
  BY <1>5
<1>7. h.ret = "ok" /\ ~ IsContainer(h) => nest = d
  BY <1>5
<1>8. /\ ~ (d > MaxDepth)
      /\ d >= MaxDepth <=> d + 1 > MaxDepth
      /\ d < MaxDepth <=> ~ (d >= MaxDepth)
  BY <1>1
<1>9. E[p] = E[At(i, n, d)]
  BY DEF p
<1> HIDE DEF nest
<1> QED BY <1>4, <1>6, <1>7, <1>8, <1>9 DEF E, h, Unfolds

\* What is said of a place: a result that is in the buffer if it is one.
LEMMA EndIsFine ==
    ASSUME NEW b \in Seq(Byte), NEW t \in BOOLEAN,
           NEW i \in Nat, NEW n \in Nat, NEW d \in Nat
    PROVE  LET r == ItemsEnd(b, t)[At(i, n, d)]
           IN  /\ r \in Result /\ r.idx \in Nat
               /\ r.ret = "ok" => r = Ends(r.idx)
               /\ r.ret = "ok" /\ i <= Len(b) => r.idx >= i + n /\ r.idx <= Len(b)
<1> DEFINE E == ItemsEnd(b, t)
           p == At(i, n, d)
           r == E[p]
<1>1. p \in Place /\ p.at = i /\ p.items = n
  BY AtPlace
<1> HIDE DEF p
<1>2. Fine(b, E, p)
  BY <1>1, ItemsEndIs
<1> HIDE DEF E
<1>3. r \in Result /\ (r.ret = "ok" /\ i <= Len(b) => r.idx >= i + n /\ r.idx <= Len(b))
  BY <1>1, <1>2 DEF Fine
<1> HIDE DEF r
<1>4. r.idx \in Nat /\ (r.ret = "ok" => r = Ends(r.idx))
  BY <1>3 DEF Result, Ends
<1> QED BY <1>3, <1>4 DEF r, E, p

\* No items end where they begin.
LEMMA NoItemsEnd ==
    ASSUME NEW b \in Seq(Byte), NEW t \in BOOLEAN, NEW i \in Nat, NEW d \in 0 .. MaxDepth
    PROVE  ItemsEnd(b, t)[At(i, 0, d)] = Ends(i)
<1> DEFINE n == 0
<1>1. n \in Nat /\ n = 0
  OBVIOUS
<1> HIDE DEF n
<1>2. Unfolds(b, t, i, n, d)
  BY <1>1, Unfold
<1>3. ItemsEnd(b, t)[At(i, n, d)] = Ends(i)
  BY <1>1, <1>2 DEF Unfolds
<1> QED BY <1>1, <1>3

\* Several items are one and then the rest.
LEMMA OneThenRest ==
    ASSUME NEW b \in Seq(Byte), NEW t \in BOOLEAN,
           NEW i \in Nat, NEW n \in Nat, n # 0, NEW d \in 0 .. MaxDepth
    PROVE  LET E   == ItemsEnd(b, t)
               one == E[At(i, 1, d)]
           IN  E[At(i, n, d)] = IF one.ret # "ok" THEN one ELSE E[At(one.idx, n - 1, d)]
<1> DEFINE E     == ItemsEnd(b, t)
           h     == DecodeHead(b, i, t)
           inner == E[At(h.idx, Inside(h), d + 1)]
           same  == E[At(h.idx, Inside(h), d)]
           one   == E[At(i, 1, d)]
           all   == E[At(i, n, d)]
<1>1. MaxDepth \in Nat /\ d \in Nat /\ 1 \in Nat /\ 1 # 0 /\ d + 1 \in Nat
  BY MaxDepthAssumption
<1>2. ASSUME NEW m \in Nat, m # 0
      PROVE  /\ h.ret # "ok" => E[At(i, m, d)] = [ret |-> "bad", idx |-> i]
             /\ h.ret = "ok" /\ IsContainer(h) /\ d >= MaxDepth =>
                      E[At(i, m, d)] = [ret |-> "depth", idx |-> i]
             /\ h.ret = "ok" /\ IsContainer(h) /\ d < MaxDepth =>
                      E[At(i, m, d)] = IF inner.ret # "ok" THEN inner
                                       ELSE E[At(inner.idx, m - 1, d)]
             /\ h.ret = "ok" /\ ~ IsContainer(h) =>
                      E[At(i, m, d)] = IF same.ret # "ok" THEN same
                                       ELSE E[At(same.idx, m - 1, d)]
  <2>1. Unfolds(b, t, i, m, d)
    BY <1>2, Unfold
  <2> QED BY <1>2, <2>1 DEF Unfolds
<1>3. \A j \in Nat : E[At(j, 0, d)] = Ends(j)
  BY NoItemsEnd
<1>4. h.ret = "ok" => inner.idx \in Nat /\ same.idx \in Nat
  <2>1. h.ret = "ok" => h.idx \in Nat /\ Inside(h) \in Nat
    BY HeadInside
  <2> HIDE DEF h
  <2> QED BY <1>1, <2>1, EndIsFine
<1> HIDE DEF h, E
<1>5. Ends(inner.idx).ret = "ok" /\ Ends(inner.idx).idx = inner.idx
      /\ Ends(same.idx).ret = "ok" /\ Ends(same.idx).idx = same.idx
  BY DEF Ends
<1>6. CASE h.ret # "ok"
  <2>1. one = [ret |-> "bad", idx |-> i] /\ all = [ret |-> "bad", idx |-> i]
    BY <1>1, <1>2, <1>6
  <2> QED BY <2>1 DEF E
<1>7. CASE h.ret = "ok" /\ IsContainer(h) /\ d >= MaxDepth
  <2>1. one = [ret |-> "depth", idx |-> i] /\ all = [ret |-> "depth", idx |-> i]
    BY <1>1, <1>2, <1>7
  <2> QED BY <2>1 DEF E
<1>8. CASE h.ret = "ok" /\ IsContainer(h) /\ d < MaxDepth
  <2>1. one = IF inner.ret # "ok" THEN inner ELSE E[At(inner.idx, 0, d)]
    BY <1>1, <1>2, <1>8
  <2>2. all = IF inner.ret # "ok" THEN inner ELSE E[At(inner.idx, n - 1, d)]
    BY <1>2, <1>8
  <2> HIDE DEF inner, one, all
  <2>3. one = IF inner.ret # "ok" THEN inner ELSE Ends(inner.idx)
    BY <1>3, <1>4, <1>8, <2>1
  <2>4. all = IF one.ret # "ok" THEN one ELSE E[At(one.idx, n - 1, d)]
    BY <1>5, <2>2, <2>3
  <2> QED BY <2>4 DEF E, one, all
<1>9. CASE h.ret = "ok" /\ ~ IsContainer(h)
  <2>1. one = IF same.ret # "ok" THEN same ELSE E[At(same.idx, 0, d)]
    BY <1>1, <1>2, <1>9
  <2>2. all = IF same.ret # "ok" THEN same ELSE E[At(same.idx, n - 1, d)]
    BY <1>2, <1>9
  <2> HIDE DEF same, one, all
  <2>3. one = IF same.ret # "ok" THEN same ELSE Ends(same.idx)
    BY <1>3, <1>4, <1>9, <2>1
  <2>4. all = IF one.ret # "ok" THEN one ELSE E[At(one.idx, n - 1, d)]
    BY <1>5, <2>2, <2>3
  <2> QED BY <2>4 DEF E, one, all
<1> QED BY <1>1, <1>6, <1>7, <1>8, <1>9

-----------------------------------------------------------------------------
(* The loop follows the recursion: each level left to the stack goes on    *)
(* where the one inside it ends.                                           *)

Then(r, level) == IF r.ret = "ok" THEN level[r.idx] ELSE r

\* The levels on the stack, from the outermost in.
Levels(b, t, stk, d, level) ==
    /\ level[0] = [i \in Nat |-> Ends(i)]
    /\ \A k \in 1 .. d :
           level[k] = [i \in Nat |->
                          Then(ItemsEnd(b, t)[At(i, stk[k - 1], k - 1)], level[k - 1])]

\* What is left, n items from i on and then the levels on the stack, ends so.
LeftEnds(b, t, stk, d, i, n, end) ==
    \E level : /\ Levels(b, t, stk, d, level)
               /\ Then(ItemsEnd(b, t)[At(i, n, d)], level[d]) = end

\* At the start there is one item and no level above it.
LEMMA StartFollows ==
    ASSUME NEW b \in Seq(Byte), NEW t \in BOOLEAN, NEW stk, NEW i \in Nat
    PROVE  LeftEnds(b, t, stk, 0, i, 1, ItemsEnd(b, t)[At(i, 1, 0)])
<1> DEFINE e == ItemsEnd(b, t)[At(i, 1, 0)]
           level == [k \in {0} |-> [j \in Nat |-> Ends(j)]]
<1>1. Levels(b, t, stk, 0, level)
  BY DEF Levels
<1>2. e.idx \in Nat /\ (e.ret = "ok" => e = Ends(e.idx))
  BY EndIsFine
<1>3. level[0] = [j \in Nat |-> Ends(j)]
  OBVIOUS
<1> HIDE DEF level, e
<1>4. Then(e, level[0]) = e
  BY <1>2, <1>3 DEF Then
<1> QED BY <1>1, <1>4 DEF LeftEnds, e

\* What is left may end at once.
LEMMA SameLeft ==
    ASSUME NEW b, NEW t, NEW stk, NEW d, NEW i, NEW n, NEW j, NEW m, NEW end,
           LeftEnds(b, t, stk, d, i, n, end),
           ItemsEnd(b, t)[At(i, n, d)] = ItemsEnd(b, t)[At(j, m, d)]
    PROVE  LeftEnds(b, t, stk, d, j, m, end)
BY DEF LeftEnds

\* What is refused ends there, whatever the levels above.
LEMMA RefusedEnds ==
    ASSUME NEW b, NEW t, NEW stk, NEW d, NEW i, NEW n, NEW end,
           LeftEnds(b, t, stk, d, i, n, end),
           ItemsEnd(b, t)[At(i, n, d)].ret # "ok"
    PROVE  end = ItemsEnd(b, t)[At(i, n, d)]
BY DEF LeftEnds, Then

\* A head with nothing inside is one item less.
LEMMA LeafFollows ==
    ASSUME NEW b \in Seq(Byte), NEW t \in BOOLEAN, NEW stk, NEW d \in 0 .. MaxDepth,
           NEW i \in Nat, NEW n \in Nat, n # 0, NEW end,
           LeftEnds(b, t, stk, d, i, n, end),
           DecodeHead(b, i, t).ret = "ok", DecodeHead(b, i, t).mt # TAG,
           ~ IsContainer(DecodeHead(b, i, t))
    PROVE  LeftEnds(b, t, stk, d, DecodeHead(b, i, t).idx, n - 1, end)
<1> DEFINE E == ItemsEnd(b, t)
           h == DecodeHead(b, i, t)
           same == E[At(h.idx, Inside(h), d)]
<1>1. Inside(h) = 0 /\ h.idx \in Nat
  BY HeadInside
<1>2. E[At(i, n, d)] = IF same.ret # "ok" THEN same ELSE E[At(same.idx, n - 1, d)]
  <2>1. Unfolds(b, t, i, n, d)
    BY Unfold
  <2> QED BY <2>1 DEF Unfolds
<1> HIDE DEF h
<1>3. same = Ends(h.idx)
  BY <1>1, NoItemsEnd
<1>4. Ends(h.idx).ret = "ok" /\ Ends(h.idx).idx = h.idx
  BY DEF Ends
<1> HIDE DEF same, E
<1>5. E[At(i, n, d)] = E[At(h.idx, n - 1, d)]
  BY <1>2, <1>3, <1>4
<1> QED BY <1>5, SameLeft DEF E, h

\* A tag leaves as many items as there were.
LEMMA TagFollows ==
    ASSUME NEW b \in Seq(Byte), NEW t \in BOOLEAN, NEW stk, NEW d \in 0 .. MaxDepth,
           NEW i \in Nat, NEW n \in Nat, n # 0, NEW end,
           LeftEnds(b, t, stk, d, i, n, end),
           DecodeHead(b, i, t).ret = "ok", DecodeHead(b, i, t).mt = TAG
    PROVE  LeftEnds(b, t, stk, d, DecodeHead(b, i, t).idx, n, end)
<1> DEFINE E == ItemsEnd(b, t)
           h == DecodeHead(b, i, t)
           same == E[At(h.idx, Inside(h), d)]
           one == E[At(h.idx, 1, d)]
<1>1. Inside(h) = 1 /\ h.idx \in Nat
  BY HeadInside
<1>2. E[At(i, n, d)] = IF same.ret # "ok" THEN same ELSE E[At(same.idx, n - 1, d)]
  <2>1. ~ IsContainer(h)
    BY DEF IsContainer, TAG, ARRAY, MAP
  <2>2. Unfolds(b, t, i, n, d)
    BY Unfold
  <2> QED BY <2>1, <2>2 DEF Unfolds
<1> HIDE DEF h
<1>3. same = one
  BY <1>1
<1>4. E[At(h.idx, n, d)] = IF one.ret # "ok" THEN one ELSE E[At(one.idx, n - 1, d)]
  BY <1>1, OneThenRest
<1> HIDE DEF same, one, E
<1>5. E[At(i, n, d)] = E[At(h.idx, n, d)]
  BY <1>2, <1>3, <1>4
<1> QED BY <1>5, SameLeft DEF E, h

\* A level that is done gives way to the one it is in.
LEMMA UnwindFollows ==
    ASSUME NEW b \in Seq(Byte), NEW t \in BOOLEAN, NEW stk, NEW d \in 1 .. MaxDepth,
           NEW i \in Nat, NEW end,
           LeftEnds(b, t, stk, d, i, 0, end)
    PROVE  LeftEnds(b, t, stk, d - 1, i, stk[d - 1], end)
<1> DEFINE E == ItemsEnd(b, t)
<1>1. PICK level : Levels(b, t, stk, d, level) /\ Then(E[At(i, 0, d)], level[d]) = end
  BY DEF LeftEnds
<1>2. E[At(i, 0, d)] = Ends(i) /\ Ends(i).ret = "ok" /\ Ends(i).idx = i
  <2>1. d \in 0 .. MaxDepth
    BY MaxDepthAssumption
  <2> QED BY <2>1, NoItemsEnd DEF Ends
<1>3. level[d][i] = end
  <2> HIDE DEF E
  <2> QED BY <1>1, <1>2 DEF Then
<1>4. level[d] = [j \in Nat |-> Then(E[At(j, stk[d - 1], d - 1)], level[d - 1])]
  BY <1>1, MaxDepthAssumption DEF Levels
<1>5. Levels(b, t, stk, d - 1, level)
  BY <1>1, MaxDepthAssumption DEF Levels
<1> HIDE DEF E
<1>6. Then(E[At(i, stk[d - 1], d - 1)], level[d - 1]) = end
  BY <1>3, <1>4
<1> QED BY <1>5, <1>6 DEF LeftEnds, E

\* With no level left, what is left ends here.
LEMMA LastEnds ==
    ASSUME NEW b \in Seq(Byte), NEW t \in BOOLEAN, NEW stk, NEW i \in Nat, NEW end,
           LeftEnds(b, t, stk, 0, i, 0, end)
    PROVE  end = Ends(i)
<1> DEFINE E == ItemsEnd(b, t)
<1>1. PICK level : Levels(b, t, stk, 0, level) /\ Then(E[At(i, 0, 0)], level[0]) = end
  BY DEF LeftEnds
<1>2. E[At(i, 0, 0)] = Ends(i) /\ Ends(i).ret = "ok" /\ Ends(i).idx = i
  <2>1. 0 \in 0 .. MaxDepth
    BY MaxDepthAssumption
  <2> QED BY <2>1, NoItemsEnd DEF Ends
<1>3. level[0][i] = Ends(i)
  BY <1>1 DEF Levels
<1> HIDE DEF E
<1> QED BY <1>1, <1>2, <1>3 DEF Then

\* A container puts off what is left of its level.
LEMMA ContainerFollows ==
    ASSUME NEW b \in Seq(Byte), NEW t \in BOOLEAN, NEW stk, NEW stk2,
           NEW d \in 0 .. MaxDepth, d < MaxDepth,
           NEW i \in Nat, NEW n \in Nat, n # 0, NEW end,
           LeftEnds(b, t, stk, d, i, n, end),
           DecodeHead(b, i, t).ret = "ok", IsContainer(DecodeHead(b, i, t)),
           \A k \in 0 .. (d - 1) : stk2[k] = stk[k],
           stk2[d] = n - 1
    PROVE  LeftEnds(b, t, stk2, d + 1, DecodeHead(b, i, t).idx,
                    Inside(DecodeHead(b, i, t)), end)
<1> DEFINE E == ItemsEnd(b, t)
           h == DecodeHead(b, i, t)
           inner == E[At(h.idx, Inside(h), d + 1)]
<1>0. d \in Nat /\ d + 1 \in Nat /\ MaxDepth \in Nat
  BY MaxDepthAssumption
<1>1. PICK level : Levels(b, t, stk, d, level) /\ Then(E[At(i, n, d)], level[d]) = end
  BY DEF LeftEnds
<1> DEFINE new == [j \in Nat |-> Then(E[At(j, n - 1, d)], level[d])]
           more == [k \in 0 .. (d + 1) |-> IF k = d + 1 THEN new ELSE level[k]]
<1>2. E[At(i, n, d)] = IF inner.ret # "ok" THEN inner ELSE E[At(inner.idx, n - 1, d)]
  <2>1. Unfolds(b, t, i, n, d)
    BY Unfold
  <2> QED BY <2>1 DEF Unfolds
<1>3. inner.idx \in Nat
  <2>1. h.idx \in Nat /\ Inside(h) \in Nat
    BY HeadInside
  <2> HIDE DEF h
  <2> QED BY <1>0, <2>1, EndIsFine
<1>4. Levels(b, t, stk2, d + 1, more)
  <2>1. more[0] = [j \in Nat |-> Ends(j)]
    <3>1. level[0] = [j \in Nat |-> Ends(j)]
      BY <1>1 DEF Levels
    <3>2. more[0] = level[0]
      BY <1>0
    <3> QED BY <3>1, <3>2
  <2>2. ASSUME NEW k \in 1 .. (d + 1)
        PROVE  more[k] = [j \in Nat |-> Then(E[At(j, stk2[k - 1], k - 1)], more[k - 1])]
    <3>1. CASE k = d + 1
      <4>1. k - 1 = d /\ d # d + 1
        BY <1>0, <3>1
      <4>2. more[k] = new /\ more[k - 1] = level[d]
        BY <1>0, <3>1, <4>1
      <4> HIDE DEF more, E
      <4> QED BY <4>1, <4>2
    <3>2. CASE k # d + 1
      <4>1. k \in 1 .. d /\ k - 1 \in 0 .. (d - 1) /\ k - 1 # d + 1
        BY <1>0, <3>2
      <4>2. more[k] = level[k] /\ more[k - 1] = level[k - 1] /\ stk2[k - 1] = stk[k - 1]
        BY <1>0, <4>1
      <4>3. level[k] = [j \in Nat |-> Then(E[At(j, stk[k - 1], k - 1)], level[k - 1])]
        BY <1>1, <4>1 DEF Levels
      <4> HIDE DEF more, E
      <4> QED BY <4>2, <4>3
    <3> QED BY <3>1, <3>2
  <2> HIDE DEF more
  <2> QED BY <2>1, <2>2 DEF Levels
<1>5. more[d + 1] = new
  BY <1>0
<1> HIDE DEF more, inner, E
<1>6. Then(inner, more[d + 1]) = end
  <2>1. CASE inner.ret # "ok"
    BY <1>1, <1>2, <2>1 DEF Then
  <2>2. CASE inner.ret = "ok"
    <3>1. new[inner.idx] = Then(E[At(inner.idx, n - 1, d)], level[d])
      BY <1>3
    <3> HIDE DEF new
    <3> QED BY <1>1, <1>2, <1>5, <2>2, <3>1 DEF Then
  <2> QED BY <2>1, <2>2
<1> QED BY <1>4, <1>6 DEF LeftEnds, inner, E, h

\* A count that is not refused is a size_t, and one that is refused announces more
\* items than there are bytes.
LEMMA CountBounds ==
    ASSUME IInv, NextItem.ret = "ok", IsContainer(NextItem)
    PROVE  /\ TooMany(NextItem) => Inside(NextItem) > Len(buf)
           /\ ~ TooMany(NextItem) => Children(NextItem) = Inside(NextItem)
<1> DEFINE n == AsNat(NextItem.val)
           items == Inside(NextItem)
           isMap == NextItem.mt = MAP
<1>1. buf \in Seq(Byte) /\ tolerant \in BOOLEAN /\ idx \in Nat /\ Len(buf) \in Nat
  BY InputsAssumption DEF IInv, TypeOK
<1>2. SizeMax \in Nat /\ Len(buf) <= SizeMax
  BY SizeMaxAssumption DEF IInv, TypeOK
<1>3. n \in Nat /\ items \in Nat /\ items = IF isMap THEN 2 * n ELSE n
  BY <1>1, HeadInside DEF NextItem
<1>4. Children(NextItem) = Narrow(items)
  BY <1>1, HeadInside DEF NextItem
<1>5. TooMany(NextItem) <=> n > Len(buf) \/ (isMap /\ n > SizeMax \div 2)
  BY DEF TooMany
<1> HIDE DEF n, items, isMap
<1>6. TooMany(NextItem) => items > Len(buf)
  BY <1>1, <1>2, <1>3, <1>5
<1>7. ~ TooMany(NextItem) => items <= SizeMax
  BY <1>1, <1>2, <1>3, <1>5
<1>8. ~ TooMany(NextItem) => Narrow(items) = items
  BY <1>3, <1>7, NarrowCount
<1> QED BY <1>4, <1>6, <1>8 DEF items

\* More items than there are bytes are not all there.
LEMMA CountRefused ==
    ASSUME NEW b \in Seq(Byte), NEW t \in BOOLEAN, NEW d \in 0 .. MaxDepth, d < MaxDepth,
           NEW i \in Nat, NEW n \in Nat, n # 0,
           DecodeHead(b, i, t).ret = "ok", IsContainer(DecodeHead(b, i, t)),
           Inside(DecodeHead(b, i, t)) > Len(b)
    PROVE  ItemsEnd(b, t)[At(i, n, d)].ret # "ok"
<1> DEFINE E == ItemsEnd(b, t)
           h == DecodeHead(b, i, t)
           inner == E[At(h.idx, Inside(h), d + 1)]
<1>0. d + 1 \in Nat /\ Len(b) \in Nat
  BY MaxDepthAssumption, LenProperties
<1>1. h.idx \in Nat /\ h.idx <= Len(b) /\ Inside(h) \in Nat
  BY HeadInside
<1>2. E[At(i, n, d)] = IF inner.ret # "ok" THEN inner ELSE E[At(inner.idx, n - 1, d)]
  <2>1. Unfolds(b, t, i, n, d)
    BY Unfold
  <2> QED BY <2>1 DEF Unfolds
<1>3. Inside(h) > Len(b)
  OBVIOUS
<1> HIDE DEF h, E
<1>4. inner.idx \in Nat
      /\ (inner.ret = "ok" => inner.idx >= h.idx + Inside(h) /\ inner.idx <= Len(b))
  BY <1>0, <1>1, EndIsFine DEF E
<1> HIDE DEF inner
<1>5. inner.ret # "ok"
  BY <1>0, <1>1, <1>3, <1>4
<1> QED BY <1>2, <1>5 DEF E

\* The strengthening: while the loop runs, what is left of its levels ends where
\* the one item does, and fails as it does.
Following == pc # "done" => LeftEnds(buf, tolerant, stack, depth, idx, remaining, OneItem)

\* What a pass over a head may rely on.
LEMMA AtHead ==
    ASSUME IInv, Following, ReadHead
    PROVE  /\ buf \in Seq(Byte) /\ tolerant \in BOOLEAN /\ idx \in Nat /\ idx <= Len(buf)
           /\ remaining \in Nat /\ remaining # 0 /\ depth \in 0 .. MaxDepth
           /\ LeftEnds(buf, tolerant, stack, depth, idx, remaining, OneItem)
           /\ idx' = NextItem.idx /\ ret = "ok"
           /\ buf' = buf /\ tolerant' = tolerant /\ OneItem' = OneItem
<1>1. buf \in Seq(Byte) /\ tolerant \in BOOLEAN /\ idx \in 0 .. Len(buf)
  BY InputsAssumption DEF IInv, TypeOK
<1>2. remaining \in Nat /\ remaining # 0 /\ depth \in 0 .. MaxDepth /\ pc = "head"
  BY DEF IInv, TypeOK, SavedCountsOnly, ReadHead
<1>3. LeftEnds(buf, tolerant, stack, depth, idx, remaining, OneItem)
  BY <1>2 DEF Following
<1>4. ret = "ok"
  BY <1>2 DEF IInv, RunningMeansOk
<1>5. idx' = NextItem.idx /\ buf' = buf /\ tolerant' = tolerant /\ start' = start
  BY DEF ReadHead
<1>6. OneItem' = OneItem
  BY <1>5 DEF OneItem
<1> QED BY <1>1, <1>2, <1>3, <1>4, <1>5, <1>6

\* The loop begins at the one item.
LEMMA InitFollowing == Init => Following /\ SkipsExactlyOneItem
<1> SUFFICES ASSUME Init PROVE Following /\ SkipsExactlyOneItem
  OBVIOUS
<1>1. buf \in Seq(Byte) /\ tolerant \in BOOLEAN /\ start \in Nat
  BY InputsAssumption DEF Init
<1>2. depth = 0 /\ remaining = 1 /\ idx = start /\ pc = "head"
  BY DEF Init
<1>3. LeftEnds(buf, tolerant, stack, 0, start, 1, OneItem)
  <2>1. OneItem = ItemsEnd(buf, tolerant)[At(start, 1, 0)]
    BY DEF OneItem, At
  <2> QED BY <1>1, <2>1, StartFollows
<1> QED BY <1>2, <1>3 DEF Following, SkipsExactlyOneItem

\* One pass of the loop keeps step with the recursion.
LEMMA NextFollowing ==
    ASSUME IInv, Following, SkipsExactlyOneItem, [Next]_vars
    PROVE  Following' /\ SkipsExactlyOneItem'
<1> DEFINE h == NextItem
           here == ItemsEnd(buf, tolerant)[At(idx, remaining, depth)]
<1>1. CASE HeadRefused
  <2>1. ReadHead /\ h.ret # "ok" /\ ret' = h.ret /\ pc' = "done"
    BY <1>1 DEF HeadRefused, Refuse
  <2>2. h = DecodeHead(buf, idx, tolerant) /\ h.ret # "depth"
    <3>1. h.ret \in {"ok", "malformed", "unsupported"}
      BY NextItemCursor DEF IInv
    <3> QED BY <3>1 DEF NextItem
  <2>3. here = [ret |-> "bad", idx |-> idx]
    <3>1. Unfolds(buf, tolerant, idx, remaining, depth)
      BY <2>1, AtHead, Unfold
    <3> QED BY <2>1, <2>2, <3>1, AtHead DEF Unfolds
  <2>4. here.ret = "bad"
    BY <2>3
  <2>5. OneItem.ret = "bad"
    <3>1. OneItem = here
      <4>1. here.ret # "ok"
        BY <2>4
      <4> QED BY <2>1, <4>1, AtHead, RefusedEnds
    <3> QED BY <2>4, <3>1
  <2>6. OneItem'.ret = "bad"
    BY <2>1, <2>5, AtHead
  <2> QED BY <2>1, <2>2, <2>6 DEF Following, SkipsExactlyOneItem
<1>2. CASE SkipLeaf
  <2>1. /\ ReadHead /\ h.ret = "ok" /\ h.mt # TAG /\ ~ IsContainer(h)
        /\ remaining' = remaining - 1 /\ pc' = "unwind" /\ stack' = stack /\ depth' = depth
    BY <1>2 DEF SkipLeaf
  <2>2. LeftEnds(buf, tolerant, stack, depth, h.idx, remaining - 1, OneItem)
    BY <2>1, AtHead, LeafFollows DEF NextItem
  <2>3. Following'
    BY <2>1, <2>2, AtHead DEF Following
  <2> QED BY <2>1, <2>3 DEF SkipsExactlyOneItem
<1>3. CASE SkipTag
  <2>1. /\ ReadHead /\ h.ret = "ok" /\ h.mt = TAG
        /\ remaining' = (remaining - 1) + 1 /\ pc' = "unwind" /\ stack' = stack /\ depth' = depth
    BY <1>3 DEF SkipTag
  <2>2. remaining' = remaining
    BY <2>1, AtHead
  <2>3. LeftEnds(buf, tolerant, stack, depth, h.idx, remaining, OneItem)
    BY <2>1, AtHead, TagFollows DEF NextItem
  <2>4. Following'
    BY <2>1, <2>2, <2>3, AtHead DEF Following
  <2> QED BY <2>1, <2>4 DEF SkipsExactlyOneItem
<1>4. CASE ContainerTooDeep
  <2>1. ReadHead /\ h.ret = "ok" /\ IsContainer(h) /\ depth >= MaxDepth
        /\ ret' = "depth" /\ pc' = "done"
    BY <1>4 DEF ContainerTooDeep, Refuse
  <2>2. here = [ret |-> "depth", idx |-> idx]
    <3>1. Unfolds(buf, tolerant, idx, remaining, depth)
      BY <2>1, AtHead, Unfold
    <3> QED BY <2>1, <3>1, AtHead DEF Unfolds, NextItem
  <2>3. here.ret = "depth"
    BY <2>2
  <2>4. OneItem.ret = "depth"
    <3>1. OneItem = here
      <4>1. here.ret # "ok"
        BY <2>3
      <4> QED BY <2>1, <4>1, AtHead, RefusedEnds
    <3> QED BY <2>3, <3>1
  <2>5. OneItem'.ret = "depth"
    BY <2>1, <2>4, AtHead
  <2> QED BY <2>1, <2>5 DEF Following, SkipsExactlyOneItem
<1>5. CASE CountTooLarge
  <2>1. ReadHead /\ h.ret = "ok" /\ IsContainer(h) /\ depth < MaxDepth
        /\ Inside(h) > Len(buf) /\ ret' = "malformed" /\ pc' = "done"
    BY <1>5, CountBounds DEF CountTooLarge, Refuse
  <2>2. here.ret # "ok"
    BY <2>1, AtHead, CountRefused DEF NextItem
  <2>3. OneItem = here
    BY <2>1, <2>2, AtHead, RefusedEnds
  <2>4. OneItem'.ret # "ok"
    BY <2>1, <2>2, <2>3, AtHead
  <2> QED BY <2>1, <2>4 DEF Following, SkipsExactlyOneItem
<1>6. CASE EnterContainer
  <2>1. /\ ReadHead /\ h.ret = "ok" /\ IsContainer(h) /\ depth < MaxDepth
        /\ stack' = [stack EXCEPT ![depth] = remaining - 1]
        /\ depth' = depth + 1 /\ remaining' = Children(h) /\ pc' = "unwind"
    BY <1>6 DEF EnterContainer
  <2>2. Children(h) = Inside(h)
    BY <1>6, CountBounds DEF EnterContainer
  <2>3. stack'[depth] = remaining - 1 /\ \A k \in 0 .. (depth - 1) : stack'[k] = stack[k]
    <3>1. stack \in [0 .. (MaxDepth - 1) -> Nat \cup {Uninit}]
      BY DEF IInv, TypeOK
    <3>2. depth \in 0 .. (MaxDepth - 1)
          /\ \A k \in 0 .. (depth - 1) : k \in 0 .. (MaxDepth - 1) /\ k # depth
      BY <2>1, AtHead, MaxDepthAssumption
    <3> QED BY <2>1, <3>1, <3>2
  <2>4. LeftEnds(buf, tolerant, stack', depth + 1, h.idx, Inside(h), OneItem)
    BY <2>1, <2>3, AtHead, ContainerFollows DEF NextItem
  <2>5. Following'
    BY <2>1, <2>2, <2>4, AtHead DEF Following
  <2> QED BY <2>1, <2>5 DEF SkipsExactlyOneItem
<1>7. CASE Unwind
  <2>1. /\ pc = "unwind" /\ remaining = 0 /\ depth > 0 /\ depth' = depth - 1
        /\ remaining' = stack[depth - 1]
        /\ UNCHANGED <<buf, tolerant, start, idx, stack, pc>>
    BY <1>7 DEF Unwind
  <2>2. /\ buf \in Seq(Byte) /\ tolerant \in BOOLEAN /\ idx \in Nat /\ depth \in 1 .. MaxDepth
    BY <2>1, InputsAssumption, MaxDepthAssumption DEF IInv, TypeOK
  <2>3. LeftEnds(buf, tolerant, stack, depth, idx, 0, OneItem)
    BY <2>1 DEF Following
  <2>4. LeftEnds(buf, tolerant, stack, depth - 1, idx, stack[depth - 1], OneItem)
    BY <2>2, <2>3, UnwindFollows
  <2>5. OneItem' = OneItem
    BY <2>1 DEF OneItem
  <2> QED BY <2>1, <2>4, <2>5 DEF Following, SkipsExactlyOneItem
<1>8. CASE EndUnwind
  <2>1. /\ pc = "unwind" /\ ~ (remaining = 0 /\ depth > 0)
        /\ pc' = IF remaining > 0 THEN "head" ELSE "done"
        /\ UNCHANGED <<buf, tolerant, start, idx, stack, depth, remaining, ret>>
    BY <1>8 DEF EndUnwind
  <2>2. LeftEnds(buf, tolerant, stack, depth, idx, remaining, OneItem)
    BY <2>1 DEF Following
  <2>3. OneItem' = OneItem
    BY <2>1 DEF OneItem
  <2>4. Following'
    BY <2>1, <2>2, <2>3 DEF Following
  <2>5. CASE remaining > 0
    BY <2>1, <2>4, <2>5 DEF SkipsExactlyOneItem
  <2>6. CASE ~ (remaining > 0)
    <3>1. /\ buf \in Seq(Byte) /\ tolerant \in BOOLEAN /\ idx \in Nat
          /\ remaining \in Nat /\ depth \in Nat /\ ret = "ok"
      BY <2>1, InputsAssumption, MaxDepthAssumption
         DEF IInv, TypeOK, SavedCountsOnly, RunningMeansOk
    <3>2. remaining = 0 /\ depth = 0
      BY <2>1, <2>6, <3>1
    <3>3. OneItem = Ends(idx)
      BY <2>2, <3>1, <3>2, LastEnds
    <3>4. OneItem'.ret = "ok" /\ OneItem'.idx = idx
      <4>1. Ends(idx).ret = "ok" /\ Ends(idx).idx = idx
        BY DEF Ends
      <4> QED BY <2>3, <3>3, <4>1
    <3>5. ret' = "ok" /\ idx' = idx
      BY <2>1, <3>1
    <3> QED BY <2>4, <3>4, <3>5 DEF SkipsExactlyOneItem
  <2> QED BY <2>5, <2>6
<1>9. CASE UNCHANGED vars
  <2>1. UNCHANGED <<buf, tolerant, start, idx, stack, depth, remaining, ret, pc>>
    BY <1>9 DEF vars
  <2>2. OneItem' = OneItem
    BY <2>1 DEF OneItem
  <2> QED BY <2>1, <2>2 DEF Following, SkipsExactlyOneItem
<1> QED BY <1>1, <1>2, <1>3, <1>4, <1>5, <1>6, <1>7, <1>8, <1>9 DEF Next

\* Skip accepts just what the grammar accepts and stops right behind the item,
\* at any input and any nesting limit: what the header, key and claims parsers
\* rely on for every label they do not know.
THEOREM SkipFollowsGrammar == Spec => []SkipsExactlyOneItem
<1>1. Init => IInv /\ Following /\ SkipsExactlyOneItem
  BY InitIInv, InitFollowing
<1>2. IInv /\ Following /\ SkipsExactlyOneItem /\ [Next]_vars
      => (IInv /\ Following /\ SkipsExactlyOneItem)'
  BY NextIInv, NextFollowing
<1> QED BY <1>1, <1>2, PTL DEF Spec

-----------------------------------------------------------------------------
(* The encoder and the typed decoders.                                     *)

-----------------------------------------------------------------------------
(* Arguments of 64 bits, limb by limb.                                     *)

\* An argument, limb by limb.
LEMMA ArgLimbs ==
    ASSUME NEW v \in Arg
    PROVE  /\ v[1] \in Int /\ 0 <= v[1] /\ v[1] <= 65535
           /\ v[2] \in Int /\ 0 <= v[2] /\ v[2] <= 65535
           /\ v[3] \in Int /\ 0 <= v[3] /\ v[3] <= 65535
           /\ v[4] \in Int /\ 0 <= v[4] /\ v[4] <= 65535
           /\ v = <<v[1], v[2], v[3], v[4]>>
<1>1. \A k \in 1 .. 4 : v[k] \in Limb
  BY DEF Arg
<1>2. v[1] \in Limb /\ v[2] \in Limb /\ v[3] \in Limb /\ v[4] \in Limb
  BY <1>1
<1>3. v = <<v[1], v[2], v[3], v[4]>>
  BY DEF Arg
<1> QED BY <1>2, <1>3 DEF Limb

\* Four limbs make an argument.
LEMMA ArgOfLimbs ==
    ASSUME NEW w1 \in Limb, NEW w2 \in Limb,
           NEW w3 \in Limb, NEW w4 \in Limb
    PROVE  <<w1, w2, w3, w4>> \in Arg
<1> DEFINE v == <<w1, w2, w3, w4>>
<1>1. \A k \in 1 .. 4 : v[k] \in Limb
  OBVIOUS
<1>2. v = [k \in 1 .. 4 |-> v[k]]
  OBVIOUS
<1> QED BY <1>1, <1>2 DEF Arg

\* A limb as an argument.
LEMMA SmallArg ==
    ASSUME NEW n \in Limb
    PROVE  /\ Small(n) \in Arg
           /\ Small(n)[1] = 0 /\ Small(n)[2] = 0
           /\ Small(n)[3] = 0 /\ Small(n)[4] = n
<1>1. 0 \in Limb
  BY DEF Limb
<1>2. <<0, 0, 0, n>> \in Arg
  BY <1>1, ArgOfLimbs
<1> QED BY <1>2 DEF Small

\* A length below the cap is what the argument made of it stands for.
LEMMA SizeArgIs ==
    ASSUME NEW n \in Nat, n < Huge
    PROVE  /\ SizeArg(n) \in Arg
           /\ AsNat(SizeArg(n)) = n
<1> DEFINE hi == n \div 65536
           lo == n % 65536
<1>1. /\ hi \in Nat /\ hi < 256 /\ lo \in Nat /\ lo <= 65535
      /\ hi * 65536 + lo = n
  BY DEF Huge
<1> HIDE DEF hi, lo
<1>2. 0 \in Limb /\ hi \in Limb /\ lo \in Limb
  BY <1>1 DEF Limb
<1>3. <<0, 0, hi, lo>> \in Arg
  BY <1>2, ArgOfLimbs
<1>4. AsNat(<<0, 0, hi, lo>>) = n
  BY <1>1 DEF AsNat
<1> QED BY <1>3, <1>4 DEF SizeArg, hi, lo

\* An argument that a buffer's size reaches is made of its value.
LEMMA SizeArgOf ==
    ASSUME NEW v \in Arg
    PROVE  /\ AsNat(v) \in Nat
           /\ AsNat(v) < Huge => SizeArg(AsNat(v)) = v
<1>1. CASE v[1] = 0 /\ v[2] = 0 /\ v[3] < 256
  <2> DEFINE n == v[3] * 65536 + v[4]
  <2>1. n \in Nat /\ n \div 65536 = v[3] /\ n % 65536 = v[4]
    BY <1>1, ArgLimbs
  <2>2. AsNat(v) = n
    BY <1>1 DEF AsNat
  <2>3. <<0, 0, n \div 65536, n % 65536>> = v
    <3> HIDE DEF n
    <3>1. v = <<v[1], v[2], v[3], v[4]>>
      BY ArgLimbs
    <3> QED BY <1>1, <2>1, <3>1
  <2> QED BY <2>1, <2>2, <2>3 DEF SizeArg
<1>2. CASE ~ (v[1] = 0 /\ v[2] = 0 /\ v[3] < 256)
  BY <1>2 DEF AsNat, Huge
<1> QED BY <1>1, <1>2

\* The complement of an argument, limb by limb.
LEMMA ComplementIs ==
    ASSUME NEW v \in Arg
    PROVE  /\ Complement(v) \in Arg
           /\ \A k \in 1 .. 4 : Complement(v)[k] = 65535 - v[k]
           /\ Complement(Complement(v)) = v
           /\ Negative(Complement(v)) <=> ~ Negative(v)
<1> DEFINE c == Complement(v)
<1>1. \A k \in 1 .. 4 : v[k] \in Int /\ 0 <= v[k] /\ v[k] <= 65535
  BY DEF Arg, Limb
<1>2. c = [k \in 1 .. 4 |-> 65535 - v[k]]
  BY DEF Complement
<1>3. \A k \in 1 .. 4 : c[k] = 65535 - v[k] /\ c[k] \in Limb
  BY <1>1, <1>2 DEF Limb
<1>4. c \in Arg
  BY <1>2, <1>3 DEF Arg
<1>5. Complement(c) = v
  <2>1. \A k \in 1 .. 4 : 65535 - c[k] = v[k]
    BY <1>1, <1>3
  <2>2. v = [k \in 1 .. 4 |-> v[k]]
    BY DEF Arg
  <2> HIDE DEF c
  <2> QED BY <2>1, <2>2 DEF Complement
<1>6. Negative(c) <=> ~ Negative(v)
  <2>1. c[1] = 65535 - v[1] /\ v[1] \in Int
    BY <1>1, <1>3
  <2> HIDE DEF c
  <2> QED BY <2>1 DEF Negative
<1> QED BY <1>3, <1>4, <1>5, <1>6

\* A limb and its carry.
LEMMA LimbPlus ==
    ASSUME NEW x \in Int, 0 <= x, x <= 65535, NEW c
    PROVE  (x + IF c THEN 1 ELSE 0) % 65536 =
               IF c THEN IF x = 65535 THEN 0 ELSE x + 1 ELSE x
<1>1. CASE c
  <2>1. (x + 1) % 65536 = IF x = 65535 THEN 0 ELSE x + 1
    OBVIOUS
  <2> QED BY <1>1, <2>1
<1>2. CASE ~ c
  <2>1. (x + 0) % 65536 = x
    OBVIOUS
  <2> QED BY <1>2, <2>1
<1> QED BY <1>1, <1>2

\* What an addition of one leaves in each limb.
LEMMA AddOneIs ==
    ASSUME NEW v \in Arg
    PROVE  LET up == AddOne(v)
               c3 == v[4] = 65535
               c2 == v[3] = 65535 /\ v[4] = 65535
               c1 == v[2] = 65535 /\ v[3] = 65535 /\ v[4] = 65535
           IN  /\ up \in Arg
               /\ up[4] = IF v[4] = 65535 THEN 0 ELSE v[4] + 1
               /\ up[3] = IF c3 THEN IF v[3] = 65535 THEN 0 ELSE v[3] + 1 ELSE v[3]
               /\ up[2] = IF c2 THEN IF v[2] = 65535 THEN 0 ELSE v[2] + 1 ELSE v[2]
               /\ up[1] = IF c1 THEN IF v[1] = 65535 THEN 0 ELSE v[1] + 1 ELSE v[1]
<1> DEFINE up == AddOne(v)
           carry(i) == \A j \in (i + 1) .. 4 : v[j] = 65535
           lifted(i) == IF carry(i) THEN IF v[i] = 65535 THEN 0 ELSE v[i] + 1 ELSE v[i]
<1>1. \A k \in 1 .. 4 : v[k] \in Int /\ 0 <= v[k] /\ v[k] <= 65535
  BY DEF Arg, Limb
<1>2. up = [i \in 1 .. 4 |-> (v[i] + IF carry(i) THEN 1 ELSE 0) % 65536]
  BY DEF AddOne
<1>3. ASSUME NEW i \in 1 .. 4
      PROVE  up[i] = lifted(i)
  <2> DEFINE x == v[i]
             c == carry(i)
  <2>1. x \in Int /\ 0 <= x /\ x <= 65535
    BY <1>1
  <2>2. up[i] = (x + IF c THEN 1 ELSE 0) % 65536
    BY <1>2
  <2> HIDE DEF x, c
  <2>3. (x + IF c THEN 1 ELSE 0) % 65536 = IF c THEN IF x = 65535 THEN 0 ELSE x + 1 ELSE x
    BY <2>1, LimbPlus
  <2> QED BY <2>2, <2>3 DEF x, c
<1>4. /\ carry(4) /\ carry(3) <=> v[4] = 65535
      /\ carry(2) <=> v[3] = 65535 /\ v[4] = 65535
      /\ carry(1) <=> v[2] = 65535 /\ v[3] = 65535 /\ v[4] = 65535
  OBVIOUS
<1>5. up = [i \in 1 .. 4 |-> up[i]]
  BY <1>2
<1>6. \A i \in 1 .. 4 : up[i] \in Limb
  <2> TAKE i \in 1 .. 4
  <2>1. v[i] \in Int /\ 0 <= v[i] /\ v[i] <= 65535
    BY <1>1
  <2>2. up[i] = lifted(i)
    BY <1>3
  <2> HIDE DEF up, carry
  <2> QED BY <2>1, <2>2 DEF Limb
<1> HIDE DEF up, carry
<1>7. up \in Arg
  BY <1>5, <1>6 DEF Arg
<1>8. up[1] = lifted(1) /\ up[2] = lifted(2) /\ up[3] = lifted(3) /\ up[4] = lifted(4)
  BY <1>3
<1>9. carry(4)
  BY DEF carry
<1> QED BY <1>4, <1>7, <1>8, <1>9 DEF up

\* -(n + 1) is the complement of n, whichever limbs the additions carry through.
LEMMA NegativeArgIs ==
    ASSUME NEW v \in Arg
    PROVE  NegativeArg(v) = Complement(v)
<1> DEFINE up   == AddOne(v)
           down == Complement(up)
           neg  == AddOne(down)
<1>1. /\ v[1] \in Int /\ 0 <= v[1] /\ v[1] <= 65535
      /\ v[2] \in Int /\ 0 <= v[2] /\ v[2] <= 65535
      /\ v[3] \in Int /\ 0 <= v[3] /\ v[3] <= 65535
      /\ v[4] \in Int /\ 0 <= v[4] /\ v[4] <= 65535
  BY ArgLimbs
<1>2. /\ up \in Arg
      /\ up[4] = IF v[4] = 65535 THEN 0 ELSE v[4] + 1
      /\ up[3] = IF v[4] = 65535 THEN IF v[3] = 65535 THEN 0 ELSE v[3] + 1 ELSE v[3]
      /\ up[2] = IF v[3] = 65535 /\ v[4] = 65535
                  THEN IF v[2] = 65535 THEN 0 ELSE v[2] + 1 ELSE v[2]
      /\ up[1] = IF v[2] = 65535 /\ v[3] = 65535 /\ v[4] = 65535
                  THEN IF v[1] = 65535 THEN 0 ELSE v[1] + 1 ELSE v[1]
  BY AddOneIs
<1> HIDE DEF up
<1>3. /\ down \in Arg
      /\ down[1] = 65535 - up[1] /\ down[2] = 65535 - up[2]
      /\ down[3] = 65535 - up[3] /\ down[4] = 65535 - up[4]
  BY <1>2, ComplementIs
<1> HIDE DEF down
<1>4. /\ neg \in Arg
      /\ neg[4] = IF down[4] = 65535 THEN 0 ELSE down[4] + 1
      /\ neg[3] = IF down[4] = 65535 THEN IF down[3] = 65535 THEN 0 ELSE down[3] + 1 ELSE down[3]
      /\ neg[2] = IF down[3] = 65535 /\ down[4] = 65535
                  THEN IF down[2] = 65535 THEN 0 ELSE down[2] + 1 ELSE down[2]
      /\ neg[1] = IF down[2] = 65535 /\ down[3] = 65535 /\ down[4] = 65535
                  THEN IF down[1] = 65535 THEN 0 ELSE down[1] + 1 ELSE down[1]
  BY <1>3, AddOneIs
<1>5. neg = [k \in 1 .. 4 |-> neg[k]]
  BY <1>4 DEF Arg
<1> HIDE DEF neg
<1>6. neg[4] = 65535 - v[4]
  BY <1>1, <1>2, <1>3, <1>4
<1>7. neg[3] = 65535 - v[3]
  BY <1>1, <1>2, <1>3, <1>4
<1>8. neg[2] = 65535 - v[2]
  BY <1>1, <1>2, <1>3, <1>4
<1>9. neg[1] = 65535 - v[1]
  BY <1>1, <1>2, <1>3, <1>4
<1>10. \A k \in 1 .. 4 : neg[k] = 65535 - v[k]
  BY <1>6, <1>7, <1>8, <1>9
<1> QED BY <1>5, <1>10 DEF NegativeArg, Negate, Complement, neg, down, up

-----------------------------------------------------------------------------
(* The head that an argument is given.                                     *)

HighByte(w) == w \div 256
LowByte(w)  == w % 256

\* Two bytes of a limb, the high one first.
LEMMA BE16Is == ASSUME NEW w PROVE BE16(w) = <<HighByte(w), LowByte(w)>>
BY DEF BE16, HighByte, LowByte

\* They are bytes, and the limb is the two of them.
LEMMA Bytes16 ==
    ASSUME NEW w \in Limb
    PROVE  /\ HighByte(w) \in Byte /\ LowByte(w) \in Byte
           /\ HighByte(w) * 256 + LowByte(w) = w
<1> DEFINE hi == HighByte(w)
           lo == LowByte(w)
<1>1. w \in Nat /\ w < 65536
  BY DEF Limb
<1>2. hi \in Nat /\ hi < 256 /\ lo \in Nat /\ lo < 256 /\ hi * 256 + lo = w
  BY <1>1 DEF HighByte, LowByte
<1> HIDE DEF hi, lo
<1>3. hi \in Byte /\ lo \in Byte /\ hi * 256 + lo = w
  BY <1>2 DEF Byte
<1> QED BY <1>3 DEF hi, lo

\* Two short strings of bytes, one behind the other.
LEMMA TwoAndTwo ==
    ASSUME NEW a \in Byte, NEW b \in Byte,
           NEW c \in Byte, NEW d \in Byte
    PROVE  /\ <<a, b, c, d>> \in Seq(Byte)
           /\ <<a, b>> \o <<c, d>> = <<a, b, c, d>>
<1> DEFINE s == <<a, b>>
           t == <<c, d>>
           u == <<a, b, c, d>>
<1>1. /\ s \in Seq(Byte) /\ Len(s) = 2 /\ s[1] = a /\ s[2] = b
      /\ t \in Seq(Byte) /\ Len(t) = 2 /\ t[1] = c /\ t[2] = d
      /\ u \in Seq(Byte) /\ Len(u) = 4
      /\ u[1] = a /\ u[2] = b /\ u[3] = c /\ u[4] = d
  OBVIOUS
<1> HIDE DEF s, t, u
<1>2. /\ s \o t \in Seq(Byte) /\ Len(s \o t) = Len(s) + Len(t)
      /\ \A i \in 1 .. Len(s) + Len(t) :
            (s \o t)[i] = IF i <= Len(s) THEN s[i] ELSE t[i - Len(s)]
  BY <1>1, ConcatProperties
<1>3. /\ Len(s \o t) = 4
      /\ (s \o t)[1] = a /\ (s \o t)[2] = b /\ (s \o t)[3] = c /\ (s \o t)[4] = d
  BY <1>1, <1>2
<1>4. \A i \in 1 .. 4 : (s \o t)[i] = u[i]
  BY <1>1, <1>3
<1>5. s \o t = u
  BY <1>1, <1>2, <1>3, <1>4, SeqEqual
<1> QED BY <1>1, <1>5 DEF s, t, u

\* Two times four bytes are eight.
LEMMA FourAndFour ==
    ASSUME NEW s \in Seq(Byte), Len(s) = 4, NEW t \in Seq(Byte), Len(t) = 4
    PROVE  /\ <<s[1], s[2], s[3], s[4], t[1], t[2], t[3], t[4]>> \in Seq(Byte)
           /\ s \o t = <<s[1], s[2], s[3], s[4], t[1], t[2], t[3], t[4]>>
<1> DEFINE u == <<s[1], s[2], s[3], s[4], t[1], t[2], t[3], t[4]>>
<1>1. /\ s[1] \in Byte /\ s[2] \in Byte
      /\ s[3] \in Byte /\ s[4] \in Byte
      /\ t[1] \in Byte /\ t[2] \in Byte
      /\ t[3] \in Byte /\ t[4] \in Byte
  <2>1. \A k \in 1 .. 4 : s[k] \in Byte /\ t[k] \in Byte
    BY ElementOfSeq
  <2> QED BY <2>1
<1>2. /\ u \in Seq(Byte) /\ Len(u) = 8
      /\ u[1] = s[1] /\ u[2] = s[2] /\ u[3] = s[3] /\ u[4] = s[4]
      /\ u[5] = t[1] /\ u[6] = t[2] /\ u[7] = t[3] /\ u[8] = t[4]
  BY <1>1
<1> HIDE DEF u
<1>3. /\ s \o t \in Seq(Byte) /\ Len(s \o t) = Len(s) + Len(t)
      /\ \A i \in 1 .. Len(s) + Len(t) :
            (s \o t)[i] = IF i <= Len(s) THEN s[i] ELSE t[i - Len(s)]
  BY ConcatProperties
<1>4. /\ Len(s \o t) = 8
      /\ (s \o t)[1] = s[1] /\ (s \o t)[2] = s[2] /\ (s \o t)[3] = s[3] /\ (s \o t)[4] = s[4]
      /\ (s \o t)[5] = t[1] /\ (s \o t)[6] = t[2] /\ (s \o t)[7] = t[3] /\ (s \o t)[8] = t[4]
  BY <1>3
<1>5. \A i \in 1 .. 8 : (s \o t)[i] = u[i]
  BY <1>2, <1>4
<1>6. s \o t = u
  BY <1>2, <1>3, <1>4, <1>5, SeqEqual
<1> QED BY <1>2, <1>6 DEF u

\* So many bytes follow the initial byte of the shortest head.
Width(v) == IF v[1] = 0 /\ v[2] = 0 /\ v[3] = 0
            THEN IF v[4] <= 23 THEN 0 ELSE IF v[4] <= 255 THEN 1 ELSE 2
            ELSE IF v[1] = 0 /\ v[2] = 0 THEN 4 ELSE 8

\* The bytes of an argument when so many follow, and the low bits that say so.
Tail8(v) == <<HighByte(v[1]), LowByte(v[1]), HighByte(v[2]), LowByte(v[2]),
              HighByte(v[3]), LowByte(v[3]), HighByte(v[4]), LowByte(v[4])>>
Tail4(v) == <<HighByte(v[3]), LowByte(v[3]), HighByte(v[4]), LowByte(v[4])>>

\* The low half of an argument, byte by byte.
LEMMA BE32Is ==
    ASSUME NEW v \in Arg
    PROVE  BE32(v) = Tail4(v) /\ Tail4(v) \in Seq(Byte)
<1>1. v[3] \in Limb /\ v[4] \in Limb
  BY DEF Arg
<1> DEFINE a == HighByte(v[3])  b == LowByte(v[3])  c == HighByte(v[4])  d == LowByte(v[4])
<1>2. BE16(v[3]) = <<a, b>> /\ BE16(v[4]) = <<c, d>>
  BY <1>1, BE16Is
<1>3. a \in Byte /\ b \in Byte /\ c \in Byte /\ d \in Byte
  BY Zenon, <1>1, Bytes16
<1> HIDE DEF a, b, c, d
<1>4. <<a, b>> \o <<c, d>> = <<a, b, c, d>> /\ <<a, b, c, d>> \in Seq(Byte)
  BY <1>3, TwoAndTwo
<1> QED BY <1>2, <1>4 DEF BE32, Tail4, a, b, c, d

\* A whole argument, byte by byte.
LEMMA BE64Is ==
    ASSUME NEW v \in Arg
    PROVE  BE64(v) = Tail8(v) /\ Tail8(v) \in Seq(Byte)
<1>1. v[1] \in Limb /\ v[2] \in Limb
  BY DEF Arg
<1> DEFINE a == HighByte(v[1])  b == LowByte(v[1])  c == HighByte(v[2])  d == LowByte(v[2])
           e == HighByte(v[3])  f == LowByte(v[3])  g == HighByte(v[4])  h == LowByte(v[4])
<1>2. BE16(v[1]) = <<a, b>> /\ BE16(v[2]) = <<c, d>>
  BY <1>1, BE16Is
<1>3. a \in Byte /\ b \in Byte /\ c \in Byte /\ d \in Byte
  BY Zenon, <1>1, Bytes16
<1>4. v[3] \in Limb /\ v[4] \in Limb
  BY DEF Arg
<1>5. e \in Byte /\ f \in Byte /\ g \in Byte /\ h \in Byte
  BY Zenon, <1>4, Bytes16
<1>6. BE32(v) = <<e, f, g, h>>
  BY BE32Is DEF Tail4
<1> HIDE DEF a, b, c, d, e, f, g, h
<1>7. <<a, b>> \o <<c, d>> = <<a, b, c, d>> /\ <<a, b, c, d>> \in Seq(Byte)
  BY <1>3, TwoAndTwo
<1>8. <<e, f, g, h>> \in Seq(Byte)
  BY <1>5, TwoAndTwo
<1> DEFINE s == <<a, b, c, d>>
           t == <<e, f, g, h>>
<1>9. /\ Len(s) = 4 /\ s[1] = a /\ s[2] = b /\ s[3] = c /\ s[4] = d
      /\ Len(t) = 4 /\ t[1] = e /\ t[2] = f /\ t[3] = g /\ t[4] = h
  OBVIOUS
<1>10. s \in Seq(Byte) /\ t \in Seq(Byte)
  BY <1>7, <1>8
<1> HIDE DEF s, t
<1>11. /\ <<s[1], s[2], s[3], s[4], t[1], t[2], t[3], t[4]>> \in Seq(Byte)
       /\ s \o t = <<s[1], s[2], s[3], s[4], t[1], t[2], t[3], t[4]>>
  BY <1>9, <1>10, FourAndFour
<1>12. /\ <<a, b, c, d, e, f, g, h>> \in Seq(Byte)
       /\ s \o t = <<a, b, c, d, e, f, g, h>>
  BY <1>9, <1>11
<1>13. s \o t = (<<a, b>> \o <<c, d>>) \o <<e, f, g, h>>
  BY <1>7 DEF s, t
<1>14. BE64(v) = (<<a, b>> \o <<c, d>>) \o <<e, f, g, h>>
  BY <1>2, <1>6 DEF BE64
<1>15. /\ BE64(v) = <<a, b, c, d, e, f, g, h>>
       /\ <<a, b, c, d, e, f, g, h>> \in Seq(Byte)
  BY <1>12, <1>13, <1>14
<1>16. Tail8(v) = <<a, b, c, d, e, f, g, h>>
  BY Zenon DEF Tail8, a, b, c, d, e, f, g, h
<1> QED BY <1>15, <1>16

\* One byte in front of a tail.
LEMMA InFront ==
    ASSUME NEW x \in Byte, NEW s \in Seq(Byte)
    PROVE  LET h == <<x>> \o s
           IN  /\ h \in Seq(Byte) /\ Len(h) = 1 + Len(s) /\ h[1] = x
               /\ \A k \in 1 .. Len(s) : h[1 + k] = s[k]
<1>1. <<x>> \in Seq(Byte) /\ Len(<<x>>) = 1 /\ <<x>>[1] = x
  OBVIOUS
<1>2. Len(s) \in Nat
  BY LenProperties
<1> DEFINE o == <<x>>
<1> HIDE DEF o
<1>3. /\ o \o s \in Seq(Byte) /\ Len(o \o s) = 1 + Len(s)
      /\ \A i \in 1 .. 1 + Len(s) : (o \o s)[i] = IF i <= 1 THEN o[1] ELSE s[i - 1]
  <2>1. /\ o \o s \in Seq(Byte) /\ Len(o \o s) = Len(o) + Len(s)
        /\ \A i \in 1 .. Len(o) + Len(s) :
              (o \o s)[i] = IF i <= Len(o) THEN o[i] ELSE s[i - Len(o)]
    BY <1>1, ConcatProperties DEF o
  <2>2. Len(o) = 1
    BY <1>1 DEF o
  <2> QED BY <1>2, <2>1, <2>2
<1>4. (o \o s)[1] = x
  BY <1>1, <1>2, <1>3 DEF o
<1>5. \A k \in 1 .. Len(s) : (o \o s)[1 + k] = s[k]
  BY <1>2, <1>3
<1> QED BY <1>3, <1>4, <1>5 DEF o

\* The initial byte of a major type says the type and the low bits.
LEMMA InitialByte ==
    ASSUME NEW mt \in Int, 0 <= mt, mt <= 7, NEW ai \in Int, 0 <= ai, ai <= 31
    PROVE  /\ 32 * mt + ai \in Byte
           /\ Major(32 * mt + ai) = mt /\ Info(32 * mt + ai) = ai
<1>1. 32 * mt + ai \in Int /\ 0 <= 32 * mt + ai /\ 32 * mt + ai <= 255
  OBVIOUS
<1>2. (32 * mt + ai) \div 32 = mt /\ (32 * mt + ai) % 32 = ai
  OBVIOUS
<1> QED BY <1>1, <1>2 DEF Byte, Major, Info

\* The first n bytes of s stand behind position i.
Spelt(b, i, s, n) == \A k \in 1 .. n : b[i + k] = s[k]

\* What is read of a tail is the argument that it was made from.
LEMMA LoadTail8 ==
    ASSUME NEW v \in Arg, NEW s, NEW i \in Nat,
           Spelt(s, i, Tail8(v), 8)
    PROVE  LoadBE(s, i, 8) = v
<1>1. /\ v[1] \in Limb /\ v[2] \in Limb
      /\ v[3] \in Limb /\ v[4] \in Limb
  BY DEF Arg
<1>2. /\ s[i + 1] = HighByte(v[1]) /\ s[i + 2] = LowByte(v[1])
      /\ s[i + 3] = HighByte(v[2]) /\ s[i + 4] = LowByte(v[2])
      /\ s[i + 5] = HighByte(v[3]) /\ s[i + 6] = LowByte(v[3])
      /\ s[i + 7] = HighByte(v[4]) /\ s[i + 8] = LowByte(v[4])
  BY DEF Tail8, Spelt
<1>3. s[i + 1] * 256 + s[i + 2] = v[1]
  BY <1>1, <1>2, Bytes16
<1>4. s[i + 3] * 256 + s[i + 4] = v[2]
  BY <1>1, <1>2, Bytes16
<1>5. s[i + 5] * 256 + s[i + 6] = v[3]
  BY <1>1, <1>2, Bytes16
<1>6. s[i + 7] * 256 + s[i + 8] = v[4]
  BY <1>1, <1>2, Bytes16
<1>7. /\ Word(s, i) = v[1] /\ Word(s, i + 2) = v[2]
      /\ Word(s, i + 4) = v[3] /\ Word(s, i + 6) = v[4]
  BY <1>3, <1>4, <1>5, <1>6 DEF Word
<1>8. LoadBE(s, i, 8) = <<Word(s, i), Word(s, i + 2),
                                Word(s, i + 4), Word(s, i + 6)>>
  BY DEF LoadBE
<1> QED BY <1>7, <1>8, ArgLimbs

\* The low half of an argument is loaded from its bytes.
LEMMA LoadTail4 ==
    ASSUME NEW v \in Arg, NEW s, NEW i \in Nat,
           Spelt(s, i, Tail4(v), 4)
    PROVE  LoadBE(s, i, 4) = <<0, 0, v[3], v[4]>>
<1>1. v[3] \in Limb /\ v[4] \in Limb
  BY DEF Arg
<1>2. /\ s[i + 1] = HighByte(v[3]) /\ s[i + 2] = LowByte(v[3])
      /\ s[i + 3] = HighByte(v[4]) /\ s[i + 4] = LowByte(v[4])
  BY DEF Tail4, Spelt
<1>3. s[i + 1] * 256 + s[i + 2] = v[3]
  BY <1>1, <1>2, Bytes16
<1>4. s[i + 3] * 256 + s[i + 4] = v[4]
  BY <1>1, <1>2, Bytes16
<1>5. Word(s, i) = v[3] /\ Word(s, i + 2) = v[4]
  BY <1>3, <1>4 DEF Word
<1>6. LoadBE(s, i, 4) = <<0, 0, Word(s, i), Word(s, i + 2)>>
  BY DEF LoadBE
<1> QED BY <1>5, <1>6

\* So is a limb.
LEMMA LoadTail2 ==
    ASSUME NEW w \in Limb, NEW s, NEW i \in Nat,
           s[i + 1] = HighByte(w), s[i + 2] = LowByte(w)
    PROVE  LoadBE(s, i, 2) = Small(w)
<1>1. s[i + 1] * 256 + s[i + 2] = w
  BY Bytes16
<1>2. LoadBE(s, i, 2) = Small(Word(s, i))
  BY DEF LoadBE
<1> QED BY <1>1, <1>2 DEF Word

\* The five forms of a head.
LEMMA HeadOfIs ==
    ASSUME NEW mt, NEW v \in Arg
    PROVE  LET h == HeadOf(mt, v)
           IN  /\ Width(v) = 0 => h = <<32 * mt + v[4]>>
               /\ Width(v) = 1 => h = <<32 * mt + 24, v[4]>>
               /\ Width(v) = 2 => h = <<32 * mt + 25>> \o BE16(v[4])
               /\ Width(v) = 4 => h = <<32 * mt + 26>> \o BE32(v)
               /\ Width(v) = 8 => h = <<32 * mt + 27>> \o BE64(v)
<1>1. /\ v[1] \in Int /\ 0 <= v[1] /\ v[2] \in Int /\ 0 <= v[2]
      /\ v[3] \in Int /\ 0 <= v[3] /\ v[4] \in Int /\ 0 <= v[4]
  BY ArgLimbs
<1> DEFINE three == \A i \in 1 .. 3 : v[i] = 0
           two   == \A i \in 1 .. 2 : v[i] = 0
<1>2. three <=> v[1] = 0 /\ v[2] = 0 /\ v[3] = 0
  OBVIOUS
<1>3. two <=> v[1] = 0 /\ v[2] = 0
  OBVIOUS
<1> DEFINE a == <<32 * mt + v[4]>>
           b == <<32 * mt + 24, v[4]>>
           c == <<32 * mt + 25>> \o BE16(v[4])
           d == <<32 * mt + 26>> \o BE32(v)
           e == <<32 * mt + 27>> \o BE64(v)
<1>4. HeadOf(mt, v) = CASE three /\ v[4] <= 23 -> a
                              [] three /\ v[4] \in 24 .. 255 -> b
                              [] three /\ v[4] > 255 -> c
                              [] two /\ v[3] > 0 -> d
                              [] OTHER -> e
  BY Zenon DEF HeadOf
<1> HIDE DEF three, two, a, b, c, d, e
<1>5. HeadOf(mt, v) = IF three THEN IF v[4] <= 23 THEN a ELSE IF v[4] <= 255 THEN b ELSE c
                            ELSE IF two THEN d ELSE e
  BY <1>1, <1>2, <1>3, <1>4
<1> DEFINE h == HeadOf(mt, v)
<1> HIDE DEF h
<1>6. /\ Width(v) = 0 => h = a
      /\ Width(v) = 1 => h = b
      /\ Width(v) = 2 => h = c
      /\ Width(v) = 4 => h = d
      /\ Width(v) = 8 => h = e
  BY <1>1, <1>2, <1>3, <1>5 DEF Width, h
<1> QED BY <1>6 DEF a, b, c, d, e, h

-----------------------------------------------------------------------------
(* The cursor of the head decoder.                                         *)

\* What the calls rely on: a head moves the cursor on, within the buffer.
LEMMA CursorOfHead ==
    ASSUME NEW b \in Seq(Byte), NEW i \in 0 .. Len(b), NEW t \in BOOLEAN
    PROVE  LET h == DecodeHead(b, i, t)
           IN  /\ h.ret \in {"ok", "malformed", "unsupported"}
               /\ h.idx \in i .. Len(b)
               /\ h.ret = "ok" => h.idx > i /\ h.val \in Arg
BY DecodeHeadCursor

-----------------------------------------------------------------------------
(* Reading a head.                                                         *)

Found(buffer, mt, v, i) ==
    IF mt \in {BSTR, TSTR} THEN DecodeString(buffer, mt, v, i)
    ELSE Item("ok", mt, v, <<>>, i)

\* A head in the shortest form, or of a simple value, is accepted.
LEMMA ReadsHead ==
    ASSUME NEW b, NEW p \in Nat, NEW t, Len(b) \in Nat,
           NEW mt, NEW ai, NEW n \in Nat, NEW v,
           Major(b[p + 1]) = mt, Info(b[p + 1]) = ai, ai \in Int, ai <= 27,
           ArgBytes(ai) = n, p + 1 + n <= Len(b),
           v = IF n = 0 THEN Small(ai) ELSE LoadBE(b, p + 1, n),
           ~ (mt = SIMPLE /\ ai = 24), mt = SIMPLE \/ ~ NonPreferred(ai, v)
    PROVE  DecodeHead(b, p, t) = Found(b, mt, v, p + 1 + n)
<1>1. ~ (p >= Len(b)) /\ ~ (ai > 27) /\ ~ (p + 1 + n > Len(b))
  OBVIOUS
<1> QED BY <1>1 DEF DecodeHead, Found

\* What an initial byte and the width of an argument say of the head.
LEMMA HeadParts ==
    ASSUME NEW mt \in Int, 0 <= mt, mt <= 7, NEW v \in Arg
    PROVE  LET h  == HeadOf(mt, v)
               n  == Width(v)
               ai == Info(h[1])
           IN  /\ h \in Seq(Byte) /\ Len(h) = 1 + n /\ n \in {0, 1, 2, 4, 8}
               /\ Major(h[1]) = mt /\ ai \in Int /\ 0 <= ai /\ ai <= 27
               /\ ArgBytes(ai) = n
               /\ n # 1 \/ ai = 24
               /\ ~ NonPreferred(ai, v)
               /\ n = 0 => Small(ai) = v
               /\ n = 1 => Small(h[2]) = v /\ ai = 24 /\ v[4] \in Byte /\ h[2] = v[4]
               /\ n = 2 => v = Small(v[4]) /\ h[2] = HighByte(v[4]) /\ h[3] = LowByte(v[4])
               /\ n = 4 => v = <<0, 0, v[3], v[4]>> /\ \A k \in 1 .. 4 : h[1 + k] = Tail4(v)[k]
               /\ n = 8 => \A k \in 1 .. 8 : h[1 + k] = Tail8(v)[k]
<1> DEFINE h  == HeadOf(mt, v)
           n  == Width(v)
           ai == Info(h[1])
<1>0. /\ v[1] \in Int /\ 0 <= v[1] /\ v[1] <= 65535
      /\ v[2] \in Int /\ 0 <= v[2] /\ v[2] <= 65535
      /\ v[3] \in Int /\ 0 <= v[3] /\ v[3] <= 65535
      /\ v[4] \in Int /\ 0 <= v[4] /\ v[4] <= 65535
      /\ v = <<v[1], v[2], v[3], v[4]>>
  BY ArgLimbs
<1>1. CASE n = 0
  <2>1. h = <<32 * mt + v[4]>>
    BY <1>1, HeadOfIs
  <2>2. v[1] = 0 /\ v[2] = 0 /\ v[3] = 0 /\ v[4] <= 23
    BY <1>0, <1>1 DEF Width
  <2> DEFINE x == 32 * mt + v[4]
  <2>3. x \in Byte /\ Major(x) = mt /\ Info(x) = v[4]
    BY <1>0, <2>2, InitialByte
  <2> HIDE DEF x
  <2>4. <<x>> \in Seq(Byte) /\ Len(<<x>>) = 1 /\ <<x>>[1] = x
    BY <2>3
  <2>5. h = <<x>>
    BY <2>1 DEF x
  <2> HIDE DEF h, n
  <2>6. /\ h \in Seq(Byte) /\ Len(h) = 1 /\ Major(h[1]) = mt /\ ai = v[4]
    BY <2>3, <2>4, <2>5
  <2>7. Small(v[4]) = v
    BY <1>0, <2>2 DEF Small
  <2>8. ArgBytes(v[4]) = 0
    BY <1>0, <2>2 DEF ArgBytes
  <2> HIDE DEF ai
  <2>9. ~ NonPreferred(ai, v)
    BY <1>0, <2>2, <2>6 DEF NonPreferred
  <2> QED BY <1>0, <1>1, <2>2, <2>6, <2>7, <2>8, <2>9 DEF h, n, ai
<1>2. CASE n = 1
  <2>1. h = <<32 * mt + 24, v[4]>>
    BY <1>2, HeadOfIs
  <2>2. v[1] = 0 /\ v[2] = 0 /\ v[3] = 0 /\ v[4] <= 255 /\ 24 <= v[4]
    BY <1>0, <1>2 DEF Width
  <2> DEFINE x == 32 * mt + 24
  <2>3. x \in Byte /\ Major(x) = mt /\ Info(x) = 24
    <3> DEFINE low == 24
    <3>1. low \in Int /\ 0 <= low /\ low <= 31
      OBVIOUS
    <3> HIDE DEF low
    <3>2. /\ 32 * mt + low \in Byte /\ Major(32 * mt + low) = mt
          /\ Info(32 * mt + low) = low
      BY <3>1, InitialByte
    <3> QED BY <3>2 DEF low
  <2> HIDE DEF x
  <2>4. v[4] \in Byte
    BY <1>0, <2>2 DEF Byte
  <2>5. h = <<x, v[4]>>
    BY <2>1 DEF x
  <2> HIDE DEF h, n
  <2>6. /\ h \in Seq(Byte) /\ Len(h) = 2 /\ Major(h[1]) = mt /\ ai = 24
        /\ h[2] = v[4]
    BY <2>3, <2>4, <2>5
  <2>7. Small(v[4]) = v
    BY <1>0, <2>2 DEF Small
  <2>8. ArgBytes(24) = 1
    BY DEF ArgBytes
  <2> HIDE DEF ai
  <2>9. ~ NonPreferred(ai, v)
    BY <1>0, <2>2, <2>6 DEF NonPreferred
  <2> QED BY <1>0, <1>2, <2>2, <2>4, <2>6, <2>7, <2>8, <2>9 DEF h, n, ai
<1>3. CASE n = 2
  <2> DEFINE x == 32 * mt + 25
             s == BE16(v[4])
  <2>1. h = <<x>> \o s
    BY <1>3, HeadOfIs
  <2>2. v[1] = 0 /\ v[2] = 0 /\ v[3] = 0 /\ 255 < v[4]
    BY <1>0, <1>3 DEF Width
  <2>3. x \in Byte /\ Major(x) = mt /\ Info(x) = 25
    <3> DEFINE low == 25
    <3>1. low \in Int /\ 0 <= low /\ low <= 31
      OBVIOUS
    <3> HIDE DEF low
    <3>2. /\ 32 * mt + low \in Byte /\ Major(32 * mt + low) = mt
          /\ Info(32 * mt + low) = low
      BY <3>1, InitialByte
    <3> QED BY <3>2 DEF low
  <2>4. /\ s \in Seq(Byte) /\ Len(s) = 2
        /\ s[1] = HighByte(v[4]) /\ s[2] = LowByte(v[4])
    <3>1. v[4] \in Limb
      BY DEF Arg
    <3>2. HighByte(v[4]) \in Byte /\ LowByte(v[4]) \in Byte
      BY <3>1, Bytes16
    <3>3. s = <<HighByte(v[4]), LowByte(v[4])>>
      BY BE16Is
    <3> HIDE DEF s
    <3> QED BY <3>2, <3>3
  <2> HIDE DEF h, n, x, s
  <2>5. /\ <<x>> \o s \in Seq(Byte) /\ Len(<<x>> \o s) = 1 + Len(s) /\ (<<x>> \o s)[1] = x
        /\ \A k \in 1 .. Len(s) : (<<x>> \o s)[1 + k] = s[k]
    BY <2>3, <2>4, InFront
  <2>6. /\ h \in Seq(Byte) /\ Len(h) = 3 /\ h[1] = x
        /\ \A k \in 1 .. 2 : h[1 + k] = s[k]
    BY <2>1, <2>4, <2>5
  <2>7. h[2] = s[1] /\ h[3] = s[2]
    BY <2>6
  <2>8. Small(v[4]) = v
    BY <1>0, <2>2 DEF Small
  <2>9. ArgBytes(25) = 2
    BY DEF ArgBytes
  <2>10. Major(h[1]) = mt /\ ai = 25
    BY <2>3, <2>6
  <2> HIDE DEF ai
  <2>11. ~ NonPreferred(ai, v)
    BY <1>0, <2>2, <2>10 DEF NonPreferred
  <2> QED BY <1>0, <1>3, <2>2, <2>4, <2>6, <2>7, <2>8, <2>9, <2>10, <2>11 DEF h, n, ai
<1>4. CASE n = 4
  <2> DEFINE x == 32 * mt + 26
             s == Tail4(v)
  <2>1. h = <<x>> \o s
    BY <1>4, HeadOfIs, BE32Is
  <2>2. v[1] = 0 /\ v[2] = 0 /\ v[3] # 0
    BY <1>0, <1>4 DEF Width
  <2>3. x \in Byte /\ Major(x) = mt /\ Info(x) = 26
    <3> DEFINE low == 26
    <3>1. low \in Int /\ 0 <= low /\ low <= 31
      OBVIOUS
    <3> HIDE DEF low
    <3>2. /\ 32 * mt + low \in Byte /\ Major(32 * mt + low) = mt
          /\ Info(32 * mt + low) = low
      BY <3>1, InitialByte
    <3> QED BY <3>2 DEF low
  <2>4. s \in Seq(Byte) /\ Len(s) = 4
    BY BE32Is DEF Tail4
  <2> HIDE DEF h, n, x, s
  <2>5. /\ <<x>> \o s \in Seq(Byte) /\ Len(<<x>> \o s) = 1 + Len(s) /\ (<<x>> \o s)[1] = x
        /\ \A k \in 1 .. Len(s) : (<<x>> \o s)[1 + k] = s[k]
    BY <2>3, <2>4, InFront
  <2>6. /\ h \in Seq(Byte) /\ Len(h) = 5 /\ h[1] = x
        /\ \A k \in 1 .. 4 : h[1 + k] = s[k]
    BY <2>1, <2>4, <2>5
  <2>7. v = <<0, 0, v[3], v[4]>>
    BY <1>0, <2>2
  <2>8. ArgBytes(26) = 4
    BY DEF ArgBytes
  <2>9. Major(h[1]) = mt /\ ai = 26
    BY <2>3, <2>6
  <2> HIDE DEF ai
  <2>10. ~ NonPreferred(ai, v)
    BY <1>0, <2>2, <2>9 DEF NonPreferred
  <2> QED BY <1>0, <1>4, <2>2, <2>6, <2>7, <2>8, <2>9, <2>10 DEF h, n, ai, s
<1>5. CASE n = 8
  <2> DEFINE x == 32 * mt + 27
             s == Tail8(v)
  <2>1. h = <<x>> \o s
    BY <1>5, HeadOfIs, BE64Is
  <2>2. ~ (v[1] = 0 /\ v[2] = 0)
    BY <1>0, <1>5 DEF Width
  <2>3. x \in Byte /\ Major(x) = mt /\ Info(x) = 27
    <3> DEFINE low == 27
    <3>1. low \in Int /\ 0 <= low /\ low <= 31
      OBVIOUS
    <3> HIDE DEF low
    <3>2. /\ 32 * mt + low \in Byte /\ Major(32 * mt + low) = mt
          /\ Info(32 * mt + low) = low
      BY <3>1, InitialByte
    <3> QED BY <3>2 DEF low
  <2>4. s \in Seq(Byte) /\ Len(s) = 8
    BY BE64Is DEF Tail8
  <2> HIDE DEF h, n, x, s
  <2>5. /\ <<x>> \o s \in Seq(Byte) /\ Len(<<x>> \o s) = 1 + Len(s) /\ (<<x>> \o s)[1] = x
        /\ \A k \in 1 .. Len(s) : (<<x>> \o s)[1 + k] = s[k]
    BY <2>3, <2>4, InFront
  <2>6. /\ h \in Seq(Byte) /\ Len(h) = 9 /\ h[1] = x
        /\ \A k \in 1 .. 8 : h[1 + k] = s[k]
    BY <2>1, <2>4, <2>5
  <2>7. ArgBytes(27) = 8
    BY DEF ArgBytes
  <2>8. Major(h[1]) = mt /\ ai = 27
    BY <2>3, <2>6
  <2> HIDE DEF ai
  <2>9. ~ NonPreferred(ai, v)
    BY <1>0, <2>2, <2>8 DEF NonPreferred
  <2> QED BY <1>0, <1>5, <2>2, <2>6, <2>7, <2>8, <2>9 DEF h, n, ai, s
<1>6. n = 0 \/ n = 1 \/ n = 2 \/ n = 4 \/ n = 8
  BY DEF Width
<1> QED BY <1>1, <1>2, <1>3, <1>4, <1>5, <1>6

\* Wherever the bytes of a head stand, the head is read.
LEMMA ReadsHeadOf ==
    ASSUME NEW mt \in Int, 0 <= mt, mt <= 7, mt # SIMPLE, NEW v \in Arg,
           NEW b, Len(b) \in Nat, NEW p \in Nat, NEW t,
           NEW h, h = HeadOf(mt, v), p + Len(h) <= Len(b), Spelt(b, p, h, Len(h))
    PROVE  DecodeHead(b, p, t) = Found(b, mt, v, p + Len(h))
<1> DEFINE n  == Width(v)
           ai == Info(h[1])
<1>1. /\ h \in Seq(Byte) /\ Len(h) = 1 + n /\ n \in {0, 1, 2, 4, 8}
      /\ Major(h[1]) = mt /\ ai \in Int /\ 0 <= ai /\ ai <= 27
      /\ ArgBytes(ai) = n
      /\ ~ NonPreferred(ai, v)
      /\ n = 0 => Small(ai) = v
      /\ n = 1 => Small(h[2]) = v
      /\ n = 2 => v = Small(v[4]) /\ h[2] = HighByte(v[4]) /\ h[3] = LowByte(v[4])
      /\ n = 4 => v = <<0, 0, v[3], v[4]>> /\ \A k \in 1 .. 4 : h[1 + k] = Tail4(v)[k]
      /\ n = 8 => \A k \in 1 .. 8 : h[1 + k] = Tail8(v)[k]
  BY HeadParts
<1>2. \A k \in 1 .. Len(h) : b[p + k] = h[k]
  BY DEF Spelt
<1>3. p + Len(h) <= Len(b)
  OBVIOUS
<1> HIDE DEF n
<1>4. b[p + 1] = h[1]
  BY <1>1, <1>2
<1>5. v = IF n = 0 THEN Small(ai) ELSE LoadBE(b, p + 1, n)
  <2>1. CASE n = 0
    BY <1>1, <2>1
  <2>2. CASE n = 1
    <3>1. b[p + 2] = h[2]
      BY <1>1, <1>2, <2>2
    <3>2. LoadBE(b, p + 1, 1) = Small(b[p + 2])
      <4>1. (p + 1) + 1 = p + 2
        OBVIOUS
      <4> QED BY <4>1 DEF LoadBE
    <3> QED BY <1>1, <2>2, <3>1, <3>2
  <2>3. CASE n = 2
    <3>1. b[p + 2] = h[2] /\ b[p + 3] = h[3]
      BY <1>1, <1>2, <2>3
    <3> DEFINE i == p + 1
    <3>2. i \in Nat /\ i + 1 = p + 2 /\ i + 2 = p + 3
      OBVIOUS
    <3> HIDE DEF i
    <3>3. b[i + 1] = HighByte(v[4]) /\ b[i + 2] = LowByte(v[4])
      BY <1>1, <2>3, <3>1, <3>2
    <3>4. v[4] \in Limb
      BY DEF Arg
    <3>5. LoadBE(b, i, 2) = Small(v[4])
      BY <3>2, <3>3, <3>4, LoadTail2
    <3> QED BY <1>1, <2>3, <3>5 DEF i
  <2>4. CASE n = 4
    <3> DEFINE i == p + 1
    <3>1. i \in Nat
      OBVIOUS
    <3>2. Spelt(b, i, Tail4(v), 4)
      <4> SUFFICES ASSUME NEW k \in 1 .. 4 PROVE b[i + k] = Tail4(v)[k]
        BY DEF Spelt
      <4>1. 1 + k \in 1 .. Len(h) /\ i + k = p + (1 + k)
        BY <1>1, <2>4
      <4>2. b[p + (1 + k)] = h[1 + k]
        BY <1>2, <4>1
      <4> QED BY <1>1, <2>4, <4>1, <4>2
    <3> HIDE DEF i
    <3>3. LoadBE(b, i, 4) = <<0, 0, v[3], v[4]>>
      BY <3>1, <3>2, LoadTail4
    <3> QED BY <1>1, <2>4, <3>3 DEF i
  <2>5. CASE n = 8
    <3> DEFINE i == p + 1
    <3>1. i \in Nat
      OBVIOUS
    <3>2. Spelt(b, i, Tail8(v), 8)
      <4> SUFFICES ASSUME NEW k \in 1 .. 8 PROVE b[i + k] = Tail8(v)[k]
        BY DEF Spelt
      <4>1. 1 + k \in 1 .. Len(h) /\ i + k = p + (1 + k)
        BY <1>1, <2>5
      <4>2. b[p + (1 + k)] = h[1 + k]
        BY <1>2, <4>1
      <4> QED BY <1>1, <2>5, <4>1, <4>2
    <3> HIDE DEF i
    <3>3. LoadBE(b, i, 8) = v
      BY <3>1, <3>2, LoadTail8
    <3> QED BY <1>1, <2>5, <3>3 DEF i
  <2> QED BY <1>1, <2>1, <2>2, <2>3, <2>4, <2>5
<1>6. n \in Nat /\ p + 1 + n = p + Len(h) /\ p + 1 + n <= Len(b)
  BY <1>1, <1>3
<1>7. Major(b[p + 1]) = mt /\ Info(b[p + 1]) = ai
  BY <1>1, <1>4
<1> HIDE DEF ai
<1>8. DecodeHead(b, p, t) = Found(b, mt, v, p + 1 + n)
  BY <1>1, <1>5, <1>6, <1>7, ReadsHead
<1> QED BY <1>6, <1>8

\* A float keeps its bytes, also those that a shorter head could carry.
LEMMA ReadsFloat ==
    ASSUME NEW v \in Arg, NEW b, Len(b) \in Nat, NEW p \in Nat, NEW t,
           b[p + 1] = 250, p + 5 <= Len(b), Spelt(b, p + 1, Tail4(v), 4)
    PROVE  DecodeHead(b, p, t) =
               Item("ok", SIMPLE, <<0, 0, v[3], v[4]>>, <<>>, p + 5)
<1> DEFINE i == p + 1
           w == <<0, 0, v[3], v[4]>>
           mt == SIMPLE
           ai == 26
           n == 4
<1>1. i \in Nat
  OBVIOUS
<1>2. Spelt(b, i, Tail4(v), 4)
  OBVIOUS
<1> HIDE DEF i
<1>3. LoadBE(b, i, 4) = w
  BY <1>1, <1>2, LoadTail4
<1>4. Major(b[p + 1]) = mt /\ Info(b[p + 1]) = ai
  BY DEF Major, Info, SIMPLE
<1>5. ArgBytes(ai) = n
  BY DEF ArgBytes
<1>6. /\ ai \in Int /\ ai <= 27 /\ n \in Nat /\ n # 0 /\ p + 1 + n = p + 5
      /\ w = LoadBE(b, p + 1, n) /\ ai # 24
  BY <1>3 DEF i
<1>7. mt \notin {BSTR, TSTR}
  BY DEF SIMPLE, BSTR, TSTR
<1> HIDE DEF w, mt, ai, n
<1>8. DecodeHead(b, p, t) = Found(b, mt, w, p + 1 + n)
  BY <1>4, <1>5, <1>6, ReadsHead DEF mt
<1> QED BY <1>6, <1>7, <1>8 DEF Found, w, mt

\* The same of the eight bytes of a double.
LEMMA ReadsDouble ==
    ASSUME NEW v \in Arg, NEW b, Len(b) \in Nat, NEW p \in Nat, NEW t,
           b[p + 1] = 251, p + 9 <= Len(b), Spelt(b, p + 1, Tail8(v), 8)
    PROVE  DecodeHead(b, p, t) = Item("ok", SIMPLE, v, <<>>, p + 9)
<1> DEFINE i == p + 1
           mt == SIMPLE
           ai == 27
           n == 8
<1>1. i \in Nat
  OBVIOUS
<1>2. Spelt(b, i, Tail8(v), 8)
  OBVIOUS
<1> HIDE DEF i
<1>3. LoadBE(b, i, 8) = v
  BY <1>1, <1>2, LoadTail8
<1>4. Major(b[p + 1]) = mt /\ Info(b[p + 1]) = ai
  BY DEF Major, Info, SIMPLE
<1>5. ArgBytes(ai) = n
  BY DEF ArgBytes
<1>6. /\ ai \in Int /\ ai <= 27 /\ n \in Nat /\ n # 0 /\ p + 1 + n = p + 9
      /\ v = LoadBE(b, p + 1, n) /\ ai # 24
  BY <1>3 DEF i
<1>7. mt \notin {BSTR, TSTR}
  BY DEF SIMPLE, BSTR, TSTR
<1>8. v = IF n = 0 THEN Small(ai) ELSE LoadBE(b, p + 1, n)
  BY <1>6
<1>9. ~ (mt = SIMPLE /\ ai = 24) /\ mt = SIMPLE /\ p + 1 + n <= Len(b)
  BY <1>6
<1> HIDE DEF mt, ai, n
<1>10. DecodeHead(b, p, t) = Found(b, mt, v, p + 1 + n)
  BY <1>4, <1>5, <1>6, <1>8, <1>9, ReadsHead
<1> QED BY <1>6, <1>7, <1>10 DEF Found, mt

\* False, true and null are heads of their own.
LEMMA ReadsSimple ==
    ASSUME NEW s \in {20, 21, 22}, NEW b, Len(b) \in Nat, NEW p \in Nat, NEW t,
           b[p + 1] = 224 + s, p + 1 <= Len(b)
    PROVE  DecodeHead(b, p, t) =
               Item("ok", SIMPLE, Small(s), <<>>, p + 1)
<1> DEFINE mt == SIMPLE
           ai == s
           n == 0
           v == Small(s)
<1>1. Major(b[p + 1]) = mt /\ Info(b[p + 1]) = ai
  <2>1. s = 20 \/ s = 21 \/ s = 22
    OBVIOUS
  <2>2. (224 + s) \div 32 = 7 /\ (224 + s) % 32 = s
    BY <2>1
  <2> QED BY <2>2 DEF Major, Info, SIMPLE
<1>2. ArgBytes(ai) = n
  BY DEF ArgBytes
<1>3. /\ ai \in Int /\ ai <= 27 /\ ai # 24
      /\ n \in Nat /\ n = 0 /\ p + 1 + n = p + 1 /\ p + 1 + n <= Len(b)
  OBVIOUS
<1>4. mt \notin {BSTR, TSTR}
  BY DEF SIMPLE, BSTR, TSTR
<1>5. v = Small(ai)
  OBVIOUS
<1>6. ~ (mt = SIMPLE /\ ai = 24) /\ mt = SIMPLE
  BY <1>3
<1>7. v = IF n = 0 THEN Small(ai) ELSE LoadBE(b, p + 1, n)
  BY <1>3, <1>5
<1> HIDE DEF v, mt, ai, n
<1>8. DecodeHead(b, p, t) = Found(b, mt, v, p + 1 + n)
  BY <1>1, <1>2, <1>3, <1>6, <1>7, ReadsHead
<1> QED BY <1>3, <1>4, <1>8 DEF Found, v, mt

-----------------------------------------------------------------------------
(* What was read, encoded again.                                           *)

\* Two bytes make a limb of which they are the bytes.
LEMMA HighLow ==
    ASSUME NEW hi \in Byte, NEW lo \in Byte
    PROVE  LET w == hi * 256 + lo
           IN  w \in Limb /\ HighByte(w) = hi /\ LowByte(w) = lo
<1>1. hi \in Nat /\ hi < 256 /\ lo \in Nat /\ lo < 256
  BY DEF Byte
<1> DEFINE w == hi * 256 + lo
<1>2. w \in Nat /\ w <= 65535
  BY <1>1
<1>3. w \div 256 = hi /\ w % 256 = lo
  BY <1>1
<1> HIDE DEF w
<1>4. w \in Limb /\ HighByte(w) = hi /\ LowByte(w) = lo
  BY <1>2, <1>3 DEF HighByte, LowByte, Limb
<1> QED BY <1>4 DEF w

\* What a head that was accepted must have been.
LEMMA ReadOk ==
    ASSUME NEW b \in Seq(Byte), NEW p \in Nat, NEW t, DecodeHead(b, p, t).ret = "ok"
    PROVE  LET mt == Major(b[p + 1])
               ai == Info(b[p + 1])
               n  == ArgBytes(ai)
               v  == IF n = 0 THEN Small(ai) ELSE LoadBE(b, p + 1, n)
           IN  /\ b[p + 1] \in Byte
               /\ ~ (ai > 27) /\ p + 1 + n <= Len(b)
               /\ DecodeHead(b, p, t) = Found(b, mt, v, p + 1 + n)
               /\ mt # SIMPLE => t \/ ~ NonPreferred(ai, v)
<1> DEFINE mt == Major(b[p + 1])
           ai == Info(b[p + 1])
           n  == ArgBytes(ai)
           v  == IF n = 0 THEN Small(ai) ELSE LoadBE(b, p + 1, n)
           end == p + 1 + n
           refused == \/ mt = SIMPLE /\ ai = 24 /\ v[4] < 32
                      \/ mt # SIMPLE /\ ~ t /\ NonPreferred(ai, v)
<1>0. Len(b) \in Nat
  BY LenProperties
<1>1. DecodeHead(b, p, t) =
         IF p >= Len(b) THEN Item("malformed", UINT, Small(0), <<>>, p)
         ELSE IF ai > 27
         THEN Item(IF ai = 31 THEN "unsupported" ELSE "malformed",
                         mt, Small(0), <<>>, p + 1)
         ELSE IF end > Len(b) THEN Item("malformed", mt, Small(0), <<>>, p + 1)
         ELSE IF refused THEN Item("malformed", mt, v, <<>>, end)
         ELSE Found(b, mt, v, end)
  BY Zenon DEF DecodeHead, Found
<1>2. \A r, m, w, d, i : Item(r, m, w, d, i).ret = r
  BY DEF Item
<1> HIDE DEF mt, ai, n, v, refused, end
<1>3. ~ (p >= Len(b)) /\ ~ (ai > 27) /\ ~ (end > Len(b)) /\ ~ refused
  BY <1>1, <1>2
<1>4. DecodeHead(b, p, t) = Found(b, mt, v, end)
  BY <1>1, <1>3
<1>5. b[p + 1] \in Byte
  BY <1>0, <1>3, ElementOfSeq
<1>6. n \in Nat
  BY DEF ArgBytes, n
<1>7. end <= Len(b)
  BY <1>0, <1>3, <1>6 DEF end
<1> QED BY <1>3, <1>4, <1>5, <1>7 DEF refused, mt, ai, n, v, end

\* The initial bytes of the longer heads.
LEMMA FirstOfHead ==
    ASSUME NEW mt \in Int, 0 <= mt, mt <= 7, NEW v \in Arg
    PROVE  LET h == HeadOf(mt, v)
           IN  /\ Width(v) = 2 => h[1] = 32 * mt + 25
               /\ Width(v) = 4 => h[1] = 32 * mt + 26
               /\ Width(v) = 8 => h[1] = 32 * mt + 27
<1> DEFINE h  == HeadOf(mt, v)
           x  == h[1]
           ai == Info(x)
           n  == Width(v)
<1>1. /\ h \in Seq(Byte) /\ Len(h) = 1 + n /\ n \in {0, 1, 2, 4, 8}
      /\ Major(x) = mt /\ ai \in Int /\ 0 <= ai /\ ai <= 27
      /\ ArgBytes(ai) = n
  BY HeadParts
<1>2. x \in Byte
  <2> HIDE DEF h, n, ai
  <2> QED BY <1>1, ElementOfSeq
<1>3. x \in Int /\ 0 <= x
  BY <1>2 DEF Byte
<1>4. mt = x \div 32 /\ ai = x % 32
  BY <1>1 DEF Major, Info
<1> HIDE DEF x, n, ai
<1>5. x = 32 * mt + ai
  BY <1>3, <1>4
<1>6. /\ n = 2 => ai = 25
      /\ n = 4 => ai = 26
      /\ n = 8 => ai = 27
  BY <1>1 DEF ArgBytes
<1> QED BY <1>5, <1>6 DEF x, n

\* The argument read needs no more bytes than it had, and just those if no
\* shorter head could have carried it: then its head is the one that was there.
LEMMA ShortestHead ==
    ASSUME NEW b \in Seq(Byte), NEW p \in Nat, p + 1 <= Len(b),
           NEW mt, NEW ai, NEW n, NEW v,
           mt = Major(b[p + 1]), ai = Info(b[p + 1]), ~ (ai > 27),
           n = ArgBytes(ai), p + 1 + n <= Len(b),
           v = IF n = 0 THEN Small(ai) ELSE LoadBE(b, p + 1, n)
    PROVE  LET h == HeadOf(mt, v)
           IN  /\ mt \in Int /\ 0 <= mt /\ mt <= 7 /\ n \in Nat
               /\ v \in Arg
               /\ h \in Seq(Byte) /\ Len(h) <= 1 + n
               /\ ~ NonPreferred(ai, v) => Len(h) = 1 + n /\ Spelt(b, p, h, 1 + n)
<1> DEFINE x == b[p + 1]
<1>0. Len(b) \in Nat /\ \A k \in 1 .. Len(b) : b[k] \in Byte
  BY LenProperties, ElementOfSeq
<1>1. x \in Int /\ 0 <= x /\ x <= 255
  <2>1. p + 1 \in 1 .. Len(b)
    BY <1>0
  <2>2. x \in Byte
    BY <1>0, <2>1
  <2> HIDE DEF x
  <2> QED BY <2>2 DEF Byte
<1>2. /\ mt \in Int /\ 0 <= mt /\ mt <= 7
      /\ ai \in Int /\ 0 <= ai /\ ai <= 31 /\ x = 32 * mt + ai
  <2>1. mt = x \div 32 /\ ai = x % 32
    BY DEF Major, Info
  <2> HIDE DEF x
  <2> QED BY <1>1, <2>1
<1>3. ai <= 27
  BY <1>2
<1>4. \/ ai < 24 /\ n = 0
      \/ ai = 24 /\ n = 1
      \/ ai = 25 /\ n = 2
      \/ ai = 26 /\ n = 4
      \/ ai = 27 /\ n = 8
  <2>1. ai \in Int /\ 0 <= ai /\ ai <= 27
    BY <1>2, <1>3
  <2>2. n = IF ai = 24 THEN 1 ELSE IF ai = 25 THEN 2 ELSE IF ai = 26 THEN 4
            ELSE IF ai = 27 THEN 8 ELSE 0
    BY DEF ArgBytes
  <2> QED BY <2>1, <2>2
<1> DEFINE h == HeadOf(mt, v)
           Kept == /\ v \in Arg
                   /\ h \in Seq(Byte) /\ Len(h) <= 1 + n
                   /\ ~ NonPreferred(ai, v) => Len(h) = 1 + n /\ Spelt(b, p, h, 1 + n)
<1> HIDE DEF x, h
<1>5. n \in Nat
  BY <1>4
<1>6. \A w \in Byte : w \in Limb
  BY DEF Byte, Limb
<1>7. 0 \in Limb
  BY DEF Limb
<1>8. ASSUME n = 0 PROVE Kept
  <2>1. ai \in Limb /\ v = Small(ai) /\ ai < 24
    BY <1>2, <1>4, <1>8 DEF Limb
  <2>2. v \in Arg /\ v[1] = 0 /\ v[2] = 0 /\ v[3] = 0 /\ v[4] = ai
    BY <2>1, SmallArg
  <2>3. Width(v) = 0
    BY <1>2, <2>1, <2>2 DEF Width
  <2>4. h = <<32 * mt + v[4]>>
    BY <2>2, <2>3, HeadOfIs DEF h
  <2>5. h = <<x>>
    BY <1>2, <2>2, <2>4
  <2>6. x \in Byte
    BY <1>1 DEF Byte
  <2>7. h \in Seq(Byte) /\ Len(h) = 1 /\ h[1] = x
    BY <2>5, <2>6
  <2>8. Spelt(b, p, h, 1)
    BY <2>7 DEF Spelt, x
  <2> QED BY <1>2, <1>8, <2>2, <2>7, <2>8
<1>9. ASSUME n = 1 PROVE Kept
  <2> DEFINE y == b[p + 2]
  <2>1. y \in Byte
    BY <1>0, <1>9
  <2>2. v = Small(y)
    BY <1>9 DEF LoadBE
  <2>3. y \in Limb
    BY <1>6, <2>1
  <2> HIDE DEF y
  <2>4. v \in Arg /\ v[1] = 0 /\ v[2] = 0 /\ v[3] = 0 /\ v[4] = y
    BY <2>2, <2>3, SmallArg
  <2>5. y \in Int /\ 0 <= y /\ y <= 255
    BY <2>1 DEF Byte
  <2>6. Width(v) = IF y <= 23 THEN 0 ELSE 1
    BY <2>4, <2>5 DEF Width
  <2>7. h \in Seq(Byte) /\ Len(h) = 1 + Width(v)
    BY <1>2, <2>4, HeadParts DEF h
  <2>8. ASSUME ~ NonPreferred(ai, v)
        PROVE  Len(h) = 2 /\ Spelt(b, p, h, 2)
    <3>1. ai = 24 /\ ~ (v[4] < 24)
      BY <1>4, <1>9, <2>8 DEF NonPreferred
    <3>2. Width(v) = 1
      BY <2>4, <2>5, <2>6, <3>1
    <3>3. h = <<32 * mt + 24, v[4]>>
      BY <2>4, <3>2, HeadOfIs DEF h
    <3>4. h = <<x, y>>
      BY <1>2, <2>4, <3>1, <3>3
    <3>5. Len(h) = 2 /\ h[1] = x /\ h[2] = y
      BY <3>4
    <3> QED BY <3>5 DEF Spelt, x, y
  <2>9. Len(h) <= 2
    BY <2>6, <2>7
  <2> QED BY <1>2, <1>9, <2>4, <2>7, <2>8, <2>9
<1>10. ASSUME n = 2 PROVE Kept
  <2> DEFINE y == b[p + 2]
             z == b[p + 3]
             w == y * 256 + z
  <2>1. y \in Byte /\ z \in Byte
    BY <1>0, <1>10
  <2>2. v = Small(w)
    <3>1. (p + 1) + 1 = p + 2 /\ (p + 1) + 2 = p + 3
      OBVIOUS
    <3> QED BY <1>10, <3>1 DEF LoadBE, Word
  <2> HIDE DEF y, z
  <2>3. w \in Limb /\ HighByte(w) = y /\ LowByte(w) = z
    BY <2>1, HighLow
  <2> HIDE DEF w
  <2>4. v \in Arg /\ v[1] = 0 /\ v[2] = 0 /\ v[3] = 0 /\ v[4] = w
    BY <2>2, <2>3, SmallArg
  <2>5. w \in Int /\ 0 <= w
    BY <2>3 DEF Limb
  <2>6. Width(v) = IF w <= 23 THEN 0 ELSE IF w <= 255 THEN 1 ELSE 2
    BY <2>4, <2>5 DEF Width
  <2>7. /\ h \in Seq(Byte) /\ Len(h) = 1 + Width(v)
        /\ Width(v) = 2 => h[2] = HighByte(v[4]) /\ h[3] = LowByte(v[4])
    BY <1>2, <2>4, HeadParts DEF h
  <2>8. Major(h[1]) = mt
    BY <1>2, <2>4, HeadParts DEF h
  <2>9. ASSUME ~ NonPreferred(ai, v)
        PROVE  Len(h) = 3 /\ Spelt(b, p, h, 3)
    <3>1. ai = 25 /\ ~ (v[4] < 256)
      BY <1>4, <1>10, <2>9 DEF NonPreferred
    <3>2. Width(v) = 2
      BY <2>4, <2>5, <2>6, <3>1
    <3>3. h[2] = y /\ h[3] = z /\ Len(h) = 3
      BY <2>3, <2>4, <2>7, <3>2
    <3>4. h[1] = x
      BY <1>2, <2>4, <3>1, <3>2, FirstOfHead DEF h
    <3> QED BY <3>3, <3>4 DEF Spelt, x, y, z
  <2>10. Len(h) <= 3
    BY <2>6, <2>7
  <2> QED BY <1>2, <1>10, <2>4, <2>7, <2>9, <2>10
<1>11. ASSUME n = 4 PROVE Kept
  <2>1. /\ b[p + 2] \in Byte /\ b[p + 3] \in Byte
        /\ b[p + 4] \in Byte /\ b[p + 5] \in Byte
    BY <1>0, <1>11
  <2> DEFINE w3 == b[p + 2] * 256 + b[p + 3]
             w4 == b[p + 4] * 256 + b[p + 5]
  <2>2. v = <<0, 0, w3, w4>>
    <3>1. /\ (p + 1) + 1 = p + 2 /\ (p + 1) + 2 = p + 3
          /\ ((p + 1) + 2) + 1 = p + 4 /\ ((p + 1) + 2) + 2 = p + 5
      OBVIOUS
    <3> QED BY <1>11, <3>1 DEF LoadBE, Word
  <2>3. /\ w3 \in Limb /\ HighByte(w3) = b[p + 2] /\ LowByte(w3) = b[p + 3]
        /\ w4 \in Limb /\ HighByte(w4) = b[p + 4] /\ LowByte(w4) = b[p + 5]
    BY <2>1, HighLow
  <2> HIDE DEF w3, w4
  <2>4. v \in Arg
    BY <1>7, <2>2, <2>3, ArgOfLimbs
  <2>5. v[1] = 0 /\ v[2] = 0 /\ v[3] = w3 /\ v[4] = w4
    BY <2>2
  <2>6. Width(v) \in {0, 1, 2, 4}
    BY <2>5 DEF Width
  <2>7. /\ h \in Seq(Byte) /\ Len(h) = 1 + Width(v)
        /\ Width(v) = 4 => \A k \in 1 .. 4 : h[1 + k] = Tail4(v)[k]
    BY <1>2, <2>4, HeadParts DEF h
  <2>8. ASSUME ~ NonPreferred(ai, v)
        PROVE  Len(h) = 5 /\ Spelt(b, p, h, 5)
    <3>1. ai = 26 /\ v[3] # 0
      BY <1>4, <1>11, <2>8 DEF NonPreferred
    <3>2. Width(v) = 4
      BY <2>5, <3>1 DEF Width
    <3>3. h[1 + 1] = Tail4(v)[1] /\ h[1 + 2] = Tail4(v)[2]
          /\ h[1 + 3] = Tail4(v)[3] /\ h[1 + 4] = Tail4(v)[4] /\ Len(h) = 5
      BY <2>7, <3>2
    <3>4. h[1] = x
      BY <1>2, <2>4, <3>1, <3>2, FirstOfHead DEF h
    <3>5. /\ Tail4(v)[1] = HighByte(w3) /\ Tail4(v)[2] = LowByte(w3)
          /\ Tail4(v)[3] = HighByte(w4) /\ Tail4(v)[4] = LowByte(w4)
      BY <2>5 DEF Tail4
    <3>6. h[2] = b[p + 2] /\ h[3] = b[p + 3] /\ h[4] = b[p + 4] /\ h[5] = b[p + 5]
      BY <2>3, <3>3, <3>5
    <3> QED BY <3>3, <3>4, <3>6 DEF Spelt, x
  <2>9. Len(h) <= 5
    BY <2>6, <2>7
  <2> QED BY <1>2, <1>11, <2>4, <2>7, <2>8, <2>9
<1>12. ASSUME n = 8 PROVE Kept
  <2>1. /\ b[p + 2] \in Byte /\ b[p + 3] \in Byte
        /\ b[p + 4] \in Byte /\ b[p + 5] \in Byte
        /\ b[p + 6] \in Byte /\ b[p + 7] \in Byte
        /\ b[p + 8] \in Byte /\ b[p + 9] \in Byte
    BY <1>0, <1>12
  <2> DEFINE w1 == b[p + 2] * 256 + b[p + 3]
             w2 == b[p + 4] * 256 + b[p + 5]
             w3 == b[p + 6] * 256 + b[p + 7]
             w4 == b[p + 8] * 256 + b[p + 9]
  <2>2. v = <<w1, w2, w3, w4>>
    <3>1. /\ (p + 1) + 1 = p + 2 /\ (p + 1) + 2 = p + 3
          /\ ((p + 1) + 2) + 1 = p + 4 /\ ((p + 1) + 2) + 2 = p + 5
          /\ ((p + 1) + 4) + 1 = p + 6 /\ ((p + 1) + 4) + 2 = p + 7
          /\ ((p + 1) + 6) + 1 = p + 8 /\ ((p + 1) + 6) + 2 = p + 9
      OBVIOUS
    <3> QED BY <1>12, <3>1 DEF LoadBE, Word
  <2>3. /\ w1 \in Limb /\ HighByte(w1) = b[p + 2] /\ LowByte(w1) = b[p + 3]
        /\ w2 \in Limb /\ HighByte(w2) = b[p + 4] /\ LowByte(w2) = b[p + 5]
        /\ w3 \in Limb /\ HighByte(w3) = b[p + 6] /\ LowByte(w3) = b[p + 7]
        /\ w4 \in Limb /\ HighByte(w4) = b[p + 8] /\ LowByte(w4) = b[p + 9]
    <3>1. w1 \in Limb /\ HighByte(w1) = b[p + 2] /\ LowByte(w1) = b[p + 3]
      BY <2>1, HighLow
    <3>2. w2 \in Limb /\ HighByte(w2) = b[p + 4] /\ LowByte(w2) = b[p + 5]
      BY <2>1, HighLow
    <3>3. w3 \in Limb /\ HighByte(w3) = b[p + 6] /\ LowByte(w3) = b[p + 7]
      BY <2>1, HighLow
    <3>4. w4 \in Limb /\ HighByte(w4) = b[p + 8] /\ LowByte(w4) = b[p + 9]
      BY <2>1, HighLow
    <3> QED BY <3>1, <3>2, <3>3, <3>4
  <2> HIDE DEF w1, w2, w3, w4
  <2>4. v \in Arg
    BY <2>2, <2>3, ArgOfLimbs
  <2>5. v[1] = w1 /\ v[2] = w2 /\ v[3] = w3 /\ v[4] = w4
    BY <2>2
  <2>6. Width(v) \in {0, 1, 2, 4, 8}
    BY DEF Width
  <2>7. /\ h \in Seq(Byte) /\ Len(h) = 1 + Width(v)
        /\ Width(v) = 8 => \A k \in 1 .. 8 : h[1 + k] = Tail8(v)[k]
    BY <1>2, <2>4, HeadParts DEF h
  <2>8. ASSUME ~ NonPreferred(ai, v)
        PROVE  Len(h) = 9 /\ Spelt(b, p, h, 9)
    <3>1. ai = 27 /\ ~ (v[1] = 0 /\ v[2] = 0)
      BY <1>4, <1>12, <2>8 DEF NonPreferred
    <3>2. Width(v) = 8
      BY <3>1 DEF Width
    <3>3. /\ h[1 + 1] = Tail8(v)[1] /\ h[1 + 2] = Tail8(v)[2]
          /\ h[1 + 3] = Tail8(v)[3] /\ h[1 + 4] = Tail8(v)[4]
          /\ h[1 + 5] = Tail8(v)[5] /\ h[1 + 6] = Tail8(v)[6]
          /\ h[1 + 7] = Tail8(v)[7] /\ h[1 + 8] = Tail8(v)[8] /\ Len(h) = 9
      BY <2>7, <3>2
    <3>4. h[1] = x
      BY <1>2, <2>4, <3>1, <3>2, FirstOfHead DEF h
    <3>5. /\ Tail8(v)[1] = HighByte(w1) /\ Tail8(v)[2] = LowByte(w1)
          /\ Tail8(v)[3] = HighByte(w2) /\ Tail8(v)[4] = LowByte(w2)
          /\ Tail8(v)[5] = HighByte(w3) /\ Tail8(v)[6] = LowByte(w3)
          /\ Tail8(v)[7] = HighByte(w4) /\ Tail8(v)[8] = LowByte(w4)
      BY <2>5 DEF Tail8
    <3>6. /\ 1 + 1 = 2 /\ 1 + 2 = 3 /\ 1 + 3 = 4 /\ 1 + 4 = 5
          /\ 1 + 5 = 6 /\ 1 + 6 = 7 /\ 1 + 7 = 8 /\ 1 + 8 = 9
      OBVIOUS
    <3>7. h[2] = b[p + 2] /\ h[3] = b[p + 3] /\ h[4] = b[p + 4] /\ h[5] = b[p + 5]
      <4>1. h[2] = b[p + 2]
        BY Zenon, <2>3, <3>3, <3>5, <3>6
      <4>2. h[3] = b[p + 3]
        BY Zenon, <2>3, <3>3, <3>5, <3>6
      <4>3. h[4] = b[p + 4]
        BY Zenon, <2>3, <3>3, <3>5, <3>6
      <4>4. h[5] = b[p + 5]
        BY Zenon, <2>3, <3>3, <3>5, <3>6
      <4> QED BY <4>1, <4>2, <4>3, <4>4
    <3>8. h[6] = b[p + 6] /\ h[7] = b[p + 7] /\ h[8] = b[p + 8] /\ h[9] = b[p + 9]
      <4>1. h[6] = b[p + 6]
        BY Zenon, <2>3, <3>3, <3>5, <3>6
      <4>2. h[7] = b[p + 7]
        BY Zenon, <2>3, <3>3, <3>5, <3>6
      <4>3. h[8] = b[p + 8]
        BY Zenon, <2>3, <3>3, <3>5, <3>6
      <4>4. h[9] = b[p + 9]
        BY Zenon, <2>3, <3>3, <3>5, <3>6
      <4> QED BY <4>1, <4>2, <4>3, <4>4
    <3>9. ASSUME NEW k \in 1 .. 9
          PROVE  b[p + k] = h[k]
      <4>1. k = 1 \/ k = 2 \/ k = 3 \/ k = 4 \/ k = 5 \/ k = 6 \/ k = 7 \/ k = 8 \/ k = 9
        OBVIOUS
      <4> QED BY <3>4, <3>7, <3>8, <4>1 DEF x
    <3> QED BY <3>3, <3>9 DEF Spelt
  <2>9. Len(h) <= 9
    BY <2>6, <2>7
  <2> QED BY <1>2, <1>12, <2>4, <2>7, <2>8, <2>9
<1>13. Kept
  <2> HIDE DEF Kept
  <2> QED BY <1>4, <1>8, <1>9, <1>10, <1>11, <1>12
<1> QED BY <1>2, <1>5, <1>13 DEF h

\* An item, encoded: its head, and the contents of a string behind it.
Encoded(mt, v, data) ==
    IF mt \in {BSTR, TSTR} THEN HeadOf(mt, SizeArg(Len(data))) \o data
    ELSE HeadOf(mt, v)

\* What the item read and its encoding have in common.
EncodesBack(b, p, t, was, enc) ==
    /\ Len(enc) <= was.idx - p
    /\ ~ t => enc = Bytes(b, p, was.idx - p)
    /\ LET again == DecodeHead(enc, 0, FALSE)
       IN  again.ret = "ok" /\ again.mt = was.mt /\ again.val = was.val
                            /\ again.data = was.data

\* A sequence that stands in a buffer is a piece of it.
LEMMA SpeltIs ==
    ASSUME NEW b \in Seq(Byte), NEW p \in Nat, NEW s \in Seq(Byte), NEW n \in Nat,
           Len(s) = n, p + n <= Len(b), Spelt(b, p, s, n)
    PROVE  s = Bytes(b, p, n)
<1> DEFINE u == SubSeq(b, p + 1, p + n)
<1>0. Len(b) \in Nat
  BY LenProperties
<1>1. \A i \in (p + 1) .. (p + n) : b[i] \in Byte
  BY <1>0, ElementOfSeq
<1>2. p + 1 \in Int /\ p + n \in Int
  OBVIOUS
<1>3. /\ u \in Seq(Byte)
      /\ Len(u) = IF p + 1 <= p + n THEN (p + n) - (p + 1) + 1 ELSE 0
      /\ \A i \in 1 .. (p + n) - (p + 1) + 1 : u[i] = b[(p + 1) + i - 1]
  BY <1>1, <1>2, SubSeqProperties
<1> HIDE DEF u
<1>4. Len(u) = n /\ (p + n) - (p + 1) + 1 = n
  BY <1>3
<1>5. \A i \in 1 .. n : u[i] = b[p + i]
  <2> TAKE i \in 1 .. n
  <2>1. (p + 1) + i - 1 = p + i
    OBVIOUS
  <2> QED BY <1>3, <1>4, <2>1
<1>6. \A i \in 1 .. Len(s) : s[i] = u[i]
  BY <1>5 DEF Spelt
<1>7. s = u
  BY <1>3, <1>4, <1>6, SeqEqual
<1> QED BY <1>7 DEF u, Bytes

\* A piece of a buffer.
LEMMA BytesShape ==
    ASSUME NEW b \in Seq(Byte), NEW p \in Nat, NEW n \in Nat, p + n <= Len(b)
    PROVE  /\ Bytes(b, p, n) \in Seq(Byte)
           /\ Len(Bytes(b, p, n)) = n
           /\ \A k \in 1 .. n : Bytes(b, p, n)[k] = b[p + k]
<1> DEFINE u == SubSeq(b, p + 1, p + n)
<1>0. Len(b) \in Nat
  BY LenProperties
<1>1. \A i \in (p + 1) .. (p + n) : b[i] \in Byte
  BY <1>0, ElementOfSeq
<1>2. p + 1 \in Int /\ p + n \in Int
  OBVIOUS
<1>3. /\ u \in Seq(Byte)
      /\ Len(u) = IF p + 1 <= p + n THEN (p + n) - (p + 1) + 1 ELSE 0
      /\ \A i \in 1 .. (p + n) - (p + 1) + 1 : u[i] = b[(p + 1) + i - 1]
  BY <1>1, <1>2, SubSeqProperties
<1> HIDE DEF u
<1>4. Len(u) = n /\ (p + n) - (p + 1) + 1 = n
  BY <1>3
<1>5. \A i \in 1 .. n : u[i] = b[p + i]
  <2> TAKE i \in 1 .. n
  <2>1. (p + 1) + i - 1 = p + i
    OBVIOUS
  <2> QED BY <1>3, <1>4, <2>1
<1> QED BY <1>3, <1>4, <1>5 DEF u, Bytes

\* A head that is not of a string.
LEMMA HeadEncodesBack ==
    ASSUME NEW b \in Seq(Byte), NEW p \in Nat, NEW t \in BOOLEAN,
           NEW was, was = DecodeHead(b, p, t), was.ret = "ok",
           was.mt # SIMPLE, was.mt \notin {BSTR, TSTR}
    PROVE  EncodesBack(b, p, t, was, HeadOf(was.mt, was.val))
<1> DEFINE mt == Major(b[p + 1])
           ai == Info(b[p + 1])
           n  == ArgBytes(ai)
           v  == IF n = 0 THEN Small(ai) ELSE LoadBE(b, p + 1, n)
           h  == HeadOf(mt, v)
<1>0. Len(b) \in Nat
  BY LenProperties
<1>1. /\ b[p + 1] \in Byte
      /\ ~ (ai > 27) /\ p + 1 + n <= Len(b)
      /\ was = Found(b, mt, v, p + 1 + n)
      /\ mt # SIMPLE => t \/ ~ NonPreferred(ai, v)
  BY ReadOk
<1>2. mt = was.mt
  <2> HIDE DEF mt, ai, n, v
  <2> QED BY <1>1 DEF Found, Item, DecodeString
<1>3. was = Item("ok", mt, v, <<>>, p + 1 + n)
  <2> HIDE DEF mt, ai, n, v
  <2> QED BY <1>1, <1>2 DEF Found
<1>4. n \in Nat
  BY DEF ArgBytes
<1>5. p + 1 <= Len(b)
  <2> HIDE DEF n
  <2> QED BY <1>0, <1>1, <1>4
<1>6. /\ mt \in Int /\ 0 <= mt /\ mt <= 7 /\ n \in Nat
      /\ v \in Arg
      /\ h \in Seq(Byte) /\ Len(h) <= 1 + n
      /\ ~ NonPreferred(ai, v) => Len(h) = 1 + n /\ Spelt(b, p, h, 1 + n)
  BY <1>1, <1>5, ShortestHead
<1> HIDE DEF mt, ai, n, v
<1>7. was.idx = p + 1 + n /\ was.val = v /\ was.data = <<>>
  BY <1>3 DEF Item
<1> HIDE DEF h
<1>8. Len(h) <= was.idx - p /\ was.idx - p = 1 + n
  <2>1. Len(h) \in Nat
    BY <1>6, LenProperties
  <2> QED BY <1>6, <1>7, <2>1
<1>9. ~ t => h = Bytes(b, p, 1 + n)
  <2> SUFFICES ASSUME ~ t PROVE h = Bytes(b, p, 1 + n)
    OBVIOUS
  <2> DEFINE m == 1 + n
  <2>1. m \in Nat /\ p + m <= Len(b) /\ Len(h) = m /\ Spelt(b, p, h, m)
    BY <1>0, <1>1, <1>2, <1>6
  <2> HIDE DEF m
  <2>2. h = Bytes(b, p, m)
    BY <1>6, <2>1, SpeltIs
  <2> QED BY <2>2 DEF m
<1>10. DecodeHead(h, 0, FALSE) = Found(h, mt, v, 0 + Len(h))
  <2> DEFINE z == 0
             strict == FALSE
  <2>1. z \in Nat /\ Len(h) \in Nat /\ z + Len(h) <= Len(h)
    BY <1>6, LenProperties
  <2>2. Spelt(h, z, h, Len(h))
    BY DEF Spelt
  <2>3. mt # SIMPLE /\ h = HeadOf(mt, v)
    BY <1>2 DEF h
  <2> HIDE DEF z, strict
  <2>4. DecodeHead(h, z, strict) = Found(h, mt, v, z + Len(h))
    BY <1>6, <2>1, <2>2, <2>3, ReadsHeadOf
  <2> QED BY <2>4 DEF z, strict
<1>11. DecodeHead(h, 0, FALSE) = Item("ok", mt, v, <<>>, 0 + Len(h))
  BY <1>2, <1>10 DEF Found
<1>12. EncodesBack(b, p, t, was, h)
  <2> DEFINE again == DecodeHead(h, 0, FALSE)
  <2>1. again = Item("ok", mt, v, <<>>, 0 + Len(h))
    BY <1>11
  <2> HIDE DEF again
  <2>2. again.ret = "ok" /\ again.mt = mt /\ again.val = v /\ again.data = <<>>
    BY <2>1 DEF Item
  <2>3. again.ret = "ok" /\ again.mt = was.mt /\ again.val = was.val /\ again.data = was.data
    BY <1>2, <1>7, <2>2
  <2>4. Len(h) <= was.idx - p /\ (~ t => h = Bytes(b, p, was.idx - p))
    BY <1>8, <1>9
  <2> QED BY <2>3, <2>4 DEF EncodesBack, again
<1> QED BY <1>2, <1>7, <1>12 DEF h

\* One sequence behind the other, as bytes that stand somewhere.
LEMMA Joined ==
    ASSUME NEW s \in Seq(Byte), NEW u \in Seq(Byte)
    PROVE  /\ s \o u \in Seq(Byte) /\ Len(s) \in Nat /\ Len(u) \in Nat
           /\ Len(s \o u) = Len(s) + Len(u)
           /\ Spelt(s \o u, 0, s, Len(s)) /\ Spelt(s \o u, Len(s), u, Len(u))
<1>1. /\ s \o u \in Seq(Byte) /\ Len(s) \in Nat /\ Len(u) \in Nat
      /\ Len(s \o u) = Len(s) + Len(u)
      /\ \A i \in 1 .. Len(s) + Len(u) :
             (s \o u)[i] = IF i <= Len(s) THEN s[i] ELSE u[i - Len(s)]
  BY ConcatProperties, LenProperties
<1> DEFINE w == s \o u
           m == Len(s)
           n == Len(u)
<1>2. /\ m \in Nat /\ n \in Nat
      /\ \A i \in 1 .. m + n : w[i] = IF i <= m THEN s[i] ELSE u[i - m]
  BY <1>1
<1> HIDE DEF w, m, n
<1>3. \A k \in 1 .. m : w[0 + k] = s[k]
  BY <1>2
<1>4. \A k \in 1 .. n : w[m + k] = u[k]
  <2> TAKE k \in 1 .. n
  <2>1. m + k \in 1 .. m + n /\ ~ (m + k <= m) /\ (m + k) - m = k
    BY <1>2
  <2> QED BY <1>2, <2>1
<1> QED BY <1>1, <1>3, <1>4 DEF w, m, n, Spelt

\* Bytes that stand in two parts.
LEMMA SpeltInParts ==
    ASSUME NEW b, NEW p \in Nat, NEW s \in Seq(Byte), NEW u \in Seq(Byte),
           Spelt(b, p, s, Len(s)), Spelt(b, p + Len(s), u, Len(u))
    PROVE  Spelt(b, p, s \o u, Len(s) + Len(u))
<1> DEFINE w == s \o u
           m == Len(s)
           n == Len(u)
<1>1. /\ m \in Nat /\ n \in Nat
      /\ Spelt(w, 0, s, m) /\ Spelt(w, m, u, n)
  BY Joined
<1>2. Spelt(b, p, s, m) /\ Spelt(b, p + m, u, n)
  OBVIOUS
<1> HIDE DEF w, m, n
<1>3. \A k \in 1 .. m + n : b[p + k] = w[k]
  <2> TAKE k \in 1 .. m + n
  <2>1. CASE k <= m
    <3>1. k \in 1 .. m /\ 0 + k = k
      BY <1>1, <2>1
    <3> QED BY <1>1, <1>2, <3>1 DEF Spelt
  <2>2. CASE m < k
    <3> DEFINE j == k - m
    <3>1. j \in 1 .. n /\ m + j = k /\ (p + m) + j = p + k
      BY <1>1, <2>2
    <3> HIDE DEF j
    <3> QED BY <1>1, <1>2, <3>1 DEF Spelt
  <2> QED BY <1>1, <2>1, <2>2
<1> QED BY <1>3 DEF w, m, n, Spelt

\* A string that was accepted.
LEMMA StringFound ==
    ASSUME NEW b, Len(b) \in Nat, NEW mt, NEW v, NEW i \in Nat, i <= Len(b),
           AsNat(v) \in Nat, DecodeString(b, mt, v, i).ret = "ok"
    PROVE  LET m == AsNat(v)
           IN  /\ i + m <= Len(b)
               /\ mt = TSTR => IsUtf8(Bytes(b, i, m))
               /\ DecodeString(b, mt, v, i) =
                      Item("ok", mt, v, Bytes(b, i, m), i + m)
<1> DEFINE m    == AsNat(v)
           data == Bytes(b, i, m)
           good == ~ (mt = TSTR /\ ~ IsUtf8(data))
<1>1. DecodeString(b, mt, v, i) =
          IF m > Len(b) - i THEN Item("malformed", mt, v, <<>>, i)
          ELSE Item(IF good THEN "ok" ELSE "malformed", mt, v, data, i + m)
  BY DEF DecodeString
<1>2. m \in Nat
  OBVIOUS
<1> HIDE DEF m, data, good
<1>3. ~ (m > Len(b) - i) /\ good
  BY <1>1 DEF Item
<1>4. DecodeString(b, mt, v, i) = Item("ok", mt, v, data, i + m)
  BY <1>1, <1>3
<1>5. i + m <= Len(b)
  BY <1>2, <1>3
<1> QED BY <1>3, <1>4, <1>5 DEF m, data, good

\* A string whose contents are there, and are text if they have to be, is accepted.
LEMMA StringIsFound ==
    ASSUME NEW b, Len(b) \in Nat, NEW mt, NEW v, NEW i \in Nat, NEW m \in Nat,
           m = AsNat(v), i + m <= Len(b),
           mt = TSTR => IsUtf8(Bytes(b, i, m))
    PROVE  DecodeString(b, mt, v, i) =
               Item("ok", mt, v, Bytes(b, i, m), i + m)
<1>1. ~ (m > Len(b) - i)
  OBVIOUS
<1> QED BY <1>1 DEF DecodeString

\* A string: the head counts the bytes behind it.
LEMMA StringEncodesBack ==
    ASSUME NEW b \in Seq(Byte), Len(b) < Huge, NEW p \in Nat, NEW t \in BOOLEAN,
           NEW was, was = DecodeHead(b, p, t), was.ret = "ok",
           was.mt \in {BSTR, TSTR}
    PROVE  EncodesBack(b, p, t, was,
                       HeadOf(was.mt, SizeArg(Len(was.data))) \o was.data)
<1> DEFINE mt == Major(b[p + 1])
           ai == Info(b[p + 1])
           n  == ArgBytes(ai)
           v  == IF n = 0 THEN Small(ai) ELSE LoadBE(b, p + 1, n)
           h  == HeadOf(mt, v)
           m  == AsNat(v)
           data == Bytes(b, p + 1 + n, m)
<1>0. Len(b) \in Nat
  BY LenProperties
<1>1. /\ b[p + 1] \in Byte
      /\ ~ (ai > 27) /\ p + 1 + n <= Len(b)
      /\ was = Found(b, mt, v, p + 1 + n)
      /\ mt # SIMPLE => t \/ ~ NonPreferred(ai, v)
  BY ReadOk
<1>2. n \in Nat
  BY DEF ArgBytes
<1>3. p + 1 <= Len(b)
  <2> HIDE DEF n
  <2> QED BY <1>0, <1>1, <1>2
<1>4. /\ mt \in Int /\ 0 <= mt /\ mt <= 7
      /\ v \in Arg
      /\ h \in Seq(Byte) /\ Len(h) <= 1 + n
      /\ ~ NonPreferred(ai, v) => Len(h) = 1 + n /\ Spelt(b, p, h, 1 + n)
  BY <1>1, <1>3, ShortestHead
<1> HIDE DEF mt, ai, n, v
<1>5. m \in Nat /\ (m < Huge => SizeArg(m) = v)
  BY <1>4, SizeArgOf
<1>6. mt \in {BSTR, TSTR}
  BY <1>1 DEF Found, Item, DecodeString
<1>7. was = DecodeString(b, mt, v, p + 1 + n)
  BY <1>1, <1>6 DEF Found
<1>8. /\ p + 1 + n + m <= Len(b)
      /\ mt = TSTR => IsUtf8(data)
      /\ was = Item("ok", mt, v, data, p + 1 + n + m)
  <2> DEFINE i == p + 1 + n
  <2>1. i \in Nat /\ i <= Len(b) /\ was = DecodeString(b, mt, v, i)
    BY <1>0, <1>1, <1>2, <1>7
  <2> HIDE DEF i
  <2>2. /\ i + m <= Len(b)
        /\ mt = TSTR => IsUtf8(Bytes(b, i, m))
        /\ was = Item("ok", mt, v, Bytes(b, i, m), i + m)
    BY <1>0, <1>5, <2>1, StringFound
  <2> QED BY <2>2 DEF i
<1>9. /\ was.mt = mt /\ was.val = v /\ was.data = data /\ was.idx = p + 1 + n + m
  BY <1>8 DEF Item
<1>10. data \in Seq(Byte) /\ Len(data) = m /\ Spelt(b, p + 1 + n, data, m)
  <2> DEFINE i == p + 1 + n
  <2>1. i \in Nat /\ i + m <= Len(b)
    BY <1>2, <1>8
  <2> HIDE DEF i, m
  <2>2. /\ Bytes(b, i, m) \in Seq(Byte)
        /\ Len(Bytes(b, i, m)) = m
        /\ \A k \in 1 .. m : Bytes(b, i, m)[k] = b[i + k]
    BY <1>5, <2>1, BytesShape
  <2> QED BY <2>2 DEF i, Spelt
<1> HIDE DEF m, data, h
<1>11. SizeArg(Len(was.data)) = v
  <2>1. m < Huge
    BY <1>0, <1>2, <1>5, <1>8 DEF Huge
  <2> QED BY <1>5, <1>9, <1>10, <2>1
<1> DEFINE enc == h \o data
<1>12. /\ enc \in Seq(Byte) /\ Len(h) \in Nat
       /\ Len(enc) = Len(h) + m
       /\ Spelt(enc, 0, h, Len(h)) /\ Spelt(enc, Len(h), data, m)
  BY <1>4, <1>10, Joined
<1>13. ~ t => Spelt(b, p, enc, 1 + n + m) /\ Len(h) = 1 + n
  <2> SUFFICES ASSUME ~ t PROVE Spelt(b, p, enc, 1 + n + m) /\ Len(h) = 1 + n
    OBVIOUS
  <2>1. mt # SIMPLE
    BY <1>6 DEF SIMPLE, BSTR, TSTR
  <2>2. Len(h) = 1 + n /\ Spelt(b, p, h, 1 + n)
    BY <1>1, <1>4, <2>1
  <2>3. Spelt(b, p, h, Len(h)) /\ Spelt(b, p + Len(h), data, Len(data))
    <3>1. p + Len(h) = p + 1 + n
      BY <1>2, <2>2
    <3> QED BY <1>10, <2>2, <3>1
  <2>4. Spelt(b, p, h \o data, Len(h) + Len(data))
    BY <1>4, <1>10, <2>3, SpeltInParts
  <2> QED BY <1>10, <2>2, <2>4
<1>14. DecodeHead(enc, 0, FALSE) = Item("ok", mt, v, data, Len(h) + m)
  <2> DEFINE z == 0
             strict == FALSE
  <2>1. /\ z \in Nat /\ Len(enc) \in Nat /\ z + Len(h) <= Len(enc)
        /\ Spelt(enc, z, h, Len(h)) /\ z + Len(h) = Len(h)
    BY <1>5, <1>12
  <2>2. mt # SIMPLE /\ h = HeadOf(mt, v)
    BY <1>6 DEF h, SIMPLE, BSTR, TSTR
  <2> HIDE DEF z, strict, enc
  <2>3. DecodeHead(enc, z, strict) = Found(enc, mt, v, z + Len(h))
    BY <1>4, <2>1, <2>2, ReadsHeadOf
  <2> DEFINE i == Len(h)
  <2>4. DecodeHead(enc, z, strict) = DecodeString(enc, mt, v, i)
    BY <1>6, <2>1, <2>3 DEF Found
  <2>5. /\ i \in Nat /\ Spelt(enc, i, data, m) /\ i + m <= Len(enc) /\ m = AsNat(v)
    BY <1>5, <1>12 DEF m
  <2> HIDE DEF i
  <2>6. data = Bytes(enc, i, m)
    BY <1>5, <1>10, <1>12, <2>5, SpeltIs
  <2>7. mt = TSTR => IsUtf8(Bytes(enc, i, m))
    BY <1>8, <2>6
  <2>8. DecodeString(enc, mt, v, i) = Item("ok", mt, v, Bytes(enc, i, m), i + m)
    BY <1>5, <2>1, <2>5, <2>7, StringIsFound
  <2> QED BY <2>4, <2>6, <2>8 DEF z, strict, i
<1> HIDE DEF enc
<1>15. EncodesBack(b, p, t, was, enc)
  <2> DEFINE again == DecodeHead(enc, 0, FALSE)
  <2>1. again = Item("ok", mt, v, data, Len(h) + m)
    BY <1>14
  <2> HIDE DEF again
  <2>2. again.ret = "ok" /\ again.mt = mt /\ again.val = v /\ again.data = data
    BY <2>1 DEF Item
  <2>3. again.ret = "ok" /\ again.mt = was.mt /\ again.val = was.val /\ again.data = was.data
    BY <1>9, <2>2
  <2>4. Len(enc) <= was.idx - p /\ was.idx - p = 1 + n + m
    BY <1>2, <1>4, <1>5, <1>9, <1>12
  <2>5. ~ t => enc = Bytes(b, p, was.idx - p)
    <3> SUFFICES ASSUME ~ t PROVE enc = Bytes(b, p, was.idx - p)
      OBVIOUS
    <3> DEFINE all == 1 + n + m
    <3>1. /\ all \in Nat /\ Len(enc) = all /\ p + all <= Len(b) /\ Spelt(b, p, enc, all)
      BY <1>2, <1>5, <1>8, <1>12, <1>13
    <3> HIDE DEF all
    <3>2. enc = Bytes(b, p, all)
      BY <1>12, <3>1, SpeltIs
    <3> QED BY <2>4, <3>2 DEF all
  <2> QED BY <2>3, <2>4, <2>5 DEF EncodesBack, again
<1> QED BY <1>9, <1>11, <1>15 DEF enc, h

-----------------------------------------------------------------------------
(* What the calls keep.                                                    *)

\* A context whose cursor is inside its buffer.
IsContext(c) ==
    /\ c = [buf |-> c.buf, idx |-> c.idx]
    /\ c.buf \in Seq(Byte) /\ Len(c.buf) \in Nat /\ Len(c.buf) < Huge
    /\ c.idx \in Nat /\ c.idx <= Len(c.buf)

\* The bytes of an item, stored at the cursor.
LEMMA StoreIs ==
    ASSUME IsContext(ctx), NEW bytes \in Seq(Byte),
           HasRoom(Len(bytes))
    PROVE  LET c == Store(bytes)
           IN  /\ IsContext(c) /\ Len(c.buf) = Len(ctx.buf)
               /\ c.idx = ctx.idx + Len(bytes)
               /\ Spelt(c.buf, ctx.idx, bytes, Len(bytes))
               /\ \A i \in 1 .. Len(ctx.buf) :
                      i \notin (ctx.idx + 1) .. c.idx => c.buf[i] = ctx.buf[i]
<1> DEFINE b   == ctx.buf
           p   == ctx.idx
           n   == Len(bytes)
           end == p + n
           l   == SubSeq(b, 1, p)
           r   == SubSeq(b, end + 1, Len(b))
           w   == l \o bytes \o r
           c   == Store(bytes)
<1>1. /\ b \in Seq(Byte) /\ Len(b) \in Nat /\ Len(b) < Huge
      /\ p \in Nat /\ n \in Nat /\ p + n <= Len(b)
  BY LenProperties DEF IsContext, HasRoom
<1>2. c = [buf |-> w, idx |-> end]
  BY DEF Store
<1> HIDE DEF c, b, p, n
<1>3. \A i \in 1 .. Len(b) : b[i] \in Byte
  BY <1>1, ElementOfSeq
<1>4. /\ l \in Seq(Byte) /\ Len(l) = p /\ \A i \in 1 .. p : l[i] = b[i]
  <2>1. 1 \in Int /\ p \in Int /\ \A i \in 1 .. p : b[i] \in Byte
    BY <1>1, <1>3
  <2>2. /\ l \in Seq(Byte) /\ Len(l) = (IF 1 <= p THEN p - 1 + 1 ELSE 0)
        /\ \A i \in 1 .. p - 1 + 1 : l[i] = b[1 + i - 1]
    BY <2>1, SubSeqProperties
  <2>3. p - 1 + 1 = p /\ \A i \in 1 .. p : 1 + i - 1 = i
    BY <1>1
  <2> HIDE DEF l
  <2> QED BY <1>1, <2>2, <2>3
<1>5. /\ r \in Seq(Byte) /\ Len(r) = Len(b) - end
      /\ \A i \in 1 .. Len(b) - end : r[i] = b[end + i]
  <2> DEFINE from == end + 1
             to   == Len(b)
             left == Len(b) - end
  <2>1. from \in Int /\ to \in Int /\ \A i \in from .. to : b[i] \in Byte
    BY <1>1, <1>3
  <2>2. /\ left \in Nat /\ to - from + 1 = left /\ (from > to => left = 0)
        /\ \A i \in 1 .. left : from + i - 1 = end + i
    BY <1>1
  <2>3. r = SubSeq(b, from, to)
    OBVIOUS
  <2> HIDE DEF from, to, left, r
  <2>4. /\ r \in Seq(Byte)
        /\ Len(r) = (IF from <= to THEN to - from + 1 ELSE 0)
        /\ \A i \in 1 .. to - from + 1 : r[i] = b[from + i - 1]
    BY <2>1, <2>3, SubSeqProperties
  <2>5. /\ r \in Seq(Byte) /\ Len(r) = left
        /\ \A i \in 1 .. left : r[i] = b[from + i - 1]
    BY <2>1, <2>2, <2>4
  <2>6. \A i \in 1 .. left : r[i] = b[end + i]
    BY <2>2, <2>5
  <2> QED BY <2>5, <2>6 DEF left
<1> HIDE DEF l, r
<1>6. /\ l \o bytes \in Seq(Byte) /\ Len(l \o bytes) = end
      /\ Spelt(l \o bytes, 0, l, p) /\ Spelt(l \o bytes, p, bytes, n)
  BY <1>4, Joined DEF n
<1> DEFINE front == l \o bytes
<1>7. /\ front \in Seq(Byte) /\ Len(front) = end
      /\ Spelt(front, 0, l, p) /\ Spelt(front, p, bytes, n)
  BY <1>6
<1>8. w = front \o r
  OBVIOUS
<1> HIDE DEF front, w
<1>9. /\ w \in Seq(Byte) /\ Len(w) = Len(b)
      /\ Spelt(w, 0, front, end) /\ Spelt(w, end, r, Len(b) - end)
  <2>1. /\ front \o r \in Seq(Byte) /\ Len(front \o r) = Len(front) + Len(r)
        /\ Spelt(front \o r, 0, front, Len(front)) /\ Spelt(front \o r, Len(front), r, Len(r))
    BY <1>5, <1>7, Joined
  <2>2. Len(front) + Len(r) = Len(b)
    BY <1>1, <1>5, <1>7
  <2>3. /\ w \in Seq(Byte) /\ Len(w) = Len(front) + Len(r)
        /\ Spelt(w, 0, front, Len(front)) /\ Spelt(w, Len(front), r, Len(r))
    BY Zenon, <1>8, <2>1
  <2> HIDE DEF end
  <2> QED BY <1>5, <1>7, <2>2, <2>3
<1>10. Spelt(w, p, bytes, n)
  <2> SUFFICES ASSUME NEW k \in 1 .. n PROVE w[p + k] = bytes[k]
    BY DEF Spelt
  <2>1. p + k \in 1 .. end /\ 0 + (p + k) = p + k
    BY <1>1
  <2> QED BY <1>7, <1>9, <2>1 DEF Spelt
<1>11. ASSUME NEW i \in 1 .. Len(b), i \notin (p + 1) .. end
       PROVE  w[i] = b[i]
  <2>1. CASE i <= p
    <3>1. i \in 1 .. p /\ i \in 1 .. end /\ 0 + i = i
      BY <1>1, <2>1
    <3> QED BY <1>4, <1>7, <1>9, <3>1 DEF Spelt
  <2>2. CASE end < i
    <3> DEFINE j == i - end
    <3>1. j \in 1 .. Len(b) - end /\ end + j = i
      BY <1>1, <2>2
    <3> HIDE DEF j
    <3> QED BY <1>5, <1>9, <3>1 DEF Spelt
  <2> QED BY <1>1, <1>11, <2>1, <2>2
<1>12. c.buf = w /\ c.idx = end
  BY <1>2
<1>13. IsContext(c)
  BY <1>1, <1>2, <1>9, <1>12 DEF IsContext
<1> QED BY <1>9, <1>10, <1>11, <1>12, <1>13 DEF b, p, n, c

-----------------------------------------------------------------------------
(* The bytes of an item, and what a reader has of them.                    *)

\* Wherever these bytes stand, either reader takes them for this item.
Reads(bytes, mt, v, data) ==
    \A b \in Seq(Byte), p \in Nat, t \in BOOLEAN :
        p + Len(bytes) <= Len(b) /\ Spelt(b, p, bytes, Len(bytes)) =>
            DecodeHead(b, p, t) = Item("ok", mt, v, data, p + Len(bytes))

\* A head is bytes, at least one.
LEMMA HeadBytes ==
    ASSUME NEW mt \in Int, 0 <= mt, mt <= 7, NEW v \in Arg
    PROVE  LET h == HeadOf(mt, v)
           IN  /\ h \in Seq(Byte) /\ Len(h) \in Nat /\ 0 < Len(h)
               /\ Len(h) = 1 + Width(v)
<1> DEFINE h == HeadOf(mt, v)
           n == Width(v)
<1>1. h \in Seq(Byte) /\ Len(h) = 1 + n /\ n \in {0, 1, 2, 4, 8}
  BY HeadParts
<1> HIDE DEF h, n
<1>2. Len(h) \in Nat /\ 0 < Len(h)
  BY <1>1
<1> QED BY <1>1, <1>2 DEF h, n

\* Wherever a head stands that is not of a string, it is read.
LEMMA HeadReads ==
    ASSUME NEW mt \in Int, 0 <= mt, mt <= 7, mt # SIMPLE,
           mt \notin {BSTR, TSTR}, NEW v \in Arg
    PROVE  Reads(HeadOf(mt, v), mt, v, <<>>)
<1> DEFINE h == HeadOf(mt, v)
<1>1. h = HeadOf(mt, v)
  OBVIOUS
<1> HIDE DEF h
<1> SUFFICES ASSUME NEW b \in Seq(Byte), NEW p \in Nat, NEW t \in BOOLEAN,
                    p + Len(h) <= Len(b), Spelt(b, p, h, Len(h))
             PROVE  DecodeHead(b, p, t) = Item("ok", mt, v, <<>>, p + Len(h))
  BY <1>1 DEF Reads
<1>2. Len(b) \in Nat
  BY LenProperties
<1>3. DecodeHead(b, p, t) = Found(b, mt, v, p + Len(h))
  BY <1>1, <1>2, ReadsHeadOf
<1> QED BY <1>3 DEF Found

\* Wherever a string stands, it is read.
LEMMA StringReads ==
    ASSUME NEW mt \in {BSTR, TSTR}, NEW data \in Seq(Byte),
           Len(data) < Huge, mt = TSTR => IsUtf8(data)
    PROVE  LET v == SizeArg(Len(data))
               h == HeadOf(mt, v)
           IN  /\ v \in Arg
               /\ h \in Seq(Byte) /\ Len(h) \in Nat /\ 0 < Len(h)
               /\ Len(h) = 1 + Width(v)
               /\ h \o data \in Seq(Byte) /\ Len(h \o data) = Len(h) + Len(data)
               /\ Reads(h \o data, mt, v, data)
<1> DEFINE m == Len(data)
           v == SizeArg(m)
           h == HeadOf(mt, v)
           w == h \o data
<1>1. m \in Nat /\ m < Huge
  BY LenProperties
<1> HIDE DEF m
<1>2. v \in Arg /\ AsNat(v) = m
  BY <1>1, SizeArgIs
<1> HIDE DEF v
<1>3. mt \in Int /\ 0 <= mt /\ mt <= 7 /\ mt # SIMPLE
  BY DEF BSTR, TSTR, SIMPLE
<1>4. h \in Seq(Byte) /\ Len(h) \in Nat /\ 0 < Len(h) /\ Len(h) = 1 + Width(v)
  BY <1>2, <1>3, HeadBytes
<1>5. h = HeadOf(mt, v)
  OBVIOUS
<1> HIDE DEF h
<1>6. /\ w \in Seq(Byte) /\ Len(w) = Len(h) + m
      /\ Spelt(w, 0, h, Len(h)) /\ Spelt(w, Len(h), data, m)
  BY <1>4, Joined DEF m
<1> HIDE DEF w
<1>7. ASSUME NEW b \in Seq(Byte), NEW p \in Nat, NEW t \in BOOLEAN,
             p + Len(w) <= Len(b), Spelt(b, p, w, Len(w))
      PROVE  DecodeHead(b, p, t) = Item("ok", mt, v, data, p + Len(w))
  <2> DEFINE n == Len(h)
             i == p + n
  <2>1. /\ Len(b) \in Nat /\ n \in Nat /\ i \in Nat /\ p + n <= Len(b) /\ i + m <= Len(b)
        /\ p + Len(w) = i + m /\ i <= Len(b)
    BY <1>1, <1>4, <1>6, <1>7, LenProperties
  <2>2. Spelt(b, p, h, n)
    <3> SUFFICES ASSUME NEW k \in 1 .. n PROVE b[p + k] = h[k]
      BY DEF Spelt
    <3>1. k \in 1 .. Len(w) /\ 0 + k = k
      BY <1>1, <1>6, <2>1
    <3> QED BY <1>6, <1>7, <3>1 DEF Spelt
  <2>3. Spelt(b, i, data, m)
    <3> SUFFICES ASSUME NEW k \in 1 .. m PROVE b[i + k] = data[k]
      BY DEF Spelt
    <3> DEFINE j == n + k
    <3>1. j \in 1 .. Len(w) /\ p + j = i + k
      BY <1>1, <1>6, <2>1
    <3>2. w[j] = data[k]
      BY <1>6 DEF Spelt
    <3> HIDE DEF j
    <3> QED BY <1>7, <3>1, <3>2 DEF Spelt
  <2>4. DecodeHead(b, p, t) = Found(b, mt, v, p + n)
    <3> HIDE DEF i
    <3>1. p + Len(h) <= Len(b) /\ Spelt(b, p, h, Len(h))
      BY <2>1, <2>2
    <3> QED BY <1>2, <1>3, <1>5, <2>1, <3>1, ReadsHeadOf
  <2> HIDE DEF n
  <2>5. DecodeHead(b, p, t) = DecodeString(b, mt, v, i)
    BY <2>4 DEF Found
  <2> HIDE DEF i
  <2>6. data = Bytes(b, i, m)
    BY <1>1, <2>1, <2>3, SpeltIs DEF m
  <2>7. mt = TSTR => IsUtf8(Bytes(b, i, m))
    BY <2>6
  <2>8. DecodeString(b, mt, v, i) = Item("ok", mt, v, Bytes(b, i, m), i + m)
    BY <1>1, <1>2, <2>1, <2>7, StringIsFound
  <2> QED BY <2>1, <2>5, <2>6, <2>8
<1>8. Reads(w, mt, v, data)
  BY <1>7 DEF Reads
<1> QED BY <1>2, <1>4, <1>6, <1>8 DEF m, v, h, w

\* One byte, and bytes behind it, wherever they stand.
LEMMA SpeltBehind ==
    ASSUME NEW x \in Byte, NEW s \in Seq(Byte), NEW b, NEW p \in Nat, NEW n,
           n = Len(<<x>> \o s), Spelt(b, p, <<x>> \o s, n)
    PROVE  b[p + 1] = x /\ Spelt(b, p + 1, s, Len(s))
<1> DEFINE w == <<x>> \o s
           m == Len(s)
<1>1. /\ Len(w) = 1 + m /\ w[1] = x /\ m \in Nat
      /\ \A k \in 1 .. m : w[1 + k] = s[k]
  BY InFront, LenProperties
<1>2. \A k \in 1 .. Len(w) : b[p + k] = w[k]
  BY DEF Spelt
<1> HIDE DEF w, m
<1>3. b[p + 1] = x
  BY <1>1, <1>2
<1>4. \A k \in 1 .. m : b[(p + 1) + k] = s[k]
  <2> TAKE k \in 1 .. m
  <2>1. 1 + k \in 1 .. Len(w) /\ (p + 1) + k = p + (1 + k)
    BY <1>1
  <2> QED BY <1>1, <1>2, <2>1
<1> QED BY <1>3, <1>4 DEF m, Spelt

\* Wherever a float stands, its bits are read.
LEMMA FloatReads ==
    ASSUME NEW v \in Arg, v[1] = 0, v[2] = 0
    PROVE  LET w == <<250>> \o BE32(v)
           IN  w \in Seq(Byte) /\ 0 < Len(w) /\ Reads(w, SIMPLE, v, <<>>)
<1> DEFINE x == 250
           s == Tail4(v)
           w == <<x>> \o s
<1>1. x \in Byte /\ s \in Seq(Byte)
  BY BE32Is DEF Byte
<1>2. BE32(v) = s /\ Len(s) = 4
  BY BE32Is DEF Tail4
<1>3. v = <<0, 0, v[3], v[4]>>
  BY ArgLimbs
<1> DEFINE u == <<0, 0, v[3], v[4]>>
<1> HIDE DEF s, x
<1>4. w \in Seq(Byte) /\ Len(w) = 5
  <2>1. w \in Seq(Byte) /\ Len(w) = 1 + Len(s)
    BY <1>1, InFront
  <2> QED BY <1>2, <2>1
<1> DEFINE n == Len(w)
<1>5. ASSUME NEW b \in Seq(Byte), NEW p \in Nat, NEW t \in BOOLEAN,
             p + n <= Len(b), Spelt(b, p, w, n)
      PROVE  DecodeHead(b, p, t) = Item("ok", SIMPLE, v, <<>>, p + n)
  <2>1. Len(b) \in Nat
    BY LenProperties
  <2>2. b[p + 1] = x /\ Spelt(b, p + 1, s, Len(s))
    BY <1>1, <1>5, SpeltBehind
  <2> HIDE DEF w, n, u
  <2>3. DecodeHead(b, p, t) = Item("ok", SIMPLE, u, <<>>, p + 5)
    <3>1. b[p + 1] = 250 /\ p + 5 <= Len(b) /\ Spelt(b, p + 1, Tail4(v), 4)
      BY <1>2, <1>4, <1>5, <2>2 DEF s, x, n
    <3>2. DecodeHead(b, p, t) =
              Item("ok", SIMPLE, <<0, 0, v[3], v[4]>>, <<>>, p + 5)
      BY <2>1, <3>1, ReadsFloat
    <3> QED BY <3>2 DEF u
  <2>4. n = 5
    BY <1>4 DEF n
  <2>5. u = v
    BY <1>3 DEF u
  <2> QED BY <2>3, <2>4, <2>5
<1>6. Reads(w, SIMPLE, v, <<>>)
  BY <1>5 DEF Reads
<1>7. <<250>> \o BE32(v) = w
  BY <1>2 DEF x
<1>8. 0 < Len(w)
  BY <1>4
<1> HIDE DEF w
<1> QED BY <1>4, <1>6, <1>7, <1>8

\* Wherever a double stands, its bits are read.
LEMMA DoubleReads ==
    ASSUME NEW v \in Arg
    PROVE  LET w == <<251>> \o BE64(v)
           IN  w \in Seq(Byte) /\ 0 < Len(w) /\ Reads(w, SIMPLE, v, <<>>)
<1> DEFINE x == 251
           s == Tail8(v)
           w == <<x>> \o s
<1>1. x \in Byte /\ s \in Seq(Byte)
  BY BE64Is DEF Byte
<1>2. BE64(v) = s /\ Len(s) = 8
  BY BE64Is DEF Tail8
<1> HIDE DEF s, x
<1>4. w \in Seq(Byte) /\ Len(w) = 9
  <2>1. w \in Seq(Byte) /\ Len(w) = 1 + Len(s)
    BY <1>1, InFront
  <2> QED BY <1>2, <2>1
<1> DEFINE n == Len(w)
<1>5. ASSUME NEW b \in Seq(Byte), NEW p \in Nat, NEW t \in BOOLEAN,
             p + n <= Len(b), Spelt(b, p, w, n)
      PROVE  DecodeHead(b, p, t) = Item("ok", SIMPLE, v, <<>>, p + n)
  <2>1. Len(b) \in Nat
    BY LenProperties
  <2>2. b[p + 1] = x /\ Spelt(b, p + 1, s, Len(s))
    BY <1>1, <1>5, SpeltBehind
  <2> HIDE DEF w, n
  <2>3. b[p + 1] = 251 /\ p + 9 <= Len(b) /\ Spelt(b, p + 1, Tail8(v), 8)
    BY <1>2, <1>4, <1>5, <2>2 DEF s, x, n
  <2>4. DecodeHead(b, p, t) = Item("ok", SIMPLE, v, <<>>, p + 9)
    BY <2>1, <2>3, ReadsDouble
  <2>5. n = 9
    BY <1>4 DEF n
  <2> QED BY <2>4, <2>5
<1>6. Reads(w, SIMPLE, v, <<>>)
  BY <1>5 DEF Reads
<1>7. <<251>> \o BE64(v) = w
  BY <1>2 DEF x
<1>8. 0 < Len(w)
  BY <1>4
<1> HIDE DEF w
<1> QED BY <1>4, <1>6, <1>7, <1>8

\* Wherever false, true or null stands, it is read.
LEMMA SimpleReads ==
    ASSUME NEW s \in {20, 21, 22}
    PROVE  LET w == <<224 + s>>
           IN  /\ w \in Seq(Byte) /\ 0 < Len(w)
               /\ Reads(w, SIMPLE, Small(s), <<>>)
<1> DEFINE x == 224 + s
           w == <<x>>
           n == Len(w)
<1>1. x \in Byte
  BY DEF Byte
<1> HIDE DEF x
<1>2. w \in Seq(Byte) /\ n = 1 /\ w[1] = x
  BY <1>1
<1>3. ASSUME NEW b \in Seq(Byte), NEW p \in Nat, NEW t \in BOOLEAN,
             p + n <= Len(b), Spelt(b, p, w, n)
      PROVE  DecodeHead(b, p, t) =
                 Item("ok", SIMPLE, Small(s), <<>>, p + n)
  <2> HIDE DEF w, n
  <2>1. Len(b) \in Nat
    BY LenProperties
  <2>2. b[p + 1] = 224 + s /\ p + 1 <= Len(b)
    BY <1>2, <1>3 DEF Spelt, x
  <2>3. DecodeHead(b, p, t) = Item("ok", SIMPLE, Small(s), <<>>, p + 1)
    BY <2>1, <2>2, ReadsSimple
  <2> QED BY <1>2, <2>3
<1>4. Reads(w, SIMPLE, Small(s), <<>>)
  BY <1>3 DEF Reads
<1>5. 0 < Len(w)
  BY <1>2
<1>6. <<224 + s>> = w
  BY DEF x
<1> HIDE DEF w
<1> QED BY <1>2, <1>4, <1>5, <1>6

\* -1 - n is the complement of n.
LEMMA MinusIs == ASSUME NEW n PROVE MinusOneMinus(n) = Complement(n)
BY DEF MinusOneMinus, Complement

\* An integer: its sign is in the major type, and the argument of a negative
\* one is its complement, in either direction.
IntType(v) == IF Negative(v) THEN NEGINT ELSE UINT
IntArg(v)  == IF Negative(v) THEN Complement(v) ELSE v

\* The head of an integer, and what its argument stands for.
LEMMA IntHeadIs ==
    ASSUME NEW v \in Arg
    PROVE  /\ IntHead(v) = HeadOf(IntType(v), IntArg(v))
           /\ IntArg(v) \in Arg /\ ~ Negative(IntArg(v))
           /\ IntType(v) \in {UINT, NEGINT}
           /\ IntType(v) = NEGINT <=> Negative(v)
           /\ Negative(v) => MinusOneMinus(IntArg(v)) = v
           /\ ~ Negative(v) => IntArg(v) = v
<1>1. UINT # NEGINT
  BY DEF UINT, NEGINT
<1>2. /\ NegativeArg(v) = Complement(v)
      /\ Complement(v) \in Arg
      /\ Complement(Complement(v)) = v
      /\ Negative(Complement(v)) <=> ~ Negative(v)
  BY NegativeArgIs, ComplementIs
<1>3. MinusOneMinus(Complement(v)) = Complement(Complement(v))
  BY MinusIs
<1>4. CASE Negative(v)
  BY <1>1, <1>2, <1>3, <1>4 DEF IntHead, IntType, IntArg
<1>5. CASE ~ Negative(v)
  BY <1>1, <1>2, <1>5 DEF IntHead, IntType, IntArg
<1> QED BY <1>4, <1>5

\* What DecodeInt makes of a head, encoded as an integer, is the head.
LEMMA IntValIs ==
    ASSUME NEW item, item.mt \in {UINT, NEGINT}, item.val \in Arg,
           ~ Negative(item.val)
    PROVE  /\ IntVal(item) \in Arg
           /\ IntType(IntVal(item)) = item.mt /\ IntArg(IntVal(item)) = item.val
           /\ IntHead(IntVal(item)) = HeadOf(item.mt, item.val)
<1> DEFINE v == IntVal(item)
           c == Complement(item.val)
<1>1. UINT # NEGINT
  BY DEF UINT, NEGINT
<1>2. c \in Arg /\ Complement(c) = item.val /\ Negative(c)
  BY ComplementIs
<1>3. MinusOneMinus(item.val) = c
  BY MinusIs
<1>4. v = IF item.mt = NEGINT THEN c ELSE item.val
  BY <1>3 DEF IntVal
<1> HIDE DEF v, c
<1>5. v \in Arg /\ IntType(v) = item.mt /\ IntArg(v) = item.val
  BY <1>1, <1>2, <1>4 DEF IntType, IntArg
<1>6. IntHead(v) = HeadOf(item.mt, item.val)
  BY <1>5, IntHeadIs
<1> QED BY <1>5, <1>6 DEF v

-----------------------------------------------------------------------------
(* The items in the buffer.                                                *)

\* The head of an item that was written.
TypeOf(it) ==
    IF it.kind = "uint" THEN UINT
    ELSE IF it.kind = "int" THEN IntType(it.val)
    ELSE IF it.kind = "bstr" THEN BSTR
    ELSE IF it.kind = "tstr" THEN TSTR
    ELSE IF it.kind = "array" THEN ARRAY
    ELSE IF it.kind = "map" THEN MAP
    ELSE IF it.kind = "tag" THEN TAG
    ELSE SIMPLE

ArgOf(it) ==
    IF it.kind = "int" THEN IntArg(it.val)
    ELSE IF it.kind \in {"bstr", "tstr"} THEN SizeArg(Len(it.data))
    ELSE it.val

Kinds == {"uint", "int", "tag", "array", "map", "simple", "bstr", "tstr", "stray"}

Entry == [kind : Kinds, val : Arg, data : Seq(Byte), from : Nat, to : Nat]

\* An item stands where the log says: a reader there has it, unless it is the
\* head of a string whose contents did not fit.
Standing(b, it) ==
    \E bytes \in Seq(Byte) :
        /\ it.to = it.from + Len(bytes) /\ it.to <= Len(b)
        /\ Spelt(b, it.from, bytes, Len(bytes))
        /\ it.kind # "stray" => Reads(bytes, TypeOf(it), ArgOf(it), it.data)

\* The items follow each other from the beginning of a buffer to a place in it,
\* each of at least a byte.
LaidIn(l, b, end) ==
    /\ l \in Seq(Entry) /\ Len(l) \in Nat
    /\ Len(l) = 0 => end = 0
    /\ Len(l) # 0 => l[1].from = 0 /\ l[Len(l)].to = end
    /\ \A i \in 1 .. Len(l) :
           /\ l[i].from < l[i].to /\ Len(l) - i <= end - l[i].to
           /\ Standing(b, l[i])
           /\ i # Len(l) => l[i + 1].from = l[i].to
    /\ \A i, j \in 1 .. Len(l) :
           /\ i < j => l[i].to <= l[j].from

\* An item stands as long as the bytes up to its end do.
LEMMA StandsStill ==
    ASSUME NEW it \in Entry, NEW b, Standing(b, it), NEW u, it.to <= Len(u),
           \A i \in 1 .. it.to : u[i] = b[i]
    PROVE  Standing(u, it)
<1>1. PICK bytes \in Seq(Byte) :
          /\ it.to = it.from + Len(bytes) /\ it.to <= Len(b)
          /\ Spelt(b, it.from, bytes, Len(bytes))
          /\ it.kind # "stray" => Reads(bytes, TypeOf(it), ArgOf(it), it.data)
  BY DEF Standing
<1> DEFINE p == it.from
           n == Len(bytes)
           end == it.to
<1>2. p \in Nat /\ n \in Nat /\ end = p + n
  BY <1>1, LenProperties DEF Entry
<1>3. Spelt(b, p, bytes, n) /\ \A i \in 1 .. end : u[i] = b[i]
  BY <1>1
<1> HIDE DEF p, n, end
<1>4. Spelt(u, p, bytes, n)
  <2> SUFFICES ASSUME NEW k \in 1 .. n PROVE u[p + k] = bytes[k]
    BY DEF Spelt
  <2>1. p + k \in 1 .. end
    BY <1>2
  <2> QED BY <1>3, <2>1 DEF Spelt
<1> QED BY <1>1, <1>4 DEF p, n, Standing

\* One more item.
LEMMA OneMoreLaid ==
    ASSUME NEW l, NEW b, NEW end \in Nat, LaidIn(l, b, end),
           NEW it \in Entry, it.from = end, it.from < it.to,
           NEW u, end <= Len(u), Len(u) \in Nat,
           \A i \in 1 .. end : u[i] = b[i], Standing(u, it)
    PROVE  LaidIn(Append(l, it), u, it.to)
<1> DEFINE n == Len(l)
           a == Append(l, it)
           to == it.to
<1>1. /\ l \in Seq(Entry) /\ n \in Nat /\ (n = 0 => end = 0)
      /\ n # 0 => l[1].from = 0 /\ l[n].to = end
  BY DEF LaidIn
<1>2. ASSUME NEW i \in 1 .. n
      PROVE  /\ l[i] \in Entry /\ l[i].from < l[i].to /\ n - i <= end - l[i].to
             /\ Standing(b, l[i])
             /\ i # n => l[i + 1].from = l[i].to
  BY <1>1, ElementOfSeq DEF LaidIn
<1>3. \A i, j \in 1 .. n : i < j => l[i].to <= l[j].from
  BY DEF LaidIn
<1>4. /\ a \in Seq(Entry) /\ Len(a) = n + 1
      /\ \A i \in 1 .. n : a[i] = l[i]
      /\ a[n + 1] = it
  BY <1>1, AppendProperties
<1> HIDE DEF n, a
<1>5. ASSUME NEW i \in 1 .. n
      PROVE  Standing(u, l[i]) /\ l[i].to \in Nat /\ l[i].to <= end
  <2> DEFINE e == l[i]
             at == e.to
  <2>4. e \in Entry /\ n - i <= end - at /\ i <= n /\ n \in Int /\ i \in Int
    BY <1>1, <1>2
  <2>5. at \in Nat
    BY <2>4 DEF Entry
  <2>6. at <= end
    <3> HIDE DEF at, e
    <3> QED BY <2>4, <2>5
  <2>1. l[i].to \in Nat /\ l[i].to <= end
    BY <2>5, <2>6
  <2>2. e \in Entry /\ Standing(b, e) /\ e.to <= Len(u) /\ \A k \in 1 .. e.to : u[k] = b[k]
    BY <1>2, <2>1
  <2> HIDE DEF e
  <2>3. Standing(u, e)
    BY <2>2, StandsStill
  <2> QED BY <2>1, <2>3 DEF e
<1>6. to \in Nat /\ end < to
  BY DEF Entry
<1>7. /\ Len(a) \in Nat /\ Len(a) # 0
      /\ a[1].from = 0 /\ a[Len(a)].to = to
  <2>1. CASE n = 0
    BY <1>1, <1>4, <2>1
  <2>2. CASE n # 0
    BY <1>1, <1>4, <2>2
  <2> QED BY <2>1, <2>2
<1>8. ASSUME NEW i \in 1 .. Len(a)
      PROVE  /\ a[i].from < a[i].to /\ Len(a) - i <= to - a[i].to
             /\ Standing(u, a[i])
             /\ i # Len(a) => a[i + 1].from = a[i].to
  <2>1. CASE i = n + 1
    BY <1>4, <1>6, <2>1
  <2>2. CASE i \in 1 .. n
    <3>1. a[i] = l[i]
      BY <1>4, <2>2
    <3>2. l[i].from < l[i].to /\ n - i <= end - l[i].to /\ Standing(u, l[i])
      BY <1>2, <1>5, <2>2
    <3>3. Len(a) - i <= to - l[i].to
      BY <1>1, <1>4, <1>5, <1>6, <2>2, <3>2
    <3>4. a[i + 1].from = l[i].to
      <4>1. CASE i = n
        <5>1. a[n + 1] = it /\ l[n].to = end
          BY <1>1, <1>4, <4>1
        <5> QED BY <4>1, <5>1
      <4>2. CASE i # n
        <5>1. i + 1 \in 1 .. n
          BY <1>1, <2>2, <4>2
        <5> QED BY <1>2, <1>4, <2>2, <4>2, <5>1
      <4> QED BY <4>1, <4>2
    <3> QED BY <3>1, <3>2, <3>3, <3>4
  <2> QED BY <1>1, <1>4, <2>1, <2>2
<1>9. ASSUME NEW i \in 1 .. Len(a), NEW j \in 1 .. Len(a), i < j
      PROVE  a[i].to <= a[j].from
  <2>1. i \in 1 .. n /\ a[i] = l[i]
    BY <1>1, <1>4, <1>9
  <2>2. CASE j = n + 1
    BY <1>4, <1>5, <2>1, <2>2
  <2>3. CASE j \in 1 .. n
    BY <1>3, <1>4, <1>9, <2>1, <2>3
  <2> QED BY <1>1, <1>4, <2>2, <2>3
<1>10. LaidIn(a, u, to)
  BY <1>4, <1>7, <1>8, <1>9 DEF LaidIn
<1> QED BY <1>10 DEF a

-----------------------------------------------------------------------------
(* The calls.                                                              *)

Held ==
    /\ IsContext(ctx)
    /\ mode \in {"encode", "decode"} /\ flags \in BOOLEAN

\* What was written is in the buffer, up to the cursor; what is read is that,
\* or the bytes of someone else.
Listed ==
    /\ mode = "encode" => LaidIn(log, ctx.buf, ctx.idx)
    /\ mode = "decode" => log = <<>> \/ LaidIn(log, ctx.buf, Len(ctx.buf))

\* The answer of a decoder to a head: a container has to have room for its
\* items in what is left of the buffer.
ContainerAnswer(item, mt, perCount, len) ==
    IF Typed(item, mt) = "ok" /\ ~ (AsNat(item.val) <= (len - item.idx) \div perCount)
    THEN "malformed" ELSE Typed(item, mt)

Answer(op, item, len) ==
    IF op = "head" THEN item.ret
    ELSE IF op = "uint" THEN Typed(item, UINT)
    ELSE IF op = "tag" THEN Typed(item, TAG)
    ELSE IF op = "bstr" THEN Typed(item, BSTR)
    ELSE IF op = "tstr" THEN Typed(item, TSTR)
    ELSE IF op = "array" THEN ContainerAnswer(item, ARRAY, 1, len)
    ELSE IF op = "map" THEN ContainerAnswer(item, MAP, 2, len)
    ELSE IF op = "label" /\ item.mt = TSTR THEN item.ret
    ELSE IntCode(item)

Given(op, item) == IF op \in {"int", "label"} THEN IntVal(item) ELSE item.val

\* What is kept of the last call of a reader is what it said of the head at the
\* place where it was made.
Told ==
    mode = "decode" /\ last.op # "none" =>
        LET was == DecodeHead(ctx.buf, last.from, flags)
        IN  /\ last.from \in 0 .. Len(ctx.buf)
            /\ last.mt = was.mt /\ last.to = was.idx
            /\ last.ret = Answer(last.op, was, Len(ctx.buf))
            /\ last.ret = "ok" => last.data = was.data /\ last.val = Given(last.op, was)

Kept == Held /\ Listed /\ Told /\ StaysOnItems

\* A call writes at the cursor, and as far as it moves it.
Ahead ==
    /\ ctx'.idx \in ctx.idx .. Len(ctx'.buf) /\ Len(ctx'.buf) = Len(ctx.buf)
    /\ \A i \in DOMAIN ctx.buf : i \notin (ctx.idx + 1) .. ctx'.idx => ctx'.buf[i] = ctx.buf[i]

\* An item that is written stands behind those that were there.
LEMMA WroteKeeps ==
    ASSUME Kept, mode = "encode", UNCHANGED <<mode, flags>>,
           NEW kind \in Kinds, NEW val \in Arg, NEW data \in Seq(Byte),
           NEW bytes \in Seq(Byte), 0 < Len(bytes), HasRoom(Len(bytes)),
           NEW it, it = [kind |-> kind, val |-> val, data |-> data,
                         from |-> ctx.idx, to |-> ctx.idx + Len(bytes)],
           kind # "stray" => Reads(bytes, TypeOf(it), ArgOf(it), data),
           Wrote(kind, val, data, bytes)
    PROVE  Kept' /\ Ahead /\ ctx'.idx = ctx.idx + Len(bytes)
<1> DEFINE c == Store(bytes)
<1>1. /\ IsContext(c) /\ Len(c.buf) = Len(ctx.buf)
      /\ c.idx = ctx.idx + Len(bytes)
      /\ Spelt(c.buf, ctx.idx, bytes, Len(bytes))
      /\ \A i \in 1 .. Len(ctx.buf) : i \notin (ctx.idx + 1) .. c.idx => c.buf[i] = ctx.buf[i]
  BY StoreIs DEF Kept, Held
<1>2. ctx' = c /\ log' = Append(log, it)
  BY DEF Wrote
<1> HIDE DEF c
<1>3. /\ ctx.idx \in Nat /\ Len(bytes) \in Nat /\ Len(ctx.buf) \in Nat /\ ctx.idx <= Len(ctx.buf)
      /\ c.idx <= Len(c.buf) /\ c.idx \in Nat /\ ctx.buf \in Seq(Byte)
  BY <1>1, LenProperties DEF Kept, Held, IsContext
<1>4. it \in Entry /\ it.from = ctx.idx /\ it.to = c.idx /\ it.from < it.to
  <2>1. ctx.idx + Len(bytes) \in Nat
    BY <1>3
  <2> QED BY <1>1, <1>3, <2>1 DEF Entry
<1>5. Standing(c.buf, it)
  <2>1. it.to = it.from + Len(bytes) /\ it.to <= Len(c.buf)
    BY <1>1, <1>3, <1>4
  <2>2. it.kind = kind /\ it.data = data
    OBVIOUS
  <2> QED BY <1>1, <1>4, <2>1, <2>2 DEF Standing
<1>6. LaidIn(log', c.buf, it.to)
  <2> DEFINE end == ctx.idx
             u == c.buf
             b == ctx.buf
  <2>1. LaidIn(log, b, end)
    BY DEF Kept, Listed
  <2>2. /\ end \in Nat /\ it.from = end /\ end <= Len(u) /\ Len(u) \in Nat
        /\ \A i \in 1 .. end : u[i] = b[i]
    BY <1>1, <1>3, <1>4
  <2>3. Standing(u, it)
    BY <1>5
  <2> HIDE DEF end, u, b
  <2>4. LaidIn(Append(log, it), u, it.to)
    BY <1>4, <2>1, <2>2, <2>3, OneMoreLaid
  <2> QED BY <1>2, <2>4 DEF u
<1>7. Held' /\ Listed'
  BY <1>1, <1>2, <1>4, <1>6 DEF Kept, Held, Listed
<1>8. Told' /\ StaysOnItems'
  <2>1. mode' # "decode" /\ ctx'.idx <= Len(ctx'.buf)
    BY <1>2, <1>3
  <2> QED BY <2>1 DEF Told, StaysOnItems
<1>9. Ahead
  <2>1. DOMAIN ctx.buf = 1 .. Len(ctx.buf)
    BY <1>3, LenProperties
  <2> QED BY <1>1, <1>2, <1>3, <2>1 DEF Ahead
<1> QED BY <1>1, <1>2, <1>7, <1>8, <1>9 DEF Kept

\* A call that writes nothing.
LEMMA NothingWritten ==
    ASSUME Kept, mode = "encode", UNCHANGED <<ctx, mode, flags, log>>
    PROVE  Kept' /\ Ahead
<1>1. mode' # "decode" /\ Held' /\ Listed'
  BY DEF Kept, Held, Listed
<1>2. ctx.idx \in Nat /\ Len(ctx.buf) \in Nat /\ ctx.idx <= Len(ctx.buf)
  BY DEF Kept, Held, IsContext
<1>3. Told' /\ StaysOnItems'
  BY <1>1, <1>2 DEF Told, StaysOnItems
<1>4. Ahead
  BY <1>2 DEF Ahead
<1> QED BY <1>1, <1>3, <1>4 DEF Kept

\* A call that fails leaves the context, but for the head of a string.
Careful ==
    last'.ret # "ok" /\ ctx' # ctx =>
        /\ last'.op \in {"bstr", "tstr"}
        /\ \E data \in Strings :
              /\ ctx.idx + Len(HeadOf(BSTR, SizeArg(Len(data)))) = ctx'.idx
              /\ ctx'.idx + Len(data) > Len(ctx.buf)

Entered(kind, val, data, bytes) ==
    [kind |-> kind, val |-> val, data |-> data,
     from |-> ctx.idx, to |-> ctx.idx + Len(bytes)]

\* The bytes are those of such an item, and not of a string.
IsHead(kind, val, bytes) ==
    /\ kind \in Kinds /\ kind # "stray" /\ val \in Arg
    /\ bytes \in Seq(Byte) /\ 0 < Len(bytes)
    /\ Reads(bytes, TypeOf(Entered(kind, val, <<>>, bytes)),
             ArgOf(Entered(kind, val, <<>>, bytes)), <<>>)

\* An item that is a head and nothing else.
LEMMA WholeKeeps ==
    ASSUME Kept, NEW kind, NEW val, NEW bytes, IsHead(kind, val, bytes),
           EncodeWhole(kind, val, bytes)
    PROVE  Kept' /\ Ahead /\ Careful
<1> DEFINE it == Entered(kind, val, <<>>, bytes)
<1>1. mode = "encode" /\ UNCHANGED <<mode, flags>>
  BY DEF EncodeWhole, Writing
<1>4. /\ kind \in Kinds /\ kind # "stray" /\ val \in Arg
      /\ bytes \in Seq(Byte) /\ 0 < Len(bytes)
      /\ Reads(bytes, TypeOf(it), ArgOf(it), <<>>)
  BY DEF IsHead
<1>2. CASE HasRoom(Len(bytes)) /\ Written(kind, val, <<>>, bytes)
  <2>1. Wrote(kind, val, <<>>, bytes) /\ last'.ret = "ok"
    BY <1>2 DEF Written, NoCall
  <2>2. it = [kind |-> kind, val |-> val, data |-> <<>>,
              from |-> ctx.idx, to |-> ctx.idx + Len(bytes)]
    BY DEF Entered
  <2>3. Reads(bytes, TypeOf(it), ArgOf(it), <<>>) /\ HasRoom(Len(bytes))
    BY <1>2, <1>4
  <2> DEFINE data == <<>>
  <2>4. data \in Seq(Byte)
    OBVIOUS
  <2>5. /\ it = [kind |-> kind, val |-> val, data |-> data,
                 from |-> ctx.idx, to |-> ctx.idx + Len(bytes)]
        /\ Reads(bytes, TypeOf(it), ArgOf(it), data) /\ Wrote(kind, val, data, bytes)
    BY <2>1, <2>2, <2>3
  <2> HIDE DEF it, data
  <2>6. Kept' /\ Ahead
    BY <1>1, <1>4, <2>3, <2>4, <2>5, WroteKeeps
  <2> QED BY <2>1, <2>6 DEF Careful
<1>3. CASE Failed(kind, "tooSmall") /\ UNCHANGED <<ctx, log>>
  <2>1. Kept' /\ Ahead
    BY <1>1, <1>3, NothingWritten
  <2> QED BY <1>3, <2>1 DEF Careful
<1> QED BY <1>2, <1>3 DEF EncodeWhole

\* The major type of each kind of item.
KindTypesOf(it) ==
    /\ it.kind = "uint" => TypeOf(it) = UINT
    /\ it.kind = "tag" => TypeOf(it) = TAG
    /\ it.kind = "array" => TypeOf(it) = ARRAY
    /\ it.kind = "map" => TypeOf(it) = MAP
    /\ it.kind = "simple" => TypeOf(it) = SIMPLE
    /\ it.kind = "int" => TypeOf(it) = IntType(it.val)
    /\ it.kind = "bstr" => TypeOf(it) = BSTR
    /\ it.kind = "tstr" => TypeOf(it) = TSTR

\* (by the definition of TypeOf)
LEMMA KindTypes == ASSUME NEW it PROVE KindTypesOf(it)
BY DEF KindTypesOf, TypeOf

\* False, true and null as arguments.
LEMMA SmallIs == ASSUME NEW n \in {20, 21, 22} PROVE Small(n) \in Arg
<1>1. n \in Limb
  BY DEF Limb
<1> QED BY <1>1, SmallArg

\* The encoders of an item that is a head and nothing else.
LEMMA HeadsKeep ==
    ASSUME Kept,
           \/ EncodeUint \/ EncodeInt \/ EncodeTag
           \/ EncodeArrayStart \/ EncodeMapStart
           \/ EncodeSimpleVal \/ EncodeFloat \/ EncodeDouble
    PROVE  Kept' /\ Ahead /\ Careful
<1> DEFINE Goal == Kept' /\ Ahead /\ Careful
<1>0. /\ Unsigned \subseteq Arg /\ Counts \subseteq Arg /\ Signed \subseteq Arg
  BY CodecAssumption
<1>11. \A mt \in {UINT, NEGINT, ARRAY, MAP, TAG} :
          /\ mt \in Int /\ 0 <= mt /\ mt <= 7 /\ mt # SIMPLE
          /\ mt \notin {BSTR, TSTR}
  BY DEF UINT, NEGINT, ARRAY, MAP, TAG, SIMPLE,
         BSTR, TSTR
<1>12. ASSUME NEW mt \in {UINT, NEGINT, ARRAY, MAP, TAG},
             NEW v \in Arg
      PROVE  /\ HeadOf(mt, v) \in Seq(Byte) /\ 0 < Len(HeadOf(mt, v))
             /\ Reads(HeadOf(mt, v), mt, v, <<>>)
  <2>1. /\ mt \in Int /\ 0 <= mt /\ mt <= 7 /\ mt # SIMPLE
        /\ mt \notin {BSTR, TSTR}
    BY <1>11
  <2> QED BY <2>1, HeadBytes, HeadReads
<1> HIDE DEF Goal
<1>1. ASSUME NEW kind \in Kinds, kind \notin {"stray", "int", "bstr", "tstr"},
             NEW mt \in {UINT, ARRAY, MAP, TAG},
             NEW v \in Arg,
             \A it : it.kind = kind => TypeOf(it) = mt
      PROVE  IsHead(kind, v, HeadOf(mt, v))
  <2> DEFINE h == HeadOf(mt, v)
  <2>1. h \in Seq(Byte) /\ 0 < Len(h) /\ Reads(h, mt, v, <<>>)
    BY <1>12
  <2> HIDE DEF h
  <2> DEFINE it == Entered(kind, v, <<>>, h)
  <2>2. it.kind = kind /\ it.val = v
    BY DEF Entered
  <2> HIDE DEF it
  <2>3. TypeOf(it) = mt /\ ArgOf(it) = v
    BY <1>1, <2>2 DEF ArgOf
  <2> QED BY <1>1, <2>1, <2>3 DEF IsHead, it, h
<1>2. CASE EncodeUint
  <2>1. PICK v \in Unsigned : EncodeWhole("uint", v, HeadOf(UINT, v))
    BY <1>2 DEF EncodeUint
  <2> DEFINE kind == "uint"
  <2>2. v \in Arg /\ kind \in Kinds /\ kind \notin {"stray", "int", "bstr", "tstr"}
    BY <1>0 DEF Kinds
  <2>4. \A it : it.kind = kind => TypeOf(it) = UINT
    BY Zenon, KindTypes DEF KindTypesOf
  <2> HIDE DEF kind
  <2>3. IsHead(kind, v, HeadOf(UINT, v))
    BY <1>1, <2>2, <2>4
  <2> QED BY Zenon, <2>1, <2>3, WholeKeeps DEF Goal, kind
<1>3. CASE EncodeTag
  <2>1. PICK v \in Counts : EncodeWhole("tag", v, HeadOf(TAG, v))
    BY <1>3 DEF EncodeTag
  <2> DEFINE kind == "tag"
  <2>2. v \in Arg /\ kind \in Kinds /\ kind \notin {"stray", "int", "bstr", "tstr"}
    BY <1>0 DEF Kinds
  <2>4. \A it : it.kind = kind => TypeOf(it) = TAG
    BY Zenon, KindTypes DEF KindTypesOf
  <2> HIDE DEF kind
  <2>3. IsHead(kind, v, HeadOf(TAG, v))
    BY <1>1, <2>2, <2>4
  <2> QED BY Zenon, <2>1, <2>3, WholeKeeps DEF Goal, kind
<1>4. CASE EncodeArrayStart
  <2>1. PICK v \in Counts : EncodeWhole("array", v, HeadOf(ARRAY, v))
    BY <1>4 DEF EncodeArrayStart
  <2> DEFINE kind == "array"
  <2>2. v \in Arg /\ kind \in Kinds /\ kind \notin {"stray", "int", "bstr", "tstr"}
    BY <1>0 DEF Kinds
  <2>4. \A it : it.kind = kind => TypeOf(it) = ARRAY
    BY Zenon, KindTypes DEF KindTypesOf
  <2> HIDE DEF kind
  <2>3. IsHead(kind, v, HeadOf(ARRAY, v))
    BY <1>1, <2>2, <2>4
  <2> QED BY Zenon, <2>1, <2>3, WholeKeeps DEF Goal, kind
<1>5. CASE EncodeMapStart
  <2>1. PICK v \in Counts : EncodeWhole("map", v, HeadOf(MAP, v))
    BY <1>5 DEF EncodeMapStart
  <2> DEFINE kind == "map"
  <2>2. v \in Arg /\ kind \in Kinds /\ kind \notin {"stray", "int", "bstr", "tstr"}
    BY <1>0 DEF Kinds
  <2>4. \A it : it.kind = kind => TypeOf(it) = MAP
    BY Zenon, KindTypes DEF KindTypesOf
  <2> HIDE DEF kind
  <2>3. IsHead(kind, v, HeadOf(MAP, v))
    BY <1>1, <2>2, <2>4
  <2> QED BY Zenon, <2>1, <2>3, WholeKeeps DEF Goal, kind
<1>6. CASE EncodeInt
  <2>1. PICK v \in Signed : EncodeWhole("int", v, IntHead(v))
    BY <1>6 DEF EncodeInt
  <2>2. v \in Arg
    BY <1>0
  <2> DEFINE mt == IntType(v)
             a  == IntArg(v)
             h  == HeadOf(mt, a)
  <2>3. a \in Arg /\ mt \in {UINT, NEGINT} /\ IntHead(v) = h
    BY <2>2, IntHeadIs
  <2>4. h \in Seq(Byte) /\ 0 < Len(h) /\ Reads(h, mt, a, <<>>)
    <3> HIDE DEF mt, a
    <3>1. mt \in {UINT, NEGINT, ARRAY, MAP, TAG}
      BY Zenon, <2>3
    <3> QED BY <1>12, <2>3, <3>1
  <2> HIDE DEF h, mt, a
  <2> DEFINE it == Entered("int", v, <<>>, h)
  <2>5. it.kind = "int" /\ it.val = v
    BY DEF Entered
  <2> HIDE DEF it
  <2>6. TypeOf(it) = mt /\ ArgOf(it) = a
    BY <2>5 DEF TypeOf, ArgOf, mt, a
  <2>9. "int" \in Kinds
    BY DEF Kinds
  <2>7. IsHead("int", v, h)
    BY <2>2, <2>4, <2>6, <2>9 DEF IsHead, it
  <2>8. EncodeWhole("int", v, h)
    BY Zenon, <2>1, <2>3
  <2> QED BY Zenon, <2>7, <2>8, WholeKeeps DEF Goal
<1>7. ASSUME NEW v \in Arg, NEW bytes \in Seq(Byte), 0 < Len(bytes),
             Reads(bytes, SIMPLE, v, <<>>)
      PROVE  IsHead("simple", v, bytes)
  <2> DEFINE it == Entered("simple", v, <<>>, bytes)
  <2>1. it.kind = "simple" /\ it.val = v
    BY DEF Entered
  <2> HIDE DEF it
  <2>2. TypeOf(it) = SIMPLE /\ ArgOf(it) = v
    BY <2>1 DEF TypeOf, ArgOf
  <2>3. "simple" \in Kinds
    BY DEF Kinds
  <2> QED BY <1>7, <2>2, <2>3 DEF IsHead, it
<1>8. CASE EncodeSimpleVal
  <2>1. PICK v \in {20, 21, 22} : EncodeWhole("simple", Small(v), <<224 + v>>)
    BY <1>8 DEF EncodeSimpleVal
  <2> DEFINE w == <<224 + v>>
             a == Small(v)
  <2>2. w \in Seq(Byte) /\ 0 < Len(w) /\ Reads(w, SIMPLE, a, <<>>)
    BY Zenon, SimpleReads
  <2>3. a \in Arg /\ EncodeWhole("simple", a, w)
    BY Zenon, <2>1, SmallIs
  <2> HIDE DEF w, a
  <2>4. IsHead("simple", a, w)
    BY <1>7, <2>2, <2>3
  <2> QED BY Zenon, <2>3, <2>4, WholeKeeps DEF Goal
<1>9. CASE EncodeFloat
  <2>1. PICK v \in Counts : /\ v[1] = 0 /\ v[2] = 0
                            /\ EncodeWhole("simple", v, <<250>> \o BE32(v))
    BY <1>9 DEF EncodeFloat
  <2>2. v \in Arg
    BY <1>0
  <2> DEFINE w == <<250>> \o BE32(v)
  <2>3. w \in Seq(Byte) /\ 0 < Len(w) /\ Reads(w, SIMPLE, v, <<>>)
    BY Zenon, <2>1, <2>2, FloatReads
  <2>4. EncodeWhole("simple", v, w)
    BY <2>1
  <2> HIDE DEF w
  <2>5. IsHead("simple", v, w)
    BY <1>7, <2>2, <2>3
  <2> QED BY Zenon, <2>4, <2>5, WholeKeeps DEF Goal
<1>10. CASE EncodeDouble
  <2>1. PICK v \in Counts : EncodeWhole("simple", v, <<251>> \o BE64(v))
    BY <1>10 DEF EncodeDouble
  <2>2. v \in Arg
    BY <1>0
  <2> DEFINE w == <<251>> \o BE64(v)
  <2>3. w \in Seq(Byte) /\ 0 < Len(w) /\ Reads(w, SIMPLE, v, <<>>)
    BY Zenon, <2>2, DoubleReads
  <2>4. EncodeWhole("simple", v, w)
    BY <2>1
  <2> HIDE DEF w
  <2>5. IsHead("simple", v, w)
    BY <1>7, <2>2, <2>3
  <2> QED BY Zenon, <2>4, <2>5, WholeKeeps DEF Goal
<1> QED BY Zenon, <1>2, <1>3, <1>4, <1>5, <1>6, <1>8, <1>9, <1>10 DEF Goal

\* The encoders of strings.
LEMMA StringKeeps ==
    ASSUME Kept, mode = "encode", UNCHANGED <<mode, flags>>,
           NEW kind \in {"bstr", "tstr"}, NEW mt \in {BSTR, TSTR},
           NEW data \in Strings, data \in Seq(Byte), Len(data) < Huge,
           \A it : it.kind = kind => TypeOf(it) = mt,
           mt = TSTR => IsUtf8(data),
           EncodeBytes(kind, mt, data)
    PROVE  Kept' /\ Ahead /\ Careful
<1> DEFINE v     == SizeArg(Len(data))
           head  == HeadOf(mt, v)
           bytes == head \o data
           zero  == Small(0)
<1>1. /\ v \in Arg
      /\ head \in Seq(Byte) /\ Len(head) \in Nat /\ 0 < Len(head)
      /\ Len(head) = 1 + Width(v)
      /\ bytes \in Seq(Byte) /\ Len(bytes) = Len(head) + Len(data)
      /\ Reads(bytes, mt, v, data)
  BY Zenon, StringReads
<1>2. Len(HeadOf(BSTR, v)) = Len(head)
  <2> DEFINE b == BSTR
  <2>1. b \in Int /\ 0 <= b /\ b <= 7
    BY DEF BSTR
  <2> HIDE DEF b, v, head
  <2>2. Len(HeadOf(b, v)) = 1 + Width(v)
    BY Zenon, <1>1, <2>1, HeadBytes
  <2> QED BY <1>1, <2>2 DEF b
<1>3. zero \in Arg
  <2>1. 0 \in Limb
    BY DEF Limb
  <2> QED BY <2>1, SmallArg
<1>4. \/ /\ HasRoom(Len(bytes))
         /\ Written(kind, zero, data, bytes)
      \/ /\ HasRoom(Len(head)) /\ ~ HasRoom(Len(bytes))
         /\ Wrote("stray", zero, <<>>, head)
         /\ Failed(kind, "tooSmall")
      \/ Failed(kind, "tooSmall") /\ UNCHANGED <<ctx, log>>
  BY Zenon DEF EncodeBytes
<1>5. Len(data) \in Nat /\ kind \in Kinds /\ kind # "stray"
  BY LenProperties DEF Kinds
<1> HIDE DEF bytes, zero
<1>6. CASE HasRoom(Len(bytes)) /\ Written(kind, zero, data, bytes)
  <2> HIDE DEF head
  <2>1. Wrote(kind, zero, data, bytes) /\ last'.ret = "ok"
    BY <1>6 DEF Written, NoCall
  <2> DEFINE it == [kind |-> kind, val |-> zero, data |-> data,
                    from |-> ctx.idx, to |-> ctx.idx + Len(bytes)]
  <2>2. it.kind = kind /\ it.data = data /\ it = [kind |-> kind, val |-> zero, data |-> data,
                    from |-> ctx.idx, to |-> ctx.idx + Len(bytes)]
    OBVIOUS
  <2> HIDE DEF it
  <2>3. ArgOf(it) = v
    BY <2>2 DEF ArgOf
  <2> HIDE DEF v
  <2>4. Reads(bytes, TypeOf(it), ArgOf(it), data)
    BY <1>1, <2>2, <2>3
  <2>5. 0 < Len(bytes)
    BY <1>1, <1>5
  <2>6. Kept' /\ Ahead
    BY <1>1, <1>3, <1>5, <1>6, <2>1, <2>2, <2>4, <2>5, WroteKeeps
  <2> QED BY <2>1, <2>6 DEF Careful
<1>7. CASE /\ HasRoom(Len(head)) /\ ~ HasRoom(Len(bytes))
           /\ Wrote("stray", zero, <<>>, head)
           /\ Failed(kind, "tooSmall")
  <2> HIDE DEF head
  <2> DEFINE none  == <<>>
             stray == "stray"
             it == [kind |-> stray, val |-> zero, data |-> none,
                    from |-> ctx.idx, to |-> ctx.idx + Len(head)]
  <2>1. none \in Seq(Byte) /\ stray \in Kinds /\ Wrote(stray, zero, none, head)
    BY <1>7 DEF Kinds
  <2>2. stray # "stray" => Reads(head, TypeOf(it), ArgOf(it), none)
    OBVIOUS
  <2>3. it = [kind |-> stray, val |-> zero, data |-> none,
              from |-> ctx.idx, to |-> ctx.idx + Len(head)]
    OBVIOUS
  <2> HIDE DEF it, none, stray
  <2>4. Kept' /\ Ahead /\ ctx'.idx = ctx.idx + Len(head)
    BY <1>1, <1>3, <1>7, <2>1, <2>2, <2>3, WroteKeeps
  <2>5. last'.op = kind
    BY <1>7 DEF Failed, NoCall
  <2>6. ctx.idx \in Nat /\ Len(ctx.buf) \in Nat
    BY DEF Kept, Held, IsContext
  <2>7. ~ (Len(head) + Len(data) <= Len(ctx.buf) - ctx.idx)
    BY <1>1, <1>7 DEF HasRoom
  <2>8. ctx'.idx + Len(data) > Len(ctx.buf)
    BY <1>1, <1>5, <2>4, <2>6, <2>7
  <2>9. ctx.idx + Len(HeadOf(BSTR, SizeArg(Len(data)))) = ctx'.idx
    BY <1>2, <2>4
  <2> QED BY <2>4, <2>5, <2>8, <2>9 DEF Careful
<1>8. CASE Failed(kind, "tooSmall") /\ UNCHANGED <<ctx, log>>
  <2>1. Kept' /\ Ahead
    BY <1>8, NothingWritten
  <2> QED BY <1>8, <2>1 DEF Careful
<1> QED BY <1>4, <1>6, <1>7, <1>8

\* EncodeBstr and EncodeTstr, which refuses what is not text.
LEMMA StringsKeep ==
    ASSUME Kept, EncodeBstr \/ EncodeTstr
    PROVE  Kept' /\ Ahead /\ Careful
<1>1. mode = "encode" /\ UNCHANGED <<mode, flags>>
  BY DEF EncodeBstr, EncodeTstr, Writing
<1>2. \A data \in Strings : data \in Seq(Byte) /\ Len(data) < Huge
  BY Zenon, CodecAssumption
<1>3. CASE EncodeBstr
  <2>1. PICK data \in Strings : EncodeBytes("bstr", BSTR, data)
    BY <1>3 DEF EncodeBstr
  <2> DEFINE kind == "bstr"
             mt   == BSTR
  <2>2. kind \in {"bstr", "tstr"} /\ mt \in {BSTR, TSTR}
    OBVIOUS
  <2>3. mt # TSTR
    BY DEF BSTR, TSTR
  <2>4. \A it : it.kind = kind => TypeOf(it) = mt
    BY Zenon, KindTypes DEF KindTypesOf
  <2>5. EncodeBytes(kind, mt, data)
    BY <2>1
  <2> HIDE DEF kind, mt
  <2> QED BY <1>1, <1>2, <2>2, <2>3, <2>4, <2>5, StringKeeps
<1>4. CASE EncodeTstr
  <2>1. PICK data \in Strings :
            IF IsUtf8(data)
            THEN EncodeBytes("tstr", TSTR, data)
            ELSE Failed("tstr", "malformed") /\ UNCHANGED <<ctx, log>>
    BY <1>4 DEF EncodeTstr
  <2> DEFINE kind == "tstr"
             mt   == TSTR
  <2>2. kind \in {"bstr", "tstr"} /\ mt \in {BSTR, TSTR}
    OBVIOUS
  <2>3. \A it : it.kind = kind => TypeOf(it) = mt
    BY Zenon, KindTypes DEF KindTypesOf
  <2>4. CASE IsUtf8(data)
    <3>1. EncodeBytes(kind, mt, data)
      BY <2>1, <2>4
    <3> HIDE DEF kind, mt
    <3> QED BY <1>1, <1>2, <2>2, <2>3, <2>4, <3>1, StringKeeps
  <2>5. CASE ~ IsUtf8(data)
    <3>1. UNCHANGED <<ctx, log>>
      BY <2>1, <2>5
    <3>2. Kept' /\ Ahead
      BY <1>1, <3>1, NothingWritten
    <3> QED BY <3>1, <3>2 DEF Careful
  <2> QED BY <2>4, <2>5
<1> QED BY <1>3, <1>4

\* A reader at the beginning of an item has the item.
LEMMA AtEntry ==
    ASSUME NEW b \in Seq(Byte), NEW it \in Entry, Standing(b, it), it.kind # "stray",
           NEW t \in BOOLEAN
    PROVE  DecodeHead(b, it.from, t) =
               Item("ok", TypeOf(it), ArgOf(it), it.data, it.to)
<1>1. PICK bytes \in Seq(Byte) :
          /\ it.to = it.from + Len(bytes) /\ it.to <= Len(b)
          /\ Spelt(b, it.from, bytes, Len(bytes))
          /\ Reads(bytes, TypeOf(it), ArgOf(it), it.data)
  BY DEF Standing
<1>2. it.from \in Nat
  BY DEF Entry
<1> QED BY <1>1, <1>2 DEF Reads

\* The log as the checks look at it.
LEMMA LogItems ==
    ASSUME NEW l \in Seq(Entry)
    PROVE  Range(l) = {l[i] : i \in 1 .. Len(l)} /\ DOMAIN l = 1 .. Len(l)
<1>1. DOMAIN l = 1 .. Len(l)
  BY LenProperties
<1> QED BY <1>1 DEF Range

\* Whichever item of a whole log a reader is at, the next is where it ends.
LEMMA NextEntry ==
    ASSUME Kept, mode = "decode", Whole, ctx.idx # Len(ctx.buf)
    PROVE  \E i \in 1 .. Len(log) :
               /\ log[i] \in Entry /\ log[i].kind # "stray" /\ log[i].from = ctx.idx
               /\ LaidIn(log, ctx.buf, Len(ctx.buf))
<1>1. log # <<>>
  BY DEF Whole, Kept, StaysOnItems, Range
<1>2. LaidIn(log, ctx.buf, Len(ctx.buf))
  BY <1>1 DEF Kept, Listed
<1>3. log \in Seq(Entry)
  BY <1>2 DEF LaidIn
<1>4. PICK it \in Range(log) : it.from = ctx.idx
  BY DEF Kept, StaysOnItems
<1>5. PICK i \in 1 .. Len(log) : it = log[i]
  BY <1>3, LogItems
<1>6. it.kind # "stray"
  BY Zenon, <1>4 DEF Whole
<1>7. log[i] \in Entry
  BY <1>3, ElementOfSeq
<1> QED BY <1>2, <1>4, <1>5, <1>6, <1>7

\* So a reader that stands on an item, or at the end, still does after a head.
LEMMA ReaderStays ==
    ASSUME Kept, mode = "decode", Whole,
           NEW item, item = DecodeHead(ctx.buf, ctx.idx, flags)
    PROVE  item.idx = Len(ctx.buf) \/ \E it \in Range(log) : it.from = item.idx
<1>1. /\ ctx.buf \in Seq(Byte) /\ Len(ctx.buf) \in Nat
      /\ ctx.idx \in 0 .. Len(ctx.buf) /\ flags \in BOOLEAN
  BY DEF Kept, Held, IsContext
<1>2. CASE ctx.idx = Len(ctx.buf)
  <2>1. item.idx \in ctx.idx .. Len(ctx.buf)
    BY <1>1, CursorOfHead
  <2> QED BY <1>1, <1>2, <2>1
<1>3. CASE ctx.idx # Len(ctx.buf)
  <2>1. PICK i \in 1 .. Len(log) :
            /\ log[i] \in Entry /\ log[i].kind # "stray" /\ log[i].from = ctx.idx
            /\ LaidIn(log, ctx.buf, Len(ctx.buf))
    BY <1>3, NextEntry
  <2>2. /\ log \in Seq(Entry) /\ Len(log) \in Nat /\ log[Len(log)].to = Len(ctx.buf)
        /\ Standing(ctx.buf, log[i]) /\ (i # Len(log) => log[i + 1].from = log[i].to)
    BY <2>1 DEF LaidIn
  <2> DEFINE it == log[i]
  <2>3. it \in Entry /\ Standing(ctx.buf, it) /\ it.kind # "stray" /\ it.from = ctx.idx
    BY <2>1, <2>2
  <2> HIDE DEF it
  <2>4. DecodeHead(ctx.buf, it.from, flags) =
            Item("ok", TypeOf(it), ArgOf(it), it.data, it.to)
    BY <1>1, <2>3, AtEntry
  <2>5. item.idx = it.to
    BY <2>3, <2>4 DEF Item
  <2>6. CASE i = Len(log)
    BY <2>2, <2>5, <2>6 DEF it
  <2>7. CASE i # Len(log)
    <3>1. i + 1 \in 1 .. Len(log) /\ log[i + 1].from = item.idx
      BY <2>2, <2>5, <2>7 DEF it
    <3>2. Range(log) = {log[k] : k \in 1 .. Len(log)}
      BY <2>2, LogItems
    <3>3. log[i + 1] \in Range(log)
      BY <3>1, <3>2
    <3> QED BY <3>1, <3>3
  <2> QED BY <2>6, <2>7
<1> QED BY <1>2, <1>3

\* A decoder, whatever it answers.
LEMMA ReturnKeeps ==
    ASSUME Kept, NEW op, NEW code, NEW val,
           NEW item, item = DecodeHead(ctx.buf, ctx.idx, flags),
           code = Answer(op, item, Len(ctx.buf)), code = "ok" => val = Given(op, item),
           Return(op, item, code, val)
    PROVE  Kept' /\ mode' # "encode"
<1>1. /\ mode = "decode" /\ ctx' = [ctx EXCEPT !.idx = item.idx]
      /\ UNCHANGED <<mode, flags, log>>
      /\ last' = [op |-> op, ret |-> code, mt |-> item.mt,
                  val |-> IF code = "ok" THEN val ELSE Small(0),
                  data |-> IF code = "ok" THEN item.data ELSE <<>>,
                  from |-> ctx.idx, to |-> item.idx]
  BY DEF Return
<1>2. /\ ctx = [buf |-> ctx.buf, idx |-> ctx.idx]
      /\ ctx.buf \in Seq(Byte) /\ Len(ctx.buf) \in Nat /\ Len(ctx.buf) < Huge
      /\ ctx.idx \in 0 .. Len(ctx.buf) /\ flags \in BOOLEAN
  BY DEF Kept, Held, IsContext
<1>3. item.idx \in ctx.idx .. Len(ctx.buf)
  BY <1>2, CursorOfHead
<1>4. ctx'.buf = ctx.buf /\ ctx'.idx = item.idx /\ ctx' = [buf |-> ctx'.buf, idx |-> ctx'.idx]
  BY <1>1, <1>2
<1>5. Held'
  BY <1>1, <1>2, <1>3, <1>4 DEF Kept, Held, IsContext
<1>6. Listed'
  BY <1>1, <1>4 DEF Kept, Listed
<1>7. Told'
  <2>1. /\ last'.op = op /\ last'.ret = code /\ last'.mt = item.mt /\ last'.from = ctx.idx
        /\ last'.to = item.idx
        /\ code = "ok" => last'.data = item.data /\ last'.val = Given(op, item)
    BY <1>1
  <2>2. item = DecodeHead(ctx'.buf, last'.from, flags')
    BY <1>1, <1>4, <2>1
  <2>3. last'.from \in 0 .. Len(ctx'.buf) /\ code = Answer(op, item, Len(ctx'.buf))
    BY <1>2, <1>4, <2>1
  <2> QED BY <2>1, <2>2, <2>3 DEF Told
<1>8. StaysOnItems'
  <2>1. ctx'.idx <= Len(ctx'.buf)
    BY <1>2, <1>3, <1>4
  <2>2. ASSUME Whole'
        PROVE  ctx'.idx = Len(ctx'.buf) \/ \E it \in Range(log') : it.from = ctx'.idx
    <3>1. Whole
      BY <1>1, <1>4, <2>2 DEF Whole
    <3>2. item.idx = Len(ctx.buf) \/ \E it \in Range(log) : it.from = item.idx
      BY <1>1, <3>1, ReaderStays
    <3> QED BY <1>1, <1>4, <3>2
  <2> QED BY <2>1, <2>2 DEF StaysOnItems
<1>9. mode' # "encode"
  BY <1>1
<1> QED BY <1>5, <1>6, <1>7, <1>8, <1>9 DEF Kept

\* Answer and Given, decoder by decoder.
Answers(item, len) ==
    /\ Answer("head", item, len) = item.ret
    /\ Given("head", item) = item.val
    /\ Answer("uint", item, len) = Typed(item, UINT)
    /\ Given("uint", item) = item.val
    /\ Answer("int", item, len) = IntCode(item)
    /\ Given("int", item) = IntVal(item)
    /\ Answer("tag", item, len) = Typed(item, TAG)
    /\ Given("tag", item) = item.val
    /\ Answer("label", item, len) = (IF item.mt = TSTR THEN item.ret ELSE IntCode(item))
    /\ Given("label", item) = IntVal(item)
    /\ Answer("bstr", item, len) = Typed(item, BSTR)
    /\ Given("bstr", item) = item.val
    /\ Answer("tstr", item, len) = Typed(item, TSTR)
    /\ Given("tstr", item) = item.val
    /\ Answer("array", item, len) = ContainerAnswer(item, ARRAY, 1, len)
    /\ Given("array", item) = item.val
    /\ Answer("map", item, len) = ContainerAnswer(item, MAP, 2, len)
    /\ Given("map", item) = item.val

\* (by the definitions of Answer and Given)
LEMMA AnswersHold == ASSUME NEW item, NEW len PROVE Answers(item, len)
BY DEF Answers, Answer, Given

\* The decoders, one by one.
LEMMA DecodersKeep ==
    ASSUME Kept, Decode
    PROVE  Kept' /\ mode' # "encode"
<1> DEFINE Goal == Kept' /\ mode' # "encode"
           item == DecodeHead(ctx.buf, ctx.idx, flags)
           len  == Len(ctx.buf)
<1>1. Next1 = item
  BY DEF Next1
<1>2. ASSUME NEW op, NEW code, NEW val, code = Answer(op, item, len),
             code = "ok" => val = Given(op, item), Return(op, item, code, val)
      PROVE  Goal
  BY <1>2, ReturnKeeps
<1>3. \A mt, perCount :
        Container(item, mt, perCount) = ContainerAnswer(item, mt, perCount, len)
  BY Zenon DEF Container, ContainerAnswer, Fits
<1> HIDE DEF Goal, item, len
<1>13. Answers(item, len)
  BY Zenon, AnswersHold
<1>4. CASE DecodeRaw
  <2>1. Return("head", item,
                     item.ret, item.val)
    BY Zenon, <1>1, <1>4 DEF DecodeRaw
  <2>2. item.ret = Answer("head", item, len)
    BY Zenon, <1>13 DEF Answers
  <2>3. item.val = Given("head", item)
    BY Zenon, <1>13 DEF Answers
  <2> QED BY Zenon, <1>2, <2>1, <2>2, <2>3 DEF Goal
<1>5. CASE DecodeUint
  <2>1. Return("uint", item,
                     Typed(item, UINT), item.val)
    BY Zenon, <1>1, <1>5 DEF DecodeUint
  <2>2. Typed(item, UINT) = Answer("uint", item, len)
    BY Zenon, <1>13 DEF Answers
  <2>3. item.val = Given("uint", item)
    BY Zenon, <1>13 DEF Answers
  <2> QED BY Zenon, <1>2, <2>1, <2>2, <2>3 DEF Goal
<1>6. CASE DecodeInt
  <2>1. Return("int", item,
                     IntCode(item), IntVal(item))
    BY Zenon, <1>1, <1>6 DEF DecodeInt
  <2>2. IntCode(item) = Answer("int", item, len)
    BY Zenon, <1>13 DEF Answers
  <2>3. IntVal(item) = Given("int", item)
    BY Zenon, <1>13 DEF Answers
  <2> QED BY Zenon, <1>2, <2>1, <2>2, <2>3 DEF Goal
<1>7. CASE DecodeTag
  <2>1. Return("tag", item,
                     Typed(item, TAG), item.val)
    BY Zenon, <1>1, <1>7 DEF DecodeTag
  <2>2. Typed(item, TAG) = Answer("tag", item, len)
    BY Zenon, <1>13 DEF Answers
  <2>3. item.val = Given("tag", item)
    BY Zenon, <1>13 DEF Answers
  <2> QED BY Zenon, <1>2, <2>1, <2>2, <2>3 DEF Goal
<1>8. CASE DecodeLabel
  <2>1. Return("label", item,
                     IF item.mt = TSTR THEN item.ret ELSE IntCode(item),
                      IntVal(item))
    BY Zenon, <1>1, <1>8 DEF DecodeLabel
  <2>2. (IF item.mt = TSTR THEN item.ret ELSE IntCode(item))
           = Answer("label", item, len)
    BY Zenon, <1>13 DEF Answers
  <2>3. IntVal(item) = Given("label", item)
    BY Zenon, <1>13 DEF Answers
  <2> QED BY Zenon, <1>2, <2>1, <2>2, <2>3 DEF Goal
<1>9. CASE DecodeBstr
  <2>1. Return("bstr", item,
                     Typed(item, BSTR), item.val)
    BY Zenon, <1>1, <1>9 DEF DecodeBstr
  <2>2. Typed(item, BSTR) = Answer("bstr", item, len)
    BY Zenon, <1>13 DEF Answers
  <2>3. item.val = Given("bstr", item)
    BY Zenon, <1>13 DEF Answers
  <2> QED BY Zenon, <1>2, <2>1, <2>2, <2>3 DEF Goal
<1>10. CASE DecodeTstr
  <2>1. Return("tstr", item,
                     Typed(item, TSTR), item.val)
    BY Zenon, <1>1, <1>10 DEF DecodeTstr
  <2>2. Typed(item, TSTR) = Answer("tstr", item, len)
    BY Zenon, <1>13 DEF Answers
  <2>3. item.val = Given("tstr", item)
    BY Zenon, <1>13 DEF Answers
  <2> QED BY Zenon, <1>2, <2>1, <2>2, <2>3 DEF Goal
<1>11. CASE DecodeArrayStart
  <2>1. Return("array", item,
                     Container(item, ARRAY, 1), item.val)
    BY Zenon, <1>1, <1>11 DEF DecodeArrayStart
  <2>2. Container(item, ARRAY, 1) = Answer("array", item, len)
    BY Zenon, <1>3, <1>13 DEF Answers
  <2>3. item.val = Given("array", item)
    BY Zenon, <1>13 DEF Answers
  <2> QED BY Zenon, <1>2, <2>1, <2>2, <2>3 DEF Goal
<1>12. CASE DecodeMapStart
  <2>1. Return("map", item,
                     Container(item, MAP, 2), item.val)
    BY Zenon, <1>1, <1>12 DEF DecodeMapStart
  <2>2. Container(item, MAP, 2) = Answer("map", item, len)
    BY Zenon, <1>3, <1>13 DEF Answers
  <2>3. item.val = Given("map", item)
    BY Zenon, <1>13 DEF Answers
  <2> QED BY Zenon, <1>2, <2>1, <2>2, <2>3 DEF Goal
<1> QED BY Zenon, <1>4, <1>5, <1>6, <1>7, <1>8, <1>9, <1>10, <1>11, <1>12 DEF Decode, Goal

\* No buffer is that long.
LEMMA HugeNat == Huge \in Nat
BY SMT DEF Huge

\* An encoder on an empty buffer, or a reader of a message.
LEMMA InitKept == CodecInit => Kept
<1> SUFFICES ASSUME CodecInit PROVE Kept
  OBVIOUS
<1>1. flags \in BOOLEAN /\ log = <<>> /\ last = NoCall /\ last.op = "none"
  BY DEF CodecInit, NoCall
<1>2. CASE mode = "encode" /\ \E size \in DOMAIN Items :
                                  ctx = [buf |-> [i \in 1 .. size |-> 255], idx |-> 0]
  <2>1. PICK size \in DOMAIN Items : ctx = [buf |-> [i \in 1 .. size |-> 255], idx |-> 0]
    BY <1>2
  <2>2. size \in Nat /\ size < Huge
    <3>1. size \in 0 .. (Huge - 1)
      BY CodecAssumption
    <3>2. Huge \in Nat
      BY HugeNat
    <3> QED BY <3>1, <3>2
  <2> DEFINE b == [i \in 1 .. size |-> 255]
  <2>3. b \in Seq(Byte) /\ Len(b) = size
    BY <2>2 DEF Byte
  <2>4. ctx = [buf |-> b, idx |-> 0]
    BY <2>1
  <2> HIDE DEF b
  <2>5. Held
    <3>1. ctx.buf = b /\ ctx.idx = 0 /\ ctx = [buf |-> ctx.buf, idx |-> ctx.idx]
      BY <2>4
    <3>2. Len(b) \in Nat /\ Len(b) < Huge /\ 0 <= Len(b) /\ 0 \in Nat
      BY <2>2, <2>3
    <3>3. IsContext(ctx)
      BY Zenon, <2>3, <3>1, <3>2 DEF IsContext
    <3>4. mode \in {"encode", "decode"}
      BY Zenon, <1>2
    <3> QED BY Zenon, <1>1, <3>3, <3>4 DEF Held
  <2>6. LaidIn(log, ctx.buf, ctx.idx)
    <3>1. log \in Seq(Entry) /\ Len(log) = 0
      BY <1>1
    <3> QED BY <2>4, <3>1 DEF LaidIn
  <2>7. mode # "decode"
    BY <1>2
  <2>8. Listed /\ Told
    BY <2>6, <2>7 DEF Listed, Told
  <2>9. ctx.idx <= Len(ctx.buf)
    BY <2>2, <2>3, <2>4
  <2>10. StaysOnItems
    BY <2>7, <2>9 DEF StaysOnItems
  <2> QED BY <2>5, <2>8, <2>10 DEF Kept
<1>3. CASE mode = "decode" /\ \E bytes \in Foreign : ctx = [buf |-> bytes, idx |-> 0]
  <2>1. PICK bytes \in Foreign : ctx = [buf |-> bytes, idx |-> 0]
    BY <1>3
  <2>2. bytes \in Seq(Byte) /\ Len(bytes) < Huge
    BY CodecAssumption
  <2>3. Len(bytes) \in Nat
    BY <2>2, LenProperties
  <2>4. Held
    <3>1. ctx.buf = bytes /\ ctx.idx = 0 /\ ctx = [buf |-> ctx.buf, idx |-> ctx.idx]
      BY <2>1
    <3>2. 0 <= Len(bytes) /\ 0 \in Nat
      BY <2>3
    <3>3. IsContext(ctx)
      BY Zenon, <2>2, <2>3, <3>1, <3>2 DEF IsContext
    <3>4. mode \in {"encode", "decode"}
      BY Zenon, <1>3
    <3> QED BY Zenon, <1>1, <3>3, <3>4 DEF Held
  <2>5. Whole => ctx.idx = Len(ctx.buf)
    BY <1>1, <2>1 DEF Whole
  <2>6. StaysOnItems
    BY <2>1, <2>3, <2>5 DEF StaysOnItems
  <2>7. Listed /\ Told
    BY <1>1, <1>3 DEF Listed, Told
  <2> QED BY <2>4, <2>6, <2>7 DEF Kept
<1> QED BY <1>2, <1>3 DEF CodecInit

\* A reader is opened on the bytes written.
LEMMA OpenedKeeps == Kept /\ DecoderInit => Kept' /\ mode' # "encode"
<1> SUFFICES ASSUME Kept, DecoderInit PROVE Kept' /\ mode' # "encode"
  OBVIOUS
<1> DEFINE b == ctx.buf
           p == ctx.idx
           u == SubSeq(b, 1, p)
<1>1. /\ mode = "encode" /\ mode' = "decode" /\ flags' \in BOOLEAN /\ log' = log
      /\ ctx' = [buf |-> u, idx |-> 0] /\ last' = NoCall
  BY DEF DecoderInit
<1>2. /\ b \in Seq(Byte) /\ Len(b) \in Nat /\ Len(b) < Huge
      /\ p \in Nat /\ p <= Len(b) /\ LaidIn(log, b, p)
  BY <1>1 DEF Kept, Held, IsContext, Listed
<1>3. u \in Seq(Byte) /\ Len(u) = p /\ \A i \in 1 .. p : u[i] = b[i]
  <2>1. 1 \in Int /\ p \in Int /\ \A i \in 1 .. p : b[i] \in Byte
    <3>1. \A i \in 1 .. Len(b) : b[i] \in Byte
      BY <1>2, ElementOfSeq
    <3> QED BY <1>2, <3>1
  <2> HIDE DEF b, p
  <2>2. /\ u \in Seq(Byte) /\ Len(u) = (IF 1 <= p THEN p - 1 + 1 ELSE 0)
        /\ \A i \in 1 .. p - 1 + 1 : u[i] = b[1 + i - 1]
    BY <2>1, SubSeqProperties
  <2>3. p - 1 + 1 = p /\ \A i \in 1 .. p : 1 + i - 1 = i
    BY <1>2
  <2> HIDE DEF u
  <2> QED BY <1>2, <2>2, <2>3
<1> HIDE DEF b, p, u
<1>4. Held'
  BY <1>1, <1>2, <1>3, HugeNat DEF Held, IsContext
<1>5. LaidIn(log, u, p)
  <2>1. ASSUME NEW i \in 1 .. Len(log) PROVE Standing(u, log[i])
    <3> DEFINE it == log[i]
    <3>1. log \in Seq(Entry) /\ Standing(b, it) /\ Len(log) - i <= p - it.to /\ Len(log) \in Nat
      BY <1>2 DEF LaidIn
    <3>2. it \in Entry
      BY <3>1, ElementOfSeq
    <3> HIDE DEF it
    <3>3. it.to \in Nat
      BY <3>2 DEF Entry
    <3>4. it.to <= p
      BY <1>2, <3>1, <3>3
    <3>5. it.to <= Len(u) /\ \A k \in 1 .. it.to : u[k] = b[k]
      BY <1>2, <1>3, <3>3, <3>4
    <3>6. Standing(u, it)
      BY <3>1, <3>2, <3>5, StandsStill
    <3> QED BY <3>6 DEF it
  <2> QED BY <1>2, <2>1 DEF LaidIn
<1>6. Listed'
  BY <1>1, <1>3, <1>5 DEF Listed
<1>7. Told'
  BY <1>1 DEF Told, NoCall
<1>8. StaysOnItems'
  <2>1. ctx'.idx = 0 /\ Len(ctx'.buf) = p
    BY <1>1, <1>3
  <2>2. log \in Seq(Entry) /\ Len(log) \in Nat
    BY <1>5 DEF LaidIn
  <2>3. CASE Len(log) = 0
    <3>1. p = 0
      BY <1>5, <2>3 DEF LaidIn
    <3> QED BY <2>1, <3>1 DEF StaysOnItems
  <2>4. CASE Len(log) # 0
    <3>1. log[1].from = 0 /\ 1 \in 1 .. Len(log)
      BY <1>5, <2>2, <2>4 DEF LaidIn
    <3>2. log[1] \in Range(log)
      BY <2>2, <3>1, LogItems
    <3>3. \E it \in Range(log') : it.from = ctx'.idx
      BY <1>1, <2>1, <3>1, <3>2
    <3>4. ctx'.idx <= Len(ctx'.buf)
      BY <1>2, <2>1
    <3> QED BY <3>3, <3>4 DEF StaysOnItems
  <2> QED BY <2>3, <2>4
<1> QED BY <1>1, <1>4, <1>6, <1>7, <1>8 DEF Kept

\* Every call, and what an encoder leaves alone.
LEMMA NextKept ==
    Kept /\ CodecNext =>
        Kept' /\ (mode' = "encode" => Ahead /\ Careful)
<1> SUFFICES ASSUME Kept, CodecNext
             PROVE  Kept' /\ (mode' = "encode" => Ahead /\ Careful)
  OBVIOUS
<1>1. CASE Encode
  <2>1. CASE \/ EncodeUint \/ EncodeInt \/ EncodeTag
             \/ EncodeArrayStart \/ EncodeMapStart
             \/ EncodeSimpleVal \/ EncodeFloat \/ EncodeDouble
    BY <2>1, HeadsKeep
  <2>2. CASE EncodeBstr \/ EncodeTstr
    BY <2>2, StringsKeep
  <2> QED BY <1>1, <2>1, <2>2 DEF Encode
<1>2. CASE DecoderInit
  BY <1>2, OpenedKeeps
<1>3. CASE Decode
  BY <1>3, DecodersKeep
<1> QED BY <1>1, <1>2, <1>3 DEF CodecNext

\* No call at all.
LEMMA StillKept == Kept /\ UNCHANGED codecVars => Kept'
<1> SUFFICES ASSUME Kept, UNCHANGED codecVars PROVE Kept'
  OBVIOUS
<1>1. UNCHANGED <<ctx, mode, flags, log, last>>
  BY DEF codecVars
<1>2. Held' /\ Listed' /\ Told'
  BY <1>1 DEF Kept, Held, Listed, Told
<1>3. StaysOnItems'
  BY <1>1 DEF Kept, StaysOnItems, Whole
<1> QED BY <1>2, <1>3 DEF Kept

\* So it is always kept.
LEMMA CodecKept == CodecSpec => []Kept
<1>1. CodecInit => Kept
  BY InitKept
<1>2. Kept /\ [CodecNext]_codecVars => Kept'
  BY NextKept, StillKept
<1> QED BY <1>1, <1>2, PTL DEF CodecSpec

\* WritesOnlyAhead, for every buffer and every value.
THEOREM CodecWritesAhead == CodecSpec => WritesOnlyAhead
<1> DEFINE A == mode' = "encode" => Ahead /\ Careful
<1>1. Kept /\ [CodecNext]_codecVars => [A]_codecVars
  BY NextKept
<1>2. CodecSpec => [][A]_codecVars
  <2> HIDE DEF A
  <2> QED BY <1>1, CodecKept, PTL DEF CodecSpec
<1>3. ASSUME A
      PROVE  mode' = "encode" =>
          /\ ctx'.idx \in ctx.idx .. Len(ctx'.buf) /\ Len(ctx'.buf) = Len(ctx.buf)
          /\ \A i \in DOMAIN ctx.buf :
                i \notin (ctx.idx + 1) .. ctx'.idx => ctx'.buf[i] = ctx.buf[i]
          /\ last'.ret # "ok" /\ ctx' # ctx =>
                /\ last'.op \in {"bstr", "tstr"}
                /\ \E data \in Strings :
                      /\ ctx.idx + Len(HeadOf(BSTR, SizeArg(Len(data))))
                           = ctx'.idx
                      /\ ctx'.idx + Len(data) > Len(ctx.buf)
  BY Zenon, <1>3 DEF Ahead, Careful
<1> QED BY <1>2, <1>3, PTL DEF WritesOnlyAhead

\* A decoder that succeeds was given a head, of its own type.
LEMMA AnswerOk ==
    ASSUME NEW op, NEW item, NEW len, Answer(op, item, len) = "ok"
    PROVE  /\ item.ret = "ok"
           /\ op = "int" \/ (op = "label" /\ item.mt # TSTR) =>
                  item.mt \in {UINT, NEGINT} /\ ~ Negative(item.val)
<1>1. \A mt : Typed(item, mt) = "ok" => item.ret = "ok"
  BY DEF Typed
<1>2. \A mt, perCount : ContainerAnswer(item, mt, perCount, len) = "ok" => item.ret = "ok"
  <2> TAKE mt, perCount
  <2> QED BY <1>1 DEF ContainerAnswer
<1>3. IntCode(item) = "ok" =>
          /\ item.ret = "ok" /\ item.mt \in {UINT, NEGINT}
          /\ ~ Negative(item.val)
  BY DEF IntCode
<1>4. item.ret = "ok"
  BY <1>1, <1>2, <1>3 DEF Answer
<1>5. ASSUME op = "int" \/ (op = "label" /\ item.mt # TSTR)
      PROVE  item.mt \in {UINT, NEGINT} /\ ~ Negative(item.val)
  <2>1. Answer(op, item, len) = IntCode(item)
    BY <1>5 DEF Answer
  <2> QED BY <1>3, <2>1
<1> QED BY <1>4, <1>5

\* Encoding what was read: OneEncoding in every state that is kept.
LEMMA KeptEncoding == Kept => OneEncoding
<1> SUFFICES ASSUME Kept, mode = "decode", last.op # "none", last.ret = "ok",
                    last.mt # SIMPLE
             PROVE  /\ Len(Encoding) <= last.to - last.from
                    /\ ~ flags => Encoding =
                                      Bytes(ctx.buf, last.from, last.to - last.from)
                    /\ LET again == DecodeHead(Encoding, 0, FALSE)
                           was   == DecodeHead(ctx.buf, last.from, flags)
                       IN  again.ret = "ok" /\ again.mt = was.mt /\ again.val = was.val
                                            /\ again.data = was.data
  BY Zenon DEF OneEncoding
<1> DEFINE b   == ctx.buf
           p   == last.from
           was == DecodeHead(b, p, flags)
           enc == Encoding
<1>1. /\ b \in Seq(Byte) /\ Len(b) \in Nat /\ Len(b) < Huge
      /\ flags \in BOOLEAN
  BY DEF Kept, Held, IsContext
<1>2. /\ p \in 0 .. Len(b) /\ last.mt = was.mt /\ last.to = was.idx
      /\ Answer(last.op, was, Len(b)) = "ok"
      /\ last.data = was.data /\ last.val = Given(last.op, was)
  BY DEF Kept, Told
<1>3. p \in Nat
  BY <1>1, <1>2
<1> HIDE DEF was
<1>4. /\ was.ret = "ok"
      /\ last.op = "int" \/ (last.op = "label" /\ was.mt # TSTR) =>
             was.mt \in {UINT, NEGINT} /\ ~ Negative(was.val)
  BY <1>2, AnswerOk
<1>5. was.val \in Arg
  BY <1>1, <1>2, <1>4, CursorOfHead DEF was
<1>6. EncodesBack(b, p, flags, was, enc)
  <2>1. CASE last.op = "int" \/ (last.op = "label" /\ last.mt # TSTR)
    <3>1. enc = IntHead(last.val)
      BY Zenon, <2>1 DEF Encoding
    <3>2. last.val = IntVal(was)
      BY <1>2, <2>1 DEF Given
    <3>3. was.mt \in {UINT, NEGINT} /\ ~ Negative(was.val)
      BY <1>2, <1>4, <2>1
    <3>4. enc = HeadOf(was.mt, was.val)
      BY <1>5, <3>1, <3>2, <3>3, IntValIs
    <3>5. was.mt # SIMPLE /\ was.mt \notin {BSTR, TSTR}
      BY <3>3 DEF UINT, NEGINT, BSTR, TSTR, SIMPLE
    <3> HIDE DEF enc, b, p
    <3>6. EncodesBack(b, p, flags, was, HeadOf(was.mt, was.val))
      BY <1>1, <1>3, <1>4, <3>5, HeadEncodesBack DEF was
    <3> QED BY <3>4, <3>6
  <2>2. CASE ~ (last.op = "int" \/ (last.op = "label" /\ last.mt # TSTR))
    <3>1. enc = IF last.mt \in {BSTR, TSTR}
                THEN HeadOf(last.mt, SizeArg(Len(last.data))) \o last.data
                ELSE HeadOf(last.mt, last.val)
      BY Zenon, <2>2 DEF Encoding
    <3> HIDE DEF enc, b, p
    <3>2. CASE was.mt \in {BSTR, TSTR}
      <4>1. enc = HeadOf(was.mt, SizeArg(Len(was.data))) \o was.data
        BY <1>2, <3>1, <3>2
      <4>2. EncodesBack(b, p, flags, was,
                        HeadOf(was.mt, SizeArg(Len(was.data))) \o was.data)
        BY <1>1, <1>3, <1>4, <3>2, StringEncodesBack DEF was
      <4> QED BY <4>1, <4>2
    <3>3. CASE was.mt \notin {BSTR, TSTR}
      <4>1. last.val = was.val
        BY <1>2, <2>2, <3>3 DEF Given
      <4>2. enc = HeadOf(was.mt, was.val)
        BY <1>2, <3>1, <3>3, <4>1
      <4>3. EncodesBack(b, p, flags, was, HeadOf(was.mt, was.val))
        BY <1>1, <1>2, <1>3, <1>4, <3>3, HeadEncodesBack DEF was
      <4> QED BY <4>2, <4>3
    <3> QED BY <3>2, <3>3
  <2> QED BY <2>1, <2>2
<1>7. /\ Len(enc) <= was.idx - p
      /\ ~ flags => enc = Bytes(b, p, was.idx - p)
      /\ DecodeHead(enc, 0, FALSE).ret = "ok"
      /\ DecodeHead(enc, 0, FALSE).mt = was.mt
      /\ DecodeHead(enc, 0, FALSE).val = was.val
      /\ DecodeHead(enc, 0, FALSE).data = was.data
  BY Zenon, <1>6 DEF EncodesBack
<1> HIDE DEF enc
<1>8. /\ Len(enc) <= last.to - p
      /\ ~ flags => enc = Bytes(b, p, last.to - p)
  BY <1>2, <1>7
<1> QED BY Zenon, <1>7, <1>8 DEF was, enc

\* OneEncoding, for every message and either reader.
THEOREM CodecOneEncoding == CodecSpec => []OneEncoding
BY CodecKept, KeptEncoding, PTL

\* The items behind an item are at most as many as the bytes behind it.
LEMMA BytesFollow ==
    ASSUME NEW end \in Nat, LaidIn(log, ctx.buf, end), NEW i \in 1 .. Len(log)
    PROVE  /\ log[i].to \in Nat
           /\ Cardinality({j \in DOMAIN log : log[j].from >= log[i].to}) <= end - log[i].to
<1> DEFINE n == Len(log)
           S == {j \in DOMAIN log : log[j].from >= log[i].to}
<1>1. /\ log \in Seq(Entry) /\ n \in Nat
      /\ n - i <= end - log[i].to
      /\ \A j \in 1 .. n : log[j].from < log[j].to
      /\ \A j, k \in 1 .. n : j < k => log[j].to <= log[k].from
  BY DEF LaidIn
<1>2. \A j \in 1 .. n : log[j].from \in Nat /\ log[j].to \in Nat
  <2> TAKE j \in 1 .. n
  <2> DEFINE e == log[j]
  <2>1. e \in Entry
    BY <1>1, ElementOfSeq
  <2> HIDE DEF e
  <2>2. e.from \in Nat /\ e.to \in Nat
    BY <2>1 DEF Entry
  <2> QED BY <2>2 DEF e
<1>3. DOMAIN log = 1 .. n
  BY <1>1, LogItems
<1> HIDE DEF n
<1>4. i \in 1 .. n
  BY DEF n
<1>5. S = (i + 1) .. n
  <2>1. ASSUME NEW j \in 1 .. n PROVE log[j].from >= log[i].to <=> i < j
    <3>1. CASE i < j
      BY <1>1, <1>2, <1>4, <3>1
    <3>2. CASE j < i
      <4>1. log[j].from < log[j].to /\ log[j].to <= log[i].from /\ log[i].from < log[i].to
        BY <1>1, <1>4, <3>2
      <4> QED BY <1>2, <1>4, <3>2, <4>1
    <3>3. CASE j = i
      BY <1>1, <1>2, <1>4, <3>3
    <3> QED BY <1>1, <1>4, <3>1, <3>2, <3>3
  <2>2. \A j : j \in S <=> j \in 1 .. n /\ i < j
    BY <1>3, <2>1
  <2>3. \A j : j \in (i + 1) .. n <=> j \in 1 .. n /\ i < j
    BY <1>1, <1>4
  <2> HIDE DEF S
  <2> QED BY <2>2, <2>3
<1> HIDE DEF S
<1>6. Cardinality(S) = n - i
  <2> DEFINE a == i + 1
  <2>1. a \in Int /\ n \in Int /\ (a > n => n - i = 0) /\ n - a + 1 = n - i
    BY <1>1, <1>4
  <2>2. S = a .. n
    BY <1>5
  <2> HIDE DEF a
  <2>3. Cardinality(a .. n) = IF a > n THEN 0 ELSE n - a + 1
    BY <2>1, FS_Interval
  <2> QED BY <2>1, <2>2, <2>3
<1>7. Cardinality(S) <= end - log[i].to /\ log[i].to \in Nat
  BY <1>1, <1>2, <1>4, <1>6
<1> QED BY <1>7 DEF S

\* So a container whose entries follow has room for them.
LEMMA FollowedFits ==
    ASSUME Kept, mode = "decode", LaidIn(log, ctx.buf, Len(ctx.buf)),
           NEW i \in 1 .. Len(log), log[i].val \in Arg
    PROVE  LET it == log[i]
               n  == AsNat(it.val)
               room == Len(ctx.buf) - it.to
           IN  /\ Followed(it, 1) => n <= room \div 1
               /\ Followed(it, 2) => n <= room \div 2
<1> DEFINE it == log[i]
           n  == AsNat(it.val)
           room == Len(ctx.buf) - it.to
           S == {j \in DOMAIN log : log[j].from >= it.to}
           c == Cardinality(S)
<1>1. Len(ctx.buf) \in Nat
  BY DEF Kept, Held, IsContext
<1>2. it.to \in Nat /\ c <= room
  BY <1>1, BytesFollow
<1>3. n \in Nat
  BY SizeArgOf
<1>4. c \in Int
  <2>1. /\ log \in Seq(Entry) /\ Len(log) \in Nat
    BY DEF LaidIn
  <2>2. DOMAIN log = 1 .. Len(log)
    BY <2>1, LogItems
  <2>3. IsFiniteSet(1 .. Len(log))
    <3> DEFINE a == 1
               m == Len(log)
    <3>1. a \in Int /\ m \in Int
      BY <2>1
    <3> HIDE DEF a, m
    <3>2. IsFiniteSet(a .. m)
      BY <3>1, FS_Interval
    <3> QED BY <3>2 DEF a, m
  <2>4. S \subseteq 1 .. Len(log)
    BY <2>2
  <2> HIDE DEF S
  <2>5. IsFiniteSet(S)
    BY <2>3, <2>4, FS_Subset
  <2>6. Cardinality(S) \in Nat
    BY <2>5, FS_CardinalityType
  <2> QED BY <2>6
<1>5. \A k : Followed(it, k) => c >= k * n
  <2>1. Cardinality(S) = c
    OBVIOUS
  <2> QED BY Zenon, <2>1 DEF Followed
<1> HIDE DEF it, n, c, S
<1>6. room \in Int
  BY <1>1, <1>2
<1> HIDE DEF room
<1>7. Followed(it, 1) => n <= room \div 1
  <2> SUFFICES ASSUME Followed(it, 1) PROVE n <= room \div 1
    OBVIOUS
  <2>1. c >= 1 * n
    BY Zenon, <1>5
  <2> QED BY <1>2, <1>3, <1>4, <1>6, <2>1
<1>8. Followed(it, 2) => n <= room \div 2
  <2> SUFFICES ASSUME Followed(it, 2) PROVE n <= room \div 2
    OBVIOUS
  <2>1. c >= 2 * n
    BY Zenon, <1>5
  <2> QED BY <1>2, <1>3, <1>4, <1>6, <2>1
<1> QED BY <1>7, <1>8 DEF it, n, room

\* Integers are not text.
LEMMA TypesDiffer ==
    /\ UINT # NEGINT /\ UINT # TSTR /\ NEGINT # TSTR
BY DEF UINT, NEGINT, TSTR

\* What a decoder says of an item that was written: was is the item's head.
SaysOf(it, op, code, val, data) ==
    /\ op = "head" => code = "ok"
    /\ op = "head" /\ it.kind = "simple" => code = "ok" /\ val = it.val
    /\ op = "uint" /\ Integer(it) /\ (it.kind = "uint" \/ ~ Negative(it.val)) =>
           code = "ok" /\ val = it.val
    /\ op \in {"int", "label"} /\ Integer(it) =>
           IF it.kind = "uint" /\ Negative(it.val) THEN code = "overflow"
           ELSE code = "ok" /\ val = it.val
    /\ op = "tag" /\ it.kind = "tag" => code = "ok" /\ val = it.val
    /\ op = "array" /\ it.kind = "array" /\ Followed(it, 1) => code = "ok" /\ val = it.val
    /\ op = "map" /\ it.kind = "map" /\ Followed(it, 2) => code = "ok" /\ val = it.val
    /\ op = it.kind /\ it.kind \in {"bstr", "tstr"} => code = "ok" /\ data = it.data
    /\ op = "label" /\ it.kind = "tstr" => code = "ok" /\ data = it.data

\* Decoder by decoder, from the head of the item alone.
LEMMA SaysSo ==
    ASSUME NEW it, NEW len, it.val \in Arg,
           NEW was, was = Item("ok", TypeOf(it), ArgOf(it), it.data, it.to),
           Followed(it, 1) => AsNat(it.val) <= (len - it.to) \div 1,
           Followed(it, 2) => AsNat(it.val) <= (len - it.to) \div 2,
           NEW op, NEW code, code = Answer(op, was, len),
           NEW val, NEW data, code = "ok" => data = was.data /\ val = Given(op, was)
    PROVE  SaysOf(it, op, code, val, data)
<1>1. /\ was.ret = "ok" /\ was.mt = TypeOf(it) /\ was.val = ArgOf(it) /\ was.data = it.data
      /\ was.idx = it.to
  BY DEF Item
<1>2. \A mt : Typed(was, mt) = IF was.mt # mt THEN "type" ELSE "ok"
  BY <1>1 DEF Typed
<1>3. KindTypesOf(it)
  BY KindTypes DEF KindTypesOf
<1>4. Answers(was, len)
  BY Zenon, AnswersHold
<1>5. it.kind \notin {"int", "bstr", "tstr"} => ArgOf(it) = it.val
  BY DEF ArgOf
<1>6. CASE op = "head"
  <2>1. code = "ok" /\ val = was.val /\ op # "int" /\ op # "label"
    BY <1>1, <1>4, <1>6 DEF Answers
  <2> QED BY <1>1, <1>5, <1>6, <2>1 DEF SaysOf
<1>7. CASE op = "uint"
  <2> SUFFICES ASSUME Integer(it), it.kind = "uint" \/ ~ Negative(it.val)
               PROVE  code = "ok" /\ val = it.val
    BY <1>7 DEF SaysOf
  <2>1. TypeOf(it) = UINT /\ ArgOf(it) = it.val
    BY <1>3, <1>5 DEF Integer, KindTypesOf, IntType, IntArg, ArgOf
  <2>2. code = "ok" /\ val = was.val
    BY <1>1, <1>2, <1>4, <1>7, <2>1 DEF Answers
  <2> QED BY <1>1, <2>1, <2>2
<1>8. CASE op = "int" \/ op = "label"
  <2>1. /\ op = "label" /\ was.mt = TSTR => code = "ok" /\ val = IntVal(was)
        /\ op = "int" \/ was.mt # TSTR => code = IntCode(was)
        /\ code = "ok" => val = IntVal(was)
    BY <1>1, <1>4, <1>8 DEF Answers
  <2>2. ASSUME op = "label", it.kind = "tstr" PROVE code = "ok" /\ data = it.data
    BY <1>1, <1>3, <2>1, <2>2 DEF KindTypesOf
  <2>3. ASSUME Integer(it)
        PROVE  IF it.kind = "uint" /\ Negative(it.val) THEN code = "overflow"
               ELSE code = "ok" /\ val = it.val
    <3>1. it.kind = "uint" \/ it.kind = "int"
      BY <2>3 DEF Integer
    <3>2. CASE it.kind = "uint"
      <4>1. was.mt = UINT /\ was.val = it.val
        BY <1>1, <1>3, <1>5, <3>2 DEF KindTypesOf
      <4>2. code = IF Negative(it.val) THEN "overflow" ELSE "ok"
        BY <1>1, <2>1, <4>1, TypesDiffer DEF IntCode
      <4>3. IntVal(was) = it.val
        BY <4>1, TypesDiffer DEF IntVal
      <4> QED BY <2>1, <3>2, <4>2, <4>3
    <3>3. CASE it.kind = "int"
      <4>1. was.mt = IntType(it.val) /\ was.val = IntArg(it.val)
        BY <1>1, <1>3, <3>3 DEF KindTypesOf, ArgOf
      <4>2. /\ ~ Negative(IntArg(it.val))
            /\ IntType(it.val) \in {UINT, NEGINT}
            /\ IntType(it.val) = NEGINT <=> Negative(it.val)
            /\ Negative(it.val) => MinusOneMinus(IntArg(it.val)) = it.val
            /\ ~ Negative(it.val) => IntArg(it.val) = it.val
        BY IntHeadIs
      <4>3. IntCode(was) = "ok"
        BY <1>1, <4>1, <4>2 DEF IntCode
      <4>4. IntVal(was) = it.val
        BY <4>1, <4>2 DEF IntVal
      <4>5. was.mt # TSTR
        BY <4>1, <4>2, TypesDiffer
      <4> QED BY <2>1, <3>3, <4>3, <4>4, <4>5
    <3> QED BY <3>1, <3>2, <3>3
  <2> QED BY <1>8, <2>2, <2>3 DEF SaysOf
<1>9. CASE op = "tag"
  <2> SUFFICES ASSUME it.kind = "tag" PROVE code = "ok" /\ val = it.val
    BY <1>9 DEF SaysOf
  <2>1. TypeOf(it) = TAG /\ ArgOf(it) = it.val
    BY <1>3, <1>5 DEF KindTypesOf
  <2> QED BY <1>1, <1>2, <1>4, <1>9, <2>1 DEF Answers
<1>10. CASE op = "array"
  <2> SUFFICES ASSUME it.kind = "array", Followed(it, 1) PROVE code = "ok" /\ val = it.val
    BY <1>10 DEF SaysOf
  <2>1. TypeOf(it) = ARRAY /\ ArgOf(it) = it.val
    BY <1>3, <1>5 DEF KindTypesOf
  <2>2. Typed(was, ARRAY) = "ok"
    BY <1>1, <1>2, <2>1
  <2>3. ContainerAnswer(was, ARRAY, 1, len) = "ok"
    BY <1>1, <2>1, <2>2 DEF ContainerAnswer
  <2> QED BY <1>1, <1>4, <1>10, <2>1, <2>3 DEF Answers
<1>11. CASE op = "map"
  <2> SUFFICES ASSUME it.kind = "map", Followed(it, 2) PROVE code = "ok" /\ val = it.val
    BY <1>11 DEF SaysOf
  <2>1. TypeOf(it) = MAP /\ ArgOf(it) = it.val
    BY <1>3, <1>5 DEF KindTypesOf
  <2>2. Typed(was, MAP) = "ok"
    BY <1>1, <1>2, <2>1
  <2>3. ContainerAnswer(was, MAP, 2, len) = "ok"
    BY <1>1, <2>1, <2>2 DEF ContainerAnswer
  <2> QED BY <1>1, <1>4, <1>11, <2>1, <2>3 DEF Answers
<1>12. CASE op = "bstr" \/ op = "tstr"
  <2> SUFFICES ASSUME op = it.kind PROVE code = "ok" /\ data = it.data
    BY <1>12 DEF SaysOf
  <2>1. CASE op = "bstr"
    <3>1. TypeOf(it) = BSTR
      BY <1>3, <2>1 DEF KindTypesOf
    <3> QED BY <1>1, <1>2, <1>4, <2>1, <3>1 DEF Answers
  <2>2. CASE op = "tstr"
    <3>1. TypeOf(it) = TSTR
      BY <1>3, <2>2 DEF KindTypesOf
    <3> QED BY <1>1, <1>2, <1>4, <2>2, <3>1 DEF Answers
  <2> QED BY <1>12, <2>1, <2>2
<1>13. CASE op \notin {"head", "uint", "int", "label", "tag", "array", "map", "bstr", "tstr"}
  BY <1>13 DEF SaysOf
<1> QED BY <1>6, <1>7, <1>8, <1>9, <1>10, <1>11, <1>12, <1>13

\* Reading what was written: ReadsBack in every state that is kept.
LEMMA KeptReadsBack == Kept => ReadsBack
<1> SUFFICES ASSUME Kept, mode = "decode", Whole, last.op # "none",
                    NEW it \in Range(log), it.from = last.from
             PROVE  SaysOf(it, last.op, last.ret, last.val, last.data)
  <2>1. Kept => StaysOnItems
    BY DEF Kept
  <2> QED BY Zenon, <2>1 DEF ReadsBack, SaysOf, Value, Data
<1>1. log # <<>>
  BY DEF Range
<1>2. LaidIn(log, ctx.buf, Len(ctx.buf)) /\ log \in Seq(Entry)
  BY <1>1 DEF Kept, Listed, LaidIn
<1>3. PICK i \in 1 .. Len(log) : it = log[i]
  BY <1>2, LogItems
<1>4. it \in Entry /\ Standing(ctx.buf, it)
  BY <1>2, <1>3, ElementOfSeq DEF LaidIn
<1>5. it.kind # "stray"
  BY Zenon DEF Whole
<1>6. it.val \in Arg
  BY <1>4 DEF Entry
<1> DEFINE was == DecodeHead(ctx.buf, last.from, flags)
           len == Len(ctx.buf)
<1>7. ctx.buf \in Seq(Byte) /\ flags \in BOOLEAN
  BY DEF Kept, Held, IsContext
<1>8. was = Item("ok", TypeOf(it), ArgOf(it), it.data, it.to)
  <2>1. DecodeHead(ctx.buf, it.from, flags) =
            Item("ok", TypeOf(it), ArgOf(it), it.data, it.to)
    BY <1>4, <1>5, <1>7, AtEntry
  <2> QED BY <2>1
<1>9. /\ last.ret = Answer(last.op, was, len)
      /\ last.ret = "ok" => last.data = was.data /\ last.val = Given(last.op, was)
  BY DEF Kept, Told
<1>10. /\ Followed(it, 1) => AsNat(it.val) <= (len - it.to) \div 1
       /\ Followed(it, 2) => AsNat(it.val) <= (len - it.to) \div 2
  BY <1>2, <1>3, <1>6, FollowedFits
<1> HIDE DEF was, len
<1> QED BY <1>6, <1>8, <1>9, <1>10, SaysSo

\* ReadsBack, for every buffer, every value and every sequence of calls.
THEOREM CodecReadsBack == CodecSpec => []ReadsBack
BY CodecKept, KeptReadsBack, PTL

=============================================================================
