------------------------- MODULE Recipients_proofs -------------------------
(***************************************************************************)
(* For any algorithms, keys, requests, calls and messages: the walk over   *)
(* the recipients stays within its stack, no key is used in a message that *)
(* mixes modes, and a key is used only for what it is pinned to and with a *)
(* content algorithm that somebody vouches for; a sender refuses nothing   *)
(* late, what it sends is read by everybody it is for, and a receiver that *)
(* takes an entry has walked over the whole message in its nesting.        *)
(***************************************************************************)
EXTENDS Recipients, Checks_proofs

-----------------------------------------------------------------------------
(* Lists that grow at the end.                                             *)

IsList(s) == /\ Len(s) \in Nat
             /\ s = [k \in 1 .. Len(s) |-> s[k]]

LEMMA EmptyIsList == IsList(<<>>) /\ Len(<<>>) = 0
BY DEF IsList

LEMMA AppendIsList ==
    ASSUME NEW s, IsList(s), NEW x
    PROVE  /\ IsList(Append(s, x))
           /\ Len(Append(s, x)) = Len(s) + 1
           /\ \A k \in 1 .. Len(s) : Append(s, x)[k] = s[k]
           /\ Append(s, x)[Len(s) + 1] = x
<1> DEFINE S == {s[k] : k \in 1 .. Len(s)} \cup {x}
           n == Len(s)
<1>1. n \in Nat /\ s \in [1 .. n -> S]
  BY DEF IsList
<1>2. s \in Seq(S) /\ x \in S
  BY <1>1, SeqDef
<1> HIDE DEF S
<1>3. /\ Append(s, x) \in Seq(S)
      /\ Len(Append(s, x)) = Len(s) + 1
      /\ \A k \in 1 .. Len(s) : Append(s, x)[k] = s[k]
      /\ Append(s, x)[Len(s) + 1] = x
  BY <1>2, AppendProperties, LenProperties
<1>4. IsList(Append(s, x))
  BY <1>3, LenProperties DEF IsList
<1> QED BY <1>3, <1>4

-----------------------------------------------------------------------------
(* What the lists of checks establish.                                     *)

LEMMA EightOf ==
    ASSUME NEW a1, NEW a2, NEW a3, NEW a4, NEW a5, NEW a6, NEW a7, NEW a8,
           First(<<a1, a2, a3, a4, a5, a6, a7, a8>>) = "ok"
    PROVE  /\ a1 = "ok" /\ a2 = "ok" /\ a3 = "ok" /\ a4 = "ok"
           /\ a5 = "ok" /\ a6 = "ok" /\ a7 = "ok" /\ a8 = "ok"
<1> DEFINE s == <<a1, a2, a3, a4, a5, a6, a7, a8>>
<1>1. /\ Len(s) = 8
      /\ s[1] = a1 /\ s[2] = a2 /\ s[3] = a3 /\ s[4] = a4
      /\ s[5] = a5 /\ s[6] = a6 /\ s[7] = a7 /\ s[8] = a8
  OBVIOUS
<1>2. First(s) = "ok"
  OBVIOUS
<1> HIDE DEF s
<1>3. \A k \in 1 .. 8 : s[k] = "ok"
  BY <1>1, <1>2, AllPass
<1> QED BY <1>1, <1>3

LEMMA ThirteenOf ==
    ASSUME NEW a1, NEW a2, NEW a3, NEW a4, NEW a5, NEW a6, NEW a7, NEW a8, NEW a9,
           NEW a10, NEW a11, NEW a12, NEW a13
    PROVE  First(<<a1, a2, a3, a4, a5, a6, a7, a8, a9, a10, a11, a12, a13>>) = "ok"
           => /\ a1 = "ok" /\ a4 = "ok" /\ a5 = "ok" /\ a6 = "ok"
              /\ a11 = "ok" /\ a12 = "ok"
<1> DEFINE s == <<a1, a2, a3, a4, a5, a6, a7, a8, a9, a10, a11, a12, a13>>
<1>1. Len(s) = 13
  OBVIOUS
<1>2. s[1] = a1 /\ s[4] = a4 /\ s[5] = a5 /\ s[6] = a6 /\ s[11] = a11 /\ s[12] = a12
  OBVIOUS
<1> HIDE DEF s
<1>3. Len(s) \in Nat
  BY <1>1
<1>4. First(s) = "ok" => \A k \in 1 .. Len(s) : s[k] = "ok"
  BY <1>3, AllPass
<1>5. First(s) = "ok" => /\ a1 = "ok" /\ a4 = "ok" /\ a5 = "ok" /\ a6 = "ok"
                         /\ a11 = "ok" /\ a12 = "ok"
  BY <1>1, <1>2, <1>4
<1> QED BY <1>5 DEF s

\* A call goes on to the recipients only if it asks for one of them.
LEMMA ReceiveOk ==
    ASSUME NEW m, NEW c, ReceiveCode(m, c) = "ok"
    PROVE  ~ (c.index >= m.count)
<1>1. Fails(c.index >= m.count, "arg") = "ok"
  BY EightOf DEF ReceiveCode
<1> QED BY <1>1 DEF Fails

\* Recipients nested in the one skipped fit on the stack.
LEMMA SkippedOk ==
    ASSUME NEW e, NEW depth, SkippedCode(e, depth) = "ok"
    PROVE  ~ (e.fields = 4 /\ depth >= MaxDepth)
<1>1. Fails(e.fields = 4 /\ depth >= MaxDepth, "depth") = "ok"
  BY EightOf DEF SkippedCode
<1> QED BY <1>1 DEF Fails

\* A recipient joins those before it in their mode, and no key agreement.
LEMMA ModeOk ==
    ASSUME NEW alg, NEW common, ModeCode(alg, common) = "ok", common # "none"
    PROVE  common = Mode(alg) /\ common # "agreement"
BY DEF ModeCode, Fails

LEMMA ModeValue ==
    ASSUME NEW alg
    PROVE  Mode(alg) \in {"encryption", "agreement", "transport"}
BY DEF Mode

\* The key of an encrypted message's recipient is pinned to its use, the caller's
\* algorithm is respected and somebody vouches for the content algorithm.
LEMMA EncryptRecipientOk ==
    ASSUME NEW e, NEW c, NEW alg, alg = FinalAlg(e, c), EncryptRecipientCode(e, c) = "ok"
    PROVE  /\ PinnedTo(c.key, KeyAlg(alg, ContentAlg))
           /\ c.policy \in {"unset", alg}
           /\ Has(wire.prot, "alg") \/ alg = "hpke" \/ (alg = "direct" /\ c.key.alg = ContentAlg)
           /\ ModeCode(alg, mode) = "ok"
<1>1. /\ ValidateRecipientKeyAlg(c.key, alg, ContentAlg) = "ok"
      /\ ModeCode(alg, mode) = "ok"
      /\ PolicyCode(c, alg) = "ok"
      /\ ContentAlgCode(c, alg) = "ok"
  BY ThirteenOf DEF EncryptRecipientCode
<1>2. PinnedTo(c.key, KeyAlg(alg, ContentAlg))
  BY <1>1 DEF ValidateRecipientKeyAlg, Fails
<1>3. c.policy \in {"unset", alg}
  BY <1>1 DEF PolicyCode, Fails
<1>4. Has(wire.prot, "alg") \/ alg = "hpke" \/ (alg = "direct" /\ c.key.alg = ContentAlg)
  BY <1>1 DEF ContentAlgCode, Fails
<1> QED BY <1>1, <1>2, <1>3, <1>4

LEMMA MacRecipientOk ==
    ASSUME NEW e, NEW alg, MacRecipientCode(e, alg) = "ok"
    PROVE  ModeCode(alg, mode) = "ok"
<1> DEFINE s == <<Fails(e.fields # 3, "malformed"),
                  Fails(Labels(e.prot) \cap Labels(e.unprot) # {}, "malformed"),
                  ModeCode(alg, mode),
                  Fails(alg = "direct" /\ e.prot # {}, "hdr"),
                  Fails(alg = "direct" /\ e.value # <<"bstr">>, "hdr"),
                  Fails(e.value # <<"null">> /\ ~ IsBstr(e.value), "type")>>
<1>1. Len(s) = 6 /\ s[3] = ModeCode(alg, mode)
  OBVIOUS
<1>2. First(s) = "ok"
  BY DEF MacRecipientCode
<1> HIDE DEF s
<1> QED BY <1>1, <1>2, AllPass

\* The key of an authenticated message's recipient.
LEMMA MacKeyOk ==
    ASSUME MacKeyCode = "ok"
    PROVE  /\ call.key.alg \in {"unset", ContentAlg}
           /\ call.policy \in {"unset", recAlg}
           /\ Has(wire.prot, "alg") \/ (recAlg = "direct" /\ call.key.alg = ContentAlg)
<1>1. /\ Fails(call.key.alg = "unset" /\ ~ Has(wire.prot, "alg"), "alg") = "ok"
      /\ Fails(~ PinnedTo(call.key, ContentAlg), "alg") = "ok"
      /\ Fails(recAlg # "direct", "unsupported") = "ok"
      /\ PolicyCode(call, recAlg) = "ok"
  BY EightOf DEF MacKeyCode
<1>2. /\ ~ (call.key.alg = "unset" /\ ~ Has(wire.prot, "alg"))
      /\ PinnedTo(call.key, ContentAlg)
      /\ recAlg = "direct"
  BY <1>1 DEF Fails
<1>3. call.policy \in {"unset", recAlg}
  BY <1>1 DEF PolicyCode, Fails
<1> QED BY <1>2, <1>3 DEF PinnedTo

-----------------------------------------------------------------------------
(* The inductive invariant.                                                *)

Making  == pc \in {"cek", "body", "recipients"}
Walking == pc \in {"skip", "read", "key"}

MessageOK(m) == /\ m.count \in Nat
                /\ Len(m.recs) \in Nat
                /\ \A k \in 1 .. Len(m.recs) : m.recs[k].nested \in Nat

\* What each variable may be, and the room on the stack.
Typed ==
    /\ pc \in {"idle", "cek", "body", "recipients", "skip", "read", "key"}
    /\ Making => req \in Requests
    /\ IsList(entries)
    /\ \A k \in 1 .. Len(entries) : entries[k].nested = 0
    /\ wire # <<>> => MessageOK(wire)
    /\ call # <<>> => call \in Calls
    /\ Walking => call # <<>> /\ wire # <<>> /\ call.index < wire.count
    /\ at \in Nat \ {0} /\ picked \in Nat /\ picked < at
    /\ remaining \in Nat
    /\ stack \in Seq(Nat) /\ Len(stack) <= MaxDepth
    /\ mode \in {"none", "encryption", "agreement", "transport"}

\* Where the walk is, from the number of recipients it has seen.
Progress ==
    /\ wire = <<>> => call = <<>>
    /\ Making => call = <<>>
    /\ call = <<>> => Len(seen) = 0 /\ picked = 0 /\ used = "none"
    /\ pc = "skip" => Len(seen) < wire.count /\ Len(seen) # call.index
    /\ pc = "read" => Len(seen) = call.index
    /\ pc = "key"  => Len(seen) = wire.count
    /\ Walking => (picked = 0 <=> Len(seen) <= call.index)
    /\ used # "none" => Len(seen) = wire.count

\* The recipients seen so far share the mode.
Modes ==
    /\ IsList(seen)
    /\ mode = "none" <=> Len(seen) = 0
    /\ \A k \in 1 .. Len(seen) : Mode(seen[k]) = mode
    /\ mode = "agreement" => Len(seen) = 1

\* Somebody vouches for the content algorithm.
Vouched == \/ Has(wire.prot, "alg")
           \/ recAlg = "hpke"
           \/ recAlg = "direct" /\ call.key.alg = ContentAlg

\* What was found of the recipient read is still so when its key is used.
Checked ==
    /\ picked # 0 /\ ~ IsMac => /\ PinnedTo(call.key, KeyAlg(recAlg, ContentAlg))
                                /\ call.policy \in {"unset", recAlg}
                                /\ Vouched
    /\ used # "none" => /\ call.key.alg \in {"unset", used}
                        /\ call.policy \in {"unset", recAlg}
                        /\ Vouched

Inv == Typed /\ Progress /\ Modes /\ Checked

\* A call is a record, and so is not the empty tuple.
LEMMA CallShape ==
    ASSUME NEW c \in Calls
    PROVE  c # <<>> /\ c.index \in Nat
<1>1. c \in [api : {"encrypt", "mac"}, key : Keys, policy : STRING, index : Nat,
            detached : BOOLEAN]
  BY CallsAssumption
<1>2. "api" \in DOMAIN c
  BY <1>1
<1>3. DOMAIN <<>> = {}
  OBVIOUS
<1> QED BY <1>1, <1>2, <1>3

THEOREM InitInv == Init => Inv
<1> SUFFICES ASSUME Init PROVE Inv
  OBVIOUS
<1>1. /\ wire = <<>> /\ pc = "idle" /\ entries = <<>> /\ call = <<>> /\ used = "none"
      /\ at = 1 /\ remaining = 1 /\ stack = <<>> /\ mode = "none" /\ picked = 0 /\ seen = <<>>
  BY DEF Init
<1>2. Typed
  BY <1>1, EmptyIsList, DepthAssumption DEF Typed, Making, Walking
<1>3. Progress
  BY <1>1, EmptyIsList DEF Progress, Making, Walking
<1>4. Modes
  BY <1>1, EmptyIsList DEF Modes
<1>5. Checked
  BY <1>1 DEF Checked
<1> QED BY <1>2, <1>3, <1>4, <1>5 DEF Inv

-----------------------------------------------------------------------------
(* Steps that leave most of the state alone.                               *)

\* The sender does not touch what the receiver relies on.
LEMMA SenderKeeps ==
    ASSUME Inv, UNCHANGED <<wire, receiver>>,
           pc' \in {"idle", "cek", "body", "recipients"},
           pc' # "idle" => req' \in Requests /\ call = <<>>,
           IsList(entries'), \A k \in 1 .. Len(entries') : entries'[k].nested = 0
    PROVE  Inv'
<1>1. UNCHANGED <<wire, call, used, at, remaining, stack, mode, recAlg, picked, seen>>
  BY DEF receiver, walk
<1>2. Typed'
  BY <1>1 DEF Inv, Typed, Making, Walking, MessageOK
<1>3. Progress'
  BY <1>1 DEF Inv, Progress, Making, Walking
<1>4. Modes'
  BY <1>1 DEF Inv, Modes
<1>5. Checked'
  BY <1>1 DEF Inv, Checked, IsMac, ContentAlg, Vouched
<1> QED BY <1>2, <1>3, <1>4, <1>5 DEF Inv

\* A refusal of either side leaves everything but the code.
LEMMA FinishKeeps ==
    ASSUME Inv, UNCHANGED <<wire, receiver>>, NEW code, Finish(code)
    PROVE  Inv'
<1>1. pc' = "idle" /\ entries' = <<>>
  BY DEF Finish
<1>2. Len(<<>>) = 0 /\ IsList(<<>>)
  BY EmptyIsList
<1>3. IsList(entries') /\ \A k \in 1 .. Len(entries') : entries'[k].nested = 0
  BY <1>1, <1>2
<1> QED BY <1>1, <1>3, SenderKeeps

LEMMA RefuseKeeps ==
    ASSUME Inv, UNCHANGED <<wire, sender, receiver>>, NEW code, Refuse(code)
    PROVE  Inv'
<1>1. pc' = "idle" /\ UNCHANGED entries
  BY DEF Refuse, sender
<1>2. IsList(entries') /\ \A k \in 1 .. Len(entries') : entries'[k].nested = 0
  BY <1>1 DEF Inv, Typed
<1> QED BY <1>1, <1>2, SenderKeeps

-----------------------------------------------------------------------------
(* The sender.                                                             *)

LEMMA StartStep == Inv /\ Start => Inv'
<1> SUFFICES ASSUME Inv, Start PROVE Inv'
  OBVIOUS
<1>1. PICK q \in Requests :
         /\ req' = q
         /\ \/ \E code : Finish(code)
            \/ pc' \in {"cek", "body"} /\ UNCHANGED entries
  BY DEF Start
<1>2. UNCHANGED <<wire, receiver>> /\ wire = <<>>
  BY DEF Start
<1>3. CASE \E code : Finish(code)
  BY <1>2, <1>3, FinishKeeps
<1>4. CASE pc' \in {"cek", "body"} /\ UNCHANGED entries
  <2>1. call = <<>>
    BY <1>2 DEF Inv, Progress
  <2>2. IsList(entries') /\ \A k \in 1 .. Len(entries') : entries'[k].nested = 0
    BY <1>4 DEF Inv, Typed
  <2> QED BY <1>1, <1>2, <1>4, <2>1, <2>2, SenderKeeps
<1> QED BY <1>1, <1>3, <1>4

LEMMA ObtainCekStep == Inv /\ ObtainCek => Inv'
<1> SUFFICES ASSUME Inv, ObtainCek PROVE Inv'
  OBVIOUS
<1>1. UNCHANGED <<wire, receiver>> /\ req' = req /\ pc = "cek"
  BY DEF ObtainCek
<1>2. CASE Finish("crypto")
  BY <1>1, <1>2, FinishKeeps
<1>3. CASE pc' = "body" /\ UNCHANGED entries
  <2>1. req \in Requests /\ call = <<>>
    BY <1>1 DEF Inv, Typed, Progress, Making
  <2>2. IsList(entries') /\ \A k \in 1 .. Len(entries') : entries'[k].nested = 0
    BY <1>3 DEF Inv, Typed
  <2> QED BY <1>1, <1>3, <2>1, <2>2, SenderKeeps
<1> QED BY <1>2, <1>3 DEF ObtainCek

LEMMA WriteBodyStep == Inv /\ WriteBody => Inv'
<1> SUFFICES ASSUME Inv, WriteBody PROVE Inv'
  OBVIOUS
<1>1. UNCHANGED <<wire, receiver>> /\ req' = req /\ pc = "body"
  BY DEF WriteBody
<1>2. CASE \E code : Finish(code)
  BY <1>1, <1>2, FinishKeeps
<1>3. CASE pc' = "recipients" /\ UNCHANGED entries
  <2>1. req \in Requests /\ call = <<>>
    BY <1>1 DEF Inv, Typed, Progress, Making
  <2>2. IsList(entries') /\ \A k \in 1 .. Len(entries') : entries'[k].nested = 0
    BY <1>3 DEF Inv, Typed
  <2> QED BY <1>1, <1>3, <2>1, <2>2, SenderKeeps
<1> QED BY <1>2, <1>3 DEF WriteBody

LEMMA WriteRecipientStep == Inv /\ WriteRecipient => Inv'
<1> SUFFICES ASSUME Inv, WriteRecipient PROVE Inv'
  OBVIOUS
<1> DEFINE e == EncodeRecipient(req, Next1)
<1>1. UNCHANGED <<wire, receiver>> /\ req' = req /\ pc = "recipients"
  BY DEF WriteRecipient
<1>2. CASE \E code : Finish(code)
  BY <1>1, <1>2, FinishKeeps
<1>3. CASE pc' = pc /\ entries' = Append(entries, e)
  <2>1. req \in Requests /\ call = <<>>
    BY <1>1 DEF Inv, Typed, Progress, Making
  <2>2. e.nested = 0
    BY DEF EncodeRecipient
  <2> HIDE DEF e
  <2>3. IsList(entries) /\ Len(entries) \in Nat
    BY DEF Inv, Typed, IsList
  <2>4. /\ IsList(entries') /\ Len(entries') = Len(entries) + 1
        /\ \A k \in 1 .. Len(entries) : entries'[k] = entries[k]
        /\ entries'[Len(entries) + 1] = e
    BY <1>3, <2>3, AppendIsList
  <2>5. \A k \in 1 .. Len(entries) : entries[k].nested = 0
    BY DEF Inv, Typed
  <2>6. ASSUME NEW k \in 1 .. Len(entries') PROVE entries'[k].nested = 0
    <3>1. k \in 1 .. Len(entries) \/ k = Len(entries) + 1
      BY <2>3, <2>4
    <3> QED BY <2>2, <2>4, <2>5, <3>1
  <2> QED BY <1>1, <1>3, <2>1, <2>4, <2>6, SenderKeeps
<1> QED BY <1>2, <1>3 DEF WriteRecipient

LEMMA SendStep == Inv /\ Send => Inv'
<1> SUFFICES ASSUME Inv, Send PROVE Inv'
  OBVIOUS
<1>1. /\ wire' = Message(req) /\ pc' = "idle" /\ entries' = <<>>
      /\ UNCHANGED <<call, used, at, remaining, stack, mode, recAlg, picked, seen>>
      /\ pc = "recipients" /\ Len(entries) = Len(req.recs)
  BY DEF Send, Finish, receiver, walk
<1>2. call = <<>> /\ picked = 0 /\ used = "none" /\ Len(seen) = 0
  BY <1>1 DEF Inv, Progress, Making
<1>3. MessageOK(wire')
  <2>1. wire'.count = Len(req.recs) /\ wire'.recs = entries
    BY <1>1 DEF Message
  <2>2. IsList(entries) /\ \A k \in 1 .. Len(entries) : entries[k].nested = 0
    BY DEF Inv, Typed
  <2>3. Len(entries) \in Nat
    BY <2>2 DEF IsList
  <2> QED BY <1>1, <2>1, <2>2, <2>3 DEF MessageOK
<1>4. IsList(entries') /\ Len(entries') = 0
  BY <1>1, EmptyIsList
<1>5. Typed'
  BY <1>1, <1>2, <1>3, <1>4 DEF Inv, Typed, Making, Walking
<1>6. Progress'
  BY <1>1, <1>2 DEF Inv, Progress, Making, Walking
<1>7. Modes'
  BY <1>1 DEF Inv, Modes
<1>8. Checked'
  BY <1>1, <1>2 DEF Checked
<1> QED BY <1>5, <1>6, <1>7, <1>8 DEF Inv

LEMMA ArriveStep == Inv /\ Arrive => Inv'
<1> SUFFICES ASSUME Inv, Arrive PROVE Inv'
  OBVIOUS
<1>1. /\ wire = <<>> /\ wire' \in Peers /\ pc = "idle" /\ pc' = "idle"
      /\ UNCHANGED <<entries, call, used, at, remaining, stack, mode, recAlg, picked, seen>>
  BY DEF Arrive, Idle, sender, receiver, walk
<1>2. call = <<>> /\ picked = 0 /\ used = "none" /\ Len(seen) = 0
  BY <1>1 DEF Inv, Progress
<1>3. MessageOK(wire')
  BY <1>1, PeersAssumption DEF MessageOK
<1>4. Typed'
  BY <1>1, <1>2, <1>3 DEF Inv, Typed, Making, Walking
<1>5. Progress'
  BY <1>1, <1>2 DEF Inv, Progress, Making, Walking
<1>6. Modes'
  BY <1>1 DEF Inv, Modes
<1>7. Checked'
  BY <1>1, <1>2 DEF Checked
<1> QED BY <1>4, <1>5, <1>6, <1>7 DEF Inv

-----------------------------------------------------------------------------
(* The receiver.                                                           *)

LEMMA ReceiveStep == Inv /\ Receive => Inv'
<1> SUFFICES ASSUME Inv, Receive PROVE Inv'
  OBVIOUS
<1>1. /\ pc = "idle" /\ wire # <<>> /\ call = <<>>
      /\ UNCHANGED <<wire, entries, used, at, remaining, stack, mode, recAlg, picked, seen>>
  BY DEF Receive, Idle, sender, walk
<1>2. PICK c \in Calls :
         /\ call' = c
         /\ \/ pc' = "idle"
            \/ /\ ReceiveCode(wire, c) = "ok"
               /\ pc' = IF c.index = 0 THEN "read" ELSE "skip"
  BY DEF Receive, Refuse
<1>3. picked = 0 /\ used = "none" /\ Len(seen) = 0
  BY <1>1 DEF Inv, Progress
<1>4. c # <<>> /\ c.index \in Nat
  BY CallShape
<1>5. wire.count \in Nat
  BY <1>1 DEF Inv, Typed, MessageOK
<1>6. pc' # "idle" => c.index < wire.count
  BY <1>2, <1>4, <1>5, ReceiveOk
<1>7. pc' \in {"idle", "read", "skip"}
  BY <1>2
<1>8. Typed'
  BY <1>1, <1>2, <1>4, <1>6, <1>7 DEF Inv, Typed, Making, Walking, MessageOK
<1>9. Progress'
  BY <1>1, <1>2, <1>3, <1>4, <1>5, <1>6, <1>7 DEF Inv, Progress, Making, Walking
<1>10. Modes'
  BY <1>1 DEF Inv, Modes
<1>11. Checked'
  BY <1>1, <1>3 DEF Checked
<1> QED BY <1>8, <1>9, <1>10, <1>11 DEF Inv

\* Steps within one recipient: only the position and the stack change.
LEMMA SkipKeeps ==
    ASSUME Inv, pc = "skip",
           UNCHANGED <<wire, entries, call, used, mode, recAlg, picked, seen, pc>>,
           at' \in Nat, at' >= at, remaining' \in Nat, stack' \in Seq(Nat),
           Len(stack') <= MaxDepth
    PROVE  Inv'
<1>1. Typed'
  BY DEF Inv, Typed, Making, Walking, MessageOK
<1>2. Progress'
  BY DEF Inv, Progress, Making, Walking
<1>3. Modes'
  BY DEF Inv, Modes
<1>4. Checked'
  BY DEF Inv, Checked, IsMac, ContentAlg, Vouched
<1> QED BY <1>1, <1>2, <1>3, <1>4 DEF Inv

LEMMA SkipEntryStep == Inv /\ SkipEntry => Inv'
<1> SUFFICES ASSUME Inv, SkipEntry PROVE Inv'
  OBVIOUS
<1>1. /\ pc = "skip" /\ remaining > 0
      /\ UNCHANGED <<wire, entries, call, used, mode, recAlg, picked, seen, sender>>
  BY DEF SkipEntry, sender
<1>2. /\ wire # <<>> /\ MessageOK(wire) /\ at \in Nat \ {0} /\ remaining \in Nat
      /\ stack \in Seq(Nat) /\ Len(stack) <= MaxDepth
  BY <1>1 DEF Inv, Typed, Walking
<1>3. CASE /\ \E code : Refuse(code)
           /\ UNCHANGED <<at, remaining, stack, skipped>>
  BY <1>1, <1>3, RefuseKeeps DEF receiver, walk
<1>4. CASE /\ ~ AtEnd /\ SkippedCode(Entry, Len(stack)) = "ok"
           /\ at' = at + 1
           /\ UNCHANGED pc
           /\ \/ /\ Entry.fields = 4
                 /\ stack' = Append(stack, remaining - 1)
                 /\ remaining' = Entry.nested
              \/ remaining' = remaining - 1 /\ UNCHANGED stack
  <2>1. at \in 1 .. Len(wire.recs)
    BY <1>2, <1>4 DEF AtEnd, MessageOK
  <2>2. Entry.nested \in Nat
    BY <1>2, <2>1 DEF Entry, MessageOK
  <2>3. remaining - 1 \in Nat
    BY <1>1, <1>2
  <2>4. CASE /\ Entry.fields = 4
             /\ stack' = Append(stack, remaining - 1)
             /\ remaining' = Entry.nested
    <3>1. ~ (Len(stack) >= MaxDepth)
      BY <1>4, <2>4, SkippedOk
    <3>2. /\ stack' \in Seq(Nat) /\ Len(stack') = Len(stack) + 1 /\ Len(stack) \in Nat
      BY <1>2, <2>3, <2>4, AppendProperties, LenProperties
    <3>3. Len(stack') <= MaxDepth
      BY <3>1, <3>2, DepthAssumption
    <3> QED BY <1>1, <1>2, <1>4, <2>2, <2>4, <3>2, <3>3, SkipKeeps
  <2>5. CASE remaining' = remaining - 1 /\ UNCHANGED stack
    BY <1>1, <1>2, <1>4, <2>3, <2>5, SkipKeeps
  <2> QED BY <1>4, <2>4, <2>5
<1> QED BY <1>3, <1>4 DEF SkipEntry

LEMMA ReturnStep == Inv /\ Return => Inv'
<1> SUFFICES ASSUME Inv, Return PROVE Inv'
  OBVIOUS
<1>1. /\ pc = "skip" /\ stack # <<>>
      /\ remaining' = stack[Len(stack)]
      /\ stack' = SubSeq(stack, 1, Len(stack) - 1)
      /\ UNCHANGED <<wire, entries, call, used, mode, recAlg, picked, seen, pc, at>>
  BY DEF Return, sender
<1>2. stack \in Seq(Nat) /\ Len(stack) <= MaxDepth /\ at \in Nat
  BY DEF Inv, Typed
<1>3. Len(stack) \in Nat /\ Len(stack) >= 1
  BY <1>1, <1>2, EmptySeq, LenProperties
<1>4. remaining' \in Nat
  BY <1>1, <1>2, <1>3, ElementOfSeq
<1>5. stack' \in Seq(Nat) /\ Len(stack') = Len(stack) - 1
  <2> DEFINE n == Len(stack) - 1
  <2>1. n \in Nat /\ Len(stack) = n + 1
    BY <1>3
  <2>2. \A k \in 1 .. n : stack[k] \in Nat
    BY <1>2, <1>3, ElementOfSeq
  <2> HIDE DEF n
  <2>3. /\ SubSeq(stack, 1, n) \in Seq(Nat)
        /\ Len(SubSeq(stack, 1, n)) = IF 1 <= n THEN n - 1 + 1 ELSE 0
    BY <2>1, <2>2, SubSeqProperties
  <2>4. stack' = SubSeq(stack, 1, n)
    BY <1>1 DEF n
  <2>5. Len(stack') = n
    BY <2>1, <2>3, <2>4
  <2> QED BY <2>1, <2>3, <2>4, <2>5 DEF n
<1>6. Len(stack') <= MaxDepth
  BY <1>2, <1>3, <1>5, DepthAssumption
<1> QED BY <1>1, <1>2, <1>4, <1>5, <1>6, SkipKeeps

\* One more recipient is behind, in the mode of those before it.
LEMMA WalkedModes ==
    ASSUME Inv, NEW alg, Walked(alg), ModeCode(alg, mode) = "ok"
    PROVE  /\ Modes'
           /\ Len(seen') = Len(seen) + 1 /\ Len(seen) \in Nat
<1>1. mode' = Mode(alg) /\ seen' = Append(seen, alg)
  BY DEF Walked
<1>2. /\ IsList(seen)
      /\ mode = "none" <=> Len(seen) = 0
      /\ \A k \in 1 .. Len(seen) : Mode(seen[k]) = mode
  BY DEF Inv, Modes
<1>3. Len(seen) \in Nat
  BY <1>2 DEF IsList
<1>4. /\ IsList(seen') /\ Len(seen') = Len(seen) + 1
      /\ \A k \in 1 .. Len(seen) : seen'[k] = seen[k]
      /\ seen'[Len(seen) + 1] = alg
  BY <1>1, <1>2, AppendIsList
<1>5. Len(seen) # 0 => mode = mode' /\ mode # "agreement"
  BY <1>1, <1>2, ModeOk
<1>6. \A k \in 1 .. Len(seen') : Mode(seen'[k]) = mode'
  <2>1. TAKE k \in 1 .. Len(seen')
  <2>2. CASE k = Len(seen) + 1
    BY <1>1, <1>4, <2>2
  <2>3. CASE k \in 1 .. Len(seen)
    <3>1. Len(seen) # 0
      BY <1>3, <2>3
    <3> QED BY <1>2, <1>4, <1>5, <2>3, <3>1
  <2> QED BY <1>3, <1>4, <2>2, <2>3
<1>7. mode' # "none" /\ Len(seen') # 0
  BY <1>1, <1>3, <1>4, ModeValue
<1>8. mode' = "agreement" => Len(seen') = 1
  BY <1>3, <1>4, <1>5
<1> QED BY <1>3, <1>4, <1>6, <1>7, <1>8 DEF Modes

\* Where the walk goes then.
LEMMA TowardPlace ==
    ASSUME NEW n \in Nat, call.index \in Nat, wire.count \in Nat, n <= wire.count
    PROVE  /\ Toward(n) \in {"skip", "read", "key"}
           /\ Toward(n) = "read" => n = call.index
           /\ Toward(n) = "skip" => n # call.index /\ n < wire.count
           /\ Toward(n) = "key" => n = wire.count
BY DEF Toward

LEMMA SkippedStep == Inv /\ Skipped => Inv'
<1> SUFFICES ASSUME Inv, Skipped PROVE Inv'
  OBVIOUS
<1>1. /\ pc = "skip"
      /\ UNCHANGED <<wire, sender, entries, call, used, at, stack, recAlg, picked, skipped>>
  BY DEF Skipped, sender
<1>2. CASE /\ \E code : Refuse(code)
           /\ UNCHANGED <<mode, seen, remaining>>
  BY <1>1, <1>2, RefuseKeeps DEF receiver, walk
<1>3. CASE ModeCode(skipped, mode) = "ok" /\ Walked(skipped)
  <2>1. Modes' /\ Len(seen') = Len(seen) + 1 /\ Len(seen) \in Nat
    BY <1>3, WalkedModes
  <2>2. /\ call # <<>> /\ wire # <<>> /\ call \in Calls /\ call.index < wire.count
        /\ wire.count \in Nat
    BY <1>1 DEF Inv, Typed, Walking, MessageOK
  <2>3. call.index \in Nat
    BY <2>2, CallShape
  <2>4. Len(seen) < wire.count /\ Len(seen) # call.index
    BY <1>1 DEF Inv, Progress
  <2>5. picked = 0 <=> Len(seen) <= call.index
    BY <1>1 DEF Inv, Progress, Walking
  <2>6. pc' = Toward(Len(seen')) /\ remaining' = 1 /\ mode' = Mode(skipped)
    BY <1>3, <2>1 DEF Walked
  <2>7. /\ pc' \in {"skip", "read", "key"}
        /\ pc' = "read" => Len(seen') = call.index
        /\ pc' = "skip" => Len(seen') # call.index /\ Len(seen') < wire.count
        /\ pc' = "key" => Len(seen') = wire.count
    BY <2>1, <2>2, <2>3, <2>4, <2>6, TowardPlace
  <2>8. mode' \in {"none", "encryption", "agreement", "transport"}
    BY <2>6, ModeValue
  <2>9. Typed'
    BY <1>1, <2>2, <2>6, <2>7, <2>8 DEF Inv, Typed, Making, Walking, MessageOK
  <2>10. used = "none"
    BY <2>1, <2>2, <2>4 DEF Inv, Progress
  <2>11. Progress'
    BY <1>1, <2>1, <2>2, <2>3, <2>4, <2>5, <2>7, <2>10 DEF Progress, Making, Walking
  <2>12. Checked'
    BY <1>1, <2>10 DEF Inv, Checked, IsMac, ContentAlg, Vouched
  <2> QED BY <2>1, <2>9, <2>11, <2>12 DEF Inv
<1> QED BY <1>2, <1>3 DEF Skipped

LEMMA ReadStep == Inv /\ Read => Inv'
<1> SUFFICES ASSUME Inv, Read PROVE Inv'
  OBVIOUS
<1> DEFINE alg == IF AtEnd THEN "unset" ELSE IF IsMac THEN Merged(Entry.prot, Entry.unprot)
                  ELSE FinalAlg(Entry, call)
<1>1. /\ pc = "read"
      /\ UNCHANGED <<wire, sender, entries, call, used, stack, skipped>>
  BY DEF Read, sender
<1>2. CASE /\ \E code : Refuse(code)
           /\ UNCHANGED <<at, remaining, mode, seen, recAlg, picked>>
  BY <1>1, <1>2, RefuseKeeps DEF receiver, walk
<1>3. CASE /\ ~ AtEnd
           /\ IF IsMac THEN MacRecipientCode(Entry, alg) = "ok"
              ELSE EncryptRecipientCode(Entry, call) = "ok"
           /\ recAlg' = alg /\ picked' = at /\ at' = at + 1 /\ Walked(alg)
  <2>1. ~ IsMac => alg = FinalAlg(Entry, call)
    BY <1>3
  <2> HIDE DEF alg
  <2>2. ~ IsMac => /\ PinnedTo(call.key, KeyAlg(alg, ContentAlg))
                   /\ call.policy \in {"unset", alg}
                   /\ \/ Has(wire.prot, "alg")
                      \/ alg = "hpke"
                      \/ alg = "direct" /\ call.key.alg = ContentAlg
                   /\ ModeCode(alg, mode) = "ok"
    BY <1>3, <2>1, EncryptRecipientOk
  <2>3. ModeCode(alg, mode) = "ok"
    BY <1>3, <2>2, MacRecipientOk
  <2>4. Modes' /\ Len(seen') = Len(seen) + 1 /\ Len(seen) \in Nat
    BY <1>3, <2>3, WalkedModes
  <2>5. /\ call # <<>> /\ wire # <<>> /\ call \in Calls /\ call.index < wire.count
        /\ wire.count \in Nat
    BY <1>1 DEF Inv, Typed, Walking, MessageOK
  <2>6. call.index \in Nat
    BY <2>5, CallShape
  <2>7. Len(seen) = call.index
    BY <1>1 DEF Inv, Progress
  <2>8. pc' = Toward(Len(seen')) /\ remaining' = 1 /\ mode' = Mode(alg)
    BY <1>3, <2>4 DEF Walked
  <2>9. /\ pc' \in {"skip", "read", "key"}
        /\ pc' = "read" => Len(seen') = call.index
        /\ pc' = "skip" => Len(seen') # call.index /\ Len(seen') < wire.count
        /\ pc' = "key" => Len(seen') = wire.count
    BY <2>4, <2>5, <2>6, <2>7, <2>8, TowardPlace
  <2>10. mode' \in {"none", "encryption", "agreement", "transport"}
    BY <2>8, ModeValue
  <2>11. at \in Nat \ {0} /\ picked' = at /\ at' = at + 1
    BY <1>3 DEF Inv, Typed
  <2>12. Typed'
    BY <1>1, <2>5, <2>8, <2>9, <2>10, <2>11 DEF Inv, Typed, Making, Walking, MessageOK
  <2>13. used = "none"
    BY <2>4, <2>5, <2>6, <2>7 DEF Inv, Progress
  <2>14. Progress'
    BY <1>1, <2>4, <2>5, <2>6, <2>7, <2>9, <2>11, <2>13 DEF Progress, Making, Walking
  <2>15. Checked'
    BY <1>1, <1>3, <2>2, <2>13 DEF Checked, IsMac, ContentAlg, Vouched
  <2> QED BY <2>4, <2>12, <2>14, <2>15 DEF Inv
<1> QED BY <1>2, <1>3 DEF Read

\* The call is over; what the key was used for stays on record.
LEMMA UseKeeps ==
    ASSUME Inv, pc = "key", pc' = "idle", UNCHANGED <<wire, sender, call, walk>>,
           used' # "none" => /\ call.key.alg \in {"unset", used'}
                             /\ call.policy \in {"unset", recAlg}
                             /\ Vouched
    PROVE  Inv'
<1>1. UNCHANGED <<entries, at, remaining, stack, mode, recAlg, picked, seen>>
  BY DEF sender, walk
<1>2. call # <<>> /\ wire # <<>> /\ Len(seen) = wire.count
  BY DEF Inv, Typed, Progress, Walking
<1>3. Typed'
  BY <1>1 DEF Inv, Typed, Making, Walking, MessageOK
<1>4. Progress'
  BY <1>1, <1>2 DEF Inv, Progress, Making, Walking
<1>5. Modes'
  BY <1>1 DEF Inv, Modes
<1>6. Checked'
  BY <1>1 DEF Inv, Checked, IsMac, ContentAlg, Vouched
<1> QED BY <1>3, <1>4, <1>5, <1>6 DEF Inv

\* The recipient asked for was read.
LEMMA PickedOne ==
    ASSUME Inv, pc = "key"
    PROVE  picked # 0
<1>1. /\ call.index < wire.count /\ wire.count \in Nat /\ call \in Calls
      /\ Len(seen) = wire.count /\ (picked = 0 <=> Len(seen) <= call.index)
  BY DEF Inv, Typed, Progress, Walking, MessageOK
<1>2. call.index \in Nat
  BY <1>1, CallShape
<1> QED BY <1>1, <1>2

LEMMA DecryptStep == Inv /\ Decrypt => Inv'
<1> SUFFICES ASSUME Inv, Decrypt PROVE Inv'
  OBVIOUS
<1>1. /\ pc = "key" /\ ~ IsMac /\ pc' = "idle" /\ UNCHANGED <<wire, sender, call, walk>>
      /\ used' \in {KeyAlg(recAlg, ContentAlg), "none"}
  BY DEF Decrypt, Refuse
<1>2. /\ PinnedTo(call.key, KeyAlg(recAlg, ContentAlg))
      /\ call.policy \in {"unset", recAlg}
      /\ Vouched
  BY <1>1, PickedOne DEF Inv, Checked
<1>3. used' # "none" => call.key.alg \in {"unset", used'}
  BY <1>1, <1>2 DEF PinnedTo
<1> QED BY <1>1, <1>2, <1>3, UseKeeps

LEMMA VerifyStep == Inv /\ Verify => Inv'
<1> SUFFICES ASSUME Inv, Verify PROVE Inv'
  OBVIOUS
<1>1. /\ pc = "key" /\ pc' = "idle" /\ UNCHANGED <<wire, sender, call, walk>>
      /\ used' = IF MacKeyCode = "ok" THEN ContentAlg ELSE "none"
  BY DEF Verify, Refuse
<1>2. used' # "none" => /\ call.key.alg \in {"unset", used'}
                        /\ call.policy \in {"unset", recAlg}
                        /\ Vouched
  BY <1>1, MacKeyOk DEF Vouched
<1> QED BY <1>1, <1>2, UseKeeps

LEMMA CollectStep == Inv /\ Collect => Inv'
<1> SUFFICES ASSUME Inv, Collect PROVE Inv'
  OBVIOUS
<1>1. /\ pc = "idle" /\ pc' = "idle" /\ call' = <<>> /\ used' = "none"
      /\ at' = 1 /\ remaining' = 1 /\ stack' = <<>> /\ mode' = "none" /\ picked' = 0
      /\ seen' = <<>> /\ UNCHANGED entries
      /\ wire' = wire \/ wire' = <<>>
  BY DEF Collect, Idle
<1>2. Typed'
  <2>1. wire' # <<>> => MessageOK(wire')
    BY <1>1 DEF Inv, Typed, MessageOK
  <2>2. stack' \in Seq(Nat) /\ Len(stack') <= MaxDepth
    BY <1>1, DepthAssumption
  <2> QED BY <1>1, <2>1, <2>2 DEF Inv, Typed, Making, Walking
<1>3. Progress'
  BY <1>1, EmptyIsList DEF Progress, Making, Walking
<1>4. Modes'
  BY <1>1, EmptyIsList DEF Modes
<1>5. Checked'
  BY <1>1 DEF Checked
<1> QED BY <1>2, <1>3, <1>4, <1>5 DEF Inv

LEMMA StutterStep == Inv /\ UNCHANGED vars => Inv'
<1> SUFFICES ASSUME Inv, UNCHANGED vars PROVE Inv'
  OBVIOUS
<1>1. UNCHANGED <<wire, receiver, pc, req, entries>>
  BY DEF vars, sender
<1>2. CASE pc \in {"idle", "cek", "body", "recipients"}
  <2>1. pc # "idle" => req \in Requests /\ call = <<>>
    BY <1>2 DEF Inv, Typed, Progress, Making
  <2>2. IsList(entries') /\ \A k \in 1 .. Len(entries') : entries'[k].nested = 0
    BY <1>1 DEF Inv, Typed
  <2> QED BY <1>1, <1>2, <2>1, <2>2, SenderKeeps
<1>3. CASE pc \in {"skip", "read", "key"}
  <2>1. UNCHANGED <<wire, pc, entries, call, used, at, remaining, stack, mode, recAlg, picked,
                    seen>>
    BY <1>1 DEF receiver, walk
  <2>2. Typed'
    BY <1>3, <2>1 DEF Inv, Typed, Making, Walking, MessageOK
  <2>3. Progress'
    BY <1>3, <2>1 DEF Inv, Progress, Making, Walking
  <2>4. Modes'
    BY <2>1 DEF Inv, Modes
  <2>5. Checked'
    BY <2>1 DEF Inv, Checked, IsMac, ContentAlg, Vouched
  <2> QED BY <2>2, <2>3, <2>4, <2>5 DEF Inv
<1> QED BY <1>2, <1>3 DEF Inv, Typed

-----------------------------------------------------------------------------
(* The theorems.                                                           *)

\* Inv is inductive.
THEOREM InvInductive == Inv /\ [Next]_vars => Inv'
<1> SUFFICES ASSUME Inv, [Next]_vars PROVE Inv'
  OBVIOUS
<1>1. CASE Sending
  BY <1>1, StartStep, ObtainCekStep, WriteBodyStep, WriteRecipientStep, SendStep DEF Sending
<1>2. CASE Arrive
  BY <1>2, ArriveStep
<1>3. CASE Receiving
  BY <1>3, ReceiveStep, SkipEntryStep, ReturnStep, SkippedStep, ReadStep, DecryptStep,
     VerifyStep, CollectStep DEF Receiving
<1>4. CASE UNCHANGED vars
  BY <1>4, StutterStep
<1> QED BY <1>1, <1>2, <1>3, <1>4 DEF Next

THEOREM InvHolds == Spec => []Inv
BY InitInv, InvInductive, PTL DEF Spec

\* Every variable keeps its shape; whatever nesting a message claims, the walk over
\* its recipients stays within the array "stack" of wolfCose_DecodeSkippedRecipient.
THEOREM RecipientsTypeCorrect == Spec => []TypeOK
<1>1. Inv => TypeOK
  BY DEF Inv, Typed, TypeOK, Walking
<1> QED BY <1>1, InvHolds, PTL

\* No key is used before every recipient is known to share one key management mode
\* (wolfCose_UpdateRecipientMode).
THEOREM ModesAgree == Spec => []ModesNeverMixed
<1>1. Inv => ModesNeverMixed
  <2>1. SUFFICES ASSUME Inv, used # "none" PROVE ModesNeverMixed
    BY DEF ModesNeverMixed
  <2>2. Len(seen) = wire.count
    BY <2>1 DEF Inv, Progress
  <2>3. /\ \A k \in 1 .. Len(seen) : Mode(seen[k]) = mode
        /\ mode = "agreement" => Len(seen) = 1
    BY <2>1 DEF Inv, Modes
  <2> QED BY <2>2, <2>3 DEF ModesNeverMixed
<1> QED BY <1>1, InvHolds, PTL

\* A key is used only for the algorithm it is pinned to, and for the recipient
\* algorithm that the caller names (wolfCose_ValidateRecipientKeyAlg).
THEOREM KeyPinned == Spec => []KeyUsedAsPinned
<1>1. Inv => KeyUsedAsPinned
  BY DEF Inv, Checked, KeyUsedAsPinned
<1> QED BY <1>1, InvHolds, PTL

\* A content algorithm that is not protected is never taken on its own word
\* (bodyAlgProtected in wc_CoseEncrypt_Decrypt, algProtected in wc_CoseMac_Verify).
THEOREM ContentAlgorithmVouched == Spec => []ContentAlgVouched
<1>1. Inv => ContentAlgVouched
  BY DEF Inv, Checked, Vouched, ContentAlgVouched
<1> QED BY <1>1, InvHolds, PTL

\* Modes are never mixed, keys are used as they are pinned, and no content is
\* opened under an algorithm only an unprotected header names.
THEOREM KeyUsedAsMeant == Spec => []KeyUse
BY ModesAgree, KeyPinned, ContentAlgorithmVouched, PTL DEF KeyUse

-----------------------------------------------------------------------------
(* The second layer: what is written answers the request, and who it was   *)
(* for follows it to the end.  Inv says how a receiver must be satisfied;  *)
(* from here on, that what is sent does satisfy it.                        *)

\* What the sender's checks say of a request, and what it then writes.
CodeOf(q) == IF q.kind = "mac" THEN MacCode(q) ELSE EncryptCode(q)

ValueOf(q, r) ==
    IF r.alg \in Kw THEN <<"wrap", r.key.id, Cek(q)>>
    ELSE IF r.alg = "hpke" THEN <<"seal", r.key.id, <<q.alg, ProtectedOf(r)>>, Cek(q)>>
    ELSE <<"bstr">>

Recipient(q, r) == [fields |-> 3, prot |-> ProtectedOf(r), unprot |-> UnprotectedOf(r),
                    value |-> ValueOf(q, r), nested |-> 0]

BodyProt(q) == {<<"alg", q.alg>>}

ContentOf(q) == IF q.kind = "encrypt" THEN <<"sealed", Cek(q), q.alg, BodyProt(q)>>
                ELSE IF "inline" \in q.payload THEN <<"payload">> ELSE <<"null">>

Sent(q) == [tag |-> q.kind, fields |-> IF q.kind = "mac" THEN 5 ELSE 4, prot |-> BodyProt(q),
            unprot |-> IF q.kind = "mac" THEN {} ELSE {<<"iv", "ok">>},
            content |-> ContentOf(q), aside |-> <<"payload">>,
            mac |-> IF q.kind = "mac" THEN <<Cek(q), q.alg, BodyProt(q), <<"payload">> >>
                    ELSE <<>>,
            count |-> Len(q.recs),
            recs |-> [k \in 1 .. Len(q.recs) |-> Recipient(q, q.recs[k])]]

\* The request passed the checks, and what is written is for it.
Asked ==
    /\ Making => CodeOf(req) = "ok"
    /\ pc = "cek" => req.kind # "mac"

Written ==
    /\ pc \in {"body", "recipients"} => cek = Cek(req)
    /\ pc = "recipients" => BodyCode(req) = "ok"
    /\ pc # "recipients" => Len(entries) = 0
    /\ Making => Len(entries) <= Len(req.recs)
    /\ Making => \A k \in 1 .. Len(entries) : entries[k] = Recipient(req, req.recs[k])

\* The message at hand is the one its request asked for.
Good(q) == q \in Requests /\ CodeOf(q) = "ok" /\ BodyCode(q) = "ok"
Answered ==
    /\ wire = <<>> => origin = <<>>
    /\ origin # <<>> => Good(origin) /\ wire = Sent(origin)

\* Every call begins at the first recipient.
Fresh == call = <<>> => at = 1 /\ remaining = 1 /\ stack = <<>> /\ Len(seen) = 0

\* What is so while a receiver follows the message q.
Follows(q, c) ==
    /\ pc = "idle" => ret \in {"ok", "overflow"}
    /\ Walking => /\ stack = <<>>
                  /\ mode # "none" => mode = Mode(FirstAlg(q))
    /\ pc = "skip" => /\ remaining \in {0, 1}
                      /\ at = Len(seen) + 2 - remaining
                      /\ remaining = 0 => skipped = q.recs[Len(seen) + 1].alg
    /\ pc \in {"read", "key"} => at = Len(seen) + 1
    /\ Walking /\ picked # 0 => /\ picked = c.index + 1
                                /\ recAlg = q.recs[c.index + 1].alg

\* A receiver the request was for follows the recipients one by one.
Following ==
    call # <<>> /\ origin # <<>> /\ Addressed(origin, call) => Follows(origin, call)

-----------------------------------------------------------------------------
(* What the sender's checks establish.                                     *)

\* A list of two parts passes if both do.
LEMMA BothParts ==
    ASSUME NEW S, NEW s \in Seq(S), NEW t \in Seq(S), First(s \o t) = "ok"
    PROVE  /\ \A k \in 1 .. Len(s) : s[k] = "ok"
           /\ \A k \in 1 .. Len(t) : t[k] = "ok"
<1>1. /\ s \o t \in Seq(S)
      /\ Len(s \o t) = Len(s) + Len(t)
      /\ \A i \in 1 .. Len(s) + Len(t) :
            (s \o t)[i] = IF i <= Len(s) THEN s[i] ELSE t[i - Len(s)]
  BY ConcatProperties
<1>2. Len(s) \in Nat /\ Len(t) \in Nat
  BY LenProperties
<1>3. \A i \in 1 .. Len(s) + Len(t) : (s \o t)[i] = "ok"
  <2>1. Len(s \o t) \in Nat
    BY <1>1, <1>2
  <2>2. \A i \in 1 .. Len(s \o t) : (s \o t)[i] = "ok"
    BY <2>1, AllPass
  <2> QED BY <1>1, <2>2
<1>4. ASSUME NEW k \in 1 .. Len(s) PROVE s[k] = "ok"
  <2>1. k \in 1 .. Len(s) + Len(t) /\ k <= Len(s)
    BY <1>2
  <2> QED BY <1>1, <1>3, <2>1
<1>5. ASSUME NEW k \in 1 .. Len(t) PROVE t[k] = "ok"
  <2> DEFINE i == k + Len(s)
  <2>1. i \in 1 .. Len(s) + Len(t) /\ ~ (i <= Len(s)) /\ i - Len(s) = k
    BY <1>2
  <2> HIDE DEF i
  <2> QED BY <1>1, <1>3, <2>1
<1> QED BY <1>4, <1>5

\* One check, or two, and then one for each recipient.
LEMMA OneThenEach ==
    ASSUME NEW a, NEW n \in Nat, NEW f, f = [k \in 1 .. n |-> f[k]], First(<<a>> \o f) = "ok"
    PROVE  a = "ok" /\ \A k \in 1 .. n : f[k] = "ok"
<1> DEFINE S == {a} \cup {f[k] : k \in 1 .. n}
           s == <<a>>
<1>1. s \in Seq(S) /\ Len(s) = 1 /\ s[1] = a
  OBVIOUS
<1>2. f \in [1 .. n -> S]
  OBVIOUS
<1> HIDE DEF S
<1>3. f \in Seq(S) /\ Len(f) = n
  BY <1>2, SeqDef, LenProperties
<1>4. First(s \o f) = "ok"
  OBVIOUS
<1> HIDE DEF s
<1>5. /\ \A k \in 1 .. Len(s) : s[k] = "ok"
      /\ \A k \in 1 .. Len(f) : f[k] = "ok"
  BY <1>1, <1>3, <1>4, BothParts
<1> QED BY <1>1, <1>3, <1>5

LEMMA TwoThenEach ==
    ASSUME NEW a, NEW b, NEW n \in Nat, NEW f, f = [k \in 1 .. n |-> f[k]],
           First(<<a, b>> \o f) = "ok"
    PROVE  a = "ok" /\ b = "ok" /\ \A k \in 1 .. n : f[k] = "ok"
<1> DEFINE S == {a, b} \cup {f[k] : k \in 1 .. n}
           s == <<a, b>>
<1>1. s \in Seq(S) /\ Len(s) = 2 /\ s[1] = a /\ s[2] = b
  OBVIOUS
<1>2. f \in [1 .. n -> S]
  OBVIOUS
<1> HIDE DEF S
<1>3. f \in Seq(S) /\ Len(f) = n
  BY <1>2, SeqDef, LenProperties
<1>4. First(s \o f) = "ok"
  OBVIOUS
<1> HIDE DEF s
<1>5. /\ \A k \in 1 .. Len(s) : s[k] = "ok"
      /\ \A k \in 1 .. Len(f) : f[k] = "ok"
  BY <1>1, <1>3, <1>4, BothParts
<1> QED BY <1>1, <1>3, <1>5

LEMMA SixOf ==
    ASSUME NEW a1, NEW a2, NEW a3, NEW a4, NEW a5, NEW a6,
           First(<<a1, a2, a3, a4, a5, a6>>) = "ok"
    PROVE  a1 = "ok" /\ a2 = "ok" /\ a3 = "ok" /\ a4 = "ok" /\ a5 = "ok" /\ a6 = "ok"
<1> DEFINE s == <<a1, a2, a3, a4, a5, a6>>
<1>1. /\ Len(s) = 6
      /\ s[1] = a1 /\ s[2] = a2 /\ s[3] = a3 /\ s[4] = a4 /\ s[5] = a5 /\ s[6] = a6
  OBVIOUS
<1>2. First(s) = "ok"
  OBVIOUS
<1> HIDE DEF s
<1>3. Len(s) \in Nat
  BY <1>1
<1>4. \A k \in 1 .. Len(s) : s[k] = "ok"
  BY <1>2, <1>3, AllPass
<1> QED BY <1>1, <1>4

LEMMA RequestShape ==
    ASSUME NEW q \in Requests
    PROVE  /\ q.kind \in {"encrypt", "mac"}
           /\ q.payload \subseteq {"inline", "detached"}
           /\ Len(q.recs) \in Nat /\ Len(q.recs) > 0
           /\ DOMAIN q.recs = 1 .. Len(q.recs)
           /\ \A k \in 1 .. Len(q.recs) : q.recs[k].key \in Keys
BY RequestsAssumption

\* What is known of the recipient r of a request that passed.
DirectTo(q, r) == r.alg = "direct" /\ FirstAlg(q) = "direct"
WrapTo(q, r)   == /\ r.alg \in Kw /\ FirstAlg(q) \in Kw
                  /\ r.key.kty = "symm" /\ r.key.size = KekSize[r.alg]
HpkeTo(q, r)   == /\ r.alg = "hpke" /\ FirstAlg(q) = "hpke"
                  /\ Hpke0ValidateKey(r.key, FALSE) = "ok"
AgreeTo(q, r)  == /\ r.alg \in Ecdh /\ Len(q.recs) = 1 /\ r = q.recs[1]
                  /\ r.key.kty = "ec2"

\* An encrypted content is for wrapping, sealing, agreement or a shared key.
LEMMA EncryptTo ==
    ASSUME NEW q \in Requests, EncryptCode(q) = "ok"
    PROVE  /\ q.alg \in DOMAIN KeyLen
           /\ ArgCode(q) = "ok"
           /\ \/ \A k \in 1 .. Len(q.recs) : DirectTo(q, q.recs[k])
              \/ \A k \in 1 .. Len(q.recs) : WrapTo(q, q.recs[k])
              \/ \A k \in 1 .. Len(q.recs) : HpkeTo(q, q.recs[k])
              \/ \A k \in 1 .. Len(q.recs) : AgreeTo(q, q.recs[k])
           /\ FirstAlg(q) = "direct" => /\ FirstKey(q).kty = "symm"
                                        /\ FirstKey(q).size = KeyLen[q.alg]
<1>1. ArgCode(q) = "ok" /\ q.alg \in DOMAIN KeyLen /\ RecipientsCode(q) = "ok"
  BY DEF EncryptCode
<1> DEFINE a == FirstAlg(q)
           n == Len(q.recs)
<1>2. n \in Nat /\ n > 0
  BY RequestShape
<1>3. CASE a = "hpke"
  <2> DEFINE f == [k \in 1 .. n |-> HpkeCode(q.recs[k])]
  <2>0. a \notin Ecdh /\ a \notin Kw
    BY <1>3, NamesAssumption DEF Ecdh
  <2>1. RecipientsCode(q) = First(<<Fails(~ q.rng, "arg")>> \o f)
    BY <1>3, <2>0 DEF RecipientsCode, AllOf
  <2>2. f = [k \in 1 .. n |-> HpkeCode(q.recs[k])]
    OBVIOUS
  <2> HIDE DEF f
  <2>3. \A k \in 1 .. n : f[k] = "ok"
    BY <1>1, <1>2, <2>1, <2>2, OneThenEach
  <2>4. \A k \in 1 .. n : HpkeCode(q.recs[k]) = "ok"
    BY <2>2, <2>3
  <2>5. \A k \in 1 .. n : HpkeTo(q, q.recs[k])
    BY <1>3, <2>4 DEF HpkeCode, HpkeTo
  <2> QED BY <1>1, <1>3, <2>5
<1>4. CASE a \in Ecdh
  <2>1. a # "hpke" /\ a \notin Kw
    BY <1>4, NamesAssumption DEF Ecdh
  <2>2. RecipientsCode(q) = First(<<Fails(Len(q.recs) > 1, "arg"),
                                    Fails(FirstKey(q).kty # "ec2", "key"),
                                    Fails(~ q.rng, "arg"),
                                    Fails(~ PinnedTo(FirstKey(q), a), "alg")>>)
    BY <1>4, <2>1 DEF RecipientsCode, AllOf
  <2>3. Fails(Len(q.recs) > 1, "arg") = "ok" /\ Fails(FirstKey(q).kty # "ec2", "key") = "ok"
    BY <1>1, <2>2, FourOf
  <2>4. ~ (n > 1) /\ FirstKey(q).kty = "ec2"
    BY <2>3 DEF Fails
  <2>5. n = 1
    <3> HIDE DEF n
    <3> QED BY <1>2, <2>4
  <2>6. \A k \in 1 .. n : AgreeTo(q, q.recs[k])
    BY <1>4, <2>4, <2>5 DEF AgreeTo, FirstAlg, FirstKey
  <2>7. a # "direct"
    BY <1>4 DEF Ecdh
  <2> QED BY <1>1, <2>6, <2>7
<1>5. CASE a \in Kw
  <2> DEFINE f == [k \in 1 .. n |-> KwCode(q.recs[k])]
  <2>1. a # "hpke" /\ a \notin Ecdh /\ a # "direct"
    BY <1>5, NamesAssumption
  <2>2. RecipientsCode(q) = First(<<Fails(~ q.rng, "arg")>> \o f)
    BY <1>5, <2>1 DEF RecipientsCode, AllOf
  <2>3. f = [k \in 1 .. n |-> KwCode(q.recs[k])]
    OBVIOUS
  <2> HIDE DEF f
  <2>4. \A k \in 1 .. n : f[k] = "ok"
    BY <1>1, <1>2, <2>2, <2>3, OneThenEach
  <2>5. \A k \in 1 .. n : KwCode(q.recs[k]) = "ok"
    BY <2>3, <2>4
  <2>6. ASSUME NEW k \in 1 .. n PROVE WrapTo(q, q.recs[k])
    <3> DEFINE r == q.recs[k]
               known == IF r.alg \in Kw THEN KwKeyCode(r.key, r.alg) ELSE "ok"
    <3>1. Fails(r.alg \notin Kw, "alg") = "ok" /\ known = "ok"
      <4>1. KwCode(r) = "ok"
        BY <2>5
      <4>2. First(<<Fails(r.alg \notin Kw, "alg"), Fails(~ PinnedTo(r.key, r.alg), "alg"),
                    known>>) = "ok"
        BY <4>1 DEF KwCode
      <4> HIDE DEF known
      <4> QED BY <4>2, TripleOf
    <3>2. r.alg \in Kw
      BY <3>1 DEF Fails
    <3>3. r.key.kty = "symm" /\ r.key.size = KekSize[r.alg]
      BY <3>1, <3>2 DEF KwKeyCode, Fails
    <3> QED BY <1>5, <3>2, <3>3 DEF WrapTo
  <2> QED BY <1>1, <2>1, <2>6
<1>6. CASE a # "hpke" /\ a \notin Ecdh /\ a \notin Kw
  <2> DEFINE DirectCode(r) == First(<<Fails(r.alg # "direct", "alg"),
                                      ValidateRecipientKeyAlg(r.key, r.alg, q.alg)>>)
             f == [k \in 1 .. n |-> DirectCode(q.recs[k])]
             size == Fails(FirstKey(q).kty # "symm" \/ FirstKey(q).size # KeyLen[q.alg], "key")
             pin  == Fails(~ PinnedTo(FirstKey(q), q.alg), "alg")
  <2>1. RecipientsCode(q) = First(<<size, pin>> \o f)
    BY <1>6 DEF RecipientsCode, AllOf
  <2>2. f = [k \in 1 .. n |-> DirectCode(q.recs[k])]
    OBVIOUS
  <2> HIDE DEF f, size, pin, DirectCode
  <2>3. size = "ok" /\ \A k \in 1 .. n : f[k] = "ok"
    BY <1>1, <1>2, <2>1, <2>2, TwoThenEach
  <2>4. \A k \in 1 .. n : DirectCode(q.recs[k]) = "ok"
    BY <2>2, <2>3
  <2>5. ASSUME NEW k \in 1 .. n PROVE q.recs[k].alg = "direct"
    <3>1. Fails(q.recs[k].alg # "direct", "alg") = "ok"
      BY <2>4, PairOf DEF DirectCode
    <3> QED BY <3>1 DEF Fails
  <2>6. FirstKey(q).kty = "symm" /\ FirstKey(q).size = KeyLen[q.alg]
    BY <2>3 DEF size, Fails
  <2>7. 1 \in 1 .. n
    BY <1>2
  <2>8. \A k \in 1 .. n : DirectTo(q, q.recs[k])
    BY <2>5, <2>7 DEF DirectTo, FirstAlg
  <2> QED BY <1>1, <2>6, <2>8
<1> QED BY <1>3, <1>4, <1>5, <1>6

\* A tag is made with the first recipient's key.
LEMMA MacTo ==
    ASSUME NEW q \in Requests, MacCode(q) = "ok"
    PROVE  /\ q.alg \in DOMAIN MacKeySizes
           /\ ArgCode(q) = "ok"
           /\ \A k \in 1 .. Len(q.recs) : DirectTo(q, q.recs[k])
           /\ FirstAlg(q) = "direct"
           /\ FirstKey(q).kty = "symm"
           /\ FirstKey(q).size \in MacKeySizes[q.alg]
<1> DEFINE size == IF q.alg \in DOMAIN MacKeySizes
                   THEN Fails(FirstKey(q).size \notin MacKeySizes[q.alg], "key") ELSE "ok"
           other == \E k \in DOMAIN q.recs : q.recs[k].alg # "direct"
           pinned == \E k \in DOMAIN q.recs : ~ PinnedTo(q.recs[k].key, q.alg)
<1>1. First(<<ArgCode(q), Fails(FirstKey(q).kty # "symm", "key"), Fails(pinned, "alg"),
              Fails(other, "alg"), Fails(q.alg \notin DOMAIN MacKeySizes, "alg"), size>>) = "ok"
  BY DEF MacCode
<1> HIDE DEF size, other, pinned
<1>2. /\ ArgCode(q) = "ok" /\ Fails(FirstKey(q).kty # "symm", "key") = "ok"
      /\ Fails(other, "alg") = "ok"
      /\ Fails(q.alg \notin DOMAIN MacKeySizes, "alg") = "ok" /\ size = "ok"
  BY <1>1, SixOf
<1>3. FirstKey(q).kty = "symm" /\ ~ other /\ q.alg \in DOMAIN MacKeySizes
  BY <1>2 DEF Fails
<1>4. FirstKey(q).size \in MacKeySizes[q.alg]
  BY <1>2, <1>3 DEF size, Fails
<1>5. DOMAIN q.recs = 1 .. Len(q.recs) /\ 1 \in 1 .. Len(q.recs)
  BY RequestShape
<1>6. \A k \in 1 .. Len(q.recs) : q.recs[k].alg = "direct"
  BY <1>3, <1>5 DEF other
<1> QED BY <1>2, <1>3, <1>4, <1>5, <1>6 DEF DirectTo, FirstAlg

\* Either way no recipient is refused when its turn comes: its key was looked at.
LEMMA WrapsOk ==
    ASSUME NEW q \in Requests, CodeOf(q) = "ok", NEW k \in 1 .. Len(q.recs)
    PROVE  WrapCode(q.recs[k]) = "ok"
<1> DEFINE r == q.recs[k]
<1>1. DirectTo(q, r) \/ WrapTo(q, r) \/ HpkeTo(q, r) \/ AgreeTo(q, r)
  BY EncryptTo, MacTo DEF CodeOf
<1> HIDE DEF r
<1>2. DirectTo(q, r) => WrapCode(r) = "ok"
  <2>1. "direct" \notin Kw
    BY NamesAssumption
  <2> QED BY <2>1 DEF DirectTo, WrapCode
<1>3. WrapTo(q, r) => WrapCode(r) = "ok"
  BY DEF WrapTo, WrapCode, KwKeyCode, Fails
<1>4. HpkeTo(q, r) => WrapCode(r) = "ok"
  <2>1. "hpke" \notin Kw
    BY NamesAssumption
  <2> QED BY <2>1 DEF HpkeTo, WrapCode
<1>5. AgreeTo(q, r) => WrapCode(r) = "ok"
  <2>1. \A a \in Ecdh : a \notin Kw
    BY NamesAssumption
  <2>2. "hpke" \notin Ecdh
    BY DEF Ecdh
  <2> QED BY <2>1, <2>2 DEF AgreeTo, WrapCode
<1>6. WrapCode(r) = "ok"
  BY <1>1, <1>2, <1>3, <1>4, <1>5
<1> QED BY <1>6 DEF r

-----------------------------------------------------------------------------
(* The sender's side of the second layer.                                  *)

Made == Asked /\ Written /\ Answered /\ Fresh

\* The steps of a receiver, and of a peer, do not go on with a message.
LEMMA OtherSteps ==
    ASSUME Inv, Arrive \/ Receiving
    PROVE  ~ Making /\ ~ Making' /\ UNCHANGED entries
<1>1. CASE Arrive
  BY <1>1 DEF Arrive, Idle, Making, sender
<1>2. CASE Receive
  BY <1>2 DEF Receive, Refuse, Idle, Making, sender
<1>3. CASE SkipEntry
  BY <1>3 DEF SkipEntry, Refuse, Making, sender
<1>4. CASE Return
  BY <1>4 DEF Return, Making, sender
<1>5. CASE Skipped
  BY <1>5 DEF Skipped, Walked, Toward, Refuse, Making, sender
<1>6. CASE Read
  BY <1>6 DEF Read, Walked, Toward, Refuse, Making, sender
<1>7. CASE Decrypt
  BY <1>7 DEF Decrypt, Refuse, Making, sender
<1>8. CASE Verify
  BY <1>8 DEF Verify, Refuse, Making, sender
<1>9. CASE Collect
  BY <1>9 DEF Collect, Idle, Making
<1> QED BY <1>1, <1>2, <1>3, <1>4, <1>5, <1>6, <1>7, <1>8, <1>9 DEF Receiving

LEMMA InitMade == Init => Made
<1> SUFFICES ASSUME Init PROVE Made
  OBVIOUS
<1>1. /\ wire = <<>> /\ origin = <<>> /\ pc = "idle" /\ entries = <<>>
      /\ at = 1 /\ remaining = 1 /\ stack = <<>> /\ seen = <<>>
  BY DEF Init
<1>2. Asked
  BY <1>1 DEF Asked, Making
<1>3. Written
  BY <1>1, EmptyIsList DEF Written, Making
<1>4. Answered
  BY <1>1 DEF Answered
<1>5. Fresh
  BY <1>1, EmptyIsList DEF Fresh
<1> QED BY <1>2, <1>3, <1>4, <1>5 DEF Made

\* A request that goes on has passed the checks of its kind.
LEMMA AskedNext == Inv /\ Asked /\ [Next]_vars => Asked'
<1> SUFFICES ASSUME Inv, Asked, [Next]_vars PROVE Asked'
  OBVIOUS
<1>1. CASE Start
  <2>1. PICK q \in Requests :
           /\ req' = q
           /\ \/ pc' = "idle"
              \/ /\ CodeOf(q) = "ok"
                 /\ pc' = IF q.kind = "mac" THEN "body" ELSE "cek"
    BY <1>1 DEF Start, Finish, CodeOf
  <2>2. pc' = "cek" => req'.kind # "mac"
    BY <2>1
  <2>3. Making' => CodeOf(req') = "ok"
    BY <2>1 DEF Making
  <2> QED BY <2>2, <2>3 DEF Asked, Making
<1>2. CASE ObtainCek \/ WriteBody \/ WriteRecipient
  <2>1. Making /\ req' = req /\ (pc' = "cek" => FALSE)
    BY <1>2 DEF ObtainCek, WriteBody, WriteRecipient, Finish, Making
  <2> QED BY <2>1 DEF Asked, Making
<1>3. CASE Send
  <2>1. pc' = "idle"
    BY <1>3 DEF Send, Finish
  <2> QED BY <2>1 DEF Asked, Making
<1>4. CASE Arrive \/ Receiving
  <2>1. ~ Making'
    BY <1>4, OtherSteps
  <2> QED BY <2>1 DEF Asked, Making
<1>5. CASE UNCHANGED vars
  BY <1>5 DEF Asked, Making, vars, sender
<1> QED BY <1>1, <1>2, <1>3, <1>4, <1>5 DEF Next, Sending

\* A call that is over has left nothing behind.
LEMMA FinishWritten ==
    ASSUME NEW code, Finish(code)
    PROVE  Written'
<1>1. pc' = "idle" /\ entries' = <<>>
  BY DEF Finish
<1>2. Len(entries') = 0
  BY <1>1, EmptyIsList
<1> QED BY <1>1, <1>2 DEF Written, Making

\* The recipients written are those of the request, under the content key.
LEMMA WrittenNext == Inv /\ Asked /\ Written /\ [Next]_vars => Written'
<1> SUFFICES ASSUME Inv, Asked, Written, [Next]_vars PROVE Written'
  OBVIOUS
<1>1. CASE Start
  <2>1. PICK q \in Requests :
           /\ req' = q
           /\ \/ \E code : Finish(code)
              \/ /\ pc' = IF q.kind = "mac" THEN "body" ELSE "cek"
                 /\ cek' = IF q.kind = "mac" THEN Cek(q) ELSE <<>>
                 /\ UNCHANGED entries
    BY <1>1 DEF Start
  <2>2. CASE \E code : Finish(code)
    BY <2>2, FinishWritten
  <2>3. CASE /\ pc' = IF q.kind = "mac" THEN "body" ELSE "cek"
             /\ cek' = IF q.kind = "mac" THEN Cek(q) ELSE <<>>
             /\ UNCHANGED entries
    <3>1. pc' \in {"body", "cek"} /\ (pc' = "body" => cek' = Cek(req'))
      BY <2>1, <2>3
    <3>2. Len(entries') = 0
      BY <1>1, <2>3 DEF Start, Idle, Written
    <3>3. 0 <= Len(req'.recs)
      BY <2>1, RequestShape
    <3>4. \A k \in 1 .. Len(entries') : FALSE
      BY <3>2
    <3> QED BY <3>1, <3>2, <3>3, <3>4 DEF Written, Making
  <2> QED BY <2>1, <2>2, <2>3
<1>2. CASE ObtainCek
  <2>1. pc = "cek" /\ req' = req
    BY <1>2 DEF ObtainCek
  <2>2. CASE Finish("crypto")
    BY <2>2, FinishWritten
  <2>3. CASE cek' = Cek(req) /\ pc' = "body" /\ UNCHANGED entries
    BY <2>1, <2>3 DEF Written, Making
  <2> QED BY <1>2, <2>2, <2>3 DEF ObtainCek
<1>3. CASE WriteBody
  <2>1. pc = "body" /\ req' = req
    BY <1>3 DEF WriteBody
  <2>2. CASE \E code : Finish(code)
    BY <2>2, FinishWritten
  <2>3. CASE BodyCode(req) = "ok" /\ pc' = "recipients" /\ UNCHANGED <<cek, entries>>
    BY <2>1, <2>3 DEF Written, Making
  <2> QED BY <1>3, <2>2, <2>3 DEF WriteBody
<1>4. CASE WriteRecipient
  <2>1. pc = "recipients" /\ req' = req /\ Len(entries) < Len(req.recs)
    BY <1>4 DEF WriteRecipient
  <2>2. CASE \E code : Finish(code)
    BY <2>2, FinishWritten
  <2>3. CASE entries' = Append(entries, EncodeRecipient(req, Next1)) /\ UNCHANGED <<pc, cek>>
    <3>1. /\ cek = Cek(req) /\ BodyCode(req) = "ok"
          /\ \A k \in 1 .. Len(entries) : entries[k] = Recipient(req, req.recs[k])
      BY <2>1 DEF Written, Making
    <3>2. EncodeRecipient(req, Next1) = Recipient(req, Next1)
      BY <3>1 DEF EncodeRecipient, Recipient, Wrapped, ValueOf
    <3>3. req \in Requests
      BY <2>1 DEF Inv, Typed, Making
    <3>4. Len(req.recs) \in Nat
      BY <3>3, RequestShape
    <3>5. IsList(entries) /\ Len(entries) \in Nat
      BY DEF Inv, Typed, IsList
    <3>6. /\ Len(entries') = Len(entries) + 1
          /\ \A k \in 1 .. Len(entries) : entries'[k] = entries[k]
          /\ entries'[Len(entries) + 1] = Recipient(req, Next1)
      BY <2>3, <3>2, <3>5, AppendIsList
    <3>7. Len(entries') <= Len(req.recs)
      BY <2>1, <3>4, <3>5, <3>6
    <3>8. ASSUME NEW k \in 1 .. Len(entries') PROVE entries'[k] = Recipient(req, req.recs[k])
      <4>1. k \in 1 .. Len(entries) \/ k = Len(entries) + 1
        BY <3>5, <3>6
      <4> QED BY <3>1, <3>6, <4>1 DEF Next1
    <3> QED BY <2>1, <2>3, <3>1, <3>7, <3>8 DEF Written, Making
  <2> QED BY <1>4, <2>2, <2>3 DEF WriteRecipient
<1>5. CASE Send
  <2>1. \E code : Finish(code)
    BY <1>5 DEF Send
  <2> QED BY <2>1, FinishWritten
<1>6. CASE Arrive \/ Receiving
  <2>1. ~ Making /\ ~ Making' /\ UNCHANGED entries
    BY <1>6, OtherSteps
  <2> QED BY <2>1 DEF Written, Making
<1>7. CASE UNCHANGED vars
  BY <1>7 DEF Written, Making, vars, sender
<1> QED BY <1>1, <1>2, <1>3, <1>4, <1>5, <1>6, <1>7 DEF Next, Sending

\* What is sent is what the request asks for.
LEMMA SendsAnswer ==
    ASSUME Inv, Asked, Written, Send
    PROVE  /\ Good(origin') /\ wire' = Sent(origin')
<1>1. /\ pc = "recipients" /\ Len(entries) = Len(req.recs) /\ wire' = Message(req)
      /\ origin' = req
  BY DEF Send
<1>2. /\ cek = Cek(req) /\ BodyCode(req) = "ok" /\ CodeOf(req) = "ok"
      /\ \A k \in 1 .. Len(entries) : entries[k] = Recipient(req, req.recs[k])
  BY <1>1 DEF Asked, Written, Making
<1>3. req \in Requests
  BY <1>1 DEF Inv, Typed, Making
<1>4. entries = [k \in 1 .. Len(entries) |-> entries[k]]
  BY DEF Inv, Typed, IsList
<1>5. entries = [k \in 1 .. Len(req.recs) |-> Recipient(req, req.recs[k])]
  BY <1>1, <1>2, <1>4
<1>6. Message(req) = Sent(req)
  BY <1>2, <1>5 DEF Message, Sent, ContentOf, BodyProt
<1> QED BY <1>1, <1>2, <1>3, <1>6 DEF Good

LEMMA AnsweredNext == Inv /\ Made /\ [Next]_vars => Answered'
<1> SUFFICES ASSUME Inv, Made, [Next]_vars PROVE Answered'
  OBVIOUS
<1>0. Asked /\ Written /\ Answered
  BY DEF Made
<1>1. CASE UNCHANGED <<wire, origin>>
  BY <1>0, <1>1 DEF Answered
<1>2. CASE Send
  <2>1. Good(origin') /\ wire' = Sent(origin')
    BY <1>0, <1>2, SendsAnswer
  <2>2. wire' # <<>>
    <3>1. "tag" \in DOMAIN Sent(origin')
      BY DEF Sent
    <3>2. DOMAIN <<>> = {}
      OBVIOUS
    <3> QED BY <2>1, <3>1, <3>2
  <2> QED BY <2>1, <2>2 DEF Answered
<1>3. CASE Arrive
  <2>1. origin' = <<>>
    BY <1>0, <1>3 DEF Arrive, Answered
  <2> QED BY <2>1 DEF Answered
<1>4. CASE Collect
  BY <1>0, <1>4 DEF Collect, Answered
<1>5. UNCHANGED <<wire, origin>> \/ Send \/ Arrive \/ Collect
  <2>1. Start \/ ObtainCek \/ WriteBody \/ WriteRecipient => UNCHANGED <<wire, origin>>
    BY DEF Start, ObtainCek, WriteBody, WriteRecipient
  <2>2. Receive \/ SkipEntry \/ Return \/ Skipped \/ Read => UNCHANGED <<wire, origin>>
    BY DEF Receive, SkipEntry, Return, Skipped, Read
  <2>3. Decrypt \/ Verify => UNCHANGED <<wire, origin>>
    BY DEF Decrypt, Verify
  <2>4. UNCHANGED vars => UNCHANGED <<wire, origin>>
    BY DEF vars
  <2> QED BY <2>1, <2>2, <2>3, <2>4 DEF Next, Sending, Receiving
<1> QED BY <1>1, <1>2, <1>3, <1>4, <1>5

LEMMA FreshNext == Inv /\ Fresh /\ [Next]_vars => Fresh'
<1> SUFFICES ASSUME Inv, Fresh, [Next]_vars PROVE Fresh'
  OBVIOUS
<1>1. CASE UNCHANGED <<call, at, remaining, stack, seen>>
  BY <1>1 DEF Fresh
<1>2. CASE Collect
  <2>1. at' = 1 /\ remaining' = 1 /\ stack' = <<>> /\ seen' = <<>>
    BY <1>2 DEF Collect
  <2> QED BY <2>1, EmptyIsList DEF Fresh
<1>3. CASE Receive
  <2>1. PICK c \in Calls : call' = c
    BY <1>3 DEF Receive
  <2>2. call' # <<>>
    BY <2>1, CallShape
  <2> QED BY <2>2 DEF Fresh
<1>4. CASE UNCHANGED call /\ Walking
  BY <1>4 DEF Fresh, Inv, Typed
<1>5. \/ UNCHANGED <<call, at, remaining, stack, seen>> \/ Collect \/ Receive
      \/ (UNCHANGED call /\ Walking)
  <2>1. Start \/ ObtainCek \/ WriteBody \/ WriteRecipient \/ Send \/ Arrive =>
           UNCHANGED <<call, at, remaining, stack, seen>>
    BY DEF Start, ObtainCek, WriteBody, WriteRecipient, Send, Arrive, receiver, walk
  <2>2. SkipEntry \/ Return \/ Skipped \/ Read \/ Decrypt \/ Verify => UNCHANGED call /\ Walking
    BY DEF SkipEntry, Return, Skipped, Read, Decrypt, Verify, Walking
  <2>3. UNCHANGED vars => UNCHANGED <<call, at, remaining, stack, seen>>
    BY DEF vars, receiver, walk
  <2> QED BY <2>1, <2>2, <2>3 DEF Next, Sending, Receiving
<1> QED BY <1>1, <1>2, <1>3, <1>4, <1>5

THEOREM MadeHolds == Spec => [](Inv /\ Made)
<1>1. Init => Inv /\ Made
  BY InitInv, InitMade
<1>2. Inv /\ Made /\ [Next]_vars => (Inv /\ Made)'
  BY InvInductive, AskedNext, WrittenNext, AnsweredNext, FreshNext DEF Made
<1> QED BY <1>1, <1>2, PTL DEF Spec

\* No recipient is refused once there is a content key, let alone once some of the
\* message is written (the checks of wc_CoseEncrypt_Encrypt before its key, which
\* look at every recipient, and those of wc_CoseMac_Create before its tag).
THEOREM NothingRefusedLate == Spec => NoLateRefusal
<1> DEFINE fine == {"ok", "overflow", "crypto", "unsupported"}
           Late == pc \in {"cek", "body", "recipients"} /\ pc' = "idle" => ret' \in fine
<1>1. ASSUME Inv, Made, [Next]_vars, Making, pc' = "idle" PROVE ret' \in fine
  <2>1. /\ req \in Requests /\ CodeOf(req) = "ok"
    BY <1>1 DEF Inv, Typed, Made, Asked
  <2>2. CASE ObtainCek
    BY <1>1, <2>2 DEF ObtainCek, Finish
  <2>3. CASE WriteBody
    <3>1. BodyCode(req) \in {"ok", "overflow", "unsupported"}
      <4>1. Fails(req.room < 1, "overflow") \in {"ok", "overflow"}
        BY FailsOf
      <4>2. Fails(req.kind = "encrypt" /\ "detached" \in req.payload, "unsupported")
              \in {"ok", "unsupported"}
        BY FailsOf
      <4>3. Fails(req.room < 2, "overflow") \in {"ok", "overflow"}
        BY FailsOf
      <4> QED BY <4>1, <4>2, <4>3, TripleOf DEF BodyCode
    <3> QED BY <1>1, <2>3, <3>1 DEF WriteBody, Finish
  <2>4. CASE WriteRecipient
    <3>1. Len(entries) + 1 \in 1 .. Len(req.recs)
      <4>1. Len(entries) \in Nat /\ Len(req.recs) \in Nat
        BY <2>1, RequestShape DEF Inv, Typed, IsList, Making
      <4>2. Len(entries) < Len(req.recs)
        BY <2>4 DEF WriteRecipient
      <4> QED BY <4>1, <4>2
    <3>2. WrapCode(Next1) = "ok"
      BY <2>1, <3>1, WrapsOk DEF Next1
    <3>3. NextCode \in {"ok", "overflow"}
      <4>1. Fails(Next1.alg = "hpke" /\ Next1.kid = "long", "overflow") \in {"ok", "overflow"}
        BY FailsOf
      <4>2. Fails(req.room < 3 + Len(entries), "overflow") \in {"ok", "overflow"}
        BY FailsOf
      <4> QED BY <3>2, <4>1, <4>2, TripleOf DEF NextCode
    <3> QED BY <1>1, <2>4, <3>3 DEF WriteRecipient, Finish, Making
  <2>5. CASE Send
    BY <2>5 DEF Send, Finish
  <2>6. CASE Start
    BY <1>1, <2>6 DEF Start, Idle, Making
  <2>7. CASE Arrive \/ Receiving
    BY <1>1, <2>7, OtherSteps
  <2>8. CASE UNCHANGED vars
    BY <1>1, <2>8 DEF vars, Making
  <2> QED BY <1>1, <2>2, <2>3, <2>4, <2>5, <2>6, <2>7, <2>8 DEF Next, Sending
<1>2. Inv /\ Made /\ [Next]_vars => [Late]_vars
  BY <1>1 DEF Making
<1>3. Spec => [][Late]_vars
  BY MadeHolds, <1>2, PTL DEF Spec
<1> QED BY <1>3 DEF NoLateRefusal

-----------------------------------------------------------------------------
(* The headers of a recipient that is sent.                                *)

LEMMA KwNames ==
    ASSUME NEW a \in Kw
    PROVE  /\ a \notin Ecdh
           /\ a # "direct" /\ a # "direct-hkdf" /\ a # "ecdh-ss" /\ a # "hpke"
           /\ a # "unset" /\ a # "text"
BY NamesAssumption

LEMMA EcdhNames ==
    ASSUME NEW a \in Ecdh
    PROVE  /\ a \notin Kw
           /\ a # "direct" /\ a # "direct-hkdf" /\ a # "ecdh-ss" /\ a # "hpke"
           /\ a # "unset" /\ a # "text"
<1>1. a \notin Kw
  BY NamesAssumption
<1> QED BY <1>1 DEF Ecdh

LEMMA OtherNames == /\ "direct" \notin Kw /\ "hpke" \notin Kw
                    /\ "direct" \notin Ecdh /\ "hpke" \notin Ecdh
<1>1. "direct" \notin Kw /\ "hpke" \notin Kw
  BY NamesAssumption
<1> QED BY <1>1 DEF Ecdh

\* A bucket with one algorithm, and one without.
LEMMA AlgOfOne ==
    ASSUME NEW bucket, NEW a, a # "text", <<"alg", a>> \in bucket,
           \A p \in bucket : p[1] = "alg" => p[2] = a
    PROVE  AlgOf(bucket) = a /\ Has(bucket, "alg")
<1> DEFINE p == CHOOSE p \in bucket : p[1] = "alg"
<1>1. \E x \in bucket : x[1] = "alg" /\ x[2] # "text"
  OBVIOUS
<1>2. p \in bucket /\ p[1] = "alg"
  BY <1>1
<1> HIDE DEF p
<1>3. p[2] = a
  BY <1>2
<1> QED BY <1>1, <1>3 DEF AlgOf, Has, p

LEMMA AlgOfNone ==
    ASSUME NEW bucket, ~ Has(bucket, "alg")
    PROVE  AlgOf(bucket) = "unset"
BY DEF AlgOf, Has

\* HPKE names itself in the protected bucket,
LEMMA HpkeHeaders ==
    ASSUME NEW r, r.alg = "hpke"
    PROVE  LET P == ProtectedOf(r)
               U == UnprotectedOf(r)
           IN  /\ AlgOf(P) = "hpke" /\ Has(P, "alg") /\ ~ Has(U, "alg")
               /\ <<"ek", "ok">> \in U /\ ~ Has(P, "ek") /\ ~ Has(P \cup U, "iv")
               /\ Labels(P) \cap Labels(U) = {}
<1> DEFINE P == ProtectedOf(r)
           U == UnprotectedOf(r)
<1>1. /\ \A p \in P : p = <<"alg", "hpke">> \/ p = <<"kid", r.kid>>
      /\ <<"alg", "hpke">> \in P
  BY DEF ProtectedOf
<1>2. U = {<<"ek", "ok">>}
  BY OtherNames DEF UnprotectedOf
<1> HIDE DEF P, U
<1>3. \A p \in P : p[1] = "alg" => p[2] = "hpke"
  BY <1>1
<1>4. AlgOf(P) = "hpke" /\ Has(P, "alg")
  BY <1>1, <1>3, AlgOfOne
<1>5. ~ Has(U, "alg") /\ <<"ek", "ok">> \in U
  BY <1>2 DEF Has
<1>6. ~ Has(P, "ek") /\ ~ Has(P \cup U, "iv")
  BY <1>1, <1>2 DEF Has
<1>7. Labels(P) \cap Labels(U) = {}
  <2>1. \A l \in Labels(U) : l = "ek"
    BY <1>2 DEF Labels
  <2>2. \A l \in Labels(P) : l # "ek"
    BY <1>1 DEF Labels
  <2> QED BY <2>1, <2>2
<1> QED BY <1>4, <1>5, <1>6, <1>7 DEF P, U

\* so does key agreement,
LEMMA AgreementHeaders ==
    ASSUME NEW r, r.alg \in Ecdh
    PROVE  LET P == ProtectedOf(r)
               U == UnprotectedOf(r)
           IN  /\ AlgOf(P) = r.alg /\ Has(P, "alg") /\ ~ Has(U, "alg")
               /\ <<"eph", r.key.crv>> \in U /\ Has(U, "eph")
               /\ Labels(P) \cap Labels(U) = {}
<1> DEFINE P == ProtectedOf(r)
           U == UnprotectedOf(r)
<1>0. r.alg # "hpke" /\ r.alg # "text"
  BY EcdhNames
<1>1. P = {<<"alg", r.alg>>}
  BY <1>0 DEF ProtectedOf
<1>2. /\ \A p \in U : p = <<"eph", r.key.crv>> \/ p = <<"kid", r.kid>>
      /\ <<"eph", r.key.crv>> \in U
  BY DEF UnprotectedOf
<1> HIDE DEF P, U
<1>3. <<"alg", r.alg>> \in P /\ \A p \in P : p[1] = "alg" => p[2] = r.alg
  BY <1>1
<1>4. AlgOf(P) = r.alg /\ Has(P, "alg")
  BY <1>0, <1>3, AlgOfOne
<1>5. ~ Has(U, "alg") /\ Has(U, "eph")
  BY <1>2 DEF Has
<1>7. Labels(P) \cap Labels(U) = {}
  <2>1. \A l \in Labels(P) : l = "alg"
    BY <1>1 DEF Labels
  <2>2. \A l \in Labels(U) : l # "alg"
    BY <1>2 DEF Labels
  <2> QED BY <2>1, <2>2
<1> QED BY <1>2, <1>4, <1>5, <1>7 DEF P, U

\* and the others leave the protected bucket empty.
LEMMA PlainHeaders ==
    ASSUME NEW r, r.alg = "direct" \/ r.alg \in Kw
    PROVE  LET P == ProtectedOf(r)
               U == UnprotectedOf(r)
           IN  /\ P = {} /\ AlgOf(P) = "unset" /\ ~ Has(P, "alg")
               /\ AlgOf(U) = r.alg /\ Has(U, "alg")
               /\ Labels(P) \cap Labels(U) = {}
<1> DEFINE P == ProtectedOf(r)
           U == UnprotectedOf(r)
<1>0. r.alg # "hpke" /\ r.alg # "text" /\ r.alg \notin Ecdh
  BY KwNames, OtherNames
<1>1. P = {}
  BY <1>0 DEF ProtectedOf
<1>2. /\ \A p \in U : p = <<"alg", r.alg>> \/ p = <<"kid", r.kid>>
      /\ <<"alg", r.alg>> \in U
  BY <1>0 DEF UnprotectedOf
<1> HIDE DEF P, U
<1>3. \A p \in U : p[1] = "alg" => p[2] = r.alg
  BY <1>2
<1>4. AlgOf(U) = r.alg /\ Has(U, "alg")
  BY <1>0, <1>2, <1>3, AlgOfOne
<1>5. ~ Has(P, "alg")
  BY <1>1 DEF Has
<1>6. AlgOf(P) = "unset"
  BY <1>5, AlgOfNone
<1>7. Labels(P) \cap Labels(U) = {}
  BY <1>1 DEF Labels
<1> QED BY <1>1, <1>4, <1>5, <1>6, <1>7 DEF P, U

-----------------------------------------------------------------------------
(* What the receiver makes of them.                                        *)

Named(r) == r.alg \in {"direct", "hpke"} \cup Kw \cup Ecdh

\* The recipients of a request that passed.
LEMMA Goods ==
    ASSUME NEW q, Good(q), NEW k \in 1 .. Len(q.recs)
    PROVE  LET r == q.recs[k]
           IN  /\ Named(r)
               /\ Mode(r.alg) = Mode(FirstAlg(q))
               /\ Mode(r.alg) = "agreement" => Len(q.recs) = 1
               /\ DirectTo(q, r) \/ WrapTo(q, r) \/ HpkeTo(q, r) \/ AgreeTo(q, r)
<1> DEFINE r == q.recs[k]
<1>1. q \in Requests /\ CodeOf(q) = "ok"
  BY DEF Good
<1>2. DirectTo(q, r) \/ WrapTo(q, r) \/ HpkeTo(q, r) \/ AgreeTo(q, r)
  BY <1>1, EncryptTo, MacTo DEF CodeOf
<1>3. r = q.recs[k]
  OBVIOUS
<1> HIDE DEF r
<1>4. Named(r)
  BY <1>2 DEF DirectTo, WrapTo, HpkeTo, AgreeTo, Named
<1>5. \A a \in Kw \cup {"hpke"} : Mode(a) = "transport"
  BY KwNames, OtherNames DEF Mode
<1>6. Mode("direct") = "encryption" /\ \A a \in Ecdh : Mode(a) = "agreement"
  BY EcdhNames DEF Mode
<1>7. /\ Mode(r.alg) = Mode(FirstAlg(q))
      /\ Mode(r.alg) = "agreement" => Len(q.recs) = 1
  <2>1. CASE DirectTo(q, r)
    BY <1>6, <2>1 DEF DirectTo
  <2>2. CASE WrapTo(q, r)
    BY <1>5, <2>2 DEF WrapTo
  <2>3. CASE HpkeTo(q, r)
    BY <1>5, <2>3 DEF HpkeTo
  <2>4. CASE AgreeTo(q, r)
    BY <2>4 DEF AgreeTo, FirstAlg
  <2> QED BY <1>2, <2>1, <2>2, <2>3, <2>4
<1> QED BY <1>2, <1>4, <1>7 DEF r

\* One recipient may join those before it.
LEMMA MayJoin ==
    ASSUME NEW q, Good(q), NEW k \in 1 .. Len(q.recs), NEW common,
           common # "none" => common = Mode(FirstAlg(q)) /\ k # 1
    PROVE  ModeCode(q.recs[k].alg, common) = "ok"
<1> DEFINE r == q.recs[k]
<1>1. /\ Named(r) /\ Mode(r.alg) = Mode(FirstAlg(q))
      /\ Mode(r.alg) = "agreement" => Len(q.recs) = 1
  BY Goods
<1>2. Mode(r.alg) = "agreement" => k = 1
  <2>1. Len(q.recs) = 1 => k = 1
    OBVIOUS
  <2> HIDE DEF r
  <2> QED BY <1>1, <2>1
<1> HIDE DEF r
<1>3. r.alg # "unset"
  BY <1>1, KwNames, EcdhNames DEF Named
<1>4. ModeCode(r.alg, common) = "ok"
  BY <1>1, <1>2, <1>3 DEF ModeCode, Fails
<1> QED BY <1>4 DEF r

\* The algorithm anybody finds in a recipient.
LEMMA FindsAlg ==
    ASSUME NEW r, Named(r)
    PROVE  /\ Merged(ProtectedOf(r), UnprotectedOf(r)) = r.alg
           /\ ~ (Has(ProtectedOf(r), "alg") /\ Has(UnprotectedOf(r), "alg"))
           /\ Has(ProtectedOf(r) \cup UnprotectedOf(r), "alg")
           /\ Labels(ProtectedOf(r)) \cap Labels(UnprotectedOf(r)) = {}
           /\ r.alg = "direct" => ProtectedOf(r) = {}
<1>1. CASE r.alg = "hpke"
  BY <1>1, HpkeHeaders DEF Merged, Has
<1>2. CASE r.alg \in Ecdh
  <2>1. r.alg # "unset" /\ r.alg # "direct"
    BY <1>2, EcdhNames
  <2>2. /\ AlgOf(ProtectedOf(r)) = r.alg /\ Has(ProtectedOf(r), "alg")
        /\ ~ Has(UnprotectedOf(r), "alg")
        /\ Labels(ProtectedOf(r)) \cap Labels(UnprotectedOf(r)) = {}
    BY <1>2, AgreementHeaders
  <2> QED BY <2>1, <2>2 DEF Merged, Has
<1>3. CASE r.alg = "direct" \/ r.alg \in Kw
  <2>1. /\ ProtectedOf(r) = {} /\ AlgOf(ProtectedOf(r)) = "unset"
        /\ ~ Has(ProtectedOf(r), "alg") /\ AlgOf(UnprotectedOf(r)) = r.alg
        /\ Has(UnprotectedOf(r), "alg")
        /\ Labels(ProtectedOf(r)) \cap Labels(UnprotectedOf(r)) = {}
    BY <1>3, PlainHeaders
  <2> QED BY <2>1 DEF Merged, Has
<1> QED BY <1>1, <1>2, <1>3 DEF Named

\* A recipient for somebody else is skipped.
LEMMA SkipsSent ==
    ASSUME NEW q, NEW r, Named(r), NEW depth
    PROVE  /\ SkippedCode(Recipient(q, r), depth) = "ok"
           /\ SkippedAlg(Recipient(q, r)) = r.alg
<1> DEFINE e == Recipient(q, r)
<1>1. /\ e.fields = 3 /\ e.prot = ProtectedOf(r) /\ e.unprot = UnprotectedOf(r)
      /\ e.value = ValueOf(q, r)
  BY DEF Recipient
<1>2. IsBstr(ValueOf(q, r)) /\ (r.alg = "direct" => ValueOf(q, r) = <<"bstr">>)
  BY OtherNames DEF ValueOf, IsBstr
<1> HIDE DEF e
<1>3. /\ Merged(e.prot, e.unprot) = r.alg
      /\ ~ (Has(e.prot, "alg") /\ Has(e.unprot, "alg"))
      /\ Has(e.prot \cup e.unprot, "alg")
      /\ r.alg = "direct" => e.prot = {}
  BY <1>1, FindsAlg
<1>4. SkippedAlg(e) = r.alg
  BY <1>3 DEF SkippedAlg
<1>5. SkippedCode(e, depth) = "ok"
  <2> DEFINE direct == Merged(e.prot, e.unprot) = "direct"
             a1 == Fails(e.fields \notin {3, 4}, "malformed")
             a2 == Fails(Has(e.prot, "alg") /\ Has(e.unprot, "alg"), "malformed")
             a3 == Fails(direct /\ e.prot # {}, "hdr")
             a4 == Fails(direct /\ e.value # <<"bstr">>, "hdr")
             a5 == Fails(e.value # <<"null">> /\ ~ IsBstr(e.value), "type")
             a6 == Fails(e.fields = 4 /\ direct, "hdr")
             a7 == Fails(e.fields = 4 /\ e.nested = 0, "malformed")
             a8 == Fails(e.fields = 4 /\ depth >= MaxDepth, "depth")
             s == <<a1, a2, a3, a4, a5, a6, a7, a8>>
  <2>1. a1 = "ok" /\ a6 = "ok" /\ a7 = "ok" /\ a8 = "ok"
    BY <1>1 DEF Fails
  <2>2. a2 = "ok"
    BY <1>3 DEF Fails
  <2>3. a3 = "ok"
    BY <1>3 DEF Fails
  <2>4. a4 = "ok" /\ a5 = "ok"
    BY <1>1, <1>2, <1>3 DEF Fails
  <2>5. SkippedCode(e, depth) = First(s)
    BY DEF SkippedCode
  <2> HIDE DEF a1, a2, a3, a4, a5, a6, a7, a8
  <2>6. Len(s) = 8 /\ \A k \in 1 .. 8 : s[k] = "ok"
    BY <2>1, <2>2, <2>3, <2>4
  <2> HIDE DEF s
  <2> QED BY <2>5, <2>6, NoRefusal
<1> QED BY <1>4, <1>5 DEF e

-----------------------------------------------------------------------------
(* The receiver of a message that was sent, call by call.                  *)

\* Somebody a message was for: the key it holds is the one named.
Receiver(q, c) == Good(q) /\ c \in Calls /\ Addressed(q, c)

LEMMA SentShape ==
    ASSUME NEW q
    PROVE  LET m == Sent(q)
           IN  /\ m.tag = q.kind /\ m.prot = {<<"alg", q.alg>>}
               /\ m.fields = (IF q.kind = "mac" THEN 5 ELSE 4)
               /\ m.unprot = (IF q.kind = "mac" THEN {} ELSE {<<"iv", "ok">>})
               /\ m.content = ContentOf(q) /\ m.aside = <<"payload">>
               /\ m.mac = (IF q.kind = "mac"
                           THEN <<Cek(q), q.alg, BodyProt(q), <<"payload">> >> ELSE <<>>)
               /\ m.count = Len(q.recs)
               /\ m.recs = [k \in 1 .. Len(q.recs) |-> Recipient(q, q.recs[k])]
BY DEF Sent, BodyProt

\* The content algorithm is where the receiver looks for it.
LEMMA SentAlg ==
    ASSUME NEW q, Good(q)
    PROVE  LET m == Sent(q)
           IN  /\ Merged(m.prot, m.unprot) = q.alg
               /\ Has(m.prot, "alg")
               /\ Labels(m.prot) \cap Labels(m.unprot) = {}
               /\ q.kind = "encrypt" => q.alg \in DOMAIN KeyLen
               /\ q.kind = "mac" => q.alg \in DOMAIN MacKeySizes
<1> DEFINE m == Sent(q)
<1>1. q \in Requests /\ CodeOf(q) = "ok" /\ q.kind \in {"encrypt", "mac"}
  BY RequestShape DEF Good
<1>2. /\ q.kind = "encrypt" => q.alg \in DOMAIN KeyLen
      /\ q.kind = "mac" => q.alg \in DOMAIN MacKeySizes
  BY <1>1, EncryptTo, MacTo DEF CodeOf
<1>3. q.alg # "text" /\ q.alg # "unset"
  BY <1>1, <1>2, NamesAssumption
<1>4. m.prot = {<<"alg", q.alg>>} /\ \A p \in m.unprot : p = <<"iv", "ok">>
  BY SentShape
<1> HIDE DEF m
<1>5. <<"alg", q.alg>> \in m.prot /\ \A p \in m.prot : p[1] = "alg" => p[2] = q.alg
  BY <1>4
<1>6. AlgOf(m.prot) = q.alg /\ Has(m.prot, "alg")
  BY <1>3, <1>5, AlgOfOne
<1>7. Merged(m.prot, m.unprot) = q.alg
  BY <1>3, <1>6 DEF Merged
<1>8. Labels(m.prot) \cap Labels(m.unprot) = {}
  <2>1. \A l \in Labels(m.prot) : l = "alg"
    BY <1>4 DEF Labels
  <2>2. \A l \in Labels(m.unprot) : l = "iv"
    BY <1>4 DEF Labels
  <2> QED BY <2>1, <2>2
<1> QED BY <1>2, <1>6, <1>7, <1>8 DEF m

\* A content that is not in the message is at hand.
LEMMA SentContent ==
    ASSUME NEW q, NEW c, Receiver(q, c)
    PROVE  LET m == Sent(q)
           IN  /\ ~ (m.content = <<"null">> /\ ~ c.detached)
               /\ m.content # <<"other">>
               /\ q.kind = "encrypt" => Content(m, c) = <<"sealed", Cek(q), q.alg, m.prot>>
               /\ q.kind = "mac" => Content(m, c) = <<"payload">>
<1> DEFINE m == Sent(q)
<1>1. q \in Requests /\ CodeOf(q) = "ok" /\ q.kind \in {"encrypt", "mac"}
  BY RequestShape DEF Receiver, Good
<1>2. /\ m.content = ContentOf(q) /\ m.aside = <<"payload">> /\ m.prot = BodyProt(q)
  BY SentShape DEF BodyProt
<1> HIDE DEF m
<1>3. "detached" \in q.payload => c.detached
  BY DEF Receiver, Addressed
<1>4. q.kind = "mac" => "inline" \in q.payload \/ "detached" \in q.payload
  <2>1. ArgCode(q) = "ok"
    BY <1>1, EncryptTo, MacTo DEF CodeOf
  <2>2. Fails(q.payload = {}, "arg") = "ok"
    BY <2>1, TripleOf DEF ArgCode
  <2>3. q.payload # {} /\ q.payload \subseteq {"inline", "detached"}
    BY <1>1, <2>2, RequestShape DEF Fails
  <2> QED BY <2>3
<1>5. CASE q.kind = "encrypt"
  <2>1. m.content = <<"sealed", Cek(q), q.alg, m.prot>>
    BY <1>2, <1>5 DEF ContentOf
  <2>2. m.content # <<"null">> /\ m.content # <<"other">>
    BY <2>1
  <2> QED BY <1>5, <2>1, <2>2 DEF Content, m
<1>6. CASE q.kind = "mac" /\ "inline" \in q.payload
  <2>1. m.content = <<"payload">>
    BY <1>2, <1>6 DEF ContentOf
  <2>2. m.content # <<"null">> /\ m.content # <<"other">>
    BY <2>1
  <2> QED BY <1>6, <2>1, <2>2 DEF Content, m
<1>7. CASE q.kind = "mac" /\ "inline" \notin q.payload
  <2>1. m.content = <<"null">> /\ c.detached
    BY <1>2, <1>3, <1>4, <1>7 DEF ContentOf
  <2>2. m.content # <<"other">>
    BY <2>1
  <2> QED BY <1>2, <1>7, <2>1, <2>2 DEF Content, m
<1> QED BY <1>1, <1>5, <1>6, <1>7

\* The body is accepted.
LEMMA ReceivesSent ==
    ASSUME NEW q, NEW c, Receiver(q, c)
    PROVE  ReceiveCode(Sent(q), c) = "ok"
<1> DEFINE m == Sent(q)
           a1 == Fails(m.tag \notin {c.api, "none"}, "tag")
           a2 == Fails(m.fields # (IF c.api = "mac" THEN 5 ELSE 4), "malformed")
           a3 == Fails(Labels(m.prot) \cap Labels(m.unprot) # {}, "malformed")
           a4 == Fails(c.api = "encrypt" /\ Merged(m.prot, m.unprot) \notin DOMAIN KeyLen, "alg")
           a5 == Fails(c.api = "encrypt" /\ <<"iv", "ok">> \notin m.prot \cup m.unprot, "hdr")
           a6 == Fails(m.content = <<"null">> /\ ~ c.detached, "detached")
           a7 == Fails(m.content = <<"other">>, "type")
           a8 == Fails(c.index >= m.count, "arg")
           s == <<a1, a2, a3, a4, a5, a6, a7, a8>>
<1>1. Good(q) /\ c.api = q.kind /\ c.index < Len(q.recs) /\ c \in Calls /\ q \in Requests
  BY DEF Receiver, Addressed, Good
<1>2. /\ m.tag = q.kind /\ m.fields = (IF q.kind = "mac" THEN 5 ELSE 4)
      /\ m.unprot = (IF q.kind = "mac" THEN {} ELSE {<<"iv", "ok">>})
      /\ m.count = Len(q.recs)
  BY SentShape
<1>3. /\ Merged(m.prot, m.unprot) = q.alg
      /\ Labels(m.prot) \cap Labels(m.unprot) = {}
      /\ q.kind = "encrypt" => q.alg \in DOMAIN KeyLen
  BY <1>1, SentAlg
<1>4. /\ ~ (m.content = <<"null">> /\ ~ c.detached)
      /\ m.content # <<"other">>
  BY SentContent
<1> HIDE DEF m
<1>5. a1 = "ok" /\ a2 = "ok"
  BY <1>1, <1>2 DEF Fails
<1>6. a3 = "ok" /\ a4 = "ok"
  BY <1>1, <1>3 DEF Fails
<1>7. a5 = "ok"
  BY <1>1, <1>2 DEF Fails
<1>8. a6 = "ok" /\ a7 = "ok"
  BY <1>4 DEF Fails
<1>9. a8 = "ok"
  <2>1. c.index \in Nat /\ Len(q.recs) \in Nat
    BY <1>1, CallShape, RequestShape
  <2> QED BY <1>1, <1>2, <2>1 DEF Fails
<1>10. ReceiveCode(m, c) = First(s)
  BY DEF ReceiveCode
<1> HIDE DEF a1, a2, a3, a4, a5, a6, a7, a8
<1>11. Len(s) = 8 /\ \A k \in 1 .. 8 : s[k] = "ok"
  BY <1>5, <1>6, <1>7, <1>8, <1>9
<1> HIDE DEF s
<1>12. ReceiveCode(m, c) = "ok"
  BY <1>10, <1>11, NoRefusal
<1> QED BY <1>12 DEF m

\* The key is the recipient's: what its id names, it has.
LEMMA KeyHeld ==
    ASSUME NEW q, NEW c, Receiver(q, c)
    PROVE  LET r == q.recs[c.index + 1]
               k == IF r.alg = "direct" THEN FirstKey(q) ELSE r.key
           IN  /\ c.index + 1 \in 1 .. Len(q.recs)
               /\ c.key.id = k.id /\ c.key.kty = k.kty /\ c.key.size = k.size
               /\ c.key.crv = k.crv
               /\ c.key.private /\ PinnedTo(c.key, KeyAlg(r.alg, q.alg))
               /\ c.policy \in {"unset", r.alg}
<1> DEFINE r == q.recs[c.index + 1]
           k == IF r.alg = "direct" THEN FirstKey(q) ELSE r.key
<1>1. /\ q \in Requests /\ c \in Calls /\ c.index < Len(q.recs)
      /\ c.key.id = k.id /\ c.key.private /\ PinnedTo(c.key, KeyAlg(r.alg, q.alg))
      /\ c.policy \in {"unset", r.alg}
  BY DEF Receiver, Addressed, Good
<1>2. c.index \in Nat /\ Len(q.recs) \in Nat /\ Len(q.recs) > 0
  BY <1>1, CallShape, RequestShape
<1>3. c.index + 1 \in 1 .. Len(q.recs) /\ 1 \in 1 .. Len(q.recs)
  BY <1>1, <1>2
<1>4. r.key \in Keys /\ FirstKey(q) \in Keys
  BY <1>1, <1>3, RequestShape DEF FirstKey
<1>5. k \in Keys
  BY <1>4
<1>6. c.key \in Keys
  BY <1>1, CallsAssumption
<1> HIDE DEF k, r
<1>7. c.key.kty = k.kty /\ c.key.size = k.size /\ c.key.crv = k.crv
  BY <1>1, <1>5, <1>6, IdsAssumption
<1> QED BY <1>1, <1>3, <1>7 DEF r, k

\* The recipient asked for, in the message at hand.
LEMMA ReadsEncrypted ==
    ASSUME NEW q, NEW c, Receiver(q, c), q.kind = "encrypt", wire = Sent(q),
           mode # "none" => mode = Mode(FirstAlg(q)) /\ c.index # 0
    PROVE  LET r == q.recs[c.index + 1]
           IN  /\ FinalAlg(Recipient(q, r), c) = r.alg
               /\ IsHpke(Recipient(q, r), c) <=> r.alg = "hpke"
               /\ EncryptRecipientCode(Recipient(q, r), c) = "ok"
<1> DEFINE r == q.recs[c.index + 1]
           e == Recipient(q, r)
<1>1. /\ e.fields = 3 /\ e.prot = ProtectedOf(r) /\ e.unprot = UnprotectedOf(r)
      /\ e.value = ValueOf(q, r)
  BY DEF Recipient
<1>2. Good(q) /\ c.index + 1 \in 1 .. Len(q.recs)
  BY KeyHeld DEF Receiver
<1>3. /\ Named(r)
      /\ Mode(r.alg) = "agreement" => Len(q.recs) = 1
  BY <1>2, Goods
<1>4. /\ PinnedTo(c.key, KeyAlg(r.alg, q.alg)) /\ c.policy \in {"unset", r.alg}
      /\ r.alg # "direct" => c.key.crv = r.key.crv
  BY KeyHeld
<1>5. /\ ContentAlg = q.alg /\ Has(wire.prot, "alg") /\ wire.count = Len(q.recs)
  BY <1>2, SentAlg, SentShape DEF ContentAlg
<1>6. c.index \in Nat
  BY CallShape DEF Receiver
<1>7. ModeCode(r.alg, mode) = "ok"
  <2> DEFINE k == c.index + 1
  <2>1. k \in 1 .. Len(q.recs) /\ (mode # "none" => mode = Mode(FirstAlg(q)) /\ k # 1)
    BY <1>2, <1>6
  <2> HIDE DEF k
  <2>2. ModeCode(q.recs[k].alg, mode) = "ok"
    BY <1>2, <2>1, MayJoin
  <2> QED BY <2>2 DEF k
<1> HIDE DEF r, e
<1>8. /\ Merged(e.prot, e.unprot) = r.alg
      /\ Labels(e.prot) \cap Labels(e.unprot) = {}
      /\ r.alg = "direct" => e.prot = {}
  BY <1>1, <1>3, FindsAlg
<1>9. IsHpke(e, c) <=> r.alg = "hpke"
  <2>1. CASE r.alg = "hpke"
    BY <1>1, <2>1, HpkeHeaders DEF IsHpke
  <2>2. CASE r.alg \in Ecdh
    <3>1. Has(e.prot, "alg") /\ AlgOf(e.prot) = r.alg /\ r.alg # "hpke"
      BY <1>1, <2>2, AgreementHeaders, EcdhNames
    <3> QED BY <3>1 DEF IsHpke
  <2>3. CASE r.alg = "direct" \/ r.alg \in Kw
    <3>1. ~ Has(e.prot, "alg") /\ r.alg # "hpke"
      BY <1>1, <2>3, PlainHeaders, KwNames
    <3> QED BY <1>4, <3>1 DEF IsHpke
  <2> QED BY <1>3, <2>1, <2>2, <2>3 DEF Named
<1>10. IsEcdh(e) <=> r.alg \in Ecdh
  <2>1. CASE r.alg = "hpke"
    BY <1>1, <2>1, HpkeHeaders, OtherNames DEF IsEcdh
  <2>2. CASE r.alg \in Ecdh
    BY <1>1, <2>2, AgreementHeaders DEF IsEcdh
  <2>3. CASE r.alg = "direct" \/ r.alg \in Kw
    <3>1. AlgOf(e.prot) = "unset" /\ r.alg \notin Ecdh
      BY <1>1, <2>3, PlainHeaders, KwNames, OtherNames
    <3>2. "unset" \notin Ecdh
      BY DEF Ecdh
    <3> QED BY <3>1, <3>2 DEF IsEcdh
  <2> QED BY <1>3, <2>1, <2>2, <2>3 DEF Named
<1>11. FinalAlg(e, c) = r.alg
  <2>1. IsEcdh(e) => AlgOf(e.prot) = r.alg
    BY <1>1, <1>10, AgreementHeaders
  <2> QED BY <1>8, <1>9, <2>1 DEF FinalAlg
<1>12. EarlyAlg(e, c) \in {"unset", r.alg}
  <2>1. CASE r.alg = "hpke"
    BY <1>9, <2>1 DEF EarlyAlg
  <2>2. CASE r.alg \in Ecdh
    BY <1>1, <1>9, <2>2, AgreementHeaders DEF EarlyAlg
  <2>3. CASE r.alg = "direct" \/ r.alg \in Kw
    BY <1>1, <1>9, <2>3, PlainHeaders DEF EarlyAlg
  <2> QED BY <1>3, <2>1, <2>2, <2>3 DEF Named
<1>13. ValidateRecipientKeyAlg(c.key, r.alg, ContentAlg) = "ok"
  BY <1>4, <1>5 DEF ValidateRecipientKeyAlg, Fails
<1>14. PolicyCode(c, r.alg) = "ok"
  BY <1>4 DEF PolicyCode, Fails
<1>15. r.alg \in Distribution
  BY <1>3 DEF Named, Distribution
<1>16. r.alg \in Ecdh => wire.count = 1
  BY <1>3, <1>5, EcdhNames DEF Mode
<1>17. EarlyCode(e, c) = "ok"
  <2>1. CASE EarlyAlg(e, c) = "unset"
    BY <2>1 DEF EarlyCode
  <2>2. CASE EarlyAlg(e, c) = r.alg
    <3>1. /\ Fails(r.alg \notin Distribution, "alg") = "ok"
          /\ Fails(r.alg \in Ecdh /\ wire.count # 1, "hdr") = "ok"
      BY <1>15, <1>16 DEF Fails
    <3>2. First(<<ValidateRecipientKeyAlg(c.key, r.alg, ContentAlg),
                  Fails(r.alg \notin Distribution, "alg"), PolicyCode(c, r.alg),
                  Fails(r.alg \in Ecdh /\ wire.count # 1, "hdr")>>) = "ok"
      BY <1>13, <1>14, <3>1, FourIff
    <3> QED BY <2>2, <3>2 DEF EarlyCode
  <2> QED BY <1>12, <2>1, <2>2
<1>18. UnprotectedCode(e, c) = "ok"
  <2> DEFINE a1 == Fails(Labels(e.prot) \cap Labels(e.unprot) # {}, "malformed")
             a2 == Fails(IsEcdh(e) /\ ~ Has(e.unprot, "eph"), "hdr")
             a3 == Fails(IsEcdh(e) /\ c.key.kty # "null"
                         /\ <<"eph", c.key.crv>> \notin e.unprot, "hdr")
             a4 == Fails(IsHpke(e, c) /\ \/ ~ Has(e.prot, "alg") /\ Has(e.unprot, "alg")
                                         \/ Has(e.prot \cup e.unprot, "iv")
                                         \/ <<"ek", "ok">> \notin e.unprot, "hdr")
  <2>1. a1 = "ok"
    BY <1>8 DEF Fails
  <2>2. a2 = "ok" /\ a3 = "ok"
    <3>1. IsEcdh(e) => Has(e.unprot, "eph") /\ <<"eph", c.key.crv>> \in e.unprot
      BY <1>1, <1>4, <1>10, AgreementHeaders, EcdhNames
    <3> QED BY <3>1 DEF Fails
  <2>3. a4 = "ok"
    <3>1. IsHpke(e, c) => /\ Has(e.prot, "alg") /\ ~ Has(e.prot \cup e.unprot, "iv")
                          /\ <<"ek", "ok">> \in e.unprot
      BY <1>1, <1>9, HpkeHeaders
    <3> QED BY <3>1 DEF Fails
  <2>4. UnprotectedCode(e, c) = First(<<a1, a2, a3, a4>>)
    BY DEF UnprotectedCode
  <2> HIDE DEF a1, a2, a3, a4
  <2> QED BY <2>1, <2>2, <2>3, <2>4, FourIff
<1>19. ContentAlgCode(c, r.alg) = "ok"
  BY <1>5 DEF ContentAlgCode, Fails
<1>20. ValueCode(e.value, r.alg) = "ok"
  <2>1. CASE r.alg \in Kw
    <3>1. e.value[1] = "wrap" /\ e.value # <<"bstr">> /\ e.value # <<"short">>
      BY <1>1, <2>1 DEF ValueOf
    <3>2. Fails(~ IsBstr(e.value), "type") = "ok"
      BY <3>1 DEF Fails, IsBstr
    <3>3. Fails(e.value \in {<<"bstr">>, <<"short">>}, "malformed") = "ok"
      BY <3>1 DEF Fails
    <3>4. First(<<Fails(~ IsBstr(e.value), "type"),
                  Fails(e.value \in {<<"bstr">>, <<"short">>}, "malformed")>>) = "ok"
      BY <3>2, <3>3, PairIff
    <3> QED BY <2>1, <3>4 DEF ValueCode
  <2>2. CASE r.alg = "hpke"
    <3>1. e.value[1] = "seal" /\ e.value # <<"bstr">> /\ e.value # <<"short">>
      BY <1>1, <2>2, OtherNames DEF ValueOf
    <3>2. Fails(~ IsBstr(e.value), "type") = "ok"
      BY <3>1 DEF Fails, IsBstr
    <3>3. Fails(e.value \in {<<"bstr">>, <<"short">>}, "malformed") = "ok"
      BY <3>1 DEF Fails
    <3>4. First(<<Fails(~ IsBstr(e.value), "type"),
                  Fails(e.value \in {<<"bstr">>, <<"short">>}, "malformed")>>) = "ok"
      BY <3>2, <3>3, PairIff
    <3> QED BY <2>2, <3>4 DEF ValueCode
  <2>3. CASE r.alg = "direct"
    <3>1. e.value = <<"bstr">>
      BY <1>1, <2>3, OtherNames DEF ValueOf
    <3> QED BY <2>3, <3>1, OtherNames DEF ValueCode, Fails
  <2>4. CASE r.alg \in Ecdh
    <3>1. r.alg \notin Kw /\ r.alg # "hpke" /\ r.alg # "direct"
      BY <2>4, EcdhNames
    <3>2. e.value = <<"bstr">>
      BY <1>1, <3>1 DEF ValueOf
    <3>3. Fails(e.value # <<"null">> /\ ~ IsBstr(e.value), "type") = "ok"
      BY <3>2 DEF Fails, IsBstr
    <3>4. Fails(e.value \notin {<<"null">>, <<"bstr">>}, "malformed") = "ok"
      BY <3>2 DEF Fails
    <3>5. First(<<Fails(e.value # <<"null">> /\ ~ IsBstr(e.value), "type"),
                  Fails(e.value \notin {<<"null">>, <<"bstr">>}, "malformed")>>) = "ok"
      BY <3>3, <3>4, PairIff
    <3> QED BY <3>1, <3>5 DEF ValueCode
  <2> QED BY <1>3, <2>1, <2>2, <2>3, <2>4 DEF Named
<1>21. EncryptRecipientCode(e, c) = "ok"
  <2> DEFINE b1 == Fails(e.fields # 3, "malformed")
             b2 == Fails(IsHpke(e, c) /\ Has(e.prot, "ek"), "hdr")
             b3 == EarlyCode(e, c)
             b4 == UnprotectedCode(e, c)
             b5 == ValidateRecipientKeyAlg(c.key, r.alg, ContentAlg)
             b6 == ModeCode(r.alg, mode)
             b7 == Fails(r.alg = "direct" /\ e.prot # {}, "hdr")
             b8 == Fails(r.alg \notin Distribution, "alg")
             b9 == Fails(r.alg \in Kw /\ e.prot # {}, "hdr")
             b10 == Fails(r.alg \in Ecdh /\ ~ IsEcdh(e), "alg")
             b11 == PolicyCode(c, r.alg)
             b12 == ContentAlgCode(c, r.alg)
             b13 == ValueCode(e.value, r.alg)
             s == <<b1, b2, b3, b4, b5, b6, b7, b8, b9, b10, b11, b12, b13>>
  <2>1. EncryptRecipientCode(e, c) = First(s)
    BY <1>11 DEF EncryptRecipientCode
  <2>2. b1 = "ok"
    BY <1>1 DEF Fails
  <2>3. b2 = "ok"
    BY <1>1, <1>9, HpkeHeaders DEF Fails
  <2>4. b3 = "ok" /\ b4 = "ok" /\ b5 = "ok" /\ b6 = "ok"
    BY <1>7, <1>13, <1>17, <1>18
  <2>5. b7 = "ok"
    BY <1>8 DEF Fails
  <2>6. b8 = "ok" /\ b10 = "ok"
    BY <1>10, <1>15 DEF Fails
  <2>7. b9 = "ok"
    BY <1>1, PlainHeaders DEF Fails
  <2>8. b11 = "ok" /\ b12 = "ok" /\ b13 = "ok"
    BY <1>14, <1>19, <1>20
  <2> HIDE DEF b1, b2, b3, b4, b5, b6, b7, b8, b9, b10, b11, b12, b13
  <2>9. Len(s) = 13
    OBVIOUS
  <2>10. \A k \in 1 .. 13 : s[k] = "ok"
    BY <2>2, <2>3, <2>4, <2>5, <2>6, <2>7, <2>8
  <2> HIDE DEF s
  <2> QED BY <2>1, <2>9, <2>10, NoRefusal
<1> QED BY <1>9, <1>11, <1>21 DEF e, r

LEMMA ReadsAuthenticated ==
    ASSUME NEW q, NEW c, Receiver(q, c), q.kind = "mac",
           mode # "none" => mode = Mode(FirstAlg(q)) /\ c.index # 0
    PROVE  LET r == q.recs[c.index + 1]
               e == Recipient(q, r)
           IN  /\ Merged(e.prot, e.unprot) = r.alg
               /\ MacRecipientCode(e, r.alg) = "ok"
<1> DEFINE r == q.recs[c.index + 1]
           e == Recipient(q, r)
           k == c.index + 1
<1>1. /\ e.fields = 3 /\ e.prot = ProtectedOf(r) /\ e.unprot = UnprotectedOf(r)
      /\ e.value = ValueOf(q, r)
  BY DEF Recipient
<1>2. Good(q) /\ k \in 1 .. Len(q.recs) /\ q \in Requests /\ CodeOf(q) = "ok"
  BY KeyHeld DEF Receiver, Good
<1>3. r.alg = "direct"
  BY <1>2, MacTo DEF CodeOf, DirectTo
<1>4. Named(r)
  BY <1>3 DEF Named
<1>5. ModeCode(r.alg, mode) = "ok"
  <2>1. mode # "none" => mode = Mode(FirstAlg(q)) /\ k # 1
    BY CallShape DEF Receiver
  <2> HIDE DEF k
  <2>2. ModeCode(q.recs[k].alg, mode) = "ok"
    BY <1>2, <2>1, MayJoin
  <2> QED BY <2>2 DEF k
<1> HIDE DEF r, e, k
<1>6. /\ Merged(e.prot, e.unprot) = r.alg
      /\ Labels(e.prot) \cap Labels(e.unprot) = {}
      /\ e.prot = {}
  BY <1>1, <1>3, <1>4, FindsAlg
<1>7. e.value = <<"bstr">>
  BY <1>1, <1>3, OtherNames DEF ValueOf
<1>8. MacRecipientCode(e, r.alg) = "ok"
  <2> DEFINE a1 == Fails(e.fields # 3, "malformed")
             a2 == Fails(Labels(e.prot) \cap Labels(e.unprot) # {}, "malformed")
             a3 == ModeCode(r.alg, mode)
             a4 == Fails(r.alg = "direct" /\ e.prot # {}, "hdr")
             a5 == Fails(r.alg = "direct" /\ e.value # <<"bstr">>, "hdr")
             a6 == Fails(e.value # <<"null">> /\ ~ IsBstr(e.value), "type")
             s == <<a1, a2, a3, a4, a5, a6>>
  <2>1. a1 = "ok"
    BY <1>1 DEF Fails
  <2>2. a2 = "ok" /\ a4 = "ok"
    BY <1>6 DEF Fails
  <2>3. a3 = "ok"
    BY <1>5
  <2>4. a5 = "ok" /\ a6 = "ok"
    BY <1>7 DEF Fails, IsBstr
  <2>5. MacRecipientCode(e, r.alg) = First(s)
    BY DEF MacRecipientCode
  <2> HIDE DEF a1, a2, a3, a4, a5, a6
  <2>6. Len(s) = 6 /\ \A i \in 1 .. 6 : s[i] = "ok"
    BY <2>1, <2>2, <2>3, <2>4
  <2> HIDE DEF s
  <2> QED BY <2>5, <2>6, NoRefusal
<1> QED BY <1>6, <1>8 DEF e, r

-----------------------------------------------------------------------------
(* Using the key.                                                          *)

\* The receiver holds the key of the recipient it read.
Holding(q, c) == /\ Receiver(q, c) /\ wire = Sent(q) /\ call = c
                 /\ picked = c.index + 1
                 /\ recAlg = q.recs[c.index + 1].alg
                 /\ at > Len(wire.recs)

LEMMA HoldsPicked ==
    ASSUME NEW q, NEW c, Holding(q, c)
    PROVE  /\ Picked = Recipient(q, q.recs[c.index + 1])
           /\ ContentAlg = q.alg /\ Has(wire.prot, "alg")
           /\ wire.prot = {<<"alg", q.alg>>}
<1>1. Good(q) /\ c.index + 1 \in 1 .. Len(q.recs) /\ wire = Sent(q) /\ picked = c.index + 1
  BY KeyHeld DEF Receiver, Holding
<1>2. wire.recs = [k \in 1 .. Len(q.recs) |-> Recipient(q, q.recs[k])]
  BY <1>1, SentShape
<1>3. Picked = Recipient(q, q.recs[c.index + 1])
  BY <1>1, <1>2 DEF Picked
<1>4. ContentAlg = q.alg /\ Has(wire.prot, "alg") /\ wire.prot = {<<"alg", q.alg>>}
  BY <1>1, SentAlg, SentShape DEF ContentAlg
<1> QED BY <1>3, <1>4

\* The tag is the one the sender made.
LEMMA VerifiesSent ==
    ASSUME NEW q, NEW c, Holding(q, c), q.kind = "mac"
    PROVE  /\ MacKeyCode = "ok"
           /\ wire.mac = <<Held(call.key), ContentAlg, wire.prot, Content(wire, call)>>
<1> DEFINE r == q.recs[c.index + 1]
           key == call.key
<1>1. /\ Receiver(q, c) /\ wire = Sent(q) /\ call = c /\ recAlg = r.alg
      /\ at > Len(wire.recs) /\ q \in Requests /\ CodeOf(q) = "ok"
  BY DEF Holding, Receiver, Good
<1>2. ContentAlg = q.alg /\ Has(wire.prot, "alg") /\ wire.prot = BodyProt(q)
  BY HoldsPicked DEF BodyProt
<1>3. /\ q.alg \in DOMAIN MacKeySizes /\ FirstAlg(q) = "direct"
      /\ FirstKey(q).kty = "symm" /\ FirstKey(q).size \in MacKeySizes[q.alg]
      /\ \A k \in 1 .. Len(q.recs) : DirectTo(q, q.recs[k])
  BY <1>1, MacTo DEF CodeOf
<1>4. c.index + 1 \in 1 .. Len(q.recs)
  BY <1>1, KeyHeld
<1>5. r.alg = "direct"
  BY <1>3, <1>4 DEF DirectTo
<1>6. /\ c.key.id = FirstKey(q).id /\ c.key.kty = FirstKey(q).kty
      /\ c.key.size = FirstKey(q).size /\ PinnedTo(c.key, KeyAlg(r.alg, q.alg))
      /\ c.policy \in {"unset", r.alg}
  BY <1>1, <1>5, KeyHeld
<1> HIDE DEF r
<1>7. PinnedTo(key, ContentAlg)
  BY <1>1, <1>2, <1>5, <1>6 DEF KeyAlg
<1>8. MacKeyCode = "ok"
  <2> DEFINE a1 == Fails(~ AtEnd, "malformed")
             a2 == Fails(key.kty # "symm", "key")
             a3 == Fails(key.alg = "unset" /\ ~ Has(wire.prot, "alg"), "alg")
             a4 == Fails(~ PinnedTo(key, ContentAlg), "alg")
             a5 == Fails(recAlg # "direct", "unsupported")
             a6 == PolicyCode(call, recAlg)
             a7 == Fails(ContentAlg \notin DOMAIN MacKeySizes, "alg")
             a8 == IF ContentAlg \in DOMAIN MacKeySizes
                   THEN Fails(key.size \notin MacKeySizes[ContentAlg], "key") ELSE "ok"
             s == <<a1, a2, a3, a4, a5, a6, a7, a8>>
  <2>1. a1 = "ok"
    BY <1>1 DEF Fails, AtEnd
  <2>2. a2 = "ok"
    BY <1>1, <1>3, <1>6 DEF Fails
  <2>3. a3 = "ok" /\ a4 = "ok"
    BY <1>2, <1>7 DEF Fails
  <2>4. a5 = "ok"
    BY <1>1, <1>5 DEF Fails
  <2>5. a6 = "ok"
    BY <1>1, <1>6 DEF PolicyCode, Fails
  <2>6. a7 = "ok"
    BY <1>2, <1>3 DEF Fails
  <2>7. a8 = "ok"
    BY <1>1, <1>2, <1>3, <1>6 DEF Fails
  <2>8. MacKeyCode = First(s)
    BY DEF MacKeyCode
  <2> HIDE DEF a1, a2, a3, a4, a5, a6, a7, a8
  <2>9. Len(s) = 8 /\ \A i \in 1 .. 8 : s[i] = "ok"
    BY <2>1, <2>2, <2>3, <2>4, <2>5, <2>6, <2>7
  <2> HIDE DEF s
  <2> QED BY <2>8, <2>9, NoRefusal
<1>9. wire.mac = <<Cek(q), q.alg, BodyProt(q), <<"payload">> >>
  BY <1>1, SentShape
<1>10. Cek(q) = Held(FirstKey(q)) /\ Held(call.key) = Held(FirstKey(q))
  BY <1>1, <1>6 DEF Cek, Held
<1>11. Content(wire, call) = <<"payload">>
  BY <1>1, SentContent
<1> QED BY <1>2, <1>8, <1>9, <1>10, <1>11

\* The content key is the one the sender used.
LEMMA UnwrapsSent ==
    ASSUME NEW q, NEW c, Holding(q, c), q.kind = "encrypt"
    PROVE  /\ AtEnd /\ KeyCode = "ok" /\ UnwrapCode = "ok"
           /\ DecKey = Cek(q)
<1> DEFINE r == q.recs[c.index + 1]
           v == Picked.value
           prot == Picked.prot
<1>1. /\ Receiver(q, c) /\ wire = Sent(q) /\ call = c /\ recAlg = r.alg
      /\ at > Len(wire.recs) /\ q \in Requests /\ CodeOf(q) = "ok" /\ Good(q)
  BY DEF Holding, Receiver, Good
<1>2. /\ Picked = Recipient(q, r) /\ ContentAlg = q.alg
  BY HoldsPicked
<1>3. v = ValueOf(q, r) /\ prot = ProtectedOf(r)
  BY <1>2 DEF Recipient
<1>4. c.index + 1 \in 1 .. Len(q.recs)
  BY <1>1, KeyHeld
<1>5. /\ DirectTo(q, r) \/ WrapTo(q, r) \/ HpkeTo(q, r) \/ AgreeTo(q, r)
      /\ Named(r)
  BY <1>1, <1>4, Goods
<1>6. /\ r.alg = "direct" => /\ c.key.id = FirstKey(q).id /\ c.key.kty = FirstKey(q).kty
                             /\ c.key.size = FirstKey(q).size
      /\ r.alg # "direct" => /\ c.key.id = r.key.id /\ c.key.kty = r.key.kty
                             /\ c.key.size = r.key.size /\ c.key.crv = r.key.crv
      /\ c.key.private /\ PinnedTo(c.key, KeyAlg(r.alg, q.alg))
  BY <1>1, KeyHeld
<1>7. FirstAlg(q) = "direct" => FirstKey(q).kty = "symm" /\ FirstKey(q).size = KeyLen[q.alg]
  BY <1>1, EncryptTo DEF CodeOf
<1>8. IsHpke(Picked, call) <=> r.alg = "hpke"
  <2> HIDE DEF r
  <2>1. CASE r.alg = "hpke"
    BY <1>2, <1>3, <2>1, HpkeHeaders DEF IsHpke
  <2>2. CASE r.alg # "hpke"
    <3>1. /\ Has(prot, "alg") => AlgOf(prot) # "hpke"
      BY <1>3, <1>5, <2>2, AgreementHeaders, PlainHeaders, EcdhNames DEF Named
    <3>2. call.policy # "hpke"
      BY <1>1, <2>2, KeyHeld DEF r
    <3> QED BY <2>2, <3>1, <3>2 DEF IsHpke
  <2> QED BY <2>1, <2>2
<1>9. AtEnd
  BY <1>1 DEF AtEnd
<1> HIDE DEF r, v, prot
<1>10. CASE HpkeTo(q, r)
  <2>1. /\ r.alg = "hpke" /\ FirstAlg(q) = "hpke" /\ Hpke0ValidateKey(r.key, FALSE) = "ok"
    BY <1>10 DEF HpkeTo
  <2>2. Cek(q) = <<"random", KeyLen[q.alg]>>
    BY <2>1, OtherNames DEF Cek
  <2>3. v = <<"seal", r.key.id, <<q.alg, prot>>, Cek(q)>>
    BY <1>3, <2>1, OtherNames DEF ValueOf
  <2>4. Hpke0ValidateKey(call.key, TRUE) = "ok"
    <3>1. r.key.kty = "ec2" /\ r.key.crv = "p256"
      <4>1. Fails(r.key.kty # "ec2" \/ r.key.crv # "p256", "key") = "ok"
        BY <2>1, FourOf DEF Hpke0ValidateKey
      <4> QED BY <4>1 DEF Fails
    <3>2. PinnedTo(c.key, "hpke")
      BY <1>6, <2>1 DEF KeyAlg
    <3>3. c.key.kty = "ec2" /\ c.key.crv = "p256" /\ c.key.private
      BY <1>6, <2>1, <3>1
    <3> DEFINE key == call.key
               a1 == Fails(key.kty = "null", "arg")
               a2 == Fails(key.kty # "ec2" \/ key.crv # "p256", "key")
               a3 == Fails(~ PinnedTo(key, "hpke"), "alg")
               a4 == Fails(TRUE /\ ~ key.private, "key")
    <3>4. a1 = "ok" /\ a2 = "ok" /\ a3 = "ok" /\ a4 = "ok"
      BY <1>1, <3>2, <3>3 DEF Fails
    <3>5. Hpke0ValidateKey(call.key, TRUE) = First(<<a1, a2, a3, a4>>)
      BY DEF Hpke0ValidateKey
    <3> HIDE DEF a1, a2, a3, a4
    <3> QED BY <3>4, <3>5, FourIff
  <2>5. KeyCode = "ok"
    <3> DEFINE b1 == Fails(v[1] # "seal" \/ v[4] # <<"random", KeyLen[ContentAlg]>>, "hdr")
               b2 == Fails(~ IsHpke(Picked, call), "arg")
               b3 == Hpke0ValidateKey(call.key, TRUE)
    <3>1. b1 = "ok"
      <4>1. v[1] = "seal" /\ v[4] = <<"random", KeyLen[ContentAlg]>>
        BY <1>2, <2>2, <2>3
      <4> QED BY <4>1 DEF Fails
    <3>2. b2 = "ok"
      BY <1>8, <2>1 DEF Fails
    <3>3. recAlg = "hpke" /\ recAlg \notin Ecdh /\ recAlg \notin Kw
      BY <1>1, <2>1, OtherNames
    <3>4. KeyCode = First(<<b1, b2, b3>>)
      BY <3>3 DEF KeyCode, v
    <3> HIDE DEF b1, b2
    <3> QED BY <2>4, <3>1, <3>2, <3>4, TripleIff
  <2>6. recAlg = "hpke" /\ recAlg \notin Ecdh /\ recAlg \notin Kw
    BY <1>1, <2>1, OtherNames
  <2>7. v[2] = call.key.id /\ v[3] = <<ContentAlg, prot>> /\ v[4] = Cek(q)
    <3>1. call.key.id = r.key.id
      BY <1>1, <1>6, <2>1
    <3> QED BY <1>2, <2>3, <3>1
  <2>8. UnwrapCode = "ok"
    BY <2>6, <2>7 DEF UnwrapCode, Fails, v, prot
  <2>9. DecKey = Cek(q)
    BY <2>6, <2>7 DEF DecKey, v
  <2> QED BY <1>9, <2>5, <2>8, <2>9
<1>11. CASE AgreeTo(q, r)
  <2>1. /\ r.alg \in Ecdh /\ r = q.recs[1] /\ r.key.kty = "ec2"
        /\ r.alg # "hpke" /\ r.alg \notin Kw /\ r.alg # "direct"
    BY <1>11, EcdhNames DEF AgreeTo
  <2>2. recAlg \in Ecdh /\ recAlg # "hpke" /\ recAlg \notin Kw
    BY <1>1, <2>1
  <2>3. call.key.kty = "ec2" /\ call.key.private /\ call.key.id = r.key.id
    BY <1>1, <1>6, <2>1
  <2>4. KeyCode = "ok"
    BY <2>2, <2>3 DEF KeyCode, Fails
  <2>5. UnwrapCode = "ok"
    BY <2>2 DEF UnwrapCode
  <2>6. DecKey = Agreed(call.key, recAlg, ContentAlg, prot)
    BY <2>2 DEF DecKey, prot
  <2>7. Cek(q) = Agreed(FirstKey(q), FirstAlg(q), q.alg, ProtectedOf(q.recs[1]))
    BY <2>1 DEF Cek, FirstAlg
  <2>8. DecKey = Cek(q)
    BY <1>1, <1>2, <1>3, <2>1, <2>3, <2>6, <2>7 DEF Agreed, FirstAlg, FirstKey
  <2> QED BY <1>9, <2>4, <2>5, <2>8
<1>12. CASE WrapTo(q, r)
  <2>1. /\ r.alg \in Kw /\ FirstAlg(q) \in Kw /\ r.key.kty = "symm"
        /\ r.key.size = KekSize[r.alg]
    BY <1>12 DEF WrapTo
  <2>2. /\ recAlg \in Kw /\ recAlg = r.alg /\ recAlg # "hpke" /\ recAlg \notin Ecdh
        /\ r.alg # "direct"
    BY <1>1, <2>1, KwNames
  <2>3. Cek(q) = <<"random", KeyLen[q.alg]>>
    BY <2>1, KwNames DEF Cek
  <2>4. v = <<"wrap", r.key.id, Cek(q)>>
    BY <1>3, <2>1 DEF ValueOf
  <2>5. call.key.kty = "symm" /\ call.key.size = KekSize[recAlg] /\ call.key.id = r.key.id
    BY <1>1, <1>6, <2>1, <2>2
  <2>6. KeyCode = "ok"
    BY <2>2, <2>5 DEF KeyCode, KwKeyCode, Fails
  <2>7. v[1] = "wrap" /\ v[2] = call.key.id /\ v[3] = Cek(q)
    BY <2>4, <2>5
  <2>8. UnwrapCode = "ok"
    <3>1. Fails(v[1] # "wrap" \/ v[2] # call.key.id, "crypto") = "ok"
      BY <2>7 DEF Fails
    <3>2. Fails(v[1] = "wrap" /\ v[3] # <<"random", KeyLen[ContentAlg]>>, "key") = "ok"
      BY <1>2, <2>3, <2>7 DEF Fails
    <3>3. First(<<Fails(v[1] # "wrap" \/ v[2] # call.key.id, "crypto"),
                  Fails(v[1] = "wrap" /\ v[3] # <<"random", KeyLen[ContentAlg]>>, "key")>>)
            = "ok"
      BY <3>1, <3>2, PairIff
    <3> QED BY <2>2, <3>3 DEF UnwrapCode, v
  <2>9. DecKey = Cek(q)
    BY <2>2, <2>7 DEF DecKey, v
  <2> QED BY <1>9, <2>6, <2>8, <2>9
<1>13. CASE DirectTo(q, r)
  <2>1. r.alg = "direct" /\ FirstAlg(q) = "direct"
    BY <1>13 DEF DirectTo
  <2>2. recAlg = "direct" /\ recAlg # "hpke" /\ recAlg \notin Kw /\ recAlg \notin Ecdh
    BY <1>1, <2>1, OtherNames
  <2>3. /\ call.key.kty = "symm" /\ call.key.size = KeyLen[ContentAlg]
        /\ call.key.id = FirstKey(q).id
    BY <1>1, <1>2, <1>6, <1>7, <2>1
  <2>4. KeyCode = "ok"
    BY <2>2, <2>3 DEF KeyCode, Fails
  <2>5. UnwrapCode = "ok"
    BY <2>2 DEF UnwrapCode
  <2>6. DecKey = Held(call.key)
    BY <2>2 DEF DecKey
  <2>7. Cek(q) = Held(FirstKey(q))
    BY <2>1, OtherNames DEF Cek
  <2>8. DecKey = Cek(q)
    BY <2>3, <2>6, <2>7 DEF Held
  <2> QED BY <1>9, <2>4, <2>5, <2>8
<1> QED BY <1>5, <1>10, <1>11, <1>12, <1>13

\* And so the content opens, if there is room for it.
LEMMA OpensSent ==
    ASSUME NEW q, NEW c, Holding(q, c), q.kind = "encrypt", NEW room
    PROVE  ContentCode(room) \in {"ok", "overflow"}
<1> DEFINE ct == Content(wire, call)
           a1 == Fails(ct = <<"short">>, "malformed")
           a2 == Fails(~ room, "overflow")
           a3 == Fails(ct # <<"sealed", DecKey, ContentAlg, wire.prot>>, "decrypt")
<1>1. Receiver(q, c) /\ wire = Sent(q) /\ call = c
  BY DEF Holding
<1>2. ct = <<"sealed", Cek(q), q.alg, wire.prot>>
  BY <1>1, SentContent
<1>3. DecKey = Cek(q) /\ ContentAlg = q.alg
  BY UnwrapsSent, HoldsPicked
<1> HIDE DEF ct
<1>4. a1 = "ok"
  <2>1. ct # <<"short">>
    BY <1>2
  <2> QED BY <2>1 DEF Fails
<1>5. a3 = "ok"
  BY <1>2, <1>3 DEF Fails
<1>6. a2 \in {"ok", "overflow"}
  BY DEF Fails
<1>7. ContentCode(room) = First(<<a1, a2, a3>>)
  BY DEF ContentCode, ct
<1> HIDE DEF a1, a2, a3
<1> QED BY <1>4, <1>5, <1>6, <1>7, TripleOf

-----------------------------------------------------------------------------
(* The receiver's side of the second layer.                                *)

LEMMA SentRecs ==
    ASSUME NEW q \in Requests, wire = Sent(q)
    PROVE  /\ Len(wire.recs) = Len(q.recs) /\ wire.count = Len(q.recs)
           /\ Len(q.recs) \in Nat
           /\ \A k \in 1 .. Len(q.recs) : wire.recs[k] = Recipient(q, q.recs[k])
<1> DEFINE n == Len(q.recs)
           S == {Recipient(q, q.recs[k]) : k \in 1 .. n}
<1>1. n \in Nat
  BY RequestShape
<1>2. wire.recs = [k \in 1 .. n |-> Recipient(q, q.recs[k])] /\ wire.count = n
  BY SentShape
<1>3. wire.recs \in [1 .. n -> S]
  BY <1>2
<1> HIDE DEF n, S
<1>4. wire.recs \in Seq(S)
  BY <1>1, <1>3, SeqDef
<1>5. Len(wire.recs) = n
  BY <1>1, <1>3, <1>4, LenProperties
<1> QED BY <1>1, <1>2, <1>5 DEF n

\* The state such a receiver is in.
With(q, c) == /\ Inv /\ Made /\ Receiver(q, c) /\ call = c /\ call # <<>>
              /\ wire = Sent(q) /\ q \in Requests /\ c.index \in Nat
              /\ Follows(q, c)

\* One more recipient is behind, in the mode of the first.
LEMMA WalkedFollows ==
    ASSUME NEW q, NEW c, With(q, c), NEW k \in 1 .. Len(q.recs), k = Len(seen) + 1,
           pc \in {"skip", "read"}, Walked(q.recs[k].alg), UNCHANGED stack, at' = k + 1,
           picked' # 0 => picked' = c.index + 1 /\ recAlg' = q.recs[c.index + 1].alg
    PROVE  Follows(q, c)'
<1>1. Mode(q.recs[k].alg) = Mode(FirstAlg(q))
  BY Goods DEF With, Receiver
<1>2. /\ Len(seen') = Len(seen) + 1 /\ Len(seen) \in Nat
  BY AppendIsList DEF With, Inv, Modes, IsList, Walked
<1>3. /\ mode' = Mode(FirstAlg(q)) /\ remaining' = 1 /\ pc' = Toward(Len(seen) + 1)
      /\ stack' = <<>>
  BY <1>1 DEF Walked, With, Follows, Walking
<1>4. pc' \in {"skip", "read", "key"}
  BY <1>3 DEF Toward
<1>5. at' = Len(seen') + 1
  BY <1>2
<1> QED BY <1>2, <1>3, <1>4, <1>5 DEF Follows, Walking

LEMMA ReceiveFollows ==
    ASSUME Inv, Made, Receive, NEW q, NEW c, Receiver(q, c), call' = c, wire = Sent(q)
    PROVE  Follows(q, c)'
<1>1. /\ call = <<>> /\ UNCHANGED <<at, remaining, stack, mode, picked, seen>>
  BY DEF Receive, walk
<1>2. /\ at = 1 /\ remaining = 1 /\ stack = <<>> /\ Len(seen) = 0 /\ mode = "none"
      /\ picked = 0
  BY <1>1 DEF Made, Fresh, Inv, Progress, Modes
<1>3. ReceiveCode(wire, c) = "ok"
  BY ReceivesSent
<1>4. pc' \in {"read", "skip"} /\ ret' = "ok"
  BY <1>3 DEF Receive
<1> QED BY <1>1, <1>2, <1>4 DEF Follows, Walking

LEMMA SkipEntryFollows ==
    ASSUME NEW q, NEW c, With(q, c), SkipEntry
    PROVE  Follows(q, c)'
<1>1. /\ pc = "skip" /\ remaining > 0 /\ UNCHANGED <<mode, picked, seen, recAlg>>
  BY DEF SkipEntry
<1>2. /\ remaining = 1 /\ at = Len(seen) + 1 /\ stack = <<>>
      /\ mode # "none" => mode = Mode(FirstAlg(q))
      /\ picked # 0 => picked = c.index + 1 /\ recAlg = q.recs[c.index + 1].alg
  <2>1. remaining \in {0, 1} /\ at = Len(seen) + 2 - remaining
    BY <1>1 DEF With, Follows
  <2>2. Len(seen) \in Nat
    BY DEF With, Inv, Modes, IsList
  <2>3. remaining = 1
    BY <1>1, <2>1
  <2>4. at = Len(seen) + 1
    BY <2>1, <2>2, <2>3
  <2> QED BY <1>1, <2>3, <2>4 DEF With, Follows, Walking
<1>3. /\ Len(wire.recs) = Len(q.recs) /\ wire.count = Len(q.recs) /\ Len(q.recs) \in Nat
      /\ \A k \in 1 .. Len(q.recs) : wire.recs[k] = Recipient(q, q.recs[k])
  BY SentRecs DEF With
<1>4. Len(seen) \in Nat /\ Len(seen) < wire.count
  BY <1>1 DEF With, Inv, Modes, IsList, Progress
<1>5. at \in 1 .. Len(q.recs) /\ ~ AtEnd
  BY <1>2, <1>3, <1>4 DEF AtEnd
<1>6. Entry = Recipient(q, q.recs[at])
  BY <1>3, <1>5 DEF Entry
<1>7. Named(q.recs[at])
  BY <1>5, Goods DEF With, Receiver
<1>8. /\ SkippedCode(Entry, Len(stack)) = "ok" /\ SkippedAlg(Entry) = q.recs[at].alg
      /\ Entry.fields = 3
  BY <1>6, <1>7, SkipsSent DEF Recipient
<1>9. /\ at' = at + 1 /\ remaining' = remaining - 1 /\ UNCHANGED <<stack, pc>>
      /\ skipped' = q.recs[at].alg
  BY <1>2, <1>5, <1>8 DEF SkipEntry
<1>10. remaining' = 0 /\ at' = Len(seen') + 2 - remaining'
  BY <1>1, <1>2, <1>4, <1>9
<1>11. skipped' = q.recs[Len(seen') + 1].alg
  BY <1>1, <1>2, <1>9
<1> QED BY <1>1, <1>2, <1>9, <1>10, <1>11 DEF Follows, Walking

LEMMA SkippedFollows ==
    ASSUME NEW q, NEW c, With(q, c), Skipped
    PROVE  Follows(q, c)'
<1> DEFINE k == Len(seen) + 1
<1>1. /\ pc = "skip" /\ remaining = 0 /\ UNCHANGED <<at, stack, recAlg, picked>>
  BY DEF Skipped
<1>2. /\ at = Len(seen) + 2 /\ skipped = q.recs[k].alg
      /\ mode # "none" => mode = Mode(FirstAlg(q))
      /\ picked # 0 => picked = c.index + 1 /\ recAlg = q.recs[c.index + 1].alg
  <2>1. Len(seen) \in Nat /\ at = Len(seen) + 2 - remaining
    BY <1>1 DEF With, Inv, Modes, IsList, Follows
  <2>2. at = Len(seen) + 2
    BY <1>1, <2>1
  <2> QED BY <1>1, <2>2 DEF With, Follows, Walking
<1>3. Len(seen) \in Nat /\ Len(seen) < wire.count /\ (mode = "none" <=> Len(seen) = 0)
  BY <1>1 DEF With, Inv, Modes, IsList, Progress
<1>4. wire.count = Len(q.recs) /\ Len(q.recs) \in Nat
  BY SentRecs DEF With
<1>5. k \in 1 .. Len(q.recs) /\ (mode # "none" => mode = Mode(FirstAlg(q)) /\ k # 1)
  BY <1>2, <1>3, <1>4
<1>6. Good(q)
  BY DEF With, Receiver
<1>7. at' = k + 1 /\ k = Len(seen) + 1
  BY <1>1, <1>2, <1>3
<1> HIDE DEF k
<1>8. ModeCode(skipped, mode) = "ok"
  BY <1>2, <1>5, <1>6, MayJoin
<1>9. Walked(q.recs[k].alg)
  BY <1>2, <1>8 DEF Skipped
<1> QED BY <1>1, <1>2, <1>5, <1>7, <1>9, WalkedFollows

LEMMA ReadFollows ==
    ASSUME NEW q, NEW c, With(q, c), Read
    PROVE  Follows(q, c)'
<1> DEFINE k == c.index + 1
           r == q.recs[k]
           e == Recipient(q, r)
<1>1. /\ pc = "read" /\ UNCHANGED stack /\ call = c
  BY DEF Read, With
<1>2. /\ at = Len(seen) + 1 /\ Len(seen) = c.index
      /\ mode # "none" => mode = Mode(FirstAlg(q))
  BY <1>1 DEF With, Follows, Walking, Inv, Progress
<1>3. /\ Len(wire.recs) = Len(q.recs) /\ Len(q.recs) \in Nat
      /\ \A j \in 1 .. Len(q.recs) : wire.recs[j] = Recipient(q, q.recs[j])
  BY SentRecs DEF With
<1>4. k \in 1 .. Len(q.recs) /\ Receiver(q, c) /\ wire = Sent(q)
  BY KeyHeld DEF With
<1>5. at = k /\ k = Len(seen) + 1
  BY <1>2
<1>6. ~ AtEnd /\ Entry = e
  BY <1>3, <1>4, <1>5 DEF AtEnd, Entry
<1>7. mode # "none" => mode = Mode(FirstAlg(q)) /\ c.index # 0
  BY <1>2 DEF With, Inv, Modes
<1>8. q.kind \in {"encrypt", "mac"} /\ c.api = q.kind
  BY RequestShape DEF With, Receiver, Addressed
<1>9. IF IsMac THEN Merged(e.prot, e.unprot) = r.alg /\ MacRecipientCode(e, r.alg) = "ok"
      ELSE FinalAlg(e, call) = r.alg /\ EncryptRecipientCode(e, call) = "ok"
  <2>1. CASE q.kind = "mac"
    <3>1. IsMac
      BY <1>1, <1>8, <2>1 DEF IsMac
    <3> QED BY <1>4, <1>7, <2>1, <3>1, ReadsAuthenticated
  <2>2. CASE q.kind = "encrypt"
    <3>1. ~ IsMac
      BY <1>1, <1>8, <2>2 DEF IsMac
    <3> QED BY <1>1, <1>4, <1>7, <2>2, <3>1, ReadsEncrypted
  <2> QED BY <1>8, <2>1, <2>2
<1> HIDE DEF e, r
<1>10. /\ recAlg' = r.alg /\ picked' = at /\ at' = at + 1 /\ Walked(r.alg)
  BY <1>6, <1>9 DEF Read
<1>11. /\ at' = k + 1 /\ picked' = c.index + 1 /\ recAlg' = q.recs[c.index + 1].alg
       /\ Walked(q.recs[k].alg)
  BY <1>5, <1>10 DEF r
<1> HIDE DEF k
<1> QED BY <1>1, <1>4, <1>5, <1>11, WalkedFollows

LEMMA HoldsKey ==
    ASSUME NEW q, NEW c, With(q, c), pc = "key"
    PROVE  Holding(q, c)
<1>1. picked # 0
  BY PickedOne DEF With
<1>2. picked = c.index + 1 /\ recAlg = q.recs[c.index + 1].alg /\ at = Len(seen) + 1
  BY <1>1 DEF With, Follows, Walking
<1>3. Len(seen) = wire.count
  BY DEF With, Inv, Progress
<1>4. Len(wire.recs) = Len(q.recs) /\ wire.count = Len(q.recs) /\ Len(q.recs) \in Nat
  BY SentRecs DEF With
<1>5. at > Len(wire.recs)
  BY <1>2, <1>3, <1>4
<1> QED BY <1>2, <1>5 DEF Holding, With

LEMMA DecryptFollows ==
    ASSUME NEW q, NEW c, With(q, c), Decrypt
    PROVE  Follows(q, c)'
<1>1. pc = "key" /\ ~ IsMac /\ pc' = "idle"
  BY DEF Decrypt, Refuse
<1>2. Holding(q, c)
  BY <1>1, HoldsKey
<1>3. q.kind = "encrypt"
  BY <1>1, RequestShape DEF With, Receiver, Addressed, IsMac
<1>4. AtEnd /\ KeyCode = "ok" /\ UnwrapCode = "ok"
  BY <1>2, <1>3, UnwrapsSent
<1>5. \E room \in BOOLEAN : ret' = ContentCode(room)
  BY <1>4 DEF Decrypt, Refuse
<1>6. ret' \in {"ok", "overflow"}
  BY <1>2, <1>3, <1>5, OpensSent
<1> QED BY <1>1, <1>6 DEF Follows, Walking

LEMMA VerifyFollows ==
    ASSUME NEW q, NEW c, With(q, c), Verify
    PROVE  Follows(q, c)'
<1>1. pc = "key" /\ IsMac /\ pc' = "idle"
  BY DEF Verify, Refuse
<1>2. Holding(q, c)
  BY <1>1, HoldsKey
<1>3. q.kind = "mac"
  BY <1>1 DEF With, Receiver, Addressed, IsMac
<1>4. MacKeyCode = "ok" /\ wire.mac = <<Held(call.key), ContentAlg, wire.prot,
                                        Content(wire, call)>>
  BY <1>2, <1>3, VerifiesSent
<1>5. ret' = "ok"
  BY <1>4 DEF Verify, Refuse, Fails
<1> QED BY <1>1, <1>5 DEF Follows, Walking

LEMMA FollowingNext == Inv /\ Made /\ Following /\ [Next]_vars => Following'
<1> SUFFICES ASSUME Inv, Made, Following, [Next]_vars,
                    call' # <<>>, origin' # <<>>, Addressed(origin', call')
             PROVE  Follows(origin, call)'
  BY DEF Following
<1>1. CASE Sending \/ Arrive
  <2>1. call' = <<>>
    <3>1. UNCHANGED call
      BY <1>1 DEF Sending, Start, ObtainCek, WriteBody, WriteRecipient, Send, Arrive, receiver
    <3>2. wire = <<>> \/ Making
      BY <1>1 DEF Sending, Start, ObtainCek, WriteBody, WriteRecipient, Send, Arrive, Making
    <3> QED BY <3>1, <3>2 DEF Inv, Progress
  <2> QED BY <2>1
<1>2. CASE Collect
  BY <1>2 DEF Collect
<1>3. CASE Receive
  <2>1. UNCHANGED <<wire, origin>> /\ call' \in Calls
    BY <1>3 DEF Receive
  <2>2. Good(origin) /\ wire = Sent(origin)
    BY <2>1 DEF Made, Answered
  <2>3. Receiver(origin, call')
    BY <2>1, <2>2 DEF Receiver
  <2>4. PICK q, c : q = origin /\ c = call'
    OBVIOUS
  <2>5. Receiver(q, c) /\ call' = c /\ wire = Sent(q)
    BY <2>2, <2>3, <2>4
  <2>6. Follows(q, c)'
    BY <1>3, <2>5, ReceiveFollows
  <2>7. origin' = q
    BY <2>1, <2>4
  <2> QED BY <2>5, <2>6, <2>7 DEF Follows
<1>4. CASE SkipEntry \/ Return \/ Skipped \/ Read \/ Decrypt \/ Verify
  <2>1. UNCHANGED <<wire, origin, call>>
    BY <1>4 DEF SkipEntry, Return, Skipped, Read, Decrypt, Verify
  <2>2. PICK q, c : q = origin /\ c = call
    OBVIOUS
  <2>3. origin' = q /\ call' = c /\ call # <<>>
    BY <2>1, <2>2
  <2>4. With(q, c)
    <3>1. Good(q) /\ wire = Sent(q) /\ q \in Requests
      BY <2>1, <2>2 DEF Made, Answered, Good
    <3>2. c \in Calls
      BY <2>2, <2>3 DEF Inv, Typed
    <3>3. c.index \in Nat
      BY <3>2, CallShape
    <3>4. Receiver(q, c)
      BY <2>3, <3>1, <3>2 DEF Receiver
    <3>5. Follows(q, c)
      BY <2>1, <2>2, <2>3 DEF Following, Follows
    <3> QED BY <2>2, <2>3, <3>1, <3>3, <3>4, <3>5 DEF With
  <2>5. ~ Return
    BY <2>4 DEF Return, With, Follows, Walking
  <2>6. Follows(q, c)'
    BY <1>4, <2>4, <2>5, SkipEntryFollows, SkippedFollows, ReadFollows, DecryptFollows,
       VerifyFollows
  <2> QED BY <2>3, <2>6 DEF Follows
<1>5. CASE UNCHANGED vars
  <2>1. UNCHANGED <<origin, call, pc, ret, stack, mode, remaining, at, skipped, seen, picked,
                    recAlg>>
    BY <1>5 DEF vars, receiver, walk
  <2>2. Follows(origin, call)
    BY <2>1 DEF Following
  <2> QED BY <2>1, <2>2 DEF Follows, Walking
<1> QED BY <1>1, <1>2, <1>3, <1>4, <1>5 DEF Next, Receiving

\* Whatever the sender returned as a message, each of its recipients can read: what
\* wc_CoseEncrypt_Encrypt and wc_CoseMac_Create write, in which bucket and under which
\* key, is what wc_CoseEncrypt_Decrypt and wc_CoseMac_Verify insist on.
THEOREM RecipientsRead == Spec => []EveryRecipientReads
<1>1. Init => Inv /\ Made /\ Following
  <2>1. Init => Following
    BY DEF Init, Following
  <2> QED BY <2>1, InitInv, InitMade
<1>2. Inv /\ Made /\ Following /\ [Next]_vars => (Inv /\ Made /\ Following)'
  BY InvInductive, AskedNext, WrittenNext, AnsweredNext, FreshNext, FollowingNext DEF Made
<1>3. Following => EveryRecipientReads
  BY DEF Following, Follows, EveryRecipientReads, Idle
<1> QED BY <1>1, <1>2, <1>3, PTL DEF Spec

-----------------------------------------------------------------------------
(* The third layer: where the walk is in the message.  TreesEnd says it by *)
(* recursion on what is still to come; it exists for the last k entries of *)
(* every message, by the least k for which it would not.                   *)

Spotted(n, p) == [left |-> n, from |-> p]

\* The entries of a message, as far as the walk relies on them.
EntriesOK(recs) == /\ Len(recs) \in Nat
                   /\ \A k \in 1 .. Len(recs) : recs[k].nested \in Nat

Inner(recs, p) == IF recs[p].fields = 4 THEN recs[p].nested ELSE 0

\* Recipients end behind where they start, if they do.
Ahead(f, s) == f[s] \in Nat /\ (f[s] = 0 \/ (f[s] >= s.from /\ s.from # 0))

\* The last k entries, and what is behind the message.
Last(recs, k, s) == s.from = 0 \/ s.from + k > Len(recs)

LEMMA SpotShape ==
    ASSUME NEW s \in Spot
    PROVE  s = Spotted(s.left, s.from) /\ s.left \in Nat /\ s.from \in Nat
BY DEF Spot, Spotted

LEMMA SpottedIs ==
    ASSUME NEW n \in Nat, NEW p \in Nat
    PROVE  Spotted(n, p) \in Spot /\ Spotted(n, p).left = n /\ Spotted(n, p).from = p
BY DEF Spot, Spotted

LEMMA TreesFromIs ==
    ASSUME NEW recs, NEW f, NEW s
    PROVE  TreesFrom(recs, f, s) =
               IF s.left = 0 \/ s.from = 0 THEN s.from
               ELSE IF s.from > Len(recs) THEN 0
               ELSE f[Spotted(s.left - 1, f[Spotted(Inner(recs, s.from), s.from + 1)])]
BY DEF TreesFrom, Spotted, Inner

\* The two places that a recipient's end is looked up at.
LEMMA LooksAhead ==
    ASSUME NEW recs, EntriesOK(recs), NEW f, NEW s \in Spot,
           s.left # 0, s.from # 0, ~ (s.from > Len(recs)),
           \A q \in Spot : q.from = 0 \/ q.from > s.from => Ahead(f, q)
    PROVE  LET q == Spotted(Inner(recs, s.from), s.from + 1)
               r == Spotted(s.left - 1, f[q])
           IN  /\ q \in Spot /\ q.from > s.from
               /\ r \in Spot /\ (r.from = 0 \/ r.from > s.from) /\ r.from = f[q]
<1> DEFINE q == Spotted(Inner(recs, s.from), s.from + 1)
           r == Spotted(s.left - 1, f[q])
<1>1. s.left \in Nat /\ s.from \in Nat /\ Len(recs) \in Nat
  BY SpotShape DEF EntriesOK
<1>2. Inner(recs, s.from) \in Nat
  BY <1>1 DEF Inner, EntriesOK
<1>3. s.left - 1 \in Nat /\ s.from + 1 \in Nat /\ s.from + 1 > s.from
  BY <1>1
<1>4. q \in Spot /\ q.from = s.from + 1
  BY <1>2, <1>3, SpottedIs
<1> HIDE DEF q
<1>5. Ahead(f, q)
  BY <1>3, <1>4
<1>6. f[q] \in Nat /\ (f[q] = 0 \/ f[q] > s.from)
  BY <1>1, <1>4, <1>5 DEF Ahead
<1>7. r \in Spot /\ r.from = f[q]
  <2> DEFINE m == s.left - 1
             e == f[q]
  <2>1. m \in Nat /\ e \in Nat
    BY <1>3, <1>6
  <2> HIDE DEF m, e
  <2>2. Spotted(m, e) \in Spot /\ Spotted(m, e).from = e
    BY <2>1, SpottedIs
  <2> QED BY <2>2 DEF m, e
<1> HIDE DEF r
<1> QED BY <1>1, <1>3, <1>4, <1>6, <1>7 DEF q, r

LEMMA TreesFromAhead ==
    ASSUME NEW recs, EntriesOK(recs), NEW f, NEW s \in Spot,
           \A q \in Spot : s.from # 0 /\ ~ (s.from > Len(recs)) /\ (q.from = 0 \/ q.from > s.from)
                           => Ahead(f, q),
           f[s] = TreesFrom(recs, f, s)
    PROVE  Ahead(f, s)
<1>1. s.left \in Nat /\ s.from \in Nat /\ Len(recs) \in Nat
  BY SpotShape DEF EntriesOK
<1> DEFINE q == Spotted(Inner(recs, s.from), s.from + 1)
           r == Spotted(s.left - 1, f[q])
<1>2. f[s] = IF s.left = 0 \/ s.from = 0 THEN s.from
             ELSE IF s.from > Len(recs) THEN 0 ELSE f[r]
  BY TreesFromIs
<1>3. CASE s.left = 0 \/ s.from = 0 \/ s.from > Len(recs)
  <2> HIDE DEF r
  <2> QED BY <1>1, <1>2, <1>3 DEF Ahead
<1>4. CASE s.left # 0 /\ s.from # 0 /\ ~ (s.from > Len(recs))
  <2>1. r \in Spot /\ (r.from = 0 \/ r.from > s.from)
    BY <1>4, LooksAhead
  <2> HIDE DEF r
  <2>2. Ahead(f, r) /\ r.from \in Nat
    BY <1>4, <2>1, SpotShape
  <2> QED BY <1>1, <1>2, <1>4, <2>1, <2>2 DEF Ahead
<1> QED BY <1>3, <1>4

LEMMA TreesFromSame ==
    ASSUME NEW recs, EntriesOK(recs), NEW f, NEW g, NEW s \in Spot,
           \A q \in Spot : s.from # 0 /\ ~ (s.from > Len(recs)) /\ (q.from = 0 \/ q.from > s.from)
                           => f[q] = g[q] /\ Ahead(f, q)
    PROVE  TreesFrom(recs, f, s) = TreesFrom(recs, g, s)
<1> DEFINE q == Spotted(Inner(recs, s.from), s.from + 1)
           r == Spotted(s.left - 1, f[q])
<1>1. /\ TreesFrom(recs, f, s) = IF s.left = 0 \/ s.from = 0 THEN s.from
                                 ELSE IF s.from > Len(recs) THEN 0 ELSE f[r]
      /\ TreesFrom(recs, g, s) = IF s.left = 0 \/ s.from = 0 THEN s.from
                                 ELSE IF s.from > Len(recs) THEN 0
                                 ELSE g[Spotted(s.left - 1, g[q])]
  BY TreesFromIs
<1>2. CASE s.left = 0 \/ s.from = 0 \/ s.from > Len(recs)
  <2> HIDE DEF r, q
  <2> QED BY <1>1, <1>2
<1>3. CASE s.left # 0 /\ s.from # 0 /\ ~ (s.from > Len(recs))
  <2>1. q \in Spot /\ q.from > s.from /\ r \in Spot /\ (r.from = 0 \/ r.from > s.from)
    BY <1>3, LooksAhead
  <2> HIDE DEF q
  <2>2. f[q] = g[q]
    BY <1>3, <2>1
  <2>3. Spotted(s.left - 1, g[q]) = r
    BY <2>2
  <2> HIDE DEF r
  <2>4. f[r] = g[r]
    BY <1>3, <2>1
  <2> QED BY <1>1, <1>3, <2>3, <2>4
<1> QED BY <1>2, <1>3

LEMMA AllAhead ==
    ASSUME NEW recs, EntriesOK(recs), NEW f, NEW k \in Nat,
           \A s \in Spot : Last(recs, k, s) => f[s] = TreesFrom(recs, f, s)
    PROVE  \A s \in Spot : Last(recs, k, s) => Ahead(f, s)
<1> DEFINE Fine(j) == \A s \in Spot : Last(recs, j, s) => Ahead(f, s)
           Bad == {j \in Nat : j <= k /\ ~ Fine(j)}
<1>0. Len(recs) \in Nat
  BY DEF EntriesOK
<1>1. ASSUME NEW s \in Spot, s.from = 0 PROVE Ahead(f, s)
  <2>1. f[s] = TreesFrom(recs, f, s)
    BY <1>1 DEF Last
  <2> QED BY <1>1, <2>1, TreesFromAhead
<1>2. Bad = {}
  <2> SUFFICES ASSUME Bad # {} PROVE FALSE
    OBVIOUS
  <2>1. PICK j \in Bad : \A i \in Bad : j <= i
    <3>1. Bad \in SUBSET Nat
      OBVIOUS
    <3> HIDE DEF Bad
    <3> QED BY <3>1, LeastNat
  <2>2. j \in Nat /\ j <= k /\ ~ Fine(j)
    BY <2>1
  <2>3. ASSUME NEW s \in Spot, Last(recs, j, s)
        PROVE  Ahead(f, s)
    <3>1. s.from \in Nat
      BY SpotShape
    <3>2. f[s] = TreesFrom(recs, f, s)
      BY <1>0, <2>2, <2>3, <3>1 DEF Last
    <3>3. ASSUME NEW q \in Spot, s.from # 0, ~ (s.from > Len(recs)), q.from > s.from
          PROVE  Ahead(f, q)
      <4>1. q.from \in Nat
        BY SpotShape
      <4>2. j - 1 \in Nat /\ j - 1 <= k /\ j - 1 < j /\ Last(recs, j - 1, q)
        BY <1>0, <2>2, <2>3, <3>1, <3>3, <4>1 DEF Last
      <4>3. j - 1 \notin Bad
        <5> HIDE DEF Bad
        <5> QED BY <2>1, <2>2, <4>2
      <4>4. Fine(j - 1)
        BY <4>2, <4>3
      <4> QED BY <4>2, <4>4
    <3> QED BY <1>1, <3>2, <3>3, TreesFromAhead
  <2> QED BY <2>2, <2>3
<1>3. k \notin Bad
  BY <1>2
<1> QED BY <1>3

\* A function that says where the last k entries end.
TreesFor(recs, k, f) ==
    /\ f = [s \in Spot |-> f[s]]
    /\ \A s \in Spot : Last(recs, k, s) => f[s] = TreesFrom(recs, f, s)

LEMMA TreesExist ==
    ASSUME NEW recs, EntriesOK(recs)
    PROVE  \A k \in Nat : \E f : TreesFor(recs, k, f)
<1> DEFINE Bad == {k \in Nat : ~ \E f : TreesFor(recs, k, f)}
<1>0. Len(recs) \in Nat
  BY DEF EntriesOK
<1> SUFFICES ASSUME Bad # {} PROVE FALSE
  OBVIOUS
<1>1. PICK k \in Bad : \A j \in Bad : k <= j
  <2>1. Bad \in SUBSET Nat
    OBVIOUS
  <2> HIDE DEF Bad
  <2> QED BY <2>1, LeastNat
<1>2. k \in Nat /\ ~ \E f : TreesFor(recs, k, f)
  BY <1>1
<1>3. CASE k = 0
  <2> DEFINE f == [s \in Spot |-> TreesFrom(recs, <<>>, s)]
  <2>1. ASSUME NEW s \in Spot, Last(recs, k, s)
        PROVE  f[s] = TreesFrom(recs, f, s)
    <3>1. s.from \in Nat /\ (s.from = 0 \/ s.from > Len(recs))
      BY SpotShape, <1>0, <1>3, <2>1 DEF Last
    <3>2. TreesFrom(recs, <<>>, s) = TreesFrom(recs, f, s)
      <4> HIDE DEF f
      <4> QED BY <3>1, TreesFromIs
    <3>3. f[s] = TreesFrom(recs, <<>>, s)
      OBVIOUS
    <3> QED BY <3>2, <3>3
  <2>2. f = [s \in Spot |-> f[s]]
    OBVIOUS
  <2> HIDE DEF f
  <2> QED BY <1>2, <2>1, <2>2 DEF TreesFor
<1>4. CASE k # 0
  <2>1. k - 1 \in Nat /\ ~ (k <= k - 1)
    BY <1>2, <1>4
  <2>2. k - 1 \notin Bad
    <3> HIDE DEF Bad
    <3> QED BY <1>1, <2>1
  <2>3. PICK f : TreesFor(recs, k - 1, f)
    BY <2>1, <2>2
  <2>4. \A s \in Spot : Last(recs, k - 1, s) => f[s] = TreesFrom(recs, f, s) /\ Ahead(f, s)
    <3> DEFINE m == k - 1
    <3>1. m \in Nat /\ TreesFor(recs, m, f)
      BY <2>1, <2>3
    <3> HIDE DEF m
    <3>2. \A s \in Spot : Last(recs, m, s) => f[s] = TreesFrom(recs, f, s)
      BY <3>1 DEF TreesFor
    <3>3. \A s \in Spot : Last(recs, m, s) => Ahead(f, s)
      BY <3>1, <3>2, AllAhead
    <3> QED BY <3>2, <3>3 DEF m
  <2> DEFINE g == [s \in Spot |-> IF Last(recs, k - 1, s) THEN f[s] ELSE TreesFrom(recs, f, s)]
  <2>5. ASSUME NEW s \in Spot, Last(recs, k, s)
        PROVE  g[s] = TreesFrom(recs, g, s)
    <3>1. g[s] = TreesFrom(recs, f, s)
      BY <2>4
    <3>2. ASSUME NEW q \in Spot, s.from # 0, q.from = 0 \/ q.from > s.from
          PROVE  f[q] = g[q] /\ Ahead(f, q)
      <4>1. s.from \in Nat /\ q.from \in Nat
        BY SpotShape
      <4>2. Last(recs, k - 1, q)
        BY <1>0, <1>2, <2>5, <3>2, <4>1 DEF Last
      <4>3. g[q] = f[q]
        BY <4>2
      <4> QED BY <2>4, <4>2, <4>3
    <3>3. TreesFrom(recs, f, s) = TreesFrom(recs, g, s)
      <4> HIDE DEF g
      <4> QED BY <3>2, TreesFromSame
    <3> QED BY <3>1, <3>3
  <2>6. g = [s \in Spot |-> g[s]]
    OBVIOUS
  <2> HIDE DEF g
  <2> QED BY <1>2, <2>5, <2>6 DEF TreesFor
<1> QED BY <1>3, <1>4

EndsOf(recs) == CHOOSE f : f = [s \in Spot |-> TreesFrom(recs, f, s)]

LEMMA EndsOfIs ==
    ASSUME NEW recs, EntriesOK(recs)
    PROVE  \A s \in Spot : /\ EndsOf(recs)[s] = TreesFrom(recs, EndsOf(recs), s)
                           /\ Ahead(EndsOf(recs), s)
<1> DEFINE U(f) == f = [s \in Spot |-> TreesFrom(recs, f, s)]
           E == EndsOf(recs)
<1>0. Len(recs) \in Nat
  BY DEF EntriesOK
<1>1. \A s \in Spot : Last(recs, Len(recs), s)
  BY <1>0, SpotShape DEF Last
<1>2. \E f : U(f)
  <2>1. PICK f : TreesFor(recs, Len(recs), f)
    BY <1>0, TreesExist
  <2>2. f = [s \in Spot |-> f[s]] /\ \A s \in Spot : f[s] = TreesFrom(recs, f, s)
    BY <1>1, <2>1 DEF TreesFor
  <2>3. [s \in Spot |-> f[s]] = [s \in Spot |-> TreesFrom(recs, f, s)]
    BY <2>2
  <2> QED BY <2>2, <2>3
<1>3. U(E)
  <2>1. E = CHOOSE f : U(f)
    BY DEF EndsOf
  <2> HIDE DEF U, E
  <2> QED BY <1>2, <2>1
<1>4. \A s \in Spot : E[s] = TreesFrom(recs, E, s)
  <2> HIDE DEF E
  <2> QED BY <1>3
<1>5. \A s \in Spot : Ahead(E, s)
  <2> HIDE DEF E
  <2> QED BY <1>0, <1>1, <1>4, AllAhead
<1> QED BY <1>4, <1>5

LEMMA TreesEndIs ==
    ASSUME NEW recs, NEW n, NEW p
    PROVE  TreesEnd(recs, n, p) = EndsOf(recs)[Spotted(n, p)]
BY DEF TreesEnd, EndsOf, Spotted

\* The recursion: no recipients, none left in the message, one and then the rest.
LEMMA TreesUnfold ==
    ASSUME NEW recs, EntriesOK(recs), NEW n \in Nat, NEW p \in Nat
    PROVE  /\ TreesEnd(recs, n, p) \in Nat
           /\ n = 0 \/ p = 0 => TreesEnd(recs, n, p) = p
           /\ n # 0 /\ p # 0 /\ p > Len(recs) => TreesEnd(recs, n, p) = 0
           /\ n # 0 /\ p # 0 /\ ~ (p > Len(recs)) =>
                  TreesEnd(recs, n, p) =
                      TreesEnd(recs, n - 1, TreesEnd(recs, Inner(recs, p), p + 1))
<1> DEFINE E == EndsOf(recs)
           s == Spotted(n, p)
<1>1. s \in Spot /\ s.left = n /\ s.from = p
  BY SpottedIs
<1>2. E[s] = TreesFrom(recs, E, s) /\ E[s] \in Nat
  <2> HIDE DEF s
  <2> QED BY <1>1, EndsOfIs DEF Ahead
<1>3. E[s] = IF n = 0 \/ p = 0 THEN p
             ELSE IF p > Len(recs) THEN 0
             ELSE E[Spotted(n - 1, E[Spotted(Inner(recs, p), p + 1)])]
  <2> HIDE DEF s, E
  <2> QED BY <1>1, <1>2, TreesFromIs
<1>4. TreesEnd(recs, n, p) = E[s]
  BY TreesEndIs
<1>5. TreesEnd(recs, n - 1, TreesEnd(recs, Inner(recs, p), p + 1))
      = E[Spotted(n - 1, E[Spotted(Inner(recs, p), p + 1)])]
  BY TreesEndIs
<1> HIDE DEF s, E
<1> QED BY <1>2, <1>3, <1>4, <1>5

LEMMA NoTrees ==
    ASSUME NEW recs, EntriesOK(recs), NEW p \in Nat
    PROVE  TreesEnd(recs, 0, p) = p
<1> DEFINE n == 0
<1>1. n \in Nat /\ n = 0
  OBVIOUS
<1> HIDE DEF n
<1>2. TreesEnd(recs, n, p) = p
  BY <1>1, TreesUnfold
<1> QED BY <1>1, <1>2

\* One recipient in the message.
LEMMA OneTree ==
    ASSUME NEW recs, EntriesOK(recs), NEW p \in Nat, p # 0, ~ (p > Len(recs))
    PROVE  /\ TreesEnd(recs, 1, p) = TreesEnd(recs, Inner(recs, p), p + 1)
           /\ Inner(recs, p) \in Nat /\ TreesEnd(recs, 1, p) \in Nat
<1>1. Inner(recs, p) \in Nat
  BY DEF Inner, EntriesOK
<1>2. TreesEnd(recs, Inner(recs, p), p + 1) \in Nat
  BY <1>1, TreesUnfold
<1> DEFINE n == 1
           e == TreesEnd(recs, Inner(recs, p), p + 1)
<1>3. n \in Nat /\ n # 0 /\ n - 1 = 0
  OBVIOUS
<1> HIDE DEF n
<1>4. TreesEnd(recs, n, p) = TreesEnd(recs, n - 1, e)
  BY <1>3, TreesUnfold
<1>5. TreesEnd(recs, 0, e) = e
  <2> HIDE DEF e
  <2> QED BY <1>2, NoTrees DEF e
<1>6. TreesEnd(recs, n, p) = e
  BY <1>3, <1>4, <1>5
<1>7. n = 1
  BY DEF n
<1> QED BY <1>1, <1>2, <1>6, <1>7

\* Several are one and then the rest.
LEMMA OneTreeFirst ==
    ASSUME NEW recs, EntriesOK(recs), NEW n \in Nat, n # 0, NEW p \in Nat
    PROVE  /\ TreesEnd(recs, n, p) = TreesEnd(recs, n - 1, TreesEnd(recs, 1, p))
           /\ TreesEnd(recs, 1, p) \in Nat
<1>0. n - 1 \in Nat /\ 1 \in Nat /\ 1 # 0 /\ 0 \in Nat
  OBVIOUS
<1>1. CASE p # 0 /\ ~ (p > Len(recs))
  <2>1. TreesEnd(recs, n, p) = TreesEnd(recs, n - 1, TreesEnd(recs, Inner(recs, p), p + 1))
    BY <1>1, TreesUnfold
  <2> QED BY <1>1, <2>1, OneTree
<1>2. CASE p = 0 \/ p > Len(recs)
  <2> DEFINE m == 1
  <2>1. m \in Nat /\ m # 0
    OBVIOUS
  <2> HIDE DEF m
  <2>2. ASSUME NEW k \in Nat, k # 0 PROVE TreesEnd(recs, k, p) = 0
    <3>1. CASE p = 0
      <4>1. TreesEnd(recs, k, p) = p
        BY <3>1, TreesUnfold
      <4> QED BY <3>1, <4>1
    <3>2. CASE p # 0 /\ p > Len(recs)
      BY <2>2, <3>2, TreesUnfold
    <3> QED BY <1>2, <3>1, <3>2
  <2>3. TreesEnd(recs, n, p) = 0
    BY <2>2
  <2>4. TreesEnd(recs, m, p) = 0
    BY <2>1, <2>2
  <2>5. TreesEnd(recs, n - 1, 0) = 0
    <3> DEFINE z == 0
               k == n - 1
    <3>1. z \in Nat /\ z = 0 /\ k \in Nat
      BY <1>0
    <3> HIDE DEF z, k
    <3>2. TreesEnd(recs, k, z) = z
      BY <3>1, TreesUnfold
    <3> QED BY <3>1, <3>2 DEF k
  <2>6. m = 1
    BY DEF m
  <2> QED BY <1>0, <2>3, <2>4, <2>5, <2>6
<1> QED BY <1>1, <1>2

\* Or the first ones and then one.
LEMMA OneTreeLast ==
    ASSUME NEW recs, EntriesOK(recs)
    PROVE  \A n \in Nat : \A p \in Nat :
               TreesEnd(recs, n + 1, p) = TreesEnd(recs, 1, TreesEnd(recs, n, p))
<1> DEFINE Fine(n) == \A p \in Nat :
               TreesEnd(recs, n + 1, p) = TreesEnd(recs, 1, TreesEnd(recs, n, p))
           Bad == {n \in Nat : ~ Fine(n)}
<1> SUFFICES ASSUME Bad # {} PROVE FALSE
  OBVIOUS
<1>1. PICK n \in Bad : \A j \in Bad : n <= j
  <2>1. Bad \in SUBSET Nat
    OBVIOUS
  <2> HIDE DEF Bad
  <2> QED BY <2>1, LeastNat
<1>2. n \in Nat /\ ~ Fine(n)
  BY <1>1
<1>3. CASE n = 0
  <2>1. ASSUME NEW p \in Nat
        PROVE  TreesEnd(recs, n + 1, p) = TreesEnd(recs, 1, TreesEnd(recs, n, p))
    <3>1. TreesEnd(recs, 0, p) = p
      BY NoTrees
    <3>2. n + 1 = 1
      BY <1>3
    <3> QED BY <1>3, <3>1, <3>2
  <2> QED BY <1>2, <2>1
<1>4. CASE n # 0
  <2>1. n - 1 \in Nat /\ ~ (n <= n - 1) /\ (n - 1) + 1 = n /\ n + 1 \in Nat /\ n + 1 # 0
        /\ (n + 1) - 1 = n
    BY <1>2, <1>4
  <2>2. n - 1 \notin Bad
    <3> HIDE DEF Bad
    <3> QED BY <1>1, <2>1
  <2>3. Fine(n - 1)
    BY <2>1, <2>2
  <2>4. ASSUME NEW p \in Nat
        PROVE  TreesEnd(recs, n + 1, p) = TreesEnd(recs, 1, TreesEnd(recs, n, p))
    <3> DEFINE one == TreesEnd(recs, 1, p)
               m == n - 1
               k == n + 1
    <3>1. one \in Nat
      BY <1>2, <1>4, OneTreeFirst
    <3>2. TreesEnd(recs, n, p) = TreesEnd(recs, m, one)
      BY <1>2, <1>4, OneTreeFirst
    <3>3. TreesEnd(recs, k, p) = TreesEnd(recs, n, one)
      <4>1. k \in Nat /\ k # 0 /\ k - 1 = n
        BY <2>1
      <4> HIDE DEF k
      <4> QED BY <4>1, OneTreeFirst
    <3> HIDE DEF one
    <3>4. TreesEnd(recs, n, one) = TreesEnd(recs, 1, TreesEnd(recs, m, one))
      BY <2>1, <2>3, <3>1
    <3> QED BY <3>2, <3>3, <3>4
  <2> QED BY <1>2, <2>4
<1> QED BY <1>3, <1>4

-----------------------------------------------------------------------------
(* The levels on the stack.                                                *)

\* Each level goes on where the one inside it ends.
Above(recs, stk, level) ==
    /\ level[0] = [q \in Nat |-> q]
    /\ \A k \in 1 .. Len(stk) :
           level[k] = [q \in Nat |-> level[k - 1][TreesEnd(recs, stk[k], q)]]

\* What is left, n recipients from p on and then the levels above, ends so.
LeftTo(recs, stk, n, p, end) ==
    \E level : Above(recs, stk, level) /\ level[Len(stk)][TreesEnd(recs, n, p)] = end

LEMMA NoneAbove ==
    ASSUME NEW recs, EntriesOK(recs), NEW n \in Nat, NEW p \in Nat, NEW end
    PROVE  LeftTo(recs, <<>>, n, p, end) <=> TreesEnd(recs, n, p) = end
<1> DEFINE e == TreesEnd(recs, n, p)
           level == [k \in {0} |-> [q \in Nat |-> q]]
<1>1. e \in Nat
  BY TreesUnfold
<1>2. Len(<<>>) = 0
  OBVIOUS
<1>3. level[0] = [q \in Nat |-> q]
  OBVIOUS
<1>4. Above(recs, <<>>, level)
  BY <1>2, <1>3 DEF Above
<1> HIDE DEF level, e
<1>5. level[0][e] = e
  BY <1>1, <1>3
<1>6. ASSUME NEW l, Above(recs, <<>>, l) PROVE l[0][e] = e
  BY <1>1, <1>6 DEF Above
<1> QED BY <1>2, <1>4, <1>5, <1>6 DEF LeftTo, e

\* An entry that holds no recipients.
LEMMA EntryFollows ==
    ASSUME NEW recs, EntriesOK(recs), NEW stk, NEW n \in Nat, n # 0,
           NEW p \in Nat, p # 0, ~ (p > Len(recs)), recs[p].fields # 4, NEW end,
           LeftTo(recs, stk, n, p, end)
    PROVE  LeftTo(recs, stk, n - 1, p + 1, end)
<1>1. Inner(recs, p) = 0
  BY DEF Inner
<1>2. p + 1 \in Nat
  OBVIOUS
<1>3. TreesEnd(recs, 0, p + 1) = p + 1
  <2> DEFINE q == p + 1
  <2> HIDE DEF q
  <2>1. TreesEnd(recs, 0, q) = q
    BY <1>2, NoTrees DEF q
  <2> QED BY <2>1 DEF q
<1>4. TreesEnd(recs, n, p) = TreesEnd(recs, n - 1, TreesEnd(recs, Inner(recs, p), p + 1))
  BY TreesUnfold
<1>5. TreesEnd(recs, n, p) = TreesEnd(recs, n - 1, p + 1)
  BY <1>1, <1>3, <1>4
<1> QED BY <1>5 DEF LeftTo

\* An entry with recipients puts off the rest of its level.
LEMMA NestFollows ==
    ASSUME NEW recs, EntriesOK(recs), NEW stk \in Seq(Nat), NEW stk2, NEW n \in Nat, n # 0,
           NEW p \in Nat, p # 0, ~ (p > Len(recs)), recs[p].fields = 4, NEW end,
           LeftTo(recs, stk, n, p, end),
           Len(stk2) = Len(stk) + 1, \A k \in 1 .. Len(stk) : stk2[k] = stk[k],
           stk2[Len(stk) + 1] = n - 1
    PROVE  LeftTo(recs, stk2, recs[p].nested, p + 1, end)
<1> DEFINE d == Len(stk)
           inner == TreesEnd(recs, recs[p].nested, p + 1)
<1>0. d \in Nat
  BY LenProperties
<1>1. Inner(recs, p) = recs[p].nested
  BY DEF Inner
<1>2. inner \in Nat /\ TreesEnd(recs, n, p) = TreesEnd(recs, n - 1, inner)
  <2>1. TreesEnd(recs, n, p) = TreesEnd(recs, n - 1, TreesEnd(recs, Inner(recs, p), p + 1))
    BY TreesUnfold
  <2>2. recs[p].nested \in Nat
    BY <1>1, OneTree
  <2>3. inner \in Nat
    <3> DEFINE q == p + 1
               m == recs[p].nested
    <3>1. q \in Nat /\ m \in Nat
      BY <2>2
    <3> HIDE DEF q, m
    <3>2. TreesEnd(recs, m, q) \in Nat
      BY <3>1, TreesUnfold
    <3> QED BY <3>2 DEF q, m
  <2> QED BY <1>1, <2>1, <2>3
<1>3. PICK level : Above(recs, stk, level) /\ level[d][TreesEnd(recs, n, p)] = end
  BY DEF LeftTo
<1> DEFINE new == [q \in Nat |-> level[d][TreesEnd(recs, n - 1, q)]]
           more == [k \in 0 .. (d + 1) |-> IF k = d + 1 THEN new ELSE level[k]]
<1> HIDE DEF inner, d
<1>4. Len(stk2) = d + 1 /\ stk2[d + 1] = n - 1 /\ \A k \in 1 .. d : stk2[k] = stk[k]
  BY DEF d
<1>5. Above(recs, stk2, more)
  <2>1. more[0] = [q \in Nat |-> q]
    <3>1. level[0] = [q \in Nat |-> q]
      BY <1>3 DEF Above
    <3>2. more[0] = level[0]
      BY <1>0
    <3> QED BY <3>1, <3>2
  <2>2. ASSUME NEW k \in 1 .. (d + 1)
        PROVE  more[k] = [q \in Nat |-> more[k - 1][TreesEnd(recs, stk2[k], q)]]
    <3>1. CASE k = d + 1
      <4>1. more[k] = new /\ more[k - 1] = level[d] /\ stk2[k] = n - 1
        BY <1>0, <1>4, <3>1
      <4> HIDE DEF more
      <4> QED BY <4>1
    <3>2. CASE k # d + 1
      <4>1. k \in 1 .. d
        BY <1>0, <3>2
      <4>2. more[k] = level[k] /\ more[k - 1] = level[k - 1] /\ stk2[k] = stk[k]
        BY <1>0, <1>4, <4>1
      <4>3. level[k] = [q \in Nat |-> level[k - 1][TreesEnd(recs, stk[k], q)]]
        BY <1>3, <4>1 DEF Above, d
      <4> HIDE DEF more
      <4> QED BY <4>2, <4>3
    <3> QED BY <3>1, <3>2
  <2> HIDE DEF more
  <2> QED BY <1>4, <2>1, <2>2 DEF Above
<1>6. more[d + 1] = new
  BY <1>0
<1>7. new[inner] = end
  BY <1>2, <1>3
<1> HIDE DEF more, new
<1> QED BY <1>4, <1>5, <1>6, <1>7 DEF LeftTo, inner

\* A level that is done gives way to the one above.
LEMMA ReturnFollows ==
    ASSUME NEW recs, EntriesOK(recs), NEW stk \in Seq(Nat), NEW d \in Nat, Len(stk) = d + 1,
           NEW stk2, Len(stk2) = d, \A k \in 1 .. d : stk2[k] = stk[k],
           NEW p \in Nat, NEW end, LeftTo(recs, stk, 0, p, end)
    PROVE  LeftTo(recs, stk2, stk[d + 1], p, end)
<1>1. PICK level : Above(recs, stk, level) /\ level[d + 1][TreesEnd(recs, 0, p)] = end
  BY DEF LeftTo
<1>2. TreesEnd(recs, 0, p) = p
  BY NoTrees
<1>3. level[d + 1] = [q \in Nat |-> level[d][TreesEnd(recs, stk[d + 1], q)]]
  <2>1. d + 1 \in 1 .. Len(stk) /\ (d + 1) - 1 = d
    OBVIOUS
  <2> QED BY <1>1, <2>1 DEF Above
<1>4. level[d][TreesEnd(recs, stk[d + 1], p)] = end
  BY <1>1, <1>2, <1>3
<1>5. Above(recs, stk2, level)
  <2>1. ASSUME NEW k \in 1 .. d
        PROVE  level[k] = [q \in Nat |-> level[k - 1][TreesEnd(recs, stk2[k], q)]]
    <3>1. k \in 1 .. Len(stk) /\ stk2[k] = stk[k]
      OBVIOUS
    <3> QED BY <1>1, <3>1 DEF Above
  <2> QED BY <1>1, <2>1 DEF Above
<1> QED BY <1>4, <1>5 DEF LeftTo

-----------------------------------------------------------------------------
(* The algorithm that is read of an entry is the one that is skipped of it.*)

LEMMA AlgIsThere ==
    ASSUME NEW b
    PROVE  AlgOf(b) # "unset" => Has(b, "alg")
BY DEF AlgOf, Has

LEMMA SkipsWhatItReads ==
    ASSUME NEW e, NEW alg, alg = Merged(e.prot, e.unprot), alg # "unset"
    PROVE  SkippedAlg(e) = alg
<1>1. AlgOf(e.prot) # "unset" \/ AlgOf(e.unprot) # "unset"
  BY DEF Merged
<1>2. Has(e.prot, "alg") \/ Has(e.unprot, "alg")
  BY <1>1, AlgIsThere
<1>3. Has(e.prot \cup e.unprot, "alg")
  BY <1>2 DEF Has
<1> QED BY <1>3 DEF SkippedAlg

LEMMA ReadsEncryptedAlg ==
    ASSUME NEW e, NEW c, EncryptRecipientCode(e, c) = "ok"
    PROVE  e.fields = 3 /\ SkippedAlg(e) = FinalAlg(e, c)
<1>1. /\ Fails(e.fields # 3, "malformed") = "ok"
      /\ UnprotectedCode(e, c) = "ok"
      /\ ModeCode(FinalAlg(e, c), mode) = "ok"
  BY ThirteenOf DEF EncryptRecipientCode
<1>2. e.fields = 3
  BY <1>1 DEF Fails
<1>3. FinalAlg(e, c) # "unset"
  BY <1>1 DEF ModeCode, Fails
<1>4. ~ (IsHpke(e, c) /\ \/ ~ Has(e.prot, "alg") /\ Has(e.unprot, "alg")
                         \/ Has(e.prot \cup e.unprot, "iv")
                         \/ <<"ek", "ok">> \notin e.unprot)
  <2>1. Fails(IsHpke(e, c) /\ \/ ~ Has(e.prot, "alg") /\ Has(e.unprot, "alg")
                              \/ Has(e.prot \cup e.unprot, "iv")
                              \/ <<"ek", "ok">> \notin e.unprot, "hdr") = "ok"
    BY <1>1, FourIff DEF UnprotectedCode
  <2> QED BY <2>1 DEF Fails
<1>5. CASE IsHpke(e, c) /\ Has(e.prot, "alg")
  <2>1. AlgOf(e.prot) = "hpke" /\ FinalAlg(e, c) = "hpke"
    BY <1>5 DEF IsHpke, FinalAlg
  <2>2. Merged(e.prot, e.unprot) = "hpke"
    BY <2>1 DEF Merged
  <2> QED BY <1>2, <2>1, <2>2, SkipsWhatItReads
<1>6. CASE IsHpke(e, c) /\ ~ Has(e.prot, "alg")
  <2>1. ~ Has(e.unprot, "alg") /\ <<"ek", "ok">> \in e.unprot
    BY <1>4, <1>6
  <2>2. ~ Has(e.prot \cup e.unprot, "alg") /\ Has(e.unprot, "ek")
    BY <1>6, <2>1 DEF Has
  <2> QED BY <1>2, <1>6, <2>2 DEF SkippedAlg, FinalAlg
<1>7. CASE ~ IsHpke(e, c)
  <2>1. FinalAlg(e, c) = Merged(e.prot, e.unprot)
    <3>1. CASE IsEcdh(e)
      <4>1. AlgOf(e.prot) # "unset"
        BY <3>1 DEF IsEcdh, Ecdh
      <4> QED BY <1>7, <3>1, <4>1 DEF FinalAlg, Merged
    <3>2. CASE ~ IsEcdh(e)
      BY <1>7, <3>2 DEF FinalAlg
    <3> QED BY <3>1, <3>2
  <2> QED BY <1>2, <1>3, <2>1, SkipsWhatItReads
<1> QED BY <1>5, <1>6, <1>7

LEMMA ReadsMacAlg ==
    ASSUME NEW e, MacRecipientCode(e, Merged(e.prot, e.unprot)) = "ok"
    PROVE  e.fields = 3 /\ SkippedAlg(e) = Merged(e.prot, e.unprot)
<1> DEFINE alg == Merged(e.prot, e.unprot)
           s == <<Fails(e.fields # 3, "malformed"),
                  Fails(Labels(e.prot) \cap Labels(e.unprot) # {}, "malformed"),
                  ModeCode(alg, mode),
                  Fails(alg = "direct" /\ e.prot # {}, "hdr"),
                  Fails(alg = "direct" /\ e.value # <<"bstr">>, "hdr"),
                  Fails(e.value # <<"null">> /\ ~ IsBstr(e.value), "type")>>
<1>1. Len(s) = 6 /\ s[1] = Fails(e.fields # 3, "malformed") /\ s[3] = ModeCode(alg, mode)
  OBVIOUS
<1>2. First(s) = "ok"
  BY DEF MacRecipientCode
<1> HIDE DEF s, alg
<1>3. Fails(e.fields # 3, "malformed") = "ok" /\ ModeCode(alg, mode) = "ok"
  <2>1. Len(s) \in Nat
    BY <1>1
  <2>2. \A k \in 1 .. Len(s) : s[k] = "ok"
    BY <1>2, <2>1, AllPass
  <2>3. 1 \in 1 .. Len(s) /\ 3 \in 1 .. Len(s)
    BY <1>1
  <2>4. s[1] = "ok" /\ s[3] = "ok"
    BY <2>2, <2>3
  <2> QED BY <1>1, <2>4
<1>4. e.fields = 3 /\ alg # "unset"
  BY <1>3 DEF Fails, ModeCode
<1> QED BY <1>4, SkipsWhatItReads DEF alg

-----------------------------------------------------------------------------
(* The walk.                                                               *)

Nth(n) == TreesEnd(wire.recs, n, 1)

\* Between two recipients, or inside one that is skipped.
Skipping ==
    /\ LeftTo(wire.recs, stack, remaining, at, Nth(Len(seen) + 1))
    /\ stack # <<>> => stack[1] = 0
    /\ \/ stack = <<>> /\ remaining = 1 /\ at = Nth(Len(seen))
       \/ /\ stack = <<>> => remaining = 0
          /\ skipped = SkippedAlg(wire.recs[Nth(Len(seen))])

\* What the walk has behind it.
Behind ==
    /\ at <= Len(wire.recs) + 1
    /\ \A k \in 1 .. Len(seen) : seen[k] = SkippedAlg(wire.recs[Nth(k - 1)])
    /\ Len(seen) > call.index => picked = Nth(call.index)

Tracking ==
    /\ Walking => Behind
    /\ pc = "skip" => Skipping
    /\ pc \in {"read", "key"} => stack = <<>> /\ at = Nth(Len(seen))

Tracked == Tracking /\ WalkFollowsMessage

\* What a step of the walk may rely on.
LEMMA WalkShape ==
    ASSUME Inv, Walking
    PROVE  /\ EntriesOK(wire.recs) /\ wire.count \in Nat /\ call.index \in Nat
           /\ IsList(seen) /\ Len(seen) \in Nat /\ Len(seen) <= wire.count
           /\ at \in Nat /\ at # 0 /\ remaining \in Nat /\ stack \in Seq(Nat)
           /\ \A n \in Nat : Nth(n) \in Nat
<1>1. EntriesOK(wire.recs) /\ wire.count \in Nat
  BY DEF Inv, Typed, MessageOK, EntriesOK
<1>2. call.index \in Nat /\ call.index < wire.count
  BY CallShape DEF Inv, Typed
<1>3. IsList(seen) /\ Len(seen) \in Nat
  BY DEF Inv, Modes, IsList
<1>4. Len(seen) <= wire.count
  BY <1>1, <1>2, <1>3 DEF Inv, Progress, Walking
<1>5. at \in Nat /\ at # 0 /\ remaining \in Nat /\ stack \in Seq(Nat)
  BY DEF Inv, Typed
<1>6. ASSUME NEW n \in Nat PROVE Nth(n) \in Nat
  BY <1>1, TreesUnfold DEF Nth
<1> QED BY <1>1, <1>2, <1>3, <1>4, <1>5, <1>6

\* Recipients are counted one after another.
LEMMA NthNext ==
    ASSUME EntriesOK(wire.recs), NEW n \in Nat
    PROVE  /\ Nth(0) = 1
           /\ Nth(n + 1) = TreesEnd(wire.recs, 1, Nth(n))
<1>1. TreesEnd(wire.recs, 0, 1) = 1
  BY NoTrees
<1>2. TreesEnd(wire.recs, n + 1, 1) = TreesEnd(wire.recs, 1, TreesEnd(wire.recs, n, 1))
  BY OneTreeLast
<1> QED BY <1>1, <1>2 DEF Nth

\* Steps that leave the call alone leave what is said of it alone.
LEMMA WalkUnchanged ==
    ASSUME WalkFollowsMessage, UNCHANGED <<wire, call, picked, seen, used>>
    PROVE  WalkFollowsMessage'
BY DEF WalkFollowsMessage

LEMMA ReceiveTracked ==
    ASSUME Inv, Fresh, Tracked, Receive
    PROVE  Tracked'
<1>1. /\ call = <<>> /\ wire # <<>> /\ call' \in Calls
      /\ pc' \in {"idle", "read", "skip"}
      /\ UNCHANGED <<wire, at, remaining, stack, skipped, picked, seen, used>>
  BY DEF Receive, Refuse, walk
<1>2. at = 1 /\ remaining = 1 /\ stack = <<>> /\ Len(seen) = 0 /\ used = "none"
  BY <1>1 DEF Fresh, Inv, Progress
<1>3. EntriesOK(wire.recs)
  BY <1>1 DEF Inv, Typed, MessageOK, EntriesOK
<1>4. WalkFollowsMessage'
  BY <1>1, <1>2 DEF WalkFollowsMessage
<1>5. Nth(0) = 1 /\ Nth(0 + 1) = TreesEnd(wire.recs, 1, Nth(0)) /\ Nth(1) \in Nat
  <2>1. TreesEnd(wire.recs, 1, 1) \in Nat
    BY <1>3, TreesUnfold
  <2> QED BY <1>3, <2>1, NthNext DEF Nth
<1>6. LeftTo(wire.recs, <<>>, 1, 1, Nth(1))
  <2>1. TreesEnd(wire.recs, 1, 1) = Nth(1)
    BY DEF Nth
  <2> QED BY <1>3, <2>1, NoneAbove
<1>7. Skipping
  BY <1>2, <1>5, <1>6 DEF Skipping
<1>8. Skipping'
  BY <1>1, <1>7 DEF Skipping, Nth
<1>9. Behind'
  <2>1. Len(wire.recs) \in Nat
    BY <1>3 DEF EntriesOK
  <2>2. call'.index \in Nat
    BY <1>1, CallShape
  <2> QED BY <1>1, <1>2, <2>1, <2>2 DEF Behind
<1>10. stack' = <<>> /\ at' = Nth(Len(seen))'
  BY <1>1, <1>2, <1>5 DEF Nth
<1> QED BY <1>4, <1>8, <1>9, <1>10 DEF Tracked, Tracking

\* An entry behind, in a recipient that is skipped.
LEMMA SkipEntryTracked ==
    ASSUME Inv, Tracked, SkipEntry
    PROVE  Tracked'
<1>1. /\ pc = "skip" /\ remaining > 0 /\ remaining # 0
      /\ UNCHANGED <<wire, call, picked, seen, used>>
  BY DEF SkipEntry
<1>2. WalkFollowsMessage'
  BY <1>1, WalkUnchanged DEF Tracked
<1>3. CASE pc' = "idle"
  BY <1>2, <1>3 DEF Tracked, Tracking, Walking
<1>4. CASE /\ ~ AtEnd
           /\ at' = at + 1
           /\ skipped' = IF stack = <<>> THEN SkippedAlg(Entry) ELSE skipped
           /\ IF Entry.fields = 4
              THEN /\ stack' = Append(stack, remaining - 1)
                   /\ remaining' = Entry.nested
              ELSE /\ remaining' = remaining - 1
                   /\ UNCHANGED stack
           /\ UNCHANGED pc
  <2>1. /\ EntriesOK(wire.recs) /\ Len(seen) \in Nat /\ at \in Nat /\ at # 0
        /\ remaining \in Nat /\ stack \in Seq(Nat) /\ Len(wire.recs) \in Nat
        /\ \A n \in Nat : Nth(n) \in Nat
    BY <1>1, WalkShape DEF Walking, EntriesOK
  <2>2. ~ (at > Len(wire.recs)) /\ Entry = wire.recs[at]
    BY <1>4 DEF AtEnd, Entry
  <2>3. Behind /\ Skipping
    BY <1>1 DEF Tracked, Tracking, Walking
  <2>4. Behind'
    BY <1>1, <1>4, <2>1, <2>2, <2>3 DEF Behind, Nth
  <2>5. Len(stack) \in Nat /\ (stack # <<>> => Len(stack) >= 1)
    BY <2>1, EmptySeq, LenProperties
  <2>6. /\ stack = <<>> => remaining = 1 /\ at = Nth(Len(seen))
        /\ skipped' = SkippedAlg(wire.recs[Nth(Len(seen))])
    BY <1>1, <1>4, <2>2, <2>3 DEF Skipping
  <2>7. LeftTo(wire.recs, stack, remaining, at, Nth(Len(seen) + 1))
    BY <2>3 DEF Skipping
  <2>8. Skipping'
    <3>1. CASE Entry.fields = 4
      <4>1. remaining - 1 \in Nat
        BY <1>1, <2>1
      <4>2. /\ Len(stack') = Len(stack) + 1
            /\ \A k \in 1 .. Len(stack) : stack'[k] = stack[k]
            /\ stack'[Len(stack) + 1] = remaining - 1
        <5> DEFINE x == remaining - 1
        <5>1. x \in Nat
          BY <4>1
        <5>2. stack' = Append(stack, x)
          BY <1>4, <3>1
        <5> HIDE DEF x
        <5>3. /\ Len(Append(stack, x)) = Len(stack) + 1
              /\ \A k \in 1 .. Len(stack) : Append(stack, x)[k] = stack[k]
              /\ Append(stack, x)[Len(stack) + 1] = x
          BY <2>1, <5>1, AppendProperties
        <5>4. /\ Len(stack') = Len(stack) + 1
              /\ \A k \in 1 .. Len(stack) : stack'[k] = stack[k]
              /\ stack'[Len(stack) + 1] = x
          BY <5>2, <5>3
        <5> QED BY <5>4 DEF x
      <4>3. LeftTo(wire.recs, stack', wire.recs[at].nested, at + 1, Nth(Len(seen) + 1))
        BY <1>1, <2>1, <2>2, <2>7, <3>1, <4>2, NestFollows
      <4>4. stack' # <<>>
        <5>1. Len(<<>>) = 0
          OBVIOUS
        <5> QED BY <2>5, <4>2, <5>1
      <4>5. stack'[1] = 0
        <5>1. CASE stack = <<>>
          <6>1. Len(stack) = 0
            BY <5>1
          <6>2. remaining - 1 = 0
            BY <2>6, <5>1
          <6> QED BY <4>2, <6>1, <6>2
        <5>2. CASE stack # <<>>
          <6>1. stack[1] = 0
            BY <2>3, <5>2 DEF Skipping
          <6> QED BY <2>5, <4>2, <5>2, <6>1
        <5> QED BY <5>1, <5>2
      <4> QED BY <1>1, <1>4, <2>2, <2>6, <3>1, <4>3, <4>4, <4>5 DEF Skipping, Nth
    <3>2. CASE Entry.fields # 4
      <4>1. LeftTo(wire.recs, stack, remaining - 1, at + 1, Nth(Len(seen) + 1))
        BY <1>1, <2>1, <2>2, <2>7, <3>2, EntryFollows
      <4>2. stack' = stack /\ remaining' = remaining - 1
        BY <1>4, <3>2
      <4>3. stack = <<>> => remaining - 1 = 0
        BY <2>6
      <4>4. stack # <<>> => stack[1] = 0
        BY <2>3 DEF Skipping
      <4> QED BY <1>1, <1>4, <2>6, <4>1, <4>2, <4>3, <4>4 DEF Skipping, Nth
    <3> QED BY <3>1, <3>2
  <2> QED BY <1>1, <1>2, <1>4, <2>4, <2>8 DEF Tracked, Tracking
<1> QED BY <1>3, <1>4 DEF SkipEntry, Refuse

\* A level is done.
LEMMA ReturnTracked ==
    ASSUME Inv, Tracked, Return
    PROVE  Tracked'
<1>1. /\ pc = "skip" /\ remaining = 0 /\ stack # <<>>
      /\ remaining' = stack[Len(stack)]
      /\ stack' = SubSeq(stack, 1, Len(stack) - 1)
      /\ UNCHANGED <<wire, call, picked, seen, used, pc, at, skipped>>
  BY DEF Return
<1>2. WalkFollowsMessage'
  BY <1>1, WalkUnchanged DEF Tracked
<1>3. /\ EntriesOK(wire.recs) /\ Len(seen) \in Nat /\ at \in Nat /\ stack \in Seq(Nat)
  BY <1>1, WalkShape DEF Walking
<1>4. Behind /\ Skipping
  BY <1>1 DEF Tracked, Tracking, Walking
<1>5. Behind'
  BY <1>1, <1>4 DEF Behind, Nth
<1> DEFINE d == Len(stack) - 1
<1>6. d \in Nat /\ Len(stack) = d + 1
  <2>1. Len(stack) \in Nat /\ Len(stack) >= 1
    BY <1>1, <1>3, EmptySeq, LenProperties
  <2> QED BY <2>1
<1>7. \A k \in 1 .. d : stack[k] \in Nat
  BY <1>3, <1>6, ElementOfSeq
<1>8. stack' = SubSeq(stack, 1, d)
  BY <1>1
<1> HIDE DEF d
<1>9. /\ Len(stack') = d
      /\ \A k \in 1 .. d : stack'[k] = stack[k]
  <2>1. /\ Len(SubSeq(stack, 1, d)) = IF 1 <= d THEN d - 1 + 1 ELSE 0
        /\ SubSeq(stack, 1, d) \in Seq(Nat)
        /\ \A k \in 1 .. d - 1 + 1 : SubSeq(stack, 1, d)[k] = stack[1 + k - 1]
    BY <1>6, <1>7, SubSeqProperties
  <2>2. Len(stack') = d
    BY <1>6, <1>8, <2>1
  <2>3. ASSUME NEW k \in 1 .. d PROVE stack'[k] = stack[k]
    <3>1. k \in 1 .. d - 1 + 1 /\ 1 + k - 1 = k
      BY <1>6
    <3> QED BY <1>8, <2>1, <3>1
  <2> QED BY <2>2, <2>3
<1>10. LeftTo(wire.recs, stack', stack[d + 1], at, Nth(Len(seen) + 1))
  <2>1. LeftTo(wire.recs, stack, 0, at, Nth(Len(seen) + 1))
    BY <1>1, <1>4 DEF Skipping
  <2> QED BY <1>3, <1>6, <1>9, <2>1, ReturnFollows
<1>11. remaining' = stack[d + 1]
  BY <1>1, <1>6
<1>12. stack[1] = 0 /\ skipped = SkippedAlg(wire.recs[Nth(Len(seen))])
  BY <1>1, <1>4 DEF Skipping
<1>13. stack' = <<>> => remaining' = 0
  <2>1. stack' = <<>> => d = 0
    BY <1>9
  <2>2. d = 0 => remaining' = stack[1]
    BY <1>11
  <2> QED BY <2>1, <2>2, <1>12
<1>14. stack' # <<>> => stack'[1] = 0
  <2>1. stack' # <<>> => d # 0
    BY <1>6, <1>8
  <2>2. d # 0 => 1 \in 1 .. d
    BY <1>6
  <2> QED BY <1>9, <1>12, <2>1, <2>2
<1>15. Skipping'
  BY <1>1, <1>10, <1>11, <1>12, <1>13, <1>14 DEF Skipping, Nth
<1> QED BY <1>1, <1>2, <1>5, <1>15 DEF Tracked, Tracking

\* One more recipient is behind.
LEMMA WalkedTracked ==
    ASSUME Inv, Tracked, Walking, NEW alg, Walked(alg), UNCHANGED <<wire, call, stack, used>>,
           used = "none", stack = <<>>, at' = Nth(Len(seen) + 1), at' <= Len(wire.recs) + 1,
           alg = SkippedAlg(wire.recs[Nth(Len(seen))]),
           Len(seen) < wire.count,
           Len(seen) + 1 > call.index => picked' = Nth(call.index)
    PROVE  Tracked'
<1>1. /\ EntriesOK(wire.recs) /\ IsList(seen) /\ Len(seen) \in Nat /\ call.index \in Nat
      /\ wire.count \in Nat
  BY WalkShape
<1>2. seen' = Append(seen, alg) /\ remaining' = 1 /\ pc' = Toward(Len(seen) + 1)
  BY DEF Walked
<1>3. /\ Len(seen') = Len(seen) + 1
      /\ \A k \in 1 .. Len(seen) : seen'[k] = seen[k]
      /\ seen'[Len(seen) + 1] = alg
  BY <1>1, <1>2, AppendIsList
<1>4. Behind
  BY DEF Tracked, Tracking
<1>5. Behind'
  <2>1. ASSUME NEW k \in 1 .. Len(seen')
        PROVE  seen'[k] = SkippedAlg(wire.recs[Nth(k - 1)])
    <3>1. CASE k = Len(seen) + 1
      <4>1. k - 1 = Len(seen)
        BY <1>1, <3>1
      <4> QED BY <1>3, <3>1, <4>1
    <3>2. CASE k # Len(seen) + 1
      <4>1. k \in 1 .. Len(seen)
        BY <1>1, <1>3, <3>2
      <4> QED BY <1>3, <1>4, <4>1 DEF Behind
    <3> QED BY <3>1, <3>2
  <2>2. Len(seen') > call'.index => picked' = Nth(call.index)
    BY <1>3
  <2> QED BY <2>1, <2>2 DEF Behind, Nth
<1>6. stack' = <<>> /\ at' = Nth(Len(seen))'
  BY <1>3 DEF Nth
<1>7. Skipping'
  <2> DEFINE n == Len(seen) + 1
  <2>1. n \in Nat /\ Len(seen') = n
    BY <1>1, <1>3
  <2> HIDE DEF n
  <2>2. at' = Nth(n) /\ Nth(n) \in Nat
    <3>1. Nth(n) \in Nat
      BY <1>1, <2>1, TreesUnfold DEF Nth
    <3> QED BY <3>1 DEF n
  <2>3. Nth(n + 1) = TreesEnd(wire.recs, 1, Nth(n))
    BY <1>1, <2>1, NthNext
  <2>4. LeftTo(wire.recs, <<>>, 1, Nth(n), Nth(n + 1))
    BY <1>1, <2>2, <2>3, NoneAbove
  <2>5. LeftTo(wire.recs, stack', remaining', at', Nth(n + 1))
    BY <1>2, <2>2, <2>4
  <2> QED BY <1>2, <2>1, <2>2, <2>5 DEF Skipping, Nth
<1>8. WalkFollowsMessage'
  BY DEF WalkFollowsMessage
<1> QED BY <1>5, <1>6, <1>7, <1>8 DEF Tracked, Tracking

LEMMA SkippedTracked ==
    ASSUME Inv, Tracked, Skipped
    PROVE  Tracked'
<1>1. /\ pc = "skip" /\ remaining = 0 /\ stack = <<>>
      /\ UNCHANGED <<wire, call, at, stack, picked, used>>
  BY DEF Skipped
<1>2. CASE pc' = "idle" /\ UNCHANGED seen
  BY <1>1, <1>2, WalkUnchanged DEF Tracked, Tracking, Walking
<1>3. CASE Walked(skipped)
  <2>1. /\ EntriesOK(wire.recs) /\ Len(seen) \in Nat /\ at \in Nat
        /\ call.index \in Nat /\ wire.count \in Nat
    BY <1>1, WalkShape DEF Walking
  <2>2. Behind /\ Skipping /\ Walking
    BY <1>1 DEF Tracked, Tracking, Walking
  <2>3. at = Nth(Len(seen) + 1)
    <3>1. LeftTo(wire.recs, <<>>, 0, at, Nth(Len(seen) + 1))
      BY <1>1, <2>2 DEF Skipping
    <3>2. TreesEnd(wire.recs, 0, at) = Nth(Len(seen) + 1)
      BY <2>1, <3>1, NoneAbove
    <3> QED BY <2>1, <3>2, NoTrees
  <2>4. skipped = SkippedAlg(wire.recs[Nth(Len(seen))])
    BY <1>1, <2>2 DEF Skipping
  <2>5. Len(seen) < wire.count /\ Len(seen) # call.index
    BY <1>1 DEF Inv, Progress
  <2>6. used = "none"
    BY <2>1, <2>5 DEF Inv, Progress
  <2>7. Len(seen) + 1 > call.index => picked' = Nth(call.index)
    <3>1. Len(seen) + 1 > call.index => Len(seen) > call.index
      BY <2>1, <2>5
    <3> QED BY <1>1, <2>2, <3>1 DEF Behind
  <2>8. at' = Nth(Len(seen) + 1) /\ at' <= Len(wire.recs) + 1
    BY <1>1, <2>2, <2>3 DEF Behind
  <2> QED BY <1>1, <1>3, <2>2, <2>4, <2>5, <2>6, <2>7, <2>8, WalkedTracked
<1> QED BY <1>2, <1>3 DEF Skipped, Refuse

LEMMA ReadTracked ==
    ASSUME Inv, Tracked, Read
    PROVE  Tracked'
<1> DEFINE alg == IF AtEnd THEN "unset" ELSE IF IsMac THEN Merged(Entry.prot, Entry.unprot)
                  ELSE FinalAlg(Entry, call)
<1>1. pc = "read" /\ UNCHANGED <<wire, call, stack, used>>
  BY DEF Read
<1>2. CASE pc' = "idle" /\ UNCHANGED <<seen, picked>>
  BY <1>1, <1>2, WalkUnchanged DEF Tracked, Tracking, Walking
<1>3. CASE /\ ~ AtEnd
           /\ IF IsMac THEN MacRecipientCode(Entry, alg) = "ok"
              ELSE EncryptRecipientCode(Entry, call) = "ok"
           /\ picked' = at /\ at' = at + 1 /\ Walked(alg)
  <2>1. /\ EntriesOK(wire.recs) /\ Len(seen) \in Nat /\ at \in Nat /\ at # 0
        /\ call.index \in Nat /\ wire.count \in Nat /\ Len(wire.recs) \in Nat
    BY <1>1, WalkShape DEF Walking, EntriesOK
  <2>2. Behind /\ Walking /\ stack = <<>> /\ at = Nth(Len(seen))
    BY <1>1 DEF Tracked, Tracking, Walking
  <2>3. ~ (at > Len(wire.recs)) /\ Entry = wire.recs[at]
    BY <1>3 DEF AtEnd, Entry
  <2>4. Entry.fields = 3 /\ alg = SkippedAlg(Entry)
    <3>1. CASE IsMac
      BY <1>3, <3>1, ReadsMacAlg
    <3>2. CASE ~ IsMac
      BY <1>3, <3>2, ReadsEncryptedAlg
    <3> QED BY <3>1, <3>2
  <2> HIDE DEF alg
  <2>5. Nth(Len(seen) + 1) = at + 1
    <3>1. Nth(Len(seen) + 1) = TreesEnd(wire.recs, 1, at)
      BY <2>1, <2>2, NthNext
    <3>2. TreesEnd(wire.recs, 1, at) = TreesEnd(wire.recs, Inner(wire.recs, at), at + 1)
      BY <2>1, <2>3, OneTree
    <3>3. Inner(wire.recs, at) = 0
      BY <2>3, <2>4 DEF Inner
    <3>4. TreesEnd(wire.recs, 0, at + 1) = at + 1
      <4> DEFINE q == at + 1
      <4>1. q \in Nat
        BY <2>1
      <4> HIDE DEF q
      <4>2. TreesEnd(wire.recs, 0, q) = q
        BY <2>1, <4>1, NoTrees
      <4> QED BY <4>2 DEF q
    <3> QED BY <3>1, <3>2, <3>3, <3>4
  <2>6. alg = SkippedAlg(wire.recs[Nth(Len(seen))])
    BY <2>2, <2>3, <2>4
  <2>7. Len(seen) = call.index /\ call.index < wire.count
    BY <1>1 DEF Inv, Progress, Typed, Walking
  <2>8. used = "none"
    BY <2>1, <2>7 DEF Inv, Progress
  <2>9. picked' = Nth(call.index)
    BY <1>3, <2>2, <2>7
  <2>10. at' = Nth(Len(seen) + 1) /\ at' <= Len(wire.recs) + 1 /\ Len(seen) < wire.count
    BY <1>3, <2>1, <2>3, <2>5, <2>7
  <2> QED BY <1>1, <1>3, <2>2, <2>6, <2>8, <2>9, <2>10, WalkedTracked
<1> QED BY <1>2, <1>3 DEF Read, Refuse

\* The key is used only where the message ends.
LEMMA UseTracked ==
    ASSUME Inv, Tracked, Decrypt \/ Verify
    PROVE  Tracked'
<1>1. /\ pc = "key" /\ pc' = "idle" /\ UNCHANGED <<wire, call, seen, picked, at>>
  BY DEF Decrypt, Verify, Refuse, walk
<1>2. used' # "none" => AtEnd
  <2>1. MacKeyCode = "ok" => AtEnd
    <3>1. MacKeyCode = "ok" => Fails(~ AtEnd, "malformed") = "ok"
      BY EightOf DEF MacKeyCode
    <3> QED BY <3>1 DEF Fails
  <2>2. CASE Decrypt
    BY <2>2 DEF Decrypt
  <2>3. CASE Verify
    BY <2>1, <2>3 DEF Verify
  <2> QED BY <2>2, <2>3
<1>3. /\ EntriesOK(wire.recs) /\ IsList(seen) /\ at \in Nat /\ Len(wire.recs) \in Nat
      /\ wire.count \in Nat /\ call.index \in Nat
  BY <1>1, WalkShape DEF Walking, EntriesOK
<1>4. Behind /\ at = Nth(Len(seen)) /\ Len(seen) = wire.count /\ call.index < wire.count
  BY <1>1 DEF Tracked, Tracking, Walking, Inv, Progress, Typed
<1>5. ASSUME AtEnd
      PROVE  /\ picked = Nth(call.index)
             /\ Nth(wire.count) = Len(wire.recs) + 1
             /\ seen = [k \in 1 .. wire.count |-> SkippedAlg(wire.recs[Nth(k - 1)])]
  <2>1. at = Len(wire.recs) + 1
    BY <1>3, <1>4, <1>5 DEF AtEnd, Behind
  <2>2. picked = Nth(call.index)
    BY <1>3, <1>4 DEF Behind
  <2>3. seen = [k \in 1 .. wire.count |-> seen[k]]
    BY <1>3, <1>4 DEF IsList
  <2>4. \A k \in 1 .. wire.count : seen[k] = SkippedAlg(wire.recs[Nth(k - 1)])
    BY <1>4 DEF Behind
  <2>5. [k \in 1 .. wire.count |-> seen[k]]
        = [k \in 1 .. wire.count |-> SkippedAlg(wire.recs[Nth(k - 1)])]
    BY <2>4
  <2>6. seen = [k \in 1 .. wire.count |-> SkippedAlg(wire.recs[Nth(k - 1)])]
    BY <2>3, <2>5
  <2> QED BY <1>4, <2>1, <2>2, <2>6
<1>6. WalkFollowsMessage'
  BY <1>1, <1>2, <1>5 DEF WalkFollowsMessage, Nth
<1> QED BY <1>1, <1>6 DEF Tracked, Tracking, Walking

\* Nothing else touches a walk.
LEMMA OthersTracked ==
    ASSUME Inv, Tracked, Sending \/ Arrive \/ Collect \/ UNCHANGED vars
    PROVE  Tracked'
<1>1. CASE Sending
  <2>1. pc' \in {"idle", "cek", "body", "recipients"} /\ UNCHANGED <<call, seen, picked, used>>
    BY <1>1 DEF Sending, Start, ObtainCek, WriteBody, WriteRecipient, Send, Finish, receiver, walk
  <2>2. wire' = wire \/ used = "none"
    <3>1. CASE Send
      BY <3>1 DEF Send, Inv, Progress, Making
    <3>2. CASE ~ Send
      BY <1>1, <3>2 DEF Sending, Start, ObtainCek, WriteBody, WriteRecipient
    <3> QED BY <3>1, <3>2
  <2>3. WalkFollowsMessage'
    BY <2>1, <2>2 DEF Tracked, WalkFollowsMessage
  <2> QED BY <2>1, <2>3 DEF Tracked, Tracking, Walking
<1>2. CASE Arrive
  <2>1. pc' = "idle" /\ used' = used /\ wire = <<>>
    BY <1>2 DEF Arrive, receiver, Idle
  <2>2. used = "none"
    BY <2>1 DEF Inv, Progress
  <2> QED BY <2>1, <2>2 DEF Tracked, Tracking, Walking, WalkFollowsMessage
<1>3. CASE Collect
  <2>1. pc' = "idle" /\ used' = "none"
    BY <1>3 DEF Collect, Idle
  <2> QED BY <2>1 DEF Tracked, Tracking, Walking, WalkFollowsMessage
<1>4. CASE UNCHANGED vars
  <2>1. UNCHANGED <<pc, wire, call, at, remaining, stack, skipped, picked, seen, used>>
    BY <1>4 DEF vars, receiver, walk
  <2>2. WalkFollowsMessage'
    BY <2>1, WalkUnchanged DEF Tracked
  <2>3. Behind => Behind'
    BY <2>1 DEF Behind, Nth
  <2>4. Skipping => Skipping'
    BY <2>1 DEF Skipping, Nth
  <2> QED BY <2>1, <2>2, <2>3, <2>4 DEF Tracked, Tracking, Walking, Nth
<1> QED BY <1>1, <1>2, <1>3, <1>4

\* No key is used before the whole message was walked, whatever nesting it claims: the
\* entry read is the one asked for, each of the others was skipped with just what is
\* nested in it, and nothing follows the last (the two loops over
\* wolfCose_DecodeSkippedRecipient and the check for trailing bytes).
THEOREM MessageIsWalked == Spec => []WalkFollowsMessage
<1>1. Init => Inv /\ Made /\ Tracked
  <2>1. Init => Tracked
    BY DEF Init, Tracked, Tracking, Walking, WalkFollowsMessage
  <2> QED BY <2>1, InitInv, InitMade
<1>2. ASSUME Inv, Made, Tracked, [Next]_vars PROVE Tracked'
  <2>1. CASE Receive
    BY <1>2, <2>1, ReceiveTracked DEF Made
  <2>2. CASE SkipEntry \/ Return \/ Skipped \/ Read
    BY <1>2, <2>2, SkipEntryTracked, ReturnTracked, SkippedTracked, ReadTracked
  <2>3. CASE Decrypt \/ Verify
    BY <1>2, <2>3, UseTracked
  <2>4. CASE Sending \/ Arrive \/ Collect \/ UNCHANGED vars
    BY <1>2, <2>4, OthersTracked
  <2> QED BY <1>2, <2>1, <2>2, <2>3, <2>4 DEF Next, Receiving
<1>3. Inv /\ Made /\ Tracked /\ [Next]_vars => (Inv /\ Made /\ Tracked)'
  BY <1>2, InvInductive, AskedNext, WrittenNext, AnsweredNext, FreshNext DEF Made
<1>4. Tracked => WalkFollowsMessage
  BY DEF Tracked
<1> QED BY <1>1, <1>3, <1>4, PTL DEF Spec

=============================================================================
