--------------------------- MODULE Signing_proofs ---------------------------
(***************************************************************************)
(* The two places where wolfCOSE asks a one-time key for a signature: the  *)
(* calls that sign a message (LmsSigning) and those that countersign one   *)
(* (CounterAttach).                                                        *)
(*                                                                         *)
(* For any number of leaves, handles and calls: no leaf is released twice, *)
(* a key that may sign is one whose next leaf is the stored one, no call   *)
(* takes two leaves and none takes one in vain.  For any messages, keys    *)
(* and requests: a countersigner runs only for a call that succeeds, and a *)
(* call that fails leaves the message as it was.                           *)
(***************************************************************************)
EXTENDS LmsSigning, CounterAttach, Checks_proofs

-----------------------------------------------------------------------------
(* Signing with an HSS-LMS key.                                            *)

LEMMA FirstCode ==
    ASSUME NEW codes \in Seq(Codes)
    PROVE  /\ First(codes) \in Codes
           /\ First(codes) = "ok" => AllOk(codes)
BY FirstOf DEF Codes

\* Two lists of checks, one after the other.
LEMMA ConcatOk ==
    ASSUME NEW s \in Seq(Codes), NEW t \in Seq(Codes)
    PROVE  s \o t \in Seq(Codes) /\ (AllOk(s \o t) => AllOk(s) /\ AllOk(t))
<1>1. /\ s \o t \in Seq(Codes)
      /\ Len(s \o t) = Len(s) + Len(t)
      /\ Len(s) \in Nat /\ Len(t) \in Nat
  BY ConcatProperties, LenProperties
<1>2. ASSUME NEW k \in 1 .. Len(s), AllOk(s \o t) PROVE s[k] = "ok"
  <2>1. k \in 1 .. Len(s) + Len(t)
    BY <1>1
  <2>2. (s \o t)[k] = s[k]
    BY <1>1, <2>1, ConcatProperties
  <2> QED BY <1>1, <1>2, <2>1, <2>2 DEF AllOk
<1>3. ASSUME NEW k \in 1 .. Len(t), AllOk(s \o t) PROVE t[k] = "ok"
  <2>1. Len(s) + k \in 1 .. Len(s) + Len(t) /\ ~ (Len(s) + k <= Len(s))
    BY <1>1
  <2>2. (s \o t)[Len(s) + k] = t[(Len(s) + k) - Len(s)]
    BY <1>1, <2>1, ConcatProperties
  <2>3. (Len(s) + k) - Len(s) = k
    BY <1>1
  <2> QED BY <1>1, <1>3, <2>1, <2>2, <2>3 DEF AllOk
<1> QED BY <1>1, <1>2, <1>3 DEF AllOk

LEMMA FailsCode ==
    ASSUME NEW cond, NEW code \in Codes
    PROVE  /\ Fails(cond, code) \in Codes
           /\ code # "ok" /\ Fails(cond, code) = "ok" => ~ cond
BY DEF Fails, Codes

\* A list of checks, one for each signer.
LEMMA CodesOfSigners ==
    ASSUME NEW n \in Nat, NEW f, f = [k \in 1 .. n |-> f[k]],
           \A k \in 1 .. n : f[k] \in Codes
    PROVE  f \in Seq(Codes) /\ Len(f) = n
<1>1. f \in [1 .. n -> Codes]
  OBVIOUS
<1> QED BY <1>1

-----------------------------------------------------------------------------
(* The shape of a call, and the codes its checks give.                      *)

LEMMA CallShape ==
    ASSUME NEW c \in Calls
    PROVE  /\ c.api \in Apis
           /\ Len(c.signers) \in Nat \ {0}
           /\ c.api = "sign1" => Len(c.signers) = 1
           /\ \A k \in 1 .. Len(c.signers) : /\ c.signers[k].alg \in Algs
                                             /\ c.signers[k].key \in Handles \cup {Other}
                                             /\ c.signers[k].kidLen \in Nat
<1>1. c \in Call /\ c.signers # <<>> /\ (c.api = "sign1" => Len(c.signers) = 1)
  BY CallsAssumption
<1>2. c.api \in Apis /\ c.signers \in Seq(Signer)
  BY <1>1 DEF Call
<1>3. Len(c.signers) \in Nat \ {0}
  BY <1>1, <1>2, EmptySeq
<1>4. \A k \in 1 .. Len(c.signers) : c.signers[k] \in Signer
  BY <1>2, ElementOfSeq
<1> QED BY <1>1, <1>2, <1>3, <1>4 DEF Signer

LEMMA PairCode ==
    ASSUME NEW a \in Codes, NEW b \in Codes
    PROVE  /\ First(<<a, b>>) \in Codes
           /\ First(<<a, b>>) = "ok" => a = "ok" /\ b = "ok"
<1>1. "ok" \in Codes
  BY DEF Codes
<1> QED BY <1>1, PairOf

LEMMA TripleCode ==
    ASSUME NEW a \in Codes, NEW b \in Codes, NEW c \in Codes
    PROVE  /\ First(<<a, b, c>>) \in Codes
           /\ First(<<a, b, c>>) = "ok" => a = "ok" /\ b = "ok" /\ c = "ok"
<1>1. "ok" \in Codes
  BY DEF Codes
<1> QED BY <1>1, TripleOf

LEMMA SigLenCodeIn ==
    ASSUME NEW s PROVE SigLenCode(s) \in Codes
BY DEF SigLenCode, Codes

LEMMA CheckCodeIn ==
    ASSUME NEW c \in Calls PROVE CheckCode(c) \in Codes
<1> DEFINE n == Len(c.signers)
           f == [k \in 1 .. n |-> KeyCode(c.signers[k])]
           a == <<Fails(~ c.ok, "arg")>>
<1>1. \A k \in 1 .. n : f[k] \in Codes
  <2> SUFFICES ASSUME NEW k \in 1 .. n PROVE KeyCode(c.signers[k]) \in Codes
    OBVIOUS
  <2>1. /\ Fails(~ CanSign(c.signers[k]), "key") \in Codes
        /\ Fails(~ PinHolds(c.signers[k]), "alg") \in Codes
    BY FailsCode DEF Codes
  <2> QED BY <2>1, PairCode DEF KeyCode
<1>2. n \in Nat
  BY CallShape
<1>3. f \in Seq(Codes)
  <2>1. f = [k \in 1 .. n |-> f[k]]
    OBVIOUS
  <2> HIDE DEF f, n
  <2> QED BY <1>1, <1>2, <2>1, CodesOfSigners
<1>4. a \in Seq(Codes)
  <2>1. Fails(~ c.ok, "arg") \in Codes
    BY FailsCode DEF Codes
  <2> QED BY <2>1
<1>5. a \o f \in Seq(Codes)
  <2> HIDE DEF a, f
  <2> QED BY <1>3, <1>4, ConcatProperties
<1> QED BY <1>5, FirstCode DEF CheckCode

\* What the preflight of COSE_Sign establishes before any signer runs.
LEMMA SignPreflightFacts ==
    ASSUME NEW c \in Calls
    PROVE  /\ SignPreflight(c) \in Codes
           /\ SignPreflight(c) = "ok" =>
                 /\ LmsPlaced(c)
                 /\ ~ (c.outSz < SignEncodedSize(c))
                 /\ \A k \in 1 .. Len(c.signers) :
                       IsLms(c.signers[k]) /\ ~ Delegated(c.signers[k]) => LmsReady
<1> DEFINE n == Len(c.signers)
           a == <<Fails(~ LmsPlaced(c), "arg")>>
           f == [k \in 1 .. n |-> SigLenCode(c.signers[k])]
           b == <<Fails(c.outSz < SignEncodedSize(c), "small")>>
           t(s) == First(<<Fails(StructLen(c, s) > c.scratchSz, "small"),
                           Fails(IsLms(s) /\ ~ Delegated(s) /\ ~ LmsReady, "key"),
                           Fails(ScratchNeed(c, s) > c.scratchSz, "small")>>)
           g == [k \in 1 .. n |-> t(c.signers[k])]
<1>0. n \in Nat
  BY CallShape
<1>1. a \in Seq(Codes) /\ Len(a) = 1 /\ a[1] = Fails(~ LmsPlaced(c), "arg")
  <2>1. Fails(~ LmsPlaced(c), "arg") \in Codes
    BY FailsCode DEF Codes
  <2> QED BY <2>1
<1>2. b \in Seq(Codes) /\ Len(b) = 1 /\ b[1] = Fails(c.outSz < SignEncodedSize(c), "small")
  <2>1. Fails(c.outSz < SignEncodedSize(c), "small") \in Codes
    BY FailsCode DEF Codes
  <2> QED BY <2>1
<1>3. f \in Seq(Codes) /\ Len(f) = n
  <2>1. f = [k \in 1 .. n |-> f[k]] /\ \A k \in 1 .. n : f[k] \in Codes
    BY SigLenCodeIn
  <2> HIDE DEF f, n
  <2> QED BY <1>0, <2>1, CodesOfSigners
<1>4. ASSUME NEW s
      PROVE  /\ t(s) \in Codes
             /\ t(s) = "ok" => (IsLms(s) /\ ~ Delegated(s) => LmsReady)
  <2> DEFINE x == Fails(StructLen(c, s) > c.scratchSz, "small")
             y == Fails(IsLms(s) /\ ~ Delegated(s) /\ ~ LmsReady, "key")
             z == Fails(ScratchNeed(c, s) > c.scratchSz, "small")
  <2>1. x \in Codes /\ z \in Codes
    BY FailsCode DEF Codes
  <2>2. y \in Codes /\ (y = "ok" => ~ (IsLms(s) /\ ~ Delegated(s) /\ ~ LmsReady))
    BY DEF Fails, Codes
  <2>3. t(s) = First(<<x, y, z>>)
    OBVIOUS
  <2> HIDE DEF x, y, z, t
  <2>4. t(s) \in Codes /\ (t(s) = "ok" => y = "ok")
    BY <2>1, <2>2, <2>3, TripleCode
  <2> QED BY <2>2, <2>4
<1>5. g \in Seq(Codes) /\ Len(g) = n
  <2>1. g = [k \in 1 .. n |-> g[k]] /\ \A k \in 1 .. n : g[k] \in Codes
    <3> HIDE DEF t
    <3> QED BY <1>4
  <2> HIDE DEF g, n
  <2> QED BY <1>0, <2>1, CodesOfSigners
<1>6. \A k \in 1 .. n : g[k] = t(c.signers[k])
  <2> HIDE DEF t
  <2> QED OBVIOUS
<1>7. SignPreflight(c) = First(a \o f \o b \o g)
  BY DEF SignPreflight
<1> HIDE DEF a, f, b, g, t
<1>8. a \o f \in Seq(Codes) /\ (AllOk(a \o f) => AllOk(a))
  BY <1>1, <1>3, ConcatOk
<1>9. a \o f \o b \in Seq(Codes) /\ (AllOk(a \o f \o b) => AllOk(a) /\ AllOk(b))
  BY <1>2, <1>8, ConcatOk
<1>10. /\ a \o f \o b \o g \in Seq(Codes)
       /\ AllOk(a \o f \o b \o g) => AllOk(a) /\ AllOk(b) /\ AllOk(g)
  BY <1>5, <1>9, ConcatOk
<1>11. SignPreflight(c) \in Codes /\ (SignPreflight(c) = "ok" => AllOk(a) /\ AllOk(b) /\ AllOk(g))
  BY <1>7, <1>10, FirstCode
<1>12. ASSUME AllOk(a) PROVE LmsPlaced(c)
  <2>1. Fails(~ LmsPlaced(c), "arg") = "ok"
    BY <1>1, <1>12 DEF AllOk
  <2> QED BY <2>1 DEF Fails
<1>13. ASSUME AllOk(g), NEW k \in 1 .. n
       PROVE  IsLms(c.signers[k]) /\ ~ Delegated(c.signers[k]) => LmsReady
  <2>1. t(c.signers[k]) = "ok"
    BY <1>5, <1>6, <1>13 DEF AllOk
  <2> QED BY <2>1, <1>4
<1>14. ASSUME AllOk(b) PROVE ~ (c.outSz < SignEncodedSize(c))
  <2>1. Fails(c.outSz < SignEncodedSize(c), "small") = "ok"
    BY <1>2, <1>14 DEF AllOk
  <2> QED BY <2>1 DEF Fails
<1> QED BY <1>11, <1>12, <1>13, <1>14

\* Every code a call may begin with, and what an accepted call knows.
LEMMA BeginFacts ==
    ASSUME NEW c \in Calls
    PROVE  LET code == First(<<CheckCode(c), PreflightCode(c),
                               Fails(BodySize(c) > c.outSz, "small")>>)
           IN  /\ code \in Codes
               /\ code = "ok" /\ c.api = "sign" =>
                     /\ LmsPlaced(c)
                     /\ \A k \in 1 .. Len(c.signers) :
                           IsLms(c.signers[k]) /\ ~ Delegated(c.signers[k]) => LmsReady
<1> DEFINE x == CheckCode(c)
           y == PreflightCode(c)
           z == Fails(BodySize(c) > c.outSz, "small")
<1>1. x \in Codes
  BY CheckCodeIn
<1>2. z \in Codes
  BY FailsCode DEF Codes
<1>3. y \in Codes
  <2>1. Sign1Preflight(c) \in Codes
    <3> DEFINE s == c.signers[1]
               u == Fails(StructLen(c, s) > c.scratchSz, "small")
               v == First(<<SigLenCode(s), Fails(c.outSz < Sign1Size(c), "small")>>)
    <3>1. u \in Codes /\ "ok" \in Codes
      BY FailsCode DEF Codes
    <3>2. Fails(c.outSz < Sign1Size(c), "small") \in Codes
      BY FailsCode DEF Codes
    <3>3. v \in Codes
      BY <3>2, SigLenCodeIn, PairCode
    <3>4. First(<<u, IF IsLms(s) THEN v ELSE "ok">>) \in Codes
      <4> HIDE DEF u, v
      <4> QED BY <3>1, <3>3, PairCode
    <3> QED BY <3>4 DEF Sign1Preflight
  <2>2. SignPreflight(c) \in Codes
    BY SignPreflightFacts
  <2>3. "ok" \in Codes
    BY DEF Codes
  <2> QED BY <2>1, <2>2, <2>3 DEF PreflightCode
<1> HIDE DEF x, y, z
<1>4. First(<<x, y, z>>) \in Codes /\ (First(<<x, y, z>>) = "ok" => y = "ok")
  BY <1>1, <1>2, <1>3, TripleCode
<1>5. ASSUME y = "ok", c.api = "sign"
      PROVE  /\ LmsPlaced(c)
             /\ \A k \in 1 .. Len(c.signers) :
                   IsLms(c.signers[k]) /\ ~ Delegated(c.signers[k]) => LmsReady
  <2>1. CASE HasLms(c)
    <3>1. SignPreflight(c) = "ok"
      BY <1>5, <2>1 DEF PreflightCode, y
    <3> QED BY <3>1, SignPreflightFacts
  <2>2. CASE ~ HasLms(c)
    BY <2>2 DEF HasLms, LmsPlaced
  <2> QED BY <2>1, <2>2
<1> QED BY <1>4, <1>5 DEF x, y, z

\* The codes of a signer's turn, and what an accepted turn knows.
LEMMA TurnFacts ==
    ASSUME NEW c, NEW s
    PROVE  /\ TurnCode(c, s) \in Codes
           /\ TurnCode(c, s) = "ok" /\ c.api = "sign1" =>
                 (IsLms(s) /\ ~ Delegated(s) => LmsReady)
<1> DEFINE x1 == Fails(c.api = "sign" /\ s.alg = "none" /\ ~ Delegated(s), "alg")
           x2 == Fails(StructLen(c, s) > c.scratchSz, "small")
           x3 == SigLenCode(s)
           x4 == Fails(c.api = "sign1" /\ IsLms(s) /\ ~ Delegated(s) /\ ~ LmsReady, "key")
           x5 == Fails(InPlace(s) /\ StructLen(c, s) + SigLen[s.alg] > c.scratchSz, "small")
           x6 == Fails(Delegated(s) /\ SigLen[s.alg] > c.scratchSz, "small")
           all == <<x1, x2, x3, x4, x5, x6>>
<1>1. TurnCode(c, s) = First(all)
  BY DEF TurnCode
<1>2. /\ x1 \in Codes /\ x2 \in Codes /\ x3 \in Codes
      /\ x4 \in Codes /\ x5 \in Codes /\ x6 \in Codes
  BY FailsCode, SigLenCodeIn DEF Codes
<1>3. x4 = "ok" => ~ (c.api = "sign1" /\ IsLms(s) /\ ~ Delegated(s) /\ ~ LmsReady)
  BY DEF Fails
<1> HIDE DEF x1, x2, x3, x4, x5, x6
<1>4. all \in Seq(Codes) /\ Len(all) = 6 /\ all[4] = x4
  BY <1>2
<1> HIDE DEF all
<1>5. First(all) \in Codes /\ (First(all) = "ok" => all[4] = "ok")
  BY <1>4, FirstCode DEF AllOk
<1> QED BY <1>1, <1>3, <1>4, <1>5

\* Sizes are natural numbers.
LEMMA BstrNat == ASSUME NEW n \in Nat PROVE HeadSize(n) \in Nat /\ BstrSize(n) \in Nat
BY DEF HeadSize, BstrSize

LEMMA SizesNat ==
    ASSUME NEW c \in Calls
    PROVE  /\ BodySize(c) \in Nat
           /\ \A k \in 1 .. Len(c.signers) : SignatureSize(c, c.signers[k]) \in Nat
<1>1. Len(c.signers) \in Nat /\ c.payloadLen \in Nat /\ c.detached \in BOOLEAN
  BY CallShape, CallsAssumption DEF Call
<1>2. PayloadSize(c) \in Nat
  BY <1>1, BstrNat DEF PayloadSize
<1>3. BodySize(c) \in Nat
  <2>1. HeadSize(98) \in Nat /\ BstrSize(0) \in Nat /\ HeadSize(Len(c.signers)) \in Nat
    BY <1>1, BstrNat
  <2> QED BY <1>2, <2>1 DEF BodySize
<1>4. ASSUME NEW k \in 1 .. Len(c.signers)
      PROVE  SignatureSize(c, c.signers[k]) \in Nat
  <2> DEFINE s == c.signers[k]
  <2>1. s.alg \in Algs /\ s.kidLen \in Nat
    BY CallShape
  <2>2. BstrSize(ProtLen[s.alg]) \in Nat /\ BstrSize(SigLen[s.alg]) \in Nat
    BY <2>1, LengthsAssumption, BstrNat
  <2>3. KidSize(s) \in Nat
    <3>1. BstrSize(s.kidLen) \in Nat
      BY <2>1, BstrNat
    <3>2. 1 + BstrSize(s.kidLen) \in Nat
      BY <3>1
    <3> QED BY <3>2 DEF KidSize
  <2> DEFINE tag == IF c.tagged THEN HeadSize(18) ELSE 0
             prot == BstrSize(ProtLen[s.alg])
             kid == KidSize(s)
             payload == PayloadSize(c)
             sig == BstrSize(SigLen[s.alg])
  <2>4. tag \in Nat
    BY BstrNat
  <2>5. SignatureSize(c, s) = IF c.api = "sign1"
                              THEN tag + 1 + prot + 1 + kid + payload + sig
                              ELSE 1 + prot + 1 + kid + sig
    BY DEF SignatureSize
  <2>6. prot \in Nat /\ kid \in Nat /\ payload \in Nat /\ sig \in Nat
    BY <1>2, <2>2, <2>3
  <2> HIDE DEF tag, prot, kid, payload, sig
  <2>7. /\ tag + 1 + prot + 1 + kid + payload + sig \in Nat
        /\ 1 + prot + 1 + kid + sig \in Nat
    BY <2>4, <2>6
  <2> QED BY <2>5, <2>7
<1> QED BY <1>3, <1>4

-----------------------------------------------------------------------------
(* The invariant.                                                          *)

Local(k) == <<"local", k>>
Ext(k) == <<"ext", k>>

\* The leaves that the stored and the delegated index have not passed are new.
SpareLeavesUnused ==
    \A k \in 0 .. (N - 1) : /\ k >= persisted => releases[Local(k)] = 0
                            /\ k >= ext => releases[Ext(k)] = 0

\* A leaf whose signature a running call holds was taken, and is new.
HeldLeafUnused ==
    leaf \in Leaf => /\ releases[leaf] = 0
                     /\ \A k \in 0 .. (N - 1) : /\ leaf = Local(k) => k < persisted
                                                /\ leaf = Ext(k) => k < ext

\* The signer in turn is one of the call's.
InTurn == pc \in {"sign", "encode"} => i \in 1 .. Len(call.signers)

\* Signers are still to come.
MoreToCome == pc = "sign" \/ (pc = "encode" /\ i < Len(call.signers))

\* While they are, no leaf was spent, and what the preflight of COSE_Sign saw of
\* the signers and the key still holds.
PreflightHolds ==
    MoreToCome => /\ spent = 0
                  /\ call.api = "sign" =>
                        /\ LmsPlaced(call)
                        /\ \A k \in 1 .. Len(call.signers) :
                              IsLms(call.signers[k]) /\ ~ Delegated(call.signers[k])
                                  => LmsReady

\* A call that is idle holds and has spent nothing, and starts at the first signer.
IdleHoldsNothing == pc = "idle" => spent = 0 /\ leaf = NoLeaf /\ i = 1

IInv == /\ TypeOK
        /\ ReadyMeansPersisted
        /\ NoLeafReleasedTwice
        /\ OneLeafPerCall
        /\ SpareLeavesUnused
        /\ HeldLeafUnused
        /\ InTurn
        /\ PreflightHolds
        /\ IdleHoldsNothing

LEMMA InitIInv == Init => IInv
<1> SUFFICES ASSUME Init PROVE IInv
  OBVIOUS
<1> USE LeavesAssumption DEF Init
<1>1. TypeOK
  <2>1. lms \in [state : LmsStates, q : 0 .. N] /\ persisted \in 0 .. N /\ ext \in 0 .. N
    BY DEF Unloaded, LmsStates
  <2>2. cose \in [Handles -> [attached : BOOLEAN, hasPrivate : BOOLEAN, signCb : BOOLEAN]]
    BY DEF Detached
  <2>3. i \in Nat \ {0} /\ idx \in Nat /\ ret \in Codes /\ spent \in Nat
    BY DEF Codes
  <2>6. faulty \in BOOLEAN
    OBVIOUS
  <2>4. leaf \in Leaf \cup {NoLeaf} /\ releases \in [Leaf -> Nat]
    OBVIOUS
  <2>5. pc = "idle" /\ call = NoCall
    OBVIOUS
  <2> QED BY <2>1, <2>2, <2>3, <2>4, <2>5, <2>6 DEF TypeOK
<1>2. ReadyMeansPersisted
  BY DEF ReadyMeansPersisted, Unloaded
<1>3. NoLeafReleasedTwice /\ OneLeafPerCall
  BY DEF NoLeafReleasedTwice, OneLeafPerCall
<1>4. SpareLeavesUnused
  BY DEF SpareLeavesUnused, Leaf, Local, Ext
<1>5. HeldLeafUnused
  BY DEF HeldLeafUnused, NoLeaf, Leaf
<1>6. InTurn /\ PreflightHolds /\ IdleHoldsNothing
  BY DEF InTurn, PreflightHolds, MoreToCome, IdleHoldsNothing
<1> QED BY <1>1, <1>2, <1>3, <1>4, <1>5, <1>6 DEF IInv

\* A turn of an HSS-LMS key: it is the call's only one left, nothing was spent,
\* and a local key is ready.
LEMMA LmsTurn ==
    ASSUME IInv, pc = "sign", TurnCode(call, Turn) = "ok", IsLms(Turn)
    PROVE  /\ i = Len(call.signers)
           /\ spent = 0
           /\ ~ Delegated(Turn) => LmsReady
<1>1. /\ call \in Calls /\ i \in 1 .. Len(call.signers) /\ spent = 0
      /\ Turn = call.signers[i]
  BY DEF IInv, TypeOK, InTurn, PreflightHolds, MoreToCome, Turn
<1>2. call.api \in {"sign1", "sign"}
  BY <1>1, CallShape DEF Apis
<1>3. CASE call.api = "sign1"
  <2>1. Len(call.signers) = 1
    BY <1>1, <1>3, CallShape
  <2>2. i = Len(call.signers)
    BY <1>1, <2>1
  <2> QED BY <1>1, <1>3, <2>2, TurnFacts
<1>4. CASE call.api = "sign"
  <2>1. LmsPlaced(call)
    BY <1>4 DEF IInv, PreflightHolds, MoreToCome
  <2>2. i = Len(call.signers)
    BY <1>1, <2>1 DEF LmsPlaced
  <2>3. ~ Delegated(Turn) => LmsReady
    BY <1>1, <1>4 DEF IInv, PreflightHolds, MoreToCome
  <2> QED BY <1>1, <2>2, <2>3
<1> QED BY <1>2, <1>3, <1>4

\* A local turn takes the leaf after the stored one, which no one has seen.
LEMMA LocalLeafIsNew ==
    ASSUME IInv, LocalTurn
    PROVE  /\ lms.state = "OK" /\ lms.q = persisted /\ lms.q \in 0 .. (N - 1)
           /\ releases[Local(lms.q)] = 0
           /\ Local(lms.q) \in Leaf
<1>1. LmsReady
  BY LmsTurn DEF LocalTurn
<1>2. lms.state = "OK" /\ lms.q = persisted /\ lms.q < N /\ lms.q \in 0 .. N
  BY <1>1 DEF LmsReady, IInv, ReadyMeansPersisted, TypeOK
<1>3. lms.q \in 0 .. (N - 1)
  BY <1>2, LeavesAssumption
<1>4. releases[Local(lms.q)] = 0
  BY <1>2, <1>3 DEF IInv, SpareLeavesUnused
<1>5. Local(lms.q) \in Leaf
  BY <1>3 DEF Local, Leaf
<1> QED BY <1>2, <1>3, <1>4, <1>5

\* Ending a call: what is left of the invariant's parts about the call in progress.
LEMMA EndedCall ==
    ASSUME pc' = "idle", call' = NoCall, i' = 1, idx' = 0, ret' = "ok",
           leaf' = NoLeaf, spent' = 0, faulty' = FALSE
    PROVE  /\ InTurn' /\ PreflightHolds' /\ IdleHoldsNothing'
           /\ HeldLeafUnused' /\ OneLeafPerCall'
           /\ pc' \in {"idle", "sign", "encode", "return"}
           /\ IF pc' \in {"sign", "encode"} THEN call' \in Calls ELSE call' = NoCall
           /\ i' \in Nat \ {0} /\ idx' \in Nat /\ ret' \in Codes
           /\ leaf' \in Leaf \cup {NoLeaf} /\ spent' \in Nat
           /\ faulty' \in BOOLEAN
<1>1. faulty' \in BOOLEAN
  OBVIOUS
<1>2. HeldLeafUnused'
  BY DEF HeldLeafUnused, NoLeaf, Leaf
<1>3. InTurn' /\ PreflightHolds' /\ IdleHoldsNothing' /\ OneLeafPerCall'
  BY DEF InTurn, PreflightHolds, MoreToCome, IdleHoldsNothing, OneLeafPerCall
<1> QED BY <1>1, <1>2, <1>3 DEF Codes

LEMMA FinishedCall ==
    ASSUME IInv, NEW code \in Codes, Finish(code), leaf' = leaf, spent' = spent
    PROVE  /\ InTurn' /\ PreflightHolds' /\ IdleHoldsNothing' /\ OneLeafPerCall'
           /\ pc' \in {"idle", "sign", "encode", "return"}
           /\ IF pc' \in {"sign", "encode"} THEN call' \in Calls ELSE call' = NoCall
           /\ i' \in Nat \ {0} /\ idx' \in Nat /\ ret' \in Codes
           /\ leaf' \in Leaf \cup {NoLeaf} /\ spent' \in Nat
BY DEF IInv, TypeOK, Finish, InTurn, PreflightHolds, MoreToCome, IdleHoldsNothing,
       OneLeafPerCall

LEMMA NextIInv == IInv /\ [Next]_vars => IInv'
<1> SUFFICES ASSUME IInv, [Next]_vars PROVE IInv'
  OBVIOUS
<1> USE DEF IInv
<1>0. /\ persisted \in 0 .. N /\ ext \in 0 .. N /\ lms.q \in 0 .. N /\ N \in Nat \ {0}
      /\ lms \in [state : LmsStates, q : 0 .. N] /\ releases \in [Leaf -> Nat]
      /\ spent \in Nat /\ i \in Nat \ {0} /\ idx \in Nat
  BY LeavesAssumption DEF TypeOK
<1>1. ASSUME NEW c \in Calls, Begin(c) PROVE IInv'
  <2> DEFINE code == First(<<CheckCode(c), PreflightCode(c),
                             Fails(BodySize(c) > c.outSz, "small")>>)
  <2>1. /\ code \in Codes
        /\ code = "ok" /\ c.api = "sign" =>
              /\ LmsPlaced(c)
              /\ \A k \in 1 .. Len(c.signers) :
                    IsLms(c.signers[k]) /\ ~ Delegated(c.signers[k]) => LmsReady
    BY BeginFacts
  <2>2. /\ IF code = "ok"
           THEN pc' = "sign" /\ call' = c /\ idx' = BodySize(c) /\ UNCHANGED <<i, ret>>
           ELSE Finish(code)
        /\ UNCHANGED <<keyVars, leaf, spent, faulty, releases>>
        /\ pc = "idle"
    BY <1>1 DEF Begin
  <2> HIDE DEF code
  <2>3. /\ ReadyMeansPersisted' /\ NoLeafReleasedTwice' /\ SpareLeavesUnused'
        /\ HeldLeafUnused' /\ OneLeafPerCall'
    BY <2>2 DEF keyVars, ReadyMeansPersisted, NoLeafReleasedTwice, SpareLeavesUnused,
                HeldLeafUnused, OneLeafPerCall
  <2>4. CASE code = "ok"
    <3>1. pc' = "sign" /\ call' = c /\ idx' = BodySize(c) /\ i' = i /\ ret' = ret
      BY <2>2, <2>4
    <3>2. i = 1
      BY <2>2 DEF IdleHoldsNothing
    <3>3. TypeOK'
      BY <2>2, <3>1, SizesNat DEF TypeOK, keyVars
    <3>4. InTurn'
      BY <3>1, <3>2, CallShape DEF InTurn
    <3>5. PreflightHolds'
      BY <2>1, <2>2, <2>4, <3>1
         DEF PreflightHolds, IdleHoldsNothing, keyVars, Delegated, LmsReady
    <3> QED BY <2>3, <3>1, <3>3, <3>4, <3>5 DEF IdleHoldsNothing
  <2>5. CASE code # "ok"
    <3>1. Finish(code) /\ leaf' = leaf /\ spent' = spent
      BY <2>2, <2>5
    <3>2. TypeOK'
      BY <2>1, <2>2, <3>1, FinishedCall DEF TypeOK, keyVars
    <3> QED BY <2>1, <2>3, <3>1, <3>2, FinishedCall
  <2> QED BY <2>4, <2>5
<1>2. CASE TurnRefused
  <2>1. /\ Finish(TurnCode(call, Turn)) /\ TurnCode(call, Turn) \in Codes
        /\ UNCHANGED <<keyVars, leaf, spent, faulty, releases>>
    BY <1>2, TurnFacts DEF TurnRefused
  <2>2. /\ ReadyMeansPersisted' /\ NoLeafReleasedTwice' /\ SpareLeavesUnused'
        /\ HeldLeafUnused'
    BY <2>1 DEF keyVars, ReadyMeansPersisted, NoLeafReleasedTwice, SpareLeavesUnused,
                HeldLeafUnused
  <2>3. TypeOK'
    BY <2>1, FinishedCall DEF TypeOK, keyVars
  <2> QED BY <2>1, <2>2, <2>3, FinishedCall
<1>3. CASE SignOther
  <2>1. UNCHANGED <<keyVars, leaf, spent, faulty, releases>> /\ pc = "sign" /\ ~ IsLms(Turn)
    BY <1>3 DEF SignOther
  <2>2. /\ ReadyMeansPersisted' /\ NoLeafReleasedTwice' /\ SpareLeavesUnused'
        /\ HeldLeafUnused' /\ OneLeafPerCall'
    BY <2>1 DEF keyVars, ReadyMeansPersisted, NoLeafReleasedTwice, SpareLeavesUnused,
                HeldLeafUnused, OneLeafPerCall
  <2>3. CASE pc' = "encode" /\ UNCHANGED <<call, i, idx, ret>>
    <3>1. TypeOK'
      BY <2>1, <2>3 DEF TypeOK, keyVars
    <3>2. InTurn' /\ PreflightHolds' /\ IdleHoldsNothing'
      BY <2>1, <2>3 DEF InTurn, PreflightHolds, MoreToCome, IdleHoldsNothing, keyVars,
                        Delegated, LmsReady
    <3> QED BY <2>2, <3>1, <3>2
  <2>4. CASE Finish("crypto")
    <3>1. "crypto" \in Codes
      BY DEF Codes
    <3>2. TypeOK'
      BY <2>1, <2>4, <3>1, FinishedCall DEF TypeOK, keyVars
    <3> QED BY <2>1, <2>2, <2>4, <3>1, <3>2, FinishedCall
  <2> QED BY <1>3, <2>3, <2>4 DEF SignOther
<1>4. CASE SignLocal
  <2>1. /\ lms.state = "OK" /\ lms.q = persisted /\ lms.q \in 0 .. (N - 1)
        /\ releases[Local(lms.q)] = 0 /\ Local(lms.q) \in Leaf
    BY <1>4, LocalLeafIsNew DEF SignLocal
  <2>2. i = Len(call.signers) /\ spent = 0 /\ pc = "sign"
    BY <1>4, LmsTurn DEF SignLocal, LocalTurn
  <2>3. /\ lms' = [lms EXCEPT !.q = @ + 1] /\ persisted' = lms.q + 1
        /\ leaf' = Local(lms.q) /\ spent' = spent + 1 /\ pc' = "encode"
        /\ UNCHANGED <<ext, cose, call, i, idx, ret, faulty, releases>>
    BY <1>4 DEF SignLocal, Local
  <2>4. lms' \in [state : LmsStates, q : 0 .. N] /\ persisted' \in 0 .. N
    BY <1>0, <2>1, <2>3
  <2>5. TypeOK'
    BY <1>0, <2>1, <2>2, <2>3, <2>4 DEF TypeOK
  <2>6. ReadyMeansPersisted'
    BY <1>0, <2>3 DEF ReadyMeansPersisted
  <2>7. NoLeafReleasedTwice' /\ OneLeafPerCall'
    BY <2>2, <2>3 DEF NoLeafReleasedTwice, OneLeafPerCall
  <2>8. SpareLeavesUnused'
    BY <1>0, <2>1, <2>3 DEF SpareLeavesUnused
  <2>9. HeldLeafUnused'
    BY <1>0, <2>1, <2>3 DEF HeldLeafUnused, Local, Ext
  <2>10. InTurn' /\ PreflightHolds' /\ IdleHoldsNothing'
    BY <2>2, <2>3 DEF InTurn, PreflightHolds, MoreToCome, IdleHoldsNothing
  <2> QED BY <2>5, <2>6, <2>7, <2>8, <2>9, <2>10
<1>5. CASE SignLocalFails
  <2>1. lms.state = "OK" /\ lms.q = persisted
    BY <1>5, LocalLeafIsNew DEF SignLocalFails
  <2>2. spent = 0
    BY <1>5, LmsTurn DEF SignLocalFails, LocalTurn
  <2>3. PICK q \in {lms.q, lms.q + 1}, st \in {"OK", "BAD", "NOSIGS"} :
            /\ q <= N
            /\ lms' = [state |-> Quarantine(st), q |-> q]
            /\ persisted' \in {persisted, q}
            /\ spent' = spent + (q - lms.q)
    BY <1>5 DEF SignLocalFails
  <2>4. /\ faulty' = TRUE /\ Finish("crypto") /\ "crypto" \in Codes
        /\ UNCHANGED <<ext, cose, leaf, releases>>
    BY <1>5 DEF SignLocalFails, Codes
  <2>5. q \in 0 .. N /\ Quarantine(st) \in {"BAD", "NOSIGS"}
    BY <1>0, <2>3 DEF Quarantine
  <2>6. /\ lms' \in [state : LmsStates, q : 0 .. N] /\ lms'.state # "OK"
        /\ persisted' \in 0 .. N /\ persisted' >= persisted
        /\ spent' \in {0, 1}
    BY <1>0, <2>1, <2>2, <2>3, <2>5 DEF LmsStates
  <2>7. /\ pc' = "return" /\ call' = NoCall /\ i' = 1 /\ idx' = 0 /\ ret' = "crypto"
    BY <2>4 DEF Finish
  <2>8. faulty' \in BOOLEAN
    BY <2>4
  <2>9. TypeOK'
    BY <2>4, <2>6, <2>7, <2>8 DEF TypeOK
  <2>10. ReadyMeansPersisted' /\ NoLeafReleasedTwice' /\ OneLeafPerCall'
    BY <2>4, <2>6 DEF ReadyMeansPersisted, NoLeafReleasedTwice, OneLeafPerCall
  <2>11. SpareLeavesUnused' /\ HeldLeafUnused'
    BY <1>0, <2>4, <2>6 DEF SpareLeavesUnused, HeldLeafUnused
  <2>12. InTurn' /\ PreflightHolds' /\ IdleHoldsNothing'
    BY <2>7 DEF InTurn, PreflightHolds, MoreToCome, IdleHoldsNothing
  <2> QED BY <2>9, <2>10, <2>11, <2>12
<1>6. CASE SignDelegated
  <2>1. i = Len(call.signers) /\ spent = 0 /\ pc = "sign" /\ ext < N
    BY <1>6, LmsTurn DEF SignDelegated, DelegatedTurn
  <2>2. /\ ext' = ext + 1 /\ leaf' = Ext(ext) /\ spent' = spent + 1 /\ pc' = "encode"
        /\ UNCHANGED <<lms, persisted, cose, call, i, idx, ret, faulty, releases>>
    BY <1>6 DEF SignDelegated, Ext
  <2>3. ext \in 0 .. (N - 1) /\ Ext(ext) \in Leaf
    BY <1>0, <2>1 DEF Ext, Leaf
  <2>4. TypeOK'
    BY <1>0, <2>1, <2>2, <2>3 DEF TypeOK
  <2>5. ReadyMeansPersisted' /\ NoLeafReleasedTwice' /\ OneLeafPerCall'
    BY <2>1, <2>2 DEF ReadyMeansPersisted, NoLeafReleasedTwice, OneLeafPerCall
  <2>6. releases[Ext(ext)] = 0
    BY <1>0, <2>3 DEF SpareLeavesUnused
  <2>7. SpareLeavesUnused'
    BY <1>0, <2>2 DEF SpareLeavesUnused
  <2>8. HeldLeafUnused'
    BY <1>0, <2>2, <2>3, <2>6 DEF HeldLeafUnused, Local, Ext
  <2>9. InTurn' /\ PreflightHolds' /\ IdleHoldsNothing'
    BY <2>1, <2>2 DEF InTurn, PreflightHolds, MoreToCome, IdleHoldsNothing
  <2> QED BY <2>4, <2>5, <2>7, <2>8, <2>9
<1>7. CASE SignDelegatedFails
  <2>1. spent = 0
    BY <1>7, LmsTurn DEF SignDelegatedFails
  <2>2. PICK n \in {0, 1} : ext + n <= N /\ ext' = ext + n /\ spent' = spent + n
    BY <1>7 DEF SignDelegatedFails
  <2>3. /\ faulty' = TRUE /\ Finish("crypto")
        /\ UNCHANGED <<lms, persisted, cose, leaf, releases>>
    BY <1>7 DEF SignDelegatedFails
  <2>4. ext' \in 0 .. N /\ ext' >= ext /\ spent' \in {0, 1}
    BY <1>0, <2>1, <2>2
  <2>5. pc' = "return" /\ call' = NoCall /\ i' = 1 /\ idx' = 0 /\ ret' = "crypto"
    BY <2>3 DEF Finish
  <2>6. faulty' \in BOOLEAN
    BY <2>3
  <2>7. TypeOK'
    BY <2>3, <2>4, <2>5, <2>6 DEF TypeOK, Codes
  <2>8. ReadyMeansPersisted' /\ NoLeafReleasedTwice' /\ OneLeafPerCall'
    BY <2>3, <2>4 DEF ReadyMeansPersisted, NoLeafReleasedTwice, OneLeafPerCall
  <2>9. SpareLeavesUnused' /\ HeldLeafUnused'
    BY <1>0, <2>3, <2>4 DEF SpareLeavesUnused, HeldLeafUnused
  <2>10. InTurn' /\ PreflightHolds' /\ IdleHoldsNothing'
    BY <2>5 DEF InTurn, PreflightHolds, MoreToCome, IdleHoldsNothing
  <2> QED BY <2>7, <2>8, <2>9, <2>10
<1>8. CASE Encode
  <2> DEFINE end == idx + SignatureSize(call, Turn)
  <2>1. /\ pc = "encode" /\ UNCHANGED <<keyVars, leaf, spent, faulty, releases>>
        /\ \/ Finish("small")
           \/ Finish("ok")
           \/ /\ i # Len(call.signers)
              /\ pc' = "sign" /\ i' = i + 1 /\ idx' = end /\ UNCHANGED <<call, ret>>
    BY <1>8 DEF Encode
  <2>2. call \in Calls /\ i \in 1 .. Len(call.signers) /\ Len(call.signers) \in Nat
    BY <2>1, CallShape DEF TypeOK, InTurn
  <2>3. end \in Nat
    <3>1. SignatureSize(call, Turn) \in Nat
      BY <2>2, SizesNat DEF Turn
    <3> QED BY <1>0, <3>1
  <2> HIDE DEF end
  <2>4. /\ ReadyMeansPersisted' /\ NoLeafReleasedTwice' /\ SpareLeavesUnused'
        /\ HeldLeafUnused' /\ OneLeafPerCall'
    BY <2>1 DEF keyVars, ReadyMeansPersisted, NoLeafReleasedTwice, SpareLeavesUnused,
                HeldLeafUnused, OneLeafPerCall
  <2>5. ASSUME NEW code \in {"small", "ok"}, Finish(code) PROVE IInv'
    <3>1. code \in Codes
      BY DEF Codes
    <3>2. TypeOK'
      BY <2>1, <2>5, <3>1, FinishedCall DEF TypeOK, keyVars
    <3> QED BY <2>1, <2>4, <2>5, <3>1, <3>2, FinishedCall
  <2>6. CASE /\ i # Len(call.signers)
             /\ pc' = "sign" /\ i' = i + 1 /\ idx' = end /\ UNCHANGED <<call, ret>>
    <3>1. i + 1 \in 1 .. Len(call.signers) /\ i < Len(call.signers)
      BY <2>2, <2>6
    <3>2. TypeOK'
      BY <1>0, <2>1, <2>3, <2>6 DEF TypeOK, keyVars
    <3>3. InTurn' /\ IdleHoldsNothing'
      BY <2>6, <3>1 DEF InTurn, IdleHoldsNothing
    <3>4. PreflightHolds'
      BY <2>1, <2>6, <3>1 DEF PreflightHolds, MoreToCome, keyVars, Delegated, LmsReady
    <3> QED BY <2>4, <3>2, <3>3, <3>4
  <2> QED BY <2>1, <2>5, <2>6
<1>9. CASE Return
  <2>1. /\ EndCall /\ UNCHANGED keyVars
        /\ releases' = IF ret = "ok" /\ leaf \in Leaf
                       THEN [releases EXCEPT ![leaf] = @ + 1] ELSE releases
    BY <1>9 DEF Return
  <2>2. /\ pc' = "idle" /\ call' = NoCall /\ i' = 1 /\ idx' = 0 /\ ret' = "ok"
        /\ leaf' = NoLeaf /\ spent' = 0 /\ faulty' = FALSE
    BY <2>1 DEF EndCall
  <2>3. releases' \in [Leaf -> Nat] /\ NoLeafReleasedTwice'
    BY <1>0, <2>1 DEF NoLeafReleasedTwice, HeldLeafUnused
  <2>4. SpareLeavesUnused'
    <3> SUFFICES ASSUME NEW k \in 0 .. (N - 1)
                 PROVE  /\ k >= persisted => releases'[Local(k)] = 0
                        /\ k >= ext => releases'[Ext(k)] = 0
      BY <2>1 DEF SpareLeavesUnused, keyVars
    <3>1. Local(k) \in Leaf /\ Ext(k) \in Leaf
      BY DEF Local, Ext, Leaf
    <3>2. /\ k >= persisted => releases[Local(k)] = 0 /\ (leaf \in Leaf => leaf # Local(k))
          /\ k >= ext => releases[Ext(k)] = 0 /\ (leaf \in Leaf => leaf # Ext(k))
      BY <1>0 DEF SpareLeavesUnused, HeldLeafUnused
    <3> QED BY <1>0, <2>1, <3>1, <3>2
  <2>5. ReadyMeansPersisted'
    BY <2>1 DEF ReadyMeansPersisted, keyVars
  <2>6. TypeOK'
    BY <2>1, <2>2, <2>3, EndedCall DEF TypeOK, keyVars
  <2> QED BY <2>2, <2>3, <2>4, <2>5, <2>6, EndedCall
<1>10. ASSUME pc = "idle", UNCHANGED <<persisted, ext, pc, call, i, idx, ret, leaf,
                                       spent, faulty, releases>>
       PROVE  /\ NoLeafReleasedTwice' /\ OneLeafPerCall' /\ SpareLeavesUnused'
              /\ HeldLeafUnused' /\ InTurn' /\ PreflightHolds' /\ IdleHoldsNothing'
  BY <1>10 DEF NoLeafReleasedTwice, OneLeafPerCall, SpareLeavesUnused, HeldLeafUnused,
               InTurn, PreflightHolds, MoreToCome, IdleHoldsNothing
<1>11. ASSUME NEW h \in Handles, Attach(h) \/ SetExtSigner(h) PROVE IInv'
  <2>1. /\ pc = "idle"
        /\ UNCHANGED <<lms, persisted, ext, pc, call, i, idx, ret, leaf, spent, faulty,
                       releases>>
    BY <1>11 DEF Attach, SetExtSigner
  <2>2. ReadyMeansPersisted'
    BY <2>1 DEF ReadyMeansPersisted
  <2>3. cose' \in [Handles -> [attached : BOOLEAN, hasPrivate : BOOLEAN, signCb : BOOLEAN]]
    <3>1. cose \in [Handles -> [attached : BOOLEAN, hasPrivate : BOOLEAN, signCb : BOOLEAN]]
      BY DEF TypeOK
    <3>2. CASE Attach(h)
      <4>1. [attached |-> TRUE, hasPrivate |-> lms.state = "OK", signCb |-> FALSE]
                \in [attached : BOOLEAN, hasPrivate : BOOLEAN, signCb : BOOLEAN]
        OBVIOUS
      <4> QED BY <3>1, <3>2, <4>1 DEF Attach
    <3>3. CASE SetExtSigner(h)
      <4>1. PICK cb \in BOOLEAN : cose' = [cose EXCEPT ![h].signCb = cb]
        BY <3>3 DEF SetExtSigner
      <4> QED BY <3>1, <4>1
    <3> QED BY <1>11, <3>2, <3>3
  <2>4. TypeOK'
    BY <2>1, <2>3 DEF TypeOK
  <2> QED BY <1>10, <2>1, <2>2, <2>4
<1>12. CASE Reload
  <2>1. /\ pc = "idle"
        /\ lms' = [state |-> IF persisted < N THEN "OK" ELSE "NOSIGS", q |-> persisted]
        /\ UNCHANGED <<persisted, ext, cose, pc, call, i, idx, ret, leaf, spent, faulty,
                       releases>>
    BY <1>12 DEF Reload
  <2>2. ReadyMeansPersisted' /\ TypeOK'
    BY <1>0, <2>1 DEF ReadyMeansPersisted, TypeOK, LmsStates
  <2> QED BY <1>10, <2>1, <2>2
<1>13. CASE Crash
  <2>1. /\ lms' = Unloaded /\ cose' = [h \in Handles |-> Detached]
        /\ EndCall /\ UNCHANGED <<persisted, ext, releases>>
    BY <1>13 DEF Crash
  <2>2. /\ pc' = "idle" /\ call' = NoCall /\ i' = 1 /\ idx' = 0 /\ ret' = "ok"
        /\ leaf' = NoLeaf /\ spent' = 0 /\ faulty' = FALSE
    BY <2>1 DEF EndCall
  <2>3. ReadyMeansPersisted' /\ NoLeafReleasedTwice' /\ SpareLeavesUnused'
    BY <2>1 DEF ReadyMeansPersisted, NoLeafReleasedTwice, SpareLeavesUnused, Unloaded
  <2>4. /\ lms' \in [state : LmsStates, q : 0 .. N]
        /\ cose' \in [Handles -> [attached : BOOLEAN, hasPrivate : BOOLEAN,
                                  signCb : BOOLEAN]]
    <3>1. lms' \in [state : LmsStates, q : 0 .. N]
      BY <1>0, <2>1 DEF Unloaded, LmsStates
    <3>2. Detached \in [attached : BOOLEAN, hasPrivate : BOOLEAN, signCb : BOOLEAN]
      BY DEF Detached
    <3> QED BY <2>1, <3>1, <3>2
  <2>5. TypeOK'
    BY <2>1, <2>2, <2>4, EndedCall DEF TypeOK
  <2> QED BY <2>2, <2>3, <2>5, EndedCall
<1>14. CASE UNCHANGED vars
  <2>1. TypeOK' /\ ReadyMeansPersisted' /\ NoLeafReleasedTwice' /\ OneLeafPerCall'
    BY <1>14 DEF vars, TypeOK, ReadyMeansPersisted, NoLeafReleasedTwice, OneLeafPerCall
  <2>2. SpareLeavesUnused' /\ HeldLeafUnused' /\ InTurn' /\ IdleHoldsNothing'
    BY <1>14 DEF vars, SpareLeavesUnused, HeldLeafUnused, InTurn, IdleHoldsNothing
  <2>3. PreflightHolds'
    BY <1>14 DEF vars, PreflightHolds, MoreToCome, Delegated, LmsReady
  <2> QED BY <2>1, <2>2, <2>3
<1> QED BY <1>1, <1>2, <1>3, <1>4, <1>5, <1>6, <1>7, <1>8, <1>9, <1>11, <1>12, <1>13,
           <1>14 DEF Next

-----------------------------------------------------------------------------

\* The state of the key, of the handles and of a call in progress is well formed.
THEOREM LmsTypeCorrect == Spec => []TypeOK
<1>1. IInv => TypeOK
  BY DEF IInv
<1> QED BY <1>1, InitIInv, NextIInv, PTL DEF Spec

\* Whatever the calls, failures of the write callback, reloads and power losses,
\* no leaf's signature leaves wolfCOSE twice.
THEOREM OneTimeUse == Spec => []NoLeafReleasedTwice
<1>1. IInv => NoLeafReleasedTwice
  BY DEF IInv
<1> QED BY <1>1, InitIInv, NextIInv, PTL DEF Spec

\* A key wolfCOSE lets sign is never ahead of what was stored.
THEOREM ReadyKeyIsStored == Spec => []ReadyMeansPersisted
<1>1. IInv => ReadyMeansPersisted
  BY DEF IInv
<1> QED BY <1>1, InitIInv, NextIInv, PTL DEF Spec

\* wc_CoseSign_Sign takes at most one leaf, however many signers it is given.
THEOREM OneLeafEachCall == Spec => []OneLeafPerCall
<1>1. IInv => OneLeafPerCall
  BY DEF IInv
<1> QED BY <1>1, InitIInv, NextIInv, PTL DEF Spec

\* A key out of use comes back only with Reload, or goes with the power.
THEOREM QuarantineHolds == Spec => OutOfUseUntilReload
<1>1. IInv /\ [Next]_vars
        => [lms.state \in {"BAD", "NOSIGS"} /\ lms' # lms => Reload \/ Crash]_vars
  <2> SUFFICES ASSUME IInv, Next, lms.state \in {"BAD", "NOSIGS"}, lms' # lms
               PROVE  Reload \/ Crash
    OBVIOUS
  <2>1. ~ LocalTurn
    BY LocalLeafIsNew
  <2> QED BY <2>1 DEF Next, Begin, TurnRefused, SignOther, SignLocal, SignLocalFails,
             SignDelegated, SignDelegatedFails, Encode, Return, Attach, SetExtSigner,
             keyVars
<1> QED BY <1>1, InitIInv, NextIInv, PTL DEF Spec, OutOfUseUntilReload

-----------------------------------------------------------------------------
(* A leaf is spent for nothing only if the one-time signer fails: what the  *)
(* preflight added up is what the encoders put out.                         *)

\* What wolfCose_SignEncodedSize adds up, one signer at a time.
LEMMA EncodedUpToIs ==
    ASSUME NEW c, Len(c.signers) \in Nat
    PROVE  EncodedUpTo(c) = [k \in 0 .. Len(c.signers) |->
             IF k = 0
             THEN 5 + PayloadSize(c) + (BstrSize(Len(c.signers)) - Len(c.signers))
             ELSE EncodedUpTo(c)[k - 1] + SignerSize(c, c.signers[k])]
<1> DEFINE n == Len(c.signers)
           a == 5 + PayloadSize(c) + (BstrSize(n) - n)
           g == [k \in 1 .. n |-> SignerSize(c, c.signers[k])]
           U(f) == f = [k \in 0 .. n |-> IF k = 0 THEN a ELSE f[k - 1] + SignerSize(c, c.signers[k])]
<1>0. n \in Nat
  OBVIOUS
<1>1. EncodedUpTo(c) = CHOOSE f : U(f)
  BY DEF EncodedUpTo
<1>2. \E f : U(f)
  <2>1. PICK f : PartialSums(n, a, g, f)
    <3> HIDE DEF a, g, n
    <3> QED BY <1>0, SumsExist
  <2>2. \A k \in 0 .. n : k # 0 => g[k] = SignerSize(c, c.signers[k])
    OBVIOUS
  <2>3. U(f)
    <3> HIDE DEF a, g
    <3> QED BY <2>1, <2>2 DEF PartialSums
  <2> QED BY <2>3
<1>3. U(EncodedUpTo(c))
  <2> HIDE DEF U
  <2> QED BY <1>1, <1>2
<1> QED BY <1>3

LEMMA SizesOf ==
    ASSUME NEW c \in Calls
    PROVE  /\ c.outSz \in Nat
           /\ PayloadSize(c) \in Nat
           /\ \A k \in 1 .. Len(c.signers) : SignerSize(c, c.signers[k]) \in Nat
<1>1. c.outSz \in Nat /\ c.payloadLen \in Nat
  BY CallsAssumption DEF Call
<1>2. PayloadSize(c) \in Nat
  BY <1>1, BstrNat DEF PayloadSize
<1>3. ASSUME NEW k \in 1 .. Len(c.signers)
      PROVE  SignerSize(c, c.signers[k]) \in Nat
  <2> DEFINE s == c.signers[k]
  <2>1. s.alg \in Algs /\ s.kidLen \in Nat
    BY CallShape
  <2>2. BstrSize(ProtLen[s.alg]) \in Nat /\ BstrSize(SigLen[s.alg]) \in Nat
    BY <2>1, LengthsAssumption, BstrNat
  <2>3. KidSize(s) \in Nat
    <3>1. BstrSize(s.kidLen) \in Nat
      BY <2>1, BstrNat
    <3>2. 1 + BstrSize(s.kidLen) \in Nat
      BY <3>1
    <3> QED BY <3>2 DEF KidSize
  <2> QED BY <2>2, <2>3 DEF SignerSize
<1> QED BY <1>1, <1>2, <1>3

\* The body comes first, and every signature adds what it takes.
LEMMA EncodedStepByStep ==
    ASSUME NEW c \in Calls
    PROVE  /\ c.api = "sign" => EncodedUpTo(c)[0] = BodySize(c)
           /\ \A k \in 1 .. Len(c.signers) :
                  EncodedUpTo(c)[k] = EncodedUpTo(c)[k - 1] + SignerSize(c, c.signers[k])
<1> DEFINE n == Len(c.signers)
<1>1. n \in Nat
  BY CallShape
<1>2. \A k \in 1 .. n : /\ k \in 0 .. n /\ k # 0
                        /\ EncodedUpTo(c)[k] = EncodedUpTo(c)[k - 1] + SignerSize(c, c.signers[k])
  BY <1>1, EncodedUpToIs
<1>3. EncodedUpTo(c)[0] = 5 + PayloadSize(c) + (BstrSize(n) - n)
  <2>1. 0 \in 0 .. n
    BY <1>1
  <2> QED BY <1>1, <2>1, EncodedUpToIs
<1>4. ASSUME c.api = "sign" PROVE EncodedUpTo(c)[0] = BodySize(c)
  <2>1. HeadSize(98) = 2 /\ BstrSize(0) = 1
    BY DEF HeadSize, BstrSize
  <2>2. BodySize(c) = 2 + 1 + 1 + 1 + PayloadSize(c) + HeadSize(n)
    BY <1>4, <2>1 DEF BodySize
  <2>3. HeadSize(n) \in Nat /\ BstrSize(n) = HeadSize(n) + n /\ PayloadSize(c) \in Nat
    BY <1>1, BstrNat, SizesOf DEF BstrSize
  <2> QED BY <1>1, <1>3, <2>2, <2>3
<1> QED BY <1>2, <1>4

\* The room that the preflight found: the whole message, of which the encoders
\* have put out the part before the signer in turn.
RoomFor(c, k, at) ==
    /\ c.api = "sign1" => at = 0 /\ ~ (c.outSz < Sign1Size(c))
    /\ c.api = "sign" => /\ at = EncodedUpTo(c)[k - 1]
                         /\ ~ (c.outSz < SignEncodedSize(c))

\* While a call with an HSS-LMS signer runs there is room for all of it, a leaf is
\* only spent by such a signer, and afterwards only if the signer itself failed.
Room == /\ pc \in {"sign", "encode"} /\ HasLms(call) => RoomFor(call, i, idx)
        /\ pc = "encode" /\ spent > 0 => IsLms(Turn)
        /\ NoLeafSpentForNothing

\* A call that begins has the room it will need.
LEMMA BeginsWithRoom ==
    ASSUME NEW c \in Calls, HasLms(c), PreflightCode(c) = "ok"
    PROVE  RoomFor(c, 1, BodySize(c))
<1>1. c.api \in {"sign1", "sign"}
  BY CallShape DEF Apis
<1>2. CASE c.api = "sign1"
  <2> DEFINE s == c.signers[1]
             u == Fails(StructLen(c, s) > c.scratchSz, "small")
             v == First(<<SigLenCode(s), Fails(c.outSz < Sign1Size(c), "small")>>)
             w == IF IsLms(s) THEN v ELSE "ok"
  <2>1. IsLms(s)
    BY <1>2, CallShape DEF HasLms
  <2>2. First(<<u, w>>) = "ok"
    BY <1>2 DEF PreflightCode, Sign1Preflight
  <2>3. w = "ok"
    <3> HIDE DEF u, w
    <3> QED BY <2>2, PairOf
  <2>4. v = "ok"
    BY <2>1, <2>3
  <2>5. Fails(c.outSz < Sign1Size(c), "small") = "ok"
    <3> DEFINE x == SigLenCode(s)
               y == Fails(c.outSz < Sign1Size(c), "small")
    <3>1. First(<<x, y>>) = "ok"
      BY <2>4
    <3> HIDE DEF x, y
    <3>2. y = "ok"
      BY <3>1, PairOf
    <3> QED BY <3>2 DEF y
  <2>6. ~ (c.outSz < Sign1Size(c))
    BY <2>5 DEF Fails
  <2>7. BodySize(c) = 0
    BY <1>2 DEF BodySize
  <2> QED BY <1>2, <2>6, <2>7 DEF RoomFor
<1>3. CASE c.api = "sign"
  <2>1. SignPreflight(c) = "ok"
    BY <1>3 DEF PreflightCode
  <2>2. ~ (c.outSz < SignEncodedSize(c))
    BY <2>1, SignPreflightFacts
  <2>3. BodySize(c) = EncodedUpTo(c)[1 - 1]
    BY <1>3, EncodedStepByStep
  <2> QED BY <1>3, <2>2, <2>3 DEF RoomFor
<1> QED BY <1>1, <1>2, <1>3

\* One signature further there still is room.
LEMMA NextHasRoom ==
    ASSUME NEW c \in Calls, NEW k \in 1 .. Len(c.signers), k # Len(c.signers),
           NEW at \in Nat, RoomFor(c, k, at)
    PROVE  RoomFor(c, k + 1, at + SignatureSize(c, c.signers[k]))
<1>1. c.api \in {"sign1", "sign"} /\ Len(c.signers) \in Nat
      /\ (c.api = "sign1" => Len(c.signers) = 1)
  BY CallShape DEF Apis
<1>2. c.api = "sign"
  <2>1. \A m \in Nat : k \in 1 .. m /\ k # m => m # 1
    OBVIOUS
  <2> QED BY <1>1, <2>1
<1>3. at = EncodedUpTo(c)[k - 1] /\ ~ (c.outSz < SignEncodedSize(c))
  BY <1>2 DEF RoomFor
<1>4. SignatureSize(c, c.signers[k]) = SignerSize(c, c.signers[k])
  BY <1>2 DEF SignatureSize, SignerSize
<1>5. EncodedUpTo(c)[k] = EncodedUpTo(c)[k - 1] + SignerSize(c, c.signers[k])
  BY EncodedStepByStep
<1>6. (k + 1) - 1 = k
  BY <1>1
<1> QED BY <1>2, <1>3, <1>4, <1>5, <1>6 DEF RoomFor

\* The last signature fits.
LEMMA LastFits ==
    ASSUME NEW c \in Calls, NEW at \in Nat, RoomFor(c, Len(c.signers), at)
    PROVE  ~ (at + SignatureSize(c, c.signers[Len(c.signers)]) > c.outSz)
<1> DEFINE n == Len(c.signers)
           s == c.signers[n]
<1>1. c.api \in {"sign1", "sign"} /\ n \in 1 .. n
      /\ (c.api = "sign1" => n = 1)
  BY CallShape DEF Apis
<1>2. c.outSz \in Nat /\ SignatureSize(c, s) \in Nat /\ SignerSize(c, s) \in Nat
  BY <1>1, SizesOf, SizesNat
<1>3. CASE c.api = "sign1"
  <2>1. at = 0 /\ ~ (c.outSz < Sign1Size(c)) /\ n = 1
    BY <1>1, <1>3 DEF RoomFor
  <2>2. Sign1Size(c) = SignatureSize(c, s)
    <3>1. HeadSize(18) = 1
      BY DEF HeadSize
    <3> QED BY <1>3, <2>1, <3>1 DEF Sign1Size, SignatureSize
  <2> QED BY <1>2, <2>1, <2>2
<1>4. CASE c.api = "sign"
  <2>1. at = EncodedUpTo(c)[n - 1] /\ ~ (c.outSz < EncodedUpTo(c)[n])
    BY <1>4 DEF RoomFor, SignEncodedSize
  <2>2. SignatureSize(c, s) = SignerSize(c, s)
    BY <1>4 DEF SignatureSize, SignerSize
  <2>3. EncodedUpTo(c)[n] = EncodedUpTo(c)[n - 1] + SignerSize(c, s)
    BY <1>1, EncodedStepByStep
  <2> QED BY <1>2, <2>1, <2>2, <2>3
<1> QED BY <1>1, <1>3, <1>4

\* A call that refuses without having spent a leaf, or that is blamed on the signer.
LEMMA FinishedRoom ==
    ASSUME NEW code, Finish(code), code = "ok" \/ spent' = 0 \/ faulty'
    PROVE  Room'
BY DEF Finish, Room, NoLeafSpentForNothing

LEMMA NextRoom == IInv /\ Room /\ [Next]_vars => Room'
<1> SUFFICES ASSUME IInv, Room, [Next]_vars PROVE Room'
  OBVIOUS
<1>0. /\ spent \in Nat /\ idx \in Nat /\ i \in Nat
      /\ pc \in {"sign", "encode"} => call \in Calls /\ i \in 1 .. Len(call.signers)
      /\ pc = "sign" => spent = 0
      /\ pc = "idle" => spent = 0 /\ i = 1
  BY DEF IInv, TypeOK, InTurn, PreflightHolds, MoreToCome, IdleHoldsNothing
<1>1. ASSUME NEW c \in Calls, Begin(c) PROVE Room'
  <2> DEFINE x == CheckCode(c)
             y == PreflightCode(c)
             z == Fails(BodySize(c) > c.outSz, "small")
             code == First(<<x, y, z>>)
  <2>1. /\ IF code = "ok"
           THEN pc' = "sign" /\ call' = c /\ idx' = BodySize(c) /\ UNCHANGED <<i, ret>>
           ELSE Finish(code)
        /\ UNCHANGED <<spent, faulty>>
        /\ pc = "idle"
    BY <1>1 DEF Begin
  <2>2. code = "ok" => y = "ok"
    <3> HIDE DEF x, y, z
    <3> QED BY TripleOf
  <2> HIDE DEF code
  <2>3. CASE code = "ok"
    <3>1. /\ pc' = "sign" /\ call' = c /\ idx' = BodySize(c) /\ i' = 1 /\ spent' = 0
          /\ PreflightCode(c) = "ok"
      BY <1>0, <2>1, <2>2, <2>3
    <3>2. HasLms(c) => RoomFor(c, 1, BodySize(c))
      BY <3>1, BeginsWithRoom
    <3>3. HasLms(call)' <=> HasLms(c)
      BY <3>1 DEF HasLms
    <3>4. RoomFor(call, i, idx)' <=> RoomFor(c, 1, BodySize(c))
      BY <3>1 DEF RoomFor, SignEncodedSize, EncodedUpTo, Sign1Size
    <3> QED BY <3>1, <3>2, <3>3, <3>4 DEF Room, NoLeafSpentForNothing
  <2>4. CASE code # "ok"
    BY <1>0, <2>1, <2>4, FinishedRoom
  <2> QED BY <2>3, <2>4
<1>2. CASE TurnRefused
  <2>1. Finish(TurnCode(call, Turn)) /\ spent' = 0
    BY <1>0, <1>2 DEF TurnRefused
  <2> QED BY <2>1, FinishedRoom
<1>3. CASE SignOther
  <2>1. /\ pc = "sign" /\ spent' = 0
        /\ (pc' = "encode" /\ UNCHANGED <<call, i, idx, ret>>) \/ Finish("crypto")
    BY <1>0, <1>3 DEF SignOther
  <2>2. CASE pc' = "encode" /\ UNCHANGED <<call, i, idx, ret>>
    BY <2>1, <2>2 DEF Room, NoLeafSpentForNothing
  <2> QED BY <2>1, <2>2, FinishedRoom
<1>4. CASE SignLocal \/ SignDelegated
  <2>1. /\ pc = "sign" /\ pc' = "encode" /\ UNCHANGED <<call, i, idx, ret>> /\ IsLms(Turn)
    BY <1>4 DEF SignLocal, LocalTurn, SignDelegated, DelegatedTurn
  <2> QED BY <2>1 DEF Room, NoLeafSpentForNothing, Turn
<1>5. CASE SignLocalFails \/ SignDelegatedFails
  <2>1. Finish("crypto") /\ faulty'
    BY <1>5 DEF SignLocalFails, SignDelegatedFails
  <2> QED BY <2>1, FinishedRoom
<1>6. CASE Encode
  <2> DEFINE end == idx + SignatureSize(call, Turn)
  <2>1. /\ pc = "encode" /\ UNCHANGED <<spent, faulty>>
        /\ IF end > call.outSz THEN Finish("small")
           ELSE IF i = Len(call.signers) THEN Finish("ok")
           ELSE pc' = "sign" /\ i' = i + 1 /\ idx' = end /\ UNCHANGED <<call, ret>>
    BY <1>6 DEF Encode
  <2>2. call \in Calls /\ i \in 1 .. Len(call.signers) /\ Turn = call.signers[i]
    BY <1>0, <2>1 DEF Turn
  <2>3. spent # 0 => i = Len(call.signers) /\ ~ (end > call.outSz)
    <3> SUFFICES ASSUME spent # 0 PROVE i = Len(call.signers) /\ ~ (end > call.outSz)
      OBVIOUS
    <3>1. i = Len(call.signers)
      <4>1. ~ (i < Len(call.signers))
        BY <2>1 DEF IInv, PreflightHolds, MoreToCome
      <4>2. Len(call.signers) \in Nat
        BY <2>2, CallShape
      <4> QED BY <2>2, <4>1, <4>2
    <3>2. HasLms(call)
      <4>1. IsLms(call.signers[i])
        BY <1>0, <2>1, <2>2 DEF Room
      <4> QED BY <2>2, <4>1 DEF HasLms
    <3>3. RoomFor(call, i, idx)
      BY <2>1, <3>2 DEF Room
    <3> QED BY <1>0, <2>2, <3>1, <3>3, LastFits
  <2>4. CASE end > call.outSz
    <3>1. Finish("small") /\ spent' = 0
      BY <2>1, <2>3, <2>4
    <3> QED BY <3>1, FinishedRoom
  <2>5. CASE ~ (end > call.outSz) /\ i = Len(call.signers)
    BY <2>1, <2>5, FinishedRoom
  <2>6. CASE ~ (end > call.outSz) /\ i # Len(call.signers)
    <3>1. pc' = "sign" /\ i' = i + 1 /\ idx' = end /\ UNCHANGED <<call, ret>>
      BY <2>1, <2>6
    <3>2. HasLms(call) => RoomFor(call, i + 1, end)
      <4>1. HasLms(call) => RoomFor(call, i, idx)
        BY <2>1 DEF Room
      <4> QED BY <1>0, <2>2, <2>6, <4>1, NextHasRoom
    <3>3. (HasLms(call) => RoomFor(call, i, idx))'
      <4> HIDE DEF end
      <4> QED BY <3>1, <3>2 DEF RoomFor, HasLms, SignEncodedSize, EncodedUpTo, Sign1Size
    <3> QED BY <3>1, <3>3 DEF Room, NoLeafSpentForNothing
  <2> QED BY <2>4, <2>5, <2>6
<1>7. CASE Return \/ Crash
  <2>1. pc' = "idle"
    BY <1>7 DEF Return, Crash, EndCall
  <2> QED BY <2>1 DEF Room, NoLeafSpentForNothing
<1>8. ASSUME NEW h \in Handles, Attach(h) \/ SetExtSigner(h) PROVE Room'
  <2>1. pc = "idle" /\ pc' = pc
    BY <1>8 DEF Attach, SetExtSigner
  <2> QED BY <2>1 DEF Room, NoLeafSpentForNothing
<1>9. CASE Reload
  <2>1. pc = "idle" /\ pc' = pc
    BY <1>9 DEF Reload
  <2> QED BY <2>1 DEF Room, NoLeafSpentForNothing
<1>10. CASE UNCHANGED vars
  BY <1>10 DEF vars, Room, NoLeafSpentForNothing, Turn
<1> QED BY <1>1, <1>2, <1>3, <1>4, <1>5, <1>6, <1>7, <1>8, <1>9, <1>10 DEF Next

\* A call that takes a leaf is not refused, does not run out of room and loses no
\* other signer after it: only the one-time signer's own failure spends one in vain.
THEOREM LeavesNotWasted == Spec => []NoLeafSpentForNothing
<1>1. Init => Room
  BY DEF Init, Room, NoLeafSpentForNothing
<1>2. Room => NoLeafSpentForNothing
  BY DEF Room
<1> QED BY <1>1, <1>2, InitIInv, NextIInv, NextRoom, PTL DEF Spec

-----------------------------------------------------------------------------
(* Countersigning: lengths of what is encoded.                             *)

LEMMA ConcatLen ==
    ASSUME NEW s, NEW t, Len(s) \in Nat, Len(t) \in Nat
    PROVE  Len(s \o t) = Len(s) + Len(t) /\ Len(s \o t) \in Nat
OBVIOUS

LEMMA PrefixLen ==
    ASSUME NEW s, NEW n \in Nat
    PROVE  Len(SubSeq(s, 1, n)) = n
OBVIOUS

LEMMA HeadLenIs ==
    ASSUME NEW n
    PROVE  HeadLen(n) \in {1, 2} /\ HeadLen(n) \in Nat
BY DEF HeadLen

LEMMA HeadCellsLen ==
    ASSUME NEW kind, NEW n
    PROVE  Len(HeadCells(kind, n)) = HeadLen(n) /\ Len(HeadCells(kind, n)) \in Nat
BY HeadLenIs DEF HeadCells

LEMMA BstrCellsLen ==
    ASSUME NEW s, Len(s) \in Nat
    PROVE  Len(Bstr(s)) = BstrLen(Len(s)) /\ BstrLen(Len(s)) \in Nat
BY HeadLenIs, HeadCellsLen, ConcatLen DEF Bstr, BstrLen

LEMMA HeadEndIs ==
    ASSUME NEW buf, Len(buf) \in Nat, NEW kind, kind # "end", NEW p, HeadEnd(buf, kind, p) # 0
    PROVE  /\ p \in 1 .. Len(buf)
           /\ HeadEnd(buf, kind, p) = p + HeadLen(buf[p][2])
           /\ HeadEnd(buf, kind, p) \in Nat
BY HeadLenIs DEF HeadEnd, At

LEMMA BstrEndIs ==
    ASSUME NEW buf, Len(buf) \in Nat, NEW p
    PROVE  /\ BstrEnd(buf, p) \in Nat
           /\ BstrEnd(buf, p) # 0 => p \in 1 .. Len(buf)
BY HeadEndIs, HeadLenIs DEF BstrEnd

-----------------------------------------------------------------------------

(* Countersigning: where what was read lies in the message.                *)

\* A header map that was read starts where it was looked for; its head takes one
\* cell or two.
LEMMA MapRead ==
    ASSUME NEW buf, Len(buf) \in Nat, NEW p, NEW labels,
           ParseCounterMap(buf, p, labels).code = "ok"
    PROVE  /\ ParseCounterMap(buf, p, labels).start = p
           /\ p \in Nat
           /\ ParseCounterMap(buf, p, labels).content - p \in {1, 2}
           /\ ParseCounterMap(buf, p, labels).content \in Nat
<1> DEFINE h  == HeadEnd(buf, "map", p)
           n  == IF h = 0 THEN 0 ELSE buf[p][2]
           es == IF n > MaxItems THEN <<>> ELSE Entries(buf, n, h)
           c1 == Fails(h = 0, "malformed")
           c2 == Fails(n > MaxItems, "malformed")
           c3 == MapCode(buf, es, labels, CounterType)
           c4 == MapCode(buf, es, labels, [l \in {KID} |-> "bstr"])
<1>1. ParseCounterMap(buf, p, labels) = MapOf(buf, p, h, n, es, labels)
  BY DEF ParseCounterMap
<1>2. /\ MapOf(buf, p, h, n, es, labels).code = First(<<c1, c2, c3, c4>>)
      /\ MapOf(buf, p, h, n, es, labels).start = p
      /\ MapOf(buf, p, h, n, es, labels).content = h
  <2> HIDE DEF h, n, es
  <2>1. MapOf(buf, p, h, n, es, labels).code = First(<<c1, c2, c3, c4>>)
    BY Zenon DEF MapOf
  <2>2. /\ MapOf(buf, p, h, n, es, labels).start = p
        /\ MapOf(buf, p, h, n, es, labels).content = h
    <3> HIDE DEF c1, c2, c3, c4
    <3> QED BY SMT DEF MapOf
  <2> QED BY <2>1, <2>2
<1>3. c1 = "ok"
  <2> HIDE DEF h, n, es, c1, c2, c3, c4
  <2>1. First(<<c1, c2, c3, c4>>) = "ok"
    BY <1>1, <1>2
  <2> QED BY <2>1, FourIff, Zenon
<1>4. h # 0
  BY <1>3 DEF Fails
<1>5. p \in 1 .. Len(buf) /\ h = p + HeadLen(buf[p][2])
  BY <1>4, HeadEndIs
<1> HIDE DEF h, n, es, c1, c2, c3, c4
<1> QED BY <1>1, <1>2, <1>5, HeadLenIs

\* The header map lies in the message, and something follows it.
InMessage(buf, map) == /\ map.start \in Nat
                       /\ map.content \in Nat
                       /\ map.content - map.start \in {1, 2}
                       /\ map.end \in 1 .. Len(buf)

\* So the map of a target that was read is in the message.
LEMMA TargetRead ==
    ASSUME NEW buf, Len(buf) \in Nat, NEW supplied,
           ParseCounterTarget(buf, supplied).code = "ok"
    PROVE  InMessage(buf, ParseCounterTarget(buf, supplied).map)
<1> DEFINE arr    == HeadEnd(buf, "array", 2)
           body   == Content(buf, arr)
           labels == IF body = <<>> THEN {} ELSE body[1][2]
           p      == BstrEnd(buf, arr)
           m      == ParseCounterMap(buf, p, labels)
           tag    == At(buf, 1)
           gone   == At(buf, m.end)[1] = "null"
           payEnd == IF gone THEN m.end + 1 ELSE BstrEnd(buf, m.end)
           codes  == <<Fails(tag[1] # "tag" \/ tag[2] \notin Tags, "tag"),
                       Fails(arr = 0 \/ At(buf, 2)[2] # Fields(tag[2]), "malformed"),
                       Fails(m.start = 0, "malformed"),
                       Fails(labels \cap DOMAIN CounterType # {}, "hdr"),
                       m.code,
                       Fails(gone /\ ~ supplied, "detached"),
                       Fails(payEnd = 0, "malformed"),
                       Fails(TailEnd(buf, tag[2], payEnd) # Len(buf) + 1, "malformed")>>
<1>1. ParseCounterTarget(buf, supplied) = TargetOf(buf, arr, body, labels, m, supplied)
  BY DEF ParseCounterTarget
<1>2. /\ TargetOf(buf, arr, body, labels, m, supplied).code = First(codes)
      /\ TargetOf(buf, arr, body, labels, m, supplied).map = m
  <2> HIDE DEF arr, body, labels, m
  <2> QED BY DEF TargetOf
<1>3. m.code = "ok" /\ Fails(payEnd = 0, "malformed") = "ok"
  <2> HIDE DEF arr, body, labels, m, tag, gone, payEnd
  <2>1. Len(codes) = 8 /\ codes[5] = m.code /\ codes[7] = Fails(payEnd = 0, "malformed")
    OBVIOUS
  <2> HIDE DEF codes
  <2>2. First(codes) = "ok"
    BY <1>1, <1>2, Zenon
  <2>3. Len(codes) \in Nat
    BY <2>1
  <2>4. \A k \in 1 .. Len(codes) : codes[k] = "ok"
    BY <2>2, <2>3, AllPass, Zenon
  <2> QED BY <2>1, <2>4
<1>4. payEnd # 0
  <2> HIDE DEF payEnd
  <2> QED BY <1>3 DEF Fails
<1>5. /\ m.start \in Nat /\ m.content \in Nat /\ m.content - m.start \in {1, 2}
  <2> HIDE DEF p, labels
  <2> QED BY <1>3, MapRead
<1>6. m.end \in 1 .. Len(buf)
  <2> HIDE DEF m
  <2>1. CASE gone
    BY <2>1 DEF At
  <2>2. CASE ~ gone
    BY <2>2, <1>4, BstrEndIs
  <2> QED BY <2>1, <2>2
<1> HIDE DEF m
<1>7. InMessage(buf, m)
  BY <1>5, <1>6 DEF InMessage
<1> QED BY <1>1, <1>2, <1>7, Zenon

\* A countersignature that was read is where the caller said.
LEMMA CounterRead ==
    ASSUME NEW buf, Len(buf) \in Nat, NEW start, NEW end,
           DecodeFullCounter(buf, start, end).code = "ok"
    PROVE  end \in Nat /\ start \in 1 .. Len(buf)
<1> DEFINE arr == HeadEnd(buf, "array", start)
           p   == BstrEnd(buf, arr)
           h   == HeadEnd(buf, "map", p)
           n   == IF h = 0 THEN 0 ELSE buf[p][2]
           es  == IF n > MaxItems THEN <<>> ELSE Entries(buf, n, h)
           prot   == Content(buf, arr)
           mapEnd == IF es = <<>> THEN h ELSE es[Len(es)].end
           c1 == Fails(arr = 0 \/ At(buf, start)[2] # 3, "malformed")
           c2 == Fails(BstrEnd(buf, arr) = 0, "malformed")
           c3 == Fails(h = 0 \/ n > MaxItems, "malformed")
           c4 == MapCode(buf, es, IF prot = <<>> THEN {} ELSE {ALG},
                         [l \in {KID, ALG} |-> IF l = KID THEN "bstr" ELSE "alg"])
           c5 == Fails(mapEnd = 0 \/ BstrEnd(buf, mapEnd) # end, "malformed")
<1>1. DecodeFullCounter(buf, start, end) = FullCounterOf(buf, start, end, h, n, es)
  BY DEF DecodeFullCounter
<1>2. FullCounterOf(buf, start, end, h, n, es).code = First(<<c1, c2, c3, c4, c5>>)
  <2> HIDE DEF h, n, es
  <2> QED BY DEF FullCounterOf
<1>3. c1 = "ok" /\ c5 = "ok"
  <2> HIDE DEF h, n, es, c1, c2, c3, c4, c5
  <2>1. First(<<c1, c2, c3, c4, c5>>) = "ok"
    BY <1>1, <1>2
  <2> QED BY <2>1, FiveIff
<1>4. arr # 0 /\ BstrEnd(buf, mapEnd) = end
  <2> HIDE DEF arr, mapEnd
  <2> QED BY <1>3 DEF Fails
<1>5. end \in Nat
  <2> HIDE DEF mapEnd
  <2> QED BY <1>4, BstrEndIs
<1> QED BY <1>4, <1>5, HeadEndIs

\* So is a list of them: its last one ends where the list does.
LEMMA ListRead ==
    ASSUME NEW buf, Len(buf) \in Nat, NEW start, NEW end,
           CounterListInfo(buf, start, end).code = "ok"
    PROVE  start \in 1 .. Len(buf) /\ end \in Nat
<1> DEFINE arr   == HeadEnd(buf, "array", start)
           n     == IF arr = 0 THEN 0 ELSE buf[start][2]
           first == At(buf, arr)[1]
           at[k \in 1 .. (MaxItems + 1)] == IF k = 1 THEN arr ELSE ItemsEnd(buf, 1, at[k - 1])
           list  == n \in 1 .. MaxItems /\ at[n + 1] = end
                    /\ \A k \in 1 .. n : DecodeFullCounter(buf, at[k], at[k + 1]).code = "ok"
           code  == IF n = 0 \/ arr >= end THEN "malformed"
                    ELSE IF first = "bstr" THEN DecodeFullCounter(buf, start, end).code
                    ELSE Fails(first # "array" \/ ~ list, "malformed")
<1>1. CounterListInfo(buf, start, end) =
          [code |-> code, count |-> IF first = "array" THEN n ELSE 1, isList |-> first = "array"]
  BY DEF CounterListInfo
<1>2. code = "ok"
  <2> HIDE DEF code, first, n
  <2> QED BY <1>1
<1> HIDE DEF at
<1>3. start \in 1 .. Len(buf)
  <2>1. n # 0
    <3> HIDE DEF n, list, first, arr
    <3> QED BY <1>2
  <2>2. arr # 0
    BY <2>1
  <2> QED BY <2>2, HeadEndIs
<1>4. DecodeFullCounter(buf, start, end).code = "ok" \/ list
  <2> HIDE DEF n, list, first, arr
  <2> QED BY <1>2 DEF Fails
<1>5. CASE DecodeFullCounter(buf, start, end).code = "ok"
  BY <1>5, CounterRead
<1>6. CASE list
  <2> HIDE DEF n
  <2>1. n \in 1 .. n /\ at[n + 1] = end
    BY <1>6
  <2>2. DecodeFullCounter(buf, at[n], end).code = "ok"
    BY <1>6, <2>1, Zenon
  <2> QED BY <1>3, <2>2, CounterRead
<1> QED BY <1>3, <1>4, <1>5, <1>6

-----------------------------------------------------------------------------

(* Countersigning: what is written has the length that was planned for.    *)

LEMMA SignLen ==
    ASSUME NEW key, NEW alg \in CounterAlgs, NEW tbs
    PROVE  Len(Sign(key, alg, tbs)) = SignatureLen[alg] /\ SignatureLen[alg] \in Nat
BY SignatureLenAssumption DEF Sign

\* wolfCose_FullCounterSize is the length of what wolfCose_EncodeFullCounter writes.
LEMMA CounterLen ==
    ASSUME NEW alg, NEW kid \in Seq({"kid"}), NEW sig, Len(sig) \in Nat
    PROVE  /\ Len(EncodeFullCounter(alg, kid, sig)) = FullCounterSize(1, Len(kid), Len(sig))
           /\ FullCounterSize(1, Len(kid), Len(sig)) \in Nat
           /\ FullCounterSize(1, Len(kid), Len(sig)) > 3
<1> DEFINE head == HeadCells("array", 3)
           prot == Bstr(ProtectedHdr(alg))
           none == HeadCells("map", 0)
           one  == HeadCells("map", 1)
           key  == << <<"label", KID>> >>
           name == Bstr(KidCells(kid))
           map  == IF kid = <<>> THEN none ELSE one \o key \o name
           last0 == Bstr(sig)
<1>1. EncodeFullCounter(alg, kid, sig) = ((head \o prot) \o map) \o last0
  BY DEF EncodeFullCounter
<1>2. /\ Len(head) = 1 /\ Len(none) = 1 /\ Len(one) = 1
  BY HeadCellsLen, LimitsAssumption DEF HeadLen
<1>3. Len(key) = 1 /\ Len(ProtectedHdr(alg)) = 1
  BY DEF ProtectedHdr
<1>4. Len(prot) = BstrLen(1) /\ BstrLen(1) \in Nat
  <2> DEFINE cells == ProtectedHdr(alg)
  <2>1. Len(cells) \in Nat /\ Len(cells) = 1
    BY <1>3
  <2> HIDE DEF cells
  <2>2. Len(Bstr(cells)) = BstrLen(Len(cells)) /\ BstrLen(Len(cells)) \in Nat
    BY <2>1, BstrCellsLen
  <2>3. Len(Bstr(cells)) = BstrLen(1) /\ BstrLen(1) \in Nat
    BY <2>1, <2>2
  <2> QED BY <2>3 DEF cells
<1>5. Len(kid) \in Nat /\ Len(KidCells(kid)) = Len(kid)
  BY DEF KidCells
<1>6. Len(name) = BstrLen(Len(kid)) /\ BstrLen(Len(kid)) \in Nat
  BY <1>5, BstrCellsLen
<1>7. Len(last0) = BstrLen(Len(sig)) /\ BstrLen(Len(sig)) \in Nat
  BY BstrCellsLen
<1>8. kid = <<>> <=> Len(kid) = 0
  BY EmptySeq
<1>9. Len(map) = 1 + (IF Len(kid) # 0 THEN 1 + BstrLen(Len(kid)) ELSE 0) /\ Len(map) \in Nat
  <2>1. Len(one \o key \o name) = 2 + BstrLen(Len(kid))
    <3> HIDE DEF one, key, name
    <3>1. Len(one \o key) = 2 /\ Len(one \o key) \in Nat
      <4>1. Len(one) \in Nat /\ Len(key) \in Nat
        BY <1>2, <1>3
      <4>2. Len(one \o key) = Len(one) + Len(key)
        BY <4>1, ConcatLen, Zenon
      <4> QED BY <1>2, <1>3, <4>2
    <3>2. Len((one \o key) \o name) = 2 + BstrLen(Len(kid))
      BY <1>6, <3>1, ConcatLen
    <3> QED BY <3>2
  <2> HIDE DEF one, key, name, none
  <2>2. CASE kid = <<>>
    BY <1>2, <1>8, <2>2
  <2>3. CASE kid # <<>>
    BY <1>6, <1>8, <2>1, <2>3
  <2> QED BY <2>2, <2>3
<1>10. BstrLen(1) = 2 /\ BstrLen(Len(sig)) > 0
  BY LimitsAssumption, HeadLenIs DEF BstrLen, HeadLen
<1> HIDE DEF head, prot, map, last0
<1>11. Len(((head \o prot) \o map) \o last0) = Len(head) + Len(prot) + Len(map) + Len(last0)
  <2>1. Len(head \o prot) = Len(head) + Len(prot) /\ Len(head \o prot) \in Nat
    <3>1. Len(head) \in Nat /\ Len(prot) \in Nat
      BY <1>2, <1>4
    <3> QED BY <3>1, ConcatLen, Zenon
  <2>2. /\ Len((head \o prot) \o map) = Len(head) + Len(prot) + Len(map)
        /\ Len((head \o prot) \o map) \in Nat
    BY <1>2, <1>4, <1>9, <2>1, ConcatLen
  <2> QED BY <1>2, <1>4, <1>7, <1>9, <2>2, ConcatLen
<1> QED BY <1>1, <1>2, <1>4, <1>6, <1>5, <1>7, <1>9, <1>10, <1>11 DEF FullCounterSize

-----------------------------------------------------------------------------

\* Appending a parameter fills what was planned for it.
LEMMA ParameterFits ==
    ASSUME NEW buf, Len(buf) \in Nat, NEW t, InMessage(buf, t.map), NEW plan,
           NEW out, NEW label, NEW value, Len(value) \in Nat,
           plan.delta = 1 + Len(value)
                            + (HeadLen(plan.newCount) - (t.map.content - t.map.start)),
           plan.finalLen = Len(buf) + plan.delta
    PROVE  AddParameter(out, t, plan, label, value).code = "ok" /\ plan.finalLen \in Nat
<1> DEFINE cells == << <<"label", label>> >> \o value
           head  == HeadLen(plan.newCount)
           start == t.map.start + head
           kept  == t.map.end - t.map.content
           end   == start + kept + Len(cells)
           c1    == Fails(end > plan.finalLen + 1, "small")
           c2    == Fails(end # t.map.end + plan.delta, "malformed")
<1>1. Len(cells) = 1 + Len(value)
  <2> DEFINE first == << <<"label", label>> >>
  <2>1. Len(first) \in Nat /\ Len(first) = 1
    OBVIOUS
  <2> HIDE DEF first
  <2>2. Len(first \o value) = Len(first) + Len(value)
    BY <2>1, ConcatLen, Zenon
  <2> QED BY <2>1, <2>2 DEF first
<1>2. head \in {1, 2}
  BY HeadLenIs
<1>3. AddParameter(out, t, plan, label, value).code = First(<<c1, c2>>)
  BY Zenon DEF AddParameter
<1> HIDE DEF cells, head
<1>4. ~ (end > plan.finalLen + 1) /\ end = t.map.end + plan.delta /\ plan.finalLen \in Nat
  <2> DEFINE d == plan.delta
             f == plan.finalLen
             m == t.map.start
             h == t.map.content
             e == t.map.end
             v == Len(value)
             w == Len(cells)
             n == Len(buf)
  <2>1. /\ d = 1 + v + (head - (h - m)) /\ f = n + d
        /\ m \in Nat /\ h \in Nat /\ h - m \in {1, 2} /\ e \in 1 .. n
        /\ v \in Nat /\ n \in Nat /\ w = 1 + v
    BY <1>1 DEF InMessage, head
  <2> HIDE DEF d, f, m, h, e, v, w, n
  <2>2. d \in Nat /\ f \in Nat
    BY <1>2, <2>1
  <2>3. m + head + (e - h) + w = e + d
    BY <1>2, <2>1
  <2>4. ~ (m + head + (e - h) + w > f + 1)
    BY <1>2, <2>1, <2>2
  <2> QED BY <2>2, <2>3, <2>4 DEF d, f, m, h, e, w
<1> HIDE DEF end
<1>5. c1 = "ok" /\ c2 = "ok"
  BY <1>4 DEF Fails
<1> HIDE DEF c1, c2
<1> QED BY <1>3, <1>4, <1>5, PairIff

\* So does the longer value of label 11.
LEMMA ValueFits ==
    ASSUME NEW buf, Len(buf) \in Nat, NEW t, NEW plan, NEW out, NEW counter,
           Len(counter) \in Nat, Len(counter) > 3,
           plan.oldLen \in Int, plan.offset \in {0, 1, 2},
           plan.newLen = HeadLen(IF plan.info.isList THEN plan.info.count + 1 ELSE 2)
                             + (plan.oldLen - plan.offset) + Len(counter),
           plan.finalLen = Len(buf) + (plan.newLen - plan.oldLen)
    PROVE  ReplaceValue(out, t, plan, counter).code = "ok" /\ plan.finalLen \in Nat
<1> DEFINE count == IF plan.info.isList THEN plan.info.count + 1 ELSE 2
           kept  == plan.oldLen - plan.offset
           index   == HeadLen(count) + kept
           c1    == Fails(index + Len(counter) > plan.newLen, "small")
           c2    == Fails(index + Len(counter) # plan.newLen, "malformed")
<1>1. HeadLen(count) \in {1, 2}
  BY HeadLenIs
<1>2. ReplaceValue(out, t, plan, counter).code = First(<<c1, c2>>)
  BY Zenon DEF ReplaceValue
<1> HIDE DEF count
<1>3. plan.newLen = HeadLen(count) + (plan.oldLen - plan.offset) + Len(counter)
  BY Zenon DEF count
<1>4. /\ ~ (index + Len(counter) > plan.newLen)
      /\ index + Len(counter) = plan.newLen
      /\ plan.finalLen \in Nat
  <2> DEFINE a == plan.newLen
             b == plan.oldLen
             o == plan.offset
             f == plan.finalLen
             h == HeadLen(count)
             v == Len(counter)
             n == Len(buf)
  <2>1. /\ a = h + (b - o) + v /\ f = n + (a - b)
        /\ b \in Int /\ o \in {0, 1, 2} /\ v \in Nat /\ v > 3 /\ n \in Nat /\ h \in {1, 2}
    BY <1>1, <1>3
  <2> HIDE DEF a, b, o, f, h, v, n
  <2>2. ~ (h + (b - o) + v > a) /\ h + (b - o) + v = a /\ f \in Nat
    BY <2>1
  <2> QED BY <2>2 DEF a, b, o, f, h, v
<1> HIDE DEF index
<1>5. c1 = "ok" /\ c2 = "ok"
  BY <1>4 DEF Fails
<1> HIDE DEF c1, c2
<1> QED BY <1>2, <1>4, <1>5, PairIff

\* What is planned for is what is encoded: no check is left to fail after signing.
LEMMA AttachFits ==
    ASSUME NEW buf, Len(buf) \in Nat, NEW t, InMessage(buf, t.map),
           NEW r \in Requests, r.alg \in CounterAlgs,
           PlanAttachCounter(t, buf, r).code = "ok",
           NEW out, NEW sig, Len(sig) = SignatureLen[r.alg]
    PROVE  /\ AttachCounter(out, t, PlanAttachCounter(t, buf, r), buf, r, sig).code = "ok"
           /\ PlanAttachCounter(t, buf, r).finalLen \in Nat
<1> DEFINE replaces == ~ r.abbreviated /\ Has(t, FULL)
           v        == Value(t, FULL)
           info     == IF replaces THEN CounterListInfo(buf, v.start, v.end)
                       ELSE [code |-> "ok", count |-> 0, isList |-> FALSE]
           plan     == PlanAttachCounter(t, buf, r)
           size     == IF r.abbreviated THEN BstrLen(SignatureLen[r.alg])
                       ELSE FullCounterSize(1, Len(r.kid), SignatureLen[r.alg])
           oldLen   == IF replaces THEN v.end - v.start ELSE 0
           offset   == IF info.isList THEN HeadLen(info.count) ELSE 0
           newLen   == HeadLen(IF info.isList THEN info.count + 1 ELSE 2) + (oldLen - offset)
                           + size
           newCount == t.map.count + 1
           delta    == IF replaces THEN newLen - oldLen
                       ELSE 1 + size + (HeadLen(newCount) - (t.map.content - t.map.start))
           c1       == Fails(RefusedKind(t, r.abbreviated), "hdr")
           c3       == Fails(NoRoom(t, info, replaces), "hdr")
           counter  == EncodeFullCounter(r.alg, r.kid, sig)
           b1       == Move(out, t.map.end + plan.delta, t.map.end, Len(buf) + 1 - t.map.end)
<1>1. plan = [code |-> First(<<c1, info.code, c3>>), replaces |-> replaces, info |-> info,
              oldLen |-> oldLen, offset |-> offset, newLen |-> newLen, newCount |-> newCount,
              delta |-> delta, finalLen |-> Len(buf) + delta]
  <2>1. plan = PlanOf(t, buf, r, replaces, info)
    BY Zenon DEF PlanAttachCounter
  <2> HIDE DEF replaces, info, plan
  <2> QED BY <2>1, Zenon DEF PlanOf
<1> HIDE DEF plan
<1>2. /\ plan.code = First(<<c1, info.code, c3>>) /\ plan.replaces = replaces
      /\ plan.info = info /\ plan.oldLen = oldLen /\ plan.offset = offset
      /\ plan.newLen = newLen /\ plan.newCount = newCount
      /\ plan.delta = delta /\ plan.finalLen = Len(buf) + delta
  <2> HIDE DEF c1, info, c3, replaces, oldLen, offset, newLen, newCount, delta
  <2> QED BY <1>1
<1>3. info.code = "ok"
  <2> HIDE DEF c1, info, c3
  <2>1. First(<<c1, info.code, c3>>) = "ok"
    BY <1>2 DEF plan
  <2> QED BY <2>1, TripleIff, Zenon
<1>4. /\ SignatureLen[r.alg] \in Nat /\ r.kid \in Seq({"kid"}) /\ Len(sig) \in Nat
  BY SignatureLenAssumption, RequestsAssumption
<1>5. /\ Len(counter) = FullCounterSize(1, Len(r.kid), SignatureLen[r.alg])
      /\ Len(counter) \in Nat /\ Len(counter) > 3
  <2>1. /\ Len(counter) = FullCounterSize(1, Len(r.kid), Len(sig))
        /\ Len(counter) \in Nat /\ Len(counter) > 3
    BY <1>4, CounterLen
  <2> QED BY <2>1
<1>6. Len(Bstr(sig)) = BstrLen(SignatureLen[r.alg]) /\ Len(Bstr(sig)) \in Nat
  BY <1>4, BstrCellsLen
<1>7. CASE replaces
  <2>1. v.start \in 1 .. Len(buf) /\ v.end \in Nat
    <3>1. CounterListInfo(buf, v.start, v.end).code = "ok"
      BY <1>3, <1>7
    <3> HIDE DEF v
    <3> QED BY <3>1, ListRead
  <2>2. oldLen \in Int /\ offset \in {0, 1, 2}
    <3> HIDE DEF v, info, replaces
    <3> QED BY <1>7, <2>1, HeadLenIs
  <2>3. size = Len(counter)
    <3> HIDE DEF counter
    <3> QED BY <1>5, <1>7
  <2>4. /\ plan.newLen = HeadLen(IF plan.info.isList THEN plan.info.count + 1 ELSE 2)
                             + (plan.oldLen - plan.offset) + Len(counter)
        /\ plan.finalLen = Len(buf) + (plan.newLen - plan.oldLen)
        /\ plan.oldLen \in Int /\ plan.offset \in {0, 1, 2}
    <3> HIDE DEF replaces, info, oldLen, offset, size, counter
    <3> QED BY <1>2, <1>7, <2>2, <2>3
  <2>5. AttachCounter(out, t, plan, buf, r, sig) = ReplaceValue(b1, t, plan, counter)
    <3>1. plan.replaces
      <4> HIDE DEF replaces
      <4> QED BY <1>2, <1>7
    <3> QED BY <3>1, Zenon DEF AttachCounter
  <2> HIDE DEF counter, b1
  <2>6. ReplaceValue(b1, t, plan, counter).code = "ok" /\ plan.finalLen \in Nat
    BY <1>5, <2>4, ValueFits
  <2> QED BY <2>5, <2>6 DEF plan
<1>8. CASE ~ replaces
  <2> DEFINE label == IF r.abbreviated THEN ABBR ELSE FULL
             value == IF r.abbreviated THEN Bstr(sig) ELSE counter
  <2>1. size = Len(value) /\ Len(value) \in Nat
    <3> HIDE DEF counter
    <3> QED BY <1>5, <1>6
  <2>2. /\ plan.delta = 1 + Len(value)
                            + (HeadLen(plan.newCount) - (t.map.content - t.map.start))
        /\ plan.finalLen = Len(buf) + plan.delta
    <3> HIDE DEF replaces, info, oldLen, newLen, newCount, size, value
    <3> QED BY <1>2, <1>8, <2>1
  <2>3. AttachCounter(out, t, plan, buf, r, sig) = AddParameter(b1, t, plan, label, value)
    <3>1. ~ plan.replaces
      <4> HIDE DEF replaces
      <4> QED BY <1>2, <1>8
    <3>2. CASE r.abbreviated
      BY <3>1, <3>2, Zenon DEF AttachCounter
    <3>3. CASE ~ r.abbreviated
      BY <3>1, <3>3, Zenon DEF AttachCounter
    <3> QED BY <3>2, <3>3
  <2> HIDE DEF label, value, b1
  <2>4. AddParameter(b1, t, plan, label, value).code = "ok" /\ plan.finalLen \in Nat
    BY <2>1, <2>2, ParameterFits
  <2> QED BY <2>3, <2>4 DEF plan
<1> QED BY <1>7, <1>8

-----------------------------------------------------------------------------

(* Countersigning: the calls.                                              *)

\* What has been checked by the time the signing backend runs.
LEMMA ReadyToSign ==
    ASSUME NEW t, NEW r, NEW c, Refusal(t, r, c) = "ok"
    PROVE  /\ t.code = "ok"
           /\ r.alg \in CounterAlgs
           /\ PlanAttachCounter(t, in, r).code = "ok"
<1> DEFINE plan  == PlanAttachCounter(t, in, r)
           codes == <<Fails(c = "short scratch", "small"),
                      plan.code,
                      Fails(plan.finalLen > OutSz(plan, c), "small"),
                      Fails(~ HasPrivate[r.key], "key"),
                      PinCode(r.key, r.alg),
                      FitCode(r.key, r.alg)>>
<1>1. RefusalOf(t, plan, r, c) = "ok"
  BY DEF Refusal
<1>2. Len(codes) \in Nat /\ 2 \in 1 .. Len(codes) /\ codes[2] = plan.code
  <2> HIDE DEF plan
  <2> QED OBVIOUS
<1>3. RefusalOf(t, plan, r, c) = IF r.alg = "LMS" THEN "alg"
                                 ELSE IF t.code # "ok" THEN t.code
                                 ELSE IF r.alg \notin CounterAlgs THEN "alg"
                                 ELSE First(codes)
  <2> HIDE DEF plan
  <2> QED BY Zenon DEF RefusalOf
<1> HIDE DEF codes, plan
<1>4. t.code = "ok" /\ r.alg \in CounterAlgs /\ First(codes) = "ok"
  BY <1>1, <1>3
<1>5. \A k \in 1 .. Len(codes) : codes[k] = "ok"
  BY <1>2, <1>4, AllPass, Zenon
<1>6. plan.code = "ok"
  BY <1>2, <1>5
<1> QED BY <1>4, <1>6 DEF plan

\* A call that signs succeeds.
LEMMA SignedIsAttached ==
    ASSUME Len(in) \in Nat, AddAttaches
    PROVE  addRet' = "ok" /\ Len(in') \in Nat /\ outLen' = Len(in')
<1>1. PICK c \in Circumstances \ {"backend fails", "wrong length"} :
          \E r \in Requests, inPlace \in BOOLEAN :
              /\ Refusal(TargetFor(c), r, c) = "ok"
              /\ FinishAdd(AttachWith(TargetFor(c), PlanAttachCounter(TargetFor(c), in, r), r, c),
                           PlanAttachCounter(TargetFor(c), in, r).finalLen, inPlace)
  BY Zenon DEF AddAttaches
<1> DEFINE t == TargetFor(c)
<1>2. PICK r \in Requests, inPlace \in BOOLEAN :
          /\ Refusal(t, r, c) = "ok"
          /\ FinishAdd(AttachWith(t, PlanAttachCounter(t, in, r), r, c),
                       PlanAttachCounter(t, in, r).finalLen, inPlace)
  BY <1>1, Zenon
<1> DEFINE plan == PlanAttachCounter(t, in, r)
           out  == in \o [k \in 1 .. (OutSz(plan, c) - Len(in)) |-> <<"junk", 0>>]
           sig  == Sign(r.key, r.alg, Tbs(t, r))
           done == AttachWith(t, plan, r, c)
<1>3. t.code = "ok" /\ r.alg \in CounterAlgs /\ plan.code = "ok"
  <2> HIDE DEF t
  <2> QED BY <1>2, ReadyToSign
<1>4. InMessage(in, t.map)
  <2>1. ParseCounterTarget(in, c # "no payload").code = "ok"
    BY <1>3, Zenon DEF TargetFor
  <2>2. InMessage(in, ParseCounterTarget(in, c # "no payload").map)
    BY <2>1, TargetRead
  <2> QED BY <2>2, Zenon DEF TargetFor
<1>5. Len(sig) = SignatureLen[r.alg]
  BY <1>3, SignLen
<1>6. done = AttachCounter(out, t, plan, in, r, sig)
  BY Zenon DEF AttachWith
<1>7. done.code = "ok" /\ plan.finalLen \in Nat
  <2> HIDE DEF t, sig, out
  <2>1. /\ AttachCounter(out, t, PlanAttachCounter(t, in, r), in, r, sig).code = "ok"
        /\ PlanAttachCounter(t, in, r).finalLen \in Nat
    BY <1>3, <1>4, <1>5, AttachFits
  <2> QED BY <1>6, <2>1
<1> HIDE DEF t, plan, done
<1>8. FinishAdd(done, plan.finalLen, inPlace)
  BY <1>2 DEF plan, done
<1>9. addRet' = "ok" /\ in' = SubSeq(done.buf, 1, plan.finalLen) /\ outLen' = plan.finalLen
  BY <1>7, <1>8 DEF FinishAdd
<1>10. Len(SubSeq(done.buf, 1, plan.finalLen)) = plan.finalLen
  BY <1>7, PrefixLen
<1> QED BY <1>7, <1>9, <1>10

\* The inductive invariant: the length of the message is a number, which is what
\* the bounds that the parser checks are worth.
CounterInv == NoSignatureWasted /\ Len(in) \in Nat

LEMMA CounterInitInv == CounterInit => CounterInv
BY MessagesAssumption DEF CounterInit, CounterInv, NoSignatureWasted

LEMMA CounterNextInv == CounterInv /\ [CounterNext]_counterVars => CounterInv'
<1> SUFFICES ASSUME CounterInv, [CounterNext]_counterVars
             PROVE  CounterInv'
  OBVIOUS
<1>1. CASE AddRefused
  BY <1>1 DEF CounterInv, NoSignatureWasted, AddRefused, Refuse
<1>2. CASE SignFails
  BY <1>2 DEF CounterInv, NoSignatureWasted, SignFails
<1>3. CASE AddAttaches
  BY <1>3, SignedIsAttached DEF CounterInv, NoSignatureWasted
<1>4. CASE UNCHANGED counterVars
  BY <1>4 DEF CounterInv, NoSignatureWasted, counterVars
<1> QED BY <1>1, <1>2, <1>3, <1>4 DEF CounterNext

\* The backend, which may be a one-time key, only runs for a call that then
\* succeeds, unless the backend itself is at fault.
THEOREM CounterSignerNotWasted == CounterSpec => []NoSignatureWasted
<1>1. CounterInv => NoSignatureWasted
  BY DEF CounterInv
<1> QED BY <1>1, CounterInitInv, CounterNextInv, PTL DEF CounterSpec

LEMMA StepLeavesAlone ==
    ASSUME CounterInv, [CounterNext]_counterVars
    PROVE  [addRet' # "ok" => in' = in /\ outLen' = 0]_counterVars
<1>1. CASE AddRefused
  BY <1>1 DEF AddRefused, Refuse
<1>2. CASE SignFails
  BY <1>2 DEF SignFails
<1>3. CASE AddAttaches
  BY <1>3, SignedIsAttached DEF CounterInv
<1>4. CASE UNCHANGED counterVars
  BY <1>4
<1> QED BY <1>1, <1>2, <1>3, <1>4 DEF CounterNext

\* A call that fails leaves the message alone, even in place.
THEOREM FailedAddLeavesAlone == CounterSpec => FailureLeavesAlone
BY CounterInitInv, CounterNextInv, StepLeavesAlone, PTL DEF CounterSpec, FailureLeavesAlone

=============================================================================
