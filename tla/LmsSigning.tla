----------------------------- MODULE LmsSigning -----------------------------
(***************************************************************************)
(* wc_CoseSign1_Sign_ex and wc_CoseSign_Sign around an HSS-LMS key         *)
(* (src/src/wolfcose_sign1.c, src/src/wolfcose_sign.c).                    *)
(*                                                                         *)
(* Every HSS-LMS signature uses up one leaf of the key for good.  wolfCOSE *)
(* must never let a leaf sign two messages, and must not spend one on a    *)
(* call that it could have refused.  The key is signed with locally, in    *)
(* which case wolfCrypt advances the LmsKey and stores the new index with  *)
(* the caller's write callback, or by a delegated signer, whose backend    *)
(* owns its index.                                                         *)
(*                                                                         *)
(* A call goes through its checks, one sign and one encode step for each   *)
(* signer, and its cleanup.  Power may be lost between any two of them; the *)
(* caller then reloads the LmsKey from what was stored.  Definitions       *)
(* marked (slip) are bugs the properties must tell apart from the code.    *)
(***************************************************************************)
EXTENDS Checks

CONSTANTS
    N,         \* leaves of the key
    Handles,   \* WOLFCOSE_KEYs that may be attached to the one LmsKey
    Other,     \* a WOLFCOSE_KEY of another kind, fit for the signer's alg
    Calls,     \* the calls an application may make
    SigLen,    \* [alg -> signature length]
    ProtLen    \* [alg -> length of the protected header {1: alg}]

Apis == {"sign1", "sign"}

\* ES256 pre-hashes, ML-DSA and HSS-LMS sign in place, "none" is an algorithm
\* that the build lacks.
Algs == {"ES256", "MLDSA", "LMS", "none"}

Signer == [alg : Algs, key : Handles \cup {Other}, kidLen : Nat]

\* payloadLen is of the payload that is signed; ok stands for the argument
\* checks that look at no key: NULLs, kid and kidLen, inline and detached.
Call == [api : Apis, signers : Seq(Signer), payloadLen : Nat,
         detached : BOOLEAN, tagged : BOOLEAN, aadLen : Nat,
         scratchSz : Nat, outSz : Nat, ok : BOOLEAN]

ASSUME LeavesAssumption == N \in Nat \ {0}
ASSUME HandlesAssumption == Other \notin Handles
ASSUME LengthsAssumption == SigLen \in [Algs -> Nat] /\ ProtLen \in [Algs -> Nat]
ASSUME CallsAssumption ==
    Calls \subseteq {c \in Call : c.signers # <<>> /\ (c.api = "sign1" => Len(c.signers) = 1)}

VARIABLES
    lms,         \* the LmsKey in memory: its state and next leaf
    persisted,   \* the next leaf, as last stored by the write callback
    ext,         \* the next leaf of the delegated signer's backend
    cose,        \* the WOLFCOSE_KEYs
    pc, call, i, \* where the call stands, its arguments, the signer in turn
    idx,         \* outCtx.idx
    ret,         \* the code returned
    leaf,        \* the leaf whose signature the message carries
    spent,       \* ghost: leaves spent by this call
    faulty,      \* ghost: the one-time signer itself failed or lied
    releases     \* ghost: how often each leaf's signature left wolfCOSE

vars == <<lms, persisted, ext, cose, pc, call, i, idx, ret, leaf, spent, faulty,
          releases>>
keyVars == <<lms, persisted, ext, cose>>

Leaf == {"local", "ext"} \X (0 .. (N - 1))
NoLeaf == <<"none", 0>>
NoCall == [api |-> "none"]
Detached == [attached |-> FALSE, hasPrivate |-> FALSE, signCb |-> FALSE]
Unloaded == [state |-> "PARMSET", q |-> 0]

Init == /\ lms = Unloaded
        /\ persisted = 0
        /\ ext = 0
        /\ cose = [h \in Handles |-> Detached]
        /\ pc = "idle"
        /\ call = NoCall
        /\ i = 1
        /\ idx = 0
        /\ ret = "ok"
        /\ leaf = NoLeaf
        /\ spent = 0
        /\ faulty = FALSE
        /\ releases = [l \in Leaf |-> 0]

-----------------------------------------------------------------------------
(* Encoded sizes.                                                          *)

\* wolfCose_CborHeadSize and wolfCose_CborStringSize.
HeadSize(n) == IF n <= 23 THEN 1
               ELSE IF n <= 255 THEN 2
               ELSE IF n <= 65535 THEN 3
               ELSE 5

BstrSize(n) == HeadSize(n) + n

KidSize(s) == IF s.kidLen > 0 THEN 1 + BstrSize(s.kidLen) ELSE 0
PayloadSize(c) == IF c.detached THEN 1 ELSE BstrSize(c.payloadLen)

\* The Sig_structure: a context of 10 ("Signature1") or 9 bytes, the body's
\* protected header, the signer's own one in COSE_Sign, aad and payload.
StructLen(c, s) ==
    (IF c.api = "sign1"
     THEN 1 + BstrSize(10) + BstrSize(ProtLen[s.alg])
     ELSE 1 + BstrSize(9) + BstrSize(0) + BstrSize(ProtLen[s.alg]))
        + BstrSize(c.aadLen) + BstrSize(c.payloadLen)

\* (slip) the size query forgets the key identifier
Sign1SizeNoKid(c) ==
    LET s == c.signers[1]
    IN  (IF c.tagged THEN 1 ELSE 0) + 1 + BstrSize(ProtLen[s.alg]) + 1
            + PayloadSize(c) + BstrSize(SigLen[s.alg])

\* wc_CoseSign1_SignSize_ex.
Sign1Size(c) ==
    LET s == c.signers[1]
    IN  (IF c.tagged THEN 1 ELSE 0) + 1 + BstrSize(ProtLen[s.alg]) + 1 + KidSize(s)
            + PayloadSize(c) + BstrSize(SigLen[s.alg])

\* wolfCose_SignEncodedSize: the body, then every signer's COSE_Signature.
SignerSize(c, s) == 1 + BstrSize(ProtLen[s.alg]) + 1 + KidSize(s) + BstrSize(SigLen[s.alg])

EncodedUpTo(c) ==
    LET upTo[k \in 0 .. Len(c.signers)] ==
            IF k = 0
            THEN 5 + PayloadSize(c) + (BstrSize(Len(c.signers)) - Len(c.signers))
            ELSE upTo[k - 1] + SignerSize(c, c.signers[k])
    IN  upTo

SignEncodedSize(c) == EncodedUpTo(c)[Len(c.signers)]

\* What the encoders put out: the head of the message, and what follows each
\* signature operation.
BodySize(c) ==
    IF c.api = "sign1" THEN 0
    ELSE HeadSize(98) + 1 + BstrSize(0) + 1 + PayloadSize(c) + HeadSize(Len(c.signers))

SignatureSize(c, s) ==
    IF c.api = "sign1"
    THEN (IF c.tagged THEN HeadSize(18) ELSE 0) + 1 + BstrSize(ProtLen[s.alg])
             + 1 + KidSize(s) + PayloadSize(c) + BstrSize(SigLen[s.alg])
    ELSE 1 + BstrSize(ProtLen[s.alg]) + 1 + KidSize(s) + BstrSize(SigLen[s.alg])

-----------------------------------------------------------------------------
(* Keys.                                                                   *)

IsLms(s) == s.alg = "LMS"
InPlace(s) == s.alg \in {"MLDSA", "LMS"}
Delegated(s) == s.key \in Handles /\ cose[s.key].signCb

\* wolfCose_KeyCanSign.
CanSign(s) == s.key \in Handles => cose[s.key].hasPrivate \/ cose[s.key].signCb

\* The key->alg pin: SetLms pins HSS-LMS.
PinHolds(s) == (s.key \in Handles /\ cose[s.key].attached) => IsLms(s)

\* wolfCose_LmsCheckKey.
HasLmsKey(s) == s.key \in Handles /\ cose[s.key].attached

\* The LmsKey can sign now: state OK and wc_LmsKey_SigsLeft() = 1.
LmsReady == lms.state = "OK" /\ lms.q < N

\* wolfCose_SignSigLen: an HSS-LMS length is known only from an attached key.
SigLenCode(s) == CASE s.alg = "none"                -> "alg"
                   [] IsLms(s) /\ ~ HasLmsKey(s)    -> "key"
                   [] OTHER                         -> "ok"

-----------------------------------------------------------------------------
(* The calls.                                                              *)

KeyCode(s) == First(<<Fails(~ CanSign(s), "key"), Fails(~ PinHolds(s), "alg")>>)

\* Argument, key and pin checks; COSE_Sign looks at every signer first.
CheckCode(c) ==
    First(<<Fails(~ c.ok, "arg")>> \o [k \in 1 .. Len(c.signers) |-> KeyCode(c.signers[k])])

\* At most one HSS-LMS signer, in the last slot, so that nothing runs after it.
LmsPlaced(c) ==
    LET slots == {k \in 1 .. Len(c.signers) : IsLms(c.signers[k])}
    IN  slots \subseteq {Len(c.signers)}

HasLms(c) == \E k \in 1 .. Len(c.signers) : IsLms(c.signers[k])

\* Room for the Sig_structure and, after it or over it, the signature.
ScratchNeed(c, s) ==
    LET structure == StructLen(c, s)
        sig       == SigLen[s.alg]
    IN  IF InPlace(s) THEN structure + sig
        ELSE IF sig > structure THEN sig ELSE structure

\* (slip) the preflight trusts the key to have signatures left
SignPreflightNoState(c) ==
    First(<<Fails(~ LmsPlaced(c), "arg")>>
          \o [k \in 1 .. Len(c.signers) |-> SigLenCode(c.signers[k])]
          \o <<Fails(c.outSz < SignEncodedSize(c), "small")>>
          \o [k \in 1 .. Len(c.signers) |->
                 Fails(ScratchNeed(c, c.signers[k]) > c.scratchSz, "small")])

\* wc_CoseSign_Sign with an HSS-LMS signer: everything that can be known to go
\* wrong is looked at before any signer runs.
SignPreflight(c) ==
    First(<<Fails(~ LmsPlaced(c), "arg")>>
          \o [k \in 1 .. Len(c.signers) |-> SigLenCode(c.signers[k])]
          \o <<Fails(c.outSz < SignEncodedSize(c), "small")>>
          \o [k \in 1 .. Len(c.signers) |->
                 LET s == c.signers[k]
                 IN  First(<<Fails(StructLen(c, s) > c.scratchSz, "small"),
                             Fails(IsLms(s) /\ ~ Delegated(s) /\ ~ LmsReady, "key"),
                             Fails(ScratchNeed(c, s) > c.scratchSz, "small")>>)])

\* wc_CoseSign1_Sign_ex builds the Sig_structure before its size preflight.
Sign1Preflight(c) ==
    LET s == c.signers[1]
    IN  First(<<Fails(StructLen(c, s) > c.scratchSz, "small"),
                IF IsLms(s)
                THEN First(<<SigLenCode(s), Fails(c.outSz < Sign1Size(c), "small")>>)
                ELSE "ok">>)

PreflightCode(c) ==
    IF c.api = "sign1" THEN Sign1Preflight(c)
    ELSE IF HasLms(c) THEN SignPreflight(c) ELSE "ok"

\* What stands between a signer's turn and its backend.  COSE_Sign looks up the
\* hash of a local pre-hashing signer before it builds the Sig_structure.
TurnCode(c, s) ==
    First(<<Fails(c.api = "sign" /\ s.alg = "none" /\ ~ Delegated(s), "alg"),
            Fails(StructLen(c, s) > c.scratchSz, "small"),
            SigLenCode(s),
            Fails(c.api = "sign1" /\ IsLms(s) /\ ~ Delegated(s) /\ ~ LmsReady, "key"),
            Fails(InPlace(s) /\ StructLen(c, s) + SigLen[s.alg] > c.scratchSz, "small"),
            Fails(Delegated(s) /\ SigLen[s.alg] > c.scratchSz, "small")>>)

Turn == call.signers[i]

\* The call is over but for its cleanup.
Finish(code) == /\ pc' = "return"
                /\ ret' = code
                /\ call' = NoCall
                /\ i' = 1
                /\ idx' = 0

\* A call up to its first signature.  COSE_Sign also encodes the body by then.
Begin(c) ==
    /\ pc = "idle"
    /\ LET code == First(<<CheckCode(c), PreflightCode(c),
                           Fails(BodySize(c) > c.outSz, "small")>>)
       IN  IF code = "ok"
           THEN pc' = "sign" /\ call' = c /\ idx' = BodySize(c) /\ UNCHANGED <<i, ret>>
           ELSE Finish(code)
    /\ UNCHANGED <<keyVars, leaf, spent, faulty, releases>>

TurnRefused == /\ pc = "sign"
               /\ TurnCode(call, Turn) # "ok"
               /\ Finish(TurnCode(call, Turn))
               /\ UNCHANGED <<keyVars, leaf, spent, faulty, releases>>

\* A backend that spends no leaf: done, or an error from wolfCrypt or the callback.
SignOther == /\ pc = "sign"
             /\ TurnCode(call, Turn) = "ok"
             /\ ~ IsLms(Turn)
             /\ \/ pc' = "encode" /\ UNCHANGED <<call, i, idx, ret>>
                \/ Finish("crypto")
             /\ UNCHANGED <<keyVars, leaf, spent, faulty, releases>>

LocalTurn == /\ pc = "sign"
             /\ TurnCode(call, Turn) = "ok"
             /\ IsLms(Turn)
             /\ ~ Delegated(Turn)

\* (slip) a signature is used although storing the index may have failed
SignUnstored == /\ LocalTurn
                /\ lms.q < N
                /\ lms' = [lms EXCEPT !.q = @ + 1]
                /\ persisted' \in {persisted, lms.q + 1}
                /\ leaf' = <<"local", lms.q>>
                /\ spent' = spent + 1
                /\ pc' = "encode"
                /\ UNCHANGED <<ext, cose, call, i, idx, ret, faulty, releases>>

\* wc_LmsKey_Sign succeeds only once the advanced index has been stored.  It is
\* not relied on to refuse a key that wolfCOSE should not have let through.
SignLocal == /\ LocalTurn
             /\ lms.q < N
             /\ lms' = [lms EXCEPT !.q = @ + 1]
             /\ persisted' = lms.q + 1
             /\ leaf' = <<"local", lms.q>>
             /\ spent' = spent + 1
             /\ pc' = "encode"
             /\ UNCHANGED <<ext, cose, call, i, idx, ret, faulty, releases>>

\* (slip) the state wolfCrypt leaves behind is kept
KeepState(st) == st

\* After a failure the index in memory may be ahead of the stored one, and
\* wolfCrypt may still say OK: the key is marked bad unless it is exhausted.
Quarantine(st) == IF st # "NOSIGS" THEN "BAD" ELSE st

\* wc_LmsKey_Sign fails: before it took a leaf, or when storing the index, which
\* may have reached the store all the same.
SignLocalFails ==
    /\ LocalTurn
    /\ \E q \in {lms.q, lms.q + 1}, st \in {"OK", "BAD", "NOSIGS"} :
           /\ q <= N
           /\ st = "NOSIGS" => q = N
           /\ lms' = [state |-> Quarantine(st), q |-> q]
           /\ persisted' \in {persisted, q}
           /\ spent' = spent + (q - lms.q)
    /\ faulty' = TRUE
    /\ Finish("crypto")
    /\ UNCHANGED <<ext, cose, leaf, releases>>

DelegatedTurn == /\ pc = "sign"
                 /\ TurnCode(call, Turn) = "ok"
                 /\ IsLms(Turn)
                 /\ Delegated(Turn)
                 /\ ext < N

SignDelegated == /\ DelegatedTurn
                 /\ ext' = ext + 1
                 /\ leaf' = <<"ext", ext>>
                 /\ spent' = spent + 1
                 /\ pc' = "encode"
                 /\ UNCHANGED <<lms, persisted, cose, call, i, idx, ret, faulty, releases>>

\* The callback fails, with or without having taken a leaf, or reports a length
\* other than the algorithm's (wolfCose_ExtSign).
SignDelegatedFails == /\ pc = "sign"
                      /\ TurnCode(call, Turn) = "ok"
                      /\ IsLms(Turn)
                      /\ Delegated(Turn)
                      /\ \E n \in {0, 1} : /\ ext + n <= N
                                           /\ ext' = ext + n
                                           /\ spent' = spent + n
                      /\ faulty' = TRUE
                      /\ Finish("crypto")
                      /\ UNCHANGED <<lms, persisted, cose, leaf, releases>>

Encode == /\ pc = "encode"
          /\ LET end == idx + SignatureSize(call, Turn)
             IN  IF end > call.outSz THEN Finish("small")
                 ELSE IF i = Len(call.signers) THEN Finish("ok")
                 ELSE /\ pc' = "sign"
                      /\ i' = i + 1
                      /\ idx' = end
                      /\ UNCHANGED <<call, ret>>
          /\ UNCHANGED <<keyVars, leaf, spent, faulty, releases>>

\* The call's locals are gone.
EndCall == /\ pc' = "idle"
           /\ call' = NoCall
           /\ i' = 1
           /\ idx' = 0
           /\ ret' = "ok"
           /\ leaf' = NoLeaf
           /\ spent' = 0
           /\ faulty' = FALSE

\* Cleanup: scratch is zeroed always, out and *outLen on failure, so that only a
\* successful call hands a signature out.
Return == /\ pc = "return"
          /\ EndCall
          /\ releases' = IF ret = "ok" /\ leaf \in Leaf
                         THEN [releases EXCEPT ![leaf] = @ + 1]
                         ELSE releases
          /\ UNCHANGED keyVars

-----------------------------------------------------------------------------
(* What the application does around the calls.                             *)

\* wc_CoseKey_SetLms: replaces a delegated signer, and reads the key's state once.
Attach(h) == /\ pc = "idle"
             /\ cose' = [cose EXCEPT ![h] = [attached   |-> TRUE,
                                             hasPrivate |-> lms.state = "OK",
                                             signCb     |-> FALSE]]
             /\ UNCHANGED <<lms, persisted, ext, pc, call, i, idx, ret, leaf, spent,
                            faulty, releases>>

\* wc_CoseKey_SetExtSigner: installs or removes the callback, nothing else.
SetExtSigner(h) == /\ pc = "idle"
                   /\ \E cb \in BOOLEAN : cose' = [cose EXCEPT ![h].signCb = cb]
                   /\ UNCHANGED <<lms, persisted, ext, pc, call, i, idx, ret, leaf,
                                  spent, faulty, releases>>

\* wc_LmsKey_Init and wc_LmsKey_Reload: the one LmsKey again, from the store.
Reload == /\ pc = "idle"
          /\ lms' = [state |-> IF persisted < N THEN "OK" ELSE "NOSIGS", q |-> persisted]
          /\ UNCHANGED <<persisted, ext, cose, pc, call, i, idx, ret, leaf, spent,
                         faulty, releases>>

\* Power is lost: what was stored is all that is left.
Crash == /\ lms' = Unloaded
         /\ cose' = [h \in Handles |-> Detached]
         /\ EndCall
         /\ UNCHANGED <<persisted, ext, releases>>

Next == \/ \E c \in Calls : Begin(c)
        \/ TurnRefused
        \/ SignOther
        \/ SignLocal
        \/ SignLocalFails
        \/ SignDelegated
        \/ SignDelegatedFails
        \/ Encode
        \/ Return
        \/ \E h \in Handles : Attach(h) \/ SetExtSigner(h)
        \/ Reload
        \/ Crash

Spec == Init /\ [][Next]_vars

-----------------------------------------------------------------------------
(* Properties.                                                             *)

LmsStates == {"PARMSET", "OK", "BAD", "NOSIGS"}
Codes == {"ok", "arg", "key", "alg", "small", "crypto"}

TypeOK == /\ lms \in [state : LmsStates, q : 0 .. N]
          /\ persisted \in 0 .. N
          /\ ext \in 0 .. N
          /\ cose \in [Handles -> [attached : BOOLEAN, hasPrivate : BOOLEAN,
                                   signCb : BOOLEAN]]
          /\ pc \in {"idle", "sign", "encode", "return"}
          /\ IF pc \in {"sign", "encode"} THEN call \in Calls ELSE call = NoCall
          /\ i \in Nat \ {0}
          /\ idx \in Nat
          /\ ret \in Codes
          /\ leaf \in Leaf \cup {NoLeaf}
          /\ spent \in Nat
          /\ faulty \in BOOLEAN
          /\ releases \in [Leaf -> Nat]

\* No one-time leaf signs two messages: over any sequence of calls, failed writes,
\* reloads and power losses each leaf's signature leaves wolfCOSE at most once.
NoLeafReleasedTwice == \A l \in Leaf : releases[l] <= 1

\* A key that may sign is one whose next leaf is the stored one: after a failed
\* write the key is out of use until it is reloaded.
ReadyMeansPersisted == lms.state = "OK" => lms.q = persisted

\* A leaf is spent for nothing only if the one-time signer itself failed: no call
\* that takes a leaf is refused, runs out of room or loses another signer after it.
NoLeafSpentForNothing ==
    (pc = "return" /\ spent > 0 /\ ret # "ok") => faulty

\* One call takes at most one leaf, even with several HSS-LMS signers.
OneLeafPerCall == spent <= 1

\* A key out of use stays so, whatever handle it is signed through, until it is
\* loaded again; an exhausted key is never turned into a bad one, so that its
\* public half can still be told apart and exported.
OutOfUseUntilReload ==
    [][lms.state \in {"BAD", "NOSIGS"} /\ lms' # lms => Reload \/ Crash]_vars

\* What docs/API-Reference.md says of wc_CoseKey_SetLms: "If a signing call fails,
\* wolfCOSE marks the LmsKey bad and it cannot sign again through any attachment
\* until the caller reloads it".
FailedCallMarksKeyBad ==
    [][(pc = "sign" /\ IsLms(Turn) /\ ~ Delegated(Turn) /\ pc' = "return" /\ ret' # "ok")
           => lms'.state # "OK"]_vars

=============================================================================
