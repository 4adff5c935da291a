---------------------------- MODULE MCLmsSigning ----------------------------
(***************************************************************************)
(* A key of two leaves behind two WOLFCOSE_KEYs, and calls with buffers    *)
(* that fit exactly or fall short by one byte.                             *)
(***************************************************************************)
EXTENDS LmsSigning

CONSTANTS h1, h2

MCHandles == {h1, h2}
MCSigLen  == [ES256 |-> 64, MLDSA |-> 2420, LMS |-> 1296, none |-> 8]
MCProtLen == [ES256 |-> 3, MLDSA |-> 4, LMS |-> 4, none |-> 3]

S(alg, key, kidLen) == [alg |-> alg, key |-> key, kidLen |-> kidLen]

Lists1 == { <<S("LMS", h1, 0)>>, <<S("LMS", h2, 4)>>, <<S("LMS", Other, 0)>>,
            <<S("ES256", h1, 0)>>, <<S("MLDSA", Other, 4)>>, <<S("none", Other, 0)>> }

ListsN == { <<S("LMS", h1, 4)>>,
            <<S("ES256", Other, 0), S("LMS", h1, 4)>>,
            <<S("LMS", h1, 0), S("ES256", Other, 0)>>,
            <<S("LMS", h1, 0), S("LMS", h2, 0)>>,
            <<S("none", Other, 0), S("LMS", h2, 0)>>,
            <<S("MLDSA", Other, 0), S("ES256", h2, 4), S("LMS", h1, 0)>>,
            <<S("ES256", Other, 0), S("MLDSA", Other, 0)>> }

Shape(api, list, payloadLen, detached, tagged, ok) ==
    [api |-> api, signers |-> list, payloadLen |-> payloadLen, detached |-> detached,
     tagged |-> tagged, aadLen |-> 0, scratchSz |-> 0, outSz |-> 0, ok |-> ok]

\* The message's own size, and the largest scratch a signer needs.
MessageSize(c) ==
    LET upTo[k \in 0 .. Len(c.signers)] ==
            IF k = 0 THEN BodySize(c) ELSE upTo[k - 1] + SignatureSize(c, c.signers[k])
    IN  upTo[Len(c.signers)]

LargestNeed(c) ==
    LET needs == {ScratchNeed(c, c.signers[k]) : k \in 1 .. Len(c.signers)}
    IN  CHOOSE n \in needs : \A m \in needs : m <= n

Sized(c, shortOut, shortScratch) ==
    [c EXCEPT !.outSz = MessageSize(c) - shortOut,
              !.scratchSz = LargestNeed(c) - shortScratch]

Shapes == {Shape("sign1", l, 20, b, ~ b, TRUE) : l \in Lists1, b \in BOOLEAN}
          \cup {Shape("sign", l, 300, FALSE, TRUE, TRUE) : l \in ListsN}
          \cup {Shape("sign", l, 300, TRUE, TRUE, TRUE) : l \in {<<S("LMS", h1, 4)>>}}

MCCalls == {Sized(c, o, 0) : c \in Shapes, o \in {0, 1}}
           \cup {Sized(c, 0, 1) : c \in {d \in Shapes : HasLms(d)}}
           \cup {[Sized(Shape("sign1", <<S("LMS", h1, 0)>>, 20, FALSE, TRUE, FALSE), 0, 0)
                     EXCEPT !.ok = FALSE]}

=============================================================================
