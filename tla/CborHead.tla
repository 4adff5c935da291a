------------------------------ MODULE CborHead ------------------------------
(***************************************************************************)
(* The head decoder every wolfCOSE parser is built on                      *)
(* (src/src/wolfcose_cbor.c: wolfCose_CBOR_DecodeHead_ex and the typed     *)
(* decoders over it), as pure operators on a buffer of bytes.              *)
(*                                                                         *)
(* A buffer is a sequence of 0..255 and a position is the C index, so the  *)
(* byte at position i is buf[i + 1].  The 64-bit argument of a head is     *)
(* kept at its full width, as four 16-bit limbs, most significant first.   *)
(***************************************************************************)
EXTENDS Integers, Sequences

\* Major types (the top three bits of the initial byte).
UINT   == 0
NEGINT == 1
BSTR   == 2
TSTR   == 3
ARRAY  == 4
MAP    == 5
TAG    == 6
SIMPLE == 7

Byte == 0 .. 255
Limb == {n \in Nat : n <= 65535}
Arg  == [1 .. 4 -> Limb]

\* A limb value that no buffer's size reaches: arguments of 2^24 and more are
\* only ever compared with sizes, and every comparison goes the same way.
Huge == 16777216

AsNat(v) == IF v[1] = 0 /\ v[2] = 0 /\ v[3] < 256
            THEN v[3] * 65536 + v[4]
            ELSE Huge

Small(n) == <<0, 0, 0, n>>
Major(b) == b \div 32
Info(b)  == b % 32

\* How many argument bytes follow the initial byte (AI 24, 25, 26, 27).
ArgBytes(ai) == CASE ai = 24 -> 1
                  [] ai = 25 -> 2
                  [] ai = 26 -> 4
                  [] ai = 27 -> 8
                  [] OTHER   -> 0

\* wolfCose_LoadBE16/32/64 of the bytes from position i on.
Word(buf, i) == buf[i + 1] * 256 + buf[i + 2]

LoadBE(buf, i, n) ==
    IF n = 1 THEN Small(buf[i + 1])
    ELSE IF n = 2 THEN Small(Word(buf, i))
    ELSE IF n = 4 THEN <<0, 0, Word(buf, i), Word(buf, i + 2)>>
    ELSE <<Word(buf, i), Word(buf, i + 2), Word(buf, i + 4), Word(buf, i + 6)>>

\* An argument that a shorter head could have carried.
NonPreferred(ai, v) ==
    \/ ai = 24 /\ v[4] < 24
    \/ ai = 25 /\ v[4] < 256
    \/ ai = 26 /\ v[3] = 0
    \/ ai = 27 /\ v[1] = 0 /\ v[2] = 0

-----------------------------------------------------------------------------
(* wolfCose_CBOR_IsUtf8: the text scanner, one code point at a time.       *)

Utf8Len(first) == CASE first <= 127          -> 1
                    [] first \in 194 .. 223  -> 2
                    [] first \in 224 .. 239  -> 3
                    [] first \in 240 .. 244  -> 4
                    [] OTHER                 -> 0

\* The range of the byte after the first one: it is what keeps out overlong
\* forms (E0, F0), surrogates (ED) and values above U+10FFFF (F4).
Utf8Second(first) == CASE first = 224 -> 160 .. 191
                       [] first = 237 -> 128 .. 159
                       [] first = 240 -> 144 .. 191
                       [] first = 244 -> 128 .. 143
                       [] OTHER       -> 128 .. 191

Continuation == 128 .. 191

IsUtf8(data) ==
    LET ok[i \in 1 .. (Len(data) + 1)] ==
            \/ i = Len(data) + 1
            \/ LET n == Utf8Len(data[i])
               IN  /\ n > 0
                   /\ i + n <= Len(data) + 1
                   /\ n > 1 => data[i + 1] \in Utf8Second(data[i])
                   /\ \A k \in 2 .. (n - 1) : data[i + k] \in Continuation
                   /\ ok[i + n]
    IN  ok[1]

-----------------------------------------------------------------------------
(* wolfCose_CBOR_DecodeHead_ex.  The result holds the code returned, the   *)
(* item and the position the context is left at: a refused head has        *)
(* consumed its initial byte and whatever was read before the refusal.     *)

Item(ret, mt, val, data, idx) ==
    [ret |-> ret, mt |-> mt, val |-> val, data |-> data, idx |-> idx]

Bytes(buf, i, n) == SubSeq(buf, i + 1, i + n)

\* The payload of a byte or text string follows its head.
DecodeString(buf, mt, val, i) ==
    LET n == AsNat(val)
    IN  IF n > Len(buf) - i
        THEN Item("malformed", mt, val, <<>>, i)
        ELSE Item(IF mt = TSTR /\ ~ IsUtf8(Bytes(buf, i, n))
                  THEN "malformed" ELSE "ok",
                  mt, val, Bytes(buf, i, n), i + n)

\* "tolerant" is WOLFCOSE_COSE_DECODE_ALLOW_NONPREFERRED: the profile parsers
\* (PSA attestation) accept any head size.
DecodeHead(buf, idx, tolerant) ==
    LET mt  == Major(buf[idx + 1])
        ai  == Info(buf[idx + 1])
        n   == ArgBytes(ai)
        val == IF n = 0 THEN Small(ai) ELSE LoadBE(buf, idx + 1, n)
        end == idx + 1 + n
    IN  IF idx >= Len(buf)
        THEN Item("malformed", UINT, Small(0), <<>>, idx)
        ELSE IF ai > 27
        THEN Item(IF ai = 31 THEN "unsupported" ELSE "malformed",
                  mt, Small(0), <<>>, idx + 1)
        ELSE IF end > Len(buf)
        THEN Item("malformed", mt, Small(0), <<>>, idx + 1)
        ELSE IF \/ mt = SIMPLE /\ ai = 24 /\ val[4] < 32
                \/ mt # SIMPLE /\ ~ tolerant /\ NonPreferred(ai, val)
        THEN Item("malformed", mt, val, <<>>, end)
        ELSE IF mt \in {BSTR, TSTR}
        THEN DecodeString(buf, mt, val, end)
        ELSE Item("ok", mt, val, <<>>, end)

=============================================================================
