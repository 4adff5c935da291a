----------------------------- MODULE CborCodec ------------------------------
(***************************************************************************)
(* The public CBOR encoder and the typed decoders over the head decoder    *)
(* (src/src/wolfcose_cbor.c: the wc_CBOR_Encode and wc_CBOR_Decode calls). *)
(*                                                                         *)
(* An application writes items into a buffer, going on after a call that   *)
(* failed if it likes, and then a reader is opened on what was written; or *)
(* the reader is given the bytes of someone else.  The reader calls any    *)
(* decoder at any place.  64-bit integers keep their width: four 16-bit    *)
(* limbs, an int64_t in two's complement.  The names of the specification  *)
(* differ from those of CborSkip, so that a module can extend both.        *)
(*                                                                         *)
(* Definitions marked (slip) are bugs that the checks must tell apart from *)
(* the code; nothing else uses them.                                       *)
(***************************************************************************)
EXTENDS CborHead, SequencesExt

CONSTANTS Items,     \* [size of the encoder's buffer -> bound on what is written]
          Unsigned,  \* arguments of EncodeUint
          Counts,    \* arguments of EncodeTag and of the Starts, bits of floats
          Signed,    \* arguments of EncodeInt, two's complement
          Strings,   \* contents of byte and text strings
          Foreign    \* messages of other encoders

ASSUME CodecAssumption ==
    /\ Unsigned \cup Counts \subseteq Arg /\ Signed \subseteq Arg
    /\ Strings \cup Foreign \subseteq {b \in Seq(Byte) : Len(b) < Huge}
    /\ DOMAIN Items \subseteq 0 .. (Huge - 1)
    /\ \A size \in DOMAIN Items : Items[size] \in Nat

VARIABLES ctx,       \* WOLFCOSE_CBOR_CTX: buf (bufSz is its length) and idx
          mode,      \* "encode" or "decode": which initializer was called
          flags,     \* the decode flag ALLOW_NONPREFERRED
          log,       \* the items written, with their places
          last       \* what the last call returned

codecVars == <<ctx, mode, flags, log, last>>

NoCall == [op |-> "none", ret |-> "ok", mt |-> UINT, val |-> Small(0),
           data |-> <<>>, from |-> 0, to |-> 0]

-----------------------------------------------------------------------------
(* Integers of 64 bits.                                                    *)

Complement(v) == [i \in 1 .. 4 |-> 65535 - v[i]]

AddOne(v) ==
    LET carry(i) == \A j \in (i + 1) .. 4 : v[j] = 65535
    IN  [i \in 1 .. 4 |-> (v[i] + IF carry(i) THEN 1 ELSE 0) % 65536]

Negate(v)   == AddOne(Complement(v))
Negative(v) == v[1] >= 32768

\* (uint64_t)(-(val + 1)), the argument of a negative integer.
\* (slip) the argument of n is -n
NegativeArgOf(v) == Negate(v)

NegativeArg(v) == Negate(AddOne(v))

\* A size_t as the argument of a head.
SizeArg(n) == <<0, 0, n \div 65536, n % 65536>>

\* -1 - (int64_t)item.val: -1 is all ones, so that no limb borrows.
MinusOneMinus(n) == [i \in 1 .. 4 |-> 65535 - n[i]]

-----------------------------------------------------------------------------
(* The bytes of an item: wolfCose_CBOR_EncodeHead and its callers.         *)

BE16(limb) == <<limb \div 256, limb % 256>>
BE32(v)    == BE16(v[3]) \o BE16(v[4])
BE64(v)    == BE16(v[1]) \o BE16(v[2]) \o BE32(v)

HeadOf(mt, v) ==
    LET below(limbs) == \A i \in 1 .. limbs : v[i] = 0
    IN  CASE below(3) /\ v[4] <= 23  -> <<32 * mt + v[4]>>
          [] below(3) /\ v[4] \in 24 .. 255 -> <<32 * mt + 24, v[4]>>
          [] below(3) /\ v[4] > 255  -> <<32 * mt + 25>> \o BE16(v[4])
          [] below(2) /\ v[3] > 0    -> <<32 * mt + 26>> \o BE32(v)
          [] OTHER                   -> <<32 * mt + 27>> \o BE64(v)

IntHead(v) == IF Negative(v) THEN HeadOf(NEGINT, NegativeArg(v)) ELSE HeadOf(UINT, v)

\* wolfCose_CBOR_HasRoom.
\* (slip) one byte too many
HasRoomLoose(need) == need <= Len(ctx.buf) - ctx.idx + 1

HasRoom(need) == need <= Len(ctx.buf) - ctx.idx

Store(bytes) ==
    LET end == ctx.idx + Len(bytes)
    IN  [buf |-> SubSeq(ctx.buf, 1, ctx.idx) \o bytes \o SubSeq(ctx.buf, end + 1, Len(ctx.buf)),
         idx |-> end]

Wrote(kind, val, data, bytes) ==
    /\ ctx' = Store(bytes)
    /\ log' = Append(log, [kind |-> kind, val |-> val, data |-> data,
                           from |-> ctx.idx, to |-> ctx.idx + Len(bytes)])

Written(kind, val, data, bytes) ==
    Wrote(kind, val, data, bytes) /\ last' = [NoCall EXCEPT !.op = kind]

Failed(kind, ret) == last' = [NoCall EXCEPT !.op = kind, !.ret = ret]

Writing == mode = "encode" /\ Len(log) < Items[Len(ctx.buf)]

\* An item that is a head and nothing else is written whole or not at all.
EncodeWhole(kind, val, bytes) ==
    /\ Writing
    /\ \/ HasRoom(Len(bytes)) /\ Written(kind, val, <<>>, bytes)
       \/ ~ HasRoom(Len(bytes)) /\ Failed(kind, "tooSmall") /\ UNCHANGED <<ctx, log>>
    /\ UNCHANGED <<mode, flags>>

EncodeUint       == \E v \in Unsigned : EncodeWhole("uint", v, HeadOf(UINT, v))
EncodeInt        == \E v \in Signed   : EncodeWhole("int", v, IntHead(v))
EncodeTag        == \E v \in Counts : EncodeWhole("tag", v, HeadOf(TAG, v))
EncodeArrayStart == \E v \in Counts : EncodeWhole("array", v, HeadOf(ARRAY, v))
EncodeMapStart   == \E v \in Counts : EncodeWhole("map", v, HeadOf(MAP, v))

\* EncodeFalse, EncodeTrue and EncodeNull.
EncodeSimpleVal == \E v \in {20, 21, 22} : EncodeWhole("simple", Small(v), <<224 + v>>)

\* Floats are kept as their bits; they have no shorter form.
EncodeFloat  == \E v \in Counts : /\ v[1] = 0 /\ v[2] = 0
                                  /\ EncodeWhole("simple", v, <<250>> \o BE32(v))
EncodeDouble == \E v \in Counts : EncodeWhole("simple", v, <<251>> \o BE64(v))

\* The head is written before the room for the contents is checked: a call
\* that fails then leaves it behind, and the context past it.
EncodeBytes(kind, mt, data) ==
    LET head  == HeadOf(mt, SizeArg(Len(data)))
        bytes == head \o data
    IN  \/ /\ HasRoom(Len(bytes))
           /\ Written(kind, Small(0), data, bytes)
        \/ /\ HasRoom(Len(head)) /\ ~ HasRoom(Len(bytes))
           /\ Wrote("stray", Small(0), <<>>, head)
           /\ Failed(kind, "tooSmall")
        \/ /\ ~ HasRoom(Len(head))
           /\ Failed(kind, "tooSmall")
           /\ UNCHANGED <<ctx, log>>

EncodeBstr ==
    /\ Writing
    /\ \E data \in Strings : EncodeBytes("bstr", BSTR, data)
    /\ UNCHANGED <<mode, flags>>

EncodeTstr ==
    /\ Writing
    /\ \E data \in Strings :
          IF IsUtf8(data)
          THEN EncodeBytes("tstr", TSTR, data)
          ELSE Failed("tstr", "malformed") /\ UNCHANGED <<ctx, log>>
    /\ UNCHANGED <<mode, flags>>

-----------------------------------------------------------------------------
(* The decoders.  The context stays where the head decoder left it, also   *)
(* when the decoder then refuses the item.  An output is a result only     *)
(* when the call succeeds (DecodeLabel clears its output before it looks). *)

\* wc_CBOR_DecoderInit on the bytes written.
DecoderInit ==
    /\ mode = "encode"
    /\ mode' = "decode"
    /\ flags' \in BOOLEAN
    /\ ctx' = [buf |-> SubSeq(ctx.buf, 1, ctx.idx), idx |-> 0]
    /\ last' = NoCall
    /\ UNCHANGED log

Next1 == DecodeHead(ctx.buf, ctx.idx, flags)

Return(op, item, ret, val) ==
    /\ mode = "decode"
    /\ ctx' = [ctx EXCEPT !.idx = item.idx]
    /\ last' = [op |-> op, ret |-> ret, mt |-> item.mt,
                val |-> IF ret = "ok" THEN val ELSE Small(0),
                data |-> IF ret = "ok" THEN item.data ELSE <<>>,
                from |-> ctx.idx, to |-> item.idx]
    /\ UNCHANGED <<mode, flags, log>>

\* The decoders that take one major type.
Typed(item, mt) == IF item.ret = "ok" /\ item.mt # mt THEN "type" ELSE item.ret

DecodeRaw  == Return("head", Next1, Next1.ret, Next1.val)
DecodeUint == Return("uint", Next1, Typed(Next1, UINT), Next1.val)
DecodeTag  == Return("tag", Next1, Typed(Next1, TAG), Next1.val)
DecodeBstr == Return("bstr", Next1, Typed(Next1, BSTR), Next1.val)
DecodeTstr == Return("tstr", Next1, Typed(Next1, TSTR), Next1.val)

\* An array needs a byte for each item, a map two for each pair.
Fits(item, perCount) == AsNat(item.val) <= (Len(ctx.buf) - item.idx) \div perCount

Container(item, mt, perCount) ==
    IF Typed(item, mt) = "ok" /\ ~ Fits(item, perCount) THEN "malformed" ELSE Typed(item, mt)

DecodeArrayStart == Return("array", Next1, Container(Next1, ARRAY, 1), Next1.val)
DecodeMapStart   == Return("map", Next1, Container(Next1, MAP, 2), Next1.val)

\* (slip) the argument is cast without a look at its size
IntCodeUnchecked(item) ==
    IF item.ret = "ok" /\ item.mt \notin {UINT, NEGINT} THEN "type" ELSE item.ret

IntCode(item) ==
    IF item.ret # "ok" THEN item.ret
    ELSE IF item.mt \notin {UINT, NEGINT} THEN "type"
    ELSE IF Negative(item.val) THEN "overflow"
    ELSE "ok"

IntVal(item) == IF item.mt = NEGINT THEN MinusOneMinus(item.val) ELSE item.val

DecodeInt == Return("int", Next1, IntCode(Next1), IntVal(Next1))

\* A label is an integer or a text string.
DecodeLabel ==
    Return("label", Next1,
           IF Next1.mt = TSTR THEN Next1.ret ELSE IntCode(Next1), IntVal(Next1))

-----------------------------------------------------------------------------
CodecInit ==
    /\ flags \in BOOLEAN
    /\ log = <<>>
    /\ last = NoCall
    /\ \/ /\ mode = "encode" /\ flags = FALSE
          /\ \E size \in DOMAIN Items : ctx = [buf |-> [i \in 1 .. size |-> 255], idx |-> 0]
       \/ /\ mode = "decode"
          /\ \E bytes \in Foreign : ctx = [buf |-> bytes, idx |-> 0]

Encode == \/ EncodeUint \/ EncodeInt \/ EncodeTag \/ EncodeArrayStart \/ EncodeMapStart
          \/ EncodeSimpleVal \/ EncodeFloat \/ EncodeDouble
          \/ EncodeBstr \/ EncodeTstr

Decode == \/ DecodeRaw \/ DecodeUint \/ DecodeInt \/ DecodeTag \/ DecodeLabel
          \/ DecodeBstr \/ DecodeTstr \/ DecodeArrayStart \/ DecodeMapStart

CodecNext == Encode \/ DecoderInit \/ Decode

CodecSpec == CodecInit /\ [][CodecNext]_codecVars

-----------------------------------------------------------------------------
(* Properties.                                                             *)

\* What an encoder wrote is not touched again, and nothing is written past the
\* cursor or past the end of the buffer; a call that fails leaves the context as
\* it was, except for the head of a string whose contents did not fit
\* (wolfCose_CBOR_EncodeBytes).
WritesOnlyAhead ==
    [][mode' = "encode" =>
          /\ ctx'.idx \in ctx.idx .. Len(ctx'.buf) /\ Len(ctx'.buf) = Len(ctx.buf)
          /\ \A i \in DOMAIN ctx.buf :
                i \notin (ctx.idx + 1) .. ctx'.idx => ctx'.buf[i] = ctx.buf[i]
          /\ last'.ret # "ok" /\ ctx' # ctx =>
                /\ last'.op \in {"bstr", "tstr"}
                /\ \E data \in Strings :
                      /\ ctx.idx + Len(HeadOf(BSTR, SizeArg(Len(data)))) = ctx'.idx
                      /\ ctx'.idx + Len(data) > Len(ctx.buf)]_codecVars

\* The buffer holds what the encoders wrote, item after item.
Whole ==
    /\ log = <<>> => ctx.buf = <<>>
    /\ \A it \in Range(log) : it.kind # "stray"

\* The entries that a container announces are in the log.
Followed(it, perCount) ==
    Cardinality({i \in DOMAIN log : log[i].from >= it.to}) >= perCount * AsNat(it.val)

\* What the decoder called should have returned for an item that was written.
Value(it)   == last.ret = "ok" /\ last.val = it.val
Data(it)    == last.ret = "ok" /\ last.data = it.data
Integer(it) == it.kind \in {"uint", "int"}

\* A reader never leaves the buffer.  Whichever decoder is called, and whether
\* it takes the item or refuses it for its type or its size, a reader of what
\* the encoders wrote stands at the beginning of an item or at the end: the
\* contents of a string are never read as items.
StaysOnItems ==
    /\ ctx.idx <= Len(ctx.buf)
    /\ mode = "decode" /\ Whole =>
           ctx.idx = Len(ctx.buf) \/ \E it \in Range(log) : it.from = ctx.idx

\* Whatever one encoder wrote, the decoder of that kind gives back: every
\* integer from -2^63 to 2^63 - 1 through EncodeInt and DecodeInt, the bits of
\* a float, a container whose entries follow; and the reader ends where the
\* next item begins (the strict decoders accept all that the encoders write).
ReadsBack ==
    /\ StaysOnItems
    /\ mode = "decode" /\ Whole /\ last.op # "none" =>
      \A it \in Range(log) : it.from = last.from =>
        /\ last.op = "head" => last.ret = "ok"
        /\ last.op = "head" /\ it.kind = "simple" => Value(it)
        /\ last.op = "uint" /\ Integer(it) /\ (it.kind = "uint" \/ ~ Negative(it.val)) => Value(it)
        /\ last.op \in {"int", "label"} /\ Integer(it) =>
              IF it.kind = "uint" /\ Negative(it.val) THEN last.ret = "overflow" ELSE Value(it)
        /\ last.op = "tag" /\ it.kind = "tag" => Value(it)
        /\ last.op = "array" /\ it.kind = "array" /\ Followed(it, 1) => Value(it)
        /\ last.op = "map" /\ it.kind = "map" /\ Followed(it, 2) => Value(it)
        /\ last.op = it.kind /\ it.kind \in {"bstr", "tstr"} => Data(it)
        /\ last.op = "label" /\ it.kind = "tstr" => Data(it)

\* The encoding of what the last call read.
Encoding ==
    CASE last.op = "int"                        -> IntHead(last.val)
      [] last.op = "label" /\ last.mt # TSTR    -> IntHead(last.val)
      [] OTHER -> IF last.mt \in {BSTR, TSTR}
                  THEN HeadOf(last.mt, SizeArg(Len(last.data))) \o last.data
                  ELSE HeadOf(last.mt, last.val)

\* A strict decoder takes one encoding of a value only: encoding what it read
\* gives the bytes it read, so that an integer is negative when it is on the
\* wire, and no argument is cut to fit an int64_t.  The tolerant one takes longer heads, never a
\* different value: the strict decoder reads the same from the encoding.
OneEncoding ==
    mode = "decode" /\ last.op # "none" /\ last.ret = "ok" /\ last.mt # SIMPLE =>
        /\ Len(Encoding) <= last.to - last.from
        /\ ~ flags => Encoding = Bytes(ctx.buf, last.from, last.to - last.from)
        /\ LET again == DecodeHead(Encoding, 0, FALSE)
               was   == DecodeHead(ctx.buf, last.from, flags)
           IN  again.ret = "ok" /\ again.mt = was.mt /\ again.val = was.val
                                /\ again.data = was.data

=============================================================================
