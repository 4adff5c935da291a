---------------------------- MODULE MCCborCodec -----------------------------
(***************************************************************************)
(* Values for CborCodec: both sides of every boundary of the head, of      *)
(* INT64_MIN and INT64_MAX, and heads of every form from other encoders.   *)
(***************************************************************************)
EXTENDS CborCodec

\* 0, 1, 23, 24, 255, 256, 65535, 65536, 2^32 - 1, 2^32, INT64_MAX, 2^63 and
\* UINT64_MAX.
MCUnsigned == { Small(n) : n \in {0, 1, 23, 24, 255, 256, 65535} } \cup
              { <<0, 0, 1, 0>>, <<0, 0, 65535, 65535>>, <<0, 1, 0, 0>>,
                <<32767, 65535, 65535, 65535>>, <<32768, 0, 0, 0>>,
                <<65535, 65535, 65535, 65535>> }

\* The ones that an int64_t holds, and -1 - n of each: down to INT64_MIN.
MCSigned == { v \in MCUnsigned : ~ Negative(v) } \cup
            { Complement(v) : v \in { u \in MCUnsigned : ~ Negative(u) } }

\* Nothing, text, a byte that looks like a head, text that is not UTF-8, and
\* a string whose head takes two bytes.
MCStrings == { <<>>, <<65>>, <<129>>, <<195, 160>>, [i \in 1 .. 24 |-> 24] }

\* Tags, counts that are there or not, and bits that a shorter head could
\* carry (0 as a float, 2^32 as a double).
MCCounts == { Small(0), Small(1), Small(24), <<0, 1, 0, 0>> }

\* Room for one item with the longest head, for two, and for the long string;
\* three items, a map with its pair, in a buffer that only holds short ones.
MCItems == (3 :> 3) @@ (9 :> 2) @@ (18 :> 2) @@ (26 :> 2)

\* Every initial byte whose argument is 0, 1, 23 or takes more bytes, with
\* arguments that need them or do not, whole and cut off, with bytes after.
Args == { <<>>, <<0>>, <<23>>, <<24>>, <<32>>, <<0, 255>>, <<1, 0>>,
          <<0, 0, 255, 255>>, <<0, 1, 0, 0>>, <<0, 0, 0, 0, 255, 255, 255, 255>>,
          <<0, 0, 0, 1, 0, 0, 0, 0>>, <<127, 255, 255, 255, 255, 255, 255, 255>>,
          <<128, 0, 0, 0, 0, 0, 0, 0>>, <<255, 255, 255, 255, 255, 255, 255, 255>> }

MCForeign == { <<32 * mt + ai>> \o arg : mt \in 0 .. 7,
                  ai \in {0, 1, 23, 24, 25, 26, 27, 28, 31}, arg \in Args } \cup
             { <<32 * mt + 2, 195, 160>> : mt \in 0 .. 7 }

=============================================================================
