------------------------------ MODULE CborSize ------------------------------
(***************************************************************************)
(* How many bytes an item takes in preferred CBOR, as wolfCOSE computes it *)
(* ahead of encoding (src/src/wolfcose_key.c).                             *)
(***************************************************************************)
EXTENDS Integers

\* wolfCose_CborHeadSize and wolfCose_CborStringSize.
HeadSize(n) == IF n <= 23 THEN 1
               ELSE IF n <= 255 THEN 2
               ELSE IF n <= 65535 THEN 3
               ELSE 5

BstrSize(n) == HeadSize(n) + n

\* (slip) the size of n rather than of -1 - n
IntSizeNegated(v) == HeadSize(IF v < 0 THEN - v ELSE v)

\* What wc_CBOR_EncodeInt writes (src/src/wolfcose_cbor.c).
WrittenIntSize(v) == HeadSize(IF v >= 0 THEN v ELSE - (v + 1))

\* wolfCose_CborIntSize.
IntSize(v) == HeadSize(IF v < 0 THEN -1 - v ELSE v)

\* wolfCose_ReservedBstrSize: a string exported behind a reserved head.
ReservedBstrSize(n) == (IF n < 256 THEN 2 ELSE 3) + n

=============================================================================
