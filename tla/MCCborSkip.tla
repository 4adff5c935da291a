----------------------------- MODULE MCCborSkip -----------------------------
(***************************************************************************)
(* Bounded inputs for CborSkip: every buffer of up to three bytes over an  *)
(* alphabet with one head of each kind, and the long heads, deep nestings  *)
(* and counts at SIZE_MAX / 2 that do not fit in three bytes.              *)
(***************************************************************************)
EXTENDS CborSkip

\* 0, bstr(1), tstr(1), [], [1 item], [2 items], {1 pair}, tag, 1-byte
\* argument, non-preferred/simple argument prefix, reserved, indefinite.
Alphabet == {0, 65, 97, 128, 129, 130, 161, 193, 24, 248, 28, 159}

Short == UNION {[1 .. n -> Alphabet] : n \in 0 .. 3}

\* Containers nested up to one past the limit, around tags and siblings.
Nested == [1 .. 5 -> {0, 129, 130, 161, 193}]

\* Counts of 16, 32 and 64 bits: preferred, padded and truncated; text that
\* is not UTF-8; a string that runs past the end.
Long == { <<153, 1, 0, 0>>, <<153, 0, 1, 0>>, <<154, 0, 1, 0, 0, 0>>,
          <<154, 0, 0, 0, 1, 0>>, <<185, 255, 255>>, <<154, 255, 255, 255>>,
          <<155, 255, 255, 255, 255, 255, 255, 255, 255>>,
          <<187, 128, 0, 0, 0, 0, 0, 0, 0, 0>>,
          <<155, 0, 0, 0, 0, 0, 0, 0, 1, 0>>,
          <<187, 0, 0, 0, 0, 0, 0, 0, 1, 0, 0>>,
          <<91, 0, 0, 0, 0, 0, 0, 0, 2, 7, 7>>, <<98, 195, 40, 0>>,
          <<98, 195, 160, 0>>, <<99, 237, 160, 128>>, <<120, 3, 65, 66, 67>>,
          <<88, 24>> \o [i \in 1 .. 24 |-> 255],
          <<130, 129, 0, 163, 0, 0, 1, 1, 2, 2, 9>> }

\* Maps of 15 pairs, all there in as many bytes as a size_t can count, of 16, which
\* twice over is one past SIZE_MAX, and of 17.
Wide == {<<h>> \o [i \in 1 .. 30 |-> 0] : h \in {175, 176, 177}}

MCInputs == Short \cup Nested \cup Long \cup Wide

=============================================================================
