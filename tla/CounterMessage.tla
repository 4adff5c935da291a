--------------------------- MODULE CounterMessage ---------------------------
(***************************************************************************)
(* What attaching a countersignature promises to whoever reads the         *)
(* message: a new full countersignature comes after the ones that are      *)
(* there, there is at most one abbreviated one, and everything else in the *)
(* message stays as it was.  docs/Message-Types.md: "Appending another     *)
(* full countersignature preserves existing values".                       *)
(***************************************************************************)
EXTENDS Integers, Sequences, Functions

CONSTANT MaxItems   \* WOLFCOSE_MAX_MAP_ITEMS: of a header map and of a list

VARIABLE message    \* what the parser makes of the bytes

\* "rest" is all that is neither countersignature: the tag, the protected header,
\* the other header parameters in their order, the legacy countersignatures, the
\* payload and what follows it.
Init == /\ DOMAIN message = {"readable", "rest", "full", "abbreviated"}
        /\ Len(message.full) <= MaxItems
        /\ Len(message.abbreviated) <= 1

Hidden(label) == \* adding a V2 value would hide this legacy one from a reader
    \E k \in DOMAIN message.rest.entries : message.rest.entries[k][1][2] = label

\* Parameters of the unprotected header.
Count == Len(message.rest.entries) + (IF message.full = <<>> THEN 0 ELSE 1)
             + Len(message.abbreviated)

AddFull == /\ message.readable
           /\ ~ Hidden(7)
           /\ IF message.full = <<>> THEN Count < MaxItems
                                     ELSE Len(message.full) < MaxItems
           /\ \E c \in Range(message'.full) :
                  message' = [message EXCEPT !.full = Append(@, c)]

AddAbbreviated == /\ message.readable
                  /\ ~ Hidden(9)
                  /\ message.abbreviated = <<>>
                  /\ Count < MaxItems
                  /\ \E c \in Range(message'.abbreviated) :
                         message' = [message EXCEPT !.abbreviated = <<c>>]

Next == AddFull \/ AddAbbreviated

Spec == Init /\ [][Next]_message

=============================================================================
