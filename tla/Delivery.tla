------------------------------ MODULE Delivery ------------------------------
(***************************************************************************)
(* What the messages under one key promise an application: it is given     *)
(* either nothing or what a holder of the key sealed, told under which     *)
(* algorithm and for which external data.                                  *)
(***************************************************************************)
CONSTANT Facts \* what can be sealed: [api, key, alg, aad, payload]

VARIABLES
    sealed, \* what has been sealed so far
    given   \* the one thing the application holds, {} for nothing

TypeOK == /\ sealed \subseteq Facts
          /\ \E f \in Facts : given \subseteq {f}

Init == /\ sealed \subseteq Facts
        /\ given = {}

Seal(f) == /\ sealed' = sealed \cup {f}
           /\ UNCHANGED given

\* A call takes back what the one before it gave.
Withdraw == /\ given # {}
            /\ given' = {}
            /\ UNCHANGED sealed

Give(f) == /\ given = {}
           /\ f \in sealed
           /\ given' = {f}
           /\ UNCHANGED sealed

Next == \/ \E f \in Facts : Seal(f) \/ Give(f)
        \/ Withdraw

Spec == Init /\ [][Next]_<<sealed, given>>

=============================================================================
