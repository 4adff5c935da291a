------------------------------- MODULE Checks -------------------------------
(***************************************************************************)
(* wolfCOSE handlers run a list of checks, each guarded by the success of  *)
(* those before it ("if (ret == WOLFCOSE_SUCCESS) && ...").  The code a    *)
(* handler returns is therefore that of the first check that refuses.      *)
(***************************************************************************)
EXTENDS Integers, Sequences

FirstRefusal(codes) ==
    LET bad == {k \in 1 .. Len(codes) : codes[k] # "ok"}
    IN  IF bad = {} THEN "ok" ELSE codes[CHOOSE k \in bad : \A j \in bad : k <= j]

\* The first refusal, or ok.  A bound variable is evaluated once where TLC may
\* evaluate an argument wherever it stands, and lists of checks are nested.
First(codes) == CHOOSE code \in {FirstRefusal(list) : list \in {codes}} : TRUE

Fails(cond, code) == IF cond THEN code ELSE "ok"

=============================================================================
