------------------------------ MODULE CborSkip ------------------------------
(***************************************************************************)
(* wolfCose_CBOR_Skip_ex and wc_CBOR_SkipItem: stepping over one complete  *)
(* CBOR item with a fixed stack instead of recursion.  Every header, key   *)
(* and claims parser relies on it to step over what it does not            *)
(* understand, so an item skipped short would be parsed as something else. *)
(*                                                                         *)
(* One action is one pass of the decode loop, split by what the head is;   *)
(* Unwind is one pass of the inner loop that leaves exhausted levels.      *)
(* Definitions marked (slip) are the bugs the properties must tell apart   *)
(* from the code; no specification uses them.                              *)
(***************************************************************************)
EXTENDS CborHead

CONSTANTS
    Inputs,    \* the buffers a caller may hand over
    MaxDepth,  \* WOLFCOSE_CBOR_MAX_DEPTH
    SizeMax    \* SIZE_MAX, the largest size_t

ASSUME InputsAssumption == Inputs \subseteq {b \in Seq(Byte) : Len(b) < Huge}

ASSUME MaxDepthAssumption == MaxDepth \in Nat \ {0}

\* ctx->bufSz is a size_t.
ASSUME SizeMaxAssumption == SizeMax \in Nat /\ \A b \in Inputs : Len(b) <= SizeMax

VARIABLES
    buf,        \* ctx->cbuf, of size ctx->bufSz
    tolerant,   \* decodeFlags
    start,      \* ctx->idx at the call
    idx,        \* ctx->idx
    stack,      \* stack[MaxDepth]: not initialised by the code
    depth,      \* levels in use
    remaining,  \* items left to skip at this level
    ret,        \* the code to return
    pc,         \* where the loop stands
    heads       \* ghost: heads decoded so far

vars == <<buf, tolerant, start, idx, stack, depth, remaining, ret, pc, heads>>

\* No count the code ever stores.
Uninit == -1

Init == /\ buf \in Inputs
        /\ tolerant \in BOOLEAN
        /\ start \in 0 .. Len(buf)
        /\ idx = start
        /\ stack = [d \in 0 .. (MaxDepth - 1) |-> Uninit]
        /\ depth = 0
        /\ remaining = 1
        /\ ret = "ok"
        /\ pc = "head"
        /\ heads = 0

-----------------------------------------------------------------------------
(* The decode loop.                                                        *)

NextItem == DecodeHead(buf, idx, tolerant)

IsContainer(item) == item.mt \in {ARRAY, MAP} /\ item.val # Small(0)

\* (slip) a map is taken for as many items as it has pairs
OneItemPerPair(item) == AsNat(item.val)

\* (size_t)n
Narrow(n) == n % (SizeMax + 1)

\* Items a container announces: a map entry is a key and a value.
Children(item) == Narrow(IF item.mt = MAP THEN 2 * AsNat(item.val) ELSE AsNat(item.val))

\* (slip) the doubling of a map's count is not guarded
MoreThanBytes(item) == AsNat(item.val) > Len(buf)

\* More items than bytes, or twice a map's count is no size_t.
TooMany(item) == \/ AsNat(item.val) > Len(buf)
                 \/ item.mt = MAP /\ AsNat(item.val) > SizeMax \div 2

\* (slip) the tag number is peeked at and read again
PeekTag == /\ pc = "head"
           /\ remaining > 0
           /\ idx' = IF NextItem.mt = TAG THEN idx ELSE NextItem.idx
           /\ heads' = heads + 1
           /\ UNCHANGED <<buf, tolerant, start>>

\* A head is read only while items remain and nothing was refused.
ReadHead == /\ pc = "head"
            /\ remaining > 0
            /\ idx' = NextItem.idx
            /\ heads' = heads + 1
            /\ UNCHANGED <<buf, tolerant, start>>

Refuse(code) == /\ ret' = code
                /\ pc' = "done"
                /\ UNCHANGED <<stack, depth>>

\* DecodeHead fails: break out of the loop before remaining is touched.
HeadRefused == /\ ReadHead
               /\ NextItem.ret # "ok"
               /\ Refuse(NextItem.ret)
               /\ UNCHANGED remaining

\* An integer, string, simple value or empty container.
SkipLeaf == /\ ReadHead
            /\ NextItem.ret = "ok"
            /\ NextItem.mt # TAG
            /\ ~ IsContainer(NextItem)
            /\ remaining' = remaining - 1
            /\ pc' = "unwind"
            /\ UNCHANGED <<stack, depth, ret>>

\* A tag wraps exactly one item, at no cost in depth.
SkipTag == /\ ReadHead
           /\ NextItem.ret = "ok"
           /\ NextItem.mt = TAG
           /\ remaining' = (remaining - 1) + 1
           /\ pc' = "unwind"
           /\ UNCHANGED <<stack, depth, ret>>

ContainerTooDeep == /\ ReadHead
                    /\ NextItem.ret = "ok"
                    /\ IsContainer(NextItem)
                    /\ depth >= MaxDepth
                    /\ remaining' = remaining - 1
                    /\ Refuse("depth")

\* Refused before the count is narrowed or doubled.
CountTooLarge == /\ ReadHead
                 /\ NextItem.ret = "ok"
                 /\ IsContainer(NextItem)
                 /\ depth < MaxDepth
                 /\ TooMany(NextItem)
                 /\ remaining' = remaining - 1
                 /\ Refuse("malformed")

EnterContainer == /\ ReadHead
                  /\ NextItem.ret = "ok"
                  /\ IsContainer(NextItem)
                  /\ depth < MaxDepth
                  /\ ~ TooMany(NextItem)
                  /\ stack' = [stack EXCEPT ![depth] = remaining - 1]
                  /\ depth' = depth + 1
                  /\ remaining' = Children(NextItem)
                  /\ pc' = "unwind"
                  /\ UNCHANGED ret

\* (slip) the level is read before it is left
UnwindWrongSlot == /\ pc = "unwind"
                   /\ remaining = 0
                   /\ depth > 0
                   /\ depth' = depth - 1
                   /\ remaining' = IF depth < MaxDepth THEN stack[depth] ELSE Uninit
                   /\ UNCHANGED <<buf, tolerant, start, idx, stack, ret, pc, heads>>

\* (slip) the level is never left
UnwindKeepsLevel == /\ pc = "unwind"
                    /\ remaining = 0
                    /\ depth > 0
                    /\ remaining' = stack[depth - 1]
                    /\ UNCHANGED <<buf, tolerant, start, idx, stack, depth, ret, pc,
                                   heads>>

\* Leave one exhausted level.
Unwind == /\ pc = "unwind"
          /\ remaining = 0
          /\ depth > 0
          /\ depth' = depth - 1
          /\ remaining' = stack[depth - 1]
          /\ UNCHANGED <<buf, tolerant, start, idx, stack, ret, pc, heads>>

\* The inner loop ends; the outer one goes on while items remain.
EndUnwind == /\ pc = "unwind"
             /\ ~ (remaining = 0 /\ depth > 0)
             /\ pc' = IF remaining > 0 THEN "head" ELSE "done"
             /\ UNCHANGED <<buf, tolerant, start, idx, stack, depth, remaining,
                            ret, heads>>

Next == \/ HeadRefused
        \/ SkipLeaf
        \/ SkipTag
        \/ ContainerTooDeep
        \/ CountTooLarge
        \/ EnterContainer
        \/ Unwind
        \/ EndUnwind

\* The loop is straight-line code: once called it keeps running.
Spec == Init /\ [][Next]_vars /\ WF_vars(Next)

-----------------------------------------------------------------------------
(* The grammar the skip is meant to follow, by recursion on the input.     *)

\* Where "items" items from position "at" on end when they sit inside "nest"
\* non-empty containers, or why they are not there.
Place == [at : Nat, items : Nat, nest : Nat]

\* What is inside an item.
Inside(h) == CASE h.mt = ARRAY -> AsNat(h.val)
               [] h.mt = MAP   -> 2 * AsNat(h.val)
               [] h.mt = TAG   -> 1
               [] OTHER        -> 0

\* The first item by its head and what is inside, then the rest.
EndFrom(b, tol, end, p) ==
    LET h     == DecodeHead(b, p.at, tol)
        nest  == IF h.mt # TAG /\ Inside(h) > 0 THEN p.nest + 1 ELSE p.nest
        first == end[[at |-> h.idx, items |-> Inside(h), nest |-> nest]]
    IN  IF p.items = 0 THEN [ret |-> "ok", idx |-> p.at]
        ELSE IF h.ret # "ok" THEN [ret |-> "bad", idx |-> p.at]
        ELSE IF nest > MaxDepth THEN [ret |-> "depth", idx |-> p.at]
        ELSE IF first.ret # "ok" THEN first
        ELSE end[[at |-> first.idx, items |-> p.items - 1, nest |-> p.nest]]

ItemsEnd(b, tol) == LET end[p \in Place] == EndFrom(b, tol, end, p) IN end

OneItem == ItemsEnd(buf, tolerant)[[at |-> start, items |-> 1, nest |-> 0]]

-----------------------------------------------------------------------------
(* Properties.                                                             *)

TypeOK == /\ buf \in Inputs
          /\ tolerant \in BOOLEAN
          /\ start \in 0 .. Len(buf)
          /\ idx \in start .. Len(buf)
          /\ stack \in [0 .. (MaxDepth - 1) -> Nat \cup {Uninit}]
          /\ depth \in 0 .. MaxDepth
          /\ remaining \in Nat \cup {Uninit}
          /\ ret \in {"ok", "malformed", "unsupported", "depth"}
          /\ pc \in {"head", "unwind", "done"}
          /\ heads \in Nat

\* The stack array is never read where the code has not written it: the count
\* restored by Unwind is always one that EnterContainer saved.
SavedCountsOnly == /\ remaining \in Nat
                   /\ \A d \in 0 .. (depth - 1) : stack[d] \in Nat

\* Skip accepts exactly what the grammar accepts within the nesting limit, and
\* then leaves the context right behind that one item: neither inside it nor
\* past the item that follows.  The depth error is given only for an item nested
\* deeper than the limit: tags, empty containers and long flat arrays never use
\* it up.
SkipsExactlyOneItem ==
    pc = "done" => /\ ret = "ok" <=> OneItem.ret = "ok"
                   /\ ret = "ok" => idx = OneItem.idx
                   /\ ret = "depth" => OneItem.ret = "depth"

\* Every head costs at least one byte, so the loop runs at most once for each
\* byte of input whatever counts the heads announce.
OneHeadPerByte == heads - (IF ret = "ok" THEN 0 ELSE 1) <= idx - start

\* A skip that was called returns, whatever the input.
Terminates == <>(pc = "done")

=============================================================================
