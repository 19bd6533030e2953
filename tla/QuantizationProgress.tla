------------------------- MODULE QuantizationProgress -------------------------
(***************************************************************************)
(* What a resident run promises, seen from outside: under one identity the *)
(* blocks become durable one at a time and in order, each computed from    *)
(* the outputs of the one before it, as in a run that is never             *)
(* interrupted; and the run completes once, when all of them are durable.  *)
(***************************************************************************)
EXTENDS Integers, Sequences

CONSTANTS NumBlocks, Identities

VARIABLES
    model,      \* per identity, the durable block results: block and input stream
    complete    \* the run is completed

vars == <<model, complete>>

Init ==
    /\ model = [i \in Identities |-> <<>>]
    /\ complete = FALSE

\* The stream behind the blocks done so far.
Boundary(done) ==
    IF done = <<>> THEN <<>>
    ELSE Append(done[Len(done)].input, done[Len(done)].block)

QuantizeNext(i) ==
    /\ ~complete
    /\ Len(model[i]) < NumBlocks
    /\ model' = [model EXCEPT ![i] =
                    Append(@, [block |-> Len(@), input |-> Boundary(@)])]
    /\ UNCHANGED complete

Complete(i) ==
    /\ ~complete
    /\ Len(model[i]) = NumBlocks
    /\ complete' = TRUE
    /\ UNCHANGED model

Next == \E i \in Identities : QuantizeNext(i) \/ Complete(i)

Spec == Init /\ [][Next]_vars /\ WF_vars(Next)
=============================================================================
