---------------------------- MODULE MCResidentRun ----------------------------
(***************************************************************************)
(* ResidentRun for TLC, and the refinement of QuantizationProgress: the    *)
(* durable model is what the next process would discover.                  *)
(***************************************************************************)
EXTENDS ResidentRun

BlockFound(i, b) == CHOOSE a \in OfKind("block", Discovered(i)) : a.block = b

DurableModel(i) ==
    [n \in 1 .. Cardinality(BlocksOf(Discovered(i))) |->
        [block |-> n - 1, input |-> BlockFound(i, n - 1).input]]

Progress == INSTANCE QuantizationProgress WITH
    model <- [i \in Identities |-> DurableModel(i)],
    complete <- status = "completed"

\* However it is killed and resumed, and under whichever identities it is started,
\* a run does what an uninterrupted one does: each block is quantized once, in
\* order, from the stream of exactly the blocks before it, and only a run that has
\* them all is completed.  A damaged file takes blocks away, so from there on
\* nothing is said.
RunsLikeUninterrupted ==
    /\ Progress!Init
    /\ [][Undamaged' => Progress!Next \/ UNCHANGED Progress!vars]_vars
=============================================================================
