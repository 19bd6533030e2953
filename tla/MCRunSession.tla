----------------------------- MODULE MCRunSession -----------------------------
(***************************************************************************)
(* Instances of RunSession: programs of one host.                          *)
(***************************************************************************)
EXTENDS RunSession, TLC

CONSTANTS p, q, here

OneHost == [x \in Procs |-> here]

Programs == Permutations(Procs)
=============================================================================
