------------------------------ MODULE MCRunLease ------------------------------
(***************************************************************************)
(* Instances of RunLease: four programs on one host, or one of them on     *)
(* another.                                                                *)
(***************************************************************************)
EXTENDS RunLease

CONSTANTS p, q, r, s, here, elsewhere

OneHost == [x \in Procs |-> here]
TwoHosts == [x \in Procs |-> IF x = r THEN elsewhere ELSE here]
=============================================================================
