---------------------------- MODULE MCRunRegistry ----------------------------
(***************************************************************************)
(* Instances of RunRegistry: three programs.                               *)
(***************************************************************************)
EXTENDS RunRegistry

CONSTANTS p, q, r
=============================================================================
