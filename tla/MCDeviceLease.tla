---------------------------- MODULE MCDeviceLease ----------------------------
(***************************************************************************)
(* Instances of DeviceLease: three programs, two that ask for the device   *)
(* at the same time.                                                       *)
(***************************************************************************)
EXTENDS DeviceLease

CONSTANTS p, q, r
=============================================================================
