--------------------------- MODULE MCArtifactStore ---------------------------
(***************************************************************************)
(* Instances of ArtifactStore: a block result that refers to its           *)
(* activation generation, and an artifact both processes make.             *)
(***************************************************************************)
EXTENDS ArtifactStore

CONSTANTS p, q, layer, activations, shared

TwoFiles == {"descriptor.json", "payload"}

References == [c \in Contents |-> IF c = layer THEN {activations} \cap Contents ELSE {}]

Generations == {activations} \cap Contents

OwnMakers == [c \in Contents |-> IF c = shared THEN Procs ELSE {p}]
=============================================================================
