--------------------------- MODULE MCConfigUpdate ---------------------------
(***************************************************************************)
(* A small instance of ConfigUpdate: a managed and an unmanaged secret at  *)
(* the start, and new names for rotations.                                 *)
(***************************************************************************)
EXTENDS ConfigUpdate

CONSTANTS First

mc_InitialRefs == {First} \cup Unmanaged
=============================================================================
