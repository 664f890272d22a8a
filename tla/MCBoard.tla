------------------------------ MODULE MCBoard ------------------------------
(***************************************************************************)
(* A card with a UID of two bytes and what an undriven line reads as.      *)
(***************************************************************************)
EXTENDS Board

MC_UID      == <<156, 49>>
MC_FLOATING == {0, 255}
============================================================================
