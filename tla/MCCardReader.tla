---------------------------- MODULE MCCardReader ----------------------------
(* Two cards for CardReader; the sets and delays are in the .cfg files. *)
EXTENDS CardReader

CONSTANTS good, bad
=============================================================================
