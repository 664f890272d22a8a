---------------------------- MODULE MCCommandLine ---------------------------
(* One printable character besides the space: lines differ enough by their *)
(* lengths.                                                                *)
EXTENDS CommandLine

CONSTANT x
=============================================================================
