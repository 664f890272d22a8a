---------------------------- MODULE MCFlashLog ----------------------------
(***************************************************************************)
(* Small instances of FlashLog: a page of N slots instead of 128.          *)
(***************************************************************************)
EXTENDS FlashLog, TLC

Perms == Permutations(Entries)
===========================================================================
