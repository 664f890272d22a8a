---------------------------- MODULE MCSmartDoor ----------------------------
(***************************************************************************)
(* Small instances of SmartDoor: two cards, short PINs, *)
(* short queues, and delays scaled down in the order of app_config.h.      *)
(***************************************************************************)
EXTENDS SmartDoor

CONSTANTS good, bad, k1, k2

ManyKeyPin == [i \in 1..PIN_LENGTH |-> k1]
============================================================================
