------------------------------- MODULE MCUart -------------------------------
(* The printing tasks and their priorities in app_config.h. *)
EXTENDS Uart

CONSTANTS auth, rfid, keypad, lcd, cli

MCPriority ==
    [t \in Tasks |-> CASE t = auth                    -> 3
                       [] t \in {rfid, keypad, lcd} -> 2
                       [] t = cli                     -> 1]
=============================================================================
