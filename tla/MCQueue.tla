------------------------------- MODULE MCQueue ------------------------------
(* Two tasks of different priorities: one waits two ticks, the other looks *)
(* once or waits for ever.  The items are interchangeable.                 *)
EXTENDS Queue, TLC

CONSTANTS high, low

MCPriority == high :> 2 @@ low :> 1
MCTimeouts == high :> {2} @@ low :> {0, 3}
MCItems    == Permutations(Item)
=============================================================================
