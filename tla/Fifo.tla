-------------------------------- MODULE Fifo --------------------------------
(***************************************************************************)
(* What a queue of the kernel promises: at most Capacity items, delivered  *)
(* once each and in the order they were put.                               *)
(***************************************************************************)
EXTENDS Naturals, Sequences

CONSTANTS Item, Capacity

VARIABLES items,      (* the items put and not yet got, oldest first       *)
          last        (* the item the last successful receive delivered    *)

Init == items = <<>> /\ last \in Item

Put(v) ==
    /\ Len(items) < Capacity
    /\ items' = Append(items, v)
    /\ UNCHANGED last

Get ==
    /\ items # <<>>
    /\ last' = Head(items)
    /\ items' = Tail(items)

Next == (\E v \in Item : Put(v)) \/ Get

Spec == Init /\ [][Next]_<<items, last>>
=============================================================================
