------------------------------ MODULE Sleepers ------------------------------
(***************************************************************************)
(* What the kernel promises a task that sleeps: it counts the ticks the    *)
(* task asked for and readies the task on exactly the last of them, unless *)
(* an event readies it before.  There are no lists here and no tick count  *)
(* that wraps; module Ticks implements this one.                           *)
(***************************************************************************)
EXTENDS Naturals

CONSTANTS Tasks,    (* the tasks of the system                             *)
          Forever   (* one more than the longest finite sleep, and the     *)
                    (* mark of a task that only an event can ready         *)

VARIABLE left       (* the ticks each task still has to sleep, 0 if ready  *)

Init == left = [t \in Tasks |-> 0]

(* A ready task goes to sleep, for a number of ticks or for ever. *)
Sleep(t, n) ==
    /\ left[t] = 0
    /\ n \in 1 .. Forever
    /\ left' = [left EXCEPT ![t] = n]

(* Events ready a set of sleeping tasks before their time. *)
Wake(S) ==
    /\ \A t \in S : left[t] > 0
    /\ left' = [t \in Tasks |-> IF t \in S THEN 0 ELSE left[t]]

(* One tick passes for every task that sleeps a finite time. *)
Tick ==
    left' = [t \in Tasks |-> IF left[t] \in {0, Forever} THEN left[t]
                                                         ELSE left[t] - 1]

Next ==
    \/ \E t \in Tasks, n \in 1 .. Forever : Sleep(t, n)
    \/ \E S \in SUBSET Tasks : Wake(S)
    \/ Tick

Spec == Init /\ [][Next]_left
=============================================================================
