-------------------------------- MODULE Queue -------------------------------
(***************************************************************************)
(* A queue of the kernel (FreeRTOS/Source/queue.c) under tasks that        *)
(* receive from it with a timeout, tasks and interrupts that send to it    *)
(* without one, and the ticks of module Ticks.  The lock on the queue, the *)
(* suspension of the scheduler and the timeout are the code's own steps:   *)
(* between two of them whoever is not locked out may act.                  *)
(*                                                                         *)
(* Every send of the program has a timeout of 0, so nobody ever waits for  *)
(* room: xTasksWaitingToSend, and the lock that defers waking its tasks,   *)
(* stay out of the model.                                                  *)
(***************************************************************************)
EXTENDS Ticks, Integers, Sequences, FiniteSets

CONSTANTS Priority,   (* the priority of each task                         *)
          Item,       (* what is sent                                      *)
          uxLength,   (* the capacity of the queue                         *)
          Timeouts,   (* the values of xTicksToWait each task passes       *)
          Delays      (* the values they pass to vTaskDelay                *)

ASSUME QueueAssumption ==
    /\ IsFiniteSet(Tasks)
    /\ Priority \in [Tasks -> Nat]
    /\ uxLength \in Nat \ {0}
    /\ Timeouts \in [Tasks -> SUBSET (0 .. portMAX_DELAY)]
    /\ Delays \subseteq 1 .. portMAX_DELAY
    /\ OVERFLOWS > 1
    /\ NONE \notin (0 .. portMAX_DELAY) \X (0 .. OVERFLOWS - 1)

queueUNLOCKED          == -1
queueLOCKED_UNMODIFIED == 0

VARIABLES
    pcHead,             (* the slots of the ring                           *)
    pcWriteTo,          (* the slot the next item goes to                  *)
    pcReadFrom,         (* the slot the last item was taken from           *)
    uxMessagesWaiting,
    cTxLock,
    pc,                 (* where each task is in xQueueReceive             *)
    goto,               (* where it goes once the scheduler is resumed     *)
    xTicksToWait,       (* what is left of its timeout                     *)
    xTimeOut,           (* when that was reckoned, NONE before             *)
    buffer,             (* the item delivered last                         *)
    request,            (* history: the timeout it asked for               *)
    since               (* history: the ticks since it found the queue     *)
                        (* empty                                           *)

ring      == <<pcHead, pcWriteTo, pcReadFrom, uxMessagesWaiting>>
locals    == <<pc, goto, xTicksToWait, xTimeOut, request>>
queueVars == <<ring, cTxLock, locals, buffer, since>>
vars      == <<tickVars, queueVars>>

Init ==
    /\ TicksInit
    /\ pcHead \in [0 .. uxLength - 1 -> Item]
    /\ pcWriteTo = 0 /\ pcReadFrom = uxLength - 1
    /\ uxMessagesWaiting = 0
    /\ cTxLock = queueUNLOCKED
    /\ pc = [t \in Tasks |-> "idle"]
    /\ goto = [t \in Tasks |-> "check"]
    /\ xTicksToWait = [t \in Tasks |-> 0]
    /\ xTimeOut = [t \in Tasks |-> NONE]
    /\ buffer \in Item
    /\ request = [t \in Tasks |-> 0]
    /\ since = [t \in Tasks |-> 0]
-----------------------------------------------------------------------------
After(slot) == IF slot + 1 >= uxLength THEN 0 ELSE slot + 1

prvCopyDataToQueue(v) ==
    /\ pcHead' = [pcHead EXCEPT ![pcWriteTo] = v]
    /\ pcWriteTo' = After(pcWriteTo)
    /\ uxMessagesWaiting' = uxMessagesWaiting + 1
    /\ UNCHANGED pcReadFrom

(* Mutant of prvCopyDataFromQueue: the item is copied before pcReadFrom is  *)
(* advanced.                                                               *)
prvCopyDataFromQueueFirst ==
    /\ pcReadFrom' = After(pcReadFrom)
    /\ buffer' = pcHead[pcReadFrom]
    /\ uxMessagesWaiting' = uxMessagesWaiting - 1
    /\ UNCHANGED <<pcHead, pcWriteTo>>

prvCopyDataFromQueue ==
    /\ pcReadFrom' = After(pcReadFrom)
    /\ buffer' = pcHead[After(pcReadFrom)]
    /\ uxMessagesWaiting' = uxMessagesWaiting - 1
    /\ UNCHANGED <<pcHead, pcWriteTo>>

(* n tasks of the highest priorities leave the list, or all it has. *)
WakeReceivers(n) ==
    \E S \in SUBSET eventItems :
        /\ \/ Cardinality(S) = n
           \/ Cardinality(S) < n /\ S = eventItems
        /\ \A s \in S, t \in eventItems \ S : Priority[s] >= Priority[t]
        /\ xTaskRemoveFromEventList(S)

(* A send that finds the queue full returns errQUEUE_FULL and changes      *)
(* nothing.                                                                *)
xQueueGenericSend(v) ==
    /\ \E t \in Tasks : CanRun(t)
    /\ Scheduling
    /\ uxMessagesWaiting < uxLength
    /\ prvCopyDataToQueue(v)
    /\ WakeReceivers(1)
    /\ UNCHANGED <<cTxLock, locals, buffer, since>>

(* One count per item, but no more of them than there are tasks. *)
prvIncrementQueueTxLock ==
    IF cTxLock < Cardinality(Tasks) THEN cTxLock + 1 ELSE cTxLock

(* An interrupt may send while the queue is locked: it counts the item for *)
(* the unlocking task instead of waking anybody.                           *)
xQueueGenericSendFromISR(v) ==
    /\ ~unwinding
    /\ uxMessagesWaiting < uxLength
    /\ prvCopyDataToQueue(v)
    /\ IF cTxLock = queueUNLOCKED
       THEN WakeReceivers(1) /\ UNCHANGED cTxLock
       ELSE /\ cTxLock' = prvIncrementQueueTxLock
            /\ UNCHANGED tickVars
    /\ UNCHANGED <<locals, buffer, since>>

(* A call returns, and its local variables are gone. *)
Return(t) ==
    /\ pc' = [pc EXCEPT ![t] = "idle"]
    /\ goto' = [goto EXCEPT ![t] = "check"]
    /\ xTicksToWait' = [xTicksToWait EXCEPT ![t] = 0]
    /\ xTimeOut' = [xTimeOut EXCEPT ![t] = NONE]
    /\ request' = [request EXCEPT ![t] = 0]
    /\ since' = [since EXCEPT ![t] = 0]

Goes(t, from, to) == pc[t] = from /\ pc' = [pc EXCEPT ![t] = to]

Call(t) ==
    /\ CanRun(t) /\ Scheduling
    /\ Goes(t, "idle", "check")
    /\ \E n \in Timeouts[t] : /\ xTicksToWait' = [xTicksToWait EXCEPT ![t] = n]
                           /\ request' = [request EXCEPT ![t] = n]
    /\ UNCHANGED <<tickVars, ring, cTxLock, goto, xTimeOut, buffer, since>>

Receive(t) ==
    /\ CanRun(t) /\ Scheduling
    /\ pc[t] = "check" /\ uxMessagesWaiting > 0
    /\ prvCopyDataFromQueue
    /\ Return(t)
    /\ UNCHANGED <<tickVars, cTxLock>>

GiveUp(t) ==
    /\ CanRun(t) /\ Scheduling
    /\ uxMessagesWaiting = 0
    /\ \/ pc[t] = "check" /\ xTicksToWait[t] = 0
       \/ pc[t] = "expired"
    /\ Return(t)
    /\ UNCHANGED <<tickVars, ring, cTxLock, buffer>>

(* The queue is empty: remember when, the first time, and go and wait. *)
FindEmpty(t) ==
    /\ CanRun(t) /\ Scheduling
    /\ uxMessagesWaiting = 0
    /\ xTicksToWait[t] > 0 /\ Goes(t, "check", "suspend")
    /\ xTimeOut' = [xTimeOut EXCEPT ![t] = IF @ = NONE THEN clock ELSE @]
    /\ UNCHANGED <<tickVars, ring, cTxLock, goto, xTicksToWait, buffer, request, since>>

SuspendScheduler(t) ==
    /\ Goes(t, "suspend", "lock")
    /\ vTaskSuspendAll(t)
    /\ UNCHANGED <<ring, cTxLock, goto, xTicksToWait, xTimeOut, request, buffer, since>>

(* The ticks that passed since the timeout was reckoned, as the counter of *)
(* WRAP values gives them.                                                 *)
xElapsedTime(t) == (xTickCount + WRAP - xTimeOut[t][1]) % WRAP

(* Mutant of WrappedPast: any wrap ends the wait. *)
WrappedPastAny(t) == xNumOfOverflows # xTimeOut[t][2]

(* The count has wrapped and come as far again as it was. *)
WrappedPast(t) ==
    xNumOfOverflows # xTimeOut[t][2] /\ xTickCount >= xTimeOut[t][1]

(* Mutant of Remaining: the ticks that passed are not subtracted. *)
RemainingAll(t) == xTicksToWait[t]

Remaining(t) == xTicksToWait[t] - xElapsedTime(t)

(* prvLockQueue and xTaskCheckForTimeOut: the first lets nobody in that    *)
(* the second would notice.                                                *)
Lock(t) ==
    /\ suspender = t /\ pc[t] = "lock"
    /\ cTxLock' = queueLOCKED_UNMODIFIED
    /\ \/ /\ xTicksToWait[t] = portMAX_DELAY
          /\ Goes(t, "lock", "empty") /\ UNCHANGED <<goto, xTicksToWait, xTimeOut>>
       \/ /\ xTicksToWait[t] < portMAX_DELAY
          /\ ~WrappedPast(t) /\ xElapsedTime(t) < xTicksToWait[t]
          /\ xTicksToWait' = [xTicksToWait EXCEPT ![t] = Remaining(t)]
          /\ xTimeOut' = [xTimeOut EXCEPT ![t] = clock]
          /\ Goes(t, "lock", "empty") /\ UNCHANGED goto
       \/ /\ xTicksToWait[t] < portMAX_DELAY
          /\ WrappedPast(t) \/ xElapsedTime(t) >= xTicksToWait[t]
          /\ xTicksToWait' = [xTicksToWait EXCEPT ![t] = 0]
          /\ goto' = [goto EXCEPT ![t] = "expired"]
          /\ Goes(t, "lock", "unlock") /\ UNCHANGED xTimeOut
    /\ UNCHANGED <<tickVars, ring, request, buffer, since>>

(* Mutant of prvIsQueueEmpty: the task goes to sleep on what it saw before  *)
(* it left the critical section.                                           *)
prvIsQueueEmptyNot(t) ==
    /\ suspender = t
    /\ Goes(t, "empty", "place")
    /\ goto' = [goto EXCEPT ![t] = "check"]
    /\ UNCHANGED <<tickVars, ring, cTxLock, xTicksToWait, xTimeOut, request, buffer, since>>

prvIsQueueEmpty(t) ==
    /\ suspender = t
    /\ Goes(t, "empty", IF uxMessagesWaiting = 0 THEN "place" ELSE "unlock")
    /\ goto' = [goto EXCEPT ![t] = "check"]
    /\ UNCHANGED <<tickVars, ring, cTxLock, xTicksToWait, xTimeOut, request, buffer, since>>

vTaskPlaceOnEventList(t) ==
    /\ Goes(t, "place", "unlock")
    /\ Block(t, xTicksToWait[t], TRUE)
    /\ UNCHANGED <<ring, cTxLock, goto, xTicksToWait, xTimeOut, request, buffer, since>>

(* Each item that came while the queue was locked wakes one waiting task,  *)
(* which may be the unlocking one.                                         *)
prvUnlockQueue(t) ==
    /\ suspender = t
    /\ Goes(t, "unlock", "resume")
    /\ WakeReceivers(cTxLock)
    /\ cTxLock' = queueUNLOCKED
    /\ UNCHANGED <<ring, goto, xTicksToWait, xTimeOut, request, buffer, since>>

Resume(t) ==
    /\ Goes(t, "resume", goto[t])
    /\ xTaskResumeAll(t)
    /\ UNCHANGED <<ring, cTxLock, goto, xTicksToWait, xTimeOut, request, buffer, since>>

(* The time is up, but an item has come. *)
TryAgain(t) ==
    /\ CanRun(t) /\ Scheduling
    /\ uxMessagesWaiting > 0
    /\ Goes(t, "expired", "check")
    /\ UNCHANGED <<tickVars, ring, cTxLock, goto, xTicksToWait, xTimeOut, request, buffer, since>>

xQueueReceive(t) ==
    \/ Call(t) \/ Receive(t) \/ GiveUp(t) \/ FindEmpty(t) \/ SuspendScheduler(t)
    \/ Lock(t) \/ prvIsQueueEmpty(t) \/ vTaskPlaceOnEventList(t)
    \/ prvUnlockQueue(t) \/ Resume(t) \/ TryAgain(t)

(* Outside of a receive a task may sleep. *)
vTaskDelay(t) ==
    /\ pc[t] = "idle"
    /\ \/ vTaskSuspendAll(t)
       \/ \E n \in Delays : Block(t, n, FALSE)
       \/ t \in Blocked /\ xTaskResumeAll(t)
    /\ UNCHANGED queueVars

(* A task has found the queue empty and not returned since. *)
Waiting(t) == xTimeOut[t] # NONE

Count == since' = [t \in Tasks |-> IF Waiting(t) /\ request[t] < portMAX_DELAY
                                       THEN since[t] + 1 ELSE since[t]]

(* The bound of the counter in the timeout: a receiver looks at the clock  *)
(* again within one period of it (49 days in the program).                 *)
SeenInTime == \A t \in Tasks :
    Waiting(t) /\ request[t] < portMAX_DELAY => since[t] < WRAP

SysTick ==
    /\ SeenInTime
    /\ \/ Tick /\ IF Scheduling THEN Count ELSE UNCHANGED since
       \/ Unwind /\ Count
    /\ UNCHANGED <<ring, cTxLock, locals, buffer>>

Next ==
    \/ \E v \in Item : xQueueGenericSend(v) \/ xQueueGenericSendFromISR(v)
    \/ \E t \in Tasks : xQueueReceive(t)
    \/ \E t \in Tasks : vTaskDelay(t)
    \/ SysTick

Spec == Init /\ [][Next]_vars
-----------------------------------------------------------------------------
TypeOK ==
    /\ TicksTypeOK
    /\ pcHead \in [0 .. uxLength - 1 -> Item]
    /\ pcWriteTo \in 0 .. uxLength - 1
    /\ pcReadFrom \in 0 .. uxLength - 1
    /\ uxMessagesWaiting \in 0 .. uxLength
    /\ cTxLock \in queueUNLOCKED .. Cardinality(Tasks)
    /\ pc \in [Tasks -> {"idle", "check", "suspend", "lock", "empty", "place",
                             "unlock", "resume", "expired"}]
    /\ goto \in [Tasks -> {"check", "expired"}]
    /\ xTicksToWait \in [Tasks -> 0 .. portMAX_DELAY]
    /\ \A t \in Tasks :
          xTimeOut[t] \in {NONE} \cup ((0 .. portMAX_DELAY) \X (0 .. OVERFLOWS - 1))
    /\ buffer \in Item
    /\ request \in [Tasks -> 0 .. portMAX_DELAY]
    /\ since \in [Tasks -> Nat]

(* The receivers that will look into the queue before they block again. *)
Heading == {t \in Tasks : pc[t] # "idle" /\ t \notin eventItems}

(* While somebody waits in the list of an unlocked queue, every item in it *)
(* has a receiver on its way: no wake-up is lost, whenever the item came.  *)
NoLostWakeup ==
    eventItems # {} /\ cTxLock = queueUNLOCKED
        => uxMessagesWaiting <= Cardinality(Heading)

(* A blocked receiver is woken by time when the ticks it asked for have    *)
(* passed since it first found the queue empty: being woken for an item    *)
(* somebody else took, the retry and the wrap of the tick count neither    *)
(* shorten its wait nor prolong it.                                        *)
WaitIsRequest ==
    \A t \in Tasks :
        pc[t] # "idle" /\ t \in Blocked /\ request[t] < portMAX_DELAY
            => since[t] + TicksLeft[t] = request[t]

(* A receive returns without an item only after the ticks it asked for. *)
NotEarly ==
    [][\A t \in Tasks :
          GiveUp(t) => request[t] < portMAX_DELAY /\ since[t] >= request[t]]_vars

(* The ring of slots is a FIFO queue. *)
Items == [i \in 1 .. uxMessagesWaiting |-> pcHead[(pcReadFrom + i) % uxLength]]

Ring == INSTANCE Fifo WITH Capacity <- uxLength, items <- Items, last <- buffer
ImplementsFifo == Ring!Spec

(* The queue uses the kernel's time as module Ticks describes it. *)
KeepsTime == TicksSpec
=============================================================================
