----------------------------- MODULE QueueProofs ----------------------------
(***************************************************************************)
(* The kernel's queue, for every number of tasks, every capacity, every    *)
(* set of timeouts and every period of the tick count: it uses the kernel's *)
(* time as module Ticks describes it, is a FIFO, loses no wake-up and      *)
(* waits exactly as long as it was asked to.                               *)
(***************************************************************************)
EXTENDS Queue, TicksProofs, SequenceTheorems

InReceive == {"lock", "empty", "place", "unlock", "resume"}
Locked    == {"empty", "place", "unlock"}

(***************************************************************************)
(* The base of the invariant: who has suspended the scheduler, who has     *)
(* locked the queue, who has found it empty.                               *)
(***************************************************************************)
LockOK ==
    /\ \A t \in Tasks : pc[t] \in InReceive => suspender = t
    /\ \A t \in Tasks : pc[t] \in Locked => cTxLock # queueUNLOCKED
    /\ cTxLock # queueUNLOCKED => \E t \in Tasks : pc[t] \in Locked

WaitOK ==
    \A t \in Tasks :
        /\ pc[t] \in InReceive \cup {"suspend", "expired"} => Waiting(t)
        /\ pc[t] = "idle" => ~Waiting(t) /\ t \notin eventItems
        /\ pc[t] = "place" => goto[t] = "check"
        /\ t \in Blocked /\ pc[t] # "idle"
              => Waiting(t) /\ pc[t] \in {"unlock", "resume", "check"} /\ goto[t] = "check"

QueueTypeOK ==
    /\ pcHead \in [0 .. uxLength - 1 -> Item]
    /\ pcWriteTo \in 0 .. uxLength - 1
    /\ pcReadFrom \in 0 .. uxLength - 1
    /\ uxMessagesWaiting \in 0 .. uxLength
    /\ cTxLock \in queueUNLOCKED .. Cardinality(Tasks)
    /\ buffer \in Item

Places == {"idle", "check", "suspend", "lock", "empty", "place", "unlock", "resume", "expired"}

LocalsTypeOK ==
    /\ pc \in [Tasks -> Places]
    /\ goto \in [Tasks -> {"check", "expired"}]
    /\ xTicksToWait \in [Tasks -> 0 .. portMAX_DELAY]
    /\ xTimeOut = [t \in Tasks |-> xTimeOut[t]]
    /\ \A t \in Tasks :
          xTimeOut[t] \in {NONE} \cup ((0 .. portMAX_DELAY) \X (0 .. OVERFLOWS - 1))
    /\ request \in [Tasks -> 0 .. portMAX_DELAY]
    /\ since \in [Tasks -> Nat]

BaseInv == TicksInv /\ QueueTypeOK /\ LocalsTypeOK /\ LockOK /\ WaitOK

LEMMA TasksFinite == IsFiniteSet(Tasks) /\ Cardinality(Tasks) \in Nat
  BY QueueAssumption, FS_CardinalityType

LEMMA TypesOfBase == BaseInv => TypeOK
  BY DEF BaseInv, TicksInv, QueueTypeOK, LocalsTypeOK, TypeOK, Places
-----------------------------------------------------------------------------
(* Every step of the queue is a step of the kernel's time. *)
LEMMA WakeIsRemove ==
    ASSUME BaseInv, NEW n, WakeReceivers(n)
    PROVE  \E S \in SUBSET Tasks : xTaskRemoveFromEventList(S)
  BY DEF BaseInv, TicksInv, TicksTypeOK, WakeReceivers

LEMMA TicksStep == BaseInv /\ [Next]_vars => [TicksNext]_tickVars
<1> SUFFICES ASSUME BaseInv, [Next]_vars PROVE [TicksNext]_tickVars
  OBVIOUS
<1>1. ASSUME NEW v \in Item, xQueueGenericSend(v) \/ xQueueGenericSendFromISR(v)
      PROVE  [TicksNext]_tickVars
  BY <1>1, WakeIsRemove DEF xQueueGenericSend, xQueueGenericSendFromISR, TicksNext
<1>2. ASSUME NEW t \in Tasks, xQueueReceive(t)
      PROVE  [TicksNext]_tickVars
  <2>1. CASE \/ Call(t) \/ Receive(t) \/ GiveUp(t) \/ FindEmpty(t) \/ Lock(t)
             \/ prvIsQueueEmpty(t) \/ TryAgain(t)
    BY <2>1 DEF Call, Receive, GiveUp, FindEmpty, Lock, prvIsQueueEmpty, TryAgain
  <2>2. CASE SuspendScheduler(t)
    BY <2>2 DEF SuspendScheduler, TicksNext
  <2>3. CASE vTaskPlaceOnEventList(t)
    BY <2>3 DEF vTaskPlaceOnEventList, TicksNext, Block
  <2>4. CASE prvUnlockQueue(t)
    BY <2>4, WakeIsRemove DEF prvUnlockQueue, TicksNext
  <2>5. CASE Resume(t)
    BY <2>5 DEF Resume, TicksNext
  <2> QED  BY <1>2, <2>1, <2>2, <2>3, <2>4, <2>5 DEF xQueueReceive
<1>3. ASSUME NEW t \in Tasks, vTaskDelay(t)
      PROVE  [TicksNext]_tickVars
  BY <1>3, QueueAssumption DEF vTaskDelay, TicksNext
<1>4. CASE SysTick
  BY <1>4 DEF SysTick, TicksNext
<1>5. CASE UNCHANGED vars
  BY <1>5 DEF vars
<1> QED  BY <1>1, <1>2, <1>3, <1>4, <1>5 DEF Next

LEMMA TicksInvNext == BaseInv /\ [Next]_vars => TicksInv'
  BY TicksStep, NextInv DEF BaseInv
-----------------------------------------------------------------------------
(* Who is in the event list and who is blocked, after removals. *)
LEMMA WakeBase ==
    ASSUME BaseInv, NEW n, WakeReceivers(n)
    PROVE  /\ eventItems' \subseteq eventItems /\ Blocked' \subseteq Blocked
           /\ UNCHANGED <<clock, suspender>>
  BY DEF WakeReceivers, xTaskRemoveFromEventList, Blocked, lists

LEMMA AfterOK == \A slot \in 0 .. uxLength - 1 : After(slot) \in 0 .. uxLength - 1
  BY QueueAssumption DEF After

LEMMA BaseInit == Init => BaseInv
<1> SUFFICES ASSUME Init PROVE BaseInv
  OBVIOUS
<1>1. TicksInv
  BY InitInv DEF Init
<1>2. QueueTypeOK
  BY TasksFinite, QueueAssumption DEF Init, QueueTypeOK, queueUNLOCKED
<1>3. LocalsTypeOK
  BY WrapPositive DEF Init, LocalsTypeOK, Places
<1>4. LockOK /\ WaitOK
  BY DEF Init, LockOK, WaitOK, InReceive, Locked, Waiting, TicksInit, Blocked
<1> QED  BY <1>1, <1>2, <1>3, <1>4 DEF BaseInv

LEMMA SendBase ==
    ASSUME BaseInv, TicksInv', NEW v \in Item,
           xQueueGenericSend(v) \/ xQueueGenericSendFromISR(v)
    PROVE  BaseInv'
<1>1. /\ prvCopyDataToQueue(v) /\ uxMessagesWaiting < uxLength
      /\ UNCHANGED <<locals, buffer, since>>
  BY DEF xQueueGenericSend, xQueueGenericSendFromISR
<1>2. cTxLock' \in queueUNLOCKED .. Cardinality(Tasks)
      /\ (cTxLock' = queueUNLOCKED <=> cTxLock = queueUNLOCKED)
  BY TasksFinite DEF BaseInv, QueueTypeOK, queueUNLOCKED, xQueueGenericSend, xQueueGenericSendFromISR,
                     prvIncrementQueueTxLock
<1>3. eventItems' \subseteq eventItems /\ Blocked' \subseteq Blocked /\ suspender' = suspender
  <2>1. CASE UNCHANGED tickVars
    BY <2>1 DEF tickVars, Blocked, lists
  <2>2. CASE WakeReceivers(1)
    BY <2>2, WakeBase
  <2> QED  BY <2>1, <2>2 DEF xQueueGenericSend, xQueueGenericSendFromISR
<1>4. QueueTypeOK'
  BY <1>1, <1>2, AfterOK, QueueAssumption DEF BaseInv, QueueTypeOK, prvCopyDataToQueue
<1>5. LocalsTypeOK'
  BY <1>1 DEF BaseInv, LocalsTypeOK, locals
<1>6. LockOK'
  BY <1>1, <1>2, <1>3 DEF BaseInv, LockOK, locals
<1>7. WaitOK'
  BY <1>1, <1>3 DEF BaseInv, WaitOK, locals, Waiting
<1> QED  BY <1>4, <1>5, <1>6, <1>7 DEF BaseInv

LEMMA ReturnBase ==
    ASSUME BaseInv, TicksInv', NEW t \in Tasks, Receive(t) \/ GiveUp(t)
    PROVE  BaseInv'
<1>1. /\ CanRun(t) /\ Scheduling /\ Return(t) /\ UNCHANGED <<tickVars, cTxLock>>
      /\ pc[t] \in {"check", "expired"}
  BY DEF Receive, GiveUp
<1>2. QueueTypeOK'
  <2>1. CASE Receive(t)
    BY <2>1, AfterOK, QueueAssumption DEF BaseInv, QueueTypeOK, Receive, prvCopyDataFromQueue
  <2>2. CASE GiveUp(t)
    BY <2>2 DEF BaseInv, QueueTypeOK, GiveUp, ring
  <2> QED  BY <2>1, <2>2
<1>3. LocalsTypeOK'
  BY <1>1, WrapPositive DEF BaseInv, LocalsTypeOK, Return, Places
<1>4. t \notin eventItems
  BY <1>1 DEF BaseInv, TicksInv, EventsBlocked, CanRun
<1>5. LockOK'
  BY <1>1 DEF BaseInv, LocalsTypeOK, LockOK, Return, Locked, InReceive, tickVars
<1>6. WaitOK'
  <2> SUFFICES ASSUME NEW u \in Tasks
               PROVE  /\ pc'[u] \in InReceive \cup {"suspend", "expired"} => Waiting(u)'
                      /\ pc'[u] = "idle" => ~Waiting(u)' /\ u \notin eventItems'
                      /\ pc'[u] = "place" => goto'[u] = "check"
                      /\ u \in Blocked' /\ pc'[u] # "idle"
                            => /\ Waiting(u)' /\ pc'[u] \in {"unlock", "resume", "check"}
                               /\ goto'[u] = "check"
    BY DEF WaitOK
  <2>1. UNCHANGED <<eventItems, Blocked>>
    BY <1>1 DEF tickVars, lists, Blocked
  <2>2. CASE u = t
    BY <1>1, <1>4, <2>1, <2>2 DEF BaseInv, LocalsTypeOK, Return, Waiting, InReceive
  <2>3. CASE u # t
    BY <1>1, <2>1, <2>3 DEF BaseInv, LocalsTypeOK, WaitOK, Return, Waiting
  <2> QED  BY <2>2, <2>3
<1> QED  BY <1>2, <1>3, <1>5, <1>6 DEF BaseInv

(* A receiver moves on without a change to who is blocked or suspends. *)
LEMMA MoveBase ==
    ASSUME BaseInv, TicksInv', NEW t \in Tasks,
           Call(t) \/ FindEmpty(t) \/ TryAgain(t) \/ Lock(t) \/ prvIsQueueEmpty(t)
    PROVE  BaseInv'
<1>1. /\ UNCHANGED <<tickVars, ring, buffer, since>>
      /\ pc' = [pc EXCEPT ![t] = pc'[t]]
      /\ \A u \in Tasks \ {t} : /\ goto'[u] = goto[u]
                                /\ xTimeOut'[u] = xTimeOut[u]
  BY DEF Call, FindEmpty, TryAgain, Lock, prvIsQueueEmpty, Goes, BaseInv, LocalsTypeOK
<1>2. UNCHANGED <<eventItems, Blocked, suspender, clock>> /\ UNCHANGED tickVars
  BY <1>1 DEF tickVars, lists, Blocked
<1>3. QueueTypeOK'
  <2>1. cTxLock' \in queueUNLOCKED .. Cardinality(Tasks)
    BY TasksFinite DEF BaseInv, QueueTypeOK, queueUNLOCKED, queueLOCKED_UNMODIFIED, Call, FindEmpty,
                       TryAgain, Lock, prvIsQueueEmpty
  <2> QED  BY <1>1, <2>1 DEF BaseInv, QueueTypeOK, ring
<1>4. LocalsTypeOK'
  <2>1. CASE Call(t)
    <3>1. PICK n \in 0 .. portMAX_DELAY : /\ xTicksToWait' = [xTicksToWait EXCEPT ![t] = n]
                                          /\ request' = [request EXCEPT ![t] = n]
      BY <2>1, QueueAssumption DEF Call
    <3>2. pc' \in [Tasks -> Places] /\ UNCHANGED <<goto, xTimeOut, since>>
      BY <2>1 DEF BaseInv, LocalsTypeOK, Call, Goes, Places
    <3> QED  BY <3>1, <3>2 DEF BaseInv, LocalsTypeOK
  <2>2. CASE FindEmpty(t)
    BY <1>1, <2>2 DEF BaseInv, TicksInv, TicksTypeOK, LocalsTypeOK, FindEmpty, Goes, Places, clock
  <2>3. CASE TryAgain(t)
    BY <1>1, <2>3 DEF BaseInv, LocalsTypeOK, TryAgain, Goes, Places
  <2>4. CASE prvIsQueueEmpty(t)
    BY <1>1, <2>4 DEF BaseInv, LocalsTypeOK, prvIsQueueEmpty, Goes, Places
  <2>5. CASE Lock(t)
    <3>1. /\ pc' \in [Tasks -> Places] /\ goto' \in [Tasks -> {"check", "expired"}]
          /\ UNCHANGED <<request, since>>
      BY <2>5 DEF BaseInv, LocalsTypeOK, Lock, Goes, Places
    <3>2. xTimeOut' = xTimeOut \/ xTimeOut' = [xTimeOut EXCEPT ![t] = clock]
      BY <2>5 DEF Lock
    <3>3. /\ xTimeOut' = [u \in Tasks |-> xTimeOut'[u]]
          /\ \A u \in Tasks :
                xTimeOut'[u] \in {NONE} \cup ((0 .. portMAX_DELAY) \X (0 .. OVERFLOWS - 1))
      BY <3>2 DEF BaseInv, TicksInv, TicksTypeOK, LocalsTypeOK, clock
    <3>4. Waiting(t)
      BY <2>5 DEF BaseInv, WaitOK, Lock, Goes, InReceive
    <3>5. xElapsedTime(t) \in 0 .. portMAX_DELAY
      BY <3>4, WrapPositive DEF BaseInv, TicksInv, TicksTypeOK, LocalsTypeOK, Waiting, xElapsedTime
    <3>6. CASE UNCHANGED xTicksToWait
      BY <3>1, <3>3, <3>6 DEF BaseInv, LocalsTypeOK
    <3>7. CASE /\ xElapsedTime(t) < xTicksToWait[t]
               /\ xTicksToWait' = [xTicksToWait EXCEPT ![t] = Remaining(t)]
      <4>1. Remaining(t) \in 0 .. portMAX_DELAY
        BY <3>5, <3>7, WrapPositive DEF BaseInv, LocalsTypeOK, Remaining
      <4>2. xTicksToWait' \in [Tasks -> 0 .. portMAX_DELAY]
        BY <3>7, <4>1 DEF BaseInv, LocalsTypeOK
      <4> QED  BY <3>1, <3>3, <4>2 DEF BaseInv, LocalsTypeOK
    <3>8. CASE xTicksToWait' = [xTicksToWait EXCEPT ![t] = 0]
      <4>1. xTicksToWait' \in [Tasks -> 0 .. portMAX_DELAY]
        BY <3>8, WrapPositive DEF BaseInv, LocalsTypeOK
      <4> QED  BY <3>1, <3>3, <4>1 DEF BaseInv, LocalsTypeOK
    <3> QED  BY <2>5, <3>6, <3>7, <3>8 DEF Lock
  <2> QED  BY <2>1, <2>2, <2>3, <2>4, <2>5
<1>5. LockOK'
  <2>1. CASE Call(t) \/ FindEmpty(t) \/ TryAgain(t)
    BY <1>1, <1>2, <2>1 DEF BaseInv, LocalsTypeOK, LockOK, Locked, InReceive, Call, FindEmpty, TryAgain, Goes
  <2>2. CASE Lock(t) \/ prvIsQueueEmpty(t)
    <3>1. pc'[t] \in Locked /\ cTxLock' # queueUNLOCKED /\ suspender = t
      BY <2>2 DEF BaseInv, LocalsTypeOK, LockOK, Locked, Lock, prvIsQueueEmpty, Goes,
                  queueUNLOCKED, queueLOCKED_UNMODIFIED
    <3> QED  BY <1>1, <1>2, <3>1 DEF BaseInv, LocalsTypeOK, LockOK
  <2> QED  BY <2>1, <2>2
<1>6. WaitOK'
  <2> SUFFICES ASSUME NEW u \in Tasks
               PROVE  /\ pc'[u] \in InReceive \cup {"suspend", "expired"} => Waiting(u)'
                      /\ pc'[u] = "idle" => ~Waiting(u)' /\ u \notin eventItems'
                      /\ pc'[u] = "place" => goto'[u] = "check"
                      /\ u \in Blocked' /\ pc'[u] # "idle"
                            => /\ Waiting(u)' /\ pc'[u] \in {"unlock", "resume", "check"}
                               /\ goto'[u] = "check"
    BY DEF WaitOK
  <2>1. CASE u = t
    <3>0. pc'[t] # "idle"
      BY DEF Call, FindEmpty, TryAgain, Lock, prvIsQueueEmpty, Goes, BaseInv, LocalsTypeOK
    <3>a. pc'[t] = "place" => goto'[t] = "check"
      BY DEF Call, FindEmpty, TryAgain, Lock, prvIsQueueEmpty, Goes, BaseInv, LocalsTypeOK
    <3>1. CASE Call(t) \/ FindEmpty(t) \/ TryAgain(t)
      <4>1. t \notin Blocked'
        BY <1>2, <3>1 DEF CanRun, Call, FindEmpty, TryAgain
      <4>2. pc'[t] \in InReceive \cup {"suspend", "expired"} => Waiting(t)'
        <5>1. CASE Call(t) \/ TryAgain(t)
          BY <5>1 DEF BaseInv, LocalsTypeOK, WaitOK, InReceive, Call, TryAgain, Goes
        <5>2. CASE FindEmpty(t)
          <6>1. clock \in (0 .. portMAX_DELAY) \X (0 .. OVERFLOWS - 1)
            BY DEF clock, BaseInv, TicksInv, TicksTypeOK
          <6>2. clock # NONE
            BY <6>1, QueueAssumption
          <6>3. xTimeOut'[t] = IF xTimeOut[t] = NONE THEN clock ELSE xTimeOut[t]
            BY <5>2 DEF FindEmpty, BaseInv, LocalsTypeOK
          <6> QED  BY <6>2, <6>3 DEF Waiting
        <5> QED  BY <3>1, <5>1, <5>2
      <4> QED  BY <2>1, <3>0, <3>a, <4>1, <4>2
    <3>2. CASE Lock(t) \/ prvIsQueueEmpty(t)
      <4>1. t \notin Blocked /\ Waiting(t)
        BY <3>2 DEF BaseInv, WaitOK, InReceive, Lock, prvIsQueueEmpty, Goes
      <4>2. Waiting(t)'
        <5>1. clock \in (0 .. portMAX_DELAY) \X (0 .. OVERFLOWS - 1)
          BY DEF clock, BaseInv, TicksInv, TicksTypeOK
        <5>2. xTimeOut'[t] \in {xTimeOut[t], clock}
          BY <3>2 DEF Lock, prvIsQueueEmpty, BaseInv, LocalsTypeOK
        <5> QED  BY <4>1, <5>1, <5>2, QueueAssumption DEF Waiting
      <4> QED  BY <1>2, <2>1, <3>0, <3>a, <4>1, <4>2
    <3> QED  BY <3>1, <3>2
  <2>2. CASE u # t
    <3>1. pc'[u] = pc[u] /\ goto'[u] = goto[u] /\ (Waiting(u)' <=> Waiting(u))
      BY <1>1, <2>2 DEF BaseInv, LocalsTypeOK, Waiting
    <3> QED  BY <1>2, <3>1 DEF BaseInv, WaitOK
  <2> QED  BY <2>1, <2>2
<1> QED  BY <1>3, <1>4, <1>5, <1>6 DEF BaseInv

(* The steps that suspend the scheduler, block or resume. *)
LEMMA SchedulerBase ==
    ASSUME BaseInv, TicksInv', NEW t \in Tasks,
           SuspendScheduler(t) \/ vTaskPlaceOnEventList(t) \/ prvUnlockQueue(t) \/ Resume(t)
    PROVE  BaseInv'
<1>1. /\ UNCHANGED <<ring, goto, xTicksToWait, xTimeOut, request, buffer, since, clock>>
      /\ pc' = [pc EXCEPT ![t] = pc'[t]]
  <2>1. UNCHANGED clock
    <3>1. CASE SuspendScheduler(t)
      BY <3>1 DEF SuspendScheduler, vTaskSuspendAll
    <3>2. CASE vTaskPlaceOnEventList(t)
      BY <3>2 DEF vTaskPlaceOnEventList, Block
    <3>3. CASE prvUnlockQueue(t)
      BY <3>3, WakeBase DEF prvUnlockQueue
    <3>4. CASE Resume(t)
      BY <3>4 DEF Resume, xTaskResumeAll
    <3> QED  BY <3>1, <3>2, <3>3, <3>4
  <2> QED
    BY <2>1 DEF SuspendScheduler, vTaskPlaceOnEventList, prvUnlockQueue, Resume, Goes, BaseInv, LocalsTypeOK
<1>2. /\ pc'[t] \in Places \ {"idle"}
      /\ pc[t] \in {"suspend", "place", "unlock", "resume"}
  BY DEF SuspendScheduler, vTaskPlaceOnEventList, prvUnlockQueue, Resume, Goes, BaseInv, LocalsTypeOK, Places
<1>3. cTxLock' = IF pc[t] = "unlock" THEN queueUNLOCKED ELSE cTxLock
  BY DEF SuspendScheduler, vTaskPlaceOnEventList, prvUnlockQueue, Resume, Goes
<1>4. QueueTypeOK'
  BY <1>1, <1>3, TasksFinite DEF BaseInv, QueueTypeOK, ring, queueUNLOCKED
<1>5. LocalsTypeOK'
  BY <1>1, <1>2 DEF BaseInv, LocalsTypeOK
<1>6. Waiting(t) /\ (pc[t] # "suspend" => suspender = t)
  BY <1>2 DEF BaseInv, WaitOK, LockOK, InReceive
<1>7. LockOK'
  <2>1. CASE SuspendScheduler(t)
    <3>1. \A u \in Tasks : pc[u] \notin InReceive
      BY <2>1, TicksAssumption DEF BaseInv, LockOK, SuspendScheduler, vTaskSuspendAll, Scheduling
    <3>2. pc'[t] = "lock" /\ suspender' = t
      BY <2>1 DEF SuspendScheduler, vTaskSuspendAll, Goes, BaseInv, LocalsTypeOK
    <3>3. pc[t] = "suspend" /\ cTxLock' = cTxLock
      BY <2>1, <1>3 DEF SuspendScheduler, Goes
    <3> QED  BY <1>1, <3>1, <3>2, <3>3 DEF BaseInv, LocalsTypeOK, LockOK, InReceive, Locked
  <2>2. CASE vTaskPlaceOnEventList(t)
    <3>1. pc[t] = "place" /\ pc'[t] = "unlock" /\ UNCHANGED <<cTxLock, suspender>>
      BY <2>2 DEF vTaskPlaceOnEventList, Block, Goes, BaseInv, LocalsTypeOK
    <3> QED  BY <1>1, <3>1 DEF BaseInv, LocalsTypeOK, LockOK, InReceive, Locked
  <2>3. CASE prvUnlockQueue(t)
    <3>1. pc[t] = "unlock" /\ pc'[t] = "resume" /\ cTxLock' = queueUNLOCKED /\ suspender' = suspender
      BY <2>3, WakeBase DEF prvUnlockQueue, Goes, BaseInv, LocalsTypeOK
    <3>2. \A u \in Tasks \ {t} : pc[u] \notin Locked
      BY <1>6, <3>1 DEF BaseInv, LockOK, InReceive, Locked
    <3> QED  BY <1>1, <3>1, <3>2 DEF BaseInv, LocalsTypeOK, LockOK, InReceive, Locked
  <2>4. CASE Resume(t)
    <3>1. pc[t] = "resume" /\ pc'[t] \in {"check", "expired"} /\ UNCHANGED cTxLock
      BY <2>4 DEF Resume, Goes, BaseInv, LocalsTypeOK
    <3>2. \A u \in Tasks \ {t} : pc[u] \notin InReceive
      BY <1>6, <3>1 DEF BaseInv, LockOK
    <3> QED  BY <1>1, <3>1, <3>2 DEF BaseInv, LocalsTypeOK, LockOK, InReceive, Locked
  <2> QED  BY <2>1, <2>2, <2>3, <2>4
<1>8. WaitOK'
  <2> SUFFICES ASSUME NEW u \in Tasks
               PROVE  /\ pc'[u] \in InReceive \cup {"suspend", "expired"} => Waiting(u)'
                      /\ pc'[u] = "idle" => ~Waiting(u)' /\ u \notin eventItems'
                      /\ pc'[u] = "place" => goto'[u] = "check"
                      /\ u \in Blocked' /\ pc'[u] # "idle"
                            => /\ Waiting(u)' /\ pc'[u] \in {"unlock", "resume", "check"}
                               /\ goto'[u] = "check"
    BY DEF WaitOK
  <2>0. Blocked' \subseteq Blocked \cup {t} /\ eventItems' \subseteq eventItems \cup {t}
    <3>1. CASE SuspendScheduler(t)
      BY <3>1 DEF SuspendScheduler, vTaskSuspendAll, Blocked, lists
    <3>2. CASE vTaskPlaceOnEventList(t)
      BY <3>2 DEF vTaskPlaceOnEventList, Block, prvAddCurrentTaskToDelayedList, Blocked
    <3>3. CASE prvUnlockQueue(t)
      BY <3>3, WakeBase DEF prvUnlockQueue
    <3>4. CASE Resume(t)
      BY <3>4 DEF Resume, xTaskResumeAll, Blocked
    <3> QED  BY <3>1, <3>2, <3>3, <3>4
  <2>1. CASE u = t
    <3>1. Waiting(t)'
      BY <1>1, <1>6 DEF Waiting
    <3>2. t \in Blocked' => pc'[t] \in {"unlock", "resume", "check"} /\ goto'[t] = "check"
      <4>1. CASE SuspendScheduler(t)
        BY <4>1 DEF SuspendScheduler, vTaskSuspendAll, Blocked, lists
      <4>2. CASE vTaskPlaceOnEventList(t)
        <5>1. pc'[t] = "unlock" /\ pc[t] = "place"
          BY <4>2 DEF vTaskPlaceOnEventList, Goes, BaseInv, LocalsTypeOK
        <5>2. goto[t] = "check"
          BY <5>1 DEF BaseInv, WaitOK
        <5> QED  BY <1>1, <5>1, <5>2
      <4>3. CASE prvUnlockQueue(t)
        <5>1. t \in Blocked' => t \in Blocked
          BY <4>3, WakeBase DEF prvUnlockQueue
        <5>2. pc'[t] = "resume" /\ pc[t] = "unlock"
          BY <4>3 DEF prvUnlockQueue, Goes, BaseInv, LocalsTypeOK
        <5> QED  BY <1>1, <5>1, <5>2 DEF BaseInv, WaitOK
      <4>4. CASE Resume(t)
        <5>1. t \in Blocked' => t \in Blocked
          BY <4>4 DEF Resume, xTaskResumeAll, Blocked
        <5>2. pc'[t] = goto[t] /\ pc[t] = "resume"
          BY <4>4 DEF Resume, Goes, BaseInv, LocalsTypeOK
        <5> QED  BY <1>1, <5>1, <5>2 DEF BaseInv, WaitOK
      <4> QED  BY <4>1, <4>2, <4>3, <4>4
    <3>3. pc'[t] # "place"
      BY DEF SuspendScheduler, vTaskPlaceOnEventList, prvUnlockQueue, Resume, Goes, BaseInv, LocalsTypeOK
    <3> QED  BY <1>2, <2>1, <3>1, <3>2, <3>3
  <2>2. CASE u # t
    <3>1. pc'[u] = pc[u] /\ goto'[u] = goto[u] /\ (Waiting(u)' <=> Waiting(u))
      BY <1>1, <2>2 DEF BaseInv, LocalsTypeOK, Waiting
    <3> QED  BY <2>0, <2>2, <3>1 DEF BaseInv, WaitOK
  <2> QED  BY <2>1, <2>2
<1> QED  BY <1>4, <1>5, <1>7, <1>8 DEF BaseInv

LEMMA DelayBase ==
    ASSUME BaseInv, TicksInv', NEW t \in Tasks, vTaskDelay(t)
    PROVE  BaseInv'
<1>1. UNCHANGED queueVars /\ UNCHANGED <<ring, cTxLock, locals, buffer, since>> /\ pc[t] = "idle"
  BY DEF vTaskDelay, queueVars
<1>2. QueueTypeOK' /\ LocalsTypeOK'
  BY <1>1 DEF BaseInv, QueueTypeOK, LocalsTypeOK, ring, locals
<1>3. LockOK'
  <2>1. CASE vTaskSuspendAll(t)
    BY <1>1, <2>1, TicksAssumption DEF BaseInv, LockOK, vTaskSuspendAll, Scheduling, locals
  <2>2. CASE \E n \in Delays : Block(t, n, FALSE)
    BY <1>1, <2>2 DEF BaseInv, LockOK, Block, locals
  <2>3. CASE t \in Blocked /\ xTaskResumeAll(t)
    <3>1. \A u \in Tasks : pc[u] \notin InReceive
      BY <1>1, <2>3 DEF BaseInv, LockOK, xTaskResumeAll, InReceive
    <3> QED  BY <1>1, <3>1 DEF BaseInv, LockOK, locals
  <2> QED  BY <2>1, <2>2, <2>3 DEF vTaskDelay
<1>4. WaitOK'
  <2>1. Blocked' \subseteq Blocked \cup {t} /\ eventItems' = eventItems
    <3>1. CASE vTaskSuspendAll(t)
      BY <3>1 DEF vTaskSuspendAll, Blocked, lists
    <3>2. CASE \E n \in Delays : Block(t, n, FALSE)
      BY <3>2 DEF Block, prvAddCurrentTaskToDelayedList, Blocked
    <3>3. CASE t \in Blocked /\ xTaskResumeAll(t)
      BY <3>3 DEF xTaskResumeAll, Blocked
    <3> QED  BY <3>1, <3>2, <3>3 DEF vTaskDelay
  <2> QED  BY <1>1, <2>1 DEF BaseInv, WaitOK, locals, Waiting
<1> QED  BY <1>2, <1>3, <1>4 DEF BaseInv

(* What a tick, or a tick held back, does to the lists. *)
LEMMA SysTickLists ==
    ASSUME BaseInv, SysTick
    PROVE  /\ Blocked' \subseteq Blocked /\ eventItems' \subseteq eventItems
           /\ UNCHANGED <<suspender, ring, cTxLock, locals, buffer>>
<1>1. UNCHANGED <<ring, cTxLock, locals, buffer>>
  BY DEF SysTick
<1>2. CASE xTaskIncrementTick
  BY <1>1, <1>2, IncrementTick DEF BaseInv, Blocked, Current
<1>3. CASE UNCHANGED <<lists, eventItems, suspender>>
  BY <1>1, <1>3 DEF Blocked, lists
<1> QED  BY <1>2, <1>3 DEF SysTick, Tick, Unwind

LEMMA SysTickBase ==
    ASSUME BaseInv, TicksInv', SysTick
    PROVE  BaseInv'
<1>1. QueueTypeOK'
  BY SysTickLists DEF BaseInv, QueueTypeOK, ring
<1>2. LocalsTypeOK'
  <2>1. since' \in [Tasks -> Nat]
    BY DEF BaseInv, LocalsTypeOK, SysTick, Count
  <2> QED  BY <2>1, SysTickLists DEF BaseInv, LocalsTypeOK, locals
<1>3. LockOK' /\ WaitOK'
  BY SysTickLists DEF BaseInv, LockOK, WaitOK, locals, Waiting
<1> QED  BY <1>1, <1>2, <1>3 DEF BaseInv

LEMMA BaseNext == BaseInv /\ [Next]_vars => BaseInv'
<1> SUFFICES ASSUME BaseInv, [Next]_vars PROVE BaseInv'
  OBVIOUS
<1>0. TicksInv'
  BY TicksInvNext
<1>1. CASE \E v \in Item : xQueueGenericSend(v) \/ xQueueGenericSendFromISR(v)
  BY <1>0, <1>1, SendBase
<1>2. CASE \E t \in Tasks : xQueueReceive(t)
  BY <1>0, <1>2, ReturnBase, MoveBase, SchedulerBase DEF xQueueReceive
<1>3. CASE \E t \in Tasks : vTaskDelay(t)
  BY <1>0, <1>3, DelayBase
<1>4. CASE SysTick
  BY <1>0, <1>4, SysTickBase
<1>5. CASE UNCHANGED vars
  <2>1. UNCHANGED <<tickVars, queueVars, ring, cTxLock, locals, buffer, since>>
    BY <1>5 DEF vars, queueVars
  <2>2. UNCHANGED <<Blocked, eventItems, suspender>>
    BY <2>1 DEF tickVars, lists, Blocked
  <2>3. QueueTypeOK' /\ LocalsTypeOK'
    BY <2>1 DEF BaseInv, QueueTypeOK, LocalsTypeOK, ring, locals
  <2>4. LockOK' /\ WaitOK'
    BY <2>1, <2>2 DEF BaseInv, LockOK, WaitOK, locals, Waiting
  <2> QED  BY <1>0, <2>3, <2>4 DEF BaseInv
<1> QED  BY <1>1, <1>2, <1>3, <1>4, <1>5 DEF Next

LEMMA BaseInvariance == Spec => []BaseInv
  BY BaseInit, BaseNext, PTL DEF Spec

(* The queue and the tasks that wait for it keep their types: the indices  *)
(* stay in the ring, the count within the capacity, the lock count within  *)
(* the number of tasks and what is left of a timeout within TickType_t.    *)
THEOREM TypeCorrect == Spec => []TypeOK
  BY BaseInvariance, TypesOfBase, PTL

(* Every step of a task, an interrupt or the tick is one of module Ticks,  *)
(* so what is proved of the kernel's time holds of the queue's tasks.      *)
THEOREM TimeKept == Spec => KeepsTime
<1>1. Init => TicksInit
  BY DEF Init
<1>2. Spec => TicksInit /\ [][TicksNext]_tickVars
  BY <1>1, TicksStep, BaseInvariance, PTL DEF Spec
<1> QED  BY <1>2 DEF KeepsTime, TicksSpec

(* The tasks that share the queue sleep exactly as long as they asked to   *)
(* or until an event, whatever they do meanwhile.                          *)
THEOREM SleepsCounted == Spec => ImplementsSleepers
  BY TimeKept, ListsCountTicks DEF KeepsTime
-----------------------------------------------------------------------------
(***************************************************************************)
(* The ring is a FIFO.                                                     *)
(***************************************************************************)
Wrap(x) == x % uxLength

RingOK == pcWriteTo = Wrap(pcReadFrom + (uxMessagesWaiting + 1))

LEMMA WrapType == \A x \in Nat : Wrap(x) \in 0 .. uxLength - 1
  BY QueueAssumption DEF Wrap

LEMMA WrapValue ==
    /\ \A x \in 0 .. uxLength - 1 : Wrap(x) = x
    /\ \A x \in uxLength .. 2 * uxLength - 1 : Wrap(x) = x - uxLength
    /\ Wrap(2 * uxLength) = 0
<1>1. ASSUME NEW x \in 0 .. uxLength - 1 PROVE Wrap(x) = x
  BY QueueAssumption DEF Wrap
<1>2. ASSUME NEW x \in uxLength .. 2 * uxLength - 1 PROVE Wrap(x) = x - uxLength
  BY QueueAssumption DEF Wrap
<1>3. Wrap(2 * uxLength) = 0
  BY QueueAssumption DEF Wrap
<1> QED  BY <1>1, <1>2, <1>3

LEMMA WrapUpTo ==
    ASSUME NEW x \in 0 .. 2 * uxLength
    PROVE  Wrap(x) = IF x < uxLength THEN x
                     ELSE IF x < 2 * uxLength THEN x - uxLength ELSE 0
<1>1. CASE x < uxLength
  BY <1>1, WrapValue, QueueAssumption
<1>2. CASE x \in uxLength .. 2 * uxLength - 1
  BY <1>2, WrapValue, QueueAssumption
<1>3. CASE x = 2 * uxLength
  BY <1>3, WrapValue, QueueAssumption
<1> QED  BY <1>1, <1>2, <1>3, QueueAssumption

(* Counting on from the slot after r and from the k-th slot after r. *)
LEMMA WrapShift ==
    ASSUME NEW r \in 0 .. uxLength - 1, NEW k \in 0 .. uxLength
    PROVE  Wrap(Wrap(r + 1) + k) = Wrap(r + (k + 1))
<1>1. r + 1 \in 0 .. 2 * uxLength /\ r + (k + 1) \in 0 .. 2 * uxLength
  BY QueueAssumption
<1>2. Wrap(r + 1) = IF r + 1 < uxLength THEN r + 1 ELSE 0
  BY <1>1, WrapUpTo, QueueAssumption
<1>3. Wrap(r + 1) + k \in 0 .. 2 * uxLength
  BY <1>2, QueueAssumption
<1>4. Wrap(Wrap(r + 1) + k) = IF Wrap(r + 1) + k < uxLength THEN Wrap(r + 1) + k
                              ELSE IF Wrap(r + 1) + k < 2 * uxLength
                                   THEN Wrap(r + 1) + k - uxLength ELSE 0
  BY <1>3, WrapUpTo, QueueAssumption
<1>5. Wrap(r + (k + 1)) = IF r + (k + 1) < uxLength THEN r + (k + 1)
                          ELSE IF r + (k + 1) < 2 * uxLength
                               THEN r + (k + 1) - uxLength ELSE 0
  BY <1>1, WrapUpTo, QueueAssumption
<1> QED  BY <1>2, <1>4, <1>5, QueueAssumption

LEMMA WrapNext ==
    ASSUME NEW r \in 0 .. uxLength - 1, NEW k \in 0 .. uxLength
    PROVE  Wrap(Wrap(r + k) + 1) = Wrap(r + (k + 1))
<1>1. r + k \in 0 .. 2 * uxLength - 1 /\ r + (k + 1) \in 0 .. 2 * uxLength
  BY QueueAssumption
<1>2. Wrap(r + k) = IF r + k < uxLength THEN r + k ELSE r + k - uxLength
  BY <1>1, WrapUpTo, QueueAssumption
<1>3. Wrap(r + k) + 1 \in 0 .. uxLength
  BY <1>1, <1>2, QueueAssumption
<1>4. Wrap(Wrap(r + k) + 1) = IF Wrap(r + k) + 1 < uxLength THEN Wrap(r + k) + 1 ELSE 0
  BY <1>3, WrapUpTo, QueueAssumption
<1>5. Wrap(r + (k + 1)) = IF r + (k + 1) < uxLength THEN r + (k + 1)
                          ELSE IF r + (k + 1) < 2 * uxLength
                               THEN r + (k + 1) - uxLength ELSE 0
  BY <1>1, WrapUpTo, QueueAssumption
<1> QED  BY <1>1, <1>2, <1>4, <1>5, QueueAssumption

LEMMA WrapApart ==
    ASSUME NEW r \in 0 .. uxLength - 1, NEW i \in 1 .. uxLength, NEW j \in 1 .. uxLength, i < j
    PROVE  Wrap(r + i) # Wrap(r + j)
<1>1. \A k \in 1 .. uxLength : Wrap(r + k) = IF r + k < uxLength THEN r + k ELSE r + k - uxLength
  <2> TAKE k \in 1 .. uxLength
  <2>1. r + k \in 0 .. 2 * uxLength - 1
    BY QueueAssumption
  <2> QED  BY <2>1, WrapUpTo, QueueAssumption
<1> QED  BY <1>1, QueueAssumption

LEMMA AfterIsWrap ==
    ASSUME NEW slot \in 0 .. uxLength - 1
    PROVE  After(slot) = Wrap(slot + 1)
<1>1. slot + 1 \in 0 .. 2 * uxLength
  BY QueueAssumption
<1> QED  BY <1>1, WrapUpTo, QueueAssumption DEF After

(* The slot of the i-th waiting item. *)
Slot(i) == Wrap(pcReadFrom + i)

ItemsAre ==
    /\ Items \in Seq(Item) /\ Len(Items) = uxMessagesWaiting
    /\ \A i \in 1 .. uxMessagesWaiting :
          Slot(i) \in 0 .. uxLength - 1 /\ Items[i] = pcHead[Slot(i)]

LEMMA ItemsOK == QueueTypeOK => ItemsAre
<1> SUFFICES ASSUME QueueTypeOK PROVE ItemsAre
  OBVIOUS
<1>1. ASSUME NEW i \in 1 .. uxMessagesWaiting PROVE Slot(i) \in 0 .. uxLength - 1
  <2>1. pcReadFrom \in 0 .. uxLength - 1 /\ uxMessagesWaiting \in 0 .. uxLength
    BY DEF QueueTypeOK
  <2>2. pcReadFrom + i \in 0 .. 2 * uxLength
    BY <2>1, QueueAssumption
  <2> QED  BY <2>2, WrapType DEF Slot
<1>2. Items \in [1 .. uxMessagesWaiting -> Item]
  BY <1>1 DEF Items, Slot, Wrap, QueueTypeOK
<1>3. uxMessagesWaiting \in Nat
  BY DEF QueueTypeOK
<1>4. Items \in Seq(Item) /\ Len(Items) = uxMessagesWaiting
  BY <1>2, <1>3
<1> QED  BY <1>1, <1>4 DEF ItemsAre, Items, Slot, Wrap

LEMMA ItemsOKNext == QueueTypeOK' => ItemsAre'
  BY ItemsOK, PTL

LEMMA PutStep ==
    ASSUME QueueTypeOK, QueueTypeOK', RingOK, NEW v \in Item, uxMessagesWaiting < uxLength,
           prvCopyDataToQueue(v), UNCHANGED buffer
    PROVE  Ring!Next /\ RingOK'
<1> DEFINE n == uxMessagesWaiting
<1>1. /\ Items \in Seq(Item) /\ Len(Items) = n
      /\ Items' \in Seq(Item) /\ Len(Items') = n + 1
      /\ uxMessagesWaiting' = n + 1 /\ n \in 0 .. uxLength - 1
  <2>1. uxMessagesWaiting' = n + 1 /\ n \in 0 .. uxLength - 1
    BY QueueAssumption DEF prvCopyDataToQueue, QueueTypeOK
  <2> QED  BY <2>1, ItemsOK, ItemsOKNext DEF ItemsAre
<1>2. \A i \in 1 .. n + 1 : Slot(i)' = Slot(i)
  BY DEF Slot, prvCopyDataToQueue
<1>3. Slot(n + 1) = pcWriteTo
  BY QueueAssumption DEF Slot, RingOK, QueueTypeOK
<1>4. ASSUME NEW i \in 1 .. n PROVE Slot(i) # pcWriteTo
  <2>1. Wrap(pcReadFrom + i) # Wrap(pcReadFrom + (n + 1))
    <3>1. i \in 1 .. uxLength /\ n + 1 \in 1 .. uxLength /\ i < n + 1
      BY <1>1, QueueAssumption
    <3>2. pcReadFrom \in 0 .. uxLength - 1
      BY DEF QueueTypeOK
    <3> QED  BY <3>1, <3>2, WrapApart
  <2> QED  BY <1>3, <2>1 DEF Slot
<1>5. Items'[n + 1] = v
  BY <1>1, <1>2, <1>3, ItemsOKNext DEF ItemsAre, prvCopyDataToQueue, QueueTypeOK
<1>6. ASSUME NEW i \in 1 .. n PROVE Items'[i] = Items[i]
  <2>1. Items'[i] = pcHead'[Slot(i)] /\ Items[i] = pcHead[Slot(i)] /\ Slot(i) \in 0 .. uxLength - 1
    BY <1>1, <1>2, ItemsOK, ItemsOKNext DEF ItemsAre
  <2> QED  BY <1>4, <2>1 DEF prvCopyDataToQueue, QueueTypeOK
<1>7. Items' = Append(Items, v)
  <2>1. Append(Items, v) \in Seq(Item) /\ Len(Append(Items, v)) = n + 1
    BY <1>1, AppendProperties
  <2>2. \A i \in 1 .. n + 1 : Items'[i] = Append(Items, v)[i]
    BY <1>1, <1>5, <1>6, AppendProperties
  <2> QED  BY <1>1, <2>1, <2>2, SeqEqual
<1>8. RingOK'
  <2>1. After(pcWriteTo) = Wrap(pcWriteTo + 1)
    BY AfterIsWrap DEF QueueTypeOK
  <2>2. pcWriteTo' = After(pcWriteTo) /\ pcReadFrom' = pcReadFrom
    BY DEF prvCopyDataToQueue
  <2>3. pcWriteTo = Wrap(pcReadFrom + (n + 1))
    BY <1>3 DEF Slot
  <2>4. Wrap(pcWriteTo + 1) = Wrap(pcReadFrom + (n + 1 + 1))
    BY <1>1, <2>3, WrapNext DEF QueueTypeOK
  <2>5. pcReadFrom + (n + 1 + 1) = pcReadFrom + (n + 1) + 1
    BY <1>1 DEF QueueTypeOK
  <2> QED  BY <1>1, <2>1, <2>2, <2>4, <2>5 DEF RingOK
<1>9. Len(Items) < uxLength
  BY <1>1
<1> QED  BY <1>7, <1>8, <1>9 DEF Ring!Next, Ring!Put

LEMMA GetStep ==
    ASSUME QueueTypeOK, QueueTypeOK', RingOK, uxMessagesWaiting > 0, prvCopyDataFromQueue
    PROVE  Ring!Next /\ RingOK'
<1> DEFINE n == uxMessagesWaiting
<1>1. /\ Items \in Seq(Item) /\ Len(Items) = n
      /\ Items' \in Seq(Item) /\ Len(Items') = n - 1
      /\ uxMessagesWaiting' = n - 1 /\ n \in 1 .. uxLength
      /\ UNCHANGED <<pcHead, pcWriteTo>>
  <2>1. uxMessagesWaiting' = n - 1 /\ n \in 1 .. uxLength /\ UNCHANGED <<pcHead, pcWriteTo>>
    BY QueueAssumption DEF prvCopyDataFromQueue, QueueTypeOK
  <2> QED  BY <2>1, ItemsOK, ItemsOKNext DEF ItemsAre
<1>2. pcReadFrom' = Wrap(pcReadFrom + 1) /\ buffer' = pcHead[Slot(1)]
  BY AfterIsWrap DEF prvCopyDataFromQueue, QueueTypeOK, Slot
<1>3. /\ pcReadFrom \in 0 .. uxLength - 1 /\ pcReadFrom' \in 0 .. uxLength - 1
  BY DEF QueueTypeOK
<1>4. ASSUME NEW i \in 1 .. n - 1 PROVE Slot(i)' = Slot(i + 1)
  <2>1. Wrap(pcReadFrom' + i) = Wrap(pcReadFrom + (i + 1))
    BY <1>1, <1>2, <1>3, WrapShift, QueueAssumption
  <2> QED  BY <2>1 DEF Slot
<1>5. Items # <<>> /\ buffer' = Head(Items)
  <2>1. Items[1] = pcHead[Slot(1)]
    BY <1>1, ItemsOK DEF ItemsAre
  <2> QED  BY <1>1, <1>2, <2>1
<1>6. \A i \in 1 .. n - 1 : Items'[i] = Items[i + 1]
  <2> TAKE i \in 1 .. n - 1
  <2>1. Items'[i] = pcHead'[Slot(i)']
    BY <1>1, ItemsOKNext DEF ItemsAre
  <2>2. Items[i + 1] = pcHead[Slot(i + 1)]
    BY <1>1, ItemsOK DEF ItemsAre
  <2> QED  BY <1>1, <1>4, <2>1, <2>2
<1>7. Items' = Tail(Items)
  <2>1. /\ Tail(Items) \in Seq(Item) /\ Len(Tail(Items)) = n - 1
        /\ \A i \in 1 .. n - 1 : Tail(Items)[i] = Items[i + 1]
    BY <1>1, <1>5, HeadTailProperties
  <2> QED  BY <1>1, <1>6, <2>1, SeqEqual
<1>8. RingOK'
  <2>1. Wrap(pcReadFrom' + n) = Wrap(pcReadFrom + (n + 1))
    BY <1>1, <1>2, <1>3, WrapShift
  <2>2. pcReadFrom' + (n - 1) + 1 = pcReadFrom' + n /\ pcReadFrom + n + 1 = pcReadFrom + (n + 1)
    BY <1>1, <1>3
  <2> QED  BY <1>1, <2>1, <2>2 DEF RingOK
<1> QED  BY <1>5, <1>7, <1>8 DEF Ring!Next, Ring!Get

LEMMA RingStep ==
    BaseInv /\ BaseInv' /\ RingOK /\ [Next]_vars => RingOK' /\ [Ring!Next]_<<Items, buffer>>
<1> SUFFICES ASSUME BaseInv, BaseInv', RingOK, [Next]_vars
             PROVE  RingOK' /\ [Ring!Next]_<<Items, buffer>>
  OBVIOUS
<1>0. QueueTypeOK /\ QueueTypeOK'
  BY DEF BaseInv
<1>1. ASSUME NEW v \in Item, xQueueGenericSend(v) \/ xQueueGenericSendFromISR(v)
      PROVE  RingOK' /\ Ring!Next
  BY <1>0, <1>1, PutStep DEF xQueueGenericSend, xQueueGenericSendFromISR
<1>2. ASSUME NEW t \in Tasks, Receive(t)
      PROVE  RingOK' /\ Ring!Next
  BY <1>0, <1>2, GetStep DEF Receive
<1>3. ASSUME UNCHANGED <<ring, buffer>>
      PROVE  RingOK' /\ UNCHANGED <<Items, buffer>>
  BY <1>3 DEF ring, RingOK, Items
<1>4. ASSUME NEW t \in Tasks, xQueueReceive(t), ~Receive(t)
      PROVE  UNCHANGED <<ring, buffer>>
  BY <1>4 DEF xQueueReceive, Call, GiveUp, FindEmpty, SuspendScheduler, Lock, prvIsQueueEmpty,
              vTaskPlaceOnEventList, prvUnlockQueue, Resume, TryAgain
<1>5. ASSUME (\E t \in Tasks : vTaskDelay(t)) \/ SysTick \/ UNCHANGED vars
      PROVE  UNCHANGED <<ring, buffer>>
  BY <1>5 DEF vTaskDelay, SysTick, vars, queueVars
<1> QED  BY <1>1, <1>2, <1>3, <1>4, <1>5 DEF Next

LEMMA RingInit == Init => RingOK /\ Ring!Init
<1> SUFFICES ASSUME Init PROVE RingOK /\ Ring!Init
  OBVIOUS
<1>1. pcReadFrom + (uxMessagesWaiting + 1) = uxLength /\ uxLength \in uxLength .. 2 * uxLength - 1
  BY QueueAssumption DEF Init
<1>2. Wrap(uxLength) = uxLength - uxLength
  BY <1>1, WrapValue
<1>3. RingOK
  BY <1>1, <1>2, QueueAssumption DEF Init, RingOK
<1>4. Items = <<>>
  BY DEF Init, Items
<1> QED  BY <1>3, <1>4 DEF Init, Ring!Init

(* A ring of slots with two indices and a count delivers each item once    *)
(* and in the order sent, whoever sends and receives, at any capacity.     *)
THEOREM RingIsFifo == Spec => ImplementsFifo
<1>1. Spec => []BaseInv
  BY BaseInvariance
<1>2. Spec => Ring!Init /\ [][Ring!Next]_<<Items, buffer>>
  BY <1>1, RingInit, RingStep, PTL DEF Spec
<1> QED  BY <1>2 DEF ImplementsFifo, Ring!Spec
-----------------------------------------------------------------------------
(***************************************************************************)
(* No wake-up is lost.  While the queue is locked the items that come are  *)
(* counted in cTxLock, and a receiver that is about to enter the list has  *)
(* seen none but these; a count that has reached the number of tasks will  *)
(* empty the list.                                                         *)
(***************************************************************************)
Counted == IF cTxLock = queueUNLOCKED THEN 0 ELSE cTxLock

HeadOK ==
    eventItems # {} /\ cTxLock < Cardinality(Tasks)
        => uxMessagesWaiting <= Cardinality(Heading) + Counted

PlaceOK ==
    \A t \in Tasks :
        pc[t] = "place" /\ cTxLock < Cardinality(Tasks) => uxMessagesWaiting <= cTxLock

LEMMA HeadingFinite ==
    /\ IsFiniteSet(Heading) /\ Cardinality(Heading) \in Nat
    /\ IsFiniteSet(Heading') /\ Cardinality(Heading') \in Nat
<1>1. Heading \in SUBSET Tasks /\ Heading' \in SUBSET Tasks
  BY DEF Heading
<1>2. IsFiniteSet(Heading) /\ IsFiniteSet(Heading')
  BY <1>1, TasksFinite, FS_Subset
<1> QED  BY <1>2, FS_CardinalityType

LEMMA HeadingGrows ==
    ASSUME Heading \subseteq Heading'
    PROVE  Cardinality(Heading) <= Cardinality(Heading')
  BY HeadingFinite, FS_Subset

(* The woken tasks head for the queue: n of them, or all there are. *)
LEMMA WakeHeading ==
    ASSUME BaseInv, NEW n, WakeReceivers(n), eventItems' # {},
           \A t \in Tasks : pc'[t] = "idle" <=> pc[t] = "idle"
    PROVE  Cardinality(Heading') = Cardinality(Heading) + n
<1>1. PICK S \in SUBSET eventItems : Cardinality(S) = n /\ eventItems' = eventItems \ S
  BY DEF WakeReceivers, xTaskRemoveFromEventList
<1>2. S \in SUBSET Tasks /\ \A t \in S : pc[t] # "idle"
  BY DEF BaseInv, TicksInv, TicksTypeOK, WaitOK
<1>3. IsFiniteSet(S) /\ Cardinality(S) \in Nat
  BY <1>2, TasksFinite, FS_Subset, FS_CardinalityType
<1>4. Heading' = Heading \cup S /\ Heading \cap S = {}
  BY <1>1, <1>2 DEF Heading
<1>5. Cardinality(Heading \cup S) = Cardinality(Heading) + Cardinality(S) - Cardinality({})
  BY <1>3, <1>4, HeadingFinite, FS_Union
<1> QED  BY <1>1, <1>3, <1>4, <1>5, HeadingFinite, FS_EmptySet

(* A count that has reached the number of tasks wakes everybody. *)
LEMMA WakeAll ==
    ASSUME BaseInv, WakeReceivers(Cardinality(Tasks))
    PROVE  eventItems' = {}
<1>1. PICK S \in SUBSET eventItems :
        /\ Cardinality(S) = Cardinality(Tasks) \/ S = eventItems
        /\ eventItems' = eventItems \ S
  BY DEF WakeReceivers, xTaskRemoveFromEventList
<1>2. eventItems \in SUBSET Tasks /\ S \in SUBSET Tasks
  BY DEF BaseInv, TicksInv, TicksTypeOK
<1>3. Cardinality(S) = Cardinality(Tasks) => S = Tasks
  BY <1>2, TasksFinite, FS_Subset
<1> QED  BY <1>1, <1>2, <1>3

LEMMA UnlockedOutside ==
    ASSUME BaseInv, Scheduling \/ (\E t \in Tasks : pc[t] = "lock")
    PROVE  cTxLock = queueUNLOCKED
  BY TicksAssumption DEF BaseInv, LockOK, Scheduling, InReceive, Locked

LEMMA HeadSend ==
    ASSUME BaseInv, HeadOK, PlaceOK, NEW v \in Item,
           xQueueGenericSend(v) \/ xQueueGenericSendFromISR(v)
    PROVE  HeadOK' /\ PlaceOK'
<1>1. /\ uxMessagesWaiting' = uxMessagesWaiting + 1 /\ uxMessagesWaiting \in Nat
      /\ UNCHANGED pc
  BY DEF BaseInv, QueueTypeOK, xQueueGenericSend, xQueueGenericSendFromISR, prvCopyDataToQueue, locals
<1>2. cTxLock \in Int /\ Cardinality(Tasks) \in Nat
  BY TasksFinite DEF BaseInv, QueueTypeOK, queueUNLOCKED
<1>3. CASE cTxLock = queueUNLOCKED
  <2>1. WakeReceivers(1) /\ UNCHANGED cTxLock
    BY <1>3 DEF xQueueGenericSend, xQueueGenericSendFromISR
  <2>2. PlaceOK'
    BY <1>1, <1>3, <2>1 DEF PlaceOK, BaseInv, LockOK, Locked
  <2>3. HeadOK'
    <3> SUFFICES ASSUME eventItems' # {}, cTxLock < Cardinality(Tasks)
                 PROVE  uxMessagesWaiting' <= Cardinality(Heading') + Counted'
      BY <2>1 DEF HeadOK
    <3>1. Cardinality(Heading') = Cardinality(Heading) + 1
      BY <1>1, <2>1, WakeHeading
    <3>2. eventItems # {}
      BY <2>1, WakeBase
    <3>3. uxMessagesWaiting <= Cardinality(Heading) + 0
      BY <1>3, <3>2 DEF HeadOK, Counted
    <3> QED  BY <1>1, <1>3, <2>1, <3>1, <3>3, HeadingFinite DEF Counted
  <2> QED  BY <2>2, <2>3
<1>4. CASE cTxLock # queueUNLOCKED
  <2>1. cTxLock' = prvIncrementQueueTxLock /\ UNCHANGED tickVars
    BY <1>4, UnlockedOutside DEF xQueueGenericSend, xQueueGenericSendFromISR
  <2>2. UNCHANGED eventItems /\ Heading' = Heading
    BY <1>1, <2>1 DEF tickVars, Heading
  <2>3. cTxLock' < Cardinality(Tasks) => cTxLock < Cardinality(Tasks) /\ cTxLock' = cTxLock + 1
    BY <1>2, <2>1 DEF prvIncrementQueueTxLock
  <2>4. cTxLock \in Nat
    BY <1>4 DEF BaseInv, QueueTypeOK, queueUNLOCKED
  <2>5. PlaceOK'
    BY <1>1, <2>3, <2>4 DEF PlaceOK
  <2>6. HeadOK'
    BY <1>1, <1>4, <2>2, <2>3, <2>4, HeadingFinite DEF HeadOK, Counted, queueUNLOCKED
  <2> QED  BY <2>5, <2>6
<1> QED  BY <1>3, <1>4

LEMMA HeadReturn ==
    ASSUME BaseInv, HeadOK, PlaceOK, NEW t \in Tasks, Receive(t) \/ GiveUp(t)
    PROVE  HeadOK' /\ PlaceOK'
<1>1. /\ pc[t] \in {"check", "expired"} /\ t \notin eventItems
      /\ pc' = [pc EXCEPT ![t] = "idle"]
      /\ cTxLock = queueUNLOCKED /\ UNCHANGED <<cTxLock, eventItems>>
  BY UnlockedOutside DEF Receive, GiveUp, Return, tickVars, CanRun, BaseInv, TicksInv, EventsBlocked
<1>2. \A u \in Tasks : pc'[u] # "place"
  BY <1>1 DEF BaseInv, LocalsTypeOK, LockOK, Locked
<1>3. PlaceOK'
  BY <1>2 DEF PlaceOK
<1>4. t \in Heading /\ Heading' = Heading \ {t}
  BY <1>1 DEF Heading, BaseInv, LocalsTypeOK
<1>5. Cardinality(Heading') = Cardinality(Heading) - 1
  BY <1>4, HeadingFinite, FS_RemoveElement
<1>6. uxMessagesWaiting \in Nat
  BY DEF BaseInv, QueueTypeOK
<1>7. CASE Receive(t)
  <2>1. uxMessagesWaiting' = uxMessagesWaiting - 1
    BY <1>7 DEF Receive, prvCopyDataFromQueue
  <2> QED  BY <1>1, <1>3, <1>5, <1>6, <2>1, HeadingFinite DEF HeadOK, Counted
<1>8. CASE GiveUp(t)
  <2>1. uxMessagesWaiting' = 0
    BY <1>8 DEF GiveUp, ring
  <2> QED  BY <1>1, <1>3, <2>1, HeadingFinite DEF HeadOK, Counted
<1> QED  BY <1>7, <1>8

(* A step that takes nobody off the way to the queue and sends nothing. *)
LEMMA HeadKept ==
    ASSUME BaseInv, HeadOK, eventItems' \subseteq eventItems,
           \A t \in Tasks : pc[t] # "idle" => pc'[t] # "idle",
           UNCHANGED <<uxMessagesWaiting, cTxLock>>
    PROVE  HeadOK'
<1>1. Heading \subseteq Heading'
  BY DEF Heading
<1>2. uxMessagesWaiting \in Nat /\ cTxLock \in Int
  BY TasksFinite DEF BaseInv, QueueTypeOK, queueUNLOCKED
<1>3. HeadOK' \/ uxMessagesWaiting <= Cardinality(Heading) + Counted
  BY DEF HeadOK
<1>4. Counted' = Counted /\ Counted \in Int
  BY <1>2 DEF Counted
<1> QED  BY <1>1, <1>2, <1>3, <1>4, HeadingGrows, HeadingFinite DEF HeadOK

LEMMA HeadMove ==
    ASSUME BaseInv, HeadOK, PlaceOK, NEW t \in Tasks,
           \/ Call(t) \/ FindEmpty(t) \/ TryAgain(t) \/ SuspendScheduler(t)
           \/ prvIsQueueEmpty(t) \/ Resume(t)
    PROVE  HeadOK' /\ PlaceOK'
<1>1. UNCHANGED <<uxMessagesWaiting, cTxLock, eventItems>>
  BY DEF Call, FindEmpty, TryAgain, SuspendScheduler, prvIsQueueEmpty, Resume, ring, tickVars,
         vTaskSuspendAll, xTaskResumeAll
<1>2. /\ pc'[t] # "idle" /\ \A u \in Tasks \ {t} : pc'[u] = pc[u]
      /\ pc'[t] = "place" => uxMessagesWaiting = 0 /\ pc[t] = "empty"
  BY DEF BaseInv, LocalsTypeOK, Call, FindEmpty, TryAgain, SuspendScheduler, prvIsQueueEmpty, Resume, Goes
<1>3. HeadOK'
  BY <1>1, <1>2, HeadKept
<1>4. pc'[t] = "place" => uxMessagesWaiting <= cTxLock
  BY <1>2, TasksFinite DEF BaseInv, QueueTypeOK, LockOK, Locked, queueUNLOCKED
<1> QED  BY <1>1, <1>2, <1>3, <1>4 DEF PlaceOK

LEMMA HeadLock ==
    ASSUME BaseInv, HeadOK, PlaceOK, NEW t \in Tasks, Lock(t)
    PROVE  HeadOK' /\ PlaceOK'
<1>1. /\ UNCHANGED <<uxMessagesWaiting, eventItems>>
      /\ cTxLock = queueUNLOCKED /\ cTxLock' = 0
  BY UnlockedOutside DEF Lock, ring, tickVars, Goes, queueLOCKED_UNMODIFIED
<1>2. pc'[t] \in {"empty", "unlock"} /\ \A u \in Tasks \ {t} : pc'[u] = pc[u]
  BY DEF BaseInv, LocalsTypeOK, Lock, Goes
<1>3. Heading' = Heading
  BY <1>1, <1>2 DEF Heading, Lock, Goes
<1>4. uxMessagesWaiting \in Nat /\ Counted' = 0 /\ Counted = 0 /\ cTxLock < Cardinality(Tasks)
  BY <1>1, TasksFinite DEF BaseInv, QueueTypeOK, Counted, queueUNLOCKED
<1>5. HeadOK'
  BY <1>1, <1>3, <1>4 DEF HeadOK
<1>6. \A u \in Tasks : pc'[u] # "place"
  BY <1>1, <1>2 DEF BaseInv, LockOK, Locked
<1> QED  BY <1>5, <1>6 DEF PlaceOK

LEMMA HeadPlace ==
    ASSUME BaseInv, HeadOK, PlaceOK, NEW t \in Tasks, vTaskPlaceOnEventList(t)
    PROVE  HeadOK' /\ PlaceOK'
<1>1. /\ UNCHANGED <<uxMessagesWaiting, cTxLock>> /\ pc[t] = "place" /\ pc'[t] = "unlock"
      /\ \A u \in Tasks \ {t} : pc'[u] = pc[u]
  BY DEF BaseInv, LocalsTypeOK, vTaskPlaceOnEventList, ring, Goes
<1>2. uxMessagesWaiting \in Nat /\ cTxLock \in Nat
  BY <1>1, TasksFinite DEF BaseInv, QueueTypeOK, LockOK, Locked, queueUNLOCKED
<1>3. cTxLock < Cardinality(Tasks) => uxMessagesWaiting <= cTxLock
  BY <1>1 DEF PlaceOK
<1>4. Counted' = cTxLock
  BY <1>1, <1>2 DEF Counted, queueUNLOCKED
<1>5. HeadOK'
  BY <1>1, <1>2, <1>3, <1>4, HeadingFinite DEF HeadOK
<1> QED  BY <1>1, <1>5 DEF PlaceOK

LEMMA HeadUnlock ==
    ASSUME BaseInv, HeadOK, PlaceOK, NEW t \in Tasks, prvUnlockQueue(t)
    PROVE  HeadOK' /\ PlaceOK'
<1>1. /\ UNCHANGED uxMessagesWaiting /\ cTxLock' = queueUNLOCKED
      /\ pc[t] = "unlock" /\ pc'[t] = "resume" /\ suspender = t /\ WakeReceivers(cTxLock)
      /\ \A u \in Tasks \ {t} : pc'[u] = pc[u]
  BY DEF BaseInv, LocalsTypeOK, prvUnlockQueue, ring, Goes
<1>2. uxMessagesWaiting \in Nat /\ cTxLock \in Nat /\ cTxLock <= Cardinality(Tasks)
  BY <1>1, TasksFinite DEF BaseInv, QueueTypeOK, LockOK, Locked, queueUNLOCKED
<1>3. HeadOK'
  <2> SUFFICES ASSUME eventItems' # {} PROVE uxMessagesWaiting' <= Cardinality(Heading') + Counted'
    BY DEF HeadOK
  <2>1. cTxLock # Cardinality(Tasks)
    BY <1>1, WakeAll
  <2>2. eventItems # {}
    BY <1>1, WakeBase
  <2>3. uxMessagesWaiting <= Cardinality(Heading) + cTxLock
    BY <1>2, <2>1, <2>2, TasksFinite DEF HeadOK, Counted, queueUNLOCKED
  <2>4. Cardinality(Heading') = Cardinality(Heading) + cTxLock
    BY <1>1, WakeHeading
  <2> QED  BY <1>1, <1>2, <2>3, <2>4, HeadingFinite DEF Counted
<1>4. \A u \in Tasks : pc'[u] # "place"
  BY <1>1 DEF BaseInv, LockOK, InReceive
<1> QED  BY <1>3, <1>4 DEF PlaceOK

LEMMA HeadNext == BaseInv /\ HeadOK /\ PlaceOK /\ [Next]_vars => HeadOK' /\ PlaceOK'
<1> SUFFICES ASSUME BaseInv, HeadOK, PlaceOK, [Next]_vars PROVE HeadOK' /\ PlaceOK'
  OBVIOUS
<1>1. CASE \E v \in Item : xQueueGenericSend(v) \/ xQueueGenericSendFromISR(v)
  BY <1>1, HeadSend
<1>2. CASE \E t \in Tasks : xQueueReceive(t)
  BY <1>2, HeadReturn, HeadMove, HeadLock, HeadPlace, HeadUnlock DEF xQueueReceive
<1>3. CASE \E t \in Tasks : vTaskDelay(t)
  <2>1. UNCHANGED <<uxMessagesWaiting, cTxLock, pc>>
    BY <1>3 DEF vTaskDelay, queueVars, ring, locals
  <2>2. eventItems' = eventItems
    BY <1>3 DEF vTaskDelay, vTaskSuspendAll, Block, xTaskResumeAll
  <2> QED  BY <2>1, <2>2, HeadKept DEF PlaceOK
<1>4. CASE SysTick
  <2>1. UNCHANGED <<uxMessagesWaiting, cTxLock, pc>> /\ eventItems' \subseteq eventItems
    BY <1>4, SysTickLists DEF ring, locals
  <2> QED  BY <2>1, HeadKept DEF PlaceOK
<1>5. CASE UNCHANGED vars
  <2>1. UNCHANGED <<uxMessagesWaiting, cTxLock, pc, eventItems>>
    BY <1>5 DEF vars, queueVars, ring, locals, tickVars
  <2> QED  BY <2>1, HeadKept DEF PlaceOK
<1> QED  BY <1>1, <1>2, <1>3, <1>4, <1>5 DEF Next

LEMMA HeadInit == Init => HeadOK /\ PlaceOK
  BY DEF Init, TicksInit, HeadOK, PlaceOK

LEMMA HeadIsWakeup == BaseInv /\ HeadOK => NoLostWakeup
<1> SUFFICES ASSUME BaseInv, HeadOK, eventItems # {}, cTxLock = queueUNLOCKED
             PROVE  uxMessagesWaiting <= Cardinality(Heading)
  BY DEF NoLostWakeup
<1>1. cTxLock < Cardinality(Tasks)
  BY TasksFinite DEF queueUNLOCKED
<1> QED  BY <1>1, HeadingFinite DEF HeadOK, Counted, BaseInv, QueueTypeOK

(* Whenever receivers wait in the list of an unlocked queue, each item in  *)
(* it has a receiver on its way, at whatever moment of a receiver's        *)
(* locking, timing and blocking it was sent.                               *)
THEOREM NoWakeupIsLost == Spec => []NoLostWakeup
<1>1. Spec => []BaseInv
  BY BaseInvariance
<1>2. Spec => [](BaseInv /\ HeadOK)
  BY <1>1, HeadInit, HeadNext, PTL DEF Spec
<1> QED  BY <1>2, HeadIsWakeup, PTL
-----------------------------------------------------------------------------
(***************************************************************************)
(* A wait is as long as it was asked to be.  What is left of a timeout,    *)
(* the ticks since it was reckoned and the ticks since the queue was found *)
(* empty add up; the clock, which wraps, and the count of its wraps say    *)
(* how many ticks have passed as long as they are no more than one period. *)
(***************************************************************************)
PassedSince(t, p) ==
    /\ p \in 0 .. WRAP
    /\ \/ /\ xTimeOut[t][1] + p < WRAP
          /\ xTickCount = xTimeOut[t][1] + p
          /\ xNumOfOverflows = xTimeOut[t][2]
       \/ /\ xTimeOut[t][1] + p >= WRAP
          /\ xTickCount = xTimeOut[t][1] + p - WRAP
          /\ xNumOfOverflows = (xTimeOut[t][2] + 1) % OVERFLOWS

Finite(t) == request[t] < portMAX_DELAY

TaskOK(t) ==
    /\ pc[t] = "idle" => goto[t] = "check"
    /\ ~Waiting(t) => since[t] = 0 /\ xTicksToWait[t] = request[t]
    /\ ~Finite(t) => xTicksToWait[t] = portMAX_DELAY
    /\ Finite(t) => xTicksToWait[t] <= request[t]
    /\ Waiting(t) /\ Finite(t) /\ xTicksToWait[t] > 0
          => PassedSince(t, since[t] - (request[t] - xTicksToWait[t]))
    /\ Waiting(t) /\ Finite(t) /\ xTicksToWait[t] = 0 => since[t] >= request[t]
    /\ pc[t] \in {"empty", "place"} /\ Finite(t)
          => since[t] = request[t] - xTicksToWait[t]
    /\ pc[t] = "expired" \/ goto[t] = "expired" => xTicksToWait[t] = 0
    /\ t \in Blocked /\ pc[t] # "idle" /\ Finite(t) => since[t] + TicksLeft[t] = request[t]

TimeOK == \A t \in Tasks : TaskOK(t)

(* What concerns a task that only moves on, or stays where it is. *)
Still(u) == /\ xTicksToWait'[u] = xTicksToWait[u] /\ xTimeOut'[u] = xTimeOut[u]
            /\ request'[u] = request[u] /\ since'[u] = since[u]

LEMMA TaskFrame ==
    ASSUME NEW u \in Tasks, TaskOK(u), Still(u), UNCHANGED clock,
           u \in Blocked' => u \in Blocked /\ TicksLeft'[u] = TicksLeft[u],
           \/ pc'[u] = pc[u]
           \/ /\ pc[u] # "idle" /\ pc'[u] # "idle"
              /\ pc'[u] \in {"empty", "place"} => pc[u] \in {"empty", "place"}
              /\ pc'[u] = "expired" => goto[u] = "expired",
           goto'[u] = goto[u] \/ goto'[u] = "check"
    PROVE  TaskOK(u)'
  BY DEF TaskOK, Still, Finite, Waiting, PassedSince, clock

(* Removals leave those that stay blocked as long to sleep as before. *)
LEMMA WakeTicks ==
    ASSUME BaseInv, BaseInv', NEW n, WakeReceivers(n), NEW u \in Tasks, u \in Blocked'
    PROVE  u \in Blocked /\ TicksLeft'[u] = TicksLeft[u]
<1>1. PICK S \in SUBSET eventItems : xTaskRemoveFromEventList(S)
  BY DEF WakeReceivers
<1>2. TicksInv /\ TicksInv' /\ S \in SUBSET Tasks /\ S \subseteq Blocked
  BY DEF BaseInv, TicksInv, TicksTypeOK, EventsBlocked
<1>3. u \in Blocked
  BY WakeBase
<1>4. CASE suspender = NONE
  <2>1. Blocked' = Blocked \ S /\ \A w \in Tasks \ S : TicksLeft'[w] = TicksLeft[w]
    BY <1>1, <1>2, <1>4, WakeLeft DEF xTaskRemoveFromEventList
  <2> QED  BY <1>3, <2>1
<1>5. CASE suspender # NONE
  BY <1>1, <1>3, <1>5, LeftUnchanged DEF xTaskRemoveFromEventList
<1> QED  BY <1>4, <1>5

LEMMA ResumeTicks ==
    ASSUME BaseInv, BaseInv', NEW t \in Tasks, xTaskResumeAll(t), NEW u \in Tasks, u \in Blocked'
    PROVE  u \in Blocked /\ TicksLeft'[u] = TicksLeft[u]
<1>1. /\ TicksInv /\ TicksInv' /\ xPendingReadyList \in SUBSET Tasks
      /\ xPendingReadyList \subseteq Blocked
  BY DEF BaseInv, TicksInv, TicksTypeOK, EventsBlocked
<1>2. /\ Blocked' = Blocked \ xPendingReadyList
      /\ \A w \in Tasks \ xPendingReadyList : TicksLeft'[w] = TicksLeft[w]
  BY <1>1, WakeLeft DEF xTaskResumeAll
<1> QED  BY <1>2

LEMMA SendTime ==
    ASSUME BaseInv, BaseInv', TimeOK, NEW v \in Item,
           xQueueGenericSend(v) \/ xQueueGenericSendFromISR(v)
    PROVE  TimeOK'
<1>1. UNCHANGED <<locals, since>>
  BY DEF xQueueGenericSend, xQueueGenericSendFromISR
<1>2. /\ UNCHANGED clock
      /\ \A u \in Tasks : u \in Blocked' => u \in Blocked /\ TicksLeft'[u] = TicksLeft[u]
  <2>1. CASE UNCHANGED tickVars
    BY <2>1, LeftUnchanged DEF tickVars, Blocked, lists
  <2>2. CASE WakeReceivers(1)
    BY <2>2, WakeBase, WakeTicks
  <2> QED  BY <2>1, <2>2 DEF xQueueGenericSend, xQueueGenericSendFromISR
<1> QED  BY <1>1, <1>2, TaskFrame DEF TimeOK, locals, Still

LEMMA MoveTime ==
    ASSUME BaseInv, BaseInv', TimeOK, NEW t \in Tasks,
           \/ SuspendScheduler(t) \/ prvIsQueueEmpty(t) \/ prvUnlockQueue(t) \/ Resume(t)
           \/ TryAgain(t)
    PROVE  TimeOK'
<1>1. UNCHANGED <<xTicksToWait, xTimeOut, request, since>>
  BY DEF SuspendScheduler, prvIsQueueEmpty, prvUnlockQueue, Resume, TryAgain
<1>2. /\ UNCHANGED clock
      /\ \A u \in Tasks : u \in Blocked' => u \in Blocked /\ TicksLeft'[u] = TicksLeft[u]
  <2>1. CASE prvIsQueueEmpty(t) \/ TryAgain(t)
    BY <2>1, LeftUnchanged DEF prvIsQueueEmpty, TryAgain, tickVars, Blocked, lists
  <2>2. CASE SuspendScheduler(t)
    BY <2>2, LeftUnchanged DEF SuspendScheduler, vTaskSuspendAll, Blocked, lists
  <2>3. CASE prvUnlockQueue(t)
    BY <2>3, WakeBase, WakeTicks DEF prvUnlockQueue
  <2>4. CASE Resume(t)
    BY <2>4, ResumeTicks DEF Resume, xTaskResumeAll
  <2> QED  BY <2>1, <2>2, <2>3, <2>4
<1>3. /\ \A u \in Tasks \ {t} : pc'[u] = pc[u] /\ goto'[u] = goto[u]
      /\ pc[t] # "idle" /\ pc'[t] # "idle"
      /\ pc'[t] \in {"empty", "place"} => pc[t] \in {"empty", "place"}
      /\ pc'[t] = "expired" => goto[t] = "expired"
      /\ goto'[t] = goto[t] \/ goto'[t] = "check"
  BY DEF BaseInv, LocalsTypeOK, SuspendScheduler, prvIsQueueEmpty, prvUnlockQueue, Resume, TryAgain, Goes
<1> QED  BY <1>1, <1>2, <1>3, TaskFrame DEF TimeOK, Still

LEMMA ReturnTime ==
    ASSUME BaseInv, BaseInv', TimeOK, NEW t \in Tasks, Receive(t) \/ GiveUp(t)
    PROVE  TimeOK'
<1>1. UNCHANGED tickVars /\ Return(t)
  BY DEF Receive, GiveUp
<1>2. /\ UNCHANGED clock
      /\ \A u \in Tasks : u \in Blocked' => u \in Blocked /\ TicksLeft'[u] = TicksLeft[u]
  BY <1>1, LeftUnchanged DEF tickVars, Blocked, lists
<1>3. \A u \in Tasks \ {t} : Still(u) /\ pc'[u] = pc[u] /\ goto'[u] = goto[u]
  BY <1>1 DEF BaseInv, LocalsTypeOK, Return, Still
<1>4. TaskOK(t)'
  BY <1>1, WrapPositive DEF BaseInv, LocalsTypeOK, Return, TaskOK, Waiting, Finite
<1> QED  BY <1>2, <1>3, <1>4, TaskFrame DEF TimeOK

LEMMA CallTime ==
    ASSUME BaseInv, BaseInv', TimeOK, NEW t \in Tasks, Call(t) \/ FindEmpty(t)
    PROVE  TimeOK'
<1>1. UNCHANGED tickVars
  BY DEF Call, FindEmpty
<1>2. /\ UNCHANGED clock
      /\ \A u \in Tasks : u \in Blocked' => u \in Blocked /\ TicksLeft'[u] = TicksLeft[u]
  BY <1>1, LeftUnchanged DEF tickVars, Blocked, lists
<1>3. \A u \in Tasks \ {t} : Still(u) /\ pc'[u] = pc[u] /\ goto'[u] = goto[u]
  BY DEF BaseInv, LocalsTypeOK, Call, FindEmpty, Goes, Still
<1>4. TaskOK(t)'
  <2>0. t \notin Blocked'
    BY <1>2 DEF Call, FindEmpty, CanRun
  <2>1. CASE Call(t)
    <3>1. PICK n \in 0 .. portMAX_DELAY : /\ xTicksToWait' = [xTicksToWait EXCEPT ![t] = n]
                                          /\ request' = [request EXCEPT ![t] = n]
      BY <2>1, QueueAssumption DEF Call
    <3>2. xTicksToWait'[t] = n /\ request'[t] = n
      BY <3>1 DEF BaseInv, LocalsTypeOK
    <3>3. /\ pc[t] = "idle" /\ pc'[t] = "check" /\ goto'[t] = "check" /\ since'[t] = 0
          /\ ~Waiting(t) /\ ~Waiting(t)'
      BY <2>1 DEF BaseInv, LocalsTypeOK, WaitOK, Waiting, TimeOK, TaskOK, Call, Goes
    <3> QED  BY <2>0, <3>2, <3>3, WrapPositive DEF TaskOK, Finite
  <2>2. CASE FindEmpty(t)
    <3>1. /\ pc[t] = "check" /\ pc'[t] = "suspend" /\ xTicksToWait[t] > 0
          /\ goto'[t] = goto[t] /\ xTicksToWait'[t] = xTicksToWait[t]
          /\ request'[t] = request[t] /\ since'[t] = since[t]
          /\ xTimeOut'[t] = IF xTimeOut[t] = NONE THEN clock ELSE xTimeOut[t]
      BY <2>2 DEF BaseInv, LocalsTypeOK, FindEmpty, Goes
    <3>2. TaskOK(t) /\ xTicksToWait[t] \in 0 .. portMAX_DELAY /\ request[t] \in 0 .. portMAX_DELAY
      BY DEF BaseInv, LocalsTypeOK, TimeOK
    <3>3. CASE Waiting(t)
      <4>1. Waiting(t)' /\ xTimeOut'[t] = xTimeOut[t]
        BY <3>1, <3>3 DEF Waiting
      <4> QED  BY <1>2, <2>0, <3>1, <3>2, <3>3, <4>1 DEF TaskOK, Finite, PassedSince, clock
    <3>4. CASE ~Waiting(t)
      <4>1. xTimeOut'[t][1] = xTickCount /\ xTimeOut'[t][2] = xNumOfOverflows
        BY <3>1, <3>4 DEF Waiting, clock
      <4>2. xTickCount \in 0 .. WRAP - 1 /\ UNCHANGED <<xTickCount, xNumOfOverflows>>
        BY <1>2, WrapPositive DEF BaseInv, TicksInv, TicksTypeOK, clock
      <4>3. since[t] = 0 /\ xTicksToWait[t] = request[t]
        BY <3>2, <3>4 DEF TaskOK
      <4>4. PassedSince(t, 0)'
        BY <4>1, <4>2, WrapPositive DEF PassedSince
      <4>5. since'[t] - (request'[t] - xTicksToWait'[t]) = 0
        BY <3>1, <3>2, <4>3
      <4>6. PassedSince(t, since[t] - (request[t] - xTicksToWait[t]))'
        BY <4>4, <4>5
      <4> QED  BY <2>0, <3>1, <3>2, <3>4, <4>3, <4>6 DEF TaskOK, Finite
    <3> QED  BY <3>3, <3>4
  <2> QED  BY <2>1, <2>2
<1> QED  BY <1>2, <1>3, <1>4, TaskFrame DEF TimeOK

(* The clock tells how many ticks have passed, up to a whole period. *)
LEMMA ElapsedIsPassed ==
    ASSUME BaseInv, NEW t \in Tasks, Waiting(t), NEW p, PassedSince(t, p)
    PROVE  /\ WrappedPast(t) <=> p = WRAP
           /\ p < WRAP => xElapsedTime(t) = p
<1> DEFINE then == xTimeOut[t][1]
           wraps == xTimeOut[t][2]
<1>1. /\ then \in 0 .. WRAP - 1 /\ wraps \in 0 .. OVERFLOWS - 1
      /\ xTickCount \in 0 .. WRAP - 1 /\ xNumOfOverflows \in 0 .. OVERFLOWS - 1
  BY WrapPositive DEF BaseInv, TicksInv, TicksTypeOK, LocalsTypeOK, Waiting
<1>2. p \in 0 .. WRAP /\ WRAP \in Nat /\ OVERFLOWS \in Nat /\ OVERFLOWS > 1
  BY WrapPositive, TicksAssumption, QueueAssumption DEF PassedSince
<1>3. CASE then + p < WRAP
  <2>1. xTickCount = then + p /\ xNumOfOverflows = wraps
    BY <1>1, <1>2, <1>3 DEF PassedSince
  <2>2. p < WRAP /\ ~WrappedPast(t)
    BY <1>1, <1>2, <1>3, <2>1 DEF WrappedPast
  <2>3. xTickCount + WRAP - then = WRAP + p
    BY <1>1, <1>2, <2>1
  <2>4. (WRAP + p) % WRAP = p
    BY <1>2, <2>2, WrapPositive
  <2>5. xElapsedTime(t) = p
    BY <2>3, <2>4 DEF xElapsedTime
  <2>6. p # WRAP
    BY <1>2, <2>2
  <2> QED  BY <2>2, <2>5, <2>6
<1>4. CASE then + p >= WRAP
  <2>1. xTickCount = then + p - WRAP /\ xNumOfOverflows = (wraps + 1) % OVERFLOWS
    BY <1>1, <1>2, <1>4 DEF PassedSince
  <2>2. (wraps + 1) % OVERFLOWS # wraps
    BY <1>1, <1>2
  <2>3. WrappedPast(t) <=> p = WRAP
    <3>1. xNumOfOverflows # wraps
      BY <2>1, <2>2
    <3>2. xTickCount >= then <=> p = WRAP
      <4>1. xTickCount = then + p - WRAP
        BY <2>1
      <4>2. CASE p = WRAP
        BY <1>1, <1>2, <4>1, <4>2
      <4>3. CASE p < WRAP
        BY <1>1, <1>2, <4>1, <4>3
      <4> QED  BY <1>2, <4>2, <4>3
    <3> QED  BY <3>1, <3>2 DEF WrappedPast
  <2>4. xTickCount + WRAP - then = p
    BY <1>1, <1>2, <2>1
  <2>5. p < WRAP => p % WRAP = p
    BY <1>2, WrapPositive
  <2> QED  BY <2>3, <2>4, <2>5 DEF xElapsedTime
<1> QED  BY <1>1, <1>2, <1>3, <1>4

LEMMA LockTime ==
    ASSUME BaseInv, BaseInv', TimeOK, NEW t \in Tasks, Lock(t)
    PROVE  TimeOK'
<1>1. UNCHANGED <<tickVars, request, since>> /\ pc[t] = "lock"
  BY DEF Lock, Goes
<1>2. /\ UNCHANGED <<clock, xTickCount, xNumOfOverflows>>
      /\ \A u \in Tasks : u \in Blocked' => u \in Blocked /\ TicksLeft'[u] = TicksLeft[u]
  BY <1>1, LeftUnchanged DEF tickVars, Blocked, lists, clock
<1>3. \A u \in Tasks \ {t} : Still(u) /\ pc'[u] = pc[u] /\ goto'[u] = goto[u]
  BY DEF BaseInv, LocalsTypeOK, Lock, Goes, Still
<1>4. TaskOK(t)'
  <2> DEFINE w == xTicksToWait[t]
             p == since[t] - (request[t] - w)
  <2>0. /\ TaskOK(t) /\ Waiting(t) /\ t \notin Blocked /\ t \notin Blocked'
        /\ w \in 0 .. portMAX_DELAY /\ request[t] \in 0 .. portMAX_DELAY /\ since[t] \in Nat
    BY <1>1, <1>2 DEF BaseInv, LocalsTypeOK, WaitOK, InReceive, TimeOK
  <2>1. request'[t] = request[t] /\ since'[t] = since[t]
    BY <1>1
  <2>2. CASE w = portMAX_DELAY
    <3>1. /\ pc'[t] = "empty" /\ xTicksToWait'[t] = w /\ xTimeOut'[t] = xTimeOut[t]
          /\ goto'[t] = goto[t]
      BY <1>1, <2>0, <2>2, WrapPositive DEF BaseInv, LocalsTypeOK, Lock, Goes
    <3>2. ~Finite(t) /\ ~Finite(t)'
      BY <2>0, <2>1, <2>2, WrapPositive DEF TaskOK, Finite
    <3>3. goto[t] # "expired"
      BY <2>0, <2>2, WrapPositive DEF TaskOK
    <3> QED  BY <2>0, <2>1, <2>2, <3>1, <3>2, <3>3 DEF TaskOK, Waiting
  <2>3. CASE w < portMAX_DELAY
    <3>1. Finite(t) /\ Finite(t)' /\ w <= request[t]
      BY <2>0, <2>1, <2>3, WrapPositive DEF TaskOK, Finite
    <3>2. w > 0 => /\ p \in 0 .. WRAP /\ PassedSince(t, p)
                   /\ WrappedPast(t) <=> p = WRAP
                   /\ p < WRAP => xElapsedTime(t) = p
      <4> SUFFICES ASSUME w > 0 PROVE /\ p \in 0 .. WRAP /\ PassedSince(t, p)
                                      /\ WrappedPast(t) <=> p = WRAP
                                      /\ p < WRAP => xElapsedTime(t) = p
        OBVIOUS
      <4>1. PassedSince(t, p)
        BY <2>0, <3>1 DEF TaskOK
      <4> HIDE DEF p
      <4>2. /\ WrappedPast(t) <=> p = WRAP
            /\ p < WRAP => xElapsedTime(t) = p
        BY <2>0, <4>1, ElapsedIsPassed
      <4> QED  BY <4>1, <4>2 DEF PassedSince
    <3>3. CASE ~WrappedPast(t) /\ xElapsedTime(t) < w
      <4>0. xElapsedTime(t) \in Int /\ xElapsedTime(t) >= 0
        BY <2>0, WrapPositive DEF BaseInv, TicksInv, TicksTypeOK, LocalsTypeOK, Waiting, xElapsedTime
      <4>1. w > 0
        BY <2>0, <3>3, <4>0, WrapPositive
      <4>2. xElapsedTime(t) = p /\ p < w
        BY <2>0, <3>2, <3>3, <4>1, WrapPositive
      <4>3. /\ xTicksToWait'[t] = w - p /\ xTimeOut'[t] = clock /\ pc'[t] = "empty"
            /\ goto'[t] = goto[t]
        BY <1>1, <2>0, <2>3, <3>3, <4>2, WrapPositive DEF BaseInv, LocalsTypeOK, Lock, Goes, Remaining
      <4>4. clock # NONE /\ Waiting(t)'
        <5>1. clock \in (0 .. portMAX_DELAY) \X (0 .. OVERFLOWS - 1)
          BY DEF clock, BaseInv, TicksInv, TicksTypeOK
        <5> QED  BY <4>3, <5>1, QueueAssumption DEF Waiting
      <4>5. w - p > 0 /\ w - p <= request[t] /\ since[t] = request[t] - (w - p)
        BY <2>0, <3>1, <3>2, <4>1, <4>2, WrapPositive
      <4>6. PassedSince(t, 0)'
        BY <1>2, <4>3, WrapPositive DEF PassedSince, clock, BaseInv, TicksInv, TicksTypeOK
      <4>7. since'[t] - (request'[t] - xTicksToWait'[t]) = 0
        BY <2>0, <2>1, <4>3, <4>5
      <4>8. PassedSince(t, since[t] - (request[t] - xTicksToWait[t]))'
        BY <4>6, <4>7
      <4>9. goto[t] # "expired"
        BY <2>0, <4>1 DEF TaskOK
      <4> HIDE DEF p
      <4> QED  BY <2>0, <2>1, <3>1, <4>3, <4>4, <4>5, <4>8, <4>9 DEF TaskOK
    <3>4. CASE WrappedPast(t) \/ xElapsedTime(t) >= w
      <4>1. /\ xTicksToWait'[t] = 0 /\ xTimeOut'[t] = xTimeOut[t] /\ pc'[t] = "unlock"
            /\ goto'[t] = "expired"
        <5>0. xElapsedTime(t) \in Int /\ w \in Int
          BY <2>0, WrapPositive DEF BaseInv, TicksInv, TicksTypeOK, LocalsTypeOK, Waiting, xElapsedTime
        <5> QED  BY <1>1, <2>0, <2>3, <3>4, <5>0, WrapPositive DEF BaseInv, LocalsTypeOK, Lock, Goes
      <4>2. since[t] >= request[t]
        <5>1. CASE w = 0
          BY <2>0, <3>1, <5>1 DEF TaskOK
        <5>2. CASE w > 0
          <6>1. p >= w
            BY <2>0, <2>3, <3>2, <3>4, <5>2, WrapPositive
          <6> QED  BY <2>0, <6>1, WrapPositive
        <5> QED  BY <2>0, <5>1, <5>2, WrapPositive
      <4>3. Waiting(t)'
        BY <2>0, <4>1 DEF Waiting
      <4> QED  BY <2>0, <2>1, <3>1, <4>1, <4>2, <4>3 DEF TaskOK
    <3>5. w \in Int /\ xElapsedTime(t) \in Int
      BY <2>0, WrapPositive DEF BaseInv, TicksInv, TicksTypeOK, LocalsTypeOK, Waiting, xElapsedTime
    <3> QED  BY <3>3, <3>4, <3>5
  <2> QED  BY <2>0, <2>2, <2>3, WrapPositive
<1> QED  BY <1>2, <1>3, <1>4, TaskFrame DEF TimeOK

LEMMA PlaceTime ==
    ASSUME BaseInv, BaseInv', TimeOK, NEW t \in Tasks, vTaskPlaceOnEventList(t)
    PROVE  TimeOK'
<1> DEFINE w == xTicksToWait[t]
<1>1. /\ UNCHANGED <<goto, xTicksToWait, xTimeOut, request, since>>
      /\ pc[t] = "place" /\ pc'[t] = "unlock" /\ \A u \in Tasks \ {t} : pc'[u] = pc[u]
      /\ Block(t, w, TRUE)
  BY DEF BaseInv, LocalsTypeOK, vTaskPlaceOnEventList, Goes
<1>2. w \in 1 .. portMAX_DELAY /\ UNCHANGED clock /\ TicksInv
  BY <1>1 DEF Block, BaseInv
<1>3. /\ t \notin Blocked /\ Blocked' = Blocked \cup {t}
      /\ TicksLeft'[t] = IF w = portMAX_DELAY THEN WRAP ELSE w
      /\ \A u \in Tasks \ {t} : TicksLeft'[u] = TicksLeft[u]
  BY <1>1, <1>2, BlockLeft
<1>4. \A u \in Tasks \ {t} : TaskOK(u)'
  BY <1>1, <1>2, <1>3, TaskFrame DEF TimeOK, Still
<1>5. TaskOK(t)'
  <2>0. /\ TaskOK(t) /\ request[t] \in 0 .. portMAX_DELAY /\ since[t] \in Nat
    BY DEF BaseInv, LocalsTypeOK, TimeOK
  <2>1. /\ request'[t] = request[t] /\ since'[t] = since[t] /\ xTicksToWait'[t] = w
        /\ xTimeOut'[t] = xTimeOut[t] /\ goto'[t] = goto[t]
    BY <1>1
  <2>2. Finite(t) => since[t] + TicksLeft'[t] = request[t]
    <3> SUFFICES ASSUME Finite(t) PROVE since[t] + TicksLeft'[t] = request[t]
      OBVIOUS
    <3>1. w <= request[t] /\ since[t] = request[t] - w /\ request[t] < portMAX_DELAY
      BY <1>1, <2>0 DEF TaskOK, Finite
    <3>2. TicksLeft'[t] = w
      BY <1>2, <1>3, <2>0, <3>1, WrapPositive
    <3> QED  BY <1>2, <2>0, <3>1, <3>2, WrapPositive
  <2> QED
    BY <1>1, <1>2, <2>0, <2>1, <2>2 DEF TaskOK, Finite, Waiting, PassedSince, clock
<1> QED  BY <1>4, <1>5 DEF TimeOK

LEMMA DelayTime ==
    ASSUME BaseInv, BaseInv', TimeOK, NEW t \in Tasks, vTaskDelay(t)
    PROVE  TimeOK'
<1>1. UNCHANGED <<locals, since>> /\ pc[t] = "idle"
  BY DEF vTaskDelay, queueVars
<1>2. CASE vTaskSuspendAll(t) \/ (t \in Blocked /\ xTaskResumeAll(t))
  <2>1. /\ UNCHANGED clock
        /\ \A u \in Tasks : u \in Blocked' => u \in Blocked /\ TicksLeft'[u] = TicksLeft[u]
    <3>1. CASE vTaskSuspendAll(t)
      BY <3>1, LeftUnchanged DEF vTaskSuspendAll, Blocked, lists
    <3>2. CASE xTaskResumeAll(t)
      BY <3>2, ResumeTicks DEF xTaskResumeAll
    <3> QED  BY <1>2, <3>1, <3>2
  <2> QED  BY <1>1, <2>1, TaskFrame DEF TimeOK, locals, Still
<1>3. ASSUME NEW n \in Delays, Block(t, n, FALSE)
      PROVE  TimeOK'
  <2>1. n \in 1 .. portMAX_DELAY /\ TicksInv /\ UNCHANGED clock
    BY <1>3, QueueAssumption DEF BaseInv, Block
  <2>2. Blocked' = Blocked \cup {t} /\ \A u \in Tasks \ {t} : TicksLeft'[u] = TicksLeft[u]
    BY <1>3, <2>1, BlockLeft
  <2>3. \A u \in Tasks \ {t} : TaskOK(u)'
    BY <1>1, <2>1, <2>2, TaskFrame DEF TimeOK, locals, Still
  <2>4. TaskOK(t)'
    BY <1>1, <2>1 DEF TimeOK, TaskOK, locals, Finite, Waiting, PassedSince, clock
  <2> QED  BY <2>3, <2>4 DEF TimeOK
<1> QED  BY <1>2, <1>3 DEF vTaskDelay

(* One more tick has passed since each timeout was reckoned. *)
LEMMA TickPassed ==
    ASSUME BaseInv, xTaskIncrementTick, NEW t \in Tasks, Waiting(t), xTimeOut'[t] = xTimeOut[t],
           NEW p, PassedSince(t, p), p < WRAP
    PROVE  PassedSince(t, p + 1)'
<1> DEFINE then == xTimeOut[t][1]
           wraps == xTimeOut[t][2]
<1>1. /\ then \in 0 .. WRAP - 1 /\ wraps \in 0 .. OVERFLOWS - 1
      /\ xTickCount \in 0 .. WRAP - 1
  BY WrapPositive DEF BaseInv, TicksInv, TicksTypeOK, LocalsTypeOK, Waiting
<1>2. p \in 0 .. WRAP /\ WRAP \in Nat /\ p + 1 \in 0 .. WRAP
  BY WrapPositive DEF PassedSince
<1>3. /\ xTickCount' = IF xTickCount + 1 = WRAP THEN 0 ELSE xTickCount + 1
      /\ xNumOfOverflows' = IF xTickCount + 1 = WRAP THEN (xNumOfOverflows + 1) % OVERFLOWS
                                                      ELSE xNumOfOverflows
  BY <1>1, WrapPositive DEF xTaskIncrementTick
<1>4. CASE then + p < WRAP
  <2>1. xTickCount = then + p /\ xNumOfOverflows = wraps
    BY <1>1, <1>2, <1>4 DEF PassedSince
  <2>2. CASE then + p + 1 = WRAP
    <3>1. /\ xTickCount' = then + (p + 1) - WRAP
          /\ xNumOfOverflows' = (wraps + 1) % OVERFLOWS
          /\ then + (p + 1) >= WRAP
      BY <1>1, <1>2, <1>3, <2>1, <2>2
    <3> QED  BY <1>2, <3>1 DEF PassedSince
  <2>3. CASE then + p + 1 # WRAP
    <3>1. /\ xTickCount' = then + (p + 1)
          /\ xNumOfOverflows' = wraps
          /\ then + (p + 1) < WRAP
      BY <1>1, <1>2, <1>3, <1>4, <2>1, <2>3
    <3> QED  BY <1>2, <3>1 DEF PassedSince
  <2> QED  BY <2>2, <2>3
<1>5. CASE then + p >= WRAP
  <2>1. xTickCount = then + p - WRAP /\ xNumOfOverflows = (wraps + 1) % OVERFLOWS
    BY <1>1, <1>2, <1>5 DEF PassedSince
  <2>2. xTickCount + 1 # WRAP /\ then + (p + 1) >= WRAP /\ xTickCount + 1 = then + (p + 1) - WRAP
    BY <1>1, <1>2, <1>5, <2>1
  <2> QED  BY <1>2, <1>3, <2>1, <2>2 DEF PassedSince
<1> QED  BY <1>1, <1>2, <1>4, <1>5

LEMMA CountTime ==
    ASSUME BaseInv, BaseInv', TimeOK, SeenInTime, suspender = NONE, xTaskIncrementTick, Count,
           UNCHANGED locals
    PROVE  TimeOK'
<1> SUFFICES ASSUME NEW t \in Tasks PROVE TaskOK(t)'
  BY DEF TimeOK
<1>1. /\ TaskOK(t) /\ xTicksToWait[t] \in 0 .. portMAX_DELAY
      /\ request[t] \in 0 .. portMAX_DELAY /\ since[t] \in Nat
  BY DEF BaseInv, LocalsTypeOK, TimeOK
<1>2. UNCHANGED <<pc, goto, xTicksToWait, xTimeOut, request>>
  BY DEF locals
<1>3. since'[t] = IF Waiting(t) /\ Finite(t) THEN since[t] + 1 ELSE since[t]
  BY DEF Count, Finite
<1>4. /\ t \in Blocked' => t \in Blocked
      /\ TicksLeft'[t] = IF TicksLeft[t] \in {0, WRAP} THEN TicksLeft[t] ELSE TicksLeft[t] - 1
      /\ t \in Blocked' => TicksLeft'[t] \in 1 .. WRAP /\ TicksLeft[t] \in 1 .. WRAP
  <2>1. TicksInv /\ TicksInv'
    BY DEF BaseInv
  <2>2. IsTicksLeft /\ IsTicksLeft'
    BY <2>1, LeftCases, LeftCasesNext
  <2>3. t \in Blocked' => TicksLeft'[t] \in 1 .. WRAP
    BY <2>2, WrapPositive DEF IsTicksLeft, LeftOf, Blocked
  <2>4. t \in Blocked => TicksLeft[t] \in 1 .. WRAP
    BY <2>2, WrapPositive DEF IsTicksLeft, LeftOf, Blocked
  <2> QED  BY <2>1, <2>3, <2>4, CountLeft
<1>5. (Waiting(t)' <=> Waiting(t)) /\ (Finite(t)' <=> Finite(t))
  BY <1>2 DEF Waiting, Finite
<1>6. CASE Waiting(t) /\ Finite(t)
  <2>1. since[t] < WRAP /\ since'[t] = since[t] + 1
    BY <1>3, <1>6 DEF SeenInTime, Finite
  <2>2. xTicksToWait[t] > 0 => PassedSince(t, since[t] - (request[t] - xTicksToWait[t]))'
    <3> SUFFICES ASSUME xTicksToWait[t] > 0
                 PROVE  PassedSince(t, since[t] - (request[t] - xTicksToWait[t]))'
      OBVIOUS
    <3>1. PassedSince(t, since[t] - (request[t] - xTicksToWait[t])) /\ xTicksToWait[t] <= request[t]
      BY <1>1, <1>6 DEF TaskOK
    <3>2. PICK p \in Nat : p = since[t] - (request[t] - xTicksToWait[t])
      BY <1>1, <3>1 DEF PassedSince
    <3>3. PassedSince(t, p) /\ p < WRAP
      BY <1>1, <2>1, <3>1, <3>2, WrapPositive
    <3>4. xTimeOut'[t] = xTimeOut[t]
      BY <1>2
    <3>5. PassedSince(t, p + 1)'
      BY <1>6, <3>3, <3>4, TickPassed
    <3>6. since'[t] - (request'[t] - xTicksToWait'[t]) = p + 1
      BY <1>1, <1>2, <2>1, <3>2
    <3> QED  BY <3>5, <3>6
  <2>3. pc[t] \notin {"empty", "place"}
    BY TicksAssumption DEF BaseInv, LockOK, InReceive
  <2>4. t \in Blocked' /\ pc[t] # "idle" => since'[t] + TicksLeft'[t] = request[t]
    <3> SUFFICES ASSUME t \in Blocked', pc[t] # "idle"
                 PROVE  since'[t] + TicksLeft'[t] = request[t]
      OBVIOUS
    <3>1. since[t] + TicksLeft[t] = request[t] /\ TicksLeft[t] \in 1 .. WRAP
      BY <1>1, <1>4, <1>6 DEF TaskOK
    <3>2. TicksLeft[t] # WRAP
      BY <1>1, <1>6, <3>1, WrapPositive DEF Finite
    <3>3. TicksLeft'[t] = TicksLeft[t] - 1
      BY <1>4, <3>1, <3>2
    <3> QED  BY <1>1, <2>1, <3>1, <3>3, WrapPositive
  <2> QED  BY <1>1, <1>2, <1>4, <1>5, <1>6, <2>1, <2>2, <2>3, <2>4 DEF TaskOK
<1>7. CASE ~(Waiting(t) /\ Finite(t))
  BY <1>1, <1>2, <1>3, <1>4, <1>5, <1>7 DEF TaskOK, BaseInv, WaitOK, InReceive
<1> QED  BY <1>6, <1>7

LEMMA TimeNext == BaseInv /\ BaseInv' /\ TimeOK /\ [Next]_vars => TimeOK'
<1> SUFFICES ASSUME BaseInv, BaseInv', TimeOK, [Next]_vars PROVE TimeOK'
  OBVIOUS
<1>1. CASE \E v \in Item : xQueueGenericSend(v) \/ xQueueGenericSendFromISR(v)
  BY <1>1, SendTime
<1>2. CASE \E t \in Tasks : xQueueReceive(t)
  BY <1>2, CallTime, ReturnTime, MoveTime, LockTime, PlaceTime DEF xQueueReceive
<1>3. CASE \E t \in Tasks : vTaskDelay(t)
  BY <1>3, DelayTime
<1>4. CASE SysTick
  <2>1. SeenInTime /\ UNCHANGED locals
    BY <1>4 DEF SysTick
  <2>2. CASE suspender = NONE /\ xTaskIncrementTick /\ Count
    BY <2>1, <2>2, CountTime
  <2>3. CASE UNCHANGED <<clock, lists, xItemValue, since>>
    <3>1. \A u \in Tasks : u \in Blocked' => u \in Blocked /\ TicksLeft'[u] = TicksLeft[u]
      BY <2>3, LeftUnchanged DEF Blocked, lists
    <3> QED  BY <2>1, <2>3, <3>1, TaskFrame DEF TimeOK, locals, Still
  <2>4. unwinding => suspender = NONE
    BY DEF BaseInv, TicksInv, UnwindOK
  <2> QED  BY <1>4, <2>2, <2>3, <2>4 DEF SysTick, Tick, Unwind, Scheduling
<1>5. CASE UNCHANGED vars
  <2>1. UNCHANGED <<tickVars, locals, since>>
    BY <1>5 DEF vars, queueVars
  <2>2. UNCHANGED clock /\ UNCHANGED <<lists, xItemValue>>
    BY <2>1 DEF tickVars
  <2>3. \A u \in Tasks : u \in Blocked' => u \in Blocked /\ TicksLeft'[u] = TicksLeft[u]
    BY <2>2, LeftUnchanged DEF Blocked, lists
  <2> QED  BY <2>1, <2>2, <2>3, TaskFrame DEF TimeOK, locals, Still
<1> QED  BY <1>1, <1>2, <1>3, <1>4, <1>5 DEF Next

LEMMA TimeInit == Init => TimeOK
<1> SUFFICES ASSUME Init, NEW t \in Tasks PROVE TaskOK(t)
  BY DEF TimeOK
<1>1. /\ pc[t] = "idle" /\ goto[t] = "check" /\ xTicksToWait[t] = 0 /\ xTimeOut[t] = NONE
      /\ request[t] = 0 /\ since[t] = 0
  BY DEF Init
<1>2. Finite(t) /\ ~Waiting(t)
  BY <1>1, WrapPositive DEF Finite, Waiting
<1> QED  BY <1>1, <1>2 DEF TaskOK

LEMMA TimeInvariance == Spec => [](BaseInv /\ TimeOK)
<1>1. Spec => []BaseInv
  BY BaseInvariance
<1> QED  BY <1>1, TimeInit, TimeNext, PTL DEF Spec

(* A receiver that sleeps will be woken by time when the ticks it asked    *)
(* for have passed since it first found the queue empty, however often it  *)
(* was woken for an item another task took, and through a wrap of the tick *)
(* count.                                                                  *)
THEOREM WaitsAsLongAsAsked == Spec => []WaitIsRequest
<1>1. TimeOK => WaitIsRequest
  BY DEF TimeOK, TaskOK, WaitIsRequest, Finite
<1> QED  BY <1>1, TimeInvariance, PTL

(* No receive returns empty-handed before the ticks it asked for have      *)
(* passed, and none that asked for portMAX_DELAY ever does.                *)
THEOREM NeverEarly == Spec => NotEarly
<1>1. BaseInv /\ TimeOK /\ [Next]_vars
        => [\A t \in Tasks : GiveUp(t) => request[t] < portMAX_DELAY /\ since[t] >= request[t]]_vars
  <2> SUFFICES ASSUME BaseInv, TimeOK, NEW t \in Tasks, GiveUp(t)
               PROVE  request[t] < portMAX_DELAY /\ since[t] >= request[t]
    OBVIOUS
  <2>1. /\ TaskOK(t) /\ request[t] \in 0 .. portMAX_DELAY /\ since[t] \in Nat
    BY DEF BaseInv, LocalsTypeOK, TimeOK
  <2>2. xTicksToWait[t] = 0
    BY <2>1 DEF GiveUp, TaskOK
  <2>3. Finite(t)
    BY <2>1, <2>2, WrapPositive DEF TaskOK
  <2>4. since[t] >= request[t]
    BY <2>1, <2>2, <2>3 DEF TaskOK
  <2> QED  BY <2>3, <2>4 DEF Finite
<1> QED  BY <1>1, TimeInvariance, PTL DEF Spec, NotEarly
=============================================================================
