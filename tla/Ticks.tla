-------------------------------- MODULE Ticks -------------------------------
(***************************************************************************)
(* The kernel's time: the tick count and its wrap-around, the two delayed  *)
(* task lists, the time of the next wake-up, and what the tick interrupt   *)
(* does while a task has suspended the scheduler (FreeRTOS/Source/tasks.c).*)
(* A list sorted by wake time is the set of its tasks with their item      *)
(* values; the order of equal values changes no outcome here, and the item *)
(* value of a task in no delayed list, which nothing reads, is 0.          *)
(*                                                                         *)
(* The tasks' own code decides when to suspend, block and resume: a module *)
(* that extends this one says so (Queue), and each of its steps is one of  *)
(* the actions below or leaves these variables alone.                      *)
(***************************************************************************)
EXTENDS Naturals

CONSTANTS Tasks,      (* the tasks of the system                           *)
          WRAP,       (* the period of TickType_t, 2^32 in the program     *)
          OVERFLOWS,  (* the period of xNumOfOverflows                     *)
          MaxPended,  (* bound: ticks that come while the scheduler is     *)
                      (* suspended once                                    *)
          NONE        (* no task                                           *)

portMAX_DELAY == WRAP - 1

ASSUME TicksAssumption ==
    /\ WRAP \in Nat /\ WRAP > 2
    /\ OVERFLOWS \in Nat \ {0}
    /\ MaxPended \in Nat
    /\ NONE \notin Tasks

VARIABLES
    xTickCount,                 (* the kernel's time                       *)
    xNumOfOverflows,            (* how often it has wrapped                *)
    pxDelayedTaskList,          (* tasks to wake before it wraps again     *)
    pxOverflowDelayedTaskList,  (* tasks to wake after it has wrapped      *)
    xSuspendedTaskList,         (* tasks that only an event can wake       *)
    xItemValue,                 (* the wake time of each delayed task      *)
    xNextTaskUnblockTime,       (* no delayed task is due before this      *)
    eventItems,                 (* tasks that are in an event list         *)
    xPendingReadyList,          (* woken while the scheduler is suspended  *)
    suspender,                  (* the task that suspended the scheduler   *)
    xPendedTicks,               (* ticks that came since then              *)
    unwinding                   (* xTaskResumeAll is counting those ticks  *)

clock    == <<xTickCount, xNumOfOverflows>>
lists    == <<pxDelayedTaskList, pxOverflowDelayedTaskList, xSuspendedTaskList>>
tickVars == <<clock, lists, xItemValue, xNextTaskUnblockTime, eventItems,
              xPendingReadyList, suspender, xPendedTicks, unwinding>>

TicksInit ==
    /\ xTickCount = 0 /\ xNumOfOverflows = 0
    /\ pxDelayedTaskList = {} /\ pxOverflowDelayedTaskList = {}
    /\ xSuspendedTaskList = {}
    /\ xItemValue = [t \in Tasks |-> 0]
    /\ xNextTaskUnblockTime = portMAX_DELAY
    /\ eventItems = {}
    /\ xPendingReadyList = {}
    /\ suspender = NONE
    /\ xPendedTicks = 0
    /\ unwinding = FALSE

Blocked == pxDelayedTaskList \cup pxOverflowDelayedTaskList \cup xSuspendedTaskList

(* Nobody has suspended the scheduler: any ready task may be the one that  *)
(* runs.                                                                   *)
Scheduling == suspender = NONE /\ ~unwinding

CanRun(t) == t \notin Blocked /\ \/ Scheduling
                                 \/ suspender = t
-----------------------------------------------------------------------------
(* The wake time at the head of a delayed list. *)
HeadValue(list) ==
    CHOOSE v \in {xItemValue[t] : t \in list} : \A t \in list : v <= xItemValue[t]

UnblockTime(list) == IF list = {} THEN portMAX_DELAY ELSE HeadValue(list)

ClearItems(S) == xItemValue' = [t \in Tasks |-> IF t \in S THEN 0 ELSE xItemValue[t]]

vTaskSuspendAll(t) ==
    /\ Scheduling
    /\ t \notin Blocked
    /\ suspender' = t
    /\ UNCHANGED <<clock, lists, xItemValue, xNextTaskUnblockTime, eventItems,
                   xPendingReadyList, xPendedTicks, unwinding>>

(* Mutant of Overflows: the wrap of the tick count is not noticed. *)
OverflowsNever(wake) == FALSE

Overflows(wake) == wake < xTickCount

Earlier(wake) == IF wake < xNextTaskUnblockTime THEN wake ELSE xNextTaskUnblockTime

(* The suspender leaves the ready list: for n ticks, or until an event if  *)
(* it may block indefinitely and n is portMAX_DELAY.                       *)
prvAddCurrentTaskToDelayedList(t, n, indefinitely) ==
    LET wake == IF xTickCount + n < WRAP THEN xTickCount + n
                                         ELSE xTickCount + n - WRAP
    IN \/ /\ indefinitely /\ n = portMAX_DELAY
          /\ xSuspendedTaskList' = xSuspendedTaskList \cup {t}
          /\ UNCHANGED <<pxDelayedTaskList, pxOverflowDelayedTaskList,
                         xItemValue, xNextTaskUnblockTime>>
       \/ /\ ~(indefinitely /\ n = portMAX_DELAY)
          /\ xItemValue' = [xItemValue EXCEPT ![t] = wake]
          /\ IF Overflows(wake)
             THEN /\ pxOverflowDelayedTaskList' = pxOverflowDelayedTaskList \cup {t}
                  /\ UNCHANGED <<pxDelayedTaskList, xNextTaskUnblockTime>>
             ELSE /\ pxDelayedTaskList' = pxDelayedTaskList \cup {t}
                  /\ xNextTaskUnblockTime' = Earlier(wake)
                  /\ UNCHANGED pxOverflowDelayedTaskList
          /\ UNCHANGED xSuspendedTaskList

(* vTaskDelay and vTaskPlaceOnEventList, with the scheduler suspended. *)
Block(t, n, onEvent) ==
    /\ suspender = t /\ t \notin Blocked
    /\ n \in 1 .. portMAX_DELAY
    /\ prvAddCurrentTaskToDelayedList(t, n, onEvent)
    /\ eventItems' = IF onEvent THEN eventItems \cup {t} ELSE eventItems
    /\ UNCHANGED <<clock, xPendingReadyList, suspender, xPendedTicks, unwinding>>

(* The tasks of S, at the head of an event list, are removed from it.  The *)
(* state lists are off limits while the scheduler is suspended.            *)
xTaskRemoveFromEventList(S) ==
    /\ ~unwinding
    /\ S \subseteq eventItems
    /\ eventItems' = eventItems \ S
    /\ IF suspender = NONE
       THEN /\ pxDelayedTaskList' = pxDelayedTaskList \ S
            /\ pxOverflowDelayedTaskList' = pxOverflowDelayedTaskList \ S
            /\ xSuspendedTaskList' = xSuspendedTaskList \ S
            /\ ClearItems(S)
            /\ UNCHANGED xPendingReadyList
       ELSE /\ xPendingReadyList' = xPendingReadyList \cup S
            /\ UNCHANGED <<lists, xItemValue>>
    /\ UNCHANGED <<clock, xNextTaskUnblockTime, suspender,
                   xPendedTicks, unwinding>>

(* Mutant of Due: a task wakes when its time has passed. *)
DueLate(list, now) == {t \in list : xItemValue[t] < now}

Due(list, now) == {t \in list : xItemValue[t] <= now}

(* One tick of the kernel's time. *)
xTaskIncrementTick ==
    LET now     == IF xTickCount + 1 = WRAP THEN 0 ELSE xTickCount + 1
        wrapped == now = 0                        (* taskSWITCH_DELAYED_LISTS *)
        list    == IF wrapped THEN pxOverflowDelayedTaskList ELSE pxDelayedTaskList
        unblock == IF wrapped THEN UnblockTime(list) ELSE xNextTaskUnblockTime
        due     == IF now < unblock THEN {} ELSE Due(list, now)
    IN /\ xTickCount' = now
       /\ xNumOfOverflows' = IF wrapped THEN (xNumOfOverflows + 1) % OVERFLOWS
                                        ELSE xNumOfOverflows
       /\ pxDelayedTaskList' = list \ due
       /\ pxOverflowDelayedTaskList' = IF wrapped THEN pxDelayedTaskList
                                                  ELSE pxOverflowDelayedTaskList
       /\ xNextTaskUnblockTime' = IF now < unblock THEN unblock
                                                   ELSE UnblockTime(list \ due)
       /\ eventItems' = eventItems \ due
       /\ ClearItems(due)
       /\ UNCHANGED <<xSuspendedTaskList, xPendingReadyList, suspender>>

(* The tick interrupt. *)
Tick ==
    \/ /\ Scheduling
       /\ xTaskIncrementTick
       /\ UNCHANGED <<xPendedTicks, unwinding>>
    \/ /\ suspender # NONE
       /\ xPendedTicks < MaxPended
       /\ xPendedTicks' = xPendedTicks + 1
       /\ UNCHANGED <<clock, lists, xItemValue, xNextTaskUnblockTime, eventItems,
                      xPendingReadyList, suspender, unwinding>>

(* The suspender resumes the scheduler: tasks held pending become ready.   *)
(* All of it is one critical section, with the loop of Unwind.             *)
xTaskResumeAll(t) ==
    /\ suspender = t
    /\ suspender' = NONE
    /\ pxDelayedTaskList' = pxDelayedTaskList \ xPendingReadyList
    /\ pxOverflowDelayedTaskList' = pxOverflowDelayedTaskList \ xPendingReadyList
    /\ xSuspendedTaskList' = xSuspendedTaskList \ xPendingReadyList
    /\ xNextTaskUnblockTime' = IF xPendingReadyList = {} THEN xNextTaskUnblockTime
                               ELSE UnblockTime(pxDelayedTaskList \ xPendingReadyList)
    /\ xPendingReadyList' = {}
    /\ ClearItems(xPendingReadyList)
    /\ unwinding' = (xPendedTicks > 0)
    /\ UNCHANGED <<clock, eventItems, xPendedTicks>>

(* Interrupts are masked: nothing else happens until the count is zero. *)
Unwind ==
    /\ unwinding
    /\ xTaskIncrementTick
    /\ xPendedTicks' = xPendedTicks - 1
    /\ unwinding' = (xPendedTicks > 1)

TicksNext ==
    \/ \E t \in Tasks : \/ vTaskSuspendAll(t)
                        \/ \E n \in 1 .. portMAX_DELAY, e \in BOOLEAN : Block(t, n, e)
                        \/ xTaskResumeAll(t)
    \/ \E S \in SUBSET Tasks : xTaskRemoveFromEventList(S)
    \/ Tick
    \/ Unwind

TicksSpec == TicksInit /\ [][TicksNext]_tickVars
-----------------------------------------------------------------------------
TicksTypeOK ==
    /\ xTickCount \in 0 .. portMAX_DELAY
    /\ xNumOfOverflows \in 0 .. OVERFLOWS - 1
    /\ pxDelayedTaskList \in SUBSET Tasks
    /\ pxOverflowDelayedTaskList \in SUBSET Tasks
    /\ xSuspendedTaskList \in SUBSET Tasks
    /\ xItemValue \in [Tasks -> 0 .. portMAX_DELAY]
    /\ xNextTaskUnblockTime \in 0 .. portMAX_DELAY
    /\ eventItems \in SUBSET Tasks
    /\ xPendingReadyList \in SUBSET Tasks
    /\ suspender \in Tasks \cup {NONE}
    /\ xPendedTicks \in 0 .. MaxPended
    /\ unwinding \in BOOLEAN

(* Every task of the current delayed list is due later than now and every  *)
(* task of the overflow list before now, after the wrap: the current list  *)
(* is empty whenever the lists are switched, which                         *)
(* taskSWITCH_DELAYED_LISTS asserts (the assertion stops the system).      *)
WakeTimesAhead ==
    /\ \A t \in pxDelayedTaskList : xTickCount < xItemValue[t]
    /\ \A t \in pxOverflowDelayedTaskList : xItemValue[t] < xTickCount

(* No delayed task is due before xNextTaskUnblockTime, the only time at    *)
(* which the tick interrupt looks at the list: nobody oversleeps.          *)
NobodyOversleeps ==
    \A t \in pxDelayedTaskList : xNextTaskUnblockTime <= xItemValue[t]

(* The ticks each task still has to sleep. *)
TicksLeft ==
    [t \in Tasks |->
        CASE t \in pxDelayedTaskList         -> xItemValue[t] - xTickCount
          [] t \in pxOverflowDelayedTaskList -> xItemValue[t] + WRAP - xTickCount
          [] t \in xSuspendedTaskList        -> WRAP
          [] OTHER                           -> 0]

(* The two lists, the wrap-around and the ticks held back while the        *)
(* scheduler is suspended do what counting each task's ticks would do.     *)
Asleep == INSTANCE Sleepers WITH Forever <- WRAP, left <- TicksLeft
ImplementsSleepers == Asleep!Spec
=============================================================================
