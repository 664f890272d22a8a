----------------------------- MODULE TicksProofs ----------------------------
(***************************************************************************)
(* The kernel's time is right for every period of the tick count, every    *)
(* number of tasks and every number of ticks held back: the lists stay     *)
(* sorted around the current tick and implement counted sleeps.            *)
(***************************************************************************)
EXTENDS Ticks, FiniteSetTheorems, WellFoundedInduction, TLAPS

(* A set of bounded numbers has a least one: the intervals 0 .. x up to    *)
(* its members are finite sets, of which one contains no other.            *)
LEMMA Minimum ==
    ASSUME NEW m \in Nat, NEW T, T \subseteq 0 .. m, T # {}
    PROVE  \E x \in T : \A y \in T : x <= y
<1> DEFINE R == StrictSubsetOrdering(0 .. m)
           F == {0 .. x : x \in T}
<1>1. IsWellFoundedOn(R, FiniteSubsetsOf(0 .. m))
  BY FS_StrictSubsetOrderingWellFounded
<1>2. F \subseteq FiniteSubsetsOf(0 .. m) /\ F # {}
  <2>1. \A x \in T : 0 .. x \subseteq 0 .. m /\ IsFiniteSet(0 .. x)
    BY FS_Interval
  <2> QED  BY <2>1 DEF FiniteSubsetsOf
<1>3. \E i \in F : \A j \in F : ~(<<j, i>> \in R)
  <2> HIDE DEF R, F
  <2> QED  BY <1>1, <1>2, WFMin
<1>4. PICK x \in T : \A y \in T : ~(<<0 .. y, 0 .. x>> \in R)
  <2> HIDE DEF R
  <2> QED  BY <1>3
<1>5. ASSUME NEW y \in T, y < x PROVE FALSE
  <2>1. 0 .. y \subseteq 0 .. x /\ 0 .. x # 0 .. y
    BY <1>5
  <2>2. 0 .. x \subseteq 0 .. m
    OBVIOUS
  <2> QED  BY <2>1, <2>2, <1>4 DEF StrictSubsetOrdering
<1> QED  BY <1>5
-----------------------------------------------------------------------------
(***************************************************************************)
(* The inductive invariant.                                                *)
(***************************************************************************)
(* A task is in one state list at most. *)
ListsApart ==
    /\ pxDelayedTaskList \cap pxOverflowDelayedTaskList = {}
    /\ (pxDelayedTaskList \cup pxOverflowDelayedTaskList) \cap xSuspendedTaskList = {}

(* A task in an event list is blocked, and one taken out of it while the   *)
(* scheduler was suspended is until xTaskResumeAll.                        *)
EventsBlocked ==
    /\ eventItems \cup xPendingReadyList \subseteq Blocked
    /\ eventItems \cap xPendingReadyList = {}
    /\ xPendingReadyList # {} => suspender # NONE

UnwindOK == unwinding => suspender = NONE /\ xPendedTicks > 0

TicksInv ==
    /\ TicksTypeOK /\ ListsApart /\ EventsBlocked /\ UnwindOK
    /\ WakeTimesAhead /\ NobodyOversleeps

LEMMA WrapPositive == WRAP \in Nat /\ WRAP > 2 /\ portMAX_DELAY \in Nat /\ portMAX_DELAY = WRAP - 1
  BY TicksAssumption DEF portMAX_DELAY

LEMMA HeadOfList ==
    ASSUME TicksTypeOK, NEW list, list \subseteq Tasks
    PROVE  /\ UnblockTime(list) \in 0 .. portMAX_DELAY
           /\ \A t \in list : UnblockTime(list) <= xItemValue[t]
<1>1. CASE list = {}
  BY <1>1, WrapPositive DEF UnblockTime
<1>2. CASE list # {}
  <2> DEFINE values == {xItemValue[t] : t \in list}
  <2>1. values \subseteq 0 .. portMAX_DELAY /\ values # {}
    BY <1>2 DEF TicksTypeOK
  <2>2. \E v \in values : \A w \in values : v <= w
    BY <2>1, WrapPositive, Minimum
  <2>3. \E v \in values : \A t \in list : v <= xItemValue[t]
    BY <2>2
  <2>4. HeadValue(list) \in values /\ \A t \in list : HeadValue(list) <= xItemValue[t]
    BY <2>3 DEF HeadValue
  <2> QED  BY <1>2, <2>1, <2>4 DEF UnblockTime
<1> QED  BY <1>1, <1>2
-----------------------------------------------------------------------------
(***************************************************************************)
(* Every action keeps the invariant.                                       *)
(***************************************************************************)
LEMMA InitInv == TicksInit => TicksInv
<1> SUFFICES ASSUME TicksInit PROVE TicksInv
  OBVIOUS
<1>1. 0 \in 0 .. portMAX_DELAY /\ portMAX_DELAY \in 0 .. portMAX_DELAY /\ 0 \in 0 .. MaxPended
      /\ 0 \in 0 .. OVERFLOWS - 1
  BY WrapPositive, TicksAssumption
<1>2. TicksTypeOK
  BY <1>1 DEF TicksInit, TicksTypeOK
<1> QED
  BY <1>2 DEF TicksInit, TicksInv, ListsApart, EventsBlocked, UnwindOK, WakeTimesAhead,
              NobodyOversleeps, Blocked

LEMMA SuspendInv == TicksInv /\ (\E t \in Tasks : vTaskSuspendAll(t)) => TicksInv'
<1> SUFFICES ASSUME TicksInv, NEW t \in Tasks, vTaskSuspendAll(t) PROVE TicksInv'
  OBVIOUS
<1> USE DEF TicksInv, vTaskSuspendAll, clock, lists
<1>1. TicksTypeOK'
  BY DEF TicksTypeOK
<1>2. EventsBlocked' /\ UnwindOK'
  BY TicksAssumption DEF EventsBlocked, UnwindOK, Blocked, Scheduling
<1> QED
  BY <1>1, <1>2 DEF ListsApart, WakeTimesAhead, NobodyOversleeps

(* Where a task that blocks for n ticks goes, and when it wakes. *)
WakeTime(n) == IF xTickCount + n < WRAP THEN xTickCount + n ELSE xTickCount + n - WRAP

LEMMA WakeTimeOK ==
    ASSUME TicksTypeOK, NEW n \in 1 .. portMAX_DELAY
    PROVE  /\ WakeTime(n) \in 0 .. portMAX_DELAY
           /\ WakeTime(n) < xTickCount => WakeTime(n) + WRAP - xTickCount = n
           /\ ~(WakeTime(n) < xTickCount) => /\ xTickCount < WakeTime(n)
                                             /\ WakeTime(n) - xTickCount = n
  BY WrapPositive DEF TicksTypeOK, WakeTime

LEMMA BlockInv ==
    ASSUME TicksInv, NEW t \in Tasks, NEW n \in 1 .. portMAX_DELAY, NEW e \in BOOLEAN,
           Block(t, n, e)
    PROVE  TicksInv'
<1> USE DEF TicksInv, Block, clock
<1> DEFINE wake == WakeTime(n)
<1>0. /\ wake \in 0 .. portMAX_DELAY
      /\ ~(wake < xTickCount) => xTickCount < wake
  BY WakeTimeOK
<1>1. CASE e /\ n = portMAX_DELAY
  <2>1. /\ xSuspendedTaskList' = xSuspendedTaskList \cup {t}
        /\ UNCHANGED <<pxDelayedTaskList, pxOverflowDelayedTaskList, xItemValue,
                       xNextTaskUnblockTime>>
    BY <1>1 DEF prvAddCurrentTaskToDelayedList
  <2>2. TicksTypeOK'
    BY <2>1 DEF TicksTypeOK
  <2>3. ListsApart' /\ EventsBlocked' /\ UnwindOK'
    BY <2>1 DEF ListsApart, EventsBlocked, UnwindOK, Blocked
  <2> QED  BY <2>1, <2>2, <2>3 DEF WakeTimesAhead, NobodyOversleeps
<1>2. CASE ~(e /\ n = portMAX_DELAY) /\ wake < xTickCount
  <2>1. /\ xItemValue' = [xItemValue EXCEPT ![t] = wake]
        /\ pxOverflowDelayedTaskList' = pxOverflowDelayedTaskList \cup {t}
        /\ UNCHANGED <<pxDelayedTaskList, xSuspendedTaskList, xNextTaskUnblockTime>>
    BY <1>2 DEF prvAddCurrentTaskToDelayedList, WakeTime, Overflows
  <2>2. TicksTypeOK'
    BY <1>0, <2>1 DEF TicksTypeOK
  <2>3. ListsApart' /\ EventsBlocked' /\ UnwindOK'
    BY <2>1 DEF ListsApart, EventsBlocked, UnwindOK, Blocked
  <2>4. WakeTimesAhead' /\ NobodyOversleeps'
    BY <1>2, <2>1 DEF WakeTimesAhead, NobodyOversleeps, TicksTypeOK, Blocked
  <2> QED  BY <2>2, <2>3, <2>4
<1>3. CASE ~(e /\ n = portMAX_DELAY) /\ ~(wake < xTickCount)
  <2>1. /\ xItemValue' = [xItemValue EXCEPT ![t] = wake]
        /\ pxDelayedTaskList' = pxDelayedTaskList \cup {t}
        /\ xNextTaskUnblockTime' = Earlier(wake)
        /\ UNCHANGED <<pxOverflowDelayedTaskList, xSuspendedTaskList>>
    BY <1>3 DEF prvAddCurrentTaskToDelayedList, WakeTime, Overflows
  <2>2. TicksTypeOK'
    BY <1>0, <2>1 DEF TicksTypeOK, Earlier
  <2>3. ListsApart' /\ EventsBlocked' /\ UnwindOK'
    BY <2>1 DEF ListsApart, EventsBlocked, UnwindOK, Blocked
  <2>4. WakeTimesAhead'
    BY <1>0, <1>3, <2>1 DEF WakeTimesAhead, TicksTypeOK, Blocked
  <2>5. NobodyOversleeps'
    <3>1. Earlier(wake) <= wake /\ Earlier(wake) <= xNextTaskUnblockTime
      BY <1>0, WrapPositive DEF Earlier, TicksTypeOK
    <3>2. \A u \in pxDelayedTaskList : u # t /\ xItemValue'[u] = xItemValue[u]
      BY <2>1 DEF TicksTypeOK, Blocked
    <3> QED  BY <1>0, <2>1, <2>2, <3>1, <3>2, WrapPositive DEF NobodyOversleeps, TicksTypeOK
  <2> QED  BY <2>2, <2>3, <2>4, <2>5
<1> QED  BY <1>1, <1>2, <1>3

LEMMA RemoveInv ==
    ASSUME TicksInv, NEW S \in SUBSET Tasks, xTaskRemoveFromEventList(S)
    PROVE  TicksInv'
<1> USE DEF TicksInv, xTaskRemoveFromEventList, clock, lists, ClearItems
<1>1. TicksTypeOK'
  BY WrapPositive DEF TicksTypeOK
<1>2. ListsApart' /\ EventsBlocked' /\ UnwindOK'
  BY DEF ListsApart, EventsBlocked, UnwindOK, Blocked
<1>3. WakeTimesAhead' /\ NobodyOversleeps'
  BY DEF WakeTimesAhead, NobodyOversleeps, TicksTypeOK
<1> QED  BY <1>1, <1>2, <1>3

LEMMA ResumeInv ==
    ASSUME TicksInv, NEW t \in Tasks, xTaskResumeAll(t)
    PROVE  TicksInv'
<1> USE DEF TicksInv, xTaskResumeAll, clock, ClearItems
<1>0. /\ UnblockTime(pxDelayedTaskList \ xPendingReadyList) \in 0 .. portMAX_DELAY
      /\ \A u \in pxDelayedTaskList \ xPendingReadyList :
            UnblockTime(pxDelayedTaskList \ xPendingReadyList) <= xItemValue[u]
  <2>1. pxDelayedTaskList \ xPendingReadyList \subseteq Tasks
    BY DEF TicksTypeOK
  <2> QED  BY <2>1, HeadOfList
<1>1. TicksTypeOK'
  BY <1>0, WrapPositive DEF TicksTypeOK
<1>2. ListsApart' /\ EventsBlocked' /\ UnwindOK'
  BY DEF ListsApart, EventsBlocked, UnwindOK, Blocked, TicksTypeOK
<1>3. WakeTimesAhead'
  BY DEF WakeTimesAhead, TicksTypeOK
<1>4. NobodyOversleeps'
  BY <1>0 DEF NobodyOversleeps, TicksTypeOK
<1> QED  BY <1>1, <1>2, <1>3, <1>4
(* What xTaskIncrementTick does with the list that is current after it. *)
Now      == IF xTickCount + 1 = WRAP THEN 0 ELSE xTickCount + 1
Current  == IF Now = 0 THEN pxOverflowDelayedTaskList ELSE pxDelayedTaskList
Unblock  == IF Now = 0 THEN UnblockTime(Current) ELSE xNextTaskUnblockTime
DueNow   == IF Now < Unblock THEN {} ELSE Due(Current, Now)

LEMMA IncrementTick ==
    ASSUME TicksInv, xTaskIncrementTick
    PROVE  /\ Now \in 0 .. portMAX_DELAY
           /\ Current \subseteq Tasks
           /\ DueNow = {t \in Current : xItemValue[t] = Now}
           /\ \A t \in Current : xItemValue[t] >= Now
           /\ Now = 0 => pxDelayedTaskList = {} /\ xTickCount = WRAP - 1
           /\ Now # 0 => Now = xTickCount + 1
           /\ xTickCount' = Now
           /\ xNumOfOverflows' \in 0 .. OVERFLOWS - 1
           /\ pxDelayedTaskList' = Current \ DueNow
           /\ pxOverflowDelayedTaskList' = IF Now = 0 THEN {} ELSE pxOverflowDelayedTaskList
           /\ xNextTaskUnblockTime' \in 0 .. portMAX_DELAY
           /\ \A t \in pxDelayedTaskList' : xNextTaskUnblockTime' <= xItemValue[t]
           /\ eventItems' = eventItems \ DueNow
           /\ ClearItems(DueNow)
           /\ UNCHANGED <<xSuspendedTaskList, xPendingReadyList, suspender>>
<1>1. /\ Now \in 0 .. portMAX_DELAY
      /\ Now = 0 => xTickCount = WRAP - 1
      /\ Now # 0 => Now = xTickCount + 1
  BY WrapPositive DEF TicksInv, TicksTypeOK, Now
<1>2. Current \subseteq Tasks
  BY DEF TicksInv, TicksTypeOK, Current
<1>3. Now = 0 => pxDelayedTaskList = {}
  BY <1>1, WrapPositive DEF TicksInv, TicksTypeOK, WakeTimesAhead
<1>4. \A t \in Current : xItemValue[t] \in 0 .. portMAX_DELAY /\ xItemValue[t] >= Now
  BY <1>1, WrapPositive DEF TicksInv, TicksTypeOK, WakeTimesAhead, Current
<1>5. Unblock \in 0 .. portMAX_DELAY /\ \A t \in Current : Unblock <= xItemValue[t]
  <2>1. CASE Now = 0
    BY <2>1, <1>2, HeadOfList DEF TicksInv, Unblock
  <2>2. CASE Now # 0
    BY <2>2 DEF TicksInv, TicksTypeOK, NobodyOversleeps, Unblock, Current
  <2> QED  BY <2>1, <2>2
<1>6. DueNow = {t \in Current : xItemValue[t] = Now}
  BY <1>1, <1>4, <1>5, WrapPositive DEF DueNow, Due
<1>7. /\ xTickCount' = Now
      /\ xNumOfOverflows' = IF Now = 0 THEN (xNumOfOverflows + 1) % OVERFLOWS
                                       ELSE xNumOfOverflows
      /\ pxDelayedTaskList' = Current \ DueNow
      /\ pxOverflowDelayedTaskList' = IF Now = 0 THEN pxDelayedTaskList
                                                 ELSE pxOverflowDelayedTaskList
      /\ xNextTaskUnblockTime' = IF Now < Unblock THEN Unblock
                                 ELSE UnblockTime(Current \ DueNow)
      /\ eventItems' = eventItems \ DueNow
      /\ ClearItems(DueNow)
      /\ UNCHANGED <<xSuspendedTaskList, xPendingReadyList, suspender>>
  BY Zenon DEF xTaskIncrementTick, Now, Current, Unblock, DueNow
<1>8. xNumOfOverflows' \in 0 .. OVERFLOWS - 1
  BY <1>7, TicksAssumption DEF TicksInv, TicksTypeOK
<1>9. /\ xNextTaskUnblockTime' \in 0 .. portMAX_DELAY
      /\ \A t \in pxDelayedTaskList' : xNextTaskUnblockTime' <= xItemValue[t]
  <2>1. Current \ DueNow \subseteq Tasks
    BY <1>2
  <2>2. /\ UnblockTime(Current \ DueNow) \in 0 .. portMAX_DELAY
        /\ \A t \in Current \ DueNow : UnblockTime(Current \ DueNow) <= xItemValue[t]
    BY <2>1, HeadOfList DEF TicksInv
  <2> QED  BY <1>5, <1>7, <2>2
<1> QED  BY <1>1, <1>2, <1>3, <1>4, <1>6, <1>7, <1>8, <1>9

LEMMA IncrementInv ==
    ASSUME TicksInv, xTaskIncrementTick,
           suspender = NONE,
           xPendedTicks' \in 0 .. MaxPended, unwinding' \in BOOLEAN, UnwindOK'
    PROVE  TicksInv'
<1>1. TicksTypeOK'
  <2>1. xItemValue' \in [Tasks -> 0 .. portMAX_DELAY]
    BY IncrementTick, WrapPositive DEF TicksInv, TicksTypeOK, ClearItems
  <2>2. /\ xTickCount' \in 0 .. portMAX_DELAY
        /\ xNumOfOverflows' \in 0 .. OVERFLOWS - 1
        /\ xNextTaskUnblockTime' \in 0 .. portMAX_DELAY
    BY IncrementTick
  <2>3. /\ pxDelayedTaskList' \in SUBSET Tasks
        /\ pxOverflowDelayedTaskList' \in SUBSET Tasks
        /\ xSuspendedTaskList' \in SUBSET Tasks
        /\ eventItems' \in SUBSET Tasks
        /\ xPendingReadyList' \in SUBSET Tasks
        /\ suspender' \in Tasks \cup {NONE}
    BY IncrementTick DEF TicksInv, TicksTypeOK
  <2> QED  BY <2>1, <2>2, <2>3, Zenon DEF TicksTypeOK
<1>2. ListsApart'
  BY IncrementTick DEF TicksInv, ListsApart, Current
<1>3. EventsBlocked'
  <2>1. xPendingReadyList = {}
    BY DEF TicksInv, EventsBlocked
  <2>2. Blocked' = Blocked \ DueNow \/ Blocked \ DueNow \subseteq Blocked'
    BY IncrementTick DEF Blocked, Current
  <2>3. eventItems' \subseteq Blocked'
    BY <2>2, IncrementTick DEF TicksInv, EventsBlocked
  <2> QED  BY <2>1, <2>3, IncrementTick DEF EventsBlocked
<1>4. \A t \in Tasks : t \notin DueNow => xItemValue'[t] = xItemValue[t]
  BY IncrementTick DEF ClearItems
<1>5. WakeTimesAhead'
  <2>1. \A t \in pxDelayedTaskList' : xTickCount' < xItemValue'[t]
    BY <1>4, IncrementTick, WrapPositive DEF TicksInv, TicksTypeOK
  <2>2. \A t \in pxOverflowDelayedTaskList' : xItemValue'[t] < xTickCount'
    BY <1>4, IncrementTick, WrapPositive DEF TicksInv, TicksTypeOK, WakeTimesAhead, ListsApart, Current
  <2> QED  BY <2>1, <2>2 DEF WakeTimesAhead
<1>6. NobodyOversleeps'
  BY <1>4, IncrementTick DEF NobodyOversleeps
<1> QED  BY <1>1, <1>2, <1>3, <1>5, <1>6 DEF TicksInv

LEMMA TickInv == TicksInv /\ Tick => TicksInv'
<1> SUFFICES ASSUME TicksInv, Tick PROVE TicksInv'
  OBVIOUS
<1>1. CASE Scheduling /\ xTaskIncrementTick /\ UNCHANGED <<xPendedTicks, unwinding>>
  <2>1. suspender = NONE
    BY <1>1 DEF Scheduling
  <2>2. xPendedTicks' \in 0 .. MaxPended /\ unwinding' \in BOOLEAN /\ UnwindOK'
    BY <1>1 DEF TicksInv, TicksTypeOK, UnwindOK, Scheduling
  <2> QED  BY <1>1, <2>1, <2>2, IncrementInv
<1>2. CASE /\ suspender # NONE
           /\ xPendedTicks < MaxPended
           /\ xPendedTicks' = xPendedTicks + 1
           /\ UNCHANGED <<clock, lists, xItemValue, xNextTaskUnblockTime, eventItems,
                          xPendingReadyList, suspender, unwinding>>
  <2> USE DEF clock, lists
  <2>1. xPendedTicks' \in 0 .. MaxPended
    BY <1>2, TicksAssumption DEF TicksInv, TicksTypeOK
  <2>2. TicksTypeOK'
    BY <1>2, <2>1 DEF TicksInv, TicksTypeOK
  <2> QED
    BY <1>2, <2>2 DEF TicksInv, ListsApart, EventsBlocked, UnwindOK, Blocked, WakeTimesAhead,
                      NobodyOversleeps
<1> QED  BY <1>1, <1>2 DEF Tick

LEMMA UnwindInv == TicksInv /\ Unwind => TicksInv'
<1> SUFFICES ASSUME TicksInv, Unwind PROVE TicksInv'
  OBVIOUS
<1>1. xPendedTicks \in 1 .. MaxPended
  BY TicksAssumption DEF TicksInv, TicksTypeOK, UnwindOK, Unwind
<1>2. xTaskIncrementTick /\ suspender = NONE /\ suspender' = NONE
  BY DEF TicksInv, Unwind, UnwindOK, xTaskIncrementTick
<1>3. xPendedTicks' = xPendedTicks - 1 /\ (unwinding' <=> xPendedTicks > 1)
      /\ unwinding' \in BOOLEAN
  <2>1. xPendedTicks' = xPendedTicks - 1 /\ unwinding' = (xPendedTicks > 1)
    BY Zenon DEF Unwind
  <2>2. CASE xPendedTicks > 1
    <3>1. unwinding' = TRUE
      BY <2>1, <2>2, Zenon
    <3> QED  BY <2>1, <2>2, <3>1, Zenon
  <2>3. CASE ~(xPendedTicks > 1)
    <3>1. (xPendedTicks > 1) = FALSE
      BY <2>3
    <3>2. unwinding' = FALSE
      BY <2>1, <3>1, Zenon
    <3> QED  BY <2>1, <2>3, <3>2, Zenon
  <2> QED  BY <2>2, <2>3
<1>4. xPendedTicks' \in 0 .. MaxPended
  BY <1>1, <1>3, TicksAssumption
<1>5. xPendedTicks > 1 => xPendedTicks' > 0
  BY <1>1, <1>3
<1>6. UnwindOK'
  BY <1>2, <1>3, <1>5 DEF UnwindOK
<1> QED  BY <1>2, <1>3, <1>4, <1>6, IncrementInv
-----------------------------------------------------------------------------
LEMMA NextInv == TicksInv /\ [TicksNext]_tickVars => TicksInv'
<1> SUFFICES ASSUME TicksInv, [TicksNext]_tickVars PROVE TicksInv'
  OBVIOUS
<1>1. CASE \E t \in Tasks : vTaskSuspendAll(t)
  BY <1>1, SuspendInv
<1>2. CASE \E t \in Tasks, n \in 1 .. portMAX_DELAY, e \in BOOLEAN : Block(t, n, e)
  BY <1>2, BlockInv
<1>3. CASE \E t \in Tasks : xTaskResumeAll(t)
  BY <1>3, ResumeInv
<1>4. CASE \E S \in SUBSET Tasks : xTaskRemoveFromEventList(S)
  BY <1>4, RemoveInv
<1>5. CASE Tick
  BY <1>5, TickInv
<1>6. CASE Unwind
  BY <1>6, UnwindInv
<1>7. CASE UNCHANGED tickVars
  BY <1>7 DEF tickVars, clock, lists, TicksInv, TicksTypeOK, ListsApart, EventsBlocked, UnwindOK,
              Blocked, WakeTimesAhead, NobodyOversleeps
<1> QED  BY <1>1, <1>2, <1>3, <1>4, <1>5, <1>6, <1>7 DEF TicksNext

LEMMA Invariance == TicksSpec => []TicksInv
  BY InitInv, NextInv, PTL DEF TicksSpec

(* The kernel's time keeps its types: the tick count and every wake time   *)
(* are values of TickType_t, for every period of it.                       *)
THEOREM TicksTypeCorrect == TicksSpec => []TicksTypeOK
<1>1. TicksInv => TicksTypeOK
  BY DEF TicksInv
<1> QED  BY <1>1, Invariance, PTL

(* The current delayed list is empty whenever the tick count wraps, so     *)
(* the assertion of taskSWITCH_DELAYED_LISTS never stops the system, and   *)
(* no task's wake time is passed over.                                     *)
THEOREM ListsSplitAtNow == TicksSpec => []WakeTimesAhead
<1>1. TicksInv => WakeTimesAhead
  BY DEF TicksInv
<1> QED  BY <1>1, Invariance, PTL

(* xNextTaskUnblockTime, which every insertion and removal updates on its  *)
(* own, is never later than the first wake time of the current list.       *)
THEOREM TickLooksInTime == TicksSpec => []NobodyOversleeps
<1>1. TicksInv => NobodyOversleeps
  BY DEF TicksInv
<1> QED  BY <1>1, Invariance, PTL
-----------------------------------------------------------------------------
(***************************************************************************)
(* The lists implement counted sleeps.                                     *)
(***************************************************************************)
LeftOf(t) ==
    /\ t \in pxDelayedTaskList =>
          /\ TicksLeft[t] = xItemValue[t] - xTickCount
          /\ TicksLeft[t] \in 1 .. WRAP - 1
    /\ t \in pxOverflowDelayedTaskList =>
          /\ TicksLeft[t] = xItemValue[t] + WRAP - xTickCount
          /\ TicksLeft[t] \in 1 .. WRAP - 1
    /\ t \in xSuspendedTaskList => TicksLeft[t] = WRAP
    /\ t \notin Blocked => TicksLeft[t] = 0

IsTicksLeft ==
    /\ TicksLeft = [t \in Tasks |-> TicksLeft[t]]
    /\ \A t \in Tasks : LeftOf(t)

LEMMA LeftCases == TicksInv => IsTicksLeft
<1> SUFFICES ASSUME TicksInv PROVE IsTicksLeft
  OBVIOUS
<1>1. TicksLeft = [t \in Tasks |-> TicksLeft[t]]
  BY DEF TicksLeft
<1>2. ASSUME NEW t \in Tasks PROVE LeftOf(t)
  <2> DEFINE left == TicksLeft[t]
  <2>0. /\ xTickCount \in 0 .. WRAP - 1 /\ xItemValue[t] \in 0 .. WRAP - 1
    BY WrapPositive DEF TicksInv, TicksTypeOK
  <2>1. CASE t \in pxDelayedTaskList
    <3>1. t \notin pxOverflowDelayedTaskList /\ t \notin xSuspendedTaskList
      BY <2>1 DEF TicksInv, ListsApart
    <3>2. left = xItemValue[t] - xTickCount
      BY <2>1, <3>1 DEF TicksLeft
    <3>3. xTickCount < xItemValue[t]
      BY <2>1 DEF TicksInv, WakeTimesAhead
    <3>4. left \in 1 .. WRAP - 1
      BY <2>0, <3>2, <3>3, WrapPositive
    <3> QED  BY <2>1, <3>1, <3>2, <3>4 DEF LeftOf, Blocked
  <2>2. CASE t \in pxOverflowDelayedTaskList
    <3>1. t \notin pxDelayedTaskList /\ t \notin xSuspendedTaskList
      BY <2>2 DEF TicksInv, ListsApart
    <3>2. left = xItemValue[t] + WRAP - xTickCount
      BY <2>2, <3>1 DEF TicksLeft
    <3>3. xItemValue[t] < xTickCount
      BY <2>2 DEF TicksInv, WakeTimesAhead
    <3>4. left \in 1 .. WRAP - 1
      BY <2>0, <3>2, <3>3, WrapPositive
    <3> QED  BY <2>2, <3>1, <3>2, <3>4 DEF LeftOf, Blocked
  <2>3. CASE t \in xSuspendedTaskList
    <3>1. t \notin pxDelayedTaskList /\ t \notin pxOverflowDelayedTaskList
      BY <2>3 DEF TicksInv, ListsApart
    <3>2. left = WRAP
      BY <2>3, <3>1 DEF TicksLeft
    <3> QED  BY <2>3, <3>1, <3>2 DEF LeftOf, Blocked
  <2>4. CASE t \notin Blocked
    <3>1. left = 0
      BY <2>4 DEF TicksLeft, Blocked
    <3> QED  BY <2>4, <3>1 DEF LeftOf, Blocked
  <2> QED  BY <2>1, <2>2, <2>3, <2>4 DEF Blocked
<1> QED  BY <1>1, <1>2 DEF IsTicksLeft

LEMMA LeftCasesNext == TicksInv' => IsTicksLeft'
  BY LeftCases, PTL

LEMMA LeftUnchanged ==
    UNCHANGED <<clock, lists, xItemValue>> => UNCHANGED TicksLeft
  BY DEF clock, lists, TicksLeft

(* What the steps do to the ticks left, task by task. *)
LEMMA BlockLeft ==
    ASSUME TicksInv, NEW t \in Tasks, NEW n \in 1 .. portMAX_DELAY, NEW e \in BOOLEAN,
           Block(t, n, e)
    PROVE  /\ t \notin Blocked /\ Blocked' = Blocked \cup {t}
           /\ TicksLeft'[t] = IF e /\ n = portMAX_DELAY THEN WRAP ELSE n
           /\ \A u \in Tasks \ {t} : TicksLeft'[u] = TicksLeft[u]
<1> DEFINE wake == WakeTime(n)
<1>1. IsTicksLeft /\ IsTicksLeft' /\ TicksTypeOK
  BY BlockInv, LeftCases, LeftCasesNext DEF TicksInv
<1>2. t \notin Blocked /\ Blocked' = Blocked \cup {t}
  BY DEF Block, prvAddCurrentTaskToDelayedList, Blocked
<1>3. TicksLeft'[t] = IF e /\ n = portMAX_DELAY THEN WRAP ELSE n
  <2>1. CASE e /\ n = portMAX_DELAY
    BY <1>1, <2>1 DEF Block, prvAddCurrentTaskToDelayedList, IsTicksLeft, LeftOf
  <2>2. CASE ~(e /\ n = portMAX_DELAY)
    <3>1. xItemValue'[t] = wake /\ xTickCount' = xTickCount
      BY <1>1, <2>2 DEF Block, prvAddCurrentTaskToDelayedList, TicksTypeOK, WakeTime, clock
    <3>2. CASE wake < xTickCount
      <4>1. t \in pxOverflowDelayedTaskList'
        BY <2>2, <3>2 DEF Block, prvAddCurrentTaskToDelayedList, Overflows, WakeTime
      <4>2. TicksLeft'[t] = wake + WRAP - xTickCount
        BY <1>1, <3>1, <4>1 DEF IsTicksLeft, LeftOf
      <4> QED  BY <1>1, <2>2, <3>2, <4>2, WakeTimeOK
    <3>3. CASE ~(wake < xTickCount)
      <4>1. t \in pxDelayedTaskList'
        BY <2>2, <3>3 DEF Block, prvAddCurrentTaskToDelayedList, Overflows, WakeTime
      <4>2. TicksLeft'[t] = wake - xTickCount
        BY <1>1, <3>1, <4>1 DEF IsTicksLeft, LeftOf
      <4> QED  BY <1>1, <2>2, <3>3, <4>2, WakeTimeOK
    <3> QED  BY <3>2, <3>3
  <2> QED  BY <2>1, <2>2
<1>4. ASSUME NEW u \in Tasks, u # t PROVE TicksLeft'[u] = TicksLeft[u]
  <2>1. /\ u \in pxDelayedTaskList' <=> u \in pxDelayedTaskList
        /\ u \in pxOverflowDelayedTaskList' <=> u \in pxOverflowDelayedTaskList
        /\ u \in xSuspendedTaskList' <=> u \in xSuspendedTaskList
    BY <1>4 DEF Block, prvAddCurrentTaskToDelayedList
  <2>2. xItemValue'[u] = xItemValue[u] /\ xTickCount' = xTickCount
    BY <1>1, <1>4 DEF Block, prvAddCurrentTaskToDelayedList, TicksTypeOK, clock
  <2> QED  BY <2>1, <2>2 DEF TicksLeft
<1> QED  BY <1>2, <1>3, <1>4

LEMMA SleepStep ==
    ASSUME TicksInv, NEW t \in Tasks, NEW n \in 1 .. portMAX_DELAY, NEW e \in BOOLEAN,
           Block(t, n, e)
    PROVE  Asleep!Next
<1> DEFINE m == IF e /\ n = portMAX_DELAY THEN WRAP ELSE n
<1>1. IsTicksLeft /\ IsTicksLeft'
  BY BlockInv, LeftCases, LeftCasesNext
<1>2. TicksLeft[t] = 0 /\ m \in 1 .. WRAP
  BY <1>1, BlockLeft, WrapPositive DEF IsTicksLeft, LeftOf
<1>3. TicksLeft' = [TicksLeft EXCEPT ![t] = m]
  BY <1>1, BlockLeft DEF IsTicksLeft
<1> QED  BY <1>2, <1>3 DEF Asleep!Next, Asleep!Sleep

LEMMA WakeLeft ==
    ASSUME TicksInv, TicksInv', NEW S \in SUBSET Tasks, S \subseteq Blocked,
           /\ pxDelayedTaskList' = pxDelayedTaskList \ S
           /\ pxOverflowDelayedTaskList' = pxOverflowDelayedTaskList \ S
           /\ xSuspendedTaskList' = xSuspendedTaskList \ S
           /\ ClearItems(S) /\ UNCHANGED clock
    PROVE  /\ Blocked' = Blocked \ S
           /\ \A t \in S : TicksLeft[t] > 0 /\ TicksLeft'[t] = 0
           /\ \A u \in Tasks \ S : TicksLeft'[u] = TicksLeft[u]
<1>1. IsTicksLeft /\ IsTicksLeft'
  BY LeftCases, LeftCasesNext
<1>2. \A t \in S : TicksLeft[t] > 0
  BY <1>1, WrapPositive DEF IsTicksLeft, LeftOf, Blocked
<1>3. ASSUME NEW t \in S PROVE TicksLeft'[t] = 0
  BY <1>1 DEF IsTicksLeft, LeftOf, Blocked
<1>4. ASSUME NEW u \in Tasks, u \notin S PROVE TicksLeft'[u] = TicksLeft[u]
  <2>1. /\ u \in pxDelayedTaskList' <=> u \in pxDelayedTaskList
        /\ u \in pxOverflowDelayedTaskList' <=> u \in pxOverflowDelayedTaskList
        /\ u \in xSuspendedTaskList' <=> u \in xSuspendedTaskList
    BY <1>4
  <2>2. xItemValue'[u] = xItemValue[u] /\ xTickCount' = xTickCount
    BY <1>4 DEF ClearItems, clock
  <2> QED  BY <2>1, <2>2 DEF TicksLeft
<1>5. Blocked' = Blocked \ S
  BY DEF Blocked
<1> QED  BY <1>2, <1>3, <1>4, <1>5

LEMMA WakeStep ==
    ASSUME TicksInv, TicksInv', NEW S \in SUBSET Tasks, S \subseteq Blocked,
           /\ pxDelayedTaskList' = pxDelayedTaskList \ S
           /\ pxOverflowDelayedTaskList' = pxOverflowDelayedTaskList \ S
           /\ xSuspendedTaskList' = xSuspendedTaskList \ S
           /\ ClearItems(S) /\ UNCHANGED clock
    PROVE  Asleep!Next
<1>1. IsTicksLeft /\ IsTicksLeft'
  BY LeftCases, LeftCasesNext
<1>2. /\ \A t \in S : TicksLeft[t] > 0 /\ TicksLeft'[t] = 0
      /\ \A u \in Tasks \ S : TicksLeft'[u] = TicksLeft[u]
  BY WakeLeft
<1>3. TicksLeft' = [t \in Tasks |-> IF t \in S THEN 0 ELSE TicksLeft[t]]
  BY <1>1, <1>2 DEF IsTicksLeft
<1> QED  BY <1>2, <1>3 DEF Asleep!Next, Asleep!Wake

LEMMA CountLeft ==
    ASSUME TicksInv, TicksInv', xTaskIncrementTick
    PROVE  \A t \in Tasks :
              /\ t \in Blocked' => t \in Blocked
              /\ TicksLeft'[t] = IF TicksLeft[t] \in {0, WRAP} THEN TicksLeft[t]
                                                            ELSE TicksLeft[t] - 1
<1>1. IsTicksLeft /\ IsTicksLeft'
  BY LeftCases, LeftCasesNext
<1>2. ASSUME NEW t \in Tasks
      PROVE  TicksLeft'[t] = IF TicksLeft[t] \in {0, WRAP} THEN TicksLeft[t] ELSE TicksLeft[t] - 1
  <2>0. /\ xTickCount \in 0 .. WRAP - 1 /\ xItemValue[t] \in 0 .. WRAP - 1
        /\ LeftOf(t) /\ LeftOf(t)'
    BY <1>1, WrapPositive DEF TicksInv, TicksTypeOK, IsTicksLeft
  <2>1. CASE t \in DueNow
    <3>1. t \in Current /\ xItemValue[t] = Now
      BY <2>1, IncrementTick
    <3>2. TicksLeft[t] = 1
      <4>1. CASE Now = 0
        BY <2>0, <3>1, <4>1, IncrementTick, WrapPositive DEF LeftOf, Current
      <4>2. CASE Now # 0
        BY <2>0, <3>1, <4>2, IncrementTick, WrapPositive DEF LeftOf, Current
      <4> QED  BY <4>1, <4>2
    <3>3. t \notin Blocked'
      BY <2>1, <3>1, IncrementTick DEF TicksInv, ListsApart, Current, Blocked
    <3>4. TicksLeft'[t] = 0
      BY <2>0, <3>3 DEF LeftOf
    <3> QED  BY <3>2, <3>4, WrapPositive
  <2>2. CASE t \notin DueNow /\ t \in Current
    <3>1. t \in pxDelayedTaskList' /\ xItemValue'[t] = xItemValue[t]
      BY <2>2, IncrementTick DEF ClearItems
    <3>2. TicksLeft'[t] = xItemValue[t] - Now /\ TicksLeft'[t] \in 1 .. WRAP - 1
      BY <2>0, <3>1, IncrementTick DEF LeftOf
    <3>3. TicksLeft[t] = TicksLeft'[t] + 1 /\ TicksLeft[t] \in 1 .. WRAP - 1
      <4>1. CASE Now = 0
        BY <2>0, <2>2, <3>2, <4>1, IncrementTick, WrapPositive DEF LeftOf, Current
      <4>2. CASE Now # 0
        BY <2>0, <2>2, <3>2, <4>2, IncrementTick, WrapPositive DEF LeftOf, Current
      <4> QED  BY <4>1, <4>2
    <3> QED  BY <3>2, <3>3, WrapPositive
  <2>3. CASE t \in pxOverflowDelayedTaskList /\ t \notin Current
    <3>1. Now # 0 /\ Now = xTickCount + 1
      BY <2>3, IncrementTick DEF Current
    <3>2. t \in pxOverflowDelayedTaskList' /\ xItemValue'[t] = xItemValue[t] /\ xTickCount' = Now
      BY <2>3, <3>1, IncrementTick DEF ClearItems
    <3>3. /\ TicksLeft[t] = xItemValue[t] + WRAP - xTickCount /\ TicksLeft[t] \in 1 .. WRAP - 1
          /\ TicksLeft'[t] = xItemValue[t] + WRAP - Now
      BY <2>0, <2>3, <3>2 DEF LeftOf
    <3> QED  BY <2>0, <3>1, <3>3, WrapPositive
  <2>4. CASE t \in xSuspendedTaskList
    <3>1. t \in xSuspendedTaskList'
      BY <2>4, IncrementTick
    <3> QED  BY <2>0, <2>4, <3>1 DEF LeftOf
  <2>5. CASE t \notin Blocked
    <3>1. t \notin Blocked'
      BY <2>5, IncrementTick DEF Blocked, Current
    <3> QED  BY <2>0, <2>5, <3>1 DEF LeftOf
  <2>6. t \in pxDelayedTaskList => t \in Current
    BY IncrementTick DEF Current
  <2> QED  BY <2>1, <2>2, <2>3, <2>4, <2>5, <2>6 DEF Blocked
<1>3. \A t \in Tasks : t \in Blocked' => t \in Blocked
  BY IncrementTick DEF Blocked, Current
<1> QED  BY <1>2, <1>3

LEMMA CountStep ==
    ASSUME TicksInv, TicksInv', xTaskIncrementTick
    PROVE  Asleep!Next
<1>1. IsTicksLeft'
  BY LeftCasesNext
<1>2. TicksLeft' = [t \in Tasks |-> IF TicksLeft[t] \in {0, WRAP} THEN TicksLeft[t]
                                                              ELSE TicksLeft[t] - 1]
  BY <1>1, CountLeft DEF IsTicksLeft
<1> QED  BY <1>2 DEF Asleep!Next, Asleep!Tick

LEMMA SleepersInit == TicksInit => Asleep!Init
  BY DEF TicksInit, Asleep!Init, TicksLeft

LEMMA SleepersStep == TicksInv /\ [TicksNext]_tickVars => [Asleep!Next]_TicksLeft
<1> SUFFICES ASSUME TicksInv, [TicksNext]_tickVars PROVE [Asleep!Next]_TicksLeft
  OBVIOUS
<1>0. TicksInv'
  BY NextInv
<1>1. CASE \E t \in Tasks : vTaskSuspendAll(t)
  BY <1>1, LeftUnchanged DEF vTaskSuspendAll
<1>2. CASE \E t \in Tasks, n \in 1 .. portMAX_DELAY, e \in BOOLEAN : Block(t, n, e)
  BY <1>2, SleepStep
<1>3. CASE \E t \in Tasks : xTaskResumeAll(t)
  <2>1. xPendingReadyList \in SUBSET Tasks /\ xPendingReadyList \subseteq Blocked
    BY DEF TicksInv, TicksTypeOK, EventsBlocked
  <2> QED  BY <1>0, <1>3, <2>1, WakeStep DEF xTaskResumeAll
<1>4. CASE \E S \in SUBSET Tasks : xTaskRemoveFromEventList(S)
  <2> PICK S \in SUBSET Tasks : xTaskRemoveFromEventList(S)
    BY <1>4
  <2>1. CASE suspender = NONE
    <3>1. S \subseteq Blocked
      BY DEF xTaskRemoveFromEventList, TicksInv, EventsBlocked
    <3> QED  BY <1>0, <2>1, <3>1, WakeStep DEF xTaskRemoveFromEventList
  <2>2. CASE suspender # NONE
    BY <2>2, LeftUnchanged DEF xTaskRemoveFromEventList
  <2> QED  BY <2>1, <2>2
<1>5. CASE Tick
  <2>1. CASE Scheduling
    BY <1>0, <1>5, <2>1, CountStep DEF Tick, Scheduling
  <2>2. CASE ~Scheduling
    BY <1>5, <2>2, LeftUnchanged DEF Tick
  <2> QED  BY <2>1, <2>2
<1>6. CASE Unwind
  BY <1>0, <1>6, CountStep DEF Unwind
<1>7. CASE UNCHANGED tickVars
  BY <1>7, LeftUnchanged DEF tickVars
<1> QED  BY <1>1, <1>2, <1>3, <1>4, <1>5, <1>6, <1>7 DEF TicksNext

(* Two lists that change roles when the tick count wraps, the next unblock *)
(* time and the ticks held back while the scheduler is suspended amount to *)
(* this: each task sleeps exactly the ticks it asked for, or until an      *)
(* event.                                                                  *)
THEOREM ListsCountTicks == TicksSpec => ImplementsSleepers
<1>1. TicksSpec => Asleep!Init /\ [][Asleep!Next]_TicksLeft
  BY SleepersInit, SleepersStep, Invariance, PTL DEF TicksSpec
<1> QED  BY <1>1 DEF ImplementsSleepers, Asleep!Spec
=============================================================================
