-------------------------------- MODULE Uart --------------------------------
(***************************************************************************)
(* Printing on USART2 (Src/uart.c): the mutex xUARTMutex with its timeout  *)
(* and its priority inheritance (xQueueSemaphoreTake and xSemaphoreGive in *)
(* queue.c, the inheritance in tasks.c), and the transmit register behind  *)
(* it.  The kernel runs a task of the highest priority that is ready, and  *)
(* slices time between equals.                                             *)
(*                                                                         *)
(* A task that blocks counts ticks as in module Sleepers, which the        *)
(* kernel's lists implement (Ticks).  From vTaskSuspendAll to              *)
(* xTaskResumeAll a task is alone here, because no interrupt gives this    *)
(* mutex: it is one step.                                                  *)
(***************************************************************************)
EXTENDS Naturals, FiniteSets

CONSTANTS Tasks,
          uxBasePriority,  (* the priority each task is created with       *)
          RawPrinters,     (* tasks that print with UART2_sendString       *)
          Spinners,        (* tasks that wait in a loop: Keypad_GetKey     *)
          Lengths,         (* how many characters a print can have         *)
          TIMEOUT,         (* ticks UART2_Print waits for the mutex, 10    *)
          DELAY,           (* ticks a task sleeps between its turns        *)
          NONE             (* no task, no character                        *)

ASSUME UartAssumption ==
    /\ IsFiniteSet(Tasks) /\ NONE \notin Tasks \cup (Tasks \X Nat)
    /\ uxBasePriority \in [Tasks -> Nat]
    /\ RawPrinters \subseteq Tasks /\ Spinners \subseteq Tasks
    /\ Lengths \subseteq Nat \ {0}
    /\ TIMEOUT \in Nat \ {0} /\ DELAY \in Nat \ {0}

VARIABLES
    pc,              (* where each task is, see TypeOK                     *)
    uxPriority,      (* the priority it has now                            *)
    xMutexHolder,    (* NONE: the mutex can be taken                       *)
    waiters,         (* xTasksWaitingToReceive of the mutex                *)
    left,            (* ticks before the task's timeout, or its delay, end *)
    xInheritanceOccurred,
    rest,            (* characters of its string it has yet to send        *)
    TDR,             (* the transmit register; NONE is TXE                 *)
    sent             (* history: the character sent last                   *)

taskVars == <<pc, left, xInheritanceOccurred, rest>>
lock     == <<uxPriority, xMutexHolder, waiters>>
wire     == <<TDR, sent>>
vars     == <<taskVars, lock, wire>>

(* A character is who sent it and how many of its string follow it. *)
Chars == Tasks \X Nat

Init ==
    /\ pc = [t \in Tasks |-> "idle"]
    /\ uxPriority = uxBasePriority
    /\ xMutexHolder = NONE
    /\ waiters = {}
    /\ left = [t \in Tasks |-> 0]
    /\ xInheritanceOccurred = [t \in Tasks |-> FALSE]
    /\ rest = [t \in Tasks |-> 0]
    /\ TDR = NONE
    /\ sent = NONE

Ready(t)  == pc[t] \notin {"blocked", "asleep"}
CanRun(t) == Ready(t) /\ \A u \in Tasks : Ready(u) => uxPriority[u] <= uxPriority[t]

Goes(t, place) == pc' = [pc EXCEPT ![t] = place]
-----------------------------------------------------------------------------
(***************************************************************************)
(* A task's turn: it prints, sleeps, or waits in a loop for something      *)
(* outside that need not come.                                             *)
(***************************************************************************)
(* Mutant of Call: UART2_Print does not take the mutex. *)
CallUnprotected(t) ==
    /\ CanRun(t) /\ pc[t] = "idle"
    /\ \E n \in Lengths : rest' = [rest EXCEPT ![t] = n]
    /\ Goes(t, "poll")
    /\ UNCHANGED <<left, xInheritanceOccurred, lock, wire>>

Call(t) ==
    /\ CanRun(t) /\ pc[t] = "idle"
    /\ \E n \in Lengths : rest' = [rest EXCEPT ![t] = n]
    /\ Goes(t, IF t \in RawPrinters THEN "poll" ELSE "take")
    /\ UNCHANGED <<left, xInheritanceOccurred, lock, wire>>

vTaskDelay(t) ==
    /\ CanRun(t) /\ pc[t] = "idle"
    /\ Goes(t, "asleep")
    /\ left' = [left EXCEPT ![t] = DELAY]
    /\ UNCHANGED <<xInheritanceOccurred, rest, lock, wire>>

Spin(t) ==
    /\ CanRun(t) /\ pc[t] = "idle" /\ t \in Spinners
    /\ Goes(t, "spin")
    /\ UNCHANGED <<left, xInheritanceOccurred, rest, lock, wire>>

(* The key is released. *)
Release(t) ==
    /\ CanRun(t) /\ pc[t] = "spin"
    /\ Goes(t, "idle")
    /\ UNCHANGED <<left, xInheritanceOccurred, rest, lock, wire>>
-----------------------------------------------------------------------------
(***************************************************************************)
(* xSemaphoreTake(xUARTMutex, TIMEOUT).  The loop of xQueueSemaphoreTake   *)
(* begins at "take", later at "again" with its timeout running, and at     *)
(* "last" with its timeout used up.                                        *)
(***************************************************************************)
TakeMutex(t) ==
    /\ CanRun(t) /\ pc[t] \in {"take", "again", "last"}
    /\ xMutexHolder = NONE
    /\ xMutexHolder' = t
    /\ Goes(t, "poll")
    /\ left' = [left EXCEPT ![t] = 0]
    /\ xInheritanceOccurred' = [xInheritanceOccurred EXCEPT ![t] = FALSE]
    /\ UNCHANGED <<rest, uxPriority, waiters, wire>>

FindTaken(t) ==
    /\ CanRun(t) /\ pc[t] \in {"take", "again"}
    /\ xMutexHolder # NONE
    /\ Goes(t, "suspend")
    /\ left' = IF pc[t] = "take" THEN [left EXCEPT ![t] = TIMEOUT] ELSE left
    /\ UNCHANGED <<xInheritanceOccurred, rest, lock, wire>>

(* The call returns without the mutex and the string is never printed. *)
Drop(t) ==
    /\ Goes(t, "idle")
    /\ rest' = [rest EXCEPT ![t] = 0]
    /\ xInheritanceOccurred' = [xInheritanceOccurred EXCEPT ![t] = FALSE]
    /\ UNCHANGED <<left, wire>>

GiveUp(t) ==
    /\ CanRun(t) /\ xMutexHolder # NONE
    /\ pc[t] = "last" \/ (pc[t] = "expired" /\ ~xInheritanceOccurred[t])
    /\ Drop(t)
    /\ UNCHANGED lock

(* The scheduler is suspended: the timeout has expired, *)
TimedOut(t) ==
    /\ CanRun(t) /\ pc[t] = "suspend"
    /\ left[t] = 0
    /\ Goes(t, "expired")
    /\ UNCHANGED <<left, xInheritanceOccurred, rest, lock, wire>>

(* or the mutex has been given meanwhile, *)
FindGiven(t) ==
    /\ CanRun(t) /\ pc[t] = "suspend"
    /\ left[t] > 0 /\ xMutexHolder = NONE
    /\ Goes(t, "again")
    /\ UNCHANGED <<left, xInheritanceOccurred, rest, lock, wire>>

(* Mutant of xTaskPriorityInherit: the holder keeps its priority. *)
xTaskPriorityInheritNot(holder, t) ==
    UNCHANGED <<uxPriority, xInheritanceOccurred>>

(* xTaskPriorityInherit: the holder works at the caller's priority. *)
xTaskPriorityInherit(holder, t) ==
    /\ uxPriority' = IF uxPriority[holder] < uxPriority[t]
                     THEN [uxPriority EXCEPT ![holder] = uxPriority[t]]
                     ELSE uxPriority
    /\ xInheritanceOccurred' = [xInheritanceOccurred EXCEPT
           ![t] = uxBasePriority[holder] < uxPriority[t]]

(* or the task lends the holder its priority and blocks. *)
BlockOnMutex(t) ==
    /\ CanRun(t) /\ pc[t] = "suspend"
    /\ left[t] > 0 /\ xMutexHolder # NONE
    /\ xTaskPriorityInherit(xMutexHolder, t)
    /\ waiters' = waiters \cup {t}
    /\ Goes(t, "blocked")
    /\ UNCHANGED <<left, rest, xMutexHolder, wire>>

Expire(t) ==
    /\ CanRun(t) /\ pc[t] = "expired"
    /\ \/ /\ xMutexHolder = NONE
          /\ Goes(t, "last")
          /\ UNCHANGED <<left, xInheritanceOccurred, rest, wire>>
       \/ /\ xMutexHolder # NONE /\ xInheritanceOccurred[t]
          /\ Goes(t, "disinherit")
          /\ UNCHANGED <<left, xInheritanceOccurred, rest, wire>>
    /\ UNCHANGED lock

Greatest(S) == CHOOSE p \in S : \A q \in S : q <= p

(* prvGetHighestPriorityOfWaitToReceiveList: 0, the idle task's, if none. *)
HighestWaiting == Greatest({0} \cup {uxPriority[w] : w \in waiters})

(* Mutant of vTaskPriorityDisinheritAfterTimeout: the loan is not called in. *)
DisinheritAfterTimeoutNot(t) ==
    /\ CanRun(t) /\ pc[t] = "disinherit"
    /\ Drop(t)
    /\ UNCHANGED lock

vTaskPriorityDisinheritAfterTimeout(t) ==
    /\ CanRun(t) /\ pc[t] = "disinherit"
    /\ uxPriority' = IF xMutexHolder = NONE THEN uxPriority
                     ELSE [uxPriority EXCEPT ![xMutexHolder] =
                              Greatest({uxBasePriority[xMutexHolder], HighestWaiting})]
    /\ Drop(t)
    /\ UNCHANGED <<xMutexHolder, waiters>>

(* Mutant of GiveMutex: the waiters are left in their list. *)
GiveMutexSilently(t) ==
    /\ CanRun(t) /\ pc[t] = "give"
    /\ xMutexHolder' = NONE
    /\ uxPriority' = [uxPriority EXCEPT ![t] = uxBasePriority[t]]
    /\ Goes(t, "idle")
    /\ UNCHANGED <<left, xInheritanceOccurred, rest, waiters, wire>>

(* xSemaphoreGive, with xTaskPriorityDisinherit: the first waiter, of the  *)
(* highest priority, is readied to try again.                              *)
GiveMutex(t) ==
    /\ CanRun(t) /\ pc[t] = "give"
    /\ xMutexHolder' = NONE
    /\ uxPriority' = [uxPriority EXCEPT ![t] = uxBasePriority[t]]
    /\ \/ waiters = {} /\ Goes(t, "idle") /\ UNCHANGED waiters
       \/ \E w \in waiters :
             /\ uxPriority[w] = HighestWaiting
             /\ waiters' = waiters \ {w}
             /\ pc' = [pc EXCEPT ![t] = "idle", ![w] = "again"]
    /\ UNCHANGED <<left, xInheritanceOccurred, rest, wire>>
-----------------------------------------------------------------------------
(***************************************************************************)
(* UART2_SendChar: poll TXE, then write the register.                      *)
(***************************************************************************)
(* Mutant of PollTXE: the register is written without a look at TXE. *)
PollTXENot(t) ==
    /\ CanRun(t) /\ pc[t] = "poll"
    /\ Goes(t, "write")
    /\ UNCHANGED <<left, xInheritanceOccurred, rest, lock, wire>>

PollTXE(t) ==
    /\ CanRun(t) /\ pc[t] = "poll"
    /\ TDR = NONE
    /\ Goes(t, "write")
    /\ UNCHANGED <<left, xInheritanceOccurred, rest, lock, wire>>

WriteTDR(t) ==
    /\ CanRun(t) /\ pc[t] = "write"
    /\ TDR' = <<t, rest[t] - 1>>
    /\ rest' = [rest EXCEPT ![t] = @ - 1]
    /\ Goes(t, IF rest[t] > 1 THEN "poll"
               ELSE IF t \in RawPrinters THEN "idle" ELSE "give")
    /\ UNCHANGED <<left, xInheritanceOccurred, lock, sent>>

(* The hardware takes the character and shifts it out. *)
Transmit ==
    /\ TDR # NONE
    /\ sent' = TDR
    /\ TDR' = NONE
    /\ UNCHANGED <<taskVars, lock>>

Passed(t) == IF left[t] = 0 THEN 0 ELSE left[t] - 1

(* One tick: delays end, and timeouts take tasks off the mutex's list. *)
Tick ==
    LET due == {t \in Tasks : left[t] = 1 /\ ~Ready(t)}
    IN /\ left' = [t \in Tasks |-> Passed(t)]
       /\ waiters' = waiters \ due
       /\ pc' = [t \in Tasks |-> IF t \notin due THEN pc[t]
                               ELSE IF pc[t] = "asleep" THEN "idle" ELSE "again"]
       /\ UNCHANGED <<xInheritanceOccurred, rest, uxPriority, xMutexHolder, wire>>

Step(t) ==
    \/ Call(t) \/ vTaskDelay(t) \/ Spin(t) \/ Release(t)
    \/ TakeMutex(t) \/ FindTaken(t) \/ GiveUp(t)
    \/ TimedOut(t) \/ FindGiven(t) \/ BlockOnMutex(t)
    \/ Expire(t) \/ vTaskPriorityDisinheritAfterTimeout(t)
    \/ PollTXE(t) \/ WriteTDR(t) \/ GiveMutex(t)

Next == (\E t \in Tasks : Step(t)) \/ Transmit \/ Tick

Spec == Init /\ [][Next]_vars

(* The hardware shifts characters out and time passes.  A task that is     *)
(* again and again among those the kernel may run gets on with its code,   *)
(* in which a task may spin for ever.                                      *)
FairSpec ==
    /\ Spec
    /\ WF_vars(Transmit) /\ WF_vars(Tick)
    /\ \A t \in Tasks : SF_vars(Step(t) /\ pc[t] # "spin")
-----------------------------------------------------------------------------
TypeOK ==
    /\ pc \in [Tasks -> {"idle", "asleep", "spin", "take", "again", "last", "suspend",
                         "blocked", "expired", "disinherit", "poll", "write", "give"}]
    /\ uxPriority \in [Tasks -> Nat]
    /\ xMutexHolder \in Tasks \cup {NONE}
    /\ waiters = {t \in Tasks : pc[t] = "blocked"}
    /\ left \in [Tasks -> Nat]
    /\ xInheritanceOccurred \in [Tasks -> BOOLEAN]
    /\ rest \in [Tasks -> Nat]
    /\ TDR \in Chars \cup {NONE}
    /\ sent \in Chars \cup {NONE}

(* uart.c:8-9: the transmit register found empty is still empty when the   *)
(* task writes it, so no character is overwritten before it is sent.       *)
NothingOverwritten == \A t \in Tasks : pc[t] = "write" => TDR = NONE

(* A string goes out whole: after a character that is not the last of its  *)
(* string comes the next of that string, and no other.                     *)
StringsWhole ==
    [][TDR # NONE /\ TDR' = NONE /\ sent # NONE /\ sent[2] > 0
          => TDR = <<sent[1], sent[2] - 1>>]_vars

(* Nobody waits for the mutex behind a holder of lower priority, whoever   *)
(* gave it, took it, timed out or was readied in between; the wait is not  *)
(* prolonged by tasks of middle priority.                                  *)
NoInversion ==
    xMutexHolder # NONE => \A w \in waiters : uxPriority[xMutexHolder] >= uxPriority[w]

(* A task has more than its own priority only while it holds the mutex     *)
(* somebody of at least that priority is still after.                      *)
LoanReturned ==
    \A t \in Tasks : uxPriority[t] # uxBasePriority[t] =>
        /\ t = xMutexHolder
        /\ \E u \in Tasks : /\ pc[u] \in {"blocked", "again", "suspend", "expired",
                                          "disinherit"}
                            /\ uxBasePriority[u] = uxPriority[t]

(* A free mutex with tasks in its list has a readied task on its way.      *)
MutexGoesOn ==
    xMutexHolder = NONE /\ waiters # {}
        => \E t \in Tasks : pc[t] \in {"again", "suspend", "expired", "last"}

(* As long as tasks keep waiting for the mutex its holder gets to give it  *)
(* back, even while a task of middle priority spins for ever.              *)
HolderFinishes ==
    \A t \in Tasks : []<>(waiters # {}) => []<>(xMutexHolder # t)
=============================================================================
