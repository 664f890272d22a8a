------------------------------ MODULE AuditLog ------------------------------
(***************************************************************************)
(* What Src/flash_log.c promises its callers: the audit log is a bounded   *)
(* sequence of records.  Appending adds one record at the end, a full log  *)
(* starts over, clear_log empties it, and losing power in the middle of an *)
(* append adds at most one torn record.                                    *)
(*                                                                         *)
(* The promise holds as long as ok does.  The detailed module FlashLog     *)
(* names the two events after which the code no longer keeps it.           *)
(***************************************************************************)
EXTENDS Naturals, Sequences

CONSTANTS
    N,        \* how many records the page holds (LOG_MAX_ENTRIES)
    Entries,  \* the records a caller may log
    Torn      \* a slot whose record was only partly written

VARIABLES
    log,       \* the records on the page, oldest first
    clearing,  \* the operator has asked for the log to be emptied
    ok         \* the promise still holds

vars == <<log, clearing, ok>>

Init == log = <<>> /\ clearing = FALSE /\ ok = TRUE

\* FlashLog_Write found room.
Record(e) ==
    /\ ok /\ Len(log) < N
    /\ log' = Append(log, e)
    /\ UNCHANGED <<clearing, ok>>

\* The log is full: it is emptied to start over.
StartOver ==
    /\ ok /\ Len(log) = N
    /\ log' = <<>>
    /\ UNCHANGED <<clearing, ok>>

AskClear ==
    /\ ok /\ clearing' = TRUE
    /\ UNCHANGED <<log, ok>>

Clear ==
    /\ ok /\ clearing
    /\ log' = <<>> /\ clearing' = FALSE
    /\ UNCHANGED ok

\* Power is lost: the append in progress, if there is one, is lost, torn or
\* complete, and a clear that has not begun to erase is forgotten.
LosePower ==
    /\ ok
    /\ \/ log' = log
       \/ Len(log) < N /\ \E e \in Entries \cup {Torn} : log' = Append(log, e)
    /\ clearing' = FALSE
    /\ UNCHANGED ok

\* From here on nothing is promised.
GiveUp == ok' = FALSE

Next ==
    \/ \E e \in Entries : Record(e)
    \/ StartOver
    \/ AskClear
    \/ Clear
    \/ LosePower
    \/ GiveUp

Spec == Init /\ [][Next]_vars
=============================================================================
