---------------------------- MODULE AccessControl ----------------------------
(***************************************************************************)
(* What SmartDoor promises the people at the door and the operator of the  *)
(* log: a credential that was accepted is decided exactly once and in the  *)
(* order it was accepted in; deciding it and recording it in the audit log *)
(* is one step, so no result is shown that is not on record; results are   *)
(* shown in the order they were decided, and one is given up only while    *)
(* MaxPending others wait for the display.  The log is not promised for    *)
(* ever: it starts over when it is full, at the next entry or at the next  *)
(* restart, whichever comes first (README.md:97 says that it survives      *)
(* power cycles).                                                          *)
(***************************************************************************)
EXTENDS Naturals, Sequences

CONSTANTS
    Cards, AuthorisedCards,  \* RFID cards, and those whose UID opens the door
    Pins, CorrectPin,        \* strings of PIN_LENGTH keys, and the one that opens
    LogLen,                  \* LOG_MAX_ENTRIES
    MaxPending               \* QUEUE_AUTH_LEN

VARIABLES
    cards,    \* accepted cards that are not decided yet
    pins,     \* accepted PINs that are not decided yet
    log,      \* the audit log
    results   \* decided, not shown yet

vars == <<cards, pins, log, results>>

CardRecord(c) == [source |-> "RFID", uid |-> c, granted |-> c \in AuthorisedCards]
PinRecord(p)  == [source |-> "PIN", granted |-> p = CorrectPin]
ResultOf(r)   == [source |-> r.source, granted |-> r.granted]

\* FlashLog_Write: a full log starts over.
Logged(r) == IF Len(log) < LogLen THEN Append(log, r) ELSE <<r>>

Init == cards = <<>> /\ pins = <<>> /\ log = <<>> /\ results = <<>>

AcceptCard == \E c \in Cards : cards' = Append(cards, c) /\ UNCHANGED <<pins, log, results>>

AcceptPin == \E p \in Pins : pins' = Append(pins, p) /\ UNCHANGED <<cards, log, results>>

Decide(r) == log' = Logged(r) /\ results' = Append(results, ResultOf(r))

DecideCard ==
    /\ cards # <<>> /\ cards' = Tail(cards)
    /\ Decide(CardRecord(Head(cards)))
    /\ UNCHANGED pins

DecidePin ==
    /\ pins # <<>> /\ pins' = Tail(pins)
    /\ Decide(PinRecord(Head(pins)))
    /\ UNCHANGED cards

\* The newest result is given up because MaxPending others are waiting.
GiveUpResult ==
    /\ Len(results) = MaxPending + 1
    /\ results' = SubSeq(results, 1, MaxPending)
    /\ UNCHANGED <<cards, pins, log>>

Show == results # <<>> /\ results' = Tail(results) /\ UNCHANGED <<cards, pins, log>>

ClearLog == log' = <<>> /\ UNCHANGED <<cards, pins, results>>

\* A reset loses what is in RAM, and a log that is full.
Reset ==
    /\ cards' = <<>> /\ pins' = <<>> /\ results' = <<>>
    /\ log' = IF Len(log) < LogLen THEN log ELSE <<>>

Next ==
    \/ AcceptCard \/ AcceptPin \/ DecideCard \/ DecidePin
    \/ GiveUpResult \/ Show \/ ClearLog \/ Reset

Spec == Init /\ [][Next]_vars
=============================================================================
