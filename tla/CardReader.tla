----------------------------- MODULE CardReader -----------------------------
(***************************************************************************)
(* The cooldown of vTaskRFID (Src/task_rfid.c) on a tick counter that      *)
(* wraps.  SmartDoor counts the ticks since last_tick; here they are the   *)
(* difference of two readings of xTaskGetTickCount, modulo WRAP = 2^32,    *)
(* and last_tick = 0 stands for "no card yet", although the counter passes *)
(* 0 again.                                                                *)
(*                                                                         *)
(* The delay of the loop is RFID_POLL ticks and up to LATE more, for the   *)
(* SPI transfers, the prints and preemption.  A poll may miss a card that  *)
(* is held, any number of times in a row; MAX_MISSES is not a bound on     *)
(* that, only how far the misses in a row are counted.                     *)
(***************************************************************************)
EXTENDS Integers

CONSTANTS
    Cards, NoCard,          \* RFID cards; an empty field, or no last_card
    WRAP,                   \* the values of TickType_t
    RFID_POLL, LATE, CARD_COOLDOWN, CARD_NEW_COOLDOWN, QUEUE_RFID_LEN,
    MAX_MISSES              \* HeldCardAccepted: misses in a row that it allows

ASSUME CardReaderAssumption ==
    /\ NoCard \notin Cards
    /\ {RFID_POLL, LATE, CARD_NEW_COOLDOWN, QUEUE_RFID_LEN, MAX_MISSES} \subseteq Nat
    /\ WRAP \in Nat /\ CARD_COOLDOWN \in Nat
    /\ CARD_NEW_COOLDOWN <= CARD_COOLDOWN /\ CARD_COOLDOWN < WRAP

VARIABLES
    tick,                   \* xTickCount
    rfid, card,             \* vTaskRFID: its place in the loop, the card it sends
    last_card, last_tick,
    wake,                   \* ticks it still sleeps
    waiting,                \* the number of cards in xQueueRFID
    field,                  \* external: the card held to the reader
    misses,                 \* ghost: the polls in a row that missed it, counted up
                            \* to MAX_MISSES + 1
    quiet,                  \* ghost: ticks since each card was accepted, up to
                            \* CARD_COOLDOWN
    zero                    \* ghost: a card came in the very tick 0

reader == <<rfid, card, last_card, last_tick>>
vars == <<tick, reader, wake, waiting, field, misses, quiet, zero>>

Ticks == 0 .. WRAP-1

\* now - last_tick in unsigned arithmetic; a tick is a millisecond.
ms_since == IF tick >= last_tick THEN tick - last_tick ELSE tick - last_tick + WRAP

StateOK ==
    /\ tick \in Ticks /\ last_tick \in Ticks
    /\ rfid \in {"poll", "send"}
    /\ card \in Cards \cup {NoCard} /\ last_card \in Cards \cup {NoCard}
    /\ wake \in 0 .. RFID_POLL+LATE
    /\ waiting \in 0..QUEUE_RFID_LEN
    /\ field \in Cards \cup {NoCard} /\ misses \in 0 .. MAX_MISSES+1
    /\ quiet \in [Cards -> 0..CARD_COOLDOWN]
    /\ zero \in BOOLEAN

TypeOK == StateOK /\ ms_since \in Ticks

\* The loop begins after a delay of 200 ms, never in tick 0.
Init ==
    /\ tick \in Ticks \ {0} /\ last_tick = 0
    /\ rfid = "poll" /\ card = NoCard /\ last_card = NoCard
    /\ wake = 0 /\ waiting = 0
    /\ field = NoCard /\ misses = 0
    /\ quiet = [c \in Cards |-> CARD_COOLDOWN] /\ zero = FALSE

Sleeps == \E late \in 0..LATE : wake' = RFID_POLL + late

-----------------------------------------------------------------------------
\* Mutant of Process: any other card is let through.
ProcessSameCardOnly(c) == last_tick = 0 \/ c # last_card \/ ms_since >= CARD_COOLDOWN

\* Whether the cooldown lets the detected card through.
Process(c) ==
    \/ last_tick = 0
    \/ c = last_card /\ ms_since >= CARD_COOLDOWN
    \/ c # last_card /\ ms_since >= CARD_NEW_COOLDOWN

\* RFID_DetectCard returns STATUS_OK with card c.
Detects(c) ==
    /\ rfid = "poll" /\ wake = 0
    /\ field = c /\ misses' = 0

\* There is no card.
Nothing ==
    /\ rfid = "poll" /\ wake = 0 /\ field = NoCard
    /\ Sleeps
    /\ UNCHANGED <<tick, reader, waiting, field, misses, quiet, zero>>

\* The poll of a card that is held fails, in RFID_REQA or RFID_Anticollision.
\* Nothing in the code limits how often this happens in a row: a card that
\* has answered one REQA may miss the next, and EXTI0_IRQHandler may clear,
\* in every poll, the flag that the poll waits for.
Miss ==
    /\ rfid = "poll" /\ wake = 0 /\ field # NoCard
    /\ misses' = IF misses <= MAX_MISSES THEN misses + 1 ELSE misses
    /\ Sleeps
    /\ UNCHANGED <<tick, reader, waiting, field, quiet, zero>>

\* Mutant of Reject: a rejected card restarts its cooldown.
RejectRestarts(c) ==
    /\ Detects(c) /\ ~Process(c)
    /\ last_tick' = tick
    /\ zero' = (zero \/ tick = 0)
    /\ Sleeps
    /\ UNCHANGED <<tick, rfid, card, last_card, waiting, field, quiet>>

Reject(c) ==
    /\ Detects(c) /\ ~Process(c)
    /\ Sleeps
    /\ UNCHANGED <<tick, reader, waiting, field, quiet, zero>>

\* There is space in xQueueRFID.
Accept(c) ==
    /\ Detects(c) /\ Process(c) /\ waiting < QUEUE_RFID_LEN
    /\ last_card' = c /\ last_tick' = tick
    /\ rfid' = "send" /\ card' = c
    /\ quiet' = [quiet EXCEPT ![c] = 0]
    /\ zero' = (zero \/ tick = 0)
    /\ UNCHANGED <<tick, wake, waiting, field>>

\* There is none: only last_tick is set.
Skip(c) ==
    /\ Detects(c) /\ Process(c) /\ waiting >= QUEUE_RFID_LEN
    /\ last_tick' = tick
    /\ zero' = (zero \/ tick = 0)
    /\ Sleeps
    /\ UNCHANGED <<tick, rfid, card, last_card, waiting, field, quiet>>

\* The UID has been printed.
Send ==
    /\ rfid = "send"
    /\ waiting' = IF waiting < QUEUE_RFID_LEN THEN waiting + 1 ELSE waiting
    /\ rfid' = "poll" /\ card' = NoCard
    /\ Sleeps
    /\ UNCHANGED <<tick, last_card, last_tick, field, misses, quiet, zero>>

\* vTaskAuth receives a card.
AuthTakeCard ==
    /\ waiting > 0
    /\ waiting' = waiting - 1
    /\ UNCHANGED <<tick, reader, wake, field, misses, quiet, zero>>

\* A card is held to the reader, or taken away.
Present(c) ==
    /\ c # field
    /\ field' = c /\ misses' = 0
    /\ UNCHANGED <<tick, reader, wake, waiting, quiet, zero>>

\* The SysTick interrupt; vTaskRFID is not kept from its loop longer than LATE.
Tick ==
    /\ rfid = "send" \/ wake > 0
    /\ tick' = IF tick = WRAP-1 THEN 0 ELSE tick + 1
    /\ wake' = IF wake > 0 THEN wake - 1 ELSE wake
    /\ quiet' = [c \in Cards |-> IF quiet[c] < CARD_COOLDOWN THEN quiet[c] + 1 ELSE quiet[c]]
    /\ UNCHANGED <<reader, waiting, field, misses, zero>>

Poll == Nothing \/ Miss \/ \E c \in Cards : Reject(c) \/ Accept(c) \/ Skip(c)
Next == Poll \/ Send \/ AuthTakeCard \/ Tick \/ \E c \in Cards \cup {NoCard} : Present(c)

Spec == Init /\ [][Next]_vars

\* Both tasks run and time goes on; people do what they want.
FairSpec == Spec /\ WF_vars(Poll \/ Send) /\ WF_vars(AuthTakeCard) /\ WF_vars(Tick)

-----------------------------------------------------------------------------
(***************************************************************************)
(* Properties.                                                             *)
(***************************************************************************)
Accepts(c) == rfid = "poll" /\ rfid' = "send" /\ card' = c

\* task_rfid.c:77-83: however cards alternate, whatever the queue refuses and
\* however often the counter wraps, two cards are at least CARD_NEW_COOLDOWN
\* apart, and a card comes again after CARD_COOLDOWN, or after twice
\* CARD_NEW_COOLDOWN if that is less.  A card that comes in the very tick 0 ends
\* this, since last_tick then says that there was none.
CardsApart ==
    [][\A c \in Cards : Accepts(c) /\ ~zero =>
         /\ \A d \in Cards : quiet[d] >= CARD_NEW_COOLDOWN
         /\ quiet[c] >= CARD_COOLDOWN \/ quiet[c] >= 2 * CARD_NEW_COOLDOWN]_vars

\* A card that is held to the reader is accepted again and again, although
\* ms_since falls below the cooldown after each wrap and a full queue restarts
\* it: the cooldown locks no card out.  This is for a card that is not missed
\* more than MAX_MISSES polls in a row.  The code does not guarantee that: a
\* card that every poll misses, or every poll outside its cooldown, is never
\* accepted.
HeldCardAccepted ==
    \A c \in Cards :
        <>[](field = c /\ misses <= MAX_MISSES) => []<>(rfid = "send" /\ card = c)
=============================================================================
