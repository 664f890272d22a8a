----------------------------- MODULE SmartDoor -----------------------------
(***************************************************************************)
(* The four tasks on the way from a credential to the display, and the     *)
(* queues between them (Src/main.c):                                       *)
(*                                                                         *)
(*   vTaskRFID   --xQueueRFID----> vTaskAuth --xQueueAuth--> vTaskLCD      *)
(*   vTaskKeypad --xQueueKeypad--> vTaskAuth                               *)
(*   vTaskKeypad --xQueueKeyChar----------------------------> vTaskLCD     *)
(*                                                                         *)
(* A task is split where another may run: the UART mutex can block any of  *)
(* them at a print, and the three tasks of priority 2 are time-sliced.     *)
(* Every send is made with a timeout of 0, so a full queue drops the item  *)
(* and the caller ignores it.                                              *)
(*                                                                         *)
(* Time advances by Tick, only while every task is blocked: the work of a  *)
(* task between two delays is short against a tick of this model, except   *)
(* for AUTH_WORK, the printing and flash programming of vTaskAuth.  The    *)
(* delays are parameters, in ticks.  Priorities are not modelled, so every *)
(* schedule of the kernel, and more, is a behaviour.                       *)
(*                                                                         *)
(* FlashLog_Write is one step here, which no clear_log overlaps and which  *)
(* finds no error flag standing; FlashLog models its inside, with both,    *)
(* and the slot that a loss of power in the middle of it leaves torn.  The *)
(* ticks since last_tick do not wrap here; CardReader models the counter.  *)
(***************************************************************************)
EXTENDS Naturals, Sequences, FiniteSets

CONSTANTS
    Cards, AuthorisedCards,   \* RFID cards, and those whose UID is auth_uid
    NoCard,                   \* last_card before the first card, a UID of size 0
    Keys, PIN_LENGTH, CORRECT_PIN,
    QUEUE_RFID_LEN, QUEUE_KEYPAD_LEN, QUEUE_AUTH_LEN,
    LOG_MAX_ENTRIES,
    RFID_POLL, KEYPAD_POLL, AUTH_POLL, LCD_POLL,  \* the delays of the loops
    AUTH_WORK,                \* from the receive to the write in vTaskAuth
    LCD_RESULT, CARD_COOLDOWN, CARD_NEW_COOLDOWN

ASSUME SmartDoorAssumption ==
    /\ AuthorisedCards \subseteq Cards /\ NoCard \notin Cards
    /\ PIN_LENGTH \in Nat \ {0} /\ CORRECT_PIN \in [1..PIN_LENGTH -> Keys]
    /\ {QUEUE_RFID_LEN, QUEUE_KEYPAD_LEN, QUEUE_AUTH_LEN, LOG_MAX_ENTRIES} \subseteq Nat \ {0}
    /\ {RFID_POLL, KEYPAD_POLL, AUTH_POLL, LCD_POLL} \subseteq Nat \ {0}
    /\ {AUTH_WORK, LCD_RESULT, CARD_COOLDOWN, CARD_NEW_COOLDOWN} \subseteq Nat
    /\ CARD_NEW_COOLDOWN <= CARD_COOLDOWN

VARIABLES
    xQueueRFID, xQueueKeypad, xQueueAuth, xQueueKeyChar,
    rfid, card,             \* vTaskRFID: its place in the loop, the card it sends
    last_card,              \* the card of the last send
    first, since,           \* last_tick is still 0; the ticks since last_tick
    keypad, pin_buf,        \* vTaskKeypad: its place, the keys of the PIN so far
    auth, cred, log_entry,  \* vTaskAuth: its place, what it received, the entry
    lcd, star_count,        \* vTaskLCD: its place and counter
    screen,                 \* external, the LCD: its text
    wake,                   \* ticks each task still sleeps
    log,                    \* the audit log in flash
    in_step                 \* ghost: no key of this PIN was lost to the display

queues == <<xQueueRFID, xQueueKeypad, xQueueAuth, xQueueKeyChar>>
rfidVars   == <<rfid, card, last_card, first, since>>
keypadVars == <<keypad, pin_buf>>
authVars   == <<auth, cred, log_entry>>
lcdVars    == <<lcd, star_count, screen>>
vars == <<queues, rfidVars, keypadVars, authVars, lcdVars, wake, log, in_step>>

Tasks == {"rfid", "keypad", "auth", "lcd"}
Pins  == [1..PIN_LENGTH -> Keys]
Clear == "clear"                  \* (char)0xFF
KeyChars == {"key", Clear}        \* the LCD only tells a key from 0xFF
KEY_CHAR_LEN == PIN_LENGTH + 2

CardRecord(c) == [source |-> "RFID", uid |-> c, granted |-> c \in AuthorisedCards]
PinRecord(p)  == [source |-> "PIN", granted |-> p = CORRECT_PIN]
ResultOf(r)   == [source |-> r.source, granted |-> r.granted]
Entries == {CardRecord(c) : c \in Cards} \cup {PinRecord(p) : p \in Pins}
Results == {ResultOf(r) : r \in Entries}

\* xQueueSend with a timeout of 0 on a queue of length len.
Sent(q, len, x) == IF Len(q) < len THEN Append(q, x) ELSE q

QueuesOK ==
    /\ xQueueRFID \in Seq(Cards) /\ Len(xQueueRFID) <= QUEUE_RFID_LEN
    /\ xQueueKeypad \in Seq(Pins) /\ Len(xQueueKeypad) <= QUEUE_KEYPAD_LEN
    /\ xQueueAuth \in Seq(Results) /\ Len(xQueueAuth) <= QUEUE_AUTH_LEN
    /\ xQueueKeyChar \in Seq(KeyChars) /\ Len(xQueueKeyChar) <= KEY_CHAR_LEN

RfidOK ==
    /\ rfid \in {"poll", "send"} /\ card \in Cards \cup {NoCard}
    /\ rfid = "send" => card \in Cards
    /\ last_card \in Cards \cup {NoCard}
    /\ since \in 0..CARD_COOLDOWN

KeypadOK ==
    /\ keypad \in {"scan", "pin", "clear"}
    /\ pin_buf \in Seq(Keys)
    /\ IF keypad = "scan" THEN Len(pin_buf) < PIN_LENGTH ELSE pin_buf \in Pins

\* The entry is the decision on what vTaskAuth received.
AuthOK ==
    /\ auth \in {"idle", "card", "pin", "publish"}
    /\ auth = "card" => cred \in Cards /\ log_entry = CardRecord(cred)
    /\ auth = "pin" => cred \in Pins /\ log_entry = PinRecord(cred)
    /\ auth = "publish" => log_entry \in Entries

LcdOK ==
    /\ lcd \in {"keys", "result", "show"}
    /\ star_count \in 0..PIN_LENGTH
    /\ screen \in {"idle", "granted", "denied"}

TypeOK ==
    /\ QueuesOK /\ RfidOK /\ KeypadOK /\ AuthOK /\ LcdOK
    /\ wake \in [Tasks -> Nat]
    /\ log \in Seq(Entries) /\ Len(log) <= LOG_MAX_ENTRIES
    /\ first \in BOOLEAN /\ in_step \in BOOLEAN

\* main creates the queues and the tasks; every task first runs to its loop.
Init ==
    /\ xQueueRFID = <<>> /\ xQueueKeypad = <<>>
    /\ xQueueAuth = <<>> /\ xQueueKeyChar = <<>>
    /\ rfid = "poll" /\ card = NoCard /\ last_card = NoCard
    /\ first = TRUE /\ since = 0
    /\ keypad = "scan" /\ pin_buf = <<>>
    /\ auth = "idle" /\ cred = NoCard /\ log_entry = NoCard
    /\ lcd = "keys" /\ star_count = 0 /\ screen = "idle"
    /\ wake = [t \in Tasks |-> 0]
    /\ log = <<>> /\ in_step = TRUE

Awake(t) == wake[t] = 0
Sleeps(t, n) == wake' = [wake EXCEPT ![t] = n]

-----------------------------------------------------------------------------
(***************************************************************************)
(* vTaskRFID.                                                              *)
(***************************************************************************)
RfidAlone ==
    UNCHANGED <<xQueueKeypad, xQueueAuth, xQueueKeyChar, keypadVars, authVars, lcdVars,
                log, in_step>>

\* Mutants of Process: a cooldown for the same card only, and none at all.
ProcessSameCardOnly(c) == first \/ c # last_card \/ since >= CARD_COOLDOWN

ProcessAlways(c) == TRUE

\* Whether the cooldown lets the detected card through.
Process(c) ==
    \/ first
    \/ c = last_card /\ since >= CARD_COOLDOWN
    \/ c # last_card /\ since >= CARD_NEW_COOLDOWN

\* RFID_DetectCard finds no card, or one that the cooldown rejects.
RfidNothing ==
    /\ rfid = "poll" /\ Awake("rfid")
    /\ Sleeps("rfid", RFID_POLL)
    /\ UNCHANGED <<xQueueRFID, rfidVars>> /\ RfidAlone

\* Mutant of RfidAccept: the space in the queue is not checked.
RfidAcceptUnchecked(c) ==
    /\ rfid = "poll" /\ Awake("rfid") /\ Process(c)
    /\ rfid' = "send" /\ card' = c
    /\ last_card' = c /\ first' = FALSE /\ since' = 0
    /\ UNCHANGED <<xQueueRFID, wake>> /\ RfidAlone

\* There is space: last_card and last_tick are set and the UID is printed.
RfidAccept(c) ==
    /\ rfid = "poll" /\ Awake("rfid") /\ Process(c)
    /\ Len(xQueueRFID) < QUEUE_RFID_LEN
    /\ rfid' = "send" /\ card' = c
    /\ last_card' = c /\ first' = FALSE /\ since' = 0
    /\ UNCHANGED <<xQueueRFID, wake>> /\ RfidAlone

\* The queue is full: only last_tick is set.
RfidSkip(c) ==
    /\ rfid = "poll" /\ Awake("rfid") /\ Process(c)
    /\ Len(xQueueRFID) >= QUEUE_RFID_LEN
    /\ first' = FALSE /\ since' = 0
    /\ Sleeps("rfid", RFID_POLL)
    /\ UNCHANGED <<xQueueRFID, rfid, card, last_card>> /\ RfidAlone

RfidSend ==
    /\ rfid = "send"
    /\ xQueueRFID' = Sent(xQueueRFID, QUEUE_RFID_LEN, card)
    /\ rfid' = "poll" /\ card' = NoCard
    /\ Sleeps("rfid", RFID_POLL)
    /\ UNCHANGED <<last_card, first, since>> /\ RfidAlone

-----------------------------------------------------------------------------
(***************************************************************************)
(* vTaskKeypad.                                                            *)
(***************************************************************************)
KeypadAlone ==
    UNCHANGED <<xQueueRFID, xQueueAuth, rfidVars, authVars, lcdVars, log>>

NoKey ==
    /\ keypad = "scan" /\ Awake("keypad")
    /\ Sleeps("keypad", KEYPAD_POLL)
    /\ UNCHANGED <<xQueueKeypad, xQueueKeyChar, keypadVars, in_step>> /\ KeypadAlone

\* A key: it goes into pin_buf and to the display; the last one of a PIN is
\* followed by a print and the two sends below.
KeyPress(k) ==
    /\ keypad = "scan" /\ Awake("keypad")
    /\ Len(pin_buf) < PIN_LENGTH
    /\ pin_buf' = Append(pin_buf, k)
    /\ xQueueKeyChar' = Sent(xQueueKeyChar, KEY_CHAR_LEN, "key")
    /\ in_step' = (in_step /\ Len(xQueueKeyChar) < KEY_CHAR_LEN)
    /\ IF Len(pin_buf') = PIN_LENGTH
         THEN keypad' = "pin" /\ UNCHANGED wake
         ELSE Sleeps("keypad", KEYPAD_POLL) /\ UNCHANGED keypad
    /\ UNCHANGED xQueueKeypad /\ KeypadAlone

SendPin ==
    /\ keypad = "pin"
    /\ xQueueKeypad' = Sent(xQueueKeypad, QUEUE_KEYPAD_LEN, pin_buf)
    /\ keypad' = "clear"
    /\ UNCHANGED <<xQueueKeyChar, pin_buf, wake, in_step>> /\ KeypadAlone

SendClear ==
    /\ keypad = "clear"
    /\ xQueueKeyChar' = Sent(xQueueKeyChar, KEY_CHAR_LEN, Clear)
    /\ in_step' = (Len(xQueueKeyChar) < KEY_CHAR_LEN)
    /\ pin_buf' = <<>> /\ keypad' = "scan"
    /\ Sleeps("keypad", KEYPAD_POLL)
    /\ UNCHANGED xQueueKeypad /\ KeypadAlone

-----------------------------------------------------------------------------
(***************************************************************************)
(* vTaskAuth.  Nothing blocks it between its look at xQueueRFID and its    *)
(* look at xQueueKeypad, and no other task has its priority.               *)
(***************************************************************************)
AuthAlone ==
    UNCHANGED <<xQueueKeyChar, rfidVars, keypadVars, lcdVars, in_step>>

\* Mutant of AuthTakeCard: a card is received only while no PIN waits.
AuthTakeCardLast ==
    /\ auth = "idle" /\ Awake("auth")
    /\ xQueueRFID # <<>> /\ xQueueKeypad = <<>>
    /\ xQueueRFID' = Tail(xQueueRFID)
    /\ cred' = Head(xQueueRFID) /\ log_entry' = CardRecord(Head(xQueueRFID))
    /\ auth' = "card"
    /\ Sleeps("auth", AUTH_WORK)
    /\ UNCHANGED <<xQueueKeypad, xQueueAuth, log>> /\ AuthAlone

\* A card: decide, take the time, and print.
AuthTakeCard ==
    /\ auth = "idle" /\ Awake("auth")
    /\ xQueueRFID # <<>>
    /\ xQueueRFID' = Tail(xQueueRFID)
    /\ cred' = Head(xQueueRFID) /\ log_entry' = CardRecord(Head(xQueueRFID))
    /\ auth' = "card"
    /\ Sleeps("auth", AUTH_WORK)
    /\ UNCHANGED <<xQueueKeypad, xQueueAuth, log>> /\ AuthAlone

\* Mutant of AuthTakePin: the PIN overwrites a card received in the same round.
AuthTakePinOverCard ==
    /\ auth = "idle" /\ Awake("auth")
    /\ xQueueKeypad # <<>>
    /\ xQueueRFID' = IF xQueueRFID = <<>> THEN <<>> ELSE Tail(xQueueRFID)
    /\ xQueueKeypad' = Tail(xQueueKeypad)
    /\ cred' = Head(xQueueKeypad) /\ log_entry' = PinRecord(Head(xQueueKeypad))
    /\ auth' = "pin"
    /\ Sleeps("auth", AUTH_WORK)
    /\ UNCHANGED <<xQueueAuth, log>> /\ AuthAlone

\* A PIN is looked for only if there was no card.
AuthTakePin ==
    /\ auth = "idle" /\ Awake("auth")
    /\ xQueueRFID = <<>> /\ xQueueKeypad # <<>>
    /\ xQueueKeypad' = Tail(xQueueKeypad)
    /\ cred' = Head(xQueueKeypad) /\ log_entry' = PinRecord(Head(xQueueKeypad))
    /\ auth' = "pin"
    /\ Sleeps("auth", AUTH_WORK)
    /\ UNCHANGED <<xQueueRFID, xQueueAuth, log>> /\ AuthAlone

AuthNothing ==
    /\ auth = "idle" /\ Awake("auth")
    /\ xQueueRFID = <<>> /\ xQueueKeypad = <<>>
    /\ Sleeps("auth", AUTH_POLL)
    /\ UNCHANGED <<xQueueRFID, xQueueKeypad, xQueueAuth, authVars, log>> /\ AuthAlone

\* FlashLog_Write, when it succeeds: an entry that it gives up after an error
\* flag (flash_log.c:71) or that a clear_log races is FlashLog's subject.
AuthLog ==
    /\ auth \in {"card", "pin"} /\ Awake("auth")
    /\ log' = IF Len(log) < LOG_MAX_ENTRIES THEN Append(log, log_entry) ELSE <<log_entry>>
    /\ auth' = "publish"
    /\ UNCHANGED <<xQueueRFID, xQueueKeypad, xQueueAuth, cred, log_entry, wake>> /\ AuthAlone

AuthPublish ==
    /\ auth = "publish"
    /\ xQueueAuth' = Sent(xQueueAuth, QUEUE_AUTH_LEN, ResultOf(log_entry))
    /\ auth' = "idle" /\ cred' = NoCard /\ log_entry' = NoCard
    /\ Sleeps("auth", AUTH_POLL)
    /\ UNCHANGED <<xQueueRFID, xQueueKeypad, log>> /\ AuthAlone

-----------------------------------------------------------------------------
(***************************************************************************)
(* vTaskLCD.                                                               *)
(***************************************************************************)
LcdAlone ==
    UNCHANGED <<xQueueRFID, xQueueKeypad, rfidVars, keypadVars, authVars, log>>

\* The positions of q after the last Clear.
Trail(q) == {i \in DOMAIN q : \A j \in i..Len(q) : q[j] # Clear}

Capped(n) == IF n > PIN_LENGTH THEN PIN_LENGTH ELSE n

\* What star_count = n becomes once every character of q is displayed.
StarsAfter(q, n) ==
    Capped(IF Trail(q) = DOMAIN q THEN n + Len(q) ELSE Cardinality(Trail(q)))

LcdNoKey ==
    /\ lcd = "keys" /\ xQueueKeyChar = <<>>
    /\ lcd' = "result" /\ Sleeps("lcd", LCD_POLL)
    /\ UNCHANGED <<xQueueKeyChar, xQueueAuth, star_count, screen, in_step>> /\ LcdAlone

\* A star is drawn, and star_count says where the next one goes.
LcdStar ==
    /\ lcd = "keys" /\ xQueueKeyChar # <<>> /\ Head(xQueueKeyChar) # Clear
    /\ xQueueKeyChar' = Tail(xQueueKeyChar)
    /\ star_count' = Capped(star_count + 1)
    /\ lcd' = "result" /\ Sleeps("lcd", LCD_POLL)
    /\ UNCHANGED <<xQueueAuth, screen, in_step>> /\ LcdAlone

\* Mutant of LcdClear: the counter is not reset.
LcdClearKeepsCount ==
    /\ lcd = "keys" /\ xQueueKeyChar # <<>> /\ Head(xQueueKeyChar) = Clear
    /\ xQueueKeyChar' = Tail(xQueueKeyChar)
    /\ lcd' = "result" /\ Sleeps("lcd", LCD_POLL)
    /\ UNCHANGED <<xQueueAuth, star_count, screen, in_step>> /\ LcdAlone

\* 0xFF resets the counter.
LcdClear ==
    /\ lcd = "keys" /\ xQueueKeyChar # <<>> /\ Head(xQueueKeyChar) = Clear
    /\ xQueueKeyChar' = Tail(xQueueKeyChar)
    /\ star_count' = 0
    /\ lcd' = "result" /\ Sleeps("lcd", LCD_POLL)
    /\ UNCHANGED <<xQueueAuth, screen, in_step>> /\ LcdAlone

\* Mutant of LcdResult: queued keys are displayed before a result is taken.
LcdResultAfterKeys ==
    /\ lcd = "result" /\ xQueueAuth # <<>> /\ xQueueKeyChar = <<>>
    /\ xQueueAuth' = Tail(xQueueAuth)
    /\ screen' = IF Head(xQueueAuth).granted THEN "granted" ELSE "denied"
    /\ lcd' = "show" /\ Sleeps("lcd", LCD_RESULT)
    /\ UNCHANGED <<xQueueKeyChar, star_count, in_step>> /\ LcdAlone

\* The receive on xQueueAuth returns as soon as there is a result.
LcdResult ==
    /\ lcd = "result" /\ xQueueAuth # <<>>
    /\ xQueueAuth' = Tail(xQueueAuth)
    /\ screen' = IF Head(xQueueAuth).granted THEN "granted" ELSE "denied"
    /\ lcd' = "show" /\ Sleeps("lcd", LCD_RESULT)
    /\ UNCHANGED <<xQueueKeyChar, star_count, in_step>> /\ LcdAlone

LcdTimeout ==
    /\ lcd = "result" /\ xQueueAuth = <<>> /\ Awake("lcd")
    /\ lcd' = "keys"
    /\ UNCHANGED <<xQueueKeyChar, xQueueAuth, star_count, screen, wake, in_step>>
    /\ LcdAlone

LcdIdle ==
    /\ lcd = "show" /\ Awake("lcd")
    /\ star_count' = 0 /\ screen' = "idle"
    /\ in_step' = (in_step /\ StarsAfter(xQueueKeyChar, 0) = StarsAfter(xQueueKeyChar, star_count))
    /\ lcd' = "keys"
    /\ UNCHANGED <<xQueueKeyChar, xQueueAuth, wake>> /\ LcdAlone

-----------------------------------------------------------------------------
\* cmd_clear_log of the CLI, with no FlashLog_Write on the way.
CliClear ==
    /\ log' = <<>>
    /\ UNCHANGED <<queues, rfidVars, keypadVars, authVars, lcdVars, wake, in_step>>

\* The log as FlashLog_Init leaves it: with a full page it is erased.
FlashLog_Init == IF Len(log) < LOG_MAX_ENTRIES THEN log ELSE <<>>

\* A reset: RAM is gone and main runs again, FlashLog_Init among the rest.
Reset ==
    /\ xQueueRFID' = <<>> /\ xQueueKeypad' = <<>>
    /\ xQueueAuth' = <<>> /\ xQueueKeyChar' = <<>>
    /\ rfid' = "poll" /\ card' = NoCard /\ last_card' = NoCard
    /\ first' = TRUE /\ since' = 0
    /\ keypad' = "scan" /\ pin_buf' = <<>>
    /\ auth' = "idle" /\ cred' = NoCard /\ log_entry' = NoCard
    /\ lcd' = "keys" /\ star_count' = 0 /\ screen' = "idle"
    /\ wake' = [t \in Tasks |-> 0]
    /\ in_step' = TRUE
    /\ log' = FlashLog_Init

Blocked ==
    /\ rfid = "poll" /\ keypad = "scan" /\ auth # "publish" /\ lcd # "keys"
    /\ \A t \in Tasks : wake[t] > 0
    /\ lcd = "result" => xQueueAuth = <<>>

\* The SysTick interrupt, while every task is blocked.
Tick ==
    /\ Blocked
    /\ wake' = [t \in Tasks |-> wake[t] - 1]
    /\ since' = IF first \/ since = CARD_COOLDOWN THEN since ELSE since + 1
    /\ UNCHANGED <<queues, rfid, card, last_card, first, keypadVars, authVars, lcdVars, log,
                   in_step>>

RfidStep   == RfidNothing \/ (\E c \in Cards : RfidAccept(c) \/ RfidSkip(c)) \/ RfidSend
KeypadStep == NoKey \/ (\E k \in Keys : KeyPress(k)) \/ SendPin \/ SendClear
AuthStep   == AuthTakeCard \/ AuthTakePin \/ AuthNothing \/ AuthLog \/ AuthPublish
LcdStep    == LcdNoKey \/ LcdStar \/ LcdClear \/ LcdResult \/ LcdTimeout \/ LcdIdle

Next == RfidStep \/ KeypadStep \/ AuthStep \/ LcdStep \/ CliClear \/ Reset \/ Tick

Spec == Init /\ [][Next]_vars

\* Every task that is ready runs in the end, and time goes on: the kernel
\* time-slices the tasks of priority 2, and vTaskAuth sleeps AUTH_POLL in
\* every loop, so it does not keep the processor.
FairSpec ==
    /\ Spec
    /\ WF_vars(RfidStep) /\ WF_vars(KeypadStep) /\ WF_vars(AuthStep) /\ WF_vars(LcdStep)
    /\ WF_vars(Tick)

-----------------------------------------------------------------------------
(***************************************************************************)
(* Properties.                                                             *)
(***************************************************************************)
\* task_rfid.c:86, "only send if queue has space - prevents silent drops": the
\* space seen before the UID was printed is still there when it is sent,
\* because nobody else sends to xQueueRFID.
NoSilentDrop == rfid = "send" => Len(xQueueRFID) < QUEUE_RFID_LEN

\* The display follows the keypad: once the queued characters are displayed,
\* star_count is the number of digits typed.  The two part only when a
\* character is dropped or a result hides the stars, and the end of the next
\* PIN brings them together again.
DisplayFollowsKeypad ==
    in_step => StarsAfter(xQueueKeyChar, star_count)
                 = IF keypad = "scan" THEN Len(pin_buf) ELSE PIN_LENGTH

\* app_config.h:18: with the cooldown between cards xQueueRFID never fills up,
\* so vTaskRFID never skips a card for want of space.
CooldownPreventsOverflow == Len(xQueueRFID) < QUEUE_RFID_LEN

\* vTaskAuth looks at xQueueKeypad only when xQueueRFID is empty, and still
\* no stream of cards keeps a PIN waiting for ever (a reset empties the queue).
PinDecided == xQueueKeypad # <<>> ~> auth = "pin" \/ xQueueKeypad = <<>>

\* A queued card is decided.
CardDecided == xQueueRFID # <<>> ~> auth = "card" \/ xQueueRFID = <<>>

\* A queued result reaches the display, however many keys are typed.
ResultShown == xQueueAuth # <<>> ~> lcd = "show" \/ xQueueAuth = <<>>

(***************************************************************************)
(* The four tasks implement AccessControl.  A card or PIN counts as        *)
(* accepted from the send to the write of its record, and as a pending     *)
(* result from that write until the display takes it.                      *)
(***************************************************************************)
accepted_cards == (IF auth = "card" THEN <<cred>> ELSE <<>>) \o xQueueRFID
accepted_pins  == (IF auth = "pin" THEN <<cred>> ELSE <<>>) \o xQueueKeypad
pending_results ==
    xQueueAuth \o (IF auth = "publish" THEN <<ResultOf(log_entry)>> ELSE <<>>)

Abstract == INSTANCE AccessControl WITH
    CorrectPin <- CORRECT_PIN, LogLen <- LOG_MAX_ENTRIES, MaxPending <- QUEUE_AUTH_LEN,
    cards <- accepted_cards, pins <- accepted_pins, results <- pending_results

\* Every accepted credential is decided once, in order, by its UID or digits,
\* recorded before its result can be seen, and its result shown in order.
ImplementsAccessControl == Abstract!Spec
=============================================================================
