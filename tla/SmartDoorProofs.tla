-------------------------- MODULE SmartDoorProofs --------------------------
(***************************************************************************)
(* Proofs about SmartDoor, for every set of cards and keys, every PIN and  *)
(* queue length, every capacity of the log and every choice of the delays. *)
(***************************************************************************)
EXTENDS SmartDoor, SequenceTheorems, FiniteSetTheorems, TLAPS

(***************************************************************************)
(* What the queue operations keep.                                         *)
(***************************************************************************)
LEMMA SentType ==
    ASSUME NEW S, NEW q \in Seq(S), NEW len \in Nat, Len(q) <= len, NEW x \in S
    PROVE  Sent(q, len, x) \in Seq(S) /\ Len(Sent(q, len, x)) <= len
<1>1. Len(q) \in Nat
  BY LenProperties
<1>2. Append(q, x) \in Seq(S) /\ Len(Append(q, x)) = Len(q) + 1
  BY AppendProperties
<1> QED BY <1>1, <1>2 DEF Sent

LEMMA TailType ==
    ASSUME NEW S, NEW q \in Seq(S), NEW len \in Nat, Len(q) <= len, q # <<>>
    PROVE  Head(q) \in S /\ Tail(q) \in Seq(S) /\ Len(Tail(q)) <= len
<1>1. Len(q) \in Nat
  BY LenProperties
<1> QED BY <1>1, HeadTailProperties

LEMMA EmptyType ==
    ASSUME NEW S, NEW len \in Nat
    PROVE  <<>> \in Seq(S) /\ Len(<<>>) <= len
BY EmptySeq

LEMMA Lengths ==
    /\ QUEUE_RFID_LEN \in Nat /\ QUEUE_KEYPAD_LEN \in Nat /\ QUEUE_AUTH_LEN \in Nat
    /\ KEY_CHAR_LEN \in Nat /\ PIN_LENGTH \in Nat \ {0} /\ LOG_MAX_ENTRIES \in Nat \ {0}
BY SmartDoorAssumption DEF KEY_CHAR_LEN

LEMMA Delays ==
    /\ RFID_POLL \in Nat /\ KEYPAD_POLL \in Nat /\ AUTH_POLL \in Nat /\ LCD_POLL \in Nat
    /\ AUTH_WORK \in Nat /\ LCD_RESULT \in Nat /\ CARD_COOLDOWN \in Nat
BY SmartDoorAssumption

LEMMA CardEntry == ASSUME NEW c \in Cards PROVE CardRecord(c) \in Entries
BY DEF Entries

LEMMA PinEntry == ASSUME NEW p \in Pins PROVE PinRecord(p) \in Entries
BY DEF Entries

LEMMA EntryResult == ASSUME NEW r \in Entries PROVE ResultOf(r) \in Results
BY DEF Results

LEMMA AuthEntry == AuthOK /\ auth # "idle" => log_entry \in Entries
BY CardEntry, PinEntry DEF AuthOK

(***************************************************************************)
(* Type correctness, one part of the state at a time.                      *)
(***************************************************************************)
LEMMA InitTypeOK == Init => TypeOK
<1> SUFFICES ASSUME Init PROVE TypeOK
  OBVIOUS
<1>1. QueuesOK
  BY EmptyType, Lengths DEF Init, QueuesOK
<1>2. RfidOK
  BY Delays DEF Init, RfidOK
<1>3. KeypadOK
  BY EmptySeq, Lengths DEF Init, KeypadOK
<1>4. AuthOK /\ LcdOK
  BY Lengths DEF Init, AuthOK, LcdOK
<1>5. log \in Seq(Entries) /\ Len(log) <= LOG_MAX_ENTRIES
  BY EmptyType, Lengths DEF Init
<1>6. wake \in [Tasks -> Nat]
  BY DEF Init
<1>7. first \in BOOLEAN /\ in_step \in BOOLEAN
  BY Zenon DEF Init
<1> QED BY <1>1, <1>2, <1>3, <1>4, <1>5, <1>6, <1>7 DEF TypeOK

LEMMA QueuesStep == TypeOK /\ [Next]_vars => QueuesOK'
<1> SUFFICES ASSUME TypeOK, [Next]_vars PROVE QueuesOK'
  OBVIOUS
<1>t. QueuesOK /\ RfidOK /\ KeypadOK /\ AuthOK
  BY DEF TypeOK
<1> USE Lengths DEF QueuesOK
<1>1. ASSUME RfidStep PROVE QueuesOK'
  <2>1. CASE RfidSend
    BY <1>t, <2>1, SentType DEF RfidSend, RfidAlone, RfidOK
  <2>2. CASE RfidNothing
    BY <1>t, <2>2 DEF RfidNothing, RfidAlone
  <2>3. ASSUME NEW c \in Cards, RfidAccept(c) \/ RfidSkip(c) PROVE QueuesOK'
    BY <1>t, <2>3 DEF RfidAccept, RfidSkip, RfidAlone
  <2> QED BY <1>1, <2>1, <2>2, <2>3 DEF RfidStep
<1>2. ASSUME KeypadStep PROVE QueuesOK'
  <2>1. CASE NoKey
    BY <1>t, <2>1 DEF NoKey, KeypadAlone
  <2>2. ASSUME NEW k \in Keys, KeyPress(k) PROVE QueuesOK'
    BY <1>t, <2>2, SentType DEF KeyPress, KeypadAlone, KeyChars
  <2>3. CASE SendPin
    BY <1>t, <2>3, SentType DEF SendPin, KeypadAlone, KeypadOK
  <2>4. CASE SendClear
    BY <1>t, <2>4, SentType DEF SendClear, KeypadAlone, KeyChars
  <2> QED BY <1>2, <2>1, <2>2, <2>3, <2>4 DEF KeypadStep
<1>3. ASSUME AuthStep PROVE QueuesOK'
  <2>1. CASE AuthTakeCard
    BY <1>t, <2>1, TailType DEF AuthTakeCard, AuthAlone
  <2>2. CASE AuthTakePin
    BY <1>t, <2>2, TailType DEF AuthTakePin, AuthAlone
  <2>3. CASE AuthNothing \/ AuthLog
    BY <1>t, <2>3 DEF AuthNothing, AuthLog, AuthAlone
  <2>4. CASE AuthPublish
    BY <1>t, <2>4, SentType, AuthEntry, EntryResult DEF AuthPublish, AuthAlone
  <2> QED BY <1>3, <2>1, <2>2, <2>3, <2>4 DEF AuthStep
<1>4. ASSUME LcdStep PROVE QueuesOK'
  <2>1. CASE LcdStar \/ LcdClear
    BY <1>t, <2>1, TailType DEF LcdStar, LcdClear, LcdAlone
  <2>2. CASE LcdResult
    BY <1>t, <2>2, TailType DEF LcdResult, LcdAlone
  <2>3. CASE LcdNoKey \/ LcdTimeout \/ LcdIdle
    BY <1>t, <2>3 DEF LcdNoKey, LcdTimeout, LcdIdle, LcdAlone
  <2> QED BY <1>4, <2>1, <2>2, <2>3 DEF LcdStep
<1>5. CASE Reset
  BY <1>5, EmptyType DEF Reset
<1>6. CASE CliClear \/ Tick \/ UNCHANGED vars
  BY <1>t, <1>6 DEF CliClear, Tick, vars, queues
<1> QED BY <1>1, <1>2, <1>3, <1>4, <1>5, <1>6 DEF Next

LEMMA RfidStepOK == TypeOK /\ [Next]_vars => RfidOK'
<1> SUFFICES ASSUME TypeOK, [Next]_vars PROVE RfidOK'
  OBVIOUS
<1>t. RfidOK
  BY DEF TypeOK
<1> USE Delays DEF RfidOK
<1>1. ASSUME NEW c \in Cards, RfidAccept(c) \/ RfidSkip(c) PROVE RfidOK'
  BY <1>t, <1>1 DEF RfidAccept, RfidSkip
<1>2. CASE RfidNothing
  BY <1>t, <1>2 DEF RfidNothing, rfidVars
<1>3. CASE RfidSend
  BY <1>t, <1>3 DEF RfidSend
<1>4. CASE KeypadStep
  BY <1>t, <1>4 DEF KeypadStep, NoKey, KeyPress, SendPin, SendClear, KeypadAlone, rfidVars
<1>5. CASE AuthStep
  BY <1>t, <1>5 DEF AuthStep, AuthTakeCard, AuthTakePin, AuthNothing, AuthLog, AuthPublish,
                    AuthAlone, rfidVars
<1>6. CASE LcdStep
  BY <1>t, <1>6 DEF LcdStep, LcdNoKey, LcdStar, LcdClear, LcdResult, LcdTimeout, LcdIdle,
                    LcdAlone, rfidVars
<1>7. CASE Reset
  BY <1>7 DEF Reset
<1>8. CASE Tick
  <2>1. since' \in 0..CARD_COOLDOWN
    <3>1. since' = since \/ (since # CARD_COOLDOWN /\ since' = since + 1)
      BY <1>8 DEF Tick
    <3> QED BY <1>t, <3>1
  <2> QED BY <1>t, <1>8, <2>1 DEF Tick
<1>9. CASE CliClear \/ UNCHANGED vars
  BY <1>t, <1>9 DEF CliClear, vars, rfidVars
<1> QED BY <1>1, <1>2, <1>3, <1>4, <1>5, <1>6, <1>7, <1>8, <1>9 DEF Next, RfidStep

LEMMA KeypadStepOK == TypeOK /\ [Next]_vars => KeypadOK'
<1> SUFFICES ASSUME TypeOK, [Next]_vars PROVE KeypadOK'
  OBVIOUS
<1>t. KeypadOK
  BY DEF TypeOK
<1> USE Lengths DEF KeypadOK
<1>1. ASSUME NEW k \in Keys, KeyPress(k) PROVE KeypadOK'
  <2>1. keypad = "scan" /\ Len(pin_buf) < PIN_LENGTH /\ pin_buf' = Append(pin_buf, k)
    BY <1>1 DEF KeyPress
  <2>2. Len(pin_buf) \in Nat
    BY <1>t, LenProperties
  <2>3. pin_buf' \in Seq(Keys) /\ Len(pin_buf') = Len(pin_buf) + 1
    BY <1>t, <2>1, AppendProperties
  <2>4. CASE Len(pin_buf') = PIN_LENGTH
    <3>1. pin_buf' \in Pins
      BY <2>3, <2>4, LenProperties DEF Pins
    <3>2. keypad' = "pin"
      BY <1>1, <2>4 DEF KeyPress
    <3> QED BY <2>3, <3>1, <3>2
  <2>5. CASE Len(pin_buf') # PIN_LENGTH
    <3>1. keypad' = "scan"
      BY <1>1, <2>1, <2>5 DEF KeyPress
    <3> QED BY <2>1, <2>2, <2>3, <2>5, <3>1
  <2> QED BY <2>4, <2>5
<1>2. CASE NoKey \/ SendPin
  BY <1>t, <1>2 DEF NoKey, SendPin, keypadVars
<1>3. CASE SendClear
  BY <1>3, EmptySeq DEF SendClear
<1>4. CASE RfidStep
  BY <1>t, <1>4 DEF RfidStep, RfidNothing, RfidAccept, RfidSkip, RfidSend, RfidAlone, keypadVars
<1>5. CASE AuthStep
  BY <1>t, <1>5 DEF AuthStep, AuthTakeCard, AuthTakePin, AuthNothing, AuthLog, AuthPublish,
                    AuthAlone, keypadVars
<1>6. CASE LcdStep
  BY <1>t, <1>6 DEF LcdStep, LcdNoKey, LcdStar, LcdClear, LcdResult, LcdTimeout, LcdIdle,
                    LcdAlone, keypadVars
<1>7. CASE Reset
  BY <1>7, EmptySeq DEF Reset
<1>8. CASE CliClear \/ Tick \/ UNCHANGED vars
  BY <1>t, <1>8 DEF CliClear, Tick, vars, keypadVars
<1> QED BY <1>1, <1>2, <1>3, <1>4, <1>5, <1>6, <1>7, <1>8 DEF Next, KeypadStep

LEMMA AuthStepOK == TypeOK /\ [Next]_vars => AuthOK'
<1> SUFFICES ASSUME TypeOK, [Next]_vars PROVE AuthOK'
  OBVIOUS
<1>t. QueuesOK /\ AuthOK
  BY DEF TypeOK
<1> USE DEF AuthOK
<1>1. CASE AuthTakeCard
  BY <1>t, <1>1, HeadTailProperties DEF AuthTakeCard, QueuesOK
<1>2. CASE AuthTakePin
  BY <1>t, <1>2, HeadTailProperties DEF AuthTakePin, QueuesOK
<1>3. CASE AuthNothing
  BY <1>t, <1>3 DEF AuthNothing, authVars
<1>4. CASE AuthLog
  BY <1>t, <1>4, AuthEntry DEF AuthLog
<1>5. CASE AuthPublish
  BY <1>5 DEF AuthPublish
<1>6. CASE RfidStep
  BY <1>t, <1>6 DEF RfidStep, RfidNothing, RfidAccept, RfidSkip, RfidSend, RfidAlone, authVars
<1>7. CASE KeypadStep
  BY <1>t, <1>7 DEF KeypadStep, NoKey, KeyPress, SendPin, SendClear, KeypadAlone, authVars
<1>8. CASE LcdStep
  BY <1>t, <1>8 DEF LcdStep, LcdNoKey, LcdStar, LcdClear, LcdResult, LcdTimeout, LcdIdle,
                    LcdAlone, authVars
<1>9. CASE Reset
  BY <1>9 DEF Reset
<1>10. CASE CliClear \/ Tick \/ UNCHANGED vars
  BY <1>t, <1>10 DEF CliClear, Tick, vars, authVars
<1> QED
  BY <1>1, <1>2, <1>3, <1>4, <1>5, <1>6, <1>7, <1>8, <1>9, <1>10 DEF Next, AuthStep

LEMMA LcdStepOK == TypeOK /\ [Next]_vars => LcdOK'
<1> SUFFICES ASSUME TypeOK, [Next]_vars PROVE LcdOK'
  OBVIOUS
<1>t. LcdOK
  BY DEF TypeOK
<1> USE Lengths DEF LcdOK
<1>1. CASE LcdStar
  BY <1>t, <1>1 DEF LcdStar, Capped
<1>2. CASE LcdClear \/ LcdResult \/ LcdIdle
  BY <1>t, <1>2 DEF LcdClear, LcdResult, LcdIdle
<1>3. CASE LcdNoKey \/ LcdTimeout
  BY <1>t, <1>3 DEF LcdNoKey, LcdTimeout
<1>4. CASE RfidStep
  BY <1>t, <1>4 DEF RfidStep, RfidNothing, RfidAccept, RfidSkip, RfidSend, RfidAlone, lcdVars
<1>5. CASE KeypadStep
  BY <1>t, <1>5 DEF KeypadStep, NoKey, KeyPress, SendPin, SendClear, KeypadAlone, lcdVars
<1>6. CASE AuthStep
  BY <1>t, <1>6 DEF AuthStep, AuthTakeCard, AuthTakePin, AuthNothing, AuthLog, AuthPublish,
                    AuthAlone, lcdVars
<1>7. CASE Reset
  BY <1>7 DEF Reset
<1>8. CASE CliClear \/ Tick \/ UNCHANGED vars
  BY <1>t, <1>8 DEF CliClear, Tick, vars, lcdVars
<1> QED BY <1>1, <1>2, <1>3, <1>4, <1>5, <1>6, <1>7, <1>8 DEF Next, LcdStep

LEMMA WakeStep == TypeOK /\ [Next]_vars => (wake \in [Tasks -> Nat])'
<1> SUFFICES ASSUME TypeOK, [Next]_vars PROVE wake' \in [Tasks -> Nat]
  OBVIOUS
<1>t. wake \in [Tasks -> Nat]
  BY DEF TypeOK
<1>a. ASSUME NEW t, NEW n \in Nat, Sleeps(t, n) PROVE wake' \in [Tasks -> Nat]
  BY <1>t, <1>a DEF Sleeps
<1>1. CASE RfidStep
  BY <1>t, <1>a, <1>1, Delays
  DEF RfidStep, RfidNothing, RfidAccept, RfidSkip, RfidSend
<1>2. CASE KeypadStep
  BY <1>t, <1>a, <1>2, Delays DEF KeypadStep, NoKey, KeyPress, SendPin, SendClear
<1>3. CASE AuthStep
  BY <1>t, <1>a, <1>3, Delays
  DEF AuthStep, AuthTakeCard, AuthTakePin, AuthNothing, AuthLog, AuthPublish
<1>4. CASE LcdStep
  BY <1>t, <1>a, <1>4, Delays
  DEF LcdStep, LcdNoKey, LcdStar, LcdClear, LcdResult, LcdTimeout, LcdIdle
<1>5. CASE Reset
  BY <1>5 DEF Reset
<1>6. CASE Tick
  <2>1. \A t \in Tasks : wake[t] - 1 \in Nat
    BY <1>t, <1>6 DEF Tick, Blocked
  <2> QED BY <1>6, <2>1 DEF Tick
<1>7. CASE CliClear \/ UNCHANGED vars
  BY <1>t, <1>7 DEF CliClear, vars
<1> QED BY <1>1, <1>2, <1>3, <1>4, <1>5, <1>6, <1>7 DEF Next

LEMMA LogStep ==
    TypeOK /\ [Next]_vars => (log \in Seq(Entries) /\ Len(log) <= LOG_MAX_ENTRIES)'
<1> SUFFICES ASSUME TypeOK, [Next]_vars
             PROVE  log' \in Seq(Entries) /\ Len(log') <= LOG_MAX_ENTRIES
  OBVIOUS
<1>t. log \in Seq(Entries) /\ Len(log) <= LOG_MAX_ENTRIES /\ AuthOK
  BY DEF TypeOK
<1>1. CASE AuthLog
  <2>1. log_entry \in Entries
    BY <1>t, <1>1, AuthEntry DEF AuthLog
  <2>2. CASE Len(log) < LOG_MAX_ENTRIES
    BY <1>t, <1>1, <2>1, <2>2, SentType, Lengths DEF AuthLog, Sent
  <2>3. CASE ~(Len(log) < LOG_MAX_ENTRIES)
    BY <1>1, <2>1, <2>3, Lengths DEF AuthLog
  <2> QED BY <2>2, <2>3
<1>2. CASE CliClear
  BY <1>2, EmptyType, Lengths DEF CliClear
<1>3. CASE AuthTakeCard \/ AuthTakePin \/ AuthNothing \/ AuthPublish
  BY <1>t, <1>3 DEF AuthTakeCard, AuthTakePin, AuthNothing, AuthPublish
<1>4. CASE RfidStep
  BY <1>t, <1>4 DEF RfidStep, RfidNothing, RfidAccept, RfidSkip, RfidSend, RfidAlone
<1>5. CASE KeypadStep
  BY <1>t, <1>5 DEF KeypadStep, NoKey, KeyPress, SendPin, SendClear, KeypadAlone
<1>6. CASE LcdStep
  BY <1>t, <1>6 DEF LcdStep, LcdNoKey, LcdStar, LcdClear, LcdResult, LcdTimeout, LcdIdle,
                    LcdAlone
<1>7. CASE Reset
  BY <1>t, <1>7, EmptyType, Lengths DEF Reset, FlashLog_Init
<1>8. CASE Tick \/ UNCHANGED vars
  BY <1>t, <1>8 DEF Tick, vars
<1> QED BY <1>1, <1>2, <1>3, <1>4, <1>5, <1>6, <1>7, <1>8 DEF Next, AuthStep

LEMMA BooleansStep == TypeOK /\ [Next]_vars => (first \in BOOLEAN /\ in_step \in BOOLEAN)'
<1> SUFFICES ASSUME TypeOK, [Next]_vars PROVE first' \in BOOLEAN /\ in_step' \in BOOLEAN
  OBVIOUS
<1>t. first \in BOOLEAN /\ in_step \in BOOLEAN
  BY DEF TypeOK
<1>1. CASE RfidStep
  BY <1>t, <1>1, Zenon
  DEF RfidStep, RfidNothing, RfidAccept, RfidSkip, RfidSend, RfidAlone, rfidVars
<1>2. CASE KeypadStep
  <2>1. first' = first
    BY <1>2, Zenon DEF KeypadStep, NoKey, KeyPress, SendPin, SendClear, KeypadAlone, rfidVars
  <2> DEFINE fits == Len(xQueueKeyChar) < KEY_CHAR_LEN
  <2>2. in_step' = in_step \/ in_step' = (in_step /\ fits) \/ in_step' = fits
    BY <1>2, Zenon DEF KeypadStep, NoKey, KeyPress, SendPin, SendClear
  <2>3. fits \in BOOLEAN
    OBVIOUS
  <2> HIDE DEF fits
  <2> QED BY <1>t, <2>1, <2>2, <2>3, Zenon
<1>3. CASE AuthStep
  BY <1>t, <1>3, Zenon
  DEF AuthStep, AuthTakeCard, AuthTakePin, AuthNothing, AuthLog, AuthPublish, AuthAlone,
      rfidVars
<1>4. CASE LcdStep
  <2>1. first' = first
    BY <1>4, Zenon DEF LcdStep, LcdNoKey, LcdStar, LcdClear, LcdResult, LcdTimeout, LcdIdle,
                       LcdAlone, rfidVars
  <2>2. \/ in_step' = in_step
        \/ in_step' = (in_step /\ StarsAfter(xQueueKeyChar, 0)
                                    = StarsAfter(xQueueKeyChar, star_count))
    BY <1>4, Zenon DEF LcdStep, LcdNoKey, LcdStar, LcdClear, LcdResult, LcdTimeout, LcdIdle
  <2> QED BY <1>t, <2>1, <2>2, Zenon
<1>5. CASE CliClear \/ Reset \/ Tick \/ UNCHANGED vars
  BY <1>t, <1>5, Zenon DEF CliClear, Reset, Tick, vars, rfidVars
<1> QED BY <1>1, <1>2, <1>3, <1>4, <1>5, Zenon DEF Next

\* Every queue keeps to its length, a PIN has PIN_LENGTH keys before it is
\* sent, the entry vTaskAuth writes is the decision on what it received, and
\* the stars stay on the 16 columns of the display (src/Src/task_lcd.c:57).
THEOREM TypeCorrect == Spec => []TypeOK
<1>1. TypeOK /\ [Next]_vars => TypeOK'
  <2>1. TypeOK' <=> /\ QueuesOK' /\ RfidOK' /\ KeypadOK' /\ AuthOK' /\ LcdOK'
                    /\ (wake \in [Tasks -> Nat])'
                    /\ (log \in Seq(Entries) /\ Len(log) <= LOG_MAX_ENTRIES)'
                    /\ (first \in BOOLEAN /\ in_step \in BOOLEAN)'
    BY Zenon DEF TypeOK
  <2> QED
    BY <2>1, QueuesStep, RfidStepOK, KeypadStepOK, AuthStepOK, LcdStepOK, WakeStep, LogStep,
       BooleansStep, Zenon
<1> QED BY <1>1, InitTypeOK, PTL DEF Spec

(***************************************************************************)
(* The space that vTaskRFID saw is still there when it sends.              *)
(***************************************************************************)
\* No other task sends to xQueueRFID between the check of uxQueueSpacesAvailable
\* and the send, so the card that was announced as detected is queued.
THEOREM NoCardDropped == Spec => []NoSilentDrop
<1>1. Init => NoSilentDrop
  BY DEF Init, NoSilentDrop
<1>2. TypeOK /\ NoSilentDrop /\ [Next]_vars => NoSilentDrop'
  <2> SUFFICES ASSUME TypeOK, NoSilentDrop, [Next]_vars PROVE NoSilentDrop'
    OBVIOUS
  <2>t. xQueueRFID \in Seq(Cards)
    BY DEF TypeOK, QueuesOK
  <2> USE DEF NoSilentDrop
  <2>1. CASE RfidStep
    BY <2>1 DEF RfidStep, RfidNothing, RfidAccept, RfidSkip, RfidSend, rfidVars
  <2>2. CASE KeypadStep
    BY <2>2 DEF KeypadStep, NoKey, KeyPress, SendPin, SendClear, KeypadAlone, rfidVars
  <2>3. CASE AuthTakeCard
    <3>1. Len(xQueueRFID') <= Len(xQueueRFID) /\ Len(xQueueRFID') \in Nat
      BY <2>t, <2>3, HeadTailProperties, LenProperties DEF AuthTakeCard
    <3>2. rfid' = rfid
      BY <2>3 DEF AuthTakeCard, AuthAlone, rfidVars
    <3> QED BY <2>t, <3>1, <3>2, LenProperties, Lengths
  <2>4. CASE AuthTakePin \/ AuthNothing \/ AuthLog \/ AuthPublish
    BY <2>4 DEF AuthTakePin, AuthNothing, AuthLog, AuthPublish, AuthAlone, rfidVars
  <2>5. CASE LcdStep
    BY <2>5 DEF LcdStep, LcdNoKey, LcdStar, LcdClear, LcdResult, LcdTimeout, LcdIdle,
                LcdAlone, rfidVars
  <2>6. CASE CliClear \/ Reset \/ Tick \/ UNCHANGED vars
    BY <2>6 DEF CliClear, Reset, Tick, vars, queues, rfidVars
  <2> QED BY <2>1, <2>2, <2>3, <2>4, <2>5, <2>6 DEF Next, AuthStep
<1> QED BY <1>1, <1>2, TypeCorrect, PTL DEF Spec

(***************************************************************************)
(* The display follows the keypad.                                         *)
(***************************************************************************)
LEMMA TrailFinite ==
    ASSUME NEW q \in Seq(KeyChars)
    PROVE  /\ Trail(q) \subseteq 1..Len(q) /\ DOMAIN q = 1..Len(q)
           /\ IsFiniteSet(Trail(q)) /\ Cardinality(Trail(q)) \in Nat
           /\ Cardinality(1..Len(q)) = Len(q)
<1>1. DOMAIN q = 1..Len(q) /\ Len(q) \in Nat
  BY LenProperties
<1>2. Trail(q) \in SUBSET (1..Len(q))
  BY <1>1 DEF Trail
<1>3. IsFiniteSet(1..Len(q)) /\ Cardinality(1..Len(q)) = Len(q)
  BY <1>1, FS_Interval
<1>4. IsFiniteSet(Trail(q))
  BY <1>2, <1>3, FS_Subset
<1> QED BY <1>1, <1>2, <1>3, <1>4, FS_CardinalityType

LEMMA StarsEmpty == StarsAfter(<<>>, 0) = 0
<1>1. Trail(<<>>) = {} /\ DOMAIN <<>> = {} /\ Len(<<>>) = 0
  BY EmptySeq DEF Trail
<1> QED BY <1>1, Lengths DEF StarsAfter, Capped

\* A key at the end adds a star, 0xFF at the end removes all of them.
LEMMA StarsAppend ==
    ASSUME NEW q \in Seq(KeyChars), NEW n \in Nat
    PROVE  /\ StarsAfter(Append(q, "key"), n) = Capped(StarsAfter(q, n) + 1)
           /\ StarsAfter(Append(q, Clear), n) = 0
<1> USE Lengths
<1>1. Len(q) \in Nat /\ DOMAIN q = 1..Len(q)
  BY LenProperties
<1>2. ASSUME NEW x \in KeyChars
      PROVE  /\ Append(q, x) \in Seq(KeyChars) /\ Len(Append(q, x)) = Len(q) + 1
             /\ DOMAIN Append(q, x) = 1 .. Len(q)+1
             /\ \A i \in 1..Len(q) : Append(q, x)[i] = q[i]
             /\ Append(q, x)[Len(q)+1] = x
  BY <1>1, AppendProperties, LenProperties
<1>3. Clear \in KeyChars /\ "key" \in KeyChars /\ "key" # Clear
  BY DEF KeyChars, Clear
<1>4. StarsAfter(Append(q, "key"), n) = Capped(StarsAfter(q, n) + 1)
  <2> DEFINE r == Append(q, "key")
  <2>1. /\ Len(r) = Len(q) + 1 /\ DOMAIN r = 1 .. Len(q)+1
        /\ \A i \in 1..Len(q) : r[i] = q[i]
        /\ r[Len(q)+1] # Clear
    BY <1>2, <1>3
  <2> HIDE DEF r
  <2>2. Trail(r) = Trail(q) \cup {Len(q)+1}
    <3>1. ASSUME NEW i \in 1 .. Len(q)+1
          PROVE  i \in Trail(r) <=> i \in Trail(q) \/ i = Len(q)+1
      BY <1>1, <2>1 DEF Trail
    <3>2. Trail(r) \subseteq 1 .. Len(q)+1 /\ Trail(q) \subseteq 1 .. Len(q)+1
      BY <1>1, <2>1 DEF Trail
    <3> QED BY <1>1, <3>1, <3>2
  <2>3. Len(q)+1 \notin Trail(q)
    BY <1>1 DEF Trail
  <2>4. Cardinality(Trail(r)) = Cardinality(Trail(q)) + 1
    BY <2>2, <2>3, TrailFinite, FS_AddElement
  <2>5. Trail(r) = DOMAIN r <=> Trail(q) = DOMAIN q
    <3>1. Trail(q) \subseteq 1..Len(q) /\ 1 .. Len(q)+1 = (1..Len(q)) \cup {Len(q)+1}
      BY <1>1, TrailFinite
    <3>2. ASSUME Trail(r) = DOMAIN r PROVE Trail(q) = DOMAIN q
      <4>1. \A i \in 1..Len(q) : i \in Trail(r) /\ i # Len(q)+1
        BY <1>1, <2>1, <3>2
      <4> QED BY <1>1, <2>2, <3>1, <4>1
    <3> QED BY <1>1, <2>1, <2>2, <3>1, <3>2
  <2>6. Cardinality(Trail(q)) \in Nat
    BY TrailFinite
  <2>7. StarsAfter(r, n) = Capped(StarsAfter(q, n) + 1)
    <3>1. CASE Trail(q) = DOMAIN q
      BY <1>1, <2>1, <2>5, <3>1 DEF StarsAfter, Capped
    <3>2. CASE Trail(q) # DOMAIN q
      BY <1>1, <2>4, <2>5, <2>6, <3>2 DEF StarsAfter, Capped
    <3> QED BY <3>1, <3>2
  <2> QED BY <2>7 DEF r
<1>5. StarsAfter(Append(q, Clear), n) = 0
  <2> DEFINE r == Append(q, Clear)
  <2>1. Len(r) = Len(q) + 1 /\ DOMAIN r = 1 .. Len(q)+1 /\ r[Len(q)+1] = Clear
    BY <1>2, <1>3
  <2> HIDE DEF r
  <2>2. Trail(r) = {}
    BY <1>1, <2>1 DEF Trail
  <2>3. DOMAIN r # {}
    BY <1>1, <2>1
  <2>4. StarsAfter(r, n) = 0
    BY <2>2, <2>3, FS_EmptySet DEF StarsAfter, Capped
  <2> QED BY <2>4 DEF r
<1> QED BY <1>4, <1>5

\* Displaying the first character changes nothing in the end.
LEMMA StarsTail ==
    ASSUME NEW q \in Seq(KeyChars), q # <<>>, NEW n \in Nat
    PROVE  /\ Head(q) # Clear => StarsAfter(Tail(q), Capped(n + 1)) = StarsAfter(q, n)
           /\ Head(q) = Clear => StarsAfter(Tail(q), 0) = StarsAfter(q, n)
<1> USE Lengths
<1> DEFINE r == Tail(q)
<1>1. /\ Len(q) \in Nat \ {0} /\ DOMAIN q = 1..Len(q) /\ Head(q) = q[1]
      /\ r \in Seq(KeyChars) /\ Len(r) = Len(q) - 1 /\ DOMAIN r = 1 .. Len(q)-1
      /\ \A i \in 1 .. Len(q)-1 : r[i] = q[i+1]
  BY LenProperties, HeadTailProperties, EmptySeq
<1> HIDE DEF r
<1>2. \A i \in 1 .. Len(q)-1 : i \in Trail(r) <=> i+1 \in Trail(q)
  <2> SUFFICES ASSUME NEW i \in 1 .. Len(q)-1 PROVE i \in Trail(r) <=> i+1 \in Trail(q)
    OBVIOUS
  <2>1. (\A j \in i .. Len(q)-1 : r[j] # Clear) <=> (\A j \in i+1 .. Len(q) : q[j] # Clear)
    <3>1. ASSUME \A j \in i .. Len(q)-1 : r[j] # Clear, NEW j \in i+1 .. Len(q)
          PROVE  q[j] # Clear
      <4>1. j-1 \in i .. Len(q)-1 /\ j-1 \in 1 .. Len(q)-1 /\ (j-1)+1 = j
        BY <1>1
      <4> QED BY <1>1, <3>1, <4>1
    <3>2. ASSUME \A j \in i+1 .. Len(q) : q[j] # Clear, NEW j \in i .. Len(q)-1
          PROVE  r[j] # Clear
      <4>1. j+1 \in i+1 .. Len(q) /\ j \in 1 .. Len(q)-1
        BY <1>1
      <4> QED BY <1>1, <3>2, <4>1
    <3> QED BY <3>1, <3>2
  <2>2. i \in DOMAIN r /\ i+1 \in DOMAIN q
    BY <1>1
  <2> QED BY <1>1, <2>1, <2>2 DEF Trail
<1>3. Cardinality(Trail(r)) = Cardinality(Trail(q) \ {1})
  <2> DEFINE f == [i \in Trail(r) |-> i + 1]
  <2>1. Trail(r) \subseteq 1 .. Len(q)-1 /\ Trail(q) \subseteq 1..Len(q)
    BY <1>1 DEF Trail
  <2>2. f \in [Trail(r) -> Trail(q) \ {1}]
    BY <1>1, <1>2, <2>1
  <2>3. \A a, b \in Trail(r) : f[a] = f[b] => a = b
    BY <1>1, <2>1
  <2>4. \A t \in Trail(q) \ {1} : \E s \in Trail(r) : f[s] = t
    <3> SUFFICES ASSUME NEW t \in Trail(q) \ {1} PROVE \E s \in Trail(r) : f[s] = t
      OBVIOUS
    <3>1. t-1 \in 1 .. Len(q)-1 /\ (t-1)+1 = t
      BY <1>1, <2>1
    <3>2. t-1 \in Trail(r)
      BY <1>2, <3>1
    <3> QED BY <3>1, <3>2
  <2>5. f \in Bijection(Trail(r), Trail(q) \ {1})
    <3>1. f \in Injection(Trail(r), Trail(q) \ {1})
      BY <2>2, <2>3 DEF Injection, IsInjective
    <3>2. f \in Surjection(Trail(r), Trail(q) \ {1})
      BY <2>2, <2>4 DEF Surjection
    <3> QED BY <3>1, <3>2 DEF Bijection
  <2>6. ExistsBijection(Trail(r), Trail(q) \ {1})
    BY <2>5 DEF ExistsBijection
  <2> QED BY <1>1, <2>6, TrailFinite, FS_Bijection
<1>4. CASE q[1] = Clear
  <2>1. 1 \notin Trail(q) /\ Trail(q) # DOMAIN q
    BY <1>1, <1>4 DEF Trail
  <2>2. Cardinality(Trail(r)) = Cardinality(Trail(q))
    <3>1. Trail(q) \ {1} = Trail(q)
      BY <2>1
    <3> QED BY <1>3, <3>1
  <2>3. Trail(r) = DOMAIN r => Cardinality(Trail(r)) = Len(r)
    BY <1>1, TrailFinite
  <2>4. StarsAfter(r, 0) = StarsAfter(q, n)
    <3>1. CASE Trail(r) = DOMAIN r
      <4>1. 0 + Len(r) = Cardinality(Trail(q))
        BY <1>1, <2>2, <2>3, <3>1
      <4> QED BY <2>1, <3>1, <4>1 DEF StarsAfter
    <3>2. CASE Trail(r) # DOMAIN r
      BY <2>1, <2>2, <3>2 DEF StarsAfter
    <3> QED BY <3>1, <3>2
  <2> QED BY <1>1, <1>4, <2>4 DEF r
<1>5. CASE q[1] # Clear
  <2>1. StarsAfter(r, Capped(n + 1)) = StarsAfter(q, n)
    <3>1. CASE Trail(q) = DOMAIN q
      <4>1. Trail(r) = DOMAIN r
        <5>1. \A i \in 1 .. Len(q)-1 : i \in Trail(r)
          BY <1>1, <1>2, <3>1
        <5>2. Trail(r) \subseteq DOMAIN r
          BY DEF Trail
        <5> QED BY <1>1, <5>1, <5>2
      <4> QED BY <1>1, <3>1, <4>1 DEF StarsAfter, Capped
    <3>2. CASE Trail(q) # DOMAIN q
      <4>1. PICK c \in 1..Len(q) : q[c] = Clear
        BY <1>1, <3>2 DEF Trail
      <4>2. 1 \notin Trail(q)
        BY <1>1, <4>1 DEF Trail
      <4>3. c-1 \in 1 .. Len(q)-1 /\ r[c-1] = Clear
        <5>1. c-1 \in 1 .. Len(q)-1 /\ (c-1)+1 = c
          BY <1>1, <1>5, <4>1
        <5> QED BY <1>1, <4>1, <5>1
      <4>4. 1 \in DOMAIN r /\ 1 \notin Trail(r)
        BY <1>1, <4>3 DEF Trail
      <4>5. Trail(r) # DOMAIN r
        BY <4>4
      <4>6. Trail(q) \ {1} = Trail(q)
        BY <4>2
      <4> QED BY <1>3, <3>2, <4>5, <4>6 DEF StarsAfter
    <3> QED BY <3>1, <3>2
  <2> QED BY <1>1, <1>5, <2>1 DEF r
<1> QED BY <1>4, <1>5

\* While no character was lost and no result hid the stars, what the display
\* will show once it caught up is what was typed; the 0xFF at the end of a PIN
\* brings the two together again after a loss.
THEOREM DisplayInStep == Spec => []DisplayFollowsKeypad
<1>1. Init => DisplayFollowsKeypad
  BY StarsEmpty, EmptySeq DEF Init, DisplayFollowsKeypad
<1>2. TypeOK /\ DisplayFollowsKeypad /\ [Next]_vars => DisplayFollowsKeypad'
  <2> SUFFICES ASSUME TypeOK, DisplayFollowsKeypad, [Next]_vars, in_step'
               PROVE  StarsAfter(xQueueKeyChar', star_count')
                        = IF keypad' = "scan" THEN Len(pin_buf') ELSE PIN_LENGTH
    BY DEF DisplayFollowsKeypad
  <2>t. /\ xQueueKeyChar \in Seq(KeyChars) /\ star_count \in Nat /\ pin_buf \in Seq(Keys)
        /\ keypad \in {"scan", "pin", "clear"}
        /\ keypad = "scan" => Len(pin_buf) < PIN_LENGTH
    BY Lengths DEF TypeOK, QueuesOK, KeypadOK, LcdOK
  <2>d. in_step => StarsAfter(xQueueKeyChar, star_count)
                     = IF keypad = "scan" THEN Len(pin_buf) ELSE PIN_LENGTH
    BY DEF DisplayFollowsKeypad
  <2>s. ASSUME UNCHANGED <<xQueueKeyChar, star_count, in_step, keypad, pin_buf>>
        PROVE  StarsAfter(xQueueKeyChar', star_count')
                 = IF keypad' = "scan" THEN Len(pin_buf') ELSE PIN_LENGTH
    BY <2>d, <2>s
  <2>1. CASE RfidStep
    BY <2>s, <2>1
    DEF RfidStep, RfidNothing, RfidAccept, RfidSkip, RfidSend, RfidAlone, keypadVars, lcdVars
  <2>2. CASE AuthStep
    BY <2>s, <2>2
    DEF AuthStep, AuthTakeCard, AuthTakePin, AuthNothing, AuthLog, AuthPublish, AuthAlone,
        keypadVars, lcdVars
  <2>3. CASE CliClear \/ Tick \/ UNCHANGED vars
    BY <2>s, <2>3 DEF CliClear, Tick, vars, queues, keypadVars, lcdVars
  <2>4. CASE Reset
    BY <2>4, StarsEmpty, EmptySeq DEF Reset
  <2>5. ASSUME NEW k \in Keys, KeyPress(k)
        PROVE  StarsAfter(xQueueKeyChar', star_count')
                 = IF keypad' = "scan" THEN Len(pin_buf') ELSE PIN_LENGTH
    <3>1. in_step /\ Len(xQueueKeyChar) < KEY_CHAR_LEN
      BY <2>5 DEF KeyPress
    <3>2. /\ xQueueKeyChar' = Append(xQueueKeyChar, "key") /\ star_count' = star_count
          /\ keypad = "scan" /\ pin_buf' = Append(pin_buf, k)
      BY <2>5, <3>1 DEF KeyPress, Sent, KeypadAlone, lcdVars
    <3>3. Len(pin_buf') = Len(pin_buf) + 1 /\ Len(pin_buf) \in Nat
      BY <2>t, <3>2, AppendProperties, LenProperties
    <3>4. StarsAfter(xQueueKeyChar', star_count') = Len(pin_buf')
      BY <2>t, <2>d, <3>1, <3>2, <3>3, StarsAppend, Lengths DEF Capped
    <3>5. Len(pin_buf') = PIN_LENGTH \/ keypad' = "scan"
      BY <2>5, <3>2 DEF KeyPress
    <3> QED BY <2>5, <3>4, <3>5 DEF KeyPress
  <2>6. CASE NoKey
    BY <2>s, <2>6 DEF NoKey, keypadVars, KeypadAlone, lcdVars
  <2>7. CASE SendPin
    BY <2>d, <2>7 DEF SendPin, KeypadAlone, lcdVars
  <2>8. CASE SendClear
    <3>1. xQueueKeyChar' = Append(xQueueKeyChar, Clear) /\ star_count' = star_count
      BY <2>8 DEF SendClear, Sent, KeypadAlone, lcdVars
    <3>2. keypad' = "scan" /\ Len(pin_buf') = 0
      BY <2>8, EmptySeq DEF SendClear
    <3> QED BY <2>t, <3>1, <3>2, StarsAppend
  <2>9. CASE LcdStar
    BY <2>t, <2>d, <2>9, StarsTail DEF LcdStar, LcdAlone, keypadVars
  <2>10. CASE LcdClear
    BY <2>t, <2>d, <2>10, StarsTail DEF LcdClear, LcdAlone, keypadVars
  <2>11. CASE LcdNoKey \/ LcdResult \/ LcdTimeout
    BY <2>s, <2>11 DEF LcdNoKey, LcdResult, LcdTimeout, LcdAlone, keypadVars
  <2>12. CASE LcdIdle
    <3>1. in_step /\ StarsAfter(xQueueKeyChar, 0) = StarsAfter(xQueueKeyChar, star_count)
      BY <2>12 DEF LcdIdle
    <3>2. xQueueKeyChar' = xQueueKeyChar /\ star_count' = 0
          /\ UNCHANGED <<keypad, pin_buf>>
      BY <2>12 DEF LcdIdle, LcdAlone, keypadVars
    <3> QED BY <2>d, <3>1, <3>2
  <2> QED
    BY <2>1, <2>2, <2>3, <2>4, <2>5, <2>6, <2>7, <2>8, <2>9, <2>10, <2>11, <2>12
    DEF Next, KeypadStep, LcdStep
<1> QED BY <1>1, <1>2, TypeCorrect, PTL DEF Spec

(***************************************************************************)
(* The cooldown between two cards keeps xQueueRFID from filling up.        *)
(***************************************************************************)
\* The ticks until vTaskAuth next looks at xQueueRFID.
until_look == wake["auth"] + (IF auth = "idle" THEN 0 ELSE AUTH_POLL)

\* What a round of vTaskAuth takes at most: the work on one credential, and
\* the delay before the next look.
AUTH_ROUND == AUTH_WORK + AUTH_POLL

\* vTaskAuth is never further from its next look than one round.
AuthPaced ==
    /\ auth = "idle" => wake["auth"] <= AUTH_POLL
    /\ auth \in {"card", "pin"} => wake["auth"] <= AUTH_WORK
    /\ auth = "publish" => wake["auth"] = 0

\* At most one card is ever queued, the last one that was sent: since it was
\* accepted, at most a round has gone by or is still to go before the look that
\* takes it.  And when a card is accepted the queue is empty, until it is sent.
CardsSpaced ==
    /\ Len(xQueueRFID) <= 1
    /\ xQueueRFID # <<>> => ~first /\ since + until_look <= AUTH_ROUND
    /\ rfid = "send" => xQueueRFID = <<>> /\ ~first /\ since = 0

LEMMA OnlyCard ==
    ASSUME NEW S, NEW q \in Seq(S)
    PROVE  /\ Len(q) \in Nat /\ (Len(q) = 0 <=> q = <<>>)
           /\ q # <<>> /\ Len(q) <= 1 => Tail(q) = <<>>
<1>1. Len(q) \in Nat /\ (Len(q) = 0 <=> q = <<>>)
  BY LenProperties, EmptySeq
<1>2. ASSUME q # <<>>, Len(q) <= 1 PROVE Tail(q) = <<>>
  <2>1. Tail(q) \in Seq(S) /\ Len(Tail(q)) = Len(q) - 1
    BY <1>2, HeadTailProperties
  <2>2. Len(Tail(q)) = 0
    BY <1>1, <1>2, <2>1
  <2> QED BY <2>1, <2>2, EmptySeq
<1> QED BY <1>1, <1>2

LEMMA AuthPacedStep == TypeOK /\ AuthPaced /\ [Next]_vars => AuthPaced'
<1> SUFFICES ASSUME TypeOK, AuthPaced, [Next]_vars PROVE AuthPaced'
  OBVIOUS
<1>t. wake \in [Tasks -> Nat] /\ auth \in {"idle", "card", "pin", "publish"}
  BY DEF TypeOK, AuthOK
<1> USE Delays DEF AuthPaced
<1>a. ASSUME NEW t \in {"rfid", "keypad", "lcd"}, NEW n \in Nat, Sleeps(t, n)
      PROVE  wake'["auth"] = wake["auth"]
  BY <1>t, <1>a DEF Sleeps, Tasks
<1>b. ASSUME NEW n \in Nat, Sleeps("auth", n) PROVE wake'["auth"] = n
  BY <1>t, <1>b DEF Sleeps, Tasks
<1>1. CASE RfidStep
  <2>1. wake'["auth"] = wake["auth"]
    BY <1>1, <1>a DEF RfidStep, RfidNothing, RfidAccept, RfidSkip, RfidSend
  <2>2. auth' = auth
    BY <1>1 DEF RfidStep, RfidNothing, RfidAccept, RfidSkip, RfidSend, RfidAlone, authVars
  <2> QED BY <2>1, <2>2
<1>2. CASE KeypadStep
  <2>1. wake'["auth"] = wake["auth"]
    BY <1>2, <1>a DEF KeypadStep, NoKey, KeyPress, SendPin, SendClear
  <2>2. auth' = auth
    BY <1>2 DEF KeypadStep, NoKey, KeyPress, SendPin, SendClear, KeypadAlone, authVars
  <2> QED BY <2>1, <2>2
<1>3. CASE LcdStep
  <2>1. wake'["auth"] = wake["auth"]
    BY <1>3, <1>a DEF LcdStep, LcdNoKey, LcdStar, LcdClear, LcdResult, LcdTimeout, LcdIdle
  <2>2. auth' = auth
    BY <1>3 DEF LcdStep, LcdNoKey, LcdStar, LcdClear, LcdResult, LcdTimeout, LcdIdle,
                LcdAlone, authVars
  <2> QED BY <2>1, <2>2
<1>4. CASE AuthTakeCard \/ AuthTakePin
  BY <1>4, <1>b DEF AuthTakeCard, AuthTakePin
<1>5. CASE AuthNothing
  BY <1>5, <1>b DEF AuthNothing, authVars
<1>6. CASE AuthLog
  BY <1>6 DEF AuthLog, Awake
<1>7. CASE AuthPublish
  BY <1>7, <1>b DEF AuthPublish
<1>8. CASE Reset
  BY <1>8 DEF Reset, Tasks
<1>9. CASE Tick
  <2>1. wake["auth"] \in Nat /\ wake["auth"] > 0 /\ wake'["auth"] = wake["auth"] - 1
    BY <1>t, <1>9 DEF Tick, Blocked, Tasks
  <2>2. auth' = auth /\ auth # "publish"
    BY <1>9 DEF Tick, Blocked, authVars
  <2> QED BY <2>1, <2>2
<1>10. CASE CliClear \/ UNCHANGED vars
  BY <1>10 DEF CliClear, vars, authVars
<1> QED
  BY <1>1, <1>2, <1>3, <1>4, <1>5, <1>6, <1>7, <1>8, <1>9, <1>10 DEF Next, AuthStep

LEMMA CardsSpacedStep ==
    ASSUME QUEUE_RFID_LEN >= 2, CARD_NEW_COOLDOWN > AUTH_ROUND,
           TypeOK, AuthPaced, CardsSpaced, [Next]_vars
    PROVE  CardsSpaced'
<1>t. /\ wake \in [Tasks -> Nat] /\ auth \in {"idle", "card", "pin", "publish"}
      /\ xQueueRFID \in Seq(Cards) /\ since \in 0..CARD_COOLDOWN
  BY DEF TypeOK, AuthOK, QueuesOK, RfidOK
<1>c. /\ CARD_NEW_COOLDOWN \in Nat /\ CARD_NEW_COOLDOWN <= CARD_COOLDOWN
      /\ QUEUE_RFID_LEN \in Nat /\ AUTH_ROUND \in Nat /\ since \in Nat
  BY <1>t, SmartDoorAssumption, Delays DEF AUTH_ROUND
<1>l. /\ Len(xQueueRFID) \in Nat /\ (Len(xQueueRFID) = 0 <=> xQueueRFID = <<>>)
      /\ Len(xQueueRFID) <= 1
      /\ xQueueRFID # <<>> => Tail(xQueueRFID) = <<>>
  BY <1>t, OnlyCard DEF CardsSpaced
<1>w. wake["auth"] \in Nat
  BY <1>t DEF Tasks
<1>u. until_look \in Nat /\ until_look <= AUTH_ROUND
  BY <1>t, <1>w, Delays DEF until_look, AUTH_ROUND, AuthPaced
<1>a. ASSUME NEW t \in {"rfid", "keypad", "lcd"}, NEW n \in Nat, Sleeps(t, n)
      PROVE  wake'["auth"] = wake["auth"]
  BY <1>t, <1>a DEF Sleeps, Tasks
<1>b. ASSUME NEW n \in Nat, Sleeps("auth", n) PROVE wake'["auth"] = n
  BY <1>t, <1>b DEF Sleeps, Tasks
<1>s. ASSUME UNCHANGED <<xQueueRFID, rfid, first, since, auth>>, wake'["auth"] = wake["auth"]
      PROVE  CardsSpaced'
  BY <1>s DEF CardsSpaced, until_look
<1>1. CASE RfidStep
  <2>1. auth' = auth
    BY <1>1 DEF RfidStep, RfidNothing, RfidAccept, RfidSkip, RfidSend, RfidAlone, authVars
  <2>2. wake'["auth"] = wake["auth"]
    BY <1>1, <1>a, Delays DEF RfidStep, RfidNothing, RfidAccept, RfidSkip, RfidSend
  <2>3. CASE RfidNothing
    BY <1>s, <2>1, <2>2, <2>3 DEF RfidNothing, rfidVars
  <2>4. ASSUME NEW c \in Cards, RfidAccept(c) PROVE CardsSpaced'
    <3>1. first \/ since >= CARD_NEW_COOLDOWN
      BY <1>c, <2>4, SmartDoorAssumption DEF RfidAccept, Process
    <3>2. xQueueRFID = <<>>
      BY <1>c, <1>u, <3>1 DEF CardsSpaced
    <3>3. xQueueRFID' = <<>> /\ ~first' /\ since' = 0
      BY <2>4, <3>2 DEF RfidAccept
    <3> QED BY <1>l, <3>2, <3>3 DEF CardsSpaced
  <2>5. ASSUME NEW c \in Cards, RfidSkip(c) PROVE FALSE
    BY <1>c, <1>l, <2>5 DEF RfidSkip
  <2>6. CASE RfidSend
    <3>1. xQueueRFID = <<>> /\ ~first /\ since = 0 /\ UNCHANGED <<first, since>>
          /\ rfid' = "poll"
      BY <2>6 DEF CardsSpaced, RfidSend
    <3>2. card \in Cards
      BY <2>6 DEF RfidSend, TypeOK, RfidOK
    <3>3. Len(xQueueRFID') = 1
      BY <1>c, <1>l, <2>6, <3>1, <3>2, AppendProperties DEF RfidSend, Sent
    <3>4. since' + until_look' <= AUTH_ROUND
      BY <1>u, <2>1, <2>2, <3>1 DEF until_look
    <3> QED BY <3>1, <3>3, <3>4 DEF CardsSpaced
  <2> QED BY <1>1, <2>3, <2>4, <2>5, <2>6 DEF RfidStep
<1>2. CASE KeypadStep
  <2>1. wake'["auth"] = wake["auth"]
    BY <1>2, <1>a, Delays DEF KeypadStep, NoKey, KeyPress, SendPin, SendClear
  <2>2. UNCHANGED <<xQueueRFID, rfid, first, since, auth>>
    BY <1>2
    DEF KeypadStep, NoKey, KeyPress, SendPin, SendClear, KeypadAlone, authVars, rfidVars
  <2> QED BY <1>s, <2>1, <2>2
<1>3. CASE LcdStep
  <2>1. wake'["auth"] = wake["auth"]
    BY <1>3, <1>a, Delays
    DEF LcdStep, LcdNoKey, LcdStar, LcdClear, LcdResult, LcdTimeout, LcdIdle
  <2>2. UNCHANGED <<xQueueRFID, rfid, first, since, auth>>
    BY <1>3 DEF LcdStep, LcdNoKey, LcdStar, LcdClear, LcdResult, LcdTimeout, LcdIdle,
                LcdAlone, authVars, rfidVars
  <2> QED BY <1>s, <2>1, <2>2
<1>4. CASE AuthTakeCard
  <2>1. xQueueRFID # <<>> /\ xQueueRFID' = <<>> /\ rfid' = rfid
    BY <1>l, <1>4 DEF AuthTakeCard, AuthAlone, rfidVars
  <2>2. rfid' # "send"
    BY <2>1 DEF CardsSpaced
  <2> QED BY <2>1, <2>2, EmptySeq DEF CardsSpaced
<1>5. CASE AuthTakePin \/ AuthNothing
  <2>1. xQueueRFID = <<>> /\ UNCHANGED <<xQueueRFID, rfid, first, since>>
    BY <1>5 DEF AuthTakePin, AuthNothing, AuthAlone, rfidVars
  <2> QED BY <1>l, <2>1 DEF CardsSpaced
<1>6. CASE AuthLog
  <2>1. UNCHANGED <<xQueueRFID, rfid, first, since, wake>> /\ auth # "idle" /\ auth' # "idle"
    BY <1>6 DEF AuthLog, AuthAlone, rfidVars
  <2> QED BY <2>1 DEF CardsSpaced, until_look
<1>7. CASE AuthPublish
  <2>1. UNCHANGED <<xQueueRFID, rfid, first, since>> /\ auth = "publish" /\ auth' = "idle"
    BY <1>7 DEF AuthPublish, AuthAlone, rfidVars
  <2>2. wake'["auth"] = AUTH_POLL /\ wake["auth"] = 0
    BY <1>7, <1>b, Delays DEF AuthPublish, AuthPaced
  <2>3. until_look' = until_look
    BY <2>1, <2>2, Delays DEF until_look
  <2> QED BY <2>1, <2>3 DEF CardsSpaced
<1>8. CASE Reset
  BY <1>8, EmptySeq DEF Reset, CardsSpaced
<1>9. CASE Tick
  <2>1. wake["auth"] > 0 /\ wake'["auth"] = wake["auth"] - 1
    BY <1>t, <1>9 DEF Tick, Blocked, Tasks
  <2>2. UNCHANGED <<xQueueRFID, rfid, first, auth>> /\ rfid # "send"
    BY <1>9 DEF Tick, Blocked, queues, authVars
  <2>3. ASSUME xQueueRFID # <<>> PROVE since' + until_look' <= AUTH_ROUND
    <3>1. ~first /\ since + until_look <= AUTH_ROUND
      BY <2>3 DEF CardsSpaced
    <3>2. since' = since \/ since' = since + 1
      BY <1>9 DEF Tick
    <3>3. until_look' = until_look - 1
      BY <1>w, <2>1, <2>2, Delays DEF until_look
    <3> QED BY <1>c, <1>u, <3>1, <3>2, <3>3
  <2> QED BY <2>2, <2>3 DEF CardsSpaced
<1>10. CASE CliClear \/ UNCHANGED vars
  BY <1>s, <1>10 DEF CliClear, vars, queues, rfidVars, authVars
<1> QED
  BY <1>1, <1>2, <1>3, <1>4, <1>5, <1>6, <1>7, <1>8, <1>9, <1>10 DEF Next, AuthStep

\* When a card is queued again only after vTaskAuth has had the time for a whole
\* round, as the 500 ms of CARD_NEW_COOLDOWN_MS give it (src/Inc/app_config.h:18),
\* xQueueRFID never fills up, whatever the PINs make vTaskAuth do in between: a
\* queue of two is enough, and no card is skipped for want of space.
THEOREM CardsNeverPileUp ==
    ASSUME QUEUE_RFID_LEN >= 2, CARD_NEW_COOLDOWN > AUTH_ROUND
    PROVE  Spec => []CooldownPreventsOverflow
<1>1. Init => AuthPaced /\ CardsSpaced
  BY Delays, EmptySeq DEF Init, AuthPaced, CardsSpaced, Tasks
<1>2. TypeOK /\ AuthPaced /\ CardsSpaced /\ [Next]_vars => AuthPaced' /\ CardsSpaced'
  BY AuthPacedStep, CardsSpacedStep
<1>3. TypeOK /\ CardsSpaced => CooldownPreventsOverflow
  <2> SUFFICES ASSUME TypeOK, CardsSpaced PROVE CooldownPreventsOverflow
    OBVIOUS
  <2>1. Len(xQueueRFID) \in Nat
    BY LenProperties DEF TypeOK, QueuesOK
  <2> QED BY <2>1, Lengths DEF CardsSpaced, CooldownPreventsOverflow
<1> QED BY <1>1, <1>2, <1>3, TypeCorrect, PTL DEF Spec

(***************************************************************************)
(* SmartDoor implements AccessControl.                                     *)
(***************************************************************************)
LEMMA Prepend ==
    ASSUME NEW S, NEW q \in Seq(S), NEW x \in S
    PROVE  /\ <<x>> \o q # <<>>
           /\ Head(<<x>> \o q) = x
           /\ Tail(<<x>> \o q) = q
<1>1. <<x>> \in Seq(S) /\ Len(<<x>>) = 1 /\ <<x>>[1] = x /\ Len(q) \in Nat
  BY LenProperties
<1> DEFINE r == <<x>> \o q
<1>2. /\ r \in Seq(S) /\ Len(r) = 1 + Len(q)
      /\ \A i \in 1 .. 1 + Len(q) : r[i] = IF i <= 1 THEN <<x>>[i] ELSE q[i - 1]
  BY <1>1, ConcatProperties
<1> HIDE DEF r
<1>3. r # <<>> /\ Head(r) = x
  BY <1>1, <1>2, EmptySeq
<1>4. Tail(r) = q
  <2>1. Tail(r) \in Seq(S) /\ Len(Tail(r)) = Len(q)
        /\ \A i \in 1 .. Len(q) : Tail(r)[i] = r[i+1]
    BY <1>1, <1>2, <1>3, HeadTailProperties
  <2>2. \A i \in 1 .. Len(q) : r[i+1] = q[i]
    BY <1>1, <1>2
  <2> QED BY <2>1, <2>2, SeqEqual
<1> QED BY <1>3, <1>4 DEF r

LEMMA HeadThenTail ==
    ASSUME NEW S, NEW q \in Seq(S), q # <<>>
    PROVE  <<Head(q)>> \o Tail(q) = q
<1>1. Len(q) \in Nat \ {0} /\ q[1] = Head(q) /\ Head(q) \in S
  BY EmptySeq, HeadTailProperties, LenProperties
<1>2. SubSeq(q, 1, Len(q)) = <<q[1]>> \o SubSeq(q, 2, Len(q))
  BY <1>1, SubSeqRecursiveFirst
<1> QED BY <1>1, <1>2, SubSeqFull, TailIsSubSeq

LEMMA ConcatAppend ==
    ASSUME NEW S, NEW s \in Seq(S), NEW q \in Seq(S), NEW x \in S
    PROVE  s \o Append(q, x) = Append(s \o q, x)
<1>1. <<x>> \in Seq(S)
  OBVIOUS
<1>2. Append(q, x) = q \o <<x>> /\ s \o q \in Seq(S)
  BY AppendIsConcat, ConcatProperties
<1>3. Append(s \o q, x) = (s \o q) \o <<x>>
  BY <1>2, AppendIsConcat
<1> QED BY <1>1, <1>2, <1>3, ConcatAssociative

LEMMA TailConcat ==
    ASSUME NEW S, NEW q \in Seq(S), NEW s \in Seq(S), q # <<>>
    PROVE  q \o s # <<>> /\ Tail(q \o s) = Tail(q) \o s
<1>1. Head(q) \in S /\ Tail(q) \in Seq(S)
  BY HeadTailProperties
<1>2. q = <<Head(q)>> \o Tail(q) /\ <<Head(q)>> \in Seq(S)
  BY <1>1, HeadThenTail
<1>3. q \o s = <<Head(q)>> \o (Tail(q) \o s)
  BY <1>1, <1>2, ConcatAssociative
<1>4. Tail(q) \o s \in Seq(S)
  BY <1>1, ConcatProperties
<1> QED BY <1>1, <1>3, <1>4, Prepend

LEMMA InitRefines == Init => Abstract!Init
BY ConcatEmptySeq, EmptySeq
DEF Init, Abstract!Init, accepted_cards, accepted_pins, pending_results

LEMMA NextRefines == TypeOK /\ [Next]_vars => [Abstract!Next]_(Abstract!vars)
<1> SUFFICES ASSUME TypeOK, [Next]_vars PROVE Abstract!Next \/ UNCHANGED Abstract!vars
  OBVIOUS
<1>t. /\ xQueueRFID \in Seq(Cards) /\ xQueueKeypad \in Seq(Pins)
      /\ xQueueAuth \in Seq(Results)
      /\ AuthOK
  BY DEF TypeOK, QueuesOK
<1>s. ASSUME UNCHANGED <<xQueueRFID, xQueueKeypad, xQueueAuth, auth, cred, log_entry, log>>
      PROVE  UNCHANGED Abstract!vars
  BY <1>s DEF Abstract!vars, accepted_cards, accepted_pins, pending_results
<1> USE DEF Abstract!vars
<1> DEFINE card_now == IF auth = "card" THEN <<cred>> ELSE <<>>
           pin_now  == IF auth = "pin" THEN <<cred>> ELSE <<>>
<1>n. card_now \in Seq(Cards) /\ pin_now \in Seq(Pins)
  BY <1>t DEF AuthOK
<1>1. CASE RfidSend
  <2>1. UNCHANGED <<accepted_pins, log, pending_results>> /\ auth' = auth /\ cred' = cred
    BY <1>1 DEF RfidSend, RfidAlone, authVars, accepted_pins, pending_results
  <2>2. CASE xQueueRFID' = xQueueRFID
    BY <2>1, <2>2 DEF accepted_cards
  <2>3. CASE xQueueRFID' = Append(xQueueRFID, card)
    <3>1. card \in Cards
      BY <1>1 DEF RfidSend, TypeOK, RfidOK
    <3>2. accepted_cards' = Append(accepted_cards, card)
      BY <1>t, <1>n, <2>1, <2>3, <3>1, ConcatAppend DEF accepted_cards
    <3> QED BY <2>1, <3>1, <3>2 DEF Abstract!Next, Abstract!AcceptCard
  <2> QED BY <1>1, <2>2, <2>3 DEF RfidSend, Sent
<1>2. CASE RfidNothing \/ \E c \in Cards : RfidAccept(c) \/ RfidSkip(c)
  BY <1>s, <1>2 DEF RfidNothing, RfidAccept, RfidSkip, RfidAlone, authVars
<1>3. CASE SendPin
  <2>1. UNCHANGED <<accepted_cards, log, pending_results>> /\ auth' = auth /\ cred' = cred
    BY <1>3 DEF SendPin, KeypadAlone, authVars, accepted_cards, pending_results
  <2>2. CASE xQueueKeypad' = xQueueKeypad
    BY <2>1, <2>2 DEF accepted_pins
  <2>3. CASE xQueueKeypad' = Append(xQueueKeypad, pin_buf)
    <3>1. pin_buf \in Pins
      BY <1>3 DEF SendPin, TypeOK, KeypadOK
    <3>2. accepted_pins' = Append(accepted_pins, pin_buf)
      BY <1>t, <1>n, <2>1, <2>3, <3>1, ConcatAppend DEF accepted_pins
    <3> QED BY <2>1, <3>1, <3>2 DEF Abstract!Next, Abstract!AcceptPin
  <2> QED BY <1>3, <2>2, <2>3 DEF SendPin, Sent
<1>4. CASE NoKey \/ (\E k \in Keys : KeyPress(k)) \/ SendClear
  BY <1>s, <1>4 DEF NoKey, KeyPress, SendClear, KeypadAlone, authVars
<1>5. CASE AuthTakeCard
  <2>1. /\ auth = "idle" /\ auth' = "card" /\ xQueueRFID # <<>>
        /\ xQueueRFID' = Tail(xQueueRFID) /\ cred' = Head(xQueueRFID)
        /\ UNCHANGED <<xQueueKeypad, xQueueAuth, log>>
    BY <1>5 DEF AuthTakeCard
  <2>2. accepted_cards' = accepted_cards
    BY <1>t, <2>1, HeadThenTail, ConcatEmptySeq DEF accepted_cards
  <2> QED BY <2>1, <2>2 DEF accepted_pins, pending_results
<1>6. CASE AuthTakePin
  <2>1. /\ auth = "idle" /\ auth' = "pin" /\ xQueueKeypad # <<>>
        /\ xQueueKeypad' = Tail(xQueueKeypad) /\ cred' = Head(xQueueKeypad)
        /\ UNCHANGED <<xQueueRFID, xQueueAuth, log>>
    BY <1>6 DEF AuthTakePin
  <2>2. accepted_pins' = accepted_pins
    BY <1>t, <2>1, HeadThenTail, ConcatEmptySeq DEF accepted_pins
  <2> QED BY <2>1, <2>2 DEF accepted_cards, pending_results
<1>7. CASE AuthNothing
  BY <1>s, <1>7 DEF AuthNothing, authVars
<1>8. CASE AuthLog
  <2>1. /\ auth \in {"card", "pin"} /\ auth' = "publish" /\ log_entry' = log_entry
        /\ log' = Abstract!Logged(log_entry)
        /\ UNCHANGED <<xQueueRFID, xQueueKeypad, xQueueAuth>>
    BY <1>8 DEF AuthLog, Abstract!Logged
  <2>2. ResultOf(log_entry) \in Results
    BY <1>t, <2>1, AuthEntry, EntryResult
  <2>3. pending_results' = Append(pending_results, ResultOf(log_entry))
    BY <1>t, <2>1, <2>2, ConcatEmptySeq, AppendIsConcat DEF pending_results, ResultOf
  <2>4. Abstract!Decide(log_entry)
    BY <2>1, <2>3 DEF Abstract!Decide, Abstract!ResultOf, ResultOf
  <2>5. CASE auth = "card"
    <3>1. cred \in Cards /\ log_entry = Abstract!CardRecord(cred)
      BY <1>t, <2>5 DEF AuthOK, CardRecord, Abstract!CardRecord
    <3>2. accepted_cards = <<cred>> \o xQueueRFID /\ accepted_cards' = xQueueRFID
      BY <1>t, <2>1, <2>5, ConcatEmptySeq DEF accepted_cards
    <3>3. accepted_cards # <<>> /\ Head(accepted_cards) = cred
          /\ accepted_cards' = Tail(accepted_cards)
      BY <1>t, <3>1, <3>2, Prepend
    <3>4. accepted_pins' = accepted_pins
      BY <2>1, <2>5 DEF accepted_pins
    <3> QED BY <2>4, <3>1, <3>3, <3>4 DEF Abstract!Next, Abstract!DecideCard
  <2>6. CASE auth = "pin"
    <3>1. cred \in Pins /\ log_entry = Abstract!PinRecord(cred)
      BY <1>t, <2>6 DEF AuthOK, PinRecord, Abstract!PinRecord
    <3>2. accepted_pins = <<cred>> \o xQueueKeypad /\ accepted_pins' = xQueueKeypad
      BY <1>t, <2>1, <2>6, ConcatEmptySeq DEF accepted_pins
    <3>3. accepted_pins # <<>> /\ Head(accepted_pins) = cred
          /\ accepted_pins' = Tail(accepted_pins)
      BY <1>t, <3>1, <3>2, Prepend
    <3>4. accepted_cards' = accepted_cards
      BY <2>1, <2>6 DEF accepted_cards
    <3> QED BY <2>4, <3>1, <3>3, <3>4 DEF Abstract!Next, Abstract!DecidePin
  <2> QED BY <2>1, <2>5, <2>6
<1>9. CASE AuthPublish
  <2> DEFINE r == ResultOf(log_entry)
  <2>1. /\ auth = "publish" /\ auth' = "idle"
        /\ xQueueAuth' = Sent(xQueueAuth, QUEUE_AUTH_LEN, r)
        /\ UNCHANGED <<xQueueRFID, xQueueKeypad, log>>
    BY <1>9 DEF AuthPublish
  <2>2. r \in Results
    BY <1>t, <2>1, AuthEntry, EntryResult
  <2>3. UNCHANGED <<accepted_cards, accepted_pins>>
    BY <2>1 DEF accepted_cards, accepted_pins
  <2> HIDE DEF r
  <2>4. pending_results = Append(xQueueAuth, r) /\ pending_results' = xQueueAuth'
    <3>1. pending_results = xQueueAuth \o <<r>>
      BY <2>1 DEF pending_results, r
    <3>2. pending_results' = xQueueAuth' \o <<>> /\ xQueueAuth' \in Seq(Results)
      BY <1>t, <2>1, <2>2, AppendProperties DEF pending_results, Sent
    <3> QED BY <1>t, <2>2, <3>1, <3>2, AppendIsConcat, ConcatEmptySeq
  <2>5. CASE Len(xQueueAuth) < QUEUE_AUTH_LEN
    BY <2>1, <2>3, <2>4, <2>5 DEF Sent
  <2>6. CASE ~(Len(xQueueAuth) < QUEUE_AUTH_LEN)
    <3>1. Len(xQueueAuth) = QUEUE_AUTH_LEN
      BY <1>t, <2>6, Lengths, LenProperties DEF TypeOK, QueuesOK
    <3>2. Len(pending_results) = QUEUE_AUTH_LEN + 1
      BY <1>t, <2>2, <2>4, <3>1, AppendProperties
    <3>3. SubSeq(pending_results, 1, QUEUE_AUTH_LEN) = xQueueAuth
      <4>1. /\ \A i \in 1..QUEUE_AUTH_LEN : Append(xQueueAuth, r)[i] = xQueueAuth[i]
            /\ \A i \in 1..QUEUE_AUTH_LEN : xQueueAuth[i] \in Results
        BY <1>t, <2>2, <3>1, AppendProperties, ElementOfSeq
      <4>2. /\ SubSeq(pending_results, 1, QUEUE_AUTH_LEN) \in Seq(Results)
            /\ Len(SubSeq(pending_results, 1, QUEUE_AUTH_LEN)) = QUEUE_AUTH_LEN
            /\ \A i \in 1..QUEUE_AUTH_LEN :
                 SubSeq(pending_results, 1, QUEUE_AUTH_LEN)[i] = xQueueAuth[i]
        <5>1. \A i \in 1..QUEUE_AUTH_LEN :
                pending_results[i] = xQueueAuth[i] /\ pending_results[i] \in Results
          BY <2>4, <4>1
        <5>2. /\ SubSeq(pending_results, 1, QUEUE_AUTH_LEN) \in Seq(Results)
              /\ Len(SubSeq(pending_results, 1, QUEUE_AUTH_LEN))
                   = IF 1 <= QUEUE_AUTH_LEN THEN QUEUE_AUTH_LEN - 1 + 1 ELSE 0
              /\ \A i \in 1 .. QUEUE_AUTH_LEN - 1 + 1 :
                   SubSeq(pending_results, 1, QUEUE_AUTH_LEN)[i] = pending_results[1 + i - 1]
          BY <5>1, Lengths, SubSeqProperties
        <5>3. \A i \in 1..QUEUE_AUTH_LEN : 1 + i - 1 = i
          BY Lengths
        <5> QED BY <5>1, <5>2, <5>3, Lengths
      <4> QED BY <1>t, <3>1, <4>2, SeqEqual
    <3>4. pending_results' = xQueueAuth
      BY <2>1, <2>4, <2>6 DEF Sent
    <3> QED BY <2>1, <2>3, <3>2, <3>3, <3>4 DEF Abstract!Next, Abstract!GiveUpResult
  <2> QED BY <2>5, <2>6
<1>10. CASE LcdResult
  <2>1. /\ xQueueAuth # <<>> /\ xQueueAuth' = Tail(xQueueAuth)
        /\ UNCHANGED <<xQueueRFID, xQueueKeypad, auth, cred, log_entry, log>>
    BY <1>10 DEF LcdResult, LcdAlone, authVars
  <2> DEFINE waiting == IF auth = "publish" THEN <<ResultOf(log_entry)>> ELSE <<>>
  <2>2. waiting \in Seq(Results) /\ pending_results = xQueueAuth \o waiting
    BY <1>t, AuthEntry, EntryResult DEF pending_results
  <2>3. pending_results' = Tail(xQueueAuth) \o waiting
    BY <2>1 DEF pending_results, ResultOf
  <2>4. UNCHANGED <<accepted_cards, accepted_pins>>
    BY <2>1 DEF accepted_cards, accepted_pins
  <2> HIDE DEF waiting
  <2>5. pending_results # <<>> /\ pending_results' = Tail(pending_results)
    BY <1>t, <2>1, <2>2, <2>3, TailConcat
  <2> QED BY <2>1, <2>4, <2>5 DEF Abstract!Next, Abstract!Show
<1>11. CASE LcdNoKey \/ LcdStar \/ LcdClear \/ LcdTimeout \/ LcdIdle
  BY <1>s, <1>11 DEF LcdNoKey, LcdStar, LcdClear, LcdTimeout, LcdIdle, LcdAlone, authVars
<1>12. CASE CliClear
  BY <1>12 DEF CliClear, queues, authVars, accepted_cards, accepted_pins, pending_results,
               Abstract!Next, Abstract!ClearLog, ResultOf
<1>13. CASE Reset
  <2>1. accepted_cards' = <<>> /\ accepted_pins' = <<>> /\ pending_results' = <<>>
    BY <1>13, ConcatEmptySeq, EmptySeq
    DEF Reset, accepted_cards, accepted_pins, pending_results
  <2> QED BY <1>13, <2>1 DEF Reset, FlashLog_Init, Abstract!Next, Abstract!Reset
<1>14. CASE Tick \/ UNCHANGED vars
  BY <1>s, <1>14 DEF Tick, vars, queues, authVars
<1> QED
  BY <1>1, <1>2, <1>3, <1>4, <1>5, <1>6, <1>7, <1>8, <1>9, <1>10, <1>11, <1>12, <1>13, <1>14
  DEF Next, RfidStep, KeypadStep, AuthStep, LcdStep

\* The four tasks and their queues keep what AccessControl promises: every
\* accepted credential is decided once and in order, on record before its
\* result can be seen, and results are shown in the order of the decisions.
THEOREM Refinement == Spec => ImplementsAccessControl
BY InitRefines, NextRefines, TypeCorrect, PTL DEF Spec, ImplementsAccessControl, Abstract!Spec
=============================================================================
