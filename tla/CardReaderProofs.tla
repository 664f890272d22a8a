-------------------------- MODULE CardReaderProofs --------------------------
(***************************************************************************)
(* Theorems about CardReader, for every width of the tick counter, every   *)
(* set of cards and all delays.                                            *)
(***************************************************************************)
EXTENDS CardReader, TLAPS

\* The type invariant of vTaskRFID's cooldown.
THEOREM TypeCorrect == Spec => []TypeOK
<1>1. Init => StateOK
  <2> SUFFICES ASSUME Init PROVE StateOK
    OBVIOUS
  <2>1. WRAP \in Nat \ {0} /\ RFID_POLL+LATE \in Nat /\ QUEUE_RFID_LEN \in Nat
    BY CardReaderAssumption
  <2>2. quiet \in [Cards -> 0..CARD_COOLDOWN]
    BY CardReaderAssumption DEF Init
  <2>3. tick \in Ticks /\ last_tick \in Ticks
    BY <2>1 DEF Init, Ticks
  <2>4. wake \in 0 .. RFID_POLL+LATE /\ waiting \in 0..QUEUE_RFID_LEN
        /\ misses \in 0 .. MAX_MISSES+1
    BY <2>1, CardReaderAssumption DEF Init
  <2> QED BY <2>2, <2>3, <2>4 DEF Init, StateOK
<1>2. StateOK /\ [Next]_vars => StateOK'
  <2> SUFFICES ASSUME StateOK, [Next]_vars PROVE StateOK'
    OBVIOUS
  <2> USE CardReaderAssumption
  <2>1. Sleeps => wake' \in 0 .. RFID_POLL+LATE
    BY DEF Sleeps
  <2>2. CASE Nothing \/ Miss
    BY <2>1, <2>2 DEF Nothing, Miss, StateOK, reader
  <2>3. ASSUME NEW c \in Cards, Reject(c) PROVE StateOK'
    BY <2>1, <2>3 DEF Reject, Detects, StateOK, reader
  <2>4. ASSUME NEW c \in Cards, Accept(c) PROVE StateOK'
    <3>1. quiet' \in [Cards -> 0..CARD_COOLDOWN]
      BY <2>4 DEF Accept, StateOK
    <3>2. zero' \in BOOLEAN
      BY <2>4 DEF Accept, StateOK
    <3> QED BY <2>4, <3>1, <3>2 DEF Accept, Detects, StateOK
  <2>5. ASSUME NEW c \in Cards, Skip(c) PROVE StateOK'
    BY <2>1, <2>5 DEF Skip, Detects, StateOK
  <2>6. CASE Send
    BY <2>1, <2>6 DEF Send, StateOK
  <2>7. CASE AuthTakeCard
    BY <2>7 DEF AuthTakeCard, StateOK, reader
  <2>8. ASSUME NEW c \in Cards \cup {NoCard}, Present(c) PROVE StateOK'
    BY <2>8 DEF Present, StateOK, reader
  <2>9. CASE Tick
    BY <2>9 DEF Tick, StateOK, Ticks, reader
  <2>10. CASE UNCHANGED vars
    BY <2>10 DEF vars, StateOK, reader
  <2> QED
    BY <2>2, <2>3, <2>4, <2>5, <2>6, <2>7, <2>8, <2>9, <2>10 DEF Next, Poll
<1>3. StateOK => TypeOK
  BY CardReaderAssumption DEF StateOK, TypeOK, ms_since, Ticks
<1> QED BY <1>1, <1>2, <1>3, PTL DEF Spec

-----------------------------------------------------------------------------
(***************************************************************************)
(* What the reader knows is less than what is true: ms_since is at most    *)
(* the time since any card was accepted, whatever the wraps, and the cards *)
(* before the last one were quiet for a CARD_NEW_COOLDOWN more.            *)
(***************************************************************************)
Long(c) == quiet[c] = CARD_COOLDOWN

Behind ==
    /\ \A c \in Cards : Long(c) \/ quiet[c] >= ms_since
    /\ \A c \in Cards \ {last_card} : Long(c) \/ quiet[c] >= ms_since + CARD_NEW_COOLDOWN

IInv == ~zero => IF last_tick = 0 THEN \A c \in Cards : Long(c) ELSE Behind

\* What the guard of Accept says of the ghost clocks.
LEMMA Spacing ==
    ASSUME TypeOK, IInv, ~zero, NEW c \in Cards, Process(c)
    PROVE  /\ \A d \in Cards : quiet[d] >= CARD_NEW_COOLDOWN
           /\ quiet[c] >= CARD_COOLDOWN \/ quiet[c] >= 2 * CARD_NEW_COOLDOWN
<1> USE CardReaderAssumption
<1>1. CASE last_tick = 0
  BY <1>1 DEF IInv, Long, TypeOK, StateOK
<1>2. CASE last_tick # 0
  <2>1. ms_since \in Nat /\ ms_since >= CARD_NEW_COOLDOWN
    BY <1>2 DEF Process, ms_since, TypeOK, StateOK, Ticks
  <2>2. \A d \in Cards : quiet[d] >= CARD_NEW_COOLDOWN
    BY <1>2, <2>1 DEF IInv, Behind, Long, TypeOK, StateOK
  <2>3. CASE c = last_card
    BY <1>2, <2>1, <2>3 DEF IInv, Behind, Long, Process, TypeOK, StateOK
  <2>4. CASE c # last_card
    BY <1>2, <2>1, <2>4 DEF IInv, Behind, Long, TypeOK, StateOK
  <2> QED BY <2>2, <2>3, <2>4
<1> QED BY <1>1, <1>2

LEMMA Invariance == Spec => []IInv
<1>1. Init => IInv
  BY CardReaderAssumption DEF Init, IInv, Long
<1>2. TypeOK /\ IInv /\ [Next]_vars => IInv'
  <2> SUFFICES ASSUME TypeOK, IInv, [Next]_vars PROVE IInv'
    OBVIOUS
  <2> USE CardReaderAssumption
  <2>1. CASE UNCHANGED <<tick, last_card, last_tick, quiet, zero>>
    BY <2>1 DEF IInv, Behind, Long, ms_since
  <2>2. CASE Nothing \/ Miss \/ Send \/ AuthTakeCard \/ UNCHANGED vars
    BY <2>1, <2>2 DEF Nothing, Miss, Send, AuthTakeCard, vars, reader
  <2>3. ASSUME NEW c \in Cards \cup {NoCard}, Reject(c) \/ Present(c) PROVE IInv'
    BY <2>1, <2>3 DEF Reject, Present, reader
  <2>4. ASSUME NEW c \in Cards, Accept(c), ~zero' PROVE IInv'
    <3>1. Process(c) /\ ~zero /\ tick # 0
      BY <2>4 DEF Accept
    <3>2. \A d \in Cards : quiet[d] >= CARD_NEW_COOLDOWN
      BY <3>1, Spacing
    <3>3. last_tick' = tick /\ ms_since' = 0 /\ last_card' = c
      BY <2>4 DEF Accept, ms_since, TypeOK, StateOK, Ticks
    <3>4. quiet' = [quiet EXCEPT ![c] = 0]
      BY <2>4 DEF Accept
    <3> QED BY <3>1, <3>2, <3>3, <3>4 DEF IInv, Behind, Long, TypeOK, StateOK
  <2>5. ASSUME NEW c \in Cards, Skip(c), ~zero' PROVE IInv'
    <3>1. Process(c) /\ ~zero /\ tick # 0
      BY <2>5 DEF Skip
    <3>2. \A d \in Cards : quiet[d] >= CARD_NEW_COOLDOWN
      BY <3>1, Spacing
    <3>3. last_tick' = tick /\ ms_since' = 0 /\ UNCHANGED <<last_card, quiet>>
      BY <2>5 DEF Skip, ms_since, TypeOK, StateOK, Ticks
    <3> QED BY <3>1, <3>2, <3>3 DEF IInv, Behind, Long, TypeOK, StateOK
  <2>6. ASSUME Tick, ~zero' PROVE IInv'
    <3>1. UNCHANGED <<last_card, last_tick, zero>>
      BY <2>6 DEF Tick, reader
    <3>2. ms_since' <= ms_since + 1 /\ ms_since \in Nat /\ ms_since' \in Nat
      BY <2>6, <3>1 DEF Tick, ms_since, TypeOK, StateOK, Ticks
    <3>3. \A c \in Cards : Long(c)' \/ (quiet'[c] = quiet[c] + 1 /\ ~Long(c))
      BY <2>6 DEF Tick, Long, TypeOK, StateOK
    <3>4. CASE last_tick = 0
      BY <2>6, <3>1, <3>3, <3>4 DEF IInv, Long, TypeOK, StateOK
    <3>5. CASE last_tick # 0
      <4>1. Behind
        BY <2>6, <3>1, <3>5 DEF IInv
      <4>2. Behind'
        BY <3>1, <3>2, <3>3, <4>1 DEF Behind, TypeOK, StateOK
      <4> QED BY <3>1, <3>5, <4>2 DEF IInv
    <3> QED BY <3>4, <3>5
  <2> QED
    BY <2>2, <2>3, <2>4, <2>5, <2>6 DEF Next, Poll, IInv
<1> QED BY <1>1, <1>2, TypeCorrect, PTL DEF Spec

\* Two cards are at least CARD_NEW_COOLDOWN apart, and the same card comes again
\* after CARD_COOLDOWN or twice CARD_NEW_COOLDOWN, until a card comes in tick 0.
THEOREM Apart == Spec => CardsApart
<1>1. TypeOK /\ IInv /\ [Next]_vars =>
        [\A c \in Cards : Accepts(c) /\ ~zero =>
           /\ \A d \in Cards : quiet[d] >= CARD_NEW_COOLDOWN
           /\ quiet[c] >= CARD_COOLDOWN \/ quiet[c] >= 2 * CARD_NEW_COOLDOWN]_vars
  <2> SUFFICES ASSUME TypeOK, IInv, [Next]_vars, NEW c \in Cards, Accepts(c), ~zero
      PROVE  /\ \A d \in Cards : quiet[d] >= CARD_NEW_COOLDOWN
             /\ quiet[c] >= CARD_COOLDOWN \/ quiet[c] >= 2 * CARD_NEW_COOLDOWN
    OBVIOUS
  <2>1. Accept(c)
    BY DEF Accepts, Next, Poll, Nothing, Miss, Reject, Accept, Skip, Send, AuthTakeCard,
       Present, Tick, vars, reader
  <2> QED BY <2>1, Spacing DEF Accept
<1> QED BY <1>1, TypeCorrect, Invariance, PTL DEF Spec, CardsApart
=============================================================================
