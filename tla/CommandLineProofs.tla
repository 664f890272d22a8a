-------------------------- MODULE CommandLineProofs -------------------------
(***************************************************************************)
(* Theorems about CommandLine: the type invariant; that a completed        *)
(* reading of the clock is one moment; that set_time keeps the date and    *)
(* sets the hour it was given; that a command is the line that was typed.  *)
(***************************************************************************)
EXTENDS CommandLine, SequenceTheorems, WellFoundedInduction, TLAPS

(***************************************************************************)
(* The operators.                                                          *)
(***************************************************************************)
LEMMA Least ==
  ASSUME NEW T, T \subseteq Nat, T # {}
  PROVE  \E m \in T : \A k \in T : m <= k
<1>1. PICK m \in T : \A k \in T : <<k, m>> \notin OpToRel(<, Nat)
  BY WFMin, NatLessThanWellFounded, Zenon
<1>2. \A k \in T : ~(k < m)
  BY <1>1, Zenon DEF OpToRel
<1> QED
  BY <1>2

LEMMA HourBitsType == \A byte \in Nat : HourBits(byte) \in 0 .. 63
  BY DEF HourBits

LEMMA BcdType == \A dec \in 0 .. 255 : dec_to_bcd(dec) \in Nat
  BY DEF dec_to_bcd, uint8

LEMMA MomentType ==
  ASSUME NEW h \in 0 .. 255, NEW d \in 0 .. DAYS - 1
  PROVE  Moment(h, d) \in Times
  BY BcdType, HourBitsType DEF Moment, Times

LEMMA ZeroType == Zero \in Times
<1>1. 0 \in 0 .. 255 /\ 0 \in 0 .. DAYS - 1
  BY RtcAssumption
<1> QED
  BY <1>1, MomentType DEF Zero

(* The hours of the day survive BCD and the six bits of the hour in TR.    *)
LEMMA BcdRoundTrip ==
  \A h \in 0 .. 23 : bcd_to_dec(HourBits(dec_to_bcd(h))) = h
  BY DEF bcd_to_dec, HourBits, dec_to_bcd, uint8

LEMMA OrderIs == Order[1] = "TR" /\ Order[2] = "DR"
  BY DEF Order

(* The characters with a meaning are none of the others.                   *)
LEMMA CharsDiffer ==
  /\ BS \notin Text /\ CR \notin Text /\ NUL \notin Chars
  /\ BS # CR
  /\ Text \subseteq Chars /\ BS \in Chars /\ CR \in Chars
  BY CommandLineAssumption DEF Text, Chars, Space, BS, CR, NUL

LEMMA AppendIs ==
  ASSUME NEW S, NEW s \in Seq(S), NEW e
  PROVE  Append(s, e) =
             [i \in 1 .. Len(s) + 1 |-> IF i = Len(s) + 1 THEN e ELSE s[i]]
<1>1. Append(s, e) \in Seq(S \cup {e}) /\ Len(Append(s, e)) = Len(s) + 1
  OBVIOUS
<1>2. \A i \in 1 .. Len(s) + 1 :
          Append(s, e)[i] = IF i = Len(s) + 1 THEN e ELSE s[i]
  OBVIOUS
<1>3. Append(s, e) \in [1 .. Len(s) + 1 -> S \cup {e}]
  BY <1>1, LenProperties
<1> QED
  BY <1>2, <1>3

LEMMA FrontIs ==
  ASSUME NEW S, NEW s \in Seq(S), s # <<>>
  PROVE  Front(s) \in Seq(S) /\ Len(Front(s)) = Len(s) - 1
<1>1. Len(s) \in Nat \ {0}
  OBVIOUS
<1>2. Front(s) = SubSeq(s, 1, Len(s) - 1)
  BY DEF Front
<1> DEFINE n == Len(s) - 1
<1>3. n \in Nat
  BY <1>1
<1>4. \A i \in 1 .. n : s[i] \in S
  BY <1>1
<1> HIDE DEF n
<1>5. SubSeq(s, 1, n) \in Seq(S) /\ Len(SubSeq(s, 1, n)) = n
  BY <1>3, <1>4, SubSeqProperties
<1> QED
  BY <1>2, <1>5 DEF n

LEMMA EmptyLine ==
  ASSUME NEW S
  PROVE  <<>> \in Seq(S) /\ Len(<<>>) < CLI_BUF_SIZE
  BY CommandLineAssumption

(* The string in a buffer whose first NUL is at n.                         *)
LEMMA StringIs ==
  ASSUME NEW b, NEW n \in 0 .. CLI_BUF_SIZE - 1,
         b[n] = NUL, \A i \in 0 .. n - 1 : b[i] # NUL
  PROVE  String(b) = [i \in 1 .. n |-> b[i - 1]]
<1> DEFINE First(k) == b[k] = NUL /\ \A i \in 0 .. k - 1 : b[i] # NUL
<1>0. CLI_BUF_SIZE \in Nat
  BY CommandLineAssumption
<1>1. First(n)
  OBVIOUS
<1>2. ASSUME NEW k \in 0 .. CLI_BUF_SIZE - 1, First(k) PROVE k = n
  <2>1. ~(n < k)
    BY <1>0, <1>2
  <2>2. ~(k < n)
    BY <1>0, <1>2
  <2> QED
    BY <1>0, <2>1, <2>2
<1> HIDE DEF First
<1>3. (CHOOSE k \in 0 .. CLI_BUF_SIZE - 1 : First(k)) = n
  BY <1>1, <1>2
<1> QED
  BY <1>3 DEF String, First

(* Cutting spaces off leaves a string that is no longer.                   *)
LEMMA TrimmedType ==
  ASSUME NEW S, NEW s \in Seq(S)
  PROVE  Trimmed(s) \in Seq(S) /\ Len(Trimmed(s)) <= Len(s)
<1> DEFINE Rest(n) == \A i \in n + 1 .. Len(s) : s[i] = Space
           Cut(n)  == Rest(n) /\ (n = 0 \/ s[n] # Space)
           T == {n \in Nat : Rest(n)}
<1>0. Len(s) \in Nat
  OBVIOUS
<1>1. Len(s) \in T
  BY <1>0
<1>2. PICK m \in T : \A k \in T : m <= k
  <2>1. T \subseteq Nat /\ T # {}
    BY <1>1
  <2> HIDE DEF T
  <2> QED
    BY <2>1, Least
<1>3. m \in 0 .. Len(s)
  BY <1>0, <1>1, <1>2
<1>4. Rest(m)
  BY <1>2
<1>5. ASSUME m # 0, s[m] = Space PROVE FALSE
  <2>1. m \in Nat /\ m - 1 \in Nat /\ (m - 1) + 1 = m
    BY <1>3, <1>5
  <2>2. \A i \in m .. Len(s) : i = m \/ i \in m + 1 .. Len(s)
    BY <1>0, <2>1
  <2>3. Rest(m - 1)
    BY <2>1, <2>2, <1>4, <1>5
  <2>4. m - 1 \in T
    BY <2>1, <2>3
  <2> QED
    BY <1>2, <2>1, <2>4
<1>6. Cut(m)
  BY <1>4, <1>5
<1> DEFINE n == CHOOSE n \in 0 .. Len(s) : Cut(n)
<1>7. n \in 0 .. Len(s)
  <2> HIDE DEF Cut
  <2> QED
    BY <1>3, <1>6
<1>8. Trimmed(s) = SubSeq(s, 1, n)
  BY DEF Trimmed
<1> HIDE DEF n
<1> QED
  BY <1>0, <1>7, <1>8
-----------------------------------------------------------------------------
(***************************************************************************)
(* The clock.  RtcNext is what a step of CommandLine does to it.           *)
(***************************************************************************)
RtcNext ==
    \/ Clock
    \/ \E r \in Readers : RTC_GetTime(r)
    \/ \E r \in Readers : Forget(r)
    \/ EnterInit
    \/ \E h \in 0 .. 255 : WriteTR(h)
    \/ \E d \in 0 .. DAYS - 1 : WriteDR(d)
    \/ ExitInit
    \/ UNCHANGED rtcVars

(* Half a reading that nobody overlapped has the time it began with, and   *)
(* the shadow of DR still the date; a whole one has both.                  *)
HalfRead(r) ==
    reads[r] = 1 /\ ~overlapped[r] =>
        t[r].TR = begun[r].TR /\ frozen /\ shadow.DR = begun[r].DR

StampOK == (\A r \in Readers : HalfRead(r)) /\ StampIsMoment

LEMMA TimesAre ==
  /\ \A m \in Times : m.TR \in 0 .. 63 /\ m.DR \in 0 .. DAYS - 1
  /\ \A m \in Times, tr \in 0 .. 63 : [m EXCEPT !.TR = tr] \in Times
  /\ \A m \in Times, d \in 0 .. DAYS - 1 : [m EXCEPT !.DR = d] \in Times
  /\ \A m, n \in Times : m.TR = n.TR /\ m.DR = n.DR => m = n
  BY DEF Times

LEMMA GetTimeTR ==
  ASSUME NEW r \in Readers, RTC_GetTime(r), reads[r] = 0
  PROVE  /\ reads' = [reads EXCEPT ![r] = 1]
         /\ t' = [t EXCEPT ![r] = [t[r] EXCEPT !.TR = shadow.TR]]
         /\ frozen' = TRUE
         /\ begun' = [begun EXCEPT ![r] = shown]
         /\ UNCHANGED <<calendar, shadow, INIT, shown>>
<1>1. Order[reads[r] + 1] = "TR"
  BY OrderIs
<1>2. t' = [t EXCEPT ![r]["TR"] = shadow["TR"]] /\ frozen' = ("TR" = "TR")
  BY <1>1, Zenon DEF RTC_GetTime
<1>3. reads' = [reads EXCEPT ![r] = 1]
  BY DEF RTC_GetTime
<1>4. begun' = [begun EXCEPT ![r] = shown]
  BY DEF RTC_GetTime
<1> QED
  BY <1>2, <1>3, <1>4, Zenon DEF RTC_GetTime

LEMMA GetTimeDR ==
  ASSUME NEW r \in Readers, RTC_GetTime(r), reads[r] = 1
  PROVE  /\ reads' = [reads EXCEPT ![r] = 2]
         /\ t' = [t EXCEPT ![r] = [t[r] EXCEPT !.DR = shadow.DR]]
         /\ frozen' = FALSE
         /\ UNCHANGED begun
         /\ UNCHANGED <<calendar, shadow, INIT, shown>>
<1>1. Order[reads[r] + 1] = "DR"
  BY OrderIs
<1>2. t' = [t EXCEPT ![r]["DR"] = shadow["DR"]] /\ frozen' = ("DR" = "TR")
  BY <1>1, Zenon DEF RTC_GetTime
<1>3. reads' = [reads EXCEPT ![r] = 2]
  BY DEF RTC_GetTime
<1>4. begun' = begun
  BY DEF RTC_GetTime
<1> QED
  BY <1>2, <1>3, <1>4, Zenon DEF RTC_GetTime

(* Who reads the clock overlaps the others, and may be overlapped already. *)
LEMMA GetTimeOverlaps ==
  ASSUME NEW r \in Readers, RTC_GetTime(r)
  PROVE  /\ overlapped' = [o \in Readers |-> overlapped'[o]]
         /\ \A o \in Readers \ {r} :
                overlapped'[o] = (overlapped[o] \/ reads[o] = 1)
         /\ reads[r] = 0 => overlapped'[r] = (shadow # shown)
         /\ reads[r] = 1 => overlapped'[r] = overlapped[r]
<1> DEFINE Value(o) ==
        CASE o # r                 -> overlapped[o] \/ reads[o] = 1
          [] o = r /\ reads[r] = 0 -> shadow # shown
          [] o = r /\ reads[r] = 1 -> overlapped[r]
<1>1. overlapped' = [o \in Readers |-> Value(o)]
  BY Zenon DEF RTC_GetTime
<1>2. \A o \in Readers \ {r} : Value(o) = (overlapped[o] \/ reads[o] = 1)
  OBVIOUS
<1>3. reads[r] = 0 => Value(r) = (shadow # shown)
  OBVIOUS
<1>4. reads[r] = 1 => Value(r) = overlapped[r]
  OBVIOUS
<1> HIDE DEF Value
<1> QED
  BY <1>1, <1>2, <1>3, <1>4, Zenon

LEMMA GetTimeReads ==
  ASSUME RtcTypeOK, NEW r \in Readers, RTC_GetTime(r)
  PROVE  reads[r] = 0 \/ reads[r] = 1
  BY DEF RTC_GetTime, RtcTypeOK

LEMMA RtcTypeStep ==
  ASSUME RtcTypeOK, RtcNext
  PROVE  RtcTypeOK'
<1>1. ASSUME Clock PROVE RtcTypeOK'
  <2>1. CASE HoursPass
    <3>1. PICK h \in Hours : calendar' = Moment(h, calendar.DR)
      BY <2>1 DEF HoursPass
    <3>2. h \in 0 .. 255
      BY RtcAssumption
    <3>2a. calendar.DR \in 0 .. DAYS - 1
      BY TimesAre DEF RtcTypeOK
    <3>3. calendar' \in Times
      BY <3>1, <3>2, <3>2a, MomentType
    <3> QED
      BY <2>1, <3>3 DEF HoursPass, RtcTypeOK, readVars
  <2>2. CASE Midnight
    <3>1. calendar.DR \in 0 .. DAYS - 1
      BY TimesAre DEF RtcTypeOK
    <3>2. (calendar.DR + 1) % DAYS \in 0 .. DAYS - 1 /\ 0 \in 0 .. 255
      BY <3>1, RtcAssumption
    <3>3. calendar' \in Times
      BY <2>2, <3>2, MomentType DEF Midnight
    <3> QED
      BY <2>2, <3>3 DEF Midnight, RtcTypeOK, readVars
  <2>3. CASE UpdateShadows
    <3>1. shadow' \in Times
      BY <2>3, TimesAre DEF UpdateShadows, RtcTypeOK
    <3> QED
      BY <2>3, <3>1 DEF UpdateShadows, RtcTypeOK, readVars
  <2> QED
    BY <1>1, <2>1, <2>2, <2>3 DEF Clock
<1>2. ASSUME NEW r \in Readers, RTC_GetTime(r) PROVE RtcTypeOK'
  <2>1. CASE reads[r] = 0
    <3>1. [t[r] EXCEPT !.TR = shadow.TR] \in Times
      BY TimesAre DEF RtcTypeOK
    <3>2. t' \in [Readers -> Times]
      <4>1. t' = [t EXCEPT ![r] = [t[r] EXCEPT !.TR = shadow.TR]]
        BY <1>2, <2>1, GetTimeTR
      <4>2. t \in [Readers -> Times]
        BY DEF RtcTypeOK
      <4> QED
        BY <3>1, <4>1, <4>2, Zenon
    <3>2b. begun' \in [Readers -> Times]
      <4>1. begun' = [begun EXCEPT ![r] = shown]
        BY <1>2, <2>1, GetTimeTR
      <4> QED
        BY <4>1 DEF RtcTypeOK
    <3>3. reads' \in [Readers -> 0 .. 2]
      <4>1. reads' = [reads EXCEPT ![r] = 1]
        BY <1>2, <2>1, GetTimeTR
      <4> QED
        BY <4>1 DEF RtcTypeOK
    <3>4. overlapped' \in [Readers -> BOOLEAN]
      <4>1. \A o \in Readers : overlapped'[o] \in BOOLEAN
        BY <1>2, <2>1, GetTimeOverlaps, Zenon DEF RtcTypeOK
      <4> QED
        BY <1>2, <4>1, GetTimeOverlaps, Zenon
    <3> QED
      BY <1>2, <2>1, <3>2, <3>2b, <3>3, <3>4, GetTimeTR DEF RtcTypeOK
  <2>2. CASE reads[r] = 1
    <3>1. [t[r] EXCEPT !.DR = shadow.DR] \in Times
      BY TimesAre DEF RtcTypeOK
    <3>2. t' \in [Readers -> Times]
      <4>1. t' = [t EXCEPT ![r] = [t[r] EXCEPT !.DR = shadow.DR]]
        BY <1>2, <2>2, GetTimeDR
      <4>2. t \in [Readers -> Times]
        BY DEF RtcTypeOK
      <4> QED
        BY <3>1, <4>1, <4>2, Zenon
    <3>3. reads' \in [Readers -> 0 .. 2]
      <4>1. reads' = [reads EXCEPT ![r] = 2]
        BY <1>2, <2>2, GetTimeDR
      <4> QED
        BY <4>1 DEF RtcTypeOK
    <3>4. overlapped' \in [Readers -> BOOLEAN]
      <4>1. \A o \in Readers : overlapped'[o] \in BOOLEAN
        BY <1>2, <2>2, GetTimeOverlaps, Zenon DEF RtcTypeOK
      <4> QED
        BY <1>2, <4>1, GetTimeOverlaps, Zenon
    <3> QED
      BY <1>2, <2>2, <3>2, <3>3, <3>4, GetTimeDR DEF RtcTypeOK
  <2> QED
    BY <1>2, <2>1, <2>2, GetTimeReads
<1>3. ASSUME NEW r \in Readers, Forget(r) PROVE RtcTypeOK'
  BY <1>3, ZeroType DEF Forget, RtcTypeOK, registers
<1>4. ASSUME EnterInit \/ ExitInit PROVE RtcTypeOK'
  BY <1>4 DEF EnterInit, ExitInit, RtcTypeOK, readVars
<1>5. ASSUME NEW h \in 0 .. 255, WriteTR(h) PROVE RtcTypeOK'
  <2>1. calendar' \in Times
    BY <1>5, BcdType, HourBitsType, TimesAre DEF WriteTR, RtcTypeOK
  <2> QED
    BY <1>5, <2>1 DEF WriteTR, RtcTypeOK, readVars
<1>6. ASSUME NEW d \in 0 .. DAYS - 1, WriteDR(d) PROVE RtcTypeOK'
  <2>1. calendar' \in Times
    BY <1>6, TimesAre DEF WriteDR, RtcTypeOK
  <2> QED
    BY <1>6, <2>1 DEF WriteDR, RtcTypeOK, readVars
<1>7. ASSUME UNCHANGED rtcVars PROVE RtcTypeOK'
  BY <1>7 DEF rtcVars, registers, readVars, RtcTypeOK
<1> QED
  BY <1>1, <1>2, <1>3, <1>4, <1>5, <1>6, <1>7 DEF RtcNext

LEMMA StampStep ==
  ASSUME RtcTypeOK, StampOK, RtcNext
  PROVE  StampOK'
<1>1. ASSUME UNCHANGED <<reads, t, begun, overlapped>>,
             frozen' = frozen, frozen => shadow'.DR = shadow.DR
      PROVE  StampOK'
  BY <1>1 DEF StampOK, HalfRead, StampIsMoment
<1>2. ASSUME Clock PROVE StampOK'
  <2>1. shadow \in Times
    BY DEF RtcTypeOK
  <2>2. frozen' = frozen /\ (frozen => shadow'.DR = shadow.DR)
    BY <1>2, <2>1 DEF Clock, HoursPass, Midnight, UpdateShadows, Times
  <2> QED
    BY <1>1, <1>2, <2>2 DEF Clock, HoursPass, Midnight, UpdateShadows, readVars
<1>3. ASSUME EnterInit \/ ExitInit PROVE StampOK'
  BY <1>1, <1>3 DEF EnterInit, ExitInit, readVars
<1>4. ASSUME NEW h \in 0 .. 255, WriteTR(h) PROVE StampOK'
  BY <1>1, <1>4 DEF WriteTR, readVars
<1>5. ASSUME NEW d \in 0 .. DAYS - 1, WriteDR(d) PROVE StampOK'
  BY <1>1, <1>5 DEF WriteDR, readVars
<1>6. ASSUME UNCHANGED rtcVars PROVE StampOK'
  BY <1>1, <1>6 DEF rtcVars, registers, readVars
<1>7. ASSUME NEW r \in Readers, Forget(r) PROVE StampOK'
  <2>1. ASSUME NEW o \in Readers
        PROVE  /\ reads'[o] = IF o = r THEN 0 ELSE reads[o]
               /\ o # r => t'[o] = t[o] /\ begun'[o] = begun[o]
               /\ o # r => (overlapped'[o] <=> overlapped[o])
    BY <1>7 DEF Forget, RtcTypeOK
  <2>2. frozen' = frozen /\ shadow' = shadow
    BY <1>7 DEF Forget, registers
  <2> QED
    BY <2>1, <2>2 DEF StampOK, HalfRead, StampIsMoment
<1>8. ASSUME NEW r \in Readers, RTC_GetTime(r) PROVE StampOK'
  <2>1. ASSUME NEW o \in Readers, o # r
        PROVE  reads'[o] = reads[o] /\ t'[o] = t[o] /\ begun'[o] = begun[o]
    <3>1. CASE reads[r] = 0
      <4>1. reads' = [reads EXCEPT ![r] = 1]
        BY <1>8, <3>1, GetTimeTR
      <4>2. t' = [t EXCEPT ![r] = [t[r] EXCEPT !.TR = shadow.TR]]
        BY <1>8, <3>1, GetTimeTR
      <4>3. begun' = [begun EXCEPT ![r] = shown]
        BY <1>8, <3>1, GetTimeTR
      <4> QED
        BY <2>1, <4>1, <4>2, <4>3, Zenon DEF RtcTypeOK
    <3>2. CASE reads[r] = 1
      <4>1. reads' = [reads EXCEPT ![r] = 2]
        BY <1>8, <3>2, GetTimeDR
      <4>2. t' = [t EXCEPT ![r] = [t[r] EXCEPT !.DR = shadow.DR]]
        BY <1>8, <3>2, GetTimeDR
      <4>3. begun' = begun
        BY <1>8, <3>2, GetTimeDR
      <4> QED
        BY <2>1, <4>1, <4>2, <4>3, Zenon DEF RtcTypeOK
    <3> QED
      BY <1>8, <3>1, <3>2, GetTimeReads
  <2>2. ASSUME NEW o \in Readers, o # r
        PROVE  HalfRead(o)' /\ (reads'[o] = 2 /\ ~overlapped'[o] => t'[o] = begun'[o])
    <3>1. overlapped'[o] <=> overlapped[o] \/ reads[o] = 1
      BY <1>8, <2>2, GetTimeOverlaps
    <3> QED
      BY <2>1, <2>2, <3>1 DEF StampOK, HalfRead, StampIsMoment
  <2>3. HalfRead(r)' /\ (reads'[r] = 2 /\ ~overlapped'[r] => t'[r] = begun'[r])
    <3>0. t[r] \in Times /\ begun[r] \in Times /\ shadow \in Times
      BY DEF RtcTypeOK
    <3>1. CASE reads[r] = 0
      <4>1. /\ reads'[r] = 1 /\ begun'[r] = shown
            /\ t'[r] = [t[r] EXCEPT !.TR = shadow.TR]
            /\ frozen' /\ shadow' = shadow
        BY <1>8, <3>1, GetTimeTR DEF RtcTypeOK
      <4>2. t'[r].TR = shadow.TR
        BY <3>0, <4>1 DEF Times
      <4>3. overlapped'[r] <=> shadow # shown
        BY <1>8, <3>1, GetTimeOverlaps
      <4> QED
        BY <4>1, <4>2, <4>3 DEF HalfRead
    <3>2. CASE reads[r] = 1
      <4>1. /\ reads'[r] = 2 /\ begun'[r] = begun[r]
            /\ t'[r] = [t[r] EXCEPT !.DR = shadow.DR]
        BY <1>8, <3>2, GetTimeDR DEF RtcTypeOK
      <4>2. ~overlapped[r] => t[r].TR = begun[r].TR /\ shadow.DR = begun[r].DR
        BY <3>2 DEF StampOK, HalfRead
      <4>3. t'[r] \in Times /\ t'[r].TR = t[r].TR /\ t'[r].DR = shadow.DR
        BY <3>0, <4>1 DEF Times
      <4>4. ~overlapped[r] => t'[r] = begun[r]
        BY <3>0, <4>2, <4>3, TimesAre
      <4>5. overlapped'[r] <=> overlapped[r]
        BY <1>8, <3>2, GetTimeOverlaps
      <4> QED
        BY <4>1, <4>4, <4>5 DEF HalfRead
    <3> QED
      BY <1>8, <3>1, <3>2, GetTimeReads
  <2> QED
    BY <2>2, <2>3 DEF StampOK, StampIsMoment
<1> QED
  BY <1>2, <1>3, <1>4, <1>5, <1>6, <1>7, <1>8 DEF RtcNext
-----------------------------------------------------------------------------
(***************************************************************************)
(* The line editor.                                                        *)
(***************************************************************************)
InBuffer == IF cli = "poll" THEN [i \in 1 .. idx |-> buf[i - 1]] ELSE <<>>

(* What is in the buffer.  While a command is at work it is about to be    *)
(* cleared, and counts as empty.                                           *)
BufferOK ==
    /\ buf \in [0 .. CLI_BUF_SIZE - 1 -> Chars \cup {NUL}]
    /\ idx \in 0 .. CLI_BUF_SIZE - 1
    /\ \A i \in 0 .. idx - 1 : buf[i] \in Text \cup {BS}

(* The line typed so far is in the buffer, but for the character that      *)
(* vTaskCLI has not read yet.                                              *)
TypedOK ==
    /\ RDR \in Chars \cup {NUL}
    /\ RDR = NUL /\ faithful => typed = InBuffer
    /\ RDR \in Text /\ faithful =>
           Len(InBuffer) < CLI_BUF_SIZE - 1 /\ typed = Append(InBuffer, RDR)
    /\ RDR = BS /\ faithful => InBuffer # <<>> /\ typed = Front(InBuffer)
    /\ RDR = CR => /\ entered # NONE => entered = InBuffer
                   /\ faithful => typed = <<>>

LEMMA InBufferType ==
  ASSUME BufferOK
  PROVE  /\ InBuffer \in Seq(Text \cup {BS})
         /\ Len(InBuffer) = IF cli = "poll" THEN idx ELSE 0
<1>1. CASE cli = "poll"
  <2>1. idx \in Nat /\ CLI_BUF_SIZE \in Nat
    BY CommandLineAssumption DEF BufferOK
  <2>2. \A i \in 1 .. idx : i - 1 \in 0 .. idx - 1
    BY <2>1
  <2>3. \A i \in 1 .. idx : buf[i - 1] \in Text \cup {BS}
    BY <2>2 DEF BufferOK
  <2>4. InBuffer = [i \in 1 .. idx |-> buf[i - 1]]
    BY <1>1 DEF InBuffer
  <2> QED
    BY <1>1, <2>1, <2>3, <2>4
<1>2. CASE cli # "poll"
  BY <1>2 DEF InBuffer
<1> QED
  BY <1>1, <1>2

LEMMA StoreStep ==
  ASSUME BufferOK, TypedOK, Store
  PROVE  BufferOK' /\ TypedOK'
<1>0. CLI_BUF_SIZE \in Nat /\ idx \in Nat
  BY CommandLineAssumption DEF BufferOK
<1>1. PICK c \in Chars \ {CR} :
          /\ Read(c)
          /\ c = BS => idx = 0
          /\ IF idx < CLI_BUF_SIZE - 1
             THEN buf' = [buf EXCEPT ![idx] = c] /\ idx' = idx + 1
             ELSE UNCHANGED editor
          /\ UNCHANGED user
  BY DEF Store
<1>2. cli = "poll" /\ cli' = "poll" /\ RDR = c /\ RDR' = NUL
  BY <1>1 DEF Read, CliMoves
<1>3. c \in Text \cup {BS}
  BY <1>1 DEF Chars
<1>4. Len(InBuffer) = idx
  BY <1>2, InBufferType
<1>5. c = BS => ~faithful
  <2>1. c = BS => InBuffer = <<>>
    BY <1>1, <1>4, InBufferType
  <2> QED
    BY <2>1, <1>2 DEF TypedOK
<1>6. BufferOK'
  <2>1. CASE idx < CLI_BUF_SIZE - 1
    <3>1. buf' = [buf EXCEPT ![idx] = c] /\ idx' = idx + 1
      BY <1>1, <2>1
    <3>2. buf' \in [0 .. CLI_BUF_SIZE - 1 -> Chars \cup {NUL}]
      BY <1>1, <3>1 DEF BufferOK
    <3>3. idx' \in 0 .. CLI_BUF_SIZE - 1
      BY <1>0, <2>1, <3>1
    <3>4. ASSUME NEW i \in 0 .. idx' - 1 PROVE buf'[i] \in Text \cup {BS}
      <4>1. i = idx \/ i \in 0 .. idx - 1
        BY <1>0, <3>1
      <4>2. i \in 0 .. CLI_BUF_SIZE - 1
        BY <1>0, <2>1, <3>1
      <4>3. i # idx => buf'[i] = buf[i]
        BY <3>1, <4>2 DEF BufferOK
      <4>4. i = idx => buf'[i] = c
        BY <3>1, <4>2 DEF BufferOK
      <4> QED
        BY <1>3, <4>1, <4>3, <4>4 DEF BufferOK
    <3> QED
      BY <3>2, <3>3, <3>4 DEF BufferOK
  <2>2. CASE ~(idx < CLI_BUF_SIZE - 1)
    BY <1>1, <2>2 DEF BufferOK, editor
  <2> QED
    BY <2>1, <2>2
<1>7. faithful => typed = InBuffer'
  <2> SUFFICES ASSUME faithful PROVE typed = InBuffer'
    OBVIOUS
  <2>1. c \in Text
    BY <1>3, <1>5
  <2>2. idx < CLI_BUF_SIZE - 1 /\ typed = Append(InBuffer, c)
    BY <1>2, <1>4, <2>1 DEF TypedOK
  <2>3. buf' = [buf EXCEPT ![idx] = c] /\ idx' = idx + 1
    BY <1>1, <2>2
  <2>4. InBuffer' = [i \in 1 .. idx + 1 |-> buf'[i - 1]]
    BY <1>2, <2>3 DEF InBuffer
  <2>5. InBuffer = [i \in 1 .. idx |-> buf[i - 1]]
    BY <1>2 DEF InBuffer
  <2>6. ASSUME NEW i \in 1 .. idx + 1
        PROVE  buf'[i - 1] = IF i = idx + 1 THEN c ELSE InBuffer[i]
    <3>1. i - 1 \in 0 .. CLI_BUF_SIZE - 1
      BY <1>0, <2>2
    <3>2. buf'[i - 1] = IF i - 1 = idx THEN c ELSE buf[i - 1]
      BY <2>3, <3>1 DEF BufferOK
    <3>3. i - 1 # idx => i \in 1 .. idx
      BY <1>0
    <3> QED
      BY <1>0, <2>5, <3>2, <3>3
  <2>7. Append(InBuffer, c) =
            [i \in 1 .. idx + 1 |-> IF i = idx + 1 THEN c ELSE InBuffer[i]]
    <3>1. InBuffer \in Seq(Text \cup {BS})
      BY InBufferType
    <3> HIDE DEF InBuffer
    <3> QED
      BY <1>4, <3>1, AppendIs
  <2> QED
    BY <2>2, <2>4, <2>6, <2>7
<1>8. NUL \notin Text /\ NUL # BS /\ NUL # CR
  BY CharsDiffer
<1> QED
  BY <1>1, <1>2, <1>6, <1>7, <1>8 DEF TypedOK, user

LEMMA EraseStep ==
  ASSUME BufferOK, TypedOK, Erase
  PROVE  BufferOK' /\ TypedOK'
<1>0. CLI_BUF_SIZE \in Nat /\ idx \in Nat
  BY CommandLineAssumption DEF BufferOK
<1>1. /\ cli = "poll" /\ cli' = "poll" /\ RDR = BS /\ RDR' = NUL
      /\ idx > 0 /\ idx' = idx - 1 /\ UNCHANGED <<buf, user>>
  BY DEF Erase, Read, CliMoves
<1>2. idx' \in 0 .. CLI_BUF_SIZE - 1
  BY <1>0, <1>1 DEF BufferOK
<1>3. 0 .. idx' - 1 \subseteq 0 .. idx - 1
  BY <1>0, <1>1
<1>4. BufferOK'
  BY <1>1, <1>2, <1>3 DEF BufferOK
<1>5. Len(InBuffer) = idx /\ InBuffer = [i \in 1 .. idx |-> buf[i - 1]]
  BY <1>1, InBufferType DEF InBuffer
<1>6. InBuffer' = [i \in 1 .. idx - 1 |-> buf[i - 1]]
  BY <1>1 DEF InBuffer
<1>7. Front(InBuffer) = [i \in 1 .. idx - 1 |-> InBuffer[i]]
  BY <1>0, <1>1, <1>5, InBufferType DEF Front
<1>8. \A i \in 1 .. idx - 1 : InBuffer[i] = buf[i - 1]
  BY <1>0, <1>5
<1>9. faithful => typed = InBuffer'
  BY <1>1, <1>6, <1>7, <1>8 DEF TypedOK
<1>10. NUL \notin Text /\ NUL # BS /\ NUL # CR
  BY CharsDiffer
<1> QED
  BY <1>1, <1>4, <1>9, <1>10 DEF TypedOK, user

LEMMA EnterString ==
  ASSUME BufferOK, cli = "poll"
  PROVE  /\ String(Terminated) = InBuffer
         /\ Terminated \in [0 .. CLI_BUF_SIZE - 1 -> Chars \cup {NUL}]
<1>0. CLI_BUF_SIZE \in Nat /\ idx \in 0 .. CLI_BUF_SIZE - 1
  BY CommandLineAssumption DEF BufferOK
<1>1. Terminated = [buf EXCEPT ![idx] = NUL]
  BY DEF Terminated
<1>2. Terminated \in [0 .. CLI_BUF_SIZE - 1 -> Chars \cup {NUL}]
  BY <1>0, <1>1 DEF BufferOK
<1>3. Terminated[idx] = NUL
  BY <1>0, <1>1 DEF BufferOK
<1>4. ASSUME NEW i \in 0 .. idx - 1
      PROVE  Terminated[i] = buf[i] /\ Terminated[i] # NUL
  <2>1. i \in 0 .. CLI_BUF_SIZE - 1 /\ i # idx
    BY <1>0
  <2>2. Terminated[i] = buf[i]
    BY <1>1, <2>1 DEF BufferOK
  <2>3. buf[i] # NUL
    BY CharsDiffer DEF BufferOK
  <2> QED
    BY <2>2, <2>3
<1>5. String(Terminated) = [i \in 1 .. idx |-> Terminated[i - 1]]
  BY <1>0, <1>3, <1>4, StringIs
<1>6. \A i \in 1 .. idx : i - 1 \in 0 .. idx - 1
  BY <1>0
<1>7. InBuffer = [i \in 1 .. idx |-> buf[i - 1]]
  BY DEF InBuffer
<1> HIDE DEF Terminated
<1> QED
  BY <1>2, <1>4, <1>5, <1>6, <1>7

LEMMA EnterStep ==
  ASSUME BufferOK, TypedOK, Enter
  PROVE  BufferOK' /\ TypedOK'
<1>0. CLI_BUF_SIZE \in Nat /\ idx \in 0 .. CLI_BUF_SIZE - 1
  BY CommandLineAssumption DEF BufferOK
<1>1. /\ cli = "poll" /\ cli' = "command" /\ RDR = CR /\ RDR' = NUL
      /\ buf' = Terminated /\ UNCHANGED <<idx, typed, faithful>>
  BY DEF Enter, CliMoves
<1>2. buf' = [buf EXCEPT ![idx] = NUL]
  BY <1>1 DEF Terminated
<1>3. buf' \in [0 .. CLI_BUF_SIZE - 1 -> Chars \cup {NUL}]
  BY <1>1, EnterString
<1>4. \A i \in 0 .. idx - 1 : i \in 0 .. CLI_BUF_SIZE - 1 /\ i # idx
  BY <1>0
<1>5. \A i \in 0 .. idx - 1 : buf'[i] = buf[i]
  BY <1>2, <1>4 DEF BufferOK
<1>6. BufferOK'
  BY <1>1, <1>3, <1>5 DEF BufferOK
<1>7. InBuffer' = <<>>
  BY <1>1 DEF InBuffer
<1>8. NUL \notin Text /\ NUL # BS /\ NUL # CR
  BY CharsDiffer
<1> QED
  BY <1>1, <1>6, <1>7, <1>8 DEF TypedOK

LEMMA EndStep ==
  ASSUME BufferOK, TypedOK, NEW from \in {"command", "printed"}, EndCommand(from)
  PROVE  BufferOK' /\ TypedOK'
<1>0. CLI_BUF_SIZE \in Nat /\ 0 \in 0 .. CLI_BUF_SIZE - 1
  BY CommandLineAssumption
<1>1. /\ cli # "poll" /\ cli' = "poll" /\ idx' = 0 /\ buf' = Blank
      /\ UNCHANGED <<RDR, typed, faithful, entered>>
  BY DEF EndCommand, CliMoves, user
<1>2. buf' \in [0 .. CLI_BUF_SIZE - 1 -> Chars \cup {NUL}]
  BY <1>1 DEF Blank
<1>3. 0 .. idx' - 1 = {}
  BY <1>1
<1>4. BufferOK'
  BY <1>0, <1>1, <1>2, <1>3 DEF BufferOK
<1>5. InBuffer' = <<>>
  <2>1. InBuffer' = [i \in 1 .. 0 |-> buf'[i - 1]]
    BY <1>1 DEF InBuffer
  <2> QED
    BY <2>1
<1>6. InBuffer = <<>>
  BY <1>1 DEF InBuffer
<1> QED
  BY <1>1, <1>4, <1>5, <1>6 DEF TypedOK

LEMMA TypeStep ==
  ASSUME BufferOK, TypedOK, NEW c \in Chars, Type(c)
  PROVE  BufferOK' /\ TypedOK'
<1>1. UNCHANGED <<buf, idx, cli>> /\ InBuffer' = InBuffer
  BY DEF Type, editor, InBuffer
<1>2. BufferOK'
  BY <1>1 DEF BufferOK
<1>3. CASE RDR # NUL
  <2>1. RDR' = RDR /\ ~faithful' /\ entered' = entered
    BY <1>3 DEF Type
  <2> QED
    BY <1>1, <1>2, <1>3, <2>1 DEF TypedOK
<1>4. CASE RDR = NUL /\ c = CR
  <2>1. /\ RDR' = CR /\ entered' = (IF faithful THEN typed ELSE NONE)
        /\ typed' = <<>>
    BY <1>4 DEF Type
  <2>2. entered' # NONE => entered' = InBuffer
    BY <1>4, <2>1 DEF TypedOK
  <2> QED
    BY <1>1, <1>2, <2>1, <2>2, CharsDiffer DEF TypedOK
<1>5. CASE RDR = NUL /\ c # CR /\ faithful /\ Supported(c)
  <2>1. RDR' = c /\ typed' = Edited(c)
    BY <1>5 DEF Type
  <2>2. typed = InBuffer
    BY <1>5 DEF TypedOK
  <2>3. CASE c \in Text
    <3>1. Edited(c) = Append(typed, c) /\ Len(typed) < CLI_BUF_SIZE - 1
      BY <1>5, <2>3, CharsDiffer DEF Edited, Supported
    <3> QED
      BY <1>1, <1>2, <2>1, <2>2, <2>3, <3>1, CharsDiffer DEF TypedOK
  <2>4. CASE c = BS
    <3>1. Edited(c) = Front(typed) /\ typed # <<>>
      BY <1>5, <2>4, CharsDiffer DEF Edited, Supported
    <3> QED
      BY <1>1, <1>2, <2>1, <2>2, <2>4, <3>1, CharsDiffer DEF TypedOK
  <2> QED
    BY <1>5, <2>3, <2>4 DEF Chars
<1>6. CASE RDR = NUL /\ c # CR /\ ~(faithful /\ Supported(c))
  <2>1. RDR' = c /\ ~faithful'
    BY <1>6 DEF Type
  <2> QED
    BY <1>1, <1>2, <1>6, <2>1, CharsDiffer DEF TypedOK
<1> QED
  BY <1>3, <1>4, <1>5, <1>6
-----------------------------------------------------------------------------
(***************************************************************************)
(* The commands.                                                           *)
(***************************************************************************)
CommandTypeOK ==
    /\ cli \in Places
    /\ line \in Seq(Text \cup {BS}) /\ Len(line) < CLI_BUF_SIZE
    /\ hour \in 0 .. 255
    /\ missed \in BOOLEAN

UserTypeOK ==
    /\ typed \in Seq(Text) /\ Len(typed) < CLI_BUF_SIZE
    /\ faithful \in BOOLEAN
    /\ entered = NONE \/ entered \in Seq(Text)

(* The steps of set_time: nothing is read before it begins, and both       *)
(* registers before it stops the calendar; unless                          *)
(* a midnight was missed, the date that DR shows between the two accesses, *)
(* and then the one read, is that of the calendar; and once written, the   *)
(* hour of the calendar is the one given.                                  *)
SetOK ==
    /\ cli \in {"poll", "command"} => reads["cli"] = 0
    /\ cli = "SetTime" => reads["cli"] = 2
    /\ cli \in {"TR", "DR", "exit"} => INIT
    /\ cli = "set_time" /\ reads["cli"] = 1 /\ ~missed => shadow.DR = calendar.DR
    /\ cli \in {"SetTime", "TR", "DR"} /\ ~missed => t["cli"].DR = calendar.DR
    /\ cli \in {"DR", "exit"} => calendar.TR = HourBits(dec_to_bcd(hour))

IInv ==
    /\ RtcTypeOK /\ StampOK
    /\ BufferOK /\ TypedOK
    /\ CommandTypeOK /\ UserTypeOK /\ SetOK

LEMMA ReadersAre == "auth" \in Readers /\ "cli" \in Readers /\ "auth" # "cli"
  BY CommandLineAssumption

LEMMA NextIsRtcNext ==
  ASSUME RtcTypeOK, CommandTypeOK, Next
  PROVE  RtcNext
<1>1. ASSUME TimePasses \/ \E c \in Chars : Type(c) PROVE RtcNext
  BY <1>1 DEF TimePasses, Type, RtcNext
<1>2. ASSUME vTaskCLI PROVE RtcNext
  <2>1. CASE Store
    BY <2>1 DEF Store, RtcNext
  <2>2. CASE Erase \/ Enter \/ SetTimeArgs
    BY <2>2 DEF Erase, Enter, SetTimeArgs, RtcNext
  <2>3. CASE OtherCommand \/ EndCommand("printed")
    BY <2>3, ReadersAre DEF OtherCommand, EndCommand, RtcNext
  <2>4. CASE cmd_status \/ StatusDate \/ SetTimeRead
    BY <2>4, ReadersAre DEF cmd_status, StatusDate, SetTimeRead, RtcNext
  <2>5. CASE SetTimeEnterInit \/ SetTimeExit
    BY <2>5 DEF SetTimeEnterInit, SetTimeExit, RtcNext
  <2>6. CASE SetTimeWriteTR
    BY <2>6 DEF SetTimeWriteTR, RtcNext, CommandTypeOK
  <2>7. CASE SetTimeWriteDR
    <3>1. t["cli"].DR \in 0 .. DAYS - 1
      BY ReadersAre, TimesAre DEF RtcTypeOK
    <3> QED
      BY <2>7, <3>1 DEF SetTimeWriteDR, RtcNext
  <2> QED
    BY <1>2, <2>1, <2>2, <2>3, <2>4, <2>5, <2>6, <2>7 DEF vTaskCLI
<1>3. ASSUME fill_timestamp PROVE RtcNext
  BY <1>3, ReadersAre DEF fill_timestamp, RtcNext
<1> QED
  BY <1>1, <1>2, <1>3 DEF Next, RtcNext

LEMMA EditorStep ==
  ASSUME BufferOK, TypedOK, CommandTypeOK, Next
  PROVE  BufferOK' /\ TypedOK'
<1>1. ASSUME UNCHANGED <<RDR, editor, user>>, cli' = "poll" <=> cli = "poll"
      PROVE  BufferOK' /\ TypedOK'
  <2>1. InBuffer' = InBuffer
    BY <1>1 DEF InBuffer, editor
  <2>2. BufferOK'
    BY <1>1 DEF BufferOK, editor
  <2>3. TypedOK'
    BY <1>1, <2>1 DEF TypedOK, user
  <2> QED
    BY <2>2, <2>3
<1>2. CASE vTaskCLI
  <2>1. CASE Store \/ Erase \/ Enter
    BY <2>1, StoreStep, EraseStep, EnterStep
  <2>2. CASE OtherCommand \/ EndCommand("printed")
    BY <2>2, EndStep DEF OtherCommand
  <2>3. CASE cmd_status \/ StatusDate \/ SetTimeArgs \/ SetTimeRead
    BY <1>1, <2>3 DEF cmd_status, StatusDate, SetTimeArgs, SetTimeRead, CliMoves
  <2>4. CASE SetTimeEnterInit \/ SetTimeWriteTR \/ SetTimeWriteDR \/ SetTimeExit
    BY <1>1, <2>4 DEF SetTimeEnterInit, SetTimeWriteTR, SetTimeWriteDR, SetTimeExit,
                      CliMoves
  <2> QED
    BY <1>2, <2>1, <2>2, <2>3, <2>4 DEF vTaskCLI
<1>3. CASE fill_timestamp \/ TimePasses
  BY <1>1, <1>3 DEF fill_timestamp, TimePasses
<1> QED
  BY <1>2, <1>3, TypeStep DEF Next

LEMMA CommandTypeStep ==
  ASSUME BufferOK, CommandTypeOK, Next
  PROVE  CommandTypeOK'
<1>1. ASSUME UNCHANGED <<cli, command>> PROVE CommandTypeOK'
  BY <1>1 DEF CommandTypeOK, command
<1>2. CASE vTaskCLI
  <2>1. CASE Store \/ Erase
    BY <2>1 DEF Store, Erase, Read, CliMoves, CommandTypeOK, command, Places
  <2>2. CASE Enter
    <3>1. cli = "poll" /\ cli' = "command" /\ UNCHANGED <<hour, missed>>
      BY <2>2 DEF Enter, CliMoves
    <3>2. line' = Trimmed(InBuffer)
      BY <2>2, <3>1, EnterString DEF Enter
    <3>3. line' \in Seq(Text \cup {BS}) /\ Len(line') <= Len(InBuffer)
      BY <3>2, InBufferType, TrimmedType
    <3>4. Len(InBuffer) = idx
      BY <3>1, InBufferType
    <3>5. Len(line') \in Nat /\ Len(line') <= idx
      BY <3>3, <3>4
    <3>6. Len(line') < CLI_BUF_SIZE
      BY <3>5, CommandLineAssumption DEF BufferOK
    <3> QED
      BY <3>1, <3>3, <3>6 DEF CommandTypeOK, Places
  <2>3. CASE OtherCommand \/ EndCommand("printed")
    <3>1. cli' = "poll" /\ line' = <<>> /\ hour' = 0 /\ missed' = FALSE
      BY <2>3 DEF OtherCommand, EndCommand, CliMoves
    <3>2. line' \in Seq(Text \cup {BS}) /\ Len(line') < CLI_BUF_SIZE
      BY <3>1, EmptyLine
    <3>3. cli' \in Places /\ hour' \in 0 .. 255
      BY <3>1 DEF Places
    <3>4. missed' \in BOOLEAN
      BY <3>1
    <3> QED
      BY <3>2, <3>3, <3>4 DEF CommandTypeOK
  <2>4. CASE cmd_status \/ StatusDate \/ SetTimeEnterInit
    BY <2>4 DEF cmd_status, StatusDate, SetTimeEnterInit, CliMoves, CommandTypeOK, command,
                Places
  <2>5. CASE SetTimeArgs
    <3>1. hour' \in 0 .. 255
      BY <2>5, CommandLineAssumption DEF SetTimeArgs
    <3> QED
      BY <2>5, <3>1 DEF SetTimeArgs, CliMoves, CommandTypeOK, Places
  <2>6. CASE SetTimeRead
    <3>1. missed' \in BOOLEAN
      BY <2>6 DEF SetTimeRead, CommandTypeOK
    <3> QED
      BY <2>6, <3>1 DEF SetTimeRead, CliMoves, CommandTypeOK, Places
  <2>7. CASE SetTimeWriteTR \/ SetTimeWriteDR \/ SetTimeExit
    BY <2>7 DEF SetTimeWriteTR, SetTimeWriteDR, SetTimeExit, CliMoves, CommandTypeOK,
                command, Places
  <2> QED
    BY <1>2, <2>1, <2>2, <2>3, <2>4, <2>5, <2>6, <2>7 DEF vTaskCLI
<1>3. CASE fill_timestamp
  BY <1>1, <1>3 DEF fill_timestamp
<1>4. ASSUME NEW c \in Chars, Type(c) PROVE CommandTypeOK'
  BY <1>1, <1>4 DEF Type
<1>5. CASE TimePasses
  <2>1. missed' \in BOOLEAN
    BY <1>5, Zenon DEF TimePasses, CommandTypeOK
  <2> QED
    BY <1>5, <2>1 DEF TimePasses, CommandTypeOK
<1> QED
  BY <1>2, <1>3, <1>4, <1>5 DEF Next

LEMMA UserTypeStep ==
  ASSUME UserTypeOK, Next
  PROVE  UserTypeOK'
<1>1. ASSUME UNCHANGED user PROVE UserTypeOK'
  BY <1>1 DEF UserTypeOK, user
<1>2. CASE vTaskCLI
  <2>1. CASE Enter
    BY <2>1 DEF Enter, UserTypeOK
  <2>2. CASE Store
    BY <1>1, <2>2 DEF Store
  <2>3. CASE Erase \/ OtherCommand \/ EndCommand("printed")
    BY <1>1, <2>3 DEF Erase, OtherCommand, EndCommand
  <2>4. CASE cmd_status \/ StatusDate \/ SetTimeArgs \/ SetTimeRead
    BY <1>1, <2>4 DEF cmd_status, StatusDate, SetTimeArgs, SetTimeRead
  <2>5. CASE SetTimeEnterInit \/ SetTimeWriteTR \/ SetTimeWriteDR \/ SetTimeExit
    BY <1>1, <2>5 DEF SetTimeEnterInit, SetTimeWriteTR, SetTimeWriteDR, SetTimeExit
  <2> QED
    BY <1>2, <2>1, <2>2, <2>3, <2>4, <2>5 DEF vTaskCLI
<1>3. CASE fill_timestamp \/ TimePasses
  BY <1>1, <1>3 DEF fill_timestamp, TimePasses
<1>4. ASSUME NEW c \in Chars, Type(c) PROVE UserTypeOK'
  <2>1. CASE RDR = NUL /\ c = CR
    <3>1. /\ entered' = (IF faithful THEN typed ELSE NONE)
          /\ typed' = <<>> /\ faithful' = TRUE
      BY <1>4, <2>1 DEF Type
    <3> QED
      BY <3>1, CommandLineAssumption DEF UserTypeOK
  <2>2. CASE RDR = NUL /\ c # CR /\ faithful /\ Supported(c)
    <3>1. typed' = Edited(c) /\ faithful' = faithful /\ entered' = entered
      BY <1>4, <2>2 DEF Type
    <3>2. CASE c \in Text
      <4>1. Edited(c) = Append(typed, c) /\ Len(typed) < CLI_BUF_SIZE - 1
        BY <2>2, <3>2, CharsDiffer DEF Edited, Supported
      <4>2. Append(typed, c) \in Seq(Text) /\ Len(Append(typed, c)) = Len(typed) + 1
        BY <3>2 DEF UserTypeOK
      <4>3. Len(typed) \in Nat /\ CLI_BUF_SIZE \in Nat
        BY CommandLineAssumption DEF UserTypeOK
      <4>4. Len(typed') < CLI_BUF_SIZE
        BY <3>1, <4>1, <4>2, <4>3
      <4> QED
        BY <3>1, <4>1, <4>2, <4>4 DEF UserTypeOK
    <3>3. CASE c = BS
      <4>1. Edited(c) = Front(typed) /\ typed # <<>>
        BY <2>2, <3>3, CharsDiffer DEF Edited, Supported
      <4>3. Len(typed) \in Nat
        BY DEF UserTypeOK
      <4>4. Front(typed) \in Seq(Text) /\ Len(Front(typed)) = Len(typed) - 1
        BY <4>1, FrontIs DEF UserTypeOK
      <4>5. Len(typed') < CLI_BUF_SIZE
        BY <3>1, <4>1, <4>3, <4>4, CommandLineAssumption DEF UserTypeOK
      <4> QED
        BY <3>1, <4>1, <4>4, <4>5 DEF UserTypeOK
    <3> QED
      BY <2>2, <3>2, <3>3 DEF Chars
  <2>3. CASE ~(RDR = NUL /\ c = CR) /\ ~(RDR = NUL /\ faithful /\ Supported(c))
    <3>1. typed' = <<>> /\ faithful' = FALSE /\ entered' = entered
      BY <1>4, <2>3 DEF Type
    <3>2. typed' \in Seq(Text) /\ Len(typed') < CLI_BUF_SIZE
      BY <3>1, EmptyLine
    <3>3. faithful' \in BOOLEAN
      BY <3>1
    <3> QED
      BY <3>1, <3>2, <3>3, Zenon DEF UserTypeOK
  <2> QED
    BY <2>1, <2>2, <2>3
<1> QED
  BY <1>1, <1>2, <1>3, <1>4 DEF Next

LEMMA SetStep ==
  ASSUME RtcTypeOK, CommandTypeOK, SetOK, Next
  PROVE  SetOK'
<1>1. ASSUME cli' \in {"status", "printed"} PROVE SetOK'
  BY <1>1 DEF SetOK
<1>2. ASSUME TimePasses PROVE SetOK'
  <2>1. ~INIT /\ UNCHANGED <<reads, t>>
    BY <1>2 DEF TimePasses, Clock, HoursPass, Midnight, UpdateShadows, readVars
  <2>2. cli' = cli /\ cli \notin {"TR", "DR", "exit"}
    BY <1>2, <2>1 DEF TimePasses, SetOK
  <2>3. ASSUME cli \in {"set_time", "SetTime"}, reads["cli"] > 0, ~missed'
        PROVE  ~missed /\ calendar'.DR = calendar.DR
    BY <1>2, <2>3 DEF TimePasses
  <2>4. shadow'.DR \in {shadow.DR, calendar.DR} /\ (calendar' = calendar \/ shadow' = shadow)
    BY <1>2 DEF TimePasses, Clock, HoursPass, Midnight, UpdateShadows, RtcTypeOK, Times
  <2>5. cli = "set_time" /\ reads["cli"] = 1 /\ ~missed' => shadow'.DR = calendar'.DR
    BY <2>3, <2>4 DEF SetOK
  <2>6. cli = "SetTime" /\ ~missed' => t["cli"].DR = calendar'.DR
    BY <2>3 DEF SetOK
  <2> QED
    BY <2>1, <2>2, <2>5, <2>6 DEF SetOK
<1>3. ASSUME NEW c \in Chars, Type(c) PROVE SetOK'
  BY <1>3 DEF Type, SetOK, rtcVars, registers, readVars, command
<1>4. ASSUME fill_timestamp PROVE SetOK'
  <2>1. reads'["cli"] = reads["cli"] /\ t'["cli"] = t["cli"]
    <3>1. CASE RTC_GetTime("auth")
      BY <3>1, ReadersAre DEF RTC_GetTime, RtcTypeOK
    <3>2. CASE Forget("auth")
      BY <3>2, ReadersAre DEF Forget, RtcTypeOK
    <3> QED
      BY <1>4, <3>1, <3>2 DEF fill_timestamp
  <2>2. calendar' = calendar /\ shadow' = shadow /\ INIT' = INIT
    BY <1>4 DEF fill_timestamp, RTC_GetTime, Forget, registers
  <2>3. cli' = cli /\ hour' = hour /\ missed' = missed
    BY <1>4 DEF fill_timestamp, command
  <2> QED
    BY <2>1, <2>2, <2>3 DEF SetOK
<1>5. ASSUME vTaskCLI PROVE SetOK'
  <2>1. CASE Store \/ Erase \/ Enter
    <3>1. cli = "poll" /\ cli' \in {"poll", "command"} /\ reads' = reads
      BY <2>1 DEF Store, Erase, Enter, Read, CliMoves, rtcVars, readVars
    <3> QED
      BY <3>1 DEF SetOK
  <2>2. CASE OtherCommand \/ EndCommand("printed")
    <3>1. cli' = "poll" /\ reads' = [reads EXCEPT !["cli"] = 0]
      BY <2>2 DEF OtherCommand, EndCommand, CliMoves, Forget
    <3> QED
      BY <3>1, ReadersAre DEF SetOK, RtcTypeOK
  <2>3. CASE cmd_status \/ StatusDate
    BY <1>1, <2>3 DEF cmd_status, StatusDate, CliMoves
  <2>4. CASE SetTimeArgs
    <3>1. cli = "command" /\ cli' = "set_time" /\ reads' = reads
      BY <2>4 DEF SetTimeArgs, CliMoves, rtcVars, readVars
    <3> QED
      BY <3>1 DEF SetOK
  <2>5. CASE SetTimeRead
    <3>1. /\ cli = "set_time" /\ cli' = IF reads["cli"] = 0 THEN "set_time" ELSE "SetTime"
          /\ missed' = IF reads["cli"] = 0 THEN shadow.DR # calendar.DR ELSE missed
          /\ calendar' = calendar /\ shadow' = shadow
      BY <2>5 DEF SetTimeRead, CliMoves, RTC_GetTime
    <3>2. CASE reads["cli"] = 0
      BY <3>1, <3>2 DEF SetOK
    <3>3. CASE reads["cli"] = 1
      <4>1. /\ reads' = [reads EXCEPT !["cli"] = 2]
            /\ t' = [t EXCEPT !["cli"] = [t["cli"] EXCEPT !.DR = shadow.DR]]
        BY <2>5, <3>3, ReadersAre, GetTimeDR DEF SetTimeRead
      <4>2. reads'["cli"] = 2 /\ t'["cli"].DR = shadow.DR
        BY <4>1, ReadersAre DEF RtcTypeOK, Times
      <4> QED
        BY <3>1, <3>3, <4>2 DEF SetOK
    <3> QED
      BY <2>5, <3>2, <3>3, ReadersAre, GetTimeReads DEF SetTimeRead
  <2>6. CASE SetTimeEnterInit
    <3>1. /\ cli = "SetTime" /\ cli' = "TR" /\ INIT'
          /\ calendar' = calendar /\ t' = t /\ missed' = missed
      BY <2>6 DEF SetTimeEnterInit, CliMoves, EnterInit, readVars, command
    <3> QED
      BY <3>1 DEF SetOK
  <2>7. CASE SetTimeWriteTR
    <3>1. /\ cli = "TR" /\ cli' = "DR" /\ INIT' = INIT /\ t' = t
          /\ calendar' = [calendar EXCEPT !.TR = HourBits(dec_to_bcd(hour))]
          /\ hour' = hour /\ missed' = missed
      BY <2>7 DEF SetTimeWriteTR, CliMoves, WriteTR, readVars, command
    <3>2. /\ calendar'.TR = HourBits(dec_to_bcd(hour))
          /\ calendar'.DR = calendar.DR
      BY <3>1 DEF RtcTypeOK, Times
    <3> QED
      BY <3>1, <3>2 DEF SetOK
  <2>8. CASE SetTimeWriteDR
    <3>1. /\ cli = "DR" /\ cli' = "exit" /\ INIT' = INIT
          /\ calendar' = [calendar EXCEPT !.DR = t["cli"].DR]
          /\ hour' = hour
      BY <2>8 DEF SetTimeWriteDR, CliMoves, WriteDR, command
    <3>2. calendar'.TR = calendar.TR
      BY <3>1 DEF RtcTypeOK, Times
    <3> QED
      BY <3>1, <3>2 DEF SetOK
  <2>9. CASE SetTimeExit
    BY <1>1, <2>9 DEF SetTimeExit, CliMoves
  <2> QED
    BY <1>5, <2>1, <2>2, <2>3, <2>4, <2>5, <2>6, <2>7, <2>8, <2>9 DEF vTaskCLI
<1> QED
  BY <1>2, <1>3, <1>4, <1>5 DEF Next
-----------------------------------------------------------------------------
LEMMA InitHolds == Init => IInv
<1> SUFFICES ASSUME Init PROVE IInv
  OBVIOUS
<1>1. PICK h \in Hours, d \in 0 .. DAYS - 1 :
          calendar = Moment(h, d) /\ shadow = Moment(h, d) /\ shown = Moment(h, d)
  BY DEF Init, RtcInit
<1>2. h \in 0 .. 255
  BY RtcAssumption
<1>3. /\ frozen = FALSE /\ INIT = FALSE
      /\ reads = [r \in Readers |-> 0]
      /\ t = [r \in Readers |-> Zero] /\ begun = [r \in Readers |-> Zero]
      /\ overlapped = [r \in Readers |-> FALSE]
  BY DEF Init, RtcInit
<1>4. RtcTypeOK
  <2>1. calendar \in Times /\ shadow \in Times /\ shown \in Times
    BY <1>1, <1>2, MomentType
  <2>2. t \in [Readers -> Times] /\ begun \in [Readers -> Times]
    BY <1>3, ZeroType, Zenon
  <2>3. reads \in [Readers -> 0 .. 2]
    BY <1>3
  <2>4. overlapped \in [Readers -> BOOLEAN]
    BY <1>3, Zenon
  <2>5. frozen \in BOOLEAN /\ INIT \in BOOLEAN
    BY <1>3
  <2> QED
    BY <2>1, <2>2, <2>3, <2>4, <2>5 DEF RtcTypeOK
<1>5. StampOK
  BY <1>3 DEF StampOK, HalfRead, StampIsMoment
<1>6. /\ RDR = NUL /\ buf = Blank /\ idx = 0 /\ cli = "poll"
      /\ line = <<>> /\ hour = 0 /\ missed = FALSE
      /\ typed = <<>> /\ faithful = TRUE /\ entered = NONE
  BY DEF Init
<1>7. BufferOK
  <2>1. 0 \in 0 .. CLI_BUF_SIZE - 1
    BY CommandLineAssumption
  <2>2. buf \in [0 .. CLI_BUF_SIZE - 1 -> Chars \cup {NUL}]
    BY <1>6 DEF Blank
  <2>3. 0 .. idx - 1 = {}
    BY <1>6
  <2> QED
    BY <1>6, <2>1, <2>2, <2>3 DEF BufferOK
<1>8. TypedOK
  <2>1. InBuffer = [i \in 1 .. 0 |-> buf[i - 1]]
    BY <1>6 DEF InBuffer
  <2>2. InBuffer = <<>>
    BY <2>1
  <2>3. NUL \notin Text /\ NUL # BS /\ NUL # CR
    BY CharsDiffer
  <2> QED
    BY <1>6, <2>2, <2>3 DEF TypedOK
<1>9. CommandTypeOK /\ UserTypeOK
  <2>1. cli \in Places /\ hour \in 0 .. 255
    BY <1>6 DEF Places
  <2>2. line \in Seq(Text \cup {BS}) /\ Len(line) < CLI_BUF_SIZE
    BY <1>6, EmptyLine
  <2>3. typed \in Seq(Text) /\ Len(typed) < CLI_BUF_SIZE
    BY <1>6, EmptyLine
  <2>4. missed \in BOOLEAN /\ faithful \in BOOLEAN
    BY <1>6
  <2> QED
    BY <1>6, <2>1, <2>2, <2>3, <2>4, Zenon DEF CommandTypeOK, UserTypeOK
<1>10. SetOK
  BY <1>3, <1>6, ReadersAre DEF SetOK
<1> QED
  BY <1>4, <1>5, <1>7, <1>8, <1>9, <1>10 DEF IInv

LEMMA StepHolds == IInv /\ [Next]_vars => IInv'
<1> SUFFICES ASSUME IInv, [Next]_vars PROVE IInv'
  OBVIOUS
<1>1. CASE Next
  BY <1>1, NextIsRtcNext, RtcTypeStep, StampStep, EditorStep, CommandTypeStep,
     UserTypeStep, SetStep DEF IInv
<1>2. CASE UNCHANGED vars
  <2>1. UNCHANGED rtcVars /\ UNCHANGED <<RDR, buf, idx, cli, line, hour, missed>>
    BY <1>2 DEF vars, editor, command
  <2>2. UNCHANGED <<typed, faithful, entered>>
    BY <1>2 DEF vars, user
  <2>3. RtcTypeOK' /\ StampOK'
    BY <2>1, RtcTypeStep, StampStep DEF IInv, RtcNext
  <2>4. BufferOK' /\ TypedOK'
    <3>1. InBuffer' = InBuffer
      BY <2>1 DEF InBuffer
    <3> QED
      BY <2>1, <2>2, <3>1 DEF IInv, BufferOK, TypedOK
  <2>5. CommandTypeOK' /\ UserTypeOK'
    BY <2>1, <2>2 DEF IInv, CommandTypeOK, UserTypeOK
  <2>6. SetOK'
    BY <2>1 DEF IInv, SetOK, rtcVars, registers, readVars
  <2> QED
    BY <2>3, <2>4, <2>5, <2>6 DEF IInv
<1> QED
  BY <1>1, <1>2

LEMMA Invariance == Spec => []IInv
  BY InitHolds, StepHolds, PTL DEF Spec

(* Every variable keeps its type; in particular vTaskCLI never writes past *)
(* the end of its line buffer, whatever is typed.                          *)
THEOREM TypeCorrect == Spec => []TypeOK
<1>1. IInv => TypeOK
  BY DEF IInv, TypeOK, BufferOK, TypedOK, CommandTypeOK, UserTypeOK
<1> QED
  BY <1>1, Invariance, PTL

(* Reading the time before the date reads one moment of the calendar.      *)
THEOREM StampsAreMoments == Spec => []StampIsMoment
<1>1. IInv => StampIsMoment
  BY DEF IInv, StampOK
<1> QED
  BY <1>1, Invariance, PTL

(* The line a command is taken from is the one that was typed.             *)
THEOREM CommandsAreTyped == Spec => CommandIsTyped
<1>1. IInv /\ [Next]_vars => [Enter /\ entered # NONE => line' = Trimmed(entered)]_vars
  <2> SUFFICES ASSUME IInv, Enter, entered # NONE
               PROVE  line' = Trimmed(entered)
    OBVIOUS
  <2>1. cli = "poll" /\ RDR = CR /\ line' = Trimmed(String(Terminated))
    BY DEF Enter, CliMoves
  <2>2. entered = InBuffer
    BY <2>1 DEF IInv, TypedOK
  <2> QED
    BY <2>1, <2>2, EnterString DEF IInv
<1> QED
  BY <1>1, Invariance, PTL DEF Spec, CommandIsTyped

(* set_time writes back the date the calendar has, also when vTaskAuth     *)
(* reads the clock meanwhile.                                              *)
THEOREM DatesAreKept == Spec => DateKept
<1>1. IInv /\ [Next]_vars => [SetTimeWriteDR /\ ~missed => calendar'.DR = calendar.DR]_vars
  <2> SUFFICES ASSUME IInv, SetTimeWriteDR, ~missed
               PROVE  calendar'.DR = calendar.DR
    OBVIOUS
  <2>1. cli = "DR" /\ calendar' = [calendar EXCEPT !.DR = t["cli"].DR]
    BY DEF SetTimeWriteDR, CliMoves, WriteDR
  <2>2. calendar'.DR = t["cli"].DR
    BY <2>1 DEF IInv, RtcTypeOK, Times
  <2> QED
    BY <2>1, <2>2 DEF IInv, SetOK
<1> QED
  BY <1>1, Invariance, PTL DEF Spec, DateKept

(* When set_time lets the calendar go on, its hour is the one given.       *)
THEOREM ClocksAreSet == Spec => ClockIsSet
<1>1. IInv /\ [Next]_vars =>
          [SetTimeExit /\ hour \in 0 .. 23 => bcd_to_dec(calendar.TR) = hour]_vars
  <2> SUFFICES ASSUME IInv, SetTimeExit, hour \in 0 .. 23
               PROVE  bcd_to_dec(calendar.TR) = hour
    OBVIOUS
  <2>1. cli = "exit"
    BY DEF SetTimeExit, CliMoves
  <2>2. calendar.TR = HourBits(dec_to_bcd(hour))
    BY <2>1 DEF IInv, SetOK
  <2> QED
    BY <2>2, BcdRoundTrip
<1> QED
  BY <1>1, Invariance, PTL DEF Spec, ClockIsSet
=============================================================================
