--------------------------------- MODULE Rtc --------------------------------
(***************************************************************************)
(* The real-time clock and its driver (Src/rtc.c).  vTaskAuth and vTaskCLI *)
(* read it in two accesses, and vTaskCLI sets it in four; the calendar     *)
(* counts on between any two of them.                                      *)
(*                                                                         *)
(* The calendar is external and follows the reference manual: the          *)
(* registers TR and DR that software reads are shadows, brought up to date *)
(* now and then; reading TR freezes the shadow of DR until DR is read; in  *)
(* initialisation mode the calendar stands still and the shadows are not   *)
(* brought up to date.  TR stands for its hour field, in BCD; minutes and  *)
(* seconds are coded alike.  DR is the number of the day.                  *)
(***************************************************************************)
EXTENDS Naturals

CONSTANTS Readers,   (* the tasks that call RTC_GetTime                    *)
          Hours,     (* the hours at which the model looks at the clock    *)
          DAYS,      (* the number of days until the date repeats          *)
          NONE       (* no time                                            *)

ASSUME RtcAssumption ==
    /\ Hours \subseteq 0 .. 23 /\ 0 \in Hours
    /\ DAYS \in Nat \ {0, 1}

VARIABLES
    calendar,   (* the time and the date, as registers                     *)
    shadow,     (* what reading TR and DR gives                            *)
    frozen,     (* the shadow of DR waits for DR to be read                *)
    INIT,       (* the bit of ISR: initialisation mode                     *)
    reads,      (* the registers each task has read in its RTC_GetTime     *)
    t,          (* what it has read, gone when the task no longer needs it *)
    shown,      (* history: the calendar the shadow of TR was taken from   *)
    begun,      (* history: what was shown when each RTC_GetTime began     *)
    overlapped  (* history: another task read the clock meanwhile, or so   *)
                (* shortly before that the shadows do not agree yet        *)

registers == <<calendar, shadow, frozen, INIT, shown>>
readVars  == <<reads, t, begun, overlapped>>
rtcVars   == <<registers, readVars>>

uint8(n) == n % 256

(* Mutant of dec_to_bcd: the units are what the byte has in its low bits. *)
dec_to_bcd_low_bits(dec) == uint8(16 * (dec \div 10) + (dec % 16))

dec_to_bcd(dec) == uint8(16 * (dec \div 10) + (dec % 10))

bcd_to_dec(bcd) == uint8(10 * (bcd \div 16) + (bcd % 16))

(* The bits of the hour in TR. *)
HourBits(byte) == byte % 64

Moment(h, d) == [TR |-> HourBits(dec_to_bcd(h)), DR |-> d]

Zero == Moment(0, 0)

RtcInit ==
    \E h \in Hours, d \in 0 .. DAYS - 1 :
        /\ calendar = Moment(h, d) /\ shadow = Moment(h, d) /\ shown = Moment(h, d)
        /\ frozen = FALSE /\ INIT = FALSE
        /\ reads = [r \in Readers |-> 0]
        /\ t = [r \in Readers |-> Zero]
        /\ begun = [r \in Readers |-> Zero]
        /\ overlapped = [r \in Readers |-> FALSE]
-----------------------------------------------------------------------------
(* The time goes on, always after the shadows are up to date: to a later   *)
(* hour of the day,                                                        *)
HoursPass ==
    /\ ~INIT /\ shown = calendar
    /\ \E h \in Hours : /\ HourBits(dec_to_bcd(h)) > calendar.TR
                        /\ calendar' = Moment(h, calendar.DR)
    /\ UNCHANGED <<shadow, frozen, INIT, shown, readVars>>

(* or past midnight. *)
Midnight ==
    /\ ~INIT /\ shown = calendar
    /\ calendar' = Moment(0, (calendar.DR + 1) % DAYS)
    /\ UNCHANGED <<shadow, frozen, INIT, shown, readVars>>

UpdateShadows ==
    /\ ~INIT
    /\ shadow # calendar \/ shown # calendar
    /\ shadow' = IF frozen THEN [shadow EXCEPT !.TR = calendar.TR] ELSE calendar
    /\ shown' = calendar
    /\ UNCHANGED <<calendar, frozen, INIT, readVars>>

Clock == HoursPass \/ Midnight \/ UpdateShadows
-----------------------------------------------------------------------------
(* Mutant of Order: the date is read before the time. *)
OrderDateFirst == <<"DR", "TR">>

(* RTC_GetTime reads TR, which latches DR, then DR. *)
Order == <<"TR", "DR">>

RTC_GetTime(r) ==
    LET reg == Order[reads[r] + 1]
    IN /\ reads[r] < 2
       /\ reads' = [reads EXCEPT ![r] = @ + 1]
       /\ t' = [t EXCEPT ![r][reg] = shadow[reg]]
       /\ frozen' = (reg = "TR")
       /\ begun' = IF reads[r] = 0 THEN [begun EXCEPT ![r] = shown] ELSE begun
       /\ overlapped' = [o \in Readers |->
              CASE o # r                -> overlapped[o] \/ reads[o] = 1
                [] o = r /\ reads[r] = 0 -> shadow # shown
                [] o = r /\ reads[r] = 1 -> overlapped[r]]
       /\ UNCHANGED <<calendar, shadow, INIT, shown>>

(* The task has no more use for the time. *)
Forget(r) ==
    /\ reads' = [reads EXCEPT ![r] = 0]
    /\ t' = [t EXCEPT ![r] = Zero] /\ begun' = [begun EXCEPT ![r] = Zero]
    /\ overlapped' = [overlapped EXCEPT ![r] = FALSE]
    /\ UNCHANGED registers

(* RTC_SetTime, one access after the other. *)
EnterInit ==
    /\ INIT' = TRUE
    /\ UNCHANGED <<calendar, shadow, frozen, shown, readVars>>

WriteTR(hour) ==
    /\ INIT
    /\ calendar' = [calendar EXCEPT !.TR = HourBits(dec_to_bcd(hour))]
    /\ UNCHANGED <<shadow, frozen, INIT, shown, readVars>>

WriteDR(day) ==
    /\ INIT
    /\ calendar' = [calendar EXCEPT !.DR = day]
    /\ UNCHANGED <<shadow, frozen, INIT, shown, readVars>>

ExitInit ==
    /\ INIT' = FALSE
    /\ UNCHANGED <<calendar, shadow, frozen, shown, readVars>>
-----------------------------------------------------------------------------
Times == [TR : 0 .. 63, DR : 0 .. DAYS - 1]

RtcTypeOK ==
    /\ calendar \in Times /\ shadow \in Times /\ shown \in Times
    /\ frozen \in BOOLEAN /\ INIT \in BOOLEAN
    /\ reads \in [Readers -> 0 .. 2]
    /\ t \in [Readers -> Times] /\ begun \in [Readers -> Times]
    /\ overlapped \in [Readers -> BOOLEAN]

(* What a completed RTC_GetTime has read is one moment of the calendar:    *)
(* the time is not of one day and the date of another, although midnight   *)
(* may come between the two accesses, unless another task reads the clock  *)
(* between them, which undoes the latch, or has only just read it.         *)
StampIsMoment ==
    \A r \in Readers : reads[r] = 2 /\ ~overlapped[r] => t[r] = begun[r]
=============================================================================
