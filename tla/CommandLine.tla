----------------------------- MODULE CommandLine ----------------------------
(***************************************************************************)
(* vTaskCLI (Src/task_cli.c): the line editor, fed by polling a receiver   *)
(* that holds one character, and set_time, on the clock of module Rtc that *)
(* vTaskAuth (Src/task_auth.c) reads for its records.                      *)
(*                                                                         *)
(* vTaskAuth has the higher priority and does not block inside an          *)
(* RTC_GetTime: vTaskCLI stands still meanwhile.  What a line says is      *)
(* abstract: any line that is not empty may be any command, and set_time   *)
(* may have any of the hours SetHours.  dump_log and clear_log are in      *)
(* FlashLog; here they and the other commands only keep the task busy.     *)
(***************************************************************************)
EXTENDS Rtc, Sequences, SequencesExt

CONSTANTS CLI_BUF_SIZE,
          Printable,    (* characters without a meaning to the editor      *)
          SetHours      (* what atoi may make of the argument of set_time  *)

Space == "space"
BS    == "backspace"
CR    == "carriage return"
NUL   == "NUL"

Text  == Printable \cup {Space}
Chars == Text \cup {BS, CR}

ASSUME CommandLineAssumption ==
    /\ Readers = {"auth", "cli"}
    /\ CLI_BUF_SIZE \in Nat \ {0, 1}
    /\ Printable \cap {Space, BS, CR, NUL, NONE} = {}
    /\ SetHours \subseteq 0 .. 255

VARIABLES
    RDR,        (* the receive register; NUL if RXNE is clear              *)
    buf, idx,   (* the line buffer                                         *)
    cli,        (* where vTaskCLI is                                       *)
    line,       (* the string process_command works on                     *)
    hour,       (* the hour set_time was given                             *)
    typed,      (* history: the line as it looks to who types it           *)
    faithful,   (* history: nothing came that the editor does not support  *)
    entered,    (* history: the line typed before the CR in RDR, if it was *)
                (* faithful                                                *)
    missed      (* history: a midnight came since set_time began to read   *)
                (* the clock, or had just come and DR does not show it yet *)

editor  == <<buf, idx>>
user    == <<typed, faithful, entered>>
command == <<line, hour, missed>>
vars    == <<rtcVars, RDR, editor, cli, command, user>>

Blank == [i \in 0 .. CLI_BUF_SIZE - 1 |-> NUL]

Init ==
    /\ RtcInit
    /\ RDR = NUL
    /\ buf = Blank /\ idx = 0
    /\ cli = "poll"
    /\ line = <<>> /\ hour = 0
    /\ typed = <<>> /\ faithful = TRUE /\ entered = NONE
    /\ missed = FALSE
-----------------------------------------------------------------------------
(***************************************************************************)
(* The terminal, external.  A character that finds the last one not yet    *)
(* read is lost.                                                           *)
(***************************************************************************)
Edited(c) ==
    CASE c \in Text -> Append(typed, c)
      [] c = BS     -> Front(typed)

(* The editor has no answer to a line that is full and to a backspace at   *)
(* its start, which it stores.                                             *)
Supported(c) ==
    /\ c \in Text => Len(typed) < CLI_BUF_SIZE - 1
    /\ c = BS => typed # <<>>

Type(c) ==
    /\ IF RDR = NUL THEN RDR' = c ELSE UNCHANGED RDR
    /\ IF RDR = NUL /\ c = CR
       THEN /\ entered' = IF faithful THEN typed ELSE NONE
            /\ typed' = <<>> /\ faithful' = TRUE
       ELSE IF RDR = NUL /\ faithful /\ Supported(c)
       THEN typed' = Edited(c) /\ UNCHANGED <<faithful, entered>>
       ELSE typed' = <<>> /\ faithful' = FALSE /\ UNCHANGED entered
    /\ UNCHANGED <<rtcVars, editor, cli, command>>
-----------------------------------------------------------------------------
(***************************************************************************)
(* vTaskCLI.                                                               *)
(***************************************************************************)
CliMoves(from, to) ==
    /\ reads["auth"] = 0
    /\ cli = from /\ cli' = to

(* Whatever c is, the task then prints, sleeps and polls again. *)
Read(c) == CliMoves("poll", "poll") /\ RDR = c /\ RDR' = NUL

(* Mutant of Store: a full buffer is not noticed in time. *)
StoreTooLate ==
    \E c \in Chars \ {CR} :
        /\ Read(c)
        /\ c = BS => idx = 0
        /\ IF idx < CLI_BUF_SIZE
           THEN buf' = [buf EXCEPT ![idx] = c] /\ idx' = idx + 1
           ELSE UNCHANGED editor
        /\ UNCHANGED <<rtcVars, command, user>>

Store ==
    \E c \in Chars \ {CR} :
        /\ Read(c)
        /\ c = BS => idx = 0
        /\ IF idx < CLI_BUF_SIZE - 1
           THEN buf' = [buf EXCEPT ![idx] = c] /\ idx' = idx + 1
           ELSE UNCHANGED editor
        /\ UNCHANGED <<rtcVars, command, user>>

Erase ==
    /\ Read(BS)
    /\ idx > 0
    /\ idx' = idx - 1
    /\ UNCHANGED <<rtcVars, buf, command, user>>

(* The C string at the start of b. *)
String(b) ==
    LET n == CHOOSE n \in 0 .. CLI_BUF_SIZE - 1 :
                 b[n] = NUL /\ \A i \in 0 .. n - 1 : b[i] # NUL
    IN [i \in 1 .. n |-> b[i - 1]]

(* process_command cuts spaces off the end. *)
Trimmed(s) ==
    LET n == CHOOSE n \in 0 .. Len(s) :
                 /\ \A i \in n + 1 .. Len(s) : s[i] = Space
                 /\ n = 0 \/ s[n] # Space
    IN SubSeq(s, 1, n)

(* Mutant of Terminated: the line is taken without its terminating NUL. *)
TerminatedNot == buf

Terminated == [buf EXCEPT ![idx] = NUL]

Enter ==
    /\ CliMoves("poll", "command") /\ RDR = CR /\ RDR' = NUL
    /\ line' = Trimmed(String(Terminated))
    /\ buf' = Terminated
    /\ entered' = NONE
    /\ UNCHANGED <<rtcVars, idx, hour, missed, typed, faithful>>

(* Back from process_command, after its prints: the buffer is cleared. *)
EndCommand(from) ==
    /\ CliMoves(from, "poll")
    /\ idx' = 0 /\ buf' = Blank
    /\ line' = <<>> /\ hour' = 0 /\ missed' = FALSE
    /\ Forget("cli")
    /\ UNCHANGED <<RDR, user>>

(* An empty line, dump_log, clear_log, help, or an unknown command. *)
OtherCommand == EndCommand("command")

cmd_status ==
    /\ CliMoves("command", "status")
    /\ line # <<>>
    /\ RTC_GetTime("cli")
    /\ UNCHANGED <<RDR, editor, command, user>>

StatusDate ==
    /\ CliMoves("status", "printed")
    /\ RTC_GetTime("cli")
    /\ UNCHANGED <<RDR, editor, command, user>>

SetTimeArgs ==
    /\ CliMoves("command", "set_time")
    /\ line # <<>>
    /\ \E h \in SetHours : hour' = h
    /\ UNCHANGED <<rtcVars, RDR, editor, line, missed, user>>

SetTimeRead ==
    /\ CliMoves("set_time", IF reads["cli"] = 0 THEN "set_time" ELSE "SetTime")
    /\ RTC_GetTime("cli")
    /\ missed' = IF reads["cli"] = 0 THEN shadow.DR # calendar.DR ELSE missed
    /\ UNCHANGED <<RDR, editor, line, hour, user>>

SetTimeEnterInit ==
    /\ CliMoves("SetTime", "TR")
    /\ EnterInit
    /\ UNCHANGED <<RDR, editor, command, user>>

SetTimeWriteTR ==
    /\ CliMoves("TR", "DR")
    /\ WriteTR(hour)
    /\ UNCHANGED <<RDR, editor, command, user>>

(* Mutant of SetTimeWriteDR: the date is left zero. *)
SetTimeWriteDRZero ==
    /\ CliMoves("DR", "exit")
    /\ WriteDR(0)
    /\ UNCHANGED <<RDR, editor, command, user>>

SetTimeWriteDR ==
    /\ CliMoves("DR", "exit")
    /\ WriteDR(t["cli"].DR)
    /\ UNCHANGED <<RDR, editor, command, user>>

SetTimeExit ==
    /\ CliMoves("exit", "printed")
    /\ ExitInit
    /\ UNCHANGED <<RDR, editor, command, user>>

vTaskCLI ==
    \/ Store \/ Erase \/ Enter
    \/ OtherCommand \/ cmd_status \/ StatusDate \/ EndCommand("printed")
    \/ SetTimeArgs \/ SetTimeRead \/ SetTimeEnterInit
    \/ SetTimeWriteTR \/ SetTimeWriteDR \/ SetTimeExit

(* vTaskAuth takes the time of a record, and writes the record. *)
fill_timestamp ==
    /\ RTC_GetTime("auth") \/ (reads["auth"] = 2 /\ Forget("auth"))
    /\ UNCHANGED <<RDR, editor, cli, command, user>>

TimePasses ==
    /\ Clock
    /\ missed' = (missed \/ (/\ cli \in {"set_time", "SetTime"} /\ reads["cli"] > 0
                            /\ calendar'.DR # calendar.DR))
    /\ UNCHANGED <<RDR, editor, cli, line, hour, user>>

Next ==
    \/ TimePasses
    \/ \E c \in Chars : Type(c)
    \/ vTaskCLI
    \/ fill_timestamp

Spec == Init /\ [][Next]_vars
-----------------------------------------------------------------------------
Places == {"poll", "command", "status", "set_time", "SetTime", "TR", "DR", "exit", "printed"}

TypeOK ==
    /\ RtcTypeOK
    /\ RDR \in Chars \cup {NUL}
    /\ buf \in [0 .. CLI_BUF_SIZE - 1 -> Chars \cup {NUL}]
    /\ idx \in 0 .. CLI_BUF_SIZE - 1
    /\ cli \in Places
    /\ line \in Seq(Text \cup {BS}) /\ Len(line) < CLI_BUF_SIZE
    /\ hour \in 0 .. 255
    /\ typed \in Seq(Text) /\ Len(typed) < CLI_BUF_SIZE
    /\ faithful \in BOOLEAN
    /\ entered = NONE \/ entered \in Seq(Text)
    /\ missed \in BOOLEAN

(* process_command gets the line as it looked to who typed it, without its *)
(* trailing spaces, whatever was typed and erased before: nothing of an    *)
(* earlier line or of an erased character is left in it.                   *)
CommandIsTyped ==
    [][Enter /\ entered # NONE => line' = Trimmed(entered)]_vars

(* set_time writes back the date it has read, in the end: it leaves the    *)
(* date as it is, although vTaskAuth may read the clock at any step of it, *)
(* unless a midnight comes while it is at work or has only just come (see  *)
(* missed): that midnight is taken back.                                   *)
DateKept ==
    [][SetTimeWriteDR /\ ~missed => calendar'.DR = calendar.DR]_vars

(* set_time sets the hour it was given, through BCD and the bits of TR, if *)
(* it is an hour of the day (rtc.h:11, "0-23"), which it does not check.   *)
ClockIsSet ==
    [][SetTimeExit /\ hour \in 0 .. 23 => bcd_to_dec(calendar.TR) = hour]_vars
=============================================================================
