-------------------------------- MODULE Board --------------------------------
(***************************************************************************)
(* The two drivers on port B: the card reader's (Rfid) and the keypad's,   *)
(* Src/keypad.c as vTaskKeypad calls it.                                   *)
(***************************************************************************)
EXTENDS Rfid

CONSTANTS ROWS, COLUMNS     (* of the keypad, 4 and 4                      *)

Keys == [row : 0 .. ROWS - 1, col : 0 .. COLUMNS - 1]

ASSUME BoardAssumption ==
    /\ ROWS \in Nat \ {0} /\ COLUMNS \in Nat \ {0}
    /\ \A k \in Keys : k # NONE

VARIABLES
    scan,    (* where Keypad_GetKey is                                     *)
    row, col,
    lows,    (* the columns driven low that are not on port B              *)
    found,   (* the key Keypad_GetKey is about to return, or NONE          *)
    pressed, (* the key under the finger, or NONE                          *)
    seen,    (* history: pressed when found was found                      *)
    times    (* history: how often the present press has been found        *)

keypadVars == <<scan, row, col, lows, found>>
finger     == <<pressed, seen, times>>
vars       == <<rfidVars, keypadVars, finger>>

Init ==
    /\ RfidInit
    /\ scan = "sleep" /\ row = 0 /\ col = 0 /\ lows = {} /\ found = NONE
    /\ pressed = NONE /\ seen = NONE /\ times = 0

ColumnLow(c) == IF c = 0 THEN "COL1" \notin odr ELSE c \in lows

(* The input of a row, which the key under the finger ties to its column. *)
RowLow(r) == pressed # NONE /\ pressed.row = r /\ ColumnLow(pressed.col)

Others == UNCHANGED <<driverVars, isrVars, tx, rx, card, pending>>

(* col_drive_low and col_drive_high: of the four columns only the first is *)
(* on port B; the others' ports are the keypad's alone.                    *)
LoadColumn ==
    /\ scan \in {"low", "high"} /\ col = 0
    /\ Load("Keypad")
    /\ scan' = IF scan = "low" THEN "store low" ELSE "store high"
    /\ UNCHANGED <<row, col, lows, found, finger, chip>> /\ Others

(* The column is high again: Keypad_GetKey returns, or scans the next one. *)
Restored ==
    /\ row' = 0 /\ times' = times
    /\ IF found # NONE \/ col = COLUMNS - 1
       THEN scan' = "sleep" /\ col' = 0 /\ found' = NONE /\ seen' = NONE
       ELSE scan' = "low" /\ col' = col + 1 /\ UNCHANGED <<found, seen>>

StoreColumn ==
    /\ \/ /\ scan = "store low" /\ scan' = "rows"
          /\ Store("Keypad", "COL1", FALSE)
          /\ UNCHANGED <<row, col, found, seen, times>>
       \/ /\ scan = "store high" /\ Restored
          /\ Store("Keypad", "COL1", TRUE)
    /\ chip' = SeesPins(odr')
    /\ UNCHANGED <<lows, pressed>> /\ Others

(* Mutant of ColumnDriven: the column is left low. *)
ColumnLeftLow == lows \cup {col}

ColumnDriven == IF scan = "low" THEN lows \cup {col} ELSE lows \ {col}

DriveColumn ==
    /\ col # 0
    /\ \/ /\ scan = "low" /\ scan' = "rows"
          /\ UNCHANGED <<row, col, found, seen, times>>
       \/ scan = "high" /\ Restored
    /\ lows' = ColumnDriven
    /\ UNCHANGED <<pressed, chip, portVars>> /\ Others

ReadRow ==
    /\ scan = "rows"
    /\ IF RowLow(row)
       THEN /\ scan' = "release" /\ found' = [row |-> row, col |-> col]
            /\ seen' = pressed /\ times' = times + 1
            /\ row' = row
       ELSE /\ IF row = ROWS - 1 THEN scan' = "high" /\ row' = row
               ELSE scan' = scan /\ row' = row + 1
            /\ UNCHANGED <<found, seen, times>>
    /\ UNCHANGED <<col, lows, pressed, chip, portVars>> /\ Others

(* Mutant of Released: the release is not waited for. *)
ReleasedOrNot ==
    /\ scan = "release"
    /\ scan' = "high"
    /\ UNCHANGED <<row, col, lows, found, finger, chip, portVars>> /\ Others

Released ==
    /\ scan = "release" /\ ~RowLow(row)
    /\ scan' = "high"
    /\ UNCHANGED <<row, col, lows, found, finger, chip, portVars>> /\ Others

Keypad_GetKey ==
    /\ scan = "sleep" /\ scan' = "low"
    /\ Called("Keypad")
    /\ UNCHANGED <<row, col, lows, found, finger, chip>> /\ Others

vTaskKeypad ==
    /\ TasksRun
    /\ \/ Keypad_GetKey \/ LoadColumn \/ StoreColumn \/ DriveColumn
       \/ ReadRow \/ Released

(* A user presses one key at a time. *)
Press ==
    /\ pressed = NONE
    /\ pressed' \in Keys /\ times' = 0
    /\ UNCHANGED <<seen, keypadVars, rfidVars>>
Release ==
    /\ pressed # NONE
    /\ pressed' = NONE
    /\ UNCHANGED <<seen, times, keypadVars, rfidVars>>

Next ==
    \/ RfidNext /\ UNCHANGED <<keypadVars, finger>>
    \/ vTaskKeypad
    \/ Press \/ Release

Spec == Init /\ [][Next]_vars

-----------------------------------------------------------------------------
TypeOK ==
    /\ RfidTypeOK
    /\ scan \in {"sleep", "low", "store low", "rows", "release", "high",
                "store high"}
    /\ row \in 0 .. ROWS - 1 /\ col \in 0 .. COLUMNS - 1
    /\ lows \subseteq 1 .. COLUMNS - 1
    /\ {found, pressed, seen} \subseteq Keys \cup {NONE}
    /\ times \in Nat

(* What Src/keypad.c:5 and :15 say of the scan: while the rows are read    *)
(* one column is low, the one being scanned, and the rest are high.  A     *)
(* store of vTaskRFID to the port that both tasks change takes back what   *)
(* vTaskKeypad wrote since the load.                                       *)
OneColumnLow ==
    scan = "rows" => {c \in 0 .. COLUMNS - 1 : ColumnLow(c)} = {col}

(* The key that Keypad_GetKey returns was under the finger when it was     *)
(* found, as long as vTaskRFID has not undone a write of the column's bit: *)
(* no column is left low by an earlier scan.                               *)
KeyIsPressed ==
    "COL1" \notin undone => found = NONE \/ found = seen

(* One press of a key is returned once: Keypad_GetKey waits for the        *)
(* release with the column still low (same proviso).                       *)
OncePerPress ==
    "COL1" \notin undone => times <= 1

(* vTaskRFID and the interrupt share one SPI data register, and the        *)
(* interrupt may come between a byte and its reply.  Whatever happens to   *)
(* the pins, there are as many bytes and replies on their way as           *)
(* SPI_TransmitReceive calls waiting for one: no call waits for ever, and  *)
(* no reply is left for a later access.                                    *)
Waiting ==
    (IF x \in {"read1", "read2"} THEN 1 ELSE 0)
  + (IF isr \in {"read1", "read2"} THEN 1 ELSE 0)

RepliesPaired ==
    Len(tx) + Len(rx) = Waiting

(* The interrupt takes the bus from vTaskRFID in the middle of an access,  *)
(* but only of one whose result is polled again or does not matter any     *)
(* more: a read of ComIrqReg, or the write that starts the sending.        *)
InterruptSparesData ==
    isr # "off" /\ undone = {} =>
        \/ at \in {"ReqaPoll", "AnticollPoll"}
        \/ at \in {"Reqa", "Anticoll"} /\ op = Len(Script[at])

(* A UID that RFID_DetectCard hands on with STATUS_OK is the card's: all   *)
(* its bytes, in order, and not the answer to the request or what the bus  *)
(* carries after the interrupt cut in.  The proviso: vTaskKeypad has       *)
(* undone no write of the chip select or the reset.                        *)
UidIsWhole ==
    status = "OK" /\ undone \cap {"CS", "RST"} = {} => uid.bytes = UID
==============================================================================
