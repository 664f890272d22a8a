-------------------------------- MODULE Rfid --------------------------------
(***************************************************************************)
(* The driver of the card reader, Src/RFID.c: RFID_Init, RFID_DetectCard   *)
(* as vTaskRFID calls it again and again, and the interrupt EXTI0, which   *)
(* runs between any two steps of a task and uses the same bus.             *)
(***************************************************************************)
EXTENDS Mfrc522

CONSTANT POLLS      (* timeout of the two polling loops, 5000              *)

ASSUME RfidAssumption ==
    /\ POLLS \in Nat \ {0}
    /\ NONE \notin {"OK", "ERROR", "TIMEOUT"}

VARIABLES
    at,      (* the part of the driver vTaskRFID is in, a key of Script    *)
    op,      (* which register access of that part                         *)
    x,       (* how far that access is                                     *)
    value,   (* the byte RFID_ReadRegister returned last                   *)
    timeout, (* of the polling loop                                        *)
    uid,     (* card->uid                                                  *)
    status,  (* what RFID_DetectCard is about to return, or returned       *)
    isr,     (* how far EXTI0_IRQHandler is                                *)
    exti,    (* the interrupt is enabled                                   *)
    xRFIDSemaphore

driverVars == <<at, op, x, value, timeout, uid, status>>
isrVars    == <<isr, exti, xRFIDSemaphore>>
rfidVars   == <<driverVars, isrVars, chipVars, portVars>>

(* The bytes of a register access. *)
Write(r, b) == <<2 * r, b>>
ReadReg(r)  == <<128 + 2 * r, 0>>

Idle == Write(CommandReg, PCD_Idle)
ClearIrq == Write(ComIrqReg, 127)
FlushFIFO == Write(FIFOLevelReg, 128)
StopSend == Write(BitFramingReg, 0)

InitOps ==
    << Write(42, 141), Write(43, 62), Write(44, 0), Write(45, 48),
       Write(21, 64), Write(17, 61), ReadReg(TxControlReg) >>
AntennaOn == Write(TxControlReg, 131)
EnableOps == << Write(ComIEnReg, 160), Write(3, 128) >>

ReqaOps ==
    << Idle, ClearIrq, FlushFIFO, Write(FIFODataReg, PICC_REQA),
       Write(BitFramingReg, 7), Write(CommandReg, PCD_Transceive),
       Write(BitFramingReg, 135) >>

(* Mutant of AnticollOps: the flags of the request stay. *)
AnticollOpsNoClear ==
    << FlushFIFO, Idle, Write(FIFODataReg, PICC_ANTICOLL),
       Write(FIFODataReg, 32), StopSend, Write(CommandReg, PCD_Transceive),
       Write(BitFramingReg, 128) >>

AnticollOps ==
    << ClearIrq, FlushFIFO, Idle, Write(FIFODataReg, PICC_ANTICOLL),
       Write(FIFODataReg, 32), StopSend, Write(CommandReg, PCD_Transceive),
       Write(BitFramingReg, 128) >>

CleanupOps == << Idle, ClearIrq, FlushFIFO, StopSend >>

Script ==
    [Init |-> InitOps, Antenna |-> <<AntennaOn>>, Enable |-> EnableOps,
     Version |-> <<ReadReg(55)>>,
     Reqa |-> ReqaOps, ReqaPoll |-> <<ReadReg(ComIrqReg)>>,
     ReqaStop |-> <<StopSend>>, ReqaError |-> <<ReadReg(ErrorReg)>>,
     Anticoll |-> AnticollOps, AnticollPoll |-> <<ReadReg(ComIrqReg)>>,
     AnticollStop |-> <<StopSend>>, AnticollError |-> <<ReadReg(ErrorReg)>>,
     Level |-> <<ReadReg(FIFOLevelReg)>>,
     Uid |-> <<ReadReg(FIFODataReg)>>,
     Cleanup |-> CleanupOps]

Parts == DOMAIN Script

RfidInit ==
    /\ at = "ResetLow" /\ op = 1 /\ x = "load"
    /\ value = 0 /\ timeout = 0 /\ uid = [left |-> 0, bytes |-> <<>>] /\ status = NONE
    /\ isr = "off" /\ exti = FALSE /\ xRFIDSemaphore = 0
    /\ ChipInit
    /\ PortInit

RfidTypeOK ==
    /\ at \in Parts \cup {"ResetLow", "ResetHigh", "Sleep"}
    /\ at \in Parts => op \in 1 .. Len(Script[at])
    /\ x \in {"load", "store", "select", "write1", "read1", "write2", "read2",
             "load2", "deselect"}
    /\ value \in Nat /\ timeout \in 0 .. POLLS
    /\ uid \in [left : 0 .. 5, bytes : Seq(Nat)]
    /\ status \in {NONE, "OK", "ERROR", "TIMEOUT"}
    /\ isr \in {"off", "write1", "read1", "write2", "read2", "raise"}
    /\ exti \in BOOLEAN /\ xRFIDSemaphore \in 0 .. 1
    /\ ChipTypeOK
    /\ PortTypeOK

(* An interrupt is taken before the next step of any task. *)
TasksRun == isr = "off" /\ ~pending

-----------------------------------------------------------------------------
(* RFID_Reset: the reset pin goes down and, after a vTaskDelay, up. *)
ResetPin ==
    /\ at \in {"ResetLow", "ResetHigh"}
    /\ \/ /\ x = "load"
          /\ Load("RFID")
          /\ x' = "store"
          /\ UNCHANGED <<at, chip>>
       \/ /\ x = "store"
          /\ Store("RFID", "RST", at = "ResetHigh")
          /\ chip' = SeesPins(odr')
          /\ x' = "load"
          /\ at' = IF at = "ResetLow" THEN "ResetHigh" ELSE "Init"
    /\ UNCHANGED <<op, value, timeout, uid, status, isrVars, tx, rx, card, pending>>

(* The steps of RFID_WriteRegister and RFID_ReadRegister up to the last:   *)
(* the chip select falls; SPI_TransmitReceive writes a byte and waits for  *)
(* one, twice.                                                             *)
Bytes == Script[at][op]

Select ==
    /\ at \in Parts
    /\ \/ /\ x = "load" /\ x' = "select"
          /\ Load("RFID")
          /\ chip' = chip
       \/ /\ x = "select" /\ x' = "write1"
          /\ Store("RFID", "CS", FALSE)
          /\ chip' = SeesPins(odr')
    /\ UNCHANGED <<at, op, value, timeout, uid, status, isrVars, tx, rx, card, pending>>

SPI_TransmitReceive ==
    /\ \/ /\ x \in {"write1", "write2"}
          /\ tx' = Append(tx, Bytes[IF x = "write1" THEN 1 ELSE 2])
          /\ x' = IF x = "write1" THEN "read1" ELSE "read2"
          /\ UNCHANGED <<rx, value>>
       \/ /\ x \in {"read1", "read2"} /\ rx # <<>>
          /\ rx' = Tail(rx)
          /\ x' = IF x = "read1" THEN "write2" ELSE "load2"
          /\ value' = IF x = "read2" /\ Bytes[1] >= 128 THEN Head(rx) ELSE value
          /\ tx' = tx
    /\ UNCHANGED <<at, op, timeout, uid, status, isrVars, chip, card, pending, portVars>>

BeginDeselect ==
    /\ x = "load2" /\ x' = "deselect"
    /\ Load("RFID")
    /\ UNCHANGED <<at, op, value, timeout, uid, status, isrVars, chipVars>>

(* The last step of an access: the chip select rises and the caller goes on. *)
Goto(part) == at' = part /\ op' = 1
Keep       == UNCHANGED <<timeout, uid, status, exti>>

Returns(s) ==
    /\ Goto("Cleanup")
    /\ status' = s
    /\ UNCHANGED <<timeout, uid, exti>>

StartPolling(part) ==
    /\ Goto(part)
    /\ timeout' = POLLS
    /\ UNCHANGED <<uid, status, exti>>

(* Mutant of Answered: the flags are tested the wrong way round. *)
AnsweredNot == ~(Bit(value, RxIRq) \/ Bit(value, IdleIRq))

Answered == Bit(value, RxIRq) \/ Bit(value, IdleIRq)

Poll(again, stop) ==
    /\ timeout' = timeout - 1
    /\ IF ~Answered /\ timeout' > 0
       THEN Goto(again) ELSE Goto(stop)
    /\ UNCHANGED <<uid, status, exti>>

TimedOut == timeout = 0 \/ Bit(value, TimerIRq)
Failed   == Bit(value, 0) \/ Bit(value, 1) \/ Bit(value, 4)

RFID_Init ==
    \/ at = "Init" /\ Keep /\ Goto(IF Bit(value, 0) \/ Bit(value, 1) THEN "Enable"
                                   ELSE "Antenna")
    \/ at = "Antenna" /\ Keep /\ Goto("Enable")
    \/ at = "Enable" /\ exti' = TRUE /\ UNCHANGED <<timeout, uid, status>> /\ Goto("Version")
    \/ at = "Version" /\ Keep /\ Goto("Sleep")

RFID_REQA ==
    \/ at = "Reqa" /\ StartPolling("ReqaPoll")
    \/ at = "ReqaPoll" /\ Poll("ReqaPoll", "ReqaStop")
    \/ at = "ReqaStop" /\ TimedOut /\ Returns("ERROR")
    \/ at = "ReqaStop" /\ ~TimedOut /\ Keep /\ Goto("ReqaError")
    \/ at = "ReqaError" /\ Failed /\ Returns("ERROR")
    \/ at = "ReqaError" /\ ~Failed /\ Keep /\ Goto("Anticoll")

(* Mutant of FitsUid: a level above the size of the buffer is taken. *)
FitsNot(n) == n > 0

FitsUid(n) == n \in 1 .. 5

RFID_Anticollision ==
    \/ at = "Anticoll" /\ StartPolling("AnticollPoll")
    \/ at = "AnticollPoll" /\ Poll("AnticollPoll", "AnticollStop")
    \/ at = "AnticollStop" /\ TimedOut /\ Returns("TIMEOUT")
    \/ at = "AnticollStop" /\ ~TimedOut /\ Keep /\ Goto("AnticollError")
    \/ at = "AnticollError" /\ Failed /\ Returns("ERROR")
    \/ at = "AnticollError" /\ ~Failed /\ Keep /\ Goto("Level")
    \/ at = "Level" /\ ~FitsUid(value) /\ Returns("ERROR")
    \/ /\ at = "Level" /\ FitsUid(value)
       /\ uid' = [left |-> value, bytes |-> <<>>]
       /\ UNCHANGED <<timeout, status, exti>>
       /\ Goto("Uid")
    \/ /\ at = "Uid"
       /\ uid' = [left |-> uid.left - 1, bytes |-> Append(uid.bytes, value)]
       /\ UNCHANGED <<timeout, exti>>
       /\ IF uid'.left > 0 THEN Goto("Uid") /\ UNCHANGED status
          ELSE Goto("Cleanup") /\ status' = "OK"

RFID_Cleanup == at = "Cleanup" /\ Keep /\ Goto("Sleep")

Deselect ==
    /\ x = "deselect" /\ x' = "load"
    /\ Store("RFID", "CS", TRUE)
    /\ chip' = SeesPins(odr')
    /\ IF op < Len(Script[at]) THEN op' = op + 1 /\ UNCHANGED at /\ Keep
       ELSE RFID_Init \/ RFID_REQA \/ RFID_Anticollision \/ RFID_Cleanup
    /\ value' = IF at' \in {"ReqaStop", "AnticollStop"} THEN value ELSE 0
    /\ UNCHANGED <<isr, xRFIDSemaphore, tx, rx, card, pending>>

(* vTaskRFID has slept RFID_POLL_MS and calls RFID_DetectCard. *)
RFID_DetectCard ==
    /\ at = "Sleep"
    /\ Goto("Reqa")
    /\ Called("RFID")
    /\ uid' = [left |-> 0, bytes |-> <<>>] /\ status' = NONE
    /\ UNCHANGED <<x, value, timeout, isrVars, chipVars>>

vTaskRFID ==
    /\ TasksRun
    /\ \/ ResetPin \/ Select \/ SPI_TransmitReceive \/ BeginDeselect
       \/ Deselect \/ RFID_DetectCard

-----------------------------------------------------------------------------
(* EXTI0_IRQHandler: no task runs before it has returned, but the SPI does. *)
IsrEnters ==
    /\ isr = "off" /\ pending
    /\ pending' = FALSE
    /\ xRFIDSemaphore' = 1
    /\ odr' = odr \ {"CS"}
    /\ chip' = SeesPins(odr')
    /\ isr' = "write1"
    /\ UNCHANGED <<driverVars, exti, tx, rx, card, held, undone, late>>

IsrWrites ==
    /\ isr \in {"write1", "write2"}
    /\ tx' = Append(tx, ClearIrq[IF isr = "write1" THEN 1 ELSE 2])
    /\ isr' = IF isr = "write1" THEN "read1" ELSE "read2"
    /\ UNCHANGED <<driverVars, exti, xRFIDSemaphore, rx, chip, card, pending, portVars>>

(* Mutant of IsrReads: the second reply is not read. *)
IsrReadsOne ==
    /\ \/ /\ isr = "read1" /\ rx # <<>> /\ rx' = Tail(rx) /\ isr' = "write2"
       \/ /\ isr = "read2" /\ rx' = rx /\ isr' = "raise"
    /\ UNCHANGED <<driverVars, exti, xRFIDSemaphore, tx, chip, card, pending, portVars>>

IsrReads ==
    /\ isr \in {"read1", "read2"} /\ rx # <<>>
    /\ rx' = Tail(rx)
    /\ isr' = IF isr = "read1" THEN "write2" ELSE "raise"
    /\ UNCHANGED <<driverVars, exti, xRFIDSemaphore, tx, chip, card, pending, portVars>>

IsrReturns ==
    /\ isr = "raise" /\ isr' = "off"
    /\ odr' = odr \cup {"CS"}
    /\ chip' = SeesPins(odr')
    /\ UNCHANGED <<driverVars, exti, xRFIDSemaphore, tx, rx, card, pending, held, undone, late>>

EXTI0_IRQHandler == IsrEnters \/ IsrWrites \/ IsrReads \/ IsrReturns

(* A card answers, if it does, well before the driver has polled POLLS times. *)
InTime == timeout > 0 \/ at = "Reqa"

Reader ==
    \/ (Shift \/ Transmit) /\ UNCHANGED <<driverVars, isrVars>>
    \/ /\ InTime /\ (AnswerRequest(exti) \/ AnswerAnticoll(exti))
       /\ UNCHANGED <<driverVars, isrVars>>

RfidNext == vTaskRFID \/ EXTI0_IRQHandler \/ Reader
==============================================================================
