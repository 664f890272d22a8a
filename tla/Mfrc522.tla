------------------------------- MODULE Mfrc522 -------------------------------
(***************************************************************************)
(* The card reader, as far as the code in Src/RFID.c uses it: the SPI with *)
(* the bytes on their way and the replies not yet read, the registers of   *)
(* the MFRC522 the driver relies on, and a card in front of it.            *)
(*                                                                         *)
(* The first byte after the chip select falls is an address; the bytes up  *)
(* to its rise belong to that address.  A byte that is sent while the      *)
(* chip select is high, or the reset low, goes nowhere.  A byte is read as *)
(* FLOATING where the chip drives nothing that is specified.               *)
(***************************************************************************)
EXTENDS PortB, Sequences

CONSTANTS UID,       (* the bytes a card answers the anticollision with    *)
          FLOATING,  (* what an undriven line may read as                  *)
          NONE       (* nothing, no message                                *)

ASSUME Mfrc522Assumption ==
    /\ UID \in Seq(Nat)
    /\ FLOATING \subseteq Nat /\ FLOATING # {}
    /\ NONE \notin [lastBits : Nat, bytes : Seq(Nat)]

(* Registers, commands and messages, by their numbers in RFID.h. *)
CommandReg     == 1
ComIEnReg      == 2
ComIrqReg      == 4
ErrorReg       == 6
FIFODataReg    == 9
FIFOLevelReg   == 10
BitFramingReg  == 13
TxControlReg   == 20
PCD_Idle       == 0
PCD_Transceive == 12
PCD_SoftReset  == 15
PICC_REQA      == 38   (* 0x26 *)
PICC_ANTICOLL  == 147  (* 0x93 *)
ATQA           == <<4, 0>>

VARIABLES
    tx,       (* bytes written to the SPI's data register, not yet shifted *)
    rx,       (* replies shifted in, not yet read                          *)
    chip,     (* the MFRC522                                               *)
    card,     (* whether a card waits for the anticollision                *)
    pending   (* EXTI->PR1: the falling edge of the interrupt line         *)

chipVars == <<tx, rx, chip, card, pending>>

Bit(b, i) == (b \div 2^i) % 2 = 1

(* The bits of ComIrqReg the driver looks at. *)
TimerIRq == 0
IdleIRq  == 4
RxIRq    == 5
Flags(b) == {i \in {TimerIRq, IdleIRq, RxIRq} : Bit(b, i)}
Number(flags) ==
    (IF TimerIRq \in flags THEN 1 ELSE 0) + (IF IdleIRq \in flags THEN 16 ELSE 0)
      + (IF RxIRq \in flags THEN 32 ELSE 0)

ResetChip ==
    [frame |-> "off", reg |-> 0, command |-> PCD_Idle, irq |-> {},
     fifo |-> <<>>, lastBits |-> 0, startSend |-> FALSE, air |-> NONE,
     antenna |-> FALSE, RxIEn |-> FALSE]

ChipInit ==
    /\ tx = <<>> /\ rx = <<>>
    /\ chip = ResetChip
    /\ card = "idle"
    /\ pending = FALSE

Chips ==
    [frame : {"off", "address", "write", "read"}, reg : Nat, command : Nat,
     irq : SUBSET {TimerIRq, IdleIRq, RxIRq}, fifo : Seq(Nat), lastBits : Nat,
     startSend : BOOLEAN, air : {NONE} \cup [lastBits : Nat, bytes : Seq(Nat)],
     antenna : BOOLEAN, RxIEn : BOOLEAN]

ChipTypeOK ==
    /\ tx \in Seq(Nat) /\ rx \in Seq(Nat)
    /\ chip \in Chips
    /\ card \in {"idle", "ready"}
    /\ pending \in BOOLEAN

(* What a change of the pins from odr to pins does to the chip. *)
SeesPins(pins) ==
    IF "RST" \notin pins THEN ResetChip
    ELSE IF "CS" \in pins THEN [chip EXCEPT !.frame = "off", !.reg = 0]
    ELSE IF "CS" \in odr \/ "RST" \notin odr
    THEN [chip EXCEPT !.frame = "address", !.reg = 0]
    ELSE chip

(* The chip after a write of b to register r. *)
Written(c, r, b) ==
    CASE r = CommandReg ->
            IF b % 16 = PCD_SoftReset THEN [ResetChip EXCEPT !.frame = c.frame, !.reg = c.reg]
            ELSE [c EXCEPT !.command = b % 16, !.air = NONE]
      [] r = ComIEnReg     -> [c EXCEPT !.RxIEn = Bit(b, RxIRq)]
      [] r = ComIrqReg     -> [c EXCEPT !.irq = IF Bit(b, 7) THEN @ \cup Flags(b)
                                                ELSE @ \ Flags(b)]
      [] r = FIFODataReg   -> [c EXCEPT !.fifo = Append(@, b)]
      [] r = FIFOLevelReg  -> IF Bit(b, 7) THEN [c EXCEPT !.fifo = <<>>] ELSE c
      [] r = BitFramingReg -> [c EXCEPT !.lastBits = b % 8, !.startSend = Bit(b, 7)]
      [] r = TxControlReg  -> [c EXCEPT !.antenna = Bit(b, 0) /\ Bit(b, 1)]
      [] OTHER             -> c

(* What a read of register r may return, and the chip after it. *)
Reads(c, r) ==
    CASE r = CommandReg   -> {c.command}
      [] r = ComIrqReg    -> {Number(c.irq)}
      [] r = ErrorReg     -> {0, 1}
      [] r = FIFODataReg  -> IF c.fifo = <<>> THEN FLOATING ELSE {Head(c.fifo)}
      [] r = FIFOLevelReg -> {Len(c.fifo)}
      [] r = TxControlReg -> {IF c.antenna THEN 131 ELSE 128}
      [] OTHER            -> FLOATING
Read(c, r) ==
    IF r = FIFODataReg /\ c.fifo # <<>> THEN [c EXCEPT !.fifo = Tail(@)] ELSE c

(* The SPI exchanges a byte with the chip. *)
Shift ==
    /\ tx # <<>>
    /\ tx' = Tail(tx)
    /\ LET b == Head(tx)
           r == (b \div 2) % 64
       IN  \/ /\ chip.frame = "off"
              /\ \E v \in FLOATING : rx' = Append(rx, v)
              /\ chip' = chip
           \/ /\ chip.frame = "address"
              /\ \E v \in FLOATING : rx' = Append(rx, v)
              /\ chip' = [chip EXCEPT !.reg = r,
                                      !.frame = IF Bit(b, 7) THEN "read" ELSE "write"]
           \/ /\ chip.frame = "write"
              /\ \E v \in FLOATING : rx' = Append(rx, v)
              /\ chip' = Written(chip, chip.reg, b)
           \/ /\ chip.frame = "read"
              /\ \E v \in Reads(chip, chip.reg) : rx' = Append(rx, v)
              /\ chip' = [Read(chip, chip.reg) EXCEPT !.reg = r]
    /\ UNCHANGED <<card, pending, portVars>>

(* The chip transmits its FIFO. *)
Transmit ==
    /\ chip.startSend /\ chip.command = PCD_Transceive /\ chip.fifo # <<>>
    /\ chip' = [chip EXCEPT !.air = [lastBits |-> chip.lastBits, bytes |-> chip.fifo],
                            !.fifo = <<>>, !.startSend = FALSE]
    /\ card' = IF chip.fifo = <<PICC_REQA>> THEN "idle" ELSE card
    /\ UNCHANGED <<tx, rx, pending, portVars>>

Request  == [lastBits |-> 7, bytes |-> <<PICC_REQA>>]
Anticoll == [lastBits |-> 0, bytes |-> <<PICC_ANTICOLL, 32>>]

(* A card answers; with RxIEn the interrupt line falls. *)
Answers(reply, exti) ==
    /\ chip.command = PCD_Transceive /\ chip.antenna
    /\ chip' = [chip EXCEPT !.air = NONE, !.fifo = @ \o reply, !.irq = @ \cup {RxIRq}]
    /\ pending' = (pending \/ (exti /\ chip.RxIEn /\ RxIRq \notin chip.irq))
    /\ UNCHANGED <<tx, rx, portVars>>

AnswerRequest(exti) ==
    /\ chip.air = Request
    /\ card' = "ready"
    /\ Answers(ATQA, exti)

AnswerAnticoll(exti) ==
    /\ chip.air = Anticoll /\ card = "ready"
    /\ card' = card
    /\ Answers(UID, exti)
==============================================================================
