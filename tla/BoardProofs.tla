----------------------------- MODULE BoardProofs -----------------------------
(***************************************************************************)
(* Proofs about the two drivers on port B, for every number of rows,       *)
(* columns and polls, every UID and everything an undriven line may read   *)
(* as: the types, the keys that Keypad_GetKey returns, the pairing of      *)
(* bytes and replies on the SPI, where the interrupt may take the bus, and *)
(* that a UID handed on is the card's.                                     *)
(*                                                                         *)
(* The first invariant, BoardInv, holds whatever the two tasks do to each  *)
(* other's pins.  The second, Bus, relates the driver's program to what    *)
(* the chip makes of the bytes, access by access, and holds as long as     *)
(* vTaskKeypad has undone no write of the chip select or the reset.        *)
(***************************************************************************)
EXTENDS Board, SequenceTheorems, TLAPS

Access   == Nat \X Nat
Accesses == Seq(Access)

(* A tuple of elements of S is a sequence of them.                         *)
LEMMA OneOf ==
    ASSUME NEW S, NEW a \in S
    PROVE  <<a>> \in Seq(S) /\ Len(<<a>>) = 1
  OBVIOUS

LEMMA TwoOf ==
    ASSUME NEW S, NEW a \in S, NEW b \in S
    PROVE  <<a, b>> \in Seq(S) /\ Len(<<a, b>>) = 2
  OBVIOUS

LEMMA FourOf ==
    ASSUME NEW S, NEW a \in S, NEW b \in S, NEW c \in S, NEW d \in S
    PROVE  <<a, b, c, d>> \in Seq(S) /\ Len(<<a, b, c, d>>) = 4
  OBVIOUS

LEMMA SevenOf ==
    ASSUME NEW S, NEW a \in S, NEW b \in S, NEW c \in S, NEW d \in S, NEW e \in S, NEW f \in S, NEW g \in S
    PROVE  <<a, b, c, d, e, f, g>> \in Seq(S) /\ Len(<<a, b, c, d, e, f, g>>) = 7
  OBVIOUS

LEMMA EightOf ==
    ASSUME NEW S, NEW a \in S, NEW b \in S, NEW c \in S, NEW d \in S, NEW e \in S, NEW f \in S, NEW g \in S, NEW h \in S
    PROVE  <<a, b, c, d, e, f, g, h>> \in Seq(S) /\ Len(<<a, b, c, d, e, f, g, h>>) = 8
  OBVIOUS

(* Every part of the driver is a sequence of register accesses of two      *)
(* bytes each.                                                             *)
LEMMA WriteType ==
    ASSUME NEW r \in Nat, NEW b \in Nat
    PROVE  Write(r, b) \in Access
  BY DEF Write, Access

LEMMA ReadRegType ==
    ASSUME NEW r \in Nat
    PROVE  ReadReg(r) \in Access
  BY DEF ReadReg, Access

LEMMA ScriptType ==
    \A p \in Parts : Script[p] \in Accesses /\ Len(Script[p]) > 0
<1> DEFINE Ok(s) == s \in Accesses /\ Len(s) > 0
<1>0. \A r \in Nat, b \in Nat : Write(r, b) \in Access
  BY WriteType
<1>i. Idle \in Access /\ ClearIrq \in Access /\ FlushFIFO \in Access /\ StopSend \in Access
      /\ AntennaOn \in Access
  BY <1>0 DEF Idle, ClearIrq, FlushFIFO, StopSend, AntennaOn, CommandReg, PCD_Idle,
     ComIrqReg, FIFOLevelReg, BitFramingReg, TxControlReg
<1>1. Ok(InitOps)
  <2>1. ReadReg(TxControlReg) \in Access
    BY ReadRegType DEF TxControlReg
  <2>2. Write(42, 141) \in Access /\ Write(43, 62) \in Access /\ Write(44, 0) \in Access
        /\ Write(45, 48) \in Access /\ Write(21, 64) \in Access /\ Write(17, 61) \in Access
    BY <1>0
  <2>3. InitOps \in Seq(Access) /\ Len(InitOps) = 7
    BY <2>1, <2>2, SevenOf, Zenon DEF InitOps
  <2> QED  BY <2>3 DEF Accesses
<1>2. Ok(EnableOps)
  <2>1. Write(ComIEnReg, 160) \in Access /\ Write(3, 128) \in Access
    BY <1>0 DEF ComIEnReg
  <2>2. EnableOps \in Seq(Access) /\ Len(EnableOps) = 2
    BY <2>1, TwoOf, Zenon DEF EnableOps
  <2> QED  BY <2>2 DEF Accesses
<1>3. Ok(ReqaOps)
  <2>1. Write(FIFODataReg, PICC_REQA) \in Access /\ Write(BitFramingReg, 7) \in Access
        /\ Write(CommandReg, PCD_Transceive) \in Access /\ Write(BitFramingReg, 135) \in Access
    BY <1>0 DEF FIFODataReg, PICC_REQA, BitFramingReg, CommandReg, PCD_Transceive
  <2>2. ReqaOps \in Seq(Access) /\ Len(ReqaOps) = 7
    BY <1>i, <2>1, SevenOf, Zenon DEF ReqaOps
  <2> QED  BY <2>2 DEF Accesses
<1>4. Ok(AnticollOps)
  <2>1. Write(FIFODataReg, PICC_ANTICOLL) \in Access /\ Write(FIFODataReg, 32) \in Access
        /\ Write(CommandReg, PCD_Transceive) \in Access /\ Write(BitFramingReg, 128) \in Access
    BY <1>0 DEF FIFODataReg, PICC_ANTICOLL, BitFramingReg, CommandReg, PCD_Transceive
  <2>2. AnticollOps \in Seq(Access) /\ Len(AnticollOps) = 8
    BY <1>i, <2>1, EightOf, Zenon DEF AnticollOps
  <2> QED  BY <2>2 DEF Accesses
<1>5. Ok(CleanupOps)
  <2>1. CleanupOps \in Seq(Access) /\ Len(CleanupOps) = 4
    BY <1>i, FourOf, Zenon DEF CleanupOps
  <2> QED  BY <2>1 DEF Accesses
<1>o. \A a \in Access : Ok(<<a>>)
  BY OneOf DEF Accesses
<1>6. Ok(<<AntennaOn>>) /\ Ok(<<StopSend>>)
  BY <1>i, <1>o
<1>7. \A r \in Nat : Ok(<<ReadReg(r)>>)
  BY ReadRegType, <1>o
<1> HIDE DEF Ok
<1>8. Ok(<<ReadReg(55)>>) /\ Ok(<<ReadReg(ComIrqReg)>>) /\ Ok(<<ReadReg(ErrorReg)>>)
      /\ Ok(<<ReadReg(FIFOLevelReg)>>) /\ Ok(<<ReadReg(FIFODataReg)>>)
  BY <1>7 DEF ComIrqReg, ErrorReg, FIFOLevelReg, FIFODataReg
<1>9. \A p \in Parts : Ok(Script[p])
  BY <1>1, <1>2, <1>3, <1>4, <1>5, <1>6, <1>8 DEF Script, Parts
<1> QED
  BY <1>9 DEF Ok

-----------------------------------------------------------------------------
(* What the chip becomes is a chip. *)
LEMMA BitType == \A b, i : Bit(b, i) \in BOOLEAN
  BY DEF Bit

LEMMA ResetType == ResetChip \in Chips
<1>1. <<>> \in Seq(Nat) /\ {} \in SUBSET {TimerIRq, IdleIRq, RxIRq}
  OBVIOUS
<1> QED  BY <1>1 DEF ResetChip, Chips, PCD_Idle

LEMMA SeesType ==
    ASSUME chip \in Chips, NEW pins
    PROVE  SeesPins(pins) \in Chips
<1>1. [chip EXCEPT !.frame = "off", !.reg = 0] \in Chips
      /\ [chip EXCEPT !.frame = "address", !.reg = 0] \in Chips
  BY DEF Chips
<1> QED  BY <1>1, ResetType DEF SeesPins

LEMMA WrittenType ==
    ASSUME NEW c \in Chips, NEW r \in Nat, NEW b \in Nat
    PROVE  Written(c, r, b) \in Chips
<1>1. b % 16 \in Nat /\ b % 8 \in Nat
  OBVIOUS
<1>2. Flags(b) \subseteq {TimerIRq, IdleIRq, RxIRq}
  BY DEF Flags
<1>3. Append(c.fifo, b) \in Seq(Nat) /\ <<>> \in Seq(Nat)
  BY DEF Chips
<1>4. [ResetChip EXCEPT !.frame = c.frame, !.reg = c.reg] \in Chips
  BY ResetType DEF Chips
<1>5. [c EXCEPT !.command = b % 16, !.air = NONE] \in Chips
  BY <1>1 DEF Chips
<1>6. [c EXCEPT !.RxIEn = Bit(b, RxIRq)] \in Chips
      /\ [c EXCEPT !.antenna = Bit(b, 0) /\ Bit(b, 1)] \in Chips
  <2>1. (Bit(b, 0) /\ Bit(b, 1)) \in BOOLEAN
    OBVIOUS
  <2> QED  BY <2>1, BitType DEF Chips
<1>7. [c EXCEPT !.irq = IF Bit(b, 7) THEN @ \cup Flags(b) ELSE @ \ Flags(b)] \in Chips
  BY <1>2 DEF Chips
<1>8. [c EXCEPT !.fifo = Append(@, b)] \in Chips /\ [c EXCEPT !.fifo = <<>>] \in Chips
  BY <1>3 DEF Chips
<1>9. [c EXCEPT !.lastBits = b % 8, !.startSend = Bit(b, 7)] \in Chips
  BY <1>1, BitType DEF Chips
<1> QED  BY <1>4, <1>5, <1>6, <1>7, <1>8, <1>9 DEF Written

LEMMA ReadsType ==
    ASSUME NEW c \in Chips, NEW r \in Nat, NEW v \in Reads(c, r)
    PROVE  v \in Nat
<1>1. Number(c.irq) \in Nat
  BY DEF Number
<1>2. c.fifo # <<>> => Head(c.fifo) \in Nat
  BY DEF Chips
<1>3. Len(c.fifo) \in Nat /\ c.command \in Nat
  BY DEF Chips
<1>4. FLOATING \subseteq Nat
  BY Mfrc522Assumption
<1> QED  BY <1>1, <1>2, <1>3, <1>4 DEF Reads

LEMMA ReadType ==
    ASSUME NEW c \in Chips, NEW r
    PROVE  Read(c, r) \in Chips
<1>1. c.fifo \in Seq(Nat)
  BY DEF Chips
<1>2. CASE c.fifo = <<>>
  BY <1>2 DEF Read
<1>3. CASE c.fifo # <<>>
  <2>1. Tail(c.fifo) \in Seq(Nat)
    BY <1>1, <1>3
  <2>2. [c EXCEPT !.fifo = Tail(@)] \in Chips
    BY <2>1 DEF Chips
  <2> QED  BY <2>2 DEF Read
<1> QED  BY <1>2, <1>3

(* A byte is taken off the way to the chip and a reply is put on the way   *)
(* back.                                                                   *)
LEMMA ShiftEffect ==
    ASSUME ChipTypeOK, Shift
    PROVE  /\ ChipTypeOK'
           /\ Len(tx') + Len(rx') = Len(tx) + Len(rx)
<1>1. tx # <<>> /\ Head(tx) \in Nat /\ Tail(tx) \in Seq(Nat) /\ Len(Tail(tx)) = Len(tx) - 1
  BY DEF Shift, ChipTypeOK
<1> DEFINE b == Head(tx)
           r == (b \div 2) % 64
<1>2. b \in Nat /\ r \in Nat
  BY <1>1
<1> HIDE DEF b, r
<1>3. chip' \in Chips /\ \E v \in Nat : rx' = Append(rx, v)
  <2>1. FLOATING \subseteq Nat
    BY Mfrc522Assumption
  <2>2. CASE chip.frame = "off" /\ chip' = chip /\ \E v \in FLOATING : rx' = Append(rx, v)
    BY <2>1, <2>2 DEF ChipTypeOK
  <2>3. CASE /\ chip' = [chip EXCEPT !.reg = r, !.frame = IF Bit(b, 7) THEN "read" ELSE "write"]
             /\ \E v \in FLOATING : rx' = Append(rx, v)
    BY <2>1, <2>3, <1>2 DEF ChipTypeOK, Chips
  <2>4. CASE chip' = Written(chip, chip.reg, b) /\ \E v \in FLOATING : rx' = Append(rx, v)
    <3>1. chip.reg \in Nat
      BY DEF ChipTypeOK, Chips
    <3> QED  BY <2>1, <2>4, <3>1, <1>2, WrittenType DEF ChipTypeOK
  <2>5. CASE /\ chip' = [Read(chip, chip.reg) EXCEPT !.reg = r]
             /\ \E v \in Reads(chip, chip.reg) : rx' = Append(rx, v)
    <3>1. chip.reg \in Nat /\ chip \in Chips
      BY DEF ChipTypeOK, Chips
    <3>2. \A v \in Reads(chip, chip.reg) : v \in Nat
      BY <3>1, ReadsType
    <3>3. Read(chip, chip.reg) \in Chips
      BY <3>1, ReadType
    <3>4. chip' \in Chips
      BY <3>3, <2>5, <1>2 DEF Chips
    <3> QED  BY <3>2, <3>4, <2>5
  <2> QED  BY <2>2, <2>3, <2>4, <2>5 DEF Shift, b, r
<1>4. PICK v \in Nat : rx' = Append(rx, v)
  BY <1>3
<1>5. rx' \in Seq(Nat) /\ Len(rx') = Len(rx) + 1
  BY <1>4 DEF ChipTypeOK
<1>6. tx' = Tail(tx) /\ card' = card /\ pending' = pending
  BY DEF Shift
<1>7. Len(tx) \in Nat /\ Len(rx) \in Nat
  BY DEF ChipTypeOK
<1> QED  BY <1>1, <1>3, <1>5, <1>6, <1>7 DEF ChipTypeOK

LEMMA ReplyType ==
    ATQA \in Seq(Nat) /\ UID \in Seq(Nat) /\ RxIRq \in {TimerIRq, IdleIRq, RxIRq}
  BY Mfrc522Assumption DEF ATQA

LEMMA ReaderEffect ==
    ASSUME ChipTypeOK, exti \in BOOLEAN,
           Transmit \/ AnswerRequest(exti) \/ AnswerAnticoll(exti)
    PROVE  ChipTypeOK' /\ tx' = tx /\ rx' = rx
<1>1. CASE Transmit
  <2>1. [lastBits |-> chip.lastBits, bytes |-> chip.fifo] \in [lastBits : Nat, bytes : Seq(Nat)]
    BY DEF ChipTypeOK, Chips
  <2>2. \A a \in [lastBits : Nat, bytes : Seq(Nat)] :
            [chip EXCEPT !.air = a, !.fifo = <<>>, !.startSend = FALSE] \in Chips
    <3> SUFFICES ASSUME NEW a \in [lastBits : Nat, bytes : Seq(Nat)]
                 PROVE  [chip EXCEPT !.air = a, !.fifo = <<>>, !.startSend = FALSE] \in Chips
      OBVIOUS
    <3> DEFINE Air == {NONE} \cup [lastBits : Nat, bytes : Seq(Nat)]
    <3>1. a \in Air /\ <<>> \in Seq(Nat) /\ FALSE \in BOOLEAN
      OBVIOUS
    <3>2. \A y \in Air, s \in Seq(Nat), z \in BOOLEAN :
              [chip EXCEPT !.air = y, !.fifo = s, !.startSend = z] \in Chips
      <4>1. chip \in Chips
        BY DEF ChipTypeOK
      <4> HIDE DEF Air
      <4> QED  BY <4>1 DEF Chips, Air
    <3> HIDE DEF Air
    <3> QED  BY <3>1, <3>2
  <2>3. chip' \in Chips
    BY <1>1, <2>1, <2>2 DEF Transmit
  <2> QED  BY <1>1, <2>3 DEF Transmit, ChipTypeOK
<1>2. ASSUME NEW reply \in Seq(Nat), Answers(reply, exti), card' \in {"idle", "ready"}
      PROVE  ChipTypeOK' /\ tx' = tx /\ rx' = rx
  <2>1. chip.fifo \o reply \in Seq(Nat)
    BY DEF ChipTypeOK, Chips
  <2>2. chip.irq \cup {RxIRq} \in SUBSET {TimerIRq, IdleIRq, RxIRq}
    BY ReplyType DEF ChipTypeOK, Chips
  <2>3. chip' \in Chips
    BY <1>2, <2>1, <2>2 DEF Answers, ChipTypeOK, Chips
  <2>4. pending' \in BOOLEAN
    BY <1>2 DEF Answers, ChipTypeOK
  <2> QED  BY <1>2, <2>3, <2>4 DEF Answers, ChipTypeOK
<1>3. CASE AnswerRequest(exti)
  BY <1>2, <1>3, ReplyType DEF AnswerRequest
<1>4. CASE AnswerAnticoll(exti)
  BY <1>2, <1>4, ReplyType DEF AnswerAnticoll, ChipTypeOK
<1> QED  BY <1>1, <1>3, <1>4

-----------------------------------------------------------------------------
LEMMA LoadType ==
    ASSUME PortTypeOK, NEW d \in Drivers, Load(d)
    PROVE  PortTypeOK'
  BY DEF PortTypeOK, Load

LEMMA StoreType ==
    ASSUME PortTypeOK, NEW d \in Drivers, NEW p \in Pins, NEW high \in BOOLEAN,
           Store(d, p, high)
    PROVE  PortTypeOK'
<1>1. odr' \in SUBSET Pins
  BY DEF PortTypeOK, Store, With
<1>2. undone' \in SUBSET Pins
  BY DEF PortTypeOK, Store
<1> QED  BY <1>1, <1>2 DEF PortTypeOK, Store

LEMMA CalledType ==
    ASSUME PortTypeOK, NEW d \in Drivers, Called(d)
    PROVE  PortTypeOK'
<1>1. late' \in [Drivers -> 0 .. LATE]
  <2>1. CASE undone = {}
    BY <2>1 DEF PortTypeOK, Called
  <2>2. CASE undone # {}
    <3>1. late[d] \in Nat /\ late[d] + 1 \in 0 .. LATE
      BY <2>2, PortAssumption DEF PortTypeOK, Called
    <3> QED  BY <3>1, <2>2 DEF PortTypeOK, Called
  <2> QED  BY <2>1, <2>2
<1> QED  BY <1>1 DEF PortTypeOK, Called

(* The parts that wait for an answer have polls left, and the part that    *)
(* reads the UID has bytes to read; the driver starts with a first access. *)
CountersOK ==
    /\ at \in {"ReqaPoll", "AnticollPoll"} => timeout > 0
    /\ at = "Uid" => uid.left > 0
    /\ at \in {"ResetLow", "ResetHigh"} => op = 1
    /\ x \notin {"load", "store"} => at \in Parts

ReaderInv == RfidTypeOK /\ CountersOK

LEMMA InitType == RfidInit => ReaderInv
<1> SUFFICES ASSUME RfidInit PROVE ReaderInv
  OBVIOUS
<1>1. PortTypeOK
  BY PortAssumption DEF RfidInit, PortInit, PortTypeOK
<1>2. ChipTypeOK
  <2>1. chip = ResetChip /\ tx = <<>> /\ rx = <<>> /\ card = "idle" /\ pending = FALSE
    BY DEF RfidInit, ChipInit
  <2>2. tx \in Seq(Nat) /\ rx \in Seq(Nat)
    BY <2>1
  <2>3. chip \in Chips
    BY <2>1, ResetType
  <2> QED  BY <2>1, <2>2, <2>3 DEF ChipTypeOK
<1>3. at \in Parts \cup {"ResetLow", "ResetHigh", "Sleep"} /\ at \notin Parts
  BY DEF RfidInit, Parts, Script
<1>4. uid \in [left : 0 .. 5, bytes : Seq(Nat)]
  BY DEF RfidInit
<1>5. timeout \in 0 .. POLLS
  BY RfidAssumption DEF RfidInit
<1>6. CountersOK
  BY DEF RfidInit, CountersOK
<1>7. /\ x \in {"load", "store", "select", "write1", "read1", "write2", "read2",
                "load2", "deselect"}
      /\ status \in {NONE, "OK", "ERROR", "TIMEOUT"}
      /\ isr \in {"off", "write1", "read1", "write2", "read2", "raise"}
      /\ exti \in BOOLEAN
  BY DEF RfidInit
<1>8. value \in Nat /\ xRFIDSemaphore \in 0 .. 1
  BY DEF RfidInit
<1> QED  BY <1>1, <1>2, <1>3, <1>4, <1>5, <1>6, <1>7, <1>8 DEF RfidTypeOK, ReaderInv

(* Where a part of the driver is entered its first access is one of it. *)
LEMMA GotoType ==
    ASSUME NEW part \in Parts \cup {"ResetLow", "ResetHigh", "Sleep"}, Goto(part)
    PROVE  /\ at' \in Parts \cup {"ResetLow", "ResetHigh", "Sleep"}
           /\ at' \in Parts => op' \in 1 .. Len(Script[at'])
<1>1. \A p \in Parts : 1 \in 1 .. Len(Script[p])
  BY ScriptType DEF Accesses
<1> QED  BY <1>1 DEF Goto

LEMMA ResetPinType ==
    ASSUME ReaderInv, ResetPin
    PROVE  ReaderInv'
<1>1. PortTypeOK' /\ chip' \in Chips
  <2>1. CASE x = "load"
    BY <2>1, LoadType DEF ResetPin, ReaderInv, RfidTypeOK, ChipTypeOK, Drivers
  <2>2. CASE x = "store"
    BY <2>2, StoreType, SeesType DEF ResetPin, ReaderInv, RfidTypeOK, ChipTypeOK, Drivers, Pins
  <2> QED  BY <2>1, <2>2 DEF ResetPin
<1>2. /\ at' \in Parts \cup {"ResetLow", "ResetHigh", "Sleep"}
      /\ at' \in Parts => op' \in 1 .. Len(Script[at'])
      /\ at' \notin {"ReqaPoll", "AnticollPoll", "Uid"}
  <2>1. "Init" \in Parts /\ "ResetHigh" \notin Parts
    BY DEF Parts, Script
  <2>2. 1 \in 1 .. Len(Script["Init"])
    BY <2>1, ScriptType DEF Accesses
  <2>3. CASE x = "load"
    BY <2>3 DEF ResetPin, ReaderInv, RfidTypeOK
  <2>4. CASE x = "store"
    BY <2>1, <2>2, <2>4 DEF ResetPin, ReaderInv, RfidTypeOK, CountersOK
  <2> QED  BY <2>3, <2>4 DEF ResetPin
<1>3. CountersOK'
  BY <1>2 DEF ResetPin, ReaderInv, CountersOK
<1> QED  BY <1>1, <1>2, <1>3 DEF ResetPin, ReaderInv, RfidTypeOK, ChipTypeOK, CountersOK, isrVars

LEMMA SelectType ==
    ASSUME ReaderInv, Select
    PROVE  ReaderInv'
<1>1. PortTypeOK' /\ chip' \in Chips
  <2>1. CASE x = "load"
    BY <2>1, LoadType DEF Select, ReaderInv, RfidTypeOK, ChipTypeOK, Drivers
  <2>2. CASE x = "select"
    BY <2>2, StoreType, SeesType DEF Select, ReaderInv, RfidTypeOK, ChipTypeOK, Drivers, Pins
  <2> QED  BY <2>1, <2>2 DEF Select
<1>2. CountersOK'
  BY DEF Select, ReaderInv, CountersOK
<1> QED  BY <1>1, <1>2 DEF Select, ReaderInv, RfidTypeOK, ChipTypeOK, isrVars

(* In the middle of an access the driver is in one of its parts. *)
LEMMA BytesType ==
    ASSUME RfidTypeOK, at \in Parts
    PROVE  Bytes[1] \in Nat /\ Bytes[2] \in Nat
<1>1. Script[at] \in Seq(Nat \X Nat) /\ op \in 1 .. Len(Script[at])
  BY ScriptType DEF RfidTypeOK, Accesses, Access
<1>2. Script[at][op] \in Nat \X Nat
  BY <1>1
<1> QED  BY <1>2 DEF Bytes

LEMMA TransmitReceiveType ==
    ASSUME ReaderInv, SPI_TransmitReceive
    PROVE  ReaderInv'
<1>1. x \in {"write1", "write2", "read1", "read2"}
  BY DEF SPI_TransmitReceive
<1>2. Bytes[1] \in Nat /\ Bytes[2] \in Nat
  BY <1>1, BytesType DEF ReaderInv, CountersOK
<1>3. tx' \in Seq(Nat) /\ rx' \in Seq(Nat) /\ value' \in Nat
  <2>1. CASE x \in {"write1", "write2"}
    <3>1. PICK b \in Nat : tx' = Append(tx, b)
      BY <1>2, <2>1 DEF SPI_TransmitReceive
    <3> QED  BY <3>1, <2>1 DEF SPI_TransmitReceive, ReaderInv, RfidTypeOK, ChipTypeOK
  <2>2. CASE x \in {"read1", "read2"}
    <3>1. Head(rx) \in Nat /\ Tail(rx) \in Seq(Nat)
      BY <2>2 DEF SPI_TransmitReceive, ReaderInv, RfidTypeOK, ChipTypeOK
    <3> QED  BY <3>1, <2>2 DEF SPI_TransmitReceive, ReaderInv, RfidTypeOK, ChipTypeOK
  <2> QED  BY <1>1, <2>1, <2>2
<1>4. x' \in {"read1", "read2", "write2", "load2"}
  BY DEF SPI_TransmitReceive
<1>5. PortTypeOK'
  BY DEF SPI_TransmitReceive, portVars, ReaderInv, RfidTypeOK, PortTypeOK
<1>6. CountersOK'
  BY <1>1 DEF SPI_TransmitReceive, ReaderInv, CountersOK
<1> QED
  BY <1>3, <1>4, <1>5, <1>6
  DEF SPI_TransmitReceive, ReaderInv, RfidTypeOK, ChipTypeOK, isrVars

LEMMA BeginDeselectType ==
    ASSUME ReaderInv, BeginDeselect
    PROVE  ReaderInv'
<1>1. PortTypeOK'
  BY LoadType DEF BeginDeselect, ReaderInv, RfidTypeOK, Drivers
<1>2. CountersOK'
  BY DEF BeginDeselect, ReaderInv, CountersOK
<1> QED
  BY <1>1, <1>2 DEF BeginDeselect, ReaderInv, RfidTypeOK, ChipTypeOK, chipVars, isrVars

(* What a part of the driver does when its last access is over. *)
Counted ==
    /\ at' \in Parts \cup {"Sleep"}
    /\ at' \in Parts => op' \in 1 .. Len(Script[at'])
    /\ timeout' \in 0 .. POLLS
    /\ uid' \in [left : 0 .. 5, bytes : Seq(Nat)]
    /\ status' \in {NONE, "OK", "ERROR", "TIMEOUT"}
    /\ exti' \in BOOLEAN
    /\ at' \in {"ReqaPoll", "AnticollPoll"} => timeout' > 0
    /\ at' = "Uid" => uid'.left > 0

LEMMA GoesOn ==
    ASSUME ReaderInv, NEW part \in Parts \cup {"Sleep"}, Goto(part),
           timeout' \in 0 .. POLLS, uid' \in [left : 0 .. 5, bytes : Seq(Nat)],
           status' \in {NONE, "OK", "ERROR", "TIMEOUT"}, exti' \in BOOLEAN,
           part \in {"ReqaPoll", "AnticollPoll"} => timeout' > 0,
           part = "Uid" => uid'.left > 0
    PROVE  Counted
<1>1. at' = part
  BY DEF Goto
<1> QED  BY <1>1, GotoType DEF Counted

LEMMA KeepOn ==
    ASSUME ReaderInv, Keep, NEW part \in Parts \cup {"Sleep"}, Goto(part),
           part \notin {"ReqaPoll", "AnticollPoll", "Uid"}
    PROVE  Counted
<1>1. /\ timeout' \in 0 .. POLLS /\ uid' \in [left : 0 .. 5, bytes : Seq(Nat)]
      /\ status' \in {NONE, "OK", "ERROR", "TIMEOUT"} /\ exti' \in BOOLEAN
  BY DEF Keep, ReaderInv, RfidTypeOK
<1> QED  BY <1>1, GoesOn

LEMMA ReturnsOn ==
    ASSUME ReaderInv, NEW s \in {"OK", "ERROR", "TIMEOUT"}, Returns(s)
    PROVE  Counted
<1>1. "Cleanup" \in Parts
  BY DEF Parts, Script
<1>2. /\ timeout' \in 0 .. POLLS /\ uid' \in [left : 0 .. 5, bytes : Seq(Nat)]
      /\ status' \in {NONE, "OK", "ERROR", "TIMEOUT"} /\ exti' \in BOOLEAN
  BY DEF Returns, ReaderInv, RfidTypeOK
<1>3. Goto("Cleanup")
  BY DEF Returns
<1> QED  BY <1>1, <1>2, <1>3, GoesOn

LEMMA StartPollingOn ==
    ASSUME ReaderInv, NEW part \in Parts \ {"Uid"}, StartPolling(part)
    PROVE  Counted
<1>1. timeout' \in 0 .. POLLS /\ timeout' > 0
  BY RfidAssumption DEF StartPolling
<1>2. /\ uid' \in [left : 0 .. 5, bytes : Seq(Nat)]
      /\ status' \in {NONE, "OK", "ERROR", "TIMEOUT"} /\ exti' \in BOOLEAN
  BY DEF StartPolling, ReaderInv, RfidTypeOK
<1>3. Goto(part)
  BY DEF StartPolling
<1> QED  BY <1>1, <1>2, <1>3, GoesOn

LEMMA PollOn ==
    ASSUME ReaderInv, timeout > 0, NEW again \in Parts \ {"Uid"},
           NEW stop \in Parts \ {"Uid", "ReqaPoll", "AnticollPoll"}, Poll(again, stop)
    PROVE  Counted
<1>1. timeout' \in 0 .. POLLS
  <2>1. timeout \in 0 .. POLLS /\ POLLS \in Nat
    BY RfidAssumption DEF ReaderInv, RfidTypeOK
  <2>2. timeout' = timeout - 1
    BY DEF Poll
  <2> QED  BY <2>1, <2>2
<1>2. /\ uid' \in [left : 0 .. 5, bytes : Seq(Nat)]
      /\ status' \in {NONE, "OK", "ERROR", "TIMEOUT"} /\ exti' \in BOOLEAN
  BY DEF Poll, ReaderInv, RfidTypeOK
<1>3. CASE Goto(again) /\ timeout' > 0
  BY <1>1, <1>2, <1>3, GoesOn
<1>4. CASE Goto(stop)
  BY <1>1, <1>2, <1>4, GoesOn
<1> QED  BY <1>3, <1>4 DEF Poll

LEMMA PartNames ==
    {"Init", "Antenna", "Enable", "Version", "Reqa", "ReqaPoll", "ReqaStop", "ReqaError",
     "Anticoll", "AnticollPoll", "AnticollStop", "AnticollError", "Level", "Uid",
     "Cleanup"} \subseteq Parts
  BY DEF Parts, Script

LEMMA InitCounted ==
    ASSUME ReaderInv, RFID_Init
    PROVE  Counted
<1>1. CASE at = "Init" /\ Keep /\ Goto(IF Bit(value, 0) \/ Bit(value, 1) THEN "Enable"
                                       ELSE "Antenna")
  <2>1. CASE Goto("Enable")
    BY <1>1, <2>1, KeepOn, PartNames
  <2>2. CASE Goto("Antenna")
    BY <1>1, <2>2, KeepOn, PartNames
  <2> QED  BY <1>1, <2>1, <2>2
<1>2. CASE at = "Antenna" /\ Keep /\ Goto("Enable")
  BY <1>2, KeepOn, PartNames
<1>3. CASE exti' = TRUE /\ UNCHANGED <<timeout, uid, status>> /\ Goto("Version")
  <2>1. /\ timeout' \in 0 .. POLLS /\ uid' \in [left : 0 .. 5, bytes : Seq(Nat)]
        /\ status' \in {NONE, "OK", "ERROR", "TIMEOUT"} /\ exti' \in BOOLEAN
    BY <1>3 DEF ReaderInv, RfidTypeOK
  <2> QED  BY <1>3, <2>1, GoesOn, PartNames
<1>4. CASE at = "Version" /\ Keep /\ Goto("Sleep")
  BY <1>4, KeepOn
<1> QED  BY <1>1, <1>2, <1>3, <1>4 DEF RFID_Init

LEMMA ReqaCounted ==
    ASSUME ReaderInv, RFID_REQA
    PROVE  Counted
<1>1. CASE StartPolling("ReqaPoll")
  BY <1>1, StartPollingOn, PartNames
<1>2. CASE at = "ReqaPoll" /\ Poll("ReqaPoll", "ReqaStop")
  <2>1. timeout > 0
    BY <1>2 DEF ReaderInv, CountersOK
  <2> QED  BY <1>2, <2>1, PollOn, PartNames
<1>3. CASE Returns("ERROR")
  BY <1>3, ReturnsOn
<1>4. CASE Keep /\ Goto("ReqaError")
  BY <1>4, KeepOn, PartNames
<1>5. CASE Keep /\ Goto("Anticoll")
  BY <1>5, KeepOn, PartNames
<1> QED  BY <1>1, <1>2, <1>3, <1>4, <1>5 DEF RFID_REQA

LEMMA AnticollCounted ==
    ASSUME ReaderInv, RFID_Anticollision
    PROVE  Counted
<1>1. CASE StartPolling("AnticollPoll")
  BY <1>1, StartPollingOn, PartNames
<1>2. CASE at = "AnticollPoll" /\ Poll("AnticollPoll", "AnticollStop")
  <2>1. timeout > 0
    BY <1>2 DEF ReaderInv, CountersOK
  <2> QED  BY <1>2, <2>1, PollOn, PartNames
<1>3. CASE Returns("ERROR")
  BY <1>3, ReturnsOn
<1>4. CASE Returns("TIMEOUT")
  BY <1>4, ReturnsOn
<1>5. CASE Keep /\ Goto("AnticollError")
  BY <1>5, KeepOn, PartNames
<1>6. CASE Keep /\ Goto("Level")
  BY <1>6, KeepOn, PartNames
<1>7. CASE /\ at = "Level" /\ FitsUid(value)
           /\ uid' = [left |-> value, bytes |-> <<>>]
           /\ UNCHANGED <<timeout, status, exti>>
           /\ Goto("Uid")
  <2>1. <<>> \in Seq(Nat) /\ value \in 0 .. 5 /\ value > 0
    BY <1>7 DEF FitsUid
  <2>2. uid' \in [left : 0 .. 5, bytes : Seq(Nat)] /\ uid'.left > 0
    BY <2>1, <1>7
  <2>3. timeout' \in 0 .. POLLS /\ status' \in {NONE, "OK", "ERROR", "TIMEOUT"}
        /\ exti' \in BOOLEAN
    BY <1>7 DEF ReaderInv, RfidTypeOK
  <2> QED  BY <1>7, <2>2, <2>3, GoesOn, PartNames
<1>8. CASE /\ at = "Uid"
           /\ uid' = [left |-> uid.left - 1, bytes |-> Append(uid.bytes, value)]
           /\ UNCHANGED <<timeout, exti>>
           /\ IF uid'.left > 0 THEN Goto("Uid") /\ UNCHANGED status
              ELSE Goto("Cleanup") /\ status' = "OK"
  <2>1. uid.left \in 0 .. 5 /\ uid.left > 0 /\ uid.bytes \in Seq(Nat) /\ value \in Nat
    BY <1>8 DEF ReaderInv, CountersOK, RfidTypeOK
  <2>2. uid.left - 1 \in 0 .. 5 /\ Append(uid.bytes, value) \in Seq(Nat)
    BY <2>1
  <2>3. uid' \in [left : 0 .. 5, bytes : Seq(Nat)]
    BY <2>2, <1>8
  <2>4. timeout' \in 0 .. POLLS /\ status' \in {NONE, "OK", "ERROR", "TIMEOUT"}
        /\ exti' \in BOOLEAN
    BY <1>8 DEF ReaderInv, RfidTypeOK
  <2>5. CASE uid'.left > 0 /\ Goto("Uid")
    BY <2>3, <2>4, <2>5, GoesOn, PartNames
  <2>6. CASE Goto("Cleanup")
    BY <2>3, <2>4, <2>6, GoesOn, PartNames
  <2> QED  BY <1>8, <2>5, <2>6
<1> QED  BY <1>1, <1>2, <1>3, <1>4, <1>5, <1>6, <1>7, <1>8 DEF RFID_Anticollision

LEMMA DeselectType ==
    ASSUME ReaderInv, Deselect
    PROVE  ReaderInv'
<1>1. PortTypeOK' /\ chip' \in Chips
  BY StoreType, SeesType DEF Deselect, ReaderInv, RfidTypeOK, ChipTypeOK, Drivers, Pins
<1>2. at \in Parts
  BY DEF Deselect, ReaderInv, CountersOK
<1>3. Counted
  <2>1. CASE op < Len(Script[at])
    <3>1. op \in 1 .. Len(Script[at]) /\ Len(Script[at]) \in Nat
      BY <1>2, ScriptType DEF ReaderInv, RfidTypeOK, Accesses
    <3>2. op + 1 \in 1 .. Len(Script[at])
      BY <3>1, <2>1
    <3>3. at' = at /\ op' = op + 1 /\ Keep
      BY <2>1 DEF Deselect
    <3>4. /\ timeout' \in 0 .. POLLS /\ uid' \in [left : 0 .. 5, bytes : Seq(Nat)]
          /\ status' \in {NONE, "OK", "ERROR", "TIMEOUT"} /\ exti' \in BOOLEAN
      BY <3>3 DEF Keep, ReaderInv, RfidTypeOK
    <3>5. /\ at' \in {"ReqaPoll", "AnticollPoll"} => timeout' > 0
          /\ at' = "Uid" => uid'.left > 0
      BY <3>3 DEF Keep, ReaderInv, CountersOK
    <3> QED  BY <1>2, <3>2, <3>3, <3>4, <3>5 DEF Counted
  <2>2. CASE RFID_Init
    BY <2>2, InitCounted
  <2>3. CASE RFID_REQA
    BY <2>3, ReqaCounted
  <2>4. CASE RFID_Anticollision
    BY <2>4, AnticollCounted
  <2>5. CASE RFID_Cleanup
    BY <2>5, KeepOn DEF RFID_Cleanup
  <2> QED  BY <2>1, <2>2, <2>3, <2>4, <2>5 DEF Deselect
<1>4. value' \in Nat
  BY DEF Deselect, ReaderInv, RfidTypeOK
<1>5. "ResetLow" \notin Parts /\ "ResetHigh" \notin Parts
  BY DEF Parts, Script
<1>6. CountersOK'
  BY <1>3, <1>5 DEF Deselect, Counted, CountersOK
<1> QED
  BY <1>1, <1>3, <1>4, <1>6 DEF Deselect, Counted, ReaderInv, RfidTypeOK, ChipTypeOK

LEMMA DetectType ==
    ASSUME ReaderInv, RFID_DetectCard
    PROVE  ReaderInv'
<1>1. "Reqa" \in Parts /\ "Sleep" \notin Parts
  BY DEF Parts, Script
<1>2. PortTypeOK'
  BY CalledType DEF RFID_DetectCard, ReaderInv, RfidTypeOK, Drivers
<1>3. at' = "Reqa" /\ op' \in 1 .. Len(Script[at'])
  BY <1>1, GotoType DEF RFID_DetectCard, Goto
<1>4. uid' \in [left : 0 .. 5, bytes : Seq(Nat)]
  BY DEF RFID_DetectCard
<1>5. x \in {"load", "store"} /\ x' = x
  BY <1>1 DEF RFID_DetectCard, ReaderInv, CountersOK
<1>6. CountersOK'
  BY <1>3, <1>5 DEF CountersOK
<1> QED
  BY <1>1, <1>2, <1>3, <1>4, <1>6
  DEF RFID_DetectCard, ReaderInv, RfidTypeOK, ChipTypeOK, chipVars, isrVars

LEMMA IsrType ==
    ASSUME ReaderInv, EXTI0_IRQHandler
    PROVE  ReaderInv'
<1>1. PortTypeOK' /\ chip' \in Chips
  <2>1. ASSUME odr' \in SUBSET Pins, UNCHANGED <<held, undone, late>>
        PROVE  PortTypeOK'
    BY <2>1 DEF PortTypeOK, ReaderInv, RfidTypeOK
  <2>2. CASE IsrEnters
    BY <2>1, <2>2, SeesType DEF IsrEnters, ReaderInv, RfidTypeOK, ChipTypeOK, PortTypeOK
  <2>3. CASE IsrWrites \/ IsrReads
    BY <2>1, <2>3 DEF IsrWrites, IsrReads, portVars, ReaderInv, RfidTypeOK, ChipTypeOK, PortTypeOK
  <2>4. CASE IsrReturns
    <3>1. odr' \in SUBSET Pins
      BY <2>4 DEF IsrReturns, ReaderInv, RfidTypeOK, PortTypeOK, Pins
    <3> QED  BY <2>1, <2>4, <3>1, SeesType DEF IsrReturns, ReaderInv, RfidTypeOK, ChipTypeOK
  <2> QED  BY <2>2, <2>3, <2>4 DEF EXTI0_IRQHandler
<1>2. tx' \in Seq(Nat) /\ rx' \in Seq(Nat)
  <2>1. tx \in Seq(Nat) /\ rx \in Seq(Nat)
    BY DEF ReaderInv, RfidTypeOK, ChipTypeOK
  <2>2. CASE IsrEnters \/ IsrReturns
    BY <2>1, <2>2 DEF IsrEnters, IsrReturns
  <2>3. CASE IsrWrites
    <3>1. ClearIrq[1] \in Nat /\ ClearIrq[2] \in Nat
      BY DEF ClearIrq, Write, ComIrqReg
    <3>2. PICK b \in Nat : tx' = Append(tx, b)
      BY <2>3, <3>1 DEF IsrWrites
    <3> QED  BY <2>1, <2>3, <3>2 DEF IsrWrites
  <2>4. CASE IsrReads
    <3>1. Tail(rx) \in Seq(Nat)
      BY <2>1, <2>4 DEF IsrReads
    <3> QED  BY <2>1, <2>4, <3>1 DEF IsrReads
  <2> QED  BY <2>2, <2>3, <2>4 DEF EXTI0_IRQHandler
<1>3. UNCHANGED <<driverVars, exti, card>> /\ pending' \in BOOLEAN
      /\ isr' \in {"off", "write1", "read1", "write2", "read2", "raise"}
  BY DEF EXTI0_IRQHandler, IsrEnters, IsrWrites, IsrReads, IsrReturns, ReaderInv, RfidTypeOK,
     ChipTypeOK
<1>4. xRFIDSemaphore' \in 0 .. 1
  BY DEF EXTI0_IRQHandler, IsrEnters, IsrWrites, IsrReads, IsrReturns, ReaderInv, RfidTypeOK
<1>5. CountersOK'
  BY <1>3 DEF driverVars, ReaderInv, CountersOK
<1> QED
  BY <1>1, <1>2, <1>3, <1>4, <1>5 DEF driverVars, ReaderInv, RfidTypeOK, ChipTypeOK

LEMMA ReaderSteps ==
    ASSUME ReaderInv, Reader
    PROVE  ReaderInv' /\ Len(tx') + Len(rx') = Len(tx) + Len(rx) /\ x' = x /\ isr' = isr
<1>1. UNCHANGED <<driverVars, isrVars>>
  BY DEF Reader
<1>2. ChipTypeOK /\ exti \in BOOLEAN
  BY DEF ReaderInv, RfidTypeOK
<1>3. ChipTypeOK' /\ Len(tx') + Len(rx') = Len(tx) + Len(rx)
  <2>1. CASE Shift
    BY <1>2, <2>1, ShiftEffect
  <2>2. CASE Transmit \/ AnswerRequest(exti) \/ AnswerAnticoll(exti)
    BY <1>2, <2>2, ReaderEffect
  <2> QED  BY <2>1, <2>2 DEF Reader
<1>4. UNCHANGED portVars
  BY DEF Reader, Shift, Transmit, AnswerRequest, AnswerAnticoll, Answers
<1>5. CountersOK' /\ PortTypeOK'
  BY <1>1, <1>4 DEF driverVars, portVars, ReaderInv, RfidTypeOK, CountersOK, PortTypeOK
<1> QED
  BY <1>1, <1>3, <1>5 DEF driverVars, isrVars, ReaderInv, RfidTypeOK

LEMMA ReaderKeeps ==
    ASSUME ReaderInv, RfidNext
    PROVE  ReaderInv'
<1>1. CASE vTaskRFID
  BY <1>1, ResetPinType, SelectType, TransmitReceiveType, BeginDeselectType, DeselectType,
     DetectType DEF vTaskRFID
<1>2. CASE EXTI0_IRQHandler
  BY <1>2, IsrType
<1>3. CASE Reader
  BY <1>3, ReaderSteps
<1> QED  BY <1>1, <1>2, <1>3 DEF RfidNext

-----------------------------------------------------------------------------
(* What vTaskRFID and the interrupt do to the keypad's bit is recorded. *)
LEMMA ColumnRecorded ==
    ASSUME ReaderInv, RfidNext, "COL1" \notin undone'
    PROVE  "COL1" \notin undone /\ ("COL1" \in odr' <=> "COL1" \in odr)
<1>1. ASSUME NEW p \in {"CS", "RST"}, NEW high \in BOOLEAN, Store("RFID", p, high)
      PROVE  "COL1" \notin undone /\ ("COL1" \in odr' <=> "COL1" \in odr)
  <2>1. "COL1" \in Pins \ {p}
    BY DEF Pins
  <2>2. "COL1" \notin undone /\ ("COL1" \in held["RFID"] <=> "COL1" \in odr)
    BY <1>1, <2>1 DEF Store
  <2>3. "COL1" \in odr' <=> "COL1" \in held["RFID"]
    BY <1>1, <2>1 DEF Store, With
  <2> QED  BY <2>2, <2>3
<1>2. ASSUME undone' = undone, odr' = odr \/ odr' = odr \ {"CS"} \/ odr' = odr \cup {"CS"}
      PROVE  "COL1" \notin undone /\ ("COL1" \in odr' <=> "COL1" \in odr)
  BY <1>2
<1>3. CASE ResetPin \/ Select \/ Deselect
  BY <1>1, <1>2, <1>3 DEF ResetPin, Select, Deselect, Load
<1>4. CASE SPI_TransmitReceive \/ BeginDeselect \/ RFID_DetectCard
  BY <1>2, <1>4 DEF SPI_TransmitReceive, BeginDeselect, RFID_DetectCard, Load, Called, portVars
<1>5. CASE EXTI0_IRQHandler
  BY <1>2, <1>5 DEF EXTI0_IRQHandler, IsrEnters, IsrWrites, IsrReads, IsrReturns, portVars
<1>6. CASE Reader
  BY <1>2, <1>6 DEF Reader, Shift, Transmit, AnswerRequest, AnswerAnticoll, Answers, portVars
<1> QED  BY <1>3, <1>4, <1>5, <1>6 DEF RfidNext, vTaskRFID

Scans == {"sleep", "low", "store low", "rows", "release", "high", "store high"}

KeypadTypeOK ==
    /\ scan \in Scans
    /\ row \in 0 .. ROWS - 1 /\ col \in 0 .. COLUMNS - 1
    /\ {found, pressed, seen} \subseteq Keys \cup {NONE}
    /\ times \in Nat

(* Where the keypad's driver is tells which column it holds low, which key *)
(* it has found, and whether the finger is still on it.                    *)
LowsOK ==
    /\ lows = IF scan \in {"rows", "release", "high"} /\ col # 0 THEN {col} ELSE {}
    /\ scan \in {"sleep", "store low", "store high"} => col = 0
    /\ found # NONE => scan \in {"release", "high", "store high"}

Column1OK ==
    "COL1" \in odr <=> ~(col = 0 /\ scan \in {"rows", "release", "high", "store high"})

PressOK ==
    \/ times = 0
    \/ /\ times = 1
       /\ \/ pressed = NONE
          \/ scan = "release" /\ pressed = [row |-> row, col |-> col]

KeypadInv ==
    /\ KeypadTypeOK
    /\ LowsOK
    /\ "COL1" \notin undone => Column1OK /\ (found = NONE \/ found = seen) /\ PressOK

LEMMA InitKeypad == Init => KeypadInv
<1> SUFFICES ASSUME Init PROVE KeypadInv
  OBVIOUS
<1>1. row \in 0 .. ROWS - 1 /\ col \in 0 .. COLUMNS - 1 /\ times \in Nat
  BY BoardAssumption DEF Init
<1>2. KeypadTypeOK
  BY <1>1 DEF Init, KeypadTypeOK, Scans
<1>3. "COL1" \in odr
  BY DEF Init, RfidInit, PortInit, Pins
<1>4. LowsOK /\ Column1OK /\ PressOK
  BY <1>3 DEF Init, LowsOK, Column1OK, PressOK
<1> QED  BY <1>2, <1>4 DEF Init, KeypadInv

LEMMA ReaderSparesKeypad ==
    ASSUME ReaderInv, KeypadInv, RfidNext, UNCHANGED <<keypadVars, finger>>
    PROVE  KeypadInv'
<1>1. KeypadTypeOK' /\ LowsOK' /\ (PressOK => PressOK')
  BY DEF keypadVars, finger, KeypadInv, KeypadTypeOK, LowsOK, PressOK
<1>2. "COL1" \notin undone' => "COL1" \notin undone /\ ("COL1" \in odr' <=> "COL1" \in odr)
  BY ColumnRecorded
<1>3. "COL1" \notin undone' => Column1OK'
  BY <1>2 DEF keypadVars, KeypadInv, Column1OK
<1> QED  BY <1>1, <1>2, <1>3 DEF keypadVars, finger, KeypadInv

(* While the rows are read, a row is low only for the key that is under    *)
(* the finger in the column being scanned.                                 *)
LEMMA OnlyItsColumn ==
    ASSUME KeypadInv, "COL1" \notin undone, scan \in {"rows", "release"}
    PROVE  \A r \in 0 .. ROWS - 1 : RowLow(r) <=> pressed = [row |-> r, col |-> col]
<1>1. \A c \in 0 .. COLUMNS - 1 : ColumnLow(c) <=> c = col
  BY DEF KeypadInv, KeypadTypeOK, LowsOK, Column1OK, ColumnLow
<1>2. pressed # NONE => pressed \in Keys /\ pressed.col \in 0 .. COLUMNS - 1
                        /\ pressed = [row |-> pressed.row, col |-> pressed.col]
  BY DEF KeypadInv, KeypadTypeOK, Keys
<1>3. \A r \in 0 .. ROWS - 1 : [row |-> r, col |-> col] # NONE
  BY BoardAssumption DEF KeypadInv, KeypadTypeOK, Keys
<1> QED  BY <1>1, <1>2, <1>3 DEF RowLow

(* A load of the keypad's driver changes no pin; its stores set its own    *)
(* pin as they say.                                                        *)
LEMMA KeypadStores ==
    ASSUME NEW high \in BOOLEAN, Store("Keypad", "COL1", high)
    PROVE  ("COL1" \in odr' <=> high) /\ undone \subseteq undone'
  BY DEF Store, With

LEMMA RestoredRanges ==
    ASSUME KeypadTypeOK, Restored
    PROVE  row' \in 0 .. ROWS - 1 /\ col' \in 0 .. COLUMNS - 1 /\ times' \in Nat
<1>1. ROWS \in Nat /\ ROWS >= 1 /\ COLUMNS \in Nat /\ COLUMNS >= 1
  BY BoardAssumption
<1>2. col \in 0 .. COLUMNS - 1 /\ times \in Nat
  BY DEF KeypadTypeOK
<1>3. row' = 0 /\ times' = times
  BY DEF Restored
<1>4. row' \in 0 .. ROWS - 1 /\ times' \in Nat
  BY <1>1, <1>2, <1>3
<1>5. col' = 0 \/ (col' = col + 1 /\ col # COLUMNS - 1)
  BY DEF Restored
<1>6. col' \in 0 .. COLUMNS - 1
  BY <1>1, <1>2, <1>5
<1> QED  BY <1>4, <1>6

LEMMA RestoredKeeps ==
    ASSUME KeypadInv, scan \in {"high", "store high"}, Restored, UNCHANGED pressed,
           lows' = {}, undone \subseteq undone',
           "COL1" \notin undone => "COL1" \in odr'
    PROVE  KeypadInv'
<1>1. row' \in 0 .. ROWS - 1 /\ col' \in 0 .. COLUMNS - 1 /\ times' \in Nat
  BY RestoredRanges DEF KeypadInv
<1>2. scan' \in {"sleep", "low"} /\ (scan' = "sleep" => col' = 0) /\ found' = NONE
  BY DEF Restored, KeypadInv
<1>3. KeypadTypeOK'
  BY <1>1, <1>2 DEF Restored, KeypadInv, KeypadTypeOK, Scans
<1>4. LowsOK'
  BY <1>2 DEF LowsOK
<1>5. PressOK => PressOK'
  BY DEF PressOK, Restored
<1>6. "COL1" \in odr' => Column1OK'
  BY <1>2 DEF Column1OK
<1> QED  BY <1>2, <1>3, <1>4, <1>5, <1>6 DEF KeypadInv

LEMMA KeypadKeeps ==
    ASSUME ReaderInv, KeypadInv, vTaskKeypad
    PROVE  KeypadInv'
<1>1. CASE Keypad_GetKey
  <2>1. KeypadTypeOK' /\ LowsOK' /\ (PressOK => PressOK')
    BY <1>1 DEF Keypad_GetKey, finger, KeypadInv, KeypadTypeOK, LowsOK, PressOK, Scans
  <2>2. undone' = undone /\ odr' = odr
    BY <1>1 DEF Keypad_GetKey, Called
  <2>3. Column1OK => Column1OK'
    BY <1>1, <2>2 DEF Keypad_GetKey, Column1OK, KeypadInv, LowsOK
  <2> QED  BY <1>1, <2>1, <2>2, <2>3 DEF Keypad_GetKey, finger, KeypadInv
<1>2. CASE LoadColumn
  <2>1. KeypadTypeOK' /\ LowsOK' /\ (PressOK => PressOK')
    BY <1>2 DEF LoadColumn, finger, KeypadInv, KeypadTypeOK, LowsOK, PressOK, Scans
  <2>2. undone' = undone /\ odr' = odr
    BY <1>2 DEF LoadColumn, Load
  <2>3. Column1OK => Column1OK'
    BY <1>2, <2>2 DEF LoadColumn, Column1OK, KeypadInv, LowsOK
  <2> QED  BY <1>2, <2>1, <2>2, <2>3 DEF LoadColumn, finger, KeypadInv
<1>3. CASE StoreColumn
  <2>1. CASE scan = "store low"
    <3>1. scan' = "rows" /\ Store("Keypad", "COL1", FALSE) /\ col = 0
          /\ UNCHANGED <<row, col, found, seen, times, lows, pressed>>
      BY <1>3, <2>1 DEF StoreColumn, KeypadInv, LowsOK
    <3>2. "COL1" \notin odr' /\ undone \subseteq undone'
      BY <3>1, KeypadStores
    <3>3. KeypadTypeOK' /\ LowsOK' /\ (PressOK => PressOK') /\ Column1OK'
      BY <2>1, <3>1, <3>2 DEF KeypadInv, KeypadTypeOK, LowsOK, PressOK, Column1OK, Scans
    <3> QED  BY <3>1, <3>2, <3>3 DEF KeypadInv
  <2>2. CASE scan = "store high"
    <3>1. Restored /\ Store("Keypad", "COL1", TRUE) /\ UNCHANGED <<lows, pressed>>
      BY <1>3, <2>2 DEF StoreColumn
    <3>2. "COL1" \in odr' /\ undone \subseteq undone'
      BY <3>1, KeypadStores
    <3>3. lows' = {}
      BY <2>2, <3>1 DEF KeypadInv, LowsOK
    <3> QED  BY <2>2, <3>1, <3>2, <3>3, RestoredKeeps
  <2> QED  BY <1>3, <2>1, <2>2 DEF StoreColumn
<1>4. CASE DriveColumn
  <2>0. odr' = odr /\ undone' = undone /\ pressed' = pressed /\ col # 0
    BY <1>4 DEF DriveColumn, portVars
  <2>1. CASE scan = "low"
    <3>1. scan' = "rows" /\ lows' = {col} /\ UNCHANGED <<row, col, found, seen, times>>
      BY <1>4, <2>1 DEF DriveColumn, ColumnDriven, KeypadInv, LowsOK
    <3>2. KeypadTypeOK' /\ LowsOK' /\ (PressOK => PressOK') /\ (Column1OK => Column1OK')
      BY <2>0, <2>1, <3>1 DEF KeypadInv, KeypadTypeOK, LowsOK, PressOK, Column1OK, Scans
    <3> QED  BY <2>0, <3>1, <3>2 DEF KeypadInv
  <2>2. CASE scan = "high"
    <3>1. Restored /\ lows' = {}
      BY <1>4, <2>2 DEF DriveColumn, ColumnDriven, KeypadInv, LowsOK
    <3>2. "COL1" \notin undone => "COL1" \in odr'
      BY <2>0, <2>2 DEF KeypadInv, Column1OK
    <3> QED  BY <2>0, <2>2, <3>1, <3>2, RestoredKeeps
  <2> QED  BY <1>4, <2>1, <2>2 DEF DriveColumn
<1>5. CASE ReadRow
  <2>0. /\ odr' = odr /\ undone' = undone /\ pressed' = pressed /\ UNCHANGED <<col, lows>>
        /\ scan = "rows"
    BY <1>5 DEF ReadRow, portVars
  <2>1. CASE RowLow(row)
    <3>1. /\ scan' = "release" /\ found' = [row |-> row, col |-> col]
          /\ seen' = pressed /\ times' = times + 1 /\ row' = row
      BY <1>5, <2>1 DEF ReadRow
    <3>2. row \in 0 .. ROWS - 1 /\ col \in 0 .. COLUMNS - 1 /\ found' \in Keys
          /\ times' \in Nat
      BY <3>1 DEF KeypadInv, KeypadTypeOK, Keys
    <3>3. KeypadTypeOK' /\ LowsOK' /\ (Column1OK => Column1OK')
      BY <2>0, <3>1, <3>2 DEF KeypadInv, KeypadTypeOK, LowsOK, Column1OK, Scans
    <3>4. ASSUME "COL1" \notin undone PROVE found' = seen' /\ PressOK'
      <4>1. pressed = [row |-> row, col |-> col] /\ pressed # NONE
        BY <2>0, <2>1, <3>2, <3>4, OnlyItsColumn DEF RowLow
      <4>2. times = 0
        BY <2>0, <3>4, <4>1 DEF KeypadInv, PressOK
      <4> QED  BY <2>0, <3>1, <4>1, <4>2 DEF PressOK
    <3> QED  BY <2>0, <3>3, <3>4 DEF KeypadInv
  <2>2. CASE ~RowLow(row)
    <3>1. UNCHANGED <<found, seen, times>> /\ scan' \in {"rows", "high"}
      BY <1>5, <2>0, <2>2 DEF ReadRow
    <3>2. row' \in 0 .. ROWS - 1
      <4>1. row' = row \/ (row # ROWS - 1 /\ row' = row + 1)
        BY <1>5, <2>0, <2>2 DEF ReadRow
      <4>2. row \in 0 .. ROWS - 1 /\ ROWS \in Nat
        BY BoardAssumption DEF KeypadInv, KeypadTypeOK
      <4> QED  BY <4>1, <4>2
    <3>3. KeypadTypeOK' /\ LowsOK' /\ (Column1OK => Column1OK')
      BY <2>0, <3>1, <3>2 DEF KeypadInv, KeypadTypeOK, LowsOK, Column1OK, Scans
    <3>4. PressOK => PressOK'
      BY <2>0, <3>1 DEF PressOK
    <3> QED  BY <2>0, <3>1, <3>3, <3>4 DEF KeypadInv
  <2> QED  BY <2>1, <2>2
<1>6. CASE Released
  <2>0. /\ odr' = odr /\ undone' = undone /\ UNCHANGED <<row, col, lows, found, finger>>
        /\ scan = "release" /\ scan' = "high"
    BY <1>6 DEF Released, portVars
  <2>1. KeypadTypeOK' /\ LowsOK' /\ (Column1OK => Column1OK')
    BY <2>0 DEF finger, KeypadInv, KeypadTypeOK, LowsOK, Column1OK, Scans
  <2>2. ASSUME "COL1" \notin undone PROVE PressOK'
    <3>1. row \in 0 .. ROWS - 1
      BY DEF KeypadInv, KeypadTypeOK
    <3>2. pressed # [row |-> row, col |-> col]
      BY <1>6, <2>0, <2>2, <3>1, OnlyItsColumn DEF Released
    <3> QED  BY <2>0, <2>2, <3>2 DEF finger, KeypadInv, PressOK
  <2> QED  BY <2>0, <2>1, <2>2 DEF finger, KeypadInv
<1> QED  BY <1>1, <1>2, <1>3, <1>4, <1>5, <1>6 DEF vTaskKeypad

LEMMA KeypadSparesReader ==
    ASSUME ReaderInv, vTaskKeypad
    PROVE  ReaderInv' /\ Len(tx') + Len(rx') = Len(tx) + Len(rx) /\ x' = x /\ isr' = isr
<1>1. Others
  BY DEF vTaskKeypad, Keypad_GetKey, LoadColumn, StoreColumn, DriveColumn, ReadRow, Released
<1>2. PortTypeOK' /\ chip' \in Chips
  <2>0. PortTypeOK /\ chip \in Chips
    BY DEF ReaderInv, RfidTypeOK, ChipTypeOK
  <2>1. CASE Keypad_GetKey
    BY <2>0, <2>1, CalledType DEF Keypad_GetKey, Drivers
  <2>2. CASE LoadColumn
    BY <2>0, <2>2, LoadType DEF LoadColumn, Drivers
  <2>3. CASE StoreColumn
    <3>1. PICK high \in BOOLEAN : Store("Keypad", "COL1", high)
      BY <2>3 DEF StoreColumn
    <3>2. chip' = SeesPins(odr')
      BY <2>3 DEF StoreColumn
    <3> QED  BY <2>0, <3>1, <3>2, StoreType, SeesType DEF Drivers, Pins
  <2>4. CASE DriveColumn \/ ReadRow \/ Released
    BY <2>0, <2>4 DEF DriveColumn, ReadRow, Released, portVars, PortTypeOK
  <2> QED  BY <2>1, <2>2, <2>3, <2>4 DEF vTaskKeypad
<1>3. CountersOK'
  BY <1>1 DEF Others, driverVars, ReaderInv, CountersOK
<1> QED
  BY <1>1, <1>2, <1>3 DEF Others, driverVars, isrVars, ReaderInv, RfidTypeOK, ChipTypeOK

(* As many bytes and replies are on their way as calls wait for one. *)
LEMMA PairsKept ==
    ASSUME ReaderInv, RepliesPaired, RfidNext
    PROVE  RepliesPaired'
<1>0. tx \in Seq(Nat) /\ rx \in Seq(Nat) /\ Len(tx) \in Nat /\ Len(rx) \in Nat
  BY DEF ReaderInv, RfidTypeOK, ChipTypeOK
<1> DEFINE W(p) == IF p \in {"read1", "read2"} THEN 1 ELSE 0
<1>w. Waiting = W(x) + W(isr) /\ Waiting' = W(x') + W(isr') /\ W(x) \in Nat /\ W(isr) \in Nat
      /\ W(x') \in Nat /\ W(isr') \in Nat
  BY DEF Waiting
<1>1. ASSUME tx' = tx, rx' = rx, W(x') = W(x), W(isr') = W(isr) PROVE RepliesPaired'
  BY <1>1, <1>w DEF RepliesPaired
<1>2. ASSUME rx' = rx, NEW b \in Nat, tx' = Append(tx, b),
             W(x') + W(isr') = W(x) + W(isr) + 1
      PROVE  RepliesPaired'
  BY <1>0, <1>2, <1>w DEF RepliesPaired
<1>3. ASSUME tx' = tx, rx # <<>>, rx' = Tail(rx),
             W(x') + W(isr') + 1 = W(x) + W(isr)
      PROVE  RepliesPaired'
  BY <1>0, <1>3, <1>w DEF RepliesPaired
<1>4. CASE ResetPin
  BY <1>1, <1>4 DEF ResetPin, isrVars
<1>5. CASE Select
  BY <1>1, <1>5 DEF Select, isrVars
<1>6. CASE BeginDeselect
  BY <1>1, <1>6 DEF BeginDeselect, isrVars, chipVars
<1>7. CASE Deselect
  BY <1>1, <1>7 DEF Deselect
<1>8. CASE RFID_DetectCard
  BY <1>1, <1>8 DEF RFID_DetectCard, isrVars, chipVars
<1>9. CASE SPI_TransmitReceive
  <2>1. Bytes[1] \in Nat /\ Bytes[2] \in Nat
    BY <1>9, BytesType DEF SPI_TransmitReceive, ReaderInv, CountersOK
  <2>2. isr' = isr
    BY <1>9 DEF SPI_TransmitReceive, isrVars
  <2>3. CASE x \in {"write1", "write2"}
    <3>1. PICK b \in Nat : tx' = Append(tx, b)
      BY <1>9, <2>1, <2>3 DEF SPI_TransmitReceive
    <3>2. rx' = rx /\ W(x) = 0 /\ W(x') = 1
      BY <1>9, <2>3 DEF SPI_TransmitReceive
    <3> HIDE DEF W
    <3>3. W(x') + W(isr') = W(x) + W(isr) + 1
      BY <2>2, <3>2, <1>w
    <3> QED  BY <1>2, <3>1, <3>2, <3>3
  <2>4. CASE x \in {"read1", "read2"}
    <3>1. rx # <<>> /\ rx' = Tail(rx) /\ tx' = tx /\ W(x) = 1 /\ W(x') = 0
      BY <1>9, <2>4 DEF SPI_TransmitReceive
    <3> HIDE DEF W
    <3>2. W(x') + W(isr') + 1 = W(x) + W(isr)
      BY <2>2, <3>1, <1>w
    <3> QED  BY <1>3, <3>1, <3>2
  <2> QED  BY <1>9, <2>3, <2>4 DEF SPI_TransmitReceive
<1>10. CASE IsrEnters \/ IsrReturns
  BY <1>1, <1>10 DEF IsrEnters, IsrReturns, driverVars
<1>11. CASE IsrWrites
  <2>1. PICK b \in Nat : tx' = Append(tx, b)
    BY <1>11 DEF IsrWrites, ClearIrq, Write, ComIrqReg
  <2>2. rx' = rx /\ x' = x /\ W(isr) = 0 /\ W(isr') = 1
    BY <1>11 DEF IsrWrites, driverVars
  <2> HIDE DEF W
  <2>3. W(x') + W(isr') = W(x) + W(isr) + 1
    BY <2>2, <1>w
  <2> QED  BY <1>2, <2>1, <2>2, <2>3
<1>12. CASE IsrReads
  <2>1. rx # <<>> /\ rx' = Tail(rx) /\ tx' = tx /\ x' = x /\ W(isr) = 1 /\ W(isr') = 0
    BY <1>12 DEF IsrReads, driverVars
  <2> HIDE DEF W
  <2>2. W(x') + W(isr') + 1 = W(x) + W(isr)
    BY <2>1, <1>w
  <2> QED  BY <1>3, <2>1, <2>2
<1>13. CASE Reader
  BY <1>13, ReaderSteps DEF RepliesPaired, Waiting
<1> QED
  BY <1>4, <1>5, <1>6, <1>7, <1>8, <1>9, <1>10, <1>11, <1>12, <1>13
  DEF RfidNext, vTaskRFID, EXTI0_IRQHandler

-----------------------------------------------------------------------------
BoardInv == ReaderInv /\ KeypadInv /\ RepliesPaired

LEMMA InitBoard == Init => BoardInv
<1> SUFFICES ASSUME Init PROVE BoardInv
  OBVIOUS
<1>1. ReaderInv
  BY InitType DEF Init
<1>2. KeypadInv
  BY InitKeypad
<1>3. RepliesPaired
  BY DEF Init, RfidInit, ChipInit, RepliesPaired, Waiting
<1> QED  BY <1>1, <1>2, <1>3 DEF BoardInv

LEMMA FingerMoves ==
    ASSUME BoardInv, Press \/ Release
    PROVE  BoardInv'
<1>1. UNCHANGED <<keypadVars, rfidVars, seen>> /\ pressed' \in Keys \cup {NONE} /\ times' \in Nat
  BY DEF Press, Release, BoardInv, KeypadInv, KeypadTypeOK
<1>2. ReaderInv' /\ RepliesPaired'
  BY <1>1 DEF rfidVars, driverVars, isrVars, chipVars, portVars, BoardInv, ReaderInv,
     RfidTypeOK, ChipTypeOK, PortTypeOK, CountersOK, RepliesPaired, Waiting
<1>3. KeypadTypeOK' /\ LowsOK' /\ (Column1OK => Column1OK')
  BY <1>1 DEF keypadVars, rfidVars, portVars, BoardInv, KeypadInv, KeypadTypeOK, LowsOK, Column1OK
<1>4. PressOK => PressOK'
  BY <1>1 DEF Press, Release, PressOK
<1> QED
  BY <1>1, <1>2, <1>3, <1>4 DEF keypadVars, rfidVars, portVars, BoardInv, KeypadInv

LEMMA StutterBoard ==
    ASSUME BoardInv, UNCHANGED vars
    PROVE  BoardInv'
<1>1. ReaderInv' /\ RepliesPaired'
  BY DEF vars, rfidVars, driverVars, isrVars, chipVars, portVars, BoardInv, ReaderInv,
     RfidTypeOK, ChipTypeOK, PortTypeOK, CountersOK, RepliesPaired, Waiting
<1>2. KeypadInv'
  BY DEF vars, keypadVars, rfidVars, portVars, finger, BoardInv, KeypadInv, KeypadTypeOK,
     LowsOK, Column1OK, PressOK
<1> QED  BY <1>1, <1>2 DEF BoardInv

LEMMA KeepsBoard ==
    ASSUME BoardInv, [Next]_vars
    PROVE  BoardInv'
<1>1. CASE RfidNext /\ UNCHANGED <<keypadVars, finger>>
  BY <1>1, ReaderKeeps, ReaderSparesKeypad, PairsKept DEF BoardInv
<1>2. CASE vTaskKeypad
  <2>1. ReaderInv' /\ KeypadInv'
    BY <1>2, KeypadSparesReader, KeypadKeeps DEF BoardInv
  <2>2. RepliesPaired'
    BY <1>2, KeypadSparesReader DEF BoardInv, RepliesPaired, Waiting
  <2> QED  BY <2>1, <2>2 DEF BoardInv
<1>3. CASE Press \/ Release
  BY <1>3, FingerMoves
<1>4. CASE UNCHANGED vars
  BY <1>4, StutterBoard
<1> QED  BY <1>1, <1>2, <1>3, <1>4 DEF Next

(* The inductive invariant of the two drivers. *)
THEOREM Invariance == Spec => []BoardInv
<1>1. Init => BoardInv
  BY InitBoard
<1>2. BoardInv /\ [Next]_vars => BoardInv'
  BY KeepsBoard
<1> QED  BY <1>1, <1>2, PTL DEF Spec

(* The drivers keep their types; above all, RFID_Anticollision reads no    *)
(* more bytes than card->uid has room for, whatever the bus carried.       *)
THEOREM TypeCorrect == Spec => []TypeOK
<1>1. BoardInv => TypeOK
  <2> SUFFICES ASSUME BoardInv PROVE TypeOK
    OBVIOUS
  <2>1. lows \subseteq 1 .. COLUMNS - 1
    <3>1. col \in 0 .. COLUMNS - 1 /\ COLUMNS \in Nat
      BY BoardAssumption DEF BoardInv, KeypadInv, KeypadTypeOK
    <3>2. lows = {} \/ (lows = {col} /\ col # 0)
      BY DEF BoardInv, KeypadInv, LowsOK
    <3> QED  BY <3>1, <3>2
  <2> QED
    BY <2>1 DEF BoardInv, ReaderInv, KeypadInv, KeypadTypeOK, Scans, TypeOK
<1> QED  BY <1>1, Invariance, PTL

(* Keypad_GetKey returns the key that was under the finger, for every      *)
(* number of rows and columns, as long as its column's bit is its own.     *)
THEOREM RightKey == Spec => []KeyIsPressed
<1>1. BoardInv => KeyIsPressed
  BY DEF BoardInv, KeypadInv, KeyIsPressed
<1> QED  BY <1>1, Invariance, PTL

(* It returns a press once, under the same proviso. *)
THEOREM PressedOnce == Spec => []OncePerPress
<1>1. BoardInv => OncePerPress
  BY DEF BoardInv, KeypadInv, PressOK, OncePerPress
<1> QED  BY <1>1, Invariance, PTL

(* Every byte on the bus has one SPI_TransmitReceive that waits for its    *)
(* reply, whatever the interrupt and the pins do in between.               *)
THEOREM Paired == Spec => []RepliesPaired
<1>1. BoardInv => RepliesPaired
  BY DEF BoardInv
<1> QED  BY <1>1, Invariance, PTL

-----------------------------------------------------------------------------
(* The script, access by access. *)
LEMMA AccessesOfReqa ==
    /\ Len(Script["Reqa"]) = 7
    /\ Script["Reqa"][1] = <<2, 0>> /\ Script["Reqa"][2] = <<8, 127>>
    /\ Script["Reqa"][3] = <<20, 128>> /\ Script["Reqa"][4] = <<18, 38>>
    /\ Script["Reqa"][5] = <<26, 7>> /\ Script["Reqa"][6] = <<2, 12>>
    /\ Script["Reqa"][7] = <<26, 135>>
<1>1. Script["Reqa"] = ReqaOps
  BY DEF Script
<1>2. ReqaOps = << <<2, 0>>, <<8, 127>>, <<20, 128>>, <<18, 38>>, <<26, 7>>, <<2, 12>>, <<26, 135>> >>
  BY DEF ReqaOps, Idle, ClearIrq, FlushFIFO, Write, CommandReg, PCD_Idle, ComIrqReg, FIFOLevelReg,
         FIFODataReg, PICC_REQA, BitFramingReg, PCD_Transceive
<1> QED  BY <1>1, <1>2

LEMMA AccessesOfAnticoll ==
    /\ Len(Script["Anticoll"]) = 8
    /\ Script["Anticoll"][1] = <<8, 127>> /\ Script["Anticoll"][2] = <<20, 128>>
    /\ Script["Anticoll"][3] = <<2, 0>> /\ Script["Anticoll"][4] = <<18, 147>>
    /\ Script["Anticoll"][5] = <<18, 32>> /\ Script["Anticoll"][6] = <<26, 0>>
    /\ Script["Anticoll"][7] = <<2, 12>> /\ Script["Anticoll"][8] = <<26, 128>>
<1>1. Script["Anticoll"] = AnticollOps
  BY DEF Script
<1>2. AnticollOps = << <<8, 127>>, <<20, 128>>, <<2, 0>>, <<18, 147>>, <<18, 32>>, <<26, 0>>,
                       <<2, 12>>, <<26, 128>> >>
  BY DEF AnticollOps, Idle, ClearIrq, FlushFIFO, StopSend, Write, CommandReg, PCD_Idle, ComIrqReg,
         FIFOLevelReg, FIFODataReg, PICC_ANTICOLL, BitFramingReg, PCD_Transceive
<1> QED  BY <1>1, <1>2

LEMMA AccessesOfCleanup ==
    /\ Len(Script["Cleanup"]) = 4
    /\ Script["Cleanup"][1] = <<2, 0>> /\ Script["Cleanup"][2] = <<8, 127>>
    /\ Script["Cleanup"][3] = <<20, 128>> /\ Script["Cleanup"][4] = <<26, 0>>
<1>1. Script["Cleanup"] = CleanupOps
  BY DEF Script
<1>2. CleanupOps = << <<2, 0>>, <<8, 127>>, <<20, 128>>, <<26, 0>> >>
  BY DEF CleanupOps, Idle, ClearIrq, FlushFIFO, StopSend, Write, CommandReg, PCD_Idle, ComIrqReg,
         FIFOLevelReg, BitFramingReg
<1> QED  BY <1>1, <1>2

LEMMA SingleAccesses ==
    /\ \A p \in {"ReqaPoll", "AnticollPoll"} : Len(Script[p]) = 1 /\ Script[p][1] = <<136, 0>>
    /\ \A p \in {"ReqaStop", "AnticollStop"} : Len(Script[p]) = 1 /\ Script[p][1] = <<26, 0>>
    /\ \A p \in {"ReqaError", "AnticollError"} : Len(Script[p]) = 1 /\ Script[p][1] = <<140, 0>>
    /\ Len(Script["Level"]) = 1 /\ Script["Level"][1] = <<148, 0>>
    /\ Len(Script["Uid"]) = 1 /\ Script["Uid"][1] = <<146, 0>>
    /\ Len(Script["Version"]) = 1 /\ Script["Version"][1] = <<238, 0>>
    /\ Len(Script["Antenna"]) = 1 /\ Script["Antenna"][1] = <<40, 131>>
  BY DEF Script, StopSend, AntennaOn, Write, ReadReg, ComIrqReg, BitFramingReg, ErrorReg, FIFOLevelReg, FIFODataReg,
     TxControlReg

LEMMA AccessesOfInit ==
    /\ Len(Script["Init"]) = 7 /\ Len(Script["Enable"]) = 2
    /\ Script["Init"][1] = <<84, 141>> /\ Script["Init"][2] = <<86, 62>>
    /\ Script["Init"][3] = <<88, 0>> /\ Script["Init"][4] = <<90, 48>>
    /\ Script["Init"][5] = <<42, 64>> /\ Script["Init"][6] = <<34, 61>>
    /\ Script["Init"][7] = <<168, 0>>
    /\ Script["Enable"][1] = <<4, 160>> /\ Script["Enable"][2] = <<6, 128>>
<1>1. Script["Init"] = InitOps /\ Script["Enable"] = EnableOps
  BY DEF Script
<1>2. InitOps = << <<84, 141>>, <<86, 62>>, <<88, 0>>, <<90, 48>>, <<42, 64>>, <<34, 61>>, <<168, 0>> >>
  BY DEF InitOps, Write, ReadReg, TxControlReg
<1>3. EnableOps = << <<4, 160>>, <<6, 128>> >>
  BY DEF EnableOps, Write, ComIEnReg
<1> QED  BY <1>1, <1>2, <1>3

-----------------------------------------------------------------------------
(* Bits of the bytes the driver writes. *)
LEMMA Bits ==
    /\ Bit(135, 7) /\ Bit(128, 7) /\ ~Bit(0, 7) /\ ~Bit(7, 7) /\ ~Bit(8, 7) /\ ~Bit(127, 7)
    /\ Bit(136, 7) /\ ~Bit(0, 5) /\ ~Bit(0, 4)
    /\ Flags(127) = {TimerIRq, IdleIRq, RxIRq} /\ Flags(136) = {} /\ Flags(0) = {} /\ Flags(8) = {}
<1>1. 2^7 = 128 /\ 2^5 = 32 /\ 2^4 = 16 /\ 2^0 = 1
  OBVIOUS
<1>2. /\ Bit(135, 7) /\ Bit(128, 7) /\ ~Bit(0, 7) /\ ~Bit(7, 7) /\ ~Bit(8, 7) /\ ~Bit(127, 7)
      /\ Bit(136, 7) /\ ~Bit(0, 5) /\ ~Bit(0, 4)
  BY <1>1 DEF Bit
<1>3. /\ Bit(127, 0) /\ Bit(127, 4) /\ Bit(127, 5)
      /\ \A b \in {0, 8, 136} : ~Bit(b, 0) /\ ~Bit(b, 4) /\ ~Bit(b, 5)
  BY <1>1 DEF Bit
<1>4. Flags(127) = {TimerIRq, IdleIRq, RxIRq}
  BY <1>3 DEF Flags, TimerIRq, IdleIRq, RxIRq
<1>5. \A b \in {0, 8, 136} : Flags(b) = {}
  BY <1>3 DEF Flags, TimerIRq, IdleIRq, RxIRq
<1> QED  BY <1>2, <1>4, <1>5

(* What the chip keeps when a register is written that has nothing to do   *)
(* with the exchange of messages.                                          *)
Kept(c, d) ==
    /\ d.frame = c.frame
    /\ d.startSend = c.startSend /\ d.air = c.air /\ d.fifo = c.fifo /\ d.irq = c.irq

(* What the writes of the driver do to the chip. *)
LEMMA CommandWritten ==
    ASSUME NEW c \in Chips, NEW b \in {0, 12}
    PROVE  LET d == Written(c, 1, b) IN
           /\ d.frame = c.frame /\ d.reg = c.reg
           /\ d.startSend = c.startSend /\ d.air = NONE /\ d.fifo = c.fifo /\ d.irq = c.irq
<1>1. b % 16 # 15
  OBVIOUS
<1>2. Written(c, 1, b) = [c EXCEPT !.command = b % 16, !.air = NONE]
  BY <1>1 DEF Written, PCD_SoftReset, CommandReg, ComIEnReg, ComIrqReg, FIFODataReg, FIFOLevelReg, BitFramingReg,
         TxControlReg
<1> HIDE DEF Written
<1> QED  BY <1>2 DEF Chips

LEMMA IrqWritten ==
    ASSUME NEW c \in Chips
    PROVE  LET d == Written(c, 4, 127) IN
           /\ d.frame = c.frame /\ d.reg = c.reg
           /\ d.startSend = c.startSend /\ d.air = c.air /\ d.fifo = c.fifo /\ d.irq = {}
<1>1. Written(c, 4, 127) = [c EXCEPT !.irq = @ \ Flags(127)]
  BY Bits DEF Written, CommandReg, ComIEnReg, ComIrqReg, FIFODataReg, FIFOLevelReg, BitFramingReg,
         TxControlReg
<1>2. c.irq \ Flags(127) = {}
  BY Bits DEF Chips
<1> QED  BY <1>1, <1>2 DEF Chips

LEMMA FlushWritten ==
    ASSUME NEW c \in Chips
    PROVE  LET d == Written(c, 10, 128) IN
           /\ d.frame = c.frame /\ d.reg = c.reg
           /\ d.startSend = c.startSend /\ d.air = c.air /\ d.fifo = <<>> /\ d.irq = c.irq
<1>1. Written(c, 10, 128) = [c EXCEPT !.fifo = <<>>]
  BY Bits DEF Written, CommandReg, ComIEnReg, ComIrqReg, FIFODataReg, FIFOLevelReg, BitFramingReg,
         TxControlReg
<1> QED  BY <1>1 DEF Chips

LEMMA DataWritten ==
    ASSUME NEW c \in Chips, NEW b
    PROVE  LET d == Written(c, 9, b) IN
           /\ d.frame = c.frame /\ d.reg = c.reg
           /\ d.startSend = c.startSend /\ d.air = c.air /\ d.fifo = Append(c.fifo, b)
           /\ d.irq = c.irq
<1>1. Written(c, 9, b) = [c EXCEPT !.fifo = Append(@, b)]
  BY DEF Written, CommandReg, ComIEnReg, ComIrqReg, FIFODataReg, FIFOLevelReg, BitFramingReg,
         TxControlReg
<1> QED  BY <1>1 DEF Chips

LEMMA FramingWritten ==
    ASSUME NEW c \in Chips, NEW b
    PROVE  LET d == Written(c, 13, b) IN
           /\ d.frame = c.frame /\ d.reg = c.reg
           /\ d.startSend = Bit(b, 7) /\ d.air = c.air /\ d.fifo = c.fifo /\ d.irq = c.irq
<1>1. Written(c, 13, b) = [c EXCEPT !.lastBits = b % 8, !.startSend = Bit(b, 7)]
  BY DEF Written, CommandReg, ComIEnReg, ComIrqReg, FIFODataReg, FIFOLevelReg, BitFramingReg,
         TxControlReg
<1> QED  BY <1>1 DEF Chips

LEMMA OtherWritten ==
    ASSUME NEW c \in Chips, NEW r \in Nat \ {1, 4, 9, 10, 13}, NEW b
    PROVE  Kept(c, Written(c, r, b)) /\ Written(c, r, b).reg = c.reg
<1>1. \/ Written(c, r, b) = [c EXCEPT !.RxIEn = Bit(b, RxIRq)]
      \/ Written(c, r, b) = [c EXCEPT !.antenna = Bit(b, 0) /\ Bit(b, 1)]
      \/ Written(c, r, b) = c
  BY DEF Written, CommandReg, ComIEnReg, ComIrqReg, FIFODataReg, FIFOLevelReg, BitFramingReg,
     TxControlReg
<1> QED  BY <1>1 DEF Chips, Kept

(* A byte that a disturbed access writes to ComIrqReg takes flags away.    *)
LEMMA IrqWrittenTame ==
    ASSUME NEW c \in Chips, NEW b \in {0, 8, 127, 136}
    PROVE  LET d == Written(c, 4, b) IN
           /\ d.frame = c.frame /\ d.reg = c.reg
           /\ d.startSend = c.startSend /\ d.air = c.air /\ d.fifo = c.fifo
           /\ d.irq \subseteq c.irq
<1>1. Written(c, 4, b) = [c EXCEPT !.irq = IF Bit(b, 7) THEN @ \cup Flags(b) ELSE @ \ Flags(b)]
  BY DEF Written, CommandReg, ComIEnReg, ComIrqReg, FIFODataReg, FIFOLevelReg, BitFramingReg,
         TxControlReg
<1>2. Bit(b, 7) => Flags(b) = {}
  BY Bits
<1> QED  BY <1>1, <1>2 DEF Chips

(* Only a read of the FIFO changes the chip. *)
LEMMA ReadEffect ==
    ASSUME NEW c \in Chips, NEW r, NEW s \in Nat
    PROVE  LET d == [Read(c, r) EXCEPT !.reg = s] IN
           /\ d.frame = c.frame /\ d.reg = s
           /\ d.startSend = c.startSend /\ d.air = c.air /\ d.irq = c.irq
           /\ d.fifo = IF r = 9 /\ c.fifo # <<>> THEN Tail(c.fifo) ELSE c.fifo
<1>1. CASE r = 9 /\ c.fifo # <<>>
  BY <1>1 DEF Read, FIFODataReg, Chips
<1>2. CASE ~(r = 9 /\ c.fifo # <<>>)
  BY <1>2 DEF Read, FIFODataReg, Chips
<1> QED  BY <1>1, <1>2

(* The pins choose the frame and leave the rest, while the reset is high. *)
LEMMA SeesEffect ==
    ASSUME chip \in Chips, NEW pins, "RST" \in pins, "RST" \in odr,
           chip.frame = "off" <=> "CS" \in odr
    PROVE  LET d == SeesPins(pins) IN
           /\ d.startSend = chip.startSend /\ d.air = chip.air /\ d.fifo = chip.fifo
           /\ d.irq = chip.irq
           /\ "CS" \in pins => d.frame = "off"
           /\ "CS" \notin pins /\ "CS" \in odr => d.frame = "address"
           /\ "CS" \notin pins /\ "CS" \notin odr => d = chip
<1>1. CASE "CS" \in pins
  BY <1>1 DEF SeesPins, Chips
<1>2. CASE "CS" \notin pins /\ "CS" \in odr
  BY <1>2 DEF SeesPins, Chips
<1>3. CASE "CS" \notin pins /\ "CS" \notin odr
  BY <1>3 DEF SeesPins, Chips
<1> QED  BY <1>1, <1>2, <1>3

-----------------------------------------------------------------------------
(* vTaskKeypad has undone no write of the chip select or the reset. *)
Unharmed == undone \cap {"CS", "RST"} = {}

PollParts == {"ReqaPoll", "AnticollPoll"}
StopParts == {"ReqaStop", "AnticollStop"}

(* The second byte of the present access has been shifted, and how many    *)
(* accesses of the present part have got that far.                         *)
Reached ==
    \/ x \in {"load2", "deselect"}
    \/ x = "read2" /\ tx # <<Bytes[2]>>
Performed == IF Reached THEN op ELSE op - 1

(* The interrupt may come from the end of the access that starts the       *)
(* sending to the end of the polling.                                      *)
Starting == at \in {"Reqa", "Anticoll"} /\ op = Len(Script[at]) /\ Reached
Window   == at \in PollParts \/ Starting

(* The chip is about to send or waits for the answer. *)
Sending == chip.startSend \/ chip.air # NONE

(* The first byte of the present access has been shifted. *)
InFrame ==
    /\ chip.frame = IF Bytes[1] >= 128 THEN "read" ELSE "write"
    /\ chip.reg = (Bytes[1] \div 2) % 64

(* If the present access has read a byte, it is v. *)
ReplyIs(v) ==
    /\ x = "read2" /\ rx # <<>> => Head(rx) = v
    /\ x \in {"load2", "deselect"} => value = v

PinsOK ==
    /\ "RST" \in odr <=> at # "ResetHigh"
    /\ at = "ResetHigh" => chip = ResetChip
    /\ isr = "off" /\ x \in {"load", "store", "select"} => "CS" \in odr
    /\ chip.frame = "off" <=> "CS" \in odr \/ "RST" \notin odr

CalmOK == ~Window => isr = "off" /\ ~pending

(* No flag is set and no interrupt comes while an answer is still due, and *)
(* an answer that comes after the driver gave up is not waited for.        *)
SendingOK ==
    /\ chip.irq \subseteq {RxIRq}
    /\ Sending => chip.irq = {} /\ isr = "off" /\ ~pending
    /\ Sending => Window \/ (timeout = 0 /\ at \in StopParts \cup {"Cleanup"})
    /\ chip.air # NONE => ~chip.startSend
    /\ at = "Cleanup" \/ (at \in StopParts /\ Reached) => ~chip.startSend
    /\ at = "Cleanup" /\ Performed > 0 => chip.air = NONE

(* What the chip makes of the bytes is what the driver means, unless the   *)
(* interrupt cut in, which it does only when the answer is there.          *)
SyncOK ==
    ~Window \/ Sending =>
        /\ x = "write1" => chip.frame = "address"
        /\ x = "read1" /\ tx # <<>> => tx = <<Bytes[1]>> /\ chip.frame = "address"
        /\ x = "read1" /\ tx = <<>> => InFrame
        /\ x = "write2" => InFrame
        /\ x = "read2" /\ tx # <<>> => tx = <<Bytes[2]>> /\ InFrame

(* And then the bytes that go astray do no harm. *)
TameOK ==
    Window =>
        /\ tx \in Seq(IF Starting THEN {8, 127} ELSE {0, 8, 127, 136})
        /\ chip.frame \in {"read", "write"} =>
              chip.reg \in {0, 4, 63} \cup (IF Starting THEN {13} ELSE {})

(* The flags and the FIFO before an exchange, the FIFO after it. *)
FlagsOK ==
    ~Window =>
        /\ at = "Reqa" /\ Performed >= 2 => chip.irq = {}
        /\ at = "Anticoll" /\ Performed >= 1 => chip.irq = {}

FifoOK ==
    /\ at = "Anticoll" /\ ~Window =>
          /\ Performed \in {2, 3} => chip.fifo = <<>>
          /\ Performed = 4 => chip.fifo = << 147 >>
          /\ Performed >= 5 => chip.fifo = <<147, 32>>
    /\ at \in {"Anticoll", "AnticollPoll"} /\ Window =>
          /\ chip.startSend => chip.fifo = <<147, 32>>
          /\ chip.air # NONE => chip.fifo = <<>> /\ chip.air.bytes = <<147, 32>>
          /\ ~Sending => chip.fifo = UID
    /\ at = "AnticollStop" /\ timeout > 0 => chip.fifo = UID
    /\ at \in {"AnticollError", "Level"} => chip.fifo = UID

PollOK  == at \in PollParts /\ Sending => ReplyIs(0)
LevelOK == at = "Level" => ReplyIs(Len(UID))

(* The first elements of a sequence, and the last ones. *)
Prefix(s, q) == Len(s) <= Len(q) /\ \A i \in 1 .. Len(s) : s[i] = q[i]
Suffix(s, q) ==
    Len(s) <= Len(q) /\ \A i \in 1 .. Len(s) : s[i] = q[Len(q) - Len(s) + i]

(* card->uid holds the first bytes and the FIFO the rest. *)
UidOK ==
    at = "Uid" =>
        /\ Prefix(uid.bytes, UID) /\ Suffix(chip.fifo, UID)
        /\ Len(uid.bytes) + uid.left = Len(UID)
        /\ Len(chip.fifo) = IF Reached THEN uid.left - 1 ELSE uid.left
        /\ ReplyIs(UID[Len(uid.bytes) + 1])

StatusOK == status = "OK" => at \in {"Cleanup", "Sleep"} /\ uid.bytes = UID

Bus ==
    /\ PinsOK /\ CalmOK /\ SendingOK /\ SyncOK /\ TameOK /\ FlagsOK /\ FifoOK
    /\ PollOK /\ LevelOK /\ UidOK /\ StatusOK

LEMMA InitBus == RfidInit => Bus
<1> SUFFICES ASSUME RfidInit PROVE Bus
  OBVIOUS
<1>1. /\ at = "ResetLow" /\ op = 1 /\ x = "load" /\ status = NONE /\ isr = "off"
      /\ tx = <<>> /\ rx = <<>> /\ chip = ResetChip /\ ~pending /\ odr = Pins
  BY DEF RfidInit, ChipInit, PortInit
<1>2. chip.irq = {} /\ ~chip.startSend /\ chip.air = NONE /\ chip.frame = "off"
  BY <1>1 DEF ResetChip
<1>3. ~Reached /\ ~Window /\ ~Sending
  BY <1>1, <1>2 DEF Reached, Starting, Window, PollParts, Sending
<1>4. PinsOK
  BY <1>1, <1>2 DEF PinsOK, Pins
<1>5. CalmOK /\ SendingOK /\ SyncOK /\ TameOK /\ FlagsOK /\ FifoOK
  BY <1>1, <1>2, <1>3 DEF CalmOK, SendingOK, SyncOK, TameOK, FlagsOK, FifoOK, StopParts
<1>6. PollOK /\ LevelOK /\ UidOK
  BY <1>1, <1>3 DEF PollOK, PollParts, LevelOK, UidOK
<1>7. status # "OK"
  BY <1>1, RfidAssumption
<1> QED  BY <1>4, <1>5, <1>6, <1>7 DEF Bus, StatusOK

-----------------------------------------------------------------------------
(* While no interrupt runs, bytes are on their way only for the driver.    *)
LEMMA LineQuiet ==
    ASSUME BoardInv, isr = "off"
    PROVE  /\ tx \in Seq(Nat) /\ rx \in Seq(Nat)
           /\ x \notin {"read1", "read2"} => tx = <<>> /\ rx = <<>>
           /\ tx # <<>> => rx = <<>> /\ Tail(tx) = <<>>
           /\ rx # <<>> => tx = <<>> /\ Tail(rx) = <<>>
           /\ x \in {"read1", "read2"} => (tx # <<>> <=> rx = <<>>)
<1>1. tx \in Seq(Nat) /\ rx \in Seq(Nat) /\ Len(tx) \in Nat /\ Len(rx) \in Nat
  BY DEF BoardInv, ReaderInv, RfidTypeOK, ChipTypeOK
<1>2. Len(tx) + Len(rx) = IF x \in {"read1", "read2"} THEN 1 ELSE 0
  BY <1>1 DEF BoardInv, RepliesPaired, Waiting
<1>3. \A s \in Seq(Nat) : /\ Len(s) = 0 <=> s = <<>>
                          /\ Len(s) = 1 => Tail(s) = <<>>
  <2> SUFFICES ASSUME NEW s \in Seq(Nat)
               PROVE  (Len(s) = 0 <=> s = <<>>) /\ (Len(s) = 1 => Tail(s) = <<>>)
    OBVIOUS
  <2>1. Len(s) = 0 <=> s = <<>>
    BY EmptySeq
  <2>2. ASSUME Len(s) = 1 PROVE Tail(s) = <<>>
    <3>1. s # <<>>
      BY <2>1, <2>2
    <3>2. Tail(s) \in Seq(Nat) /\ Len(Tail(s)) = Len(s) - 1
      BY <3>1, HeadTailProperties
    <3>3. Len(Tail(s)) = 0
      BY <2>2, <3>2
    <3> QED  BY <3>2, <3>3, EmptySeq
  <2> QED  BY <2>1, <2>2
<1>4. (Len(tx) = 0 <=> tx = <<>>) /\ (Len(rx) = 0 <=> rx = <<>>)
      /\ (Len(tx) = 1 => Tail(tx) = <<>>) /\ (Len(rx) = 1 => Tail(rx) = <<>>)
  BY <1>1, <1>3
<1> QED  BY <1>1, <1>2, <1>4

(* A store that undoes nothing changes only the pin it is meant to change. *)
LEMMA StoreEffect ==
    ASSUME PortTypeOK, NEW d \in Drivers, NEW p \in Pins, NEW high, Store(d, p, high),
           Unharmed'
    PROVE  /\ Unharmed
           /\ p \in odr' <=> high
           /\ \A q \in {"CS", "RST"} \ {p} : q \in odr' <=> q \in odr
<1>1. Unharmed
  BY DEF Store, Unharmed
<1>2. p \in odr' <=> high
  BY DEF Store, With
<1>3. ASSUME NEW q \in {"CS", "RST"} \ {p} PROVE q \in odr' <=> q \in odr
  <2>1. q \in Pins \ {p}
    BY DEF Pins
  <2>2. q \in held[d] <=> q \in odr
    BY <2>1 DEF Store, Unharmed
  <2>3. q \in odr' <=> q \in held[d]
    BY <2>1 DEF Store, With
  <2> QED  BY <2>2, <2>3
<1> QED  BY <1>1, <1>2, <1>3

(* What the rest of the invariant is about. *)
Driver == <<at, op, x, tx, rx, value, timeout, uid, status, isr, pending>>

SameContents ==
    /\ chip'.startSend = chip.startSend /\ chip'.air = chip.air
    /\ chip'.fifo = chip.fifo /\ chip'.irq = chip.irq

LEMMA ReaderUntouched ==
    ASSUME Bus, UNCHANGED Driver,
           "CS" \in odr' <=> "CS" \in odr, "RST" \in odr' <=> "RST" \in odr,
           \/ chip' = chip
           \/ at # "ResetHigh" /\ SameContents /\ chip.frame = "off" /\ chip'.frame = "off"
    PROVE  Bus'
<1> USE DEF Driver
<1>0. SameContents /\ chip'.frame = chip.frame
      /\ (chip.frame \in {"read", "write"} => chip'.reg = chip.reg)
      /\ (at = "ResetHigh" => chip' = chip)
  BY DEF SameContents
<1>1. (Reached' <=> Reached) /\ Performed' = Performed /\ (Starting' <=> Starting)
      /\ (Window' <=> Window) /\ (Sending' <=> Sending)
  BY <1>0 DEF Reached, Performed, Starting, Window, PollParts, Sending, SameContents, Bytes
<1>2. (InFrame => InFrame') /\ \A v : ReplyIs(v) => ReplyIs(v)'
  BY <1>0 DEF InFrame, ReplyIs, Bytes
<1>3. PinsOK'
  BY <1>0 DEF Bus, PinsOK
<1>4. CalmOK' /\ SendingOK'
  BY <1>0, <1>1 DEF Bus, CalmOK, SendingOK, SameContents, StopParts
<1>5. SyncOK'
  BY <1>0, <1>1, <1>2 DEF Bus, SyncOK, Bytes
<1>6. TameOK'
  BY <1>0, <1>1 DEF Bus, TameOK
<1>7. FlagsOK' /\ FifoOK'
  BY <1>0, <1>1 DEF Bus, FlagsOK, FifoOK, SameContents
<1>8. PollOK' /\ LevelOK'
  BY <1>1, <1>2 DEF Bus, PollOK, LevelOK, PollParts
<1>9. UidOK'
  <2>1. Reached' <=> Reached
    BY <1>1
  <2> QED  BY <1>0, <2>1, <1>2 DEF Bus, UidOK, SameContents
<1>10. StatusOK'
  BY DEF Bus, StatusOK
<1> QED  BY <1>3, <1>4, <1>5, <1>6, <1>7, <1>8, <1>9, <1>10 DEF Bus

(* The keypad's driver moves its own pin, and the chip looks at the others. *)
LEMMA KeypadSparesBus ==
    ASSUME BoardInv, Bus, vTaskKeypad, Unharmed'
    PROVE  Unharmed /\ Bus'
<1>0. PortTypeOK /\ chip \in Chips /\ PinsOK
  BY DEF BoardInv, ReaderInv, RfidTypeOK, ChipTypeOK, Bus
<1>1. UNCHANGED Driver
  BY DEF vTaskKeypad, Keypad_GetKey, LoadColumn, StoreColumn, DriveColumn, ReadRow, Released,
     Others, driverVars, isrVars, Driver
<1>2. CASE StoreColumn
  <2>1. PICK high : Store("Keypad", "COL1", high)
    BY <1>2 DEF StoreColumn
  <2>2. /\ Unharmed
        /\ "CS" \in odr' <=> "CS" \in odr
        /\ "RST" \in odr' <=> "RST" \in odr
    BY <1>0, <2>1, StoreEffect DEF Drivers, Pins
  <2>3. chip' = SeesPins(odr')
    BY <1>2 DEF StoreColumn
  <2>4. CASE at = "ResetHigh"
    <3>1. "RST" \notin odr' /\ chip = ResetChip
      BY <1>0, <2>2, <2>4 DEF PinsOK
    <3>2. chip' = chip
      BY <2>3, <3>1 DEF SeesPins
    <3> QED  BY <1>1, <2>2, <3>2, ReaderUntouched
  <2>5. CASE at # "ResetHigh"
    <3>1. "RST" \in odr /\ "RST" \in odr' /\ (chip.frame = "off" <=> "CS" \in odr)
      BY <1>0, <2>2, <2>5 DEF PinsOK
    <3>2. /\ SameContents
          /\ "CS" \in odr' => chip'.frame = "off"
          /\ "CS" \notin odr' /\ "CS" \notin odr => chip' = chip
      BY <1>0, <2>3, <3>1, SeesEffect DEF SameContents
    <3>3. chip' = chip \/ (chip.frame = "off" /\ chip'.frame = "off")
      BY <2>2, <3>1, <3>2
    <3> QED  BY <1>1, <2>2, <2>5, <3>2, <3>3, ReaderUntouched
  <2> QED  BY <2>2, <2>4, <2>5
<1>3. CASE ~StoreColumn
  <2>1. chip' = chip /\ odr' = odr /\ undone' = undone
    BY <1>3 DEF vTaskKeypad, Keypad_GetKey, LoadColumn, DriveColumn, ReadRow, Released, Load,
       Called, portVars
  <2> QED  BY <1>1, <2>1, ReaderUntouched DEF Unharmed
<1> QED  BY <1>2, <1>3

LEMMA FingerSparesBus ==
    ASSUME Bus, Press \/ Release \/ UNCHANGED vars
    PROVE  Bus' /\ (Unharmed' <=> Unharmed)
<1>1. UNCHANGED rfidVars
  BY DEF Press, Release, vars
<1>2. UNCHANGED <<Driver, chip, odr, undone>>
  BY <1>1 DEF rfidVars, driverVars, isrVars, chipVars, portVars, Driver
<1> QED  BY <1>2, ReaderUntouched DEF Unharmed

(* A task that loads the port changes nothing else, and neither does one   *)
(* that goes on to the next step of the access.                            *)
LEMMA LoadKeeps ==
    ASSUME BoardInv, Bus, TasksRun, ResetPin \/ Select \/ BeginDeselect, x \in {"load", "load2"},
           ~(ResetPin /\ x # "load"), ~(Select /\ x # "load")
    PROVE  Bus' /\ (Unharmed' <=> Unharmed)
<1>1. /\ UNCHANGED <<at, op, tx, rx, value, timeout, uid, status, isr, pending, chip, odr, undone>>
      /\ \/ x = "load" /\ x' \in {"store", "select"}
         \/ x = "load2" /\ x' = "deselect"
  BY DEF ResetPin, Select, BeginDeselect, Load, isrVars, chipVars
<1>2. (Reached' <=> Reached) /\ Performed' = Performed /\ (Starting' <=> Starting)
      /\ (Window' <=> Window) /\ (Sending' <=> Sending)
  BY <1>1 DEF Reached, Performed, Starting, Window, PollParts, Sending, Bytes
<1>3. \A v : ReplyIs(v) => ReplyIs(v)'
  BY <1>1 DEF ReplyIs
<1>4. PinsOK'
  BY <1>1 DEF Bus, PinsOK
<1>5. CalmOK' /\ SendingOK'
  BY <1>1, <1>2 DEF Bus, CalmOK, SendingOK, StopParts
<1>6. SyncOK' /\ TameOK'
  BY <1>1, <1>2 DEF Bus, SyncOK, TameOK
<1>7. FlagsOK' /\ FifoOK'
  BY <1>1, <1>2 DEF Bus, FlagsOK, FifoOK
<1>8. PollOK' /\ LevelOK'
  BY <1>1, <1>2, <1>3 DEF Bus, PollOK, LevelOK, PollParts
<1>9. UidOK'
  BY <1>1, <1>2, <1>3 DEF Bus, UidOK
<1>10. StatusOK'
  BY <1>1 DEF Bus, StatusOK
<1> QED  BY <1>1, <1>4, <1>5, <1>6, <1>7, <1>8, <1>9, <1>10 DEF Bus, Unharmed

(* The parts that are asked for what they read. *)
ReplyParts == PollParts \cup {"Level", "Uid"}

(* As SameContents, but flags may have been taken away. *)
FewerFlags ==
    /\ chip'.startSend = chip.startSend /\ chip'.air = chip.air
    /\ chip'.fifo = chip.fifo /\ chip'.irq \subseteq chip.irq

(* A step that does not get an access further and leaves what the chip     *)
(* holds changes only what is said of the bytes on their way and of the    *)
(* pins.                                                                   *)
LEMMA SameStage ==
    ASSUME Bus, UNCHANGED <<at, op, timeout, uid, status>>,
           SameContents \/ (Window /\ ~Sending /\ FewerFlags),
           at \in PollParts \/ (Reached' <=> Reached),
           at \in ReplyParts /\ (~Window \/ Sending) => \A v : ReplyIs(v) => ReplyIs(v)',
           (Window /\ ~Sending) \/ UNCHANGED <<isr, pending>>
    PROVE  /\ (Starting' <=> Starting) /\ (Window' <=> Window) /\ (Sending' <=> Sending)
           /\ CalmOK' /\ SendingOK' /\ FlagsOK' /\ FifoOK' /\ PollOK' /\ LevelOK' /\ UidOK' /\ StatusOK'
<1>0. FewerFlags /\ (chip'.irq = chip.irq \/ (Window /\ ~Sending))
  BY DEF SameContents, FewerFlags
<1>1. (Starting' <=> Starting) /\ (Window' <=> Window) /\ (Sending' <=> Sending)
      /\ (at \notin PollParts => Performed' = Performed)
  BY <1>0 DEF Performed, Starting, Window, PollParts, Sending, FewerFlags
<1>2. CalmOK'
  BY <1>1 DEF Bus, CalmOK
<1>3. SendingOK'
  BY <1>0, <1>1 DEF Bus, SendingOK, StopParts, PollParts, FewerFlags
<1>4. FlagsOK' /\ FifoOK'
  BY <1>0, <1>1 DEF Bus, FlagsOK, FifoOK, PollParts, FewerFlags
<1>5. PollOK' /\ LevelOK'
  <2>1. at = "Level" => ~Window
    BY DEF Window, PollParts, Starting
  <2> QED  BY <1>1, <2>1 DEF Bus, PollOK, LevelOK, PollParts, ReplyParts
<1>6. UidOK'
  <2>1. at = "Uid" => ~Window /\ (Reached' <=> Reached)
    BY DEF Window, PollParts, Starting
  <2> QED  BY <1>0, <1>1, <2>1 DEF Bus, UidOK, ReplyParts, FewerFlags
<1>7. StatusOK'
  BY DEF Bus, StatusOK
<1> QED  BY <1>1, <1>2, <1>3, <1>4, <1>5, <1>6, <1>7

LEMMA PartsOnly == \A p \in Parts : p \notin {"ResetLow", "ResetHigh", "Sleep"}
  BY DEF Parts, Script

LEMMA ResetStores ==
    ASSUME BoardInv, Bus, TasksRun, ResetPin, x = "store", Unharmed'
    PROVE  Unharmed /\ Bus'
<1>0. PortTypeOK /\ chip \in Chips /\ op = 1 /\ op' = op
      /\ tx' = tx /\ isr' = isr /\ pending' = pending /\ uid' = uid /\ status' = status
      /\ isr = "off" /\ ~pending /\ x' = "load" /\ rx' = rx
  BY DEF BoardInv, ReaderInv, CountersOK, RfidTypeOK, ChipTypeOK, ResetPin, isrVars, TasksRun
<1>1. Store("RFID", "RST", at = "ResetHigh") /\ chip' = SeesPins(odr')
      /\ at \in {"ResetLow", "ResetHigh"}
      /\ at' = IF at = "ResetLow" THEN "ResetHigh" ELSE "Init"
  BY DEF ResetPin
<1>2. /\ Unharmed
      /\ "RST" \in odr' <=> at = "ResetHigh"
      /\ "CS" \in odr' <=> "CS" \in odr
  BY <1>0, <1>1, StoreEffect DEF Drivers, Pins
<1>3. "CS" \in odr'
  BY <1>0, <1>2 DEF Bus, PinsOK
<1>4. /\ chip'.startSend = FALSE /\ chip'.air = NONE /\ chip'.irq = {} /\ chip'.frame = "off"
      /\ at = "ResetLow" => chip' = ResetChip
  <2>1. CASE at = "ResetLow"
    BY <1>1, <1>2, <2>1 DEF SeesPins, ResetChip
  <2>2. CASE at = "ResetHigh"
    <3>1. chip = ResetChip
      BY <2>2 DEF Bus, PinsOK
    <3>2. chip' = [ResetChip EXCEPT !.frame = "off", !.reg = 0]
      BY <1>1, <1>2, <1>3, <2>2, <3>1 DEF SeesPins
    <3> QED  BY <2>2, <3>2 DEF ResetChip
  <2> QED  BY <1>1, <2>1, <2>2
<1>5. at' \in {"ResetHigh", "Init"} /\ ~Window' /\ ~Sending'
  BY <1>0, <1>1, <1>4 DEF Window, PollParts, Starting, Reached, Sending
<1>6. PinsOK'
  BY <1>1, <1>2, <1>3, <1>4 DEF PinsOK
<1>7. CalmOK' /\ SendingOK' /\ SyncOK' /\ TameOK' /\ FlagsOK' /\ FifoOK'
  BY <1>0, <1>4, <1>5 DEF CalmOK, SendingOK, SyncOK, TameOK, FlagsOK, FifoOK, StopParts
<1>8. PollOK' /\ LevelOK' /\ UidOK'
  BY <1>5 DEF PollOK, PollParts, LevelOK, UidOK
<1>9. StatusOK'
  BY <1>0, <1>1 DEF StatusOK, Bus
<1> QED  BY <1>2, <1>6, <1>7, <1>8, <1>9 DEF Bus

(* The chip select falls: the next byte is an address. *)
LEMMA SelectStores ==
    ASSUME BoardInv, Bus, TasksRun, Select, x = "select", Unharmed'
    PROVE  Unharmed /\ Bus'
<1>0. PortTypeOK /\ chip \in Chips
      /\ tx' = tx /\ rx' = rx /\ isr' = isr /\ pending' = pending /\ isr = "off" /\ ~pending
      /\ x' = "write1" /\ UNCHANGED <<at, op, timeout, uid, status, value>>
  BY DEF BoardInv, ReaderInv, RfidTypeOK, ChipTypeOK, Select, isrVars, TasksRun
<1>1. Store("RFID", "CS", FALSE) /\ chip' = SeesPins(odr') /\ at # "ResetHigh"
  BY PartsOnly DEF Select
<1>2. /\ Unharmed
      /\ "CS" \notin odr'
      /\ "RST" \in odr' <=> "RST" \in odr
  BY <1>0, <1>1, StoreEffect DEF Drivers, Pins
<1>3. "CS" \in odr /\ "RST" \in odr /\ "RST" \in odr' /\ chip.frame = "off"
  BY <1>0, <1>1, <1>2 DEF Bus, PinsOK
<1>4. SameContents /\ chip'.frame = "address"
  BY <1>0, <1>1, <1>2, <1>3, SeesEffect DEF SameContents
<1>5. ~Reached /\ ~Reached' /\ \A v : ReplyIs(v)'
  BY <1>0 DEF Reached, ReplyIs
<1>6. /\ (Starting' <=> Starting) /\ (Window' <=> Window) /\ (Sending' <=> Sending)
      /\ CalmOK' /\ SendingOK' /\ FlagsOK' /\ FifoOK' /\ PollOK' /\ LevelOK' /\ UidOK' /\ StatusOK'
  BY <1>0, <1>4, <1>5, SameStage
<1>7. PinsOK'
  BY <1>0, <1>1, <1>2, <1>3, <1>4 DEF PinsOK
<1>8. SyncOK'
  BY <1>0, <1>4 DEF SyncOK
<1>9. TameOK'
  BY <1>0, <1>4, <1>6 DEF Bus, TameOK
<1> QED  BY <1>2, <1>6, <1>7, <1>8, <1>9 DEF Bus

(* The bytes of the accesses that only read, or poll. *)
LEMMA PollBytes ==
    ASSUME ReaderInv, at \in PollParts
    PROVE  op = 1 /\ Bytes = <<136, 0>> /\ Bytes[1] = 136 /\ Bytes[2] = 0
<1>1. Len(Script[at]) = 1 /\ Script[at][1] = <<136, 0>>
  BY SingleAccesses DEF PollParts
<1>2. at \in Parts
  BY PartNames DEF PollParts
<1>3. op = 1
  BY <1>1, <1>2 DEF ReaderInv, RfidTypeOK
<1> QED  BY <1>1, <1>3 DEF Bytes

LEMMA ReplyBytes ==
    ASSUME ReaderInv, at \in ReplyParts
    PROVE  Bytes[1] >= 128
<1>1. CASE at \in PollParts
  BY <1>1, PollBytes
<1>2. ASSUME NEW a, at \in Parts, Len(Script[at]) = 1, Script[at][1] = <<a, 0>>
      PROVE  Bytes[1] = a
  <2>1. op = 1
    BY <1>2 DEF ReaderInv, RfidTypeOK
  <2> QED  BY <1>2, <2>1 DEF Bytes
<1>3. CASE at = "Level"
  <2>1. Bytes[1] = 148
    BY <1>2, <1>3, SingleAccesses, PartNames
  <2> QED  BY <2>1
<1>4. CASE at = "Uid"
  <2>1. Bytes[1] = 146
    BY <1>2, <1>4, SingleAccesses, PartNames
  <2> QED  BY <2>1
<1> QED  BY <1>1, <1>3, <1>4 DEF ReplyParts

(* Before the second byte is shifted, only a poll can be disturbed. *)
LEMMA EarlyWindow ==
    ASSUME ReaderInv, Window, ~Reached
    PROVE  at \in PollParts /\ ~Starting /\ Bytes[1] = 136 /\ Bytes[2] = 0
<1>1. ~Starting /\ at \in PollParts
  BY DEF Window, Starting
<1> QED  BY <1>1, PollBytes

LEMMA TransmitReceiveKeeps ==
    ASSUME BoardInv, Bus, TasksRun, SPI_TransmitReceive
    PROVE  Bus' /\ (Unharmed' <=> Unharmed)
<1>0. /\ UNCHANGED <<at, op, timeout, uid, status, isr, pending, chip, odr, undone>>
      /\ isr = "off" /\ ~pending
  BY DEF SPI_TransmitReceive, isrVars, portVars, TasksRun
<1>1. at \in Parts /\ Bytes' = Bytes
  BY <1>0 DEF SPI_TransmitReceive, BoardInv, ReaderInv, CountersOK, Bytes
<1>2. SameContents /\ (InFrame' <=> InFrame) /\ (Unharmed' <=> Unharmed)
  BY <1>0, <1>1 DEF SameContents, InFrame, Unharmed
<1>3. PinsOK'
  <2>1. x' \in {"read1", "write2", "read2", "load2"}
    BY DEF SPI_TransmitReceive
  <2> QED  BY <1>0, <2>1 DEF Bus, PinsOK
<1>4. ReaderInv /\ ((Window \/ ~Window) => TRUE)
  BY DEF BoardInv
<1>5. tx \in Seq(Nat) /\ rx \in Seq(Nat)
  BY <1>0, LineQuiet
<1>6. CASE x = "write1"
  <2>1. tx = <<>> /\ rx = <<>>
    BY <1>0, <1>6, LineQuiet
  <2>2. x' = "read1" /\ rx' = rx /\ tx' = <<Bytes[1]>> /\ value' = value
    BY <1>6, <2>1 DEF SPI_TransmitReceive
  <2>3. ~Reached /\ ~Reached' /\ \A v : ReplyIs(v)'
    BY <1>6, <2>2 DEF Reached, ReplyIs
  <2>4. /\ (Starting' <=> Starting) /\ (Window' <=> Window) /\ (Sending' <=> Sending)
        /\ CalmOK' /\ SendingOK' /\ FlagsOK' /\ FifoOK' /\ PollOK' /\ LevelOK' /\ UidOK' /\ StatusOK'
    BY <1>0, <1>2, <2>3, SameStage
  <2>5. tx' # <<>>
    BY <2>2
  <2>6. SyncOK'
    BY <1>0, <1>1, <1>6, <2>2, <2>4, <2>5 DEF Bus, SyncOK
  <2>7. TameOK'
    <3> SUFFICES ASSUME Window' PROVE TameOK'
      BY DEF TameOK
    <3>1. Window /\ ~Starting /\ ~Starting' /\ Bytes[1] = 136
      BY <1>4, <2>3, <2>4, EarlyWindow
    <3>2. tx' \in Seq({0, 8, 127, 136})
      BY <2>2, <3>1, OneOf
    <3> QED  BY <1>0, <3>1, <3>2 DEF Bus, TameOK
  <2> QED  BY <1>2, <1>3, <2>4, <2>6, <2>7 DEF Bus
<1>7. CASE x = "write2"
  <2>1. tx = <<>> /\ rx = <<>>
    BY <1>0, <1>7, LineQuiet
  <2>2. x' = "read2" /\ rx' = rx /\ tx' = <<Bytes[2]>> /\ value' = value
    BY <1>7, <2>1 DEF SPI_TransmitReceive
  <2>3. ~Reached /\ ~Reached' /\ \A v : ReplyIs(v)'
    BY <1>1, <1>7, <2>1, <2>2 DEF Reached, ReplyIs
  <2>4. /\ (Starting' <=> Starting) /\ (Window' <=> Window) /\ (Sending' <=> Sending)
        /\ CalmOK' /\ SendingOK' /\ FlagsOK' /\ FifoOK' /\ PollOK' /\ LevelOK' /\ UidOK' /\ StatusOK'
    BY <1>0, <1>2, <2>3, SameStage
  <2>5. tx' # <<>>
    BY <2>2
  <2>6. SyncOK'
    BY <1>0, <1>1, <1>2, <1>7, <2>2, <2>4, <2>5 DEF Bus, SyncOK
  <2>7. TameOK'
    <3> SUFFICES ASSUME Window' PROVE TameOK'
      BY DEF TameOK
    <3>1. Window /\ ~Starting /\ ~Starting' /\ Bytes[2] = 0
      BY <1>4, <2>3, <2>4, EarlyWindow
    <3>2. tx' \in Seq({0, 8, 127, 136})
      BY <2>2, <3>1, OneOf
    <3> QED  BY <1>0, <3>1, <3>2 DEF Bus, TameOK
  <2> QED  BY <1>2, <1>3, <2>4, <2>6, <2>7 DEF Bus
<1>8. ASSUME x \in {"read1", "read2"}, rx # <<>>, rx' = Tail(rx), tx' = tx,
             Reached' <=> Reached, x' # "read1", x' # "read2", x' # "write1",
             x' = "write2" => x = "read1",
             at \in ReplyParts => \A v : ReplyIs(v) => ReplyIs(v)'
      PROVE  Bus'
  <2>1. tx = <<>> /\ rx' = <<>>
    BY <1>0, <1>8, LineQuiet
  <2>2. /\ (Starting' <=> Starting) /\ (Window' <=> Window) /\ (Sending' <=> Sending)
        /\ CalmOK' /\ SendingOK' /\ FlagsOK' /\ FifoOK' /\ PollOK' /\ LevelOK' /\ UidOK' /\ StatusOK'
    BY <1>0, <1>2, <1>8, SameStage
  <2>3. SyncOK'
    <3> SUFFICES ASSUME ~Window' \/ Sending', x' = "write2" PROVE InFrame'
      BY <1>8 DEF SyncOK
    <3>1. x = "read1" /\ (~Window \/ Sending)
      BY <1>8, <2>2
    <3>2. InFrame
      BY <2>1, <3>1 DEF Bus, SyncOK
    <3> QED  BY <1>2, <3>2
  <2>4. TameOK'
    BY <1>0, <1>8, <2>2 DEF Bus, TameOK
  <2> QED  BY <1>2, <1>3, <2>2, <2>3, <2>4 DEF Bus
<1>9. CASE x = "read1"
  <2>1. rx # <<>> /\ rx' = Tail(rx) /\ tx' = tx /\ x' = "write2"
    BY <1>9 DEF SPI_TransmitReceive
  <2>2. (Reached' <=> Reached) /\ \A v : ReplyIs(v)'
    BY <1>9, <2>1 DEF Reached, ReplyIs
  <2> QED  BY <1>2, <1>8, <1>9, <2>1, <2>2
<1>10. CASE x = "read2"
  <2>1. rx # <<>> /\ rx' = Tail(rx) /\ tx' = tx /\ x' = "load2"
    BY <1>10 DEF SPI_TransmitReceive
  <2>2. Bytes[1] >= 128 => value' = Head(rx)
    <3> HIDE DEF Bytes
    <3> QED  BY <1>10 DEF SPI_TransmitReceive
  <2>3. tx # <<Bytes[2]>>
    BY <1>0, <2>1, LineQuiet
  <2>4. Reached' <=> Reached
    BY <1>10, <2>1, <2>3 DEF Reached
  <2>5. at \in ReplyParts => \A v : ReplyIs(v) => ReplyIs(v)'
    <3> SUFFICES ASSUME at \in ReplyParts, NEW v, ReplyIs(v) PROVE ReplyIs(v)'
      OBVIOUS
    <3>1. value' = Head(rx)
      BY <1>4, <2>2, ReplyBytes
    <3>2. Head(rx) = v
      BY <1>10, <2>1 DEF ReplyIs
    <3> QED  BY <2>1, <3>1, <3>2 DEF ReplyIs
  <2> QED  BY <1>2, <1>8, <1>10, <2>1, <2>4, <2>5
<1> QED  BY <1>2, <1>6, <1>7, <1>9, <1>10 DEF SPI_TransmitReceive

(* The interrupt runs only where it does no harm. *)
LEMMA InterruptInWindow ==
    ASSUME Bus, isr # "off" \/ pending
    PROVE  Window /\ ~Sending
  BY DEF Bus, CalmOK, SendingOK

(* The access that starts the sending is not taken back by the bytes that  *)
(* go astray after it.                                                     *)
LEMMA StillStarting ==
    ASSUME ReaderInv, Window, UNCHANGED <<at, op, x>>,
           Starting => tx' \in Seq({8, 127})
    PROVE  at \in PollParts \/ (Reached' <=> Reached)
<1> SUFFICES ASSUME at \notin PollParts PROVE Reached' <=> Reached
  OBVIOUS
<1>1. Starting /\ Reached
  BY DEF Window, Starting
<1>2. Bytes[2] \in {135, 128} /\ Bytes' = Bytes
  <2>1. CASE at = "Reqa"
    BY <1>1, <2>1, AccessesOfReqa DEF Starting, Bytes
  <2>2. CASE at = "Anticoll"
    BY <1>1, <2>2, AccessesOfAnticoll DEF Starting, Bytes
  <2> QED  BY <1>1, <2>1, <2>2 DEF Starting
<1>3. tx' # <<Bytes[2]>>
  <2> SUFFICES ASSUME tx' = <<Bytes[2]>> PROVE FALSE
    OBVIOUS
  <2>1. tx'[1] = Bytes[2] /\ Len(tx') = 1
    OBVIOUS
  <2>2. tx'[1] \in {8, 127}
    <3>1. tx' \in Seq({8, 127}) /\ 1 \in 1 .. Len(tx')
      BY <1>1, <2>1
    <3> QED  BY <3>1, ElementOfSeq
  <2> QED  BY <1>2, <2>1, <2>2
<1> QED  BY <1>1, <1>2, <1>3 DEF Reached

LEMMA InterruptKeeps ==
    ASSUME BoardInv, Bus, EXTI0_IRQHandler
    PROVE  Bus' /\ (Unharmed' <=> Unharmed)
<1>0. UNCHANGED <<at, op, x, value, timeout, uid, status>> /\ undone' = undone
  BY DEF EXTI0_IRQHandler, IsrEnters, IsrWrites, IsrReads, IsrReturns, driverVars, portVars
<1>1. Window /\ ~Sending
  BY InterruptInWindow DEF EXTI0_IRQHandler, IsrEnters, IsrWrites, IsrReads, IsrReturns
<1>2. at # "ResetHigh" /\ chip \in Chips /\ ReaderInv /\ tx \in Seq(Nat)
  BY <1>1 DEF Window, PollParts, Starting, BoardInv, ReaderInv, RfidTypeOK, ChipTypeOK
<1>3. "RST" \in odr /\ (chip.frame = "off" <=> "CS" \in odr)
  BY <1>2 DEF Bus, PinsOK
<1>p. /\ odr' = odr \/ odr' = odr \ {"CS"} \/ odr' = odr \cup {"CS"}
      /\ (odr' = odr /\ chip' = chip) \/ chip' = SeesPins(odr')
      /\ isr' # "off" \/ "CS" \in odr'
  BY DEF EXTI0_IRQHandler, IsrEnters, IsrWrites, IsrReads, IsrReturns, portVars
<1>4. /\ SameContents /\ "RST" \in odr' /\ (chip'.frame = "off" <=> "CS" \in odr')
      /\ chip'.frame \in {"read", "write"} => chip' = chip
  <2>1. CASE chip' = chip /\ odr' = odr
    BY <1>3, <2>1 DEF SameContents
  <2>2. CASE chip' = SeesPins(odr')
    <3>1. "RST" \in odr' /\ ("CS" \notin odr' \/ "CS" \in odr')
      BY <1>3, <1>p
    <3>2. /\ SameContents
          /\ "CS" \in odr' => chip'.frame = "off"
          /\ "CS" \notin odr' /\ "CS" \in odr => chip'.frame = "address"
          /\ "CS" \notin odr' /\ "CS" \notin odr => chip' = chip
      BY <1>2, <1>3, <2>2, <3>1, SeesEffect DEF SameContents
    <3> QED  BY <1>3, <3>1, <3>2
  <2> QED  BY <1>p, <2>1, <2>2
<1>5. ASSUME NEW S, S \in {{8, 127}, {0, 8, 127, 136}}, tx \in Seq(S) PROVE tx' \in Seq(S)
  <2>1. CASE tx' = tx
    BY <1>5, <2>1
  <2>2. CASE IsrWrites
    <3>1. PICK b \in {8, 127} : tx' = Append(tx, b)
      BY <2>2 DEF IsrWrites, ClearIrq, Write, ComIrqReg
    <3>2. b \in S
      BY <1>5
    <3> QED  BY <1>5, <3>1, <3>2, AppendProperties
  <2> QED  BY <2>1, <2>2 DEF EXTI0_IRQHandler, IsrEnters, IsrReads, IsrReturns
<1>6. tx \in Seq(IF Starting THEN {8, 127} ELSE {0, 8, 127, 136})
  BY <1>1 DEF Bus, TameOK
<1>7. tx' \in Seq(IF Starting THEN {8, 127} ELSE {0, 8, 127, 136})
  <2>1. CASE Starting
    BY <1>5, <1>6, <2>1
  <2>2. CASE ~Starting
    BY <1>5, <1>6, <2>2
  <2> QED  BY <2>1, <2>2
<1>8. at \in PollParts \/ (Reached' <=> Reached)
  BY <1>0, <1>1, <1>2, <1>7, StillStarting
<1>9. /\ (Starting' <=> Starting) /\ (Window' <=> Window) /\ (Sending' <=> Sending)
      /\ CalmOK' /\ SendingOK' /\ FlagsOK' /\ FifoOK' /\ PollOK' /\ LevelOK' /\ UidOK' /\ StatusOK'
  BY <1>0, <1>1, <1>4, <1>8, SameStage
<1>10. PinsOK'
  BY <1>0, <1>2, <1>4, <1>p DEF PinsOK
<1>11. SyncOK'
  BY <1>1, <1>9 DEF SyncOK
<1>12. TameOK'
  <2>1. chip'.frame \in {"read", "write"} =>
              chip'.reg \in {0, 4, 63} \cup (IF Starting THEN {13} ELSE {})
    BY <1>1, <1>4 DEF Bus, TameOK
  <2> QED  BY <1>7, <1>9, <2>1 DEF TameOK
<1> QED  BY <1>0, <1>9, <1>10, <1>11, <1>12 DEF Bus, Unharmed

(* A byte that goes astray selects no register that matters, or clears     *)
(* flags that are no longer needed.                                        *)
LEMMA StrayByte ==
    ASSUME BoardInv, Bus, Shift, UNCHANGED <<driverVars, isrVars>>, Window, ~Sending
    PROVE  Bus' /\ (Unharmed' <=> Unharmed)
<1>0. /\ UNCHANGED <<at, op, x, value, timeout, uid, status, isr, pending, odr, undone>>
      /\ chip \in Chips /\ ReaderInv /\ at # "ResetHigh" /\ ~chip.startSend
      /\ tx # <<>> /\ tx' = Tail(tx)
  BY DEF driverVars, isrVars, portVars, Shift, BoardInv, ReaderInv, RfidTypeOK, ChipTypeOK, Window,
     PollParts, Starting, Sending
<1> DEFINE S == IF Starting THEN {8, 127} ELSE {0, 8, 127, 136}
           b == Head(tx)
           r == (b \div 2) % 64
<1>1. tx \in Seq(S)
  BY DEF Bus, TameOK
<1>2. b \in S /\ tx' \in Seq(S)
  BY <1>0, <1>1, HeadTailProperties
<1>3. b \in {0, 8, 127, 136} /\ (Starting => b \in {8, 127})
  BY <1>2
<1>4. r \in {0, 4, 63}
  BY <1>3
<1>5. chip.frame \in {"read", "write"} => chip.reg \in {0, 4, 63} \/ (Starting /\ chip.reg = 13)
  BY DEF Bus, TameOK
<1>6. /\ FewerFlags
      /\ chip'.frame = "off" <=> chip.frame = "off"
      /\ chip'.frame \in {"read", "write"} => chip'.reg \in {0, 4, 63} \/ (Starting /\ chip'.reg = 13)
  <2>1. CASE chip' = chip
    BY <1>5, <2>1 DEF FewerFlags
  <2>2. CASE /\ chip.frame = "address"
             /\ chip' = [chip EXCEPT !.reg = r, !.frame = IF Bit(b, 7) THEN "read" ELSE "write"]
    <3> HIDE DEF r, b
    <3>1. chip'.reg = r /\ chip'.frame # "off"
      BY <1>0, <2>2 DEF Chips
    <3>2. FewerFlags
      BY <1>0, <2>2 DEF Chips, FewerFlags
    <3> QED  BY <1>4, <2>2, <3>1, <3>2
  <2>3. CASE chip.frame = "write" /\ chip' = Written(chip, chip.reg, b)
    <3> HIDE DEF r, b
    <3>1. CASE chip.reg \in {0, 63}
      <4>1. chip.reg \in Nat \ {1, 4, 9, 10, 13}
        BY <3>1
      <4> QED  BY <1>0, <1>5, <2>3, <4>1, OtherWritten DEF Kept, FewerFlags
    <3>2. CASE chip.reg = 4
      BY <1>0, <1>3, <1>5, <2>3, <3>2, IrqWrittenTame DEF FewerFlags
    <3>3. CASE Starting /\ chip.reg = 13
      <4>1. ~Bit(b, 7) /\ Bit(b, 7) \in BOOLEAN /\ chip.startSend \in BOOLEAN
        BY <1>0, <1>3, <3>3, Bits, BitType DEF Chips
      <4>a. Bit(b, 7) = chip.startSend
        BY <1>0, <4>1
      <4>b. chip'.startSend = Bit(b, 7)
        BY <1>0, <2>3, <3>3, FramingWritten
      <4>2. chip'.startSend = chip.startSend
        BY <4>a, <4>b
      <4> QED  BY <1>0, <1>5, <2>3, <3>3, <4>2, FramingWritten DEF FewerFlags
    <3> QED  BY <1>5, <2>3, <3>1, <3>2, <3>3
  <2>4. CASE chip.frame = "read" /\ chip' = [Read(chip, chip.reg) EXCEPT !.reg = r]
    <3>1. r \in Nat /\ chip.reg # 9
      BY <1>4, <1>5, <2>4
    <3> HIDE DEF r, b
    <3> QED  BY <1>0, <1>4, <2>4, <3>1, ReadEffect DEF FewerFlags
  <2> QED  BY <2>1, <2>2, <2>3, <2>4 DEF Shift
<1> HIDE DEF r, b
<1>7. at \in PollParts \/ (Reached' <=> Reached)
  BY <1>0, <1>2, StillStarting
<1>8. /\ (Starting' <=> Starting) /\ (Window' <=> Window) /\ (Sending' <=> Sending)
      /\ CalmOK' /\ SendingOK' /\ FlagsOK' /\ FifoOK' /\ PollOK' /\ LevelOK' /\ UidOK' /\ StatusOK'
  BY <1>0, <1>6, <1>7, SameStage
<1>9. PinsOK'
  BY <1>0, <1>6 DEF Bus, PinsOK
<1>10. SyncOK'
  BY <1>8 DEF SyncOK
<1>11. TameOK'
  BY <1>2, <1>6, <1>8 DEF TameOK
<1> QED  BY <1>0, <1>8, <1>9, <1>10, <1>11 DEF Bus, Unharmed

(* The first byte of an access tells a read by its seventh bit. *)
LEMMA ReadBit == \A b \in 0 .. 255 : Bit(b, 7) <=> b >= 128
<1>1. 2^7 = 128
  OBVIOUS
<1> QED  BY <1>1 DEF Bit

LEMMA FirstBytes ==
    ASSUME ReaderInv, at \in Parts
    PROVE  Bytes[1] \in 0 .. 255
<1>0. op \in 1 .. Len(Script[at]) /\ Bytes = Script[at][op]
  BY DEF ReaderInv, RfidTypeOK, Bytes
<1>1. CASE at = "Reqa"
  <2>1. op \in {1, 2, 3, 4, 5, 6, 7}
    BY <1>0, <1>1, AccessesOfReqa
  <2>2. Bytes[1] \in {2, 8, 20, 18, 26}
    BY <1>0, <1>1, <2>1, AccessesOfReqa
  <2> QED  BY <2>2
<1>2. CASE at = "Anticoll"
  <2>1. op \in {1, 2, 3, 4, 5, 6, 7, 8}
    BY <1>0, <1>2, AccessesOfAnticoll
  <2>2. Bytes[1] \in {2, 8, 20, 18, 26}
    BY <1>0, <1>2, <2>1, AccessesOfAnticoll
  <2> QED  BY <2>2
<1>3. CASE at = "Cleanup"
  <2>1. op \in {1, 2, 3, 4}
    BY <1>0, <1>3, AccessesOfCleanup
  <2>2. Bytes[1] \in {2, 8, 20, 26}
    BY <1>0, <1>3, <2>1, AccessesOfCleanup
  <2> QED  BY <2>2
<1>4. CASE at = "Init"
  <2>1. op \in {1, 2, 3, 4, 5, 6, 7}
    BY <1>0, <1>4, AccessesOfInit
  <2>2. Bytes[1] \in {84, 86, 88, 90, 42, 34, 168}
    BY <1>0, <1>4, <2>1, AccessesOfInit
  <2> QED  BY <2>2
<1>5. CASE at = "Enable"
  <2>1. op \in {1, 2}
    BY <1>0, <1>5, AccessesOfInit
  <2>2. Bytes[1] \in {4, 6}
    BY <1>0, <1>5, <2>1, AccessesOfInit
  <2> QED  BY <2>2
<1>6. ASSUME NEW a \in 0 .. 255, Len(Script[at]) = 1, Script[at][1] = <<a, 0>> \/ Script[at][1] = <<a, 131>>
      PROVE  Bytes[1] \in 0 .. 255
  <2>1. op = 1
    BY <1>0, <1>6
  <2> QED  BY <1>0, <1>6, <2>1
<1>7. 136 \in 0 .. 255 /\ 26 \in 0 .. 255 /\ 140 \in 0 .. 255 /\ 148 \in 0 .. 255 /\ 146 \in 0 .. 255
      /\ 238 \in 0 .. 255 /\ 40 \in 0 .. 255
  OBVIOUS
<1>8. CASE at \in PollParts
  <2>1. Len(Script[at]) = 1 /\ Script[at][1] = <<136, 0>>
    BY <1>8, SingleAccesses DEF PollParts
  <2> QED  BY <1>6, <1>7, <2>1
<1>9. CASE at \in StopParts
  <2>1. Len(Script[at]) = 1 /\ Script[at][1] = <<26, 0>>
    BY <1>9, SingleAccesses DEF StopParts
  <2> QED  BY <1>6, <1>7, <2>1
<1>10. CASE at \in {"ReqaError", "AnticollError"}
  <2>1. Len(Script[at]) = 1 /\ Script[at][1] = <<140, 0>>
    BY <1>10, SingleAccesses
  <2> QED  BY <1>6, <1>7, <2>1
<1>11. CASE at = "Level"
  <2>1. Len(Script[at]) = 1 /\ Script[at][1] = <<148, 0>>
    BY <1>11, SingleAccesses
  <2> QED  BY <1>6, <1>7, <2>1
<1>12. CASE at = "Uid"
  <2>1. Len(Script[at]) = 1 /\ Script[at][1] = <<146, 0>>
    BY <1>12, SingleAccesses
  <2> QED  BY <1>6, <1>7, <2>1
<1>13. CASE at = "Version"
  <2>1. Len(Script[at]) = 1 /\ Script[at][1] = <<238, 0>>
    BY <1>13, SingleAccesses
  <2> QED  BY <1>6, <1>7, <2>1
<1>14. CASE at = "Antenna"
  <2>1. Len(Script[at]) = 1 /\ Script[at][1] = <<40, 131>>
    BY <1>14, SingleAccesses
  <2> QED  BY <1>6, <1>7, <2>1
<1>15. at \in {"Init", "Antenna", "Enable", "Version", "Reqa", "ReqaPoll", "ReqaStop", "ReqaError",
               "Anticoll", "AnticollPoll", "AnticollStop", "AnticollError", "Level", "Uid", "Cleanup"}
  BY DEF Parts, Script
<1> QED
  BY <1>1, <1>2, <1>3, <1>4, <1>5, <1>8, <1>9, <1>10, <1>11, <1>12, <1>13, <1>14, <1>15
  DEF PollParts, StopParts

(* The address of an access is shifted. *)
LEMMA AddressShifted ==
    ASSUME BoardInv, Bus, Shift, UNCHANGED <<driverVars, isrVars>>, ~Window \/ Sending, x = "read1"
    PROVE  Bus' /\ (Unharmed' <=> Unharmed)
<1>0. /\ UNCHANGED <<at, op, x, value, timeout, uid, status, isr, pending, odr, undone>>
      /\ chip \in Chips /\ ReaderInv /\ tx # <<>> /\ tx' = Tail(tx)
  BY DEF driverVars, isrVars, portVars, Shift, BoardInv, ReaderInv, RfidTypeOK, ChipTypeOK
<1>1. isr = "off" /\ at \in Parts
  BY DEF Bus, CalmOK, SendingOK, BoardInv, ReaderInv, CountersOK
<1>2. tx = <<Bytes[1]>> /\ chip.frame = "address" /\ Bytes' = Bytes
  BY <1>0 DEF Bus, SyncOK, Bytes
<1>3. Head(tx) = Bytes[1] /\ tx' = <<>>
  BY <1>0, <1>2
<1>4. chip' = [chip EXCEPT !.reg = (Bytes[1] \div 2) % 64,
                           !.frame = IF Bit(Bytes[1], 7) THEN "read" ELSE "write"]
  <2> HIDE DEF Bytes
  <2> QED  BY <1>2, <1>3 DEF Shift
<1>5. Bit(Bytes[1], 7) <=> Bytes[1] >= 128
  BY <1>0, <1>1, FirstBytes, ReadBit
<1>6. InFrame' /\ SameContents /\ chip'.frame # "off"
  <2> HIDE DEF Bytes
  <2>1. SameContents
    BY <1>0, <1>4 DEF Chips, SameContents
  <2>2. chip'.reg = (Bytes[1] \div 2) % 64 /\ chip'.frame = IF Bit(Bytes[1], 7) THEN "read" ELSE "write"
    BY <1>0, <1>4 DEF Chips
  <2> QED  BY <1>2, <1>5, <2>1, <2>2 DEF InFrame
<1>7. ~Reached /\ ~Reached' /\ \A v : ReplyIs(v)'
  BY <1>0 DEF Reached, ReplyIs
<1>8. /\ (Starting' <=> Starting) /\ (Window' <=> Window) /\ (Sending' <=> Sending)
      /\ CalmOK' /\ SendingOK' /\ FlagsOK' /\ FifoOK' /\ PollOK' /\ LevelOK' /\ UidOK' /\ StatusOK'
  BY <1>0, <1>6, <1>7, SameStage
<1>9. PinsOK'
  BY <1>0, <1>1, <1>2, <1>6, PartsOnly DEF Bus, PinsOK
<1>10. SyncOK'
  BY <1>0, <1>3, <1>6 DEF SyncOK
<1>11. TameOK'
  <2> SUFFICES ASSUME Window' PROVE TameOK'
    BY DEF TameOK
  <2>1. Bytes[1] = 136 /\ ~Starting'
    BY <1>0, <1>7, <1>8, EarlyWindow
  <2>2. chip'.reg = 4
    BY <1>2, <1>6, <2>1 DEF InFrame
  <2>3. tx' \in Seq({0, 8, 127, 136})
    BY <1>3
  <2> QED  BY <2>1, <2>2, <2>3 DEF TameOK
<1> QED  BY <1>0, <1>8, <1>9, <1>10, <1>11 DEF Bus, Unharmed

(* The second byte of an access is shifted, and the access takes effect.   *)
Shifted ==
    /\ UNCHANGED <<at, op, x, value, timeout, uid, status, isr, pending, odr>>
    /\ x = "read2" /\ isr = "off" /\ ~pending /\ at \in Parts
    /\ tx' = <<>> /\ ~Reached /\ Reached' /\ InFrame
    /\ Performed = op - 1 /\ Performed' = op

LEMMA DataShifted ==
    ASSUME BoardInv, Bus, Shift, UNCHANGED <<driverVars, isrVars>>, ~Window \/ Sending, x = "read2"
    PROVE  /\ Shifted /\ (Unharmed' <=> Unharmed)
           /\ \A r \in 0 .. 63 : Bytes[1] = 2 * r => chip' = Written(chip, r, Bytes[2])
           /\ \A r \in 0 .. 63 : Bytes[1] = 128 + 2 * r =>
                 /\ chip' = [Read(chip, r) EXCEPT !.reg = (Bytes[2] \div 2) % 64]
                 /\ \E v \in Reads(chip, r) : rx' = <<v>>
<1>0. /\ UNCHANGED <<at, op, x, value, timeout, uid, status, isr, pending, odr, undone>>
      /\ chip \in Chips /\ ReaderInv /\ tx # <<>> /\ tx' = Tail(tx)
  BY DEF driverVars, isrVars, portVars, Shift, BoardInv, ReaderInv, RfidTypeOK, ChipTypeOK
<1>1. isr = "off" /\ ~pending /\ at \in Parts
  BY DEF Bus, CalmOK, SendingOK, BoardInv, ReaderInv, CountersOK
<1>2. tx = <<Bytes[2]>> /\ InFrame /\ Bytes' = Bytes
  BY <1>0 DEF Bus, SyncOK, Bytes
<1>3. Head(tx) = Bytes[2] /\ tx' = <<>> /\ tx' # <<Bytes[2]>>
  BY <1>0, <1>2
<1>4. ~Reached /\ Reached'
  BY <1>0, <1>2, <1>3 DEF Reached
<1>5. Shifted /\ (Unharmed' <=> Unharmed)
  BY <1>0, <1>1, <1>2, <1>3, <1>4 DEF Shifted, Performed, Unharmed
<1>6. rx = <<>>
  BY <1>0, <1>1, LineQuiet
<1>7. ASSUME NEW r \in 0 .. 63, Bytes[1] = 2 * r PROVE chip' = Written(chip, r, Bytes[2])
  <2>1. chip.frame = "write" /\ chip.reg = r
    BY <1>2, <1>7 DEF InFrame
  <2> HIDE DEF Bytes
  <2> QED  BY <1>3, <2>1 DEF Shift
<1>8. ASSUME NEW r \in 0 .. 63, Bytes[1] = 128 + 2 * r
      PROVE  /\ chip' = [Read(chip, r) EXCEPT !.reg = (Bytes[2] \div 2) % 64]
             /\ \E v \in Reads(chip, r) : rx' = <<v>>
  <2>1. chip.frame = "read" /\ chip.reg = r
    BY <1>2, <1>8 DEF InFrame
  <2>2. /\ chip' = [Read(chip, r) EXCEPT !.reg = (Bytes[2] \div 2) % 64]
        /\ \E v \in Reads(chip, r) : rx' = Append(rx, v)
    <3> HIDE DEF Bytes
    <3> QED  BY <1>3, <2>1 DEF Shift
  <2>3. \A v : Append(<<>>, v) = <<v>>
    OBVIOUS
  <2> QED  BY <1>6, <2>2, <2>3
<1> QED  BY <1>5, <1>7, <1>8

LEMMA ShiftedWindow ==
    ASSUME Bus, Shifted
    PROVE  /\ Window <=> at \in PollParts
           /\ Window' <=> at \in PollParts \/ (at \in {"Reqa", "Anticoll"} /\ op = Len(Script[at]))
           /\ at \notin PollParts \cup StopParts \cup {"Cleanup"} => ~Sending
           /\ chip.irq \subseteq {RxIRq}
  BY DEF Shifted, Window, Starting, Bus, SendingOK

LEMMA AccessDone ==
    ASSUME Bus, Shifted, chip'.frame = chip.frame,
           SendingOK', TameOK', FlagsOK', FifoOK', PollOK', LevelOK', UidOK'
    PROVE  Bus'
<1>1. PinsOK'
  BY PartsOnly DEF Shifted, Bus, PinsOK
<1>2. CalmOK'
  BY DEF Shifted, CalmOK
<1>3. SyncOK'
  BY DEF Shifted, SyncOK
<1>4. StatusOK'
  BY DEF Shifted, Bus, StatusOK
<1> QED  BY <1>1, <1>2, <1>3, <1>4 DEF Bus

(* An access outside the exchange of messages. *)
LEMMA PlainDone ==
    ASSUME Bus, Shifted,
           at \in {"Init", "Antenna", "Enable", "Version", "ReqaError", "AnticollError"},
           Kept(chip, chip')
    PROVE  Bus'
<1>0. at' = at /\ ~Window /\ ~Window' /\ ~Sending /\ chip.irq \subseteq {RxIRq}
  BY ShiftedWindow DEF Shifted, PollParts, StopParts
<1>1. ~Sending'
  BY <1>0 DEF Sending, Kept
<1>2. SendingOK'
  BY <1>0, <1>1 DEF SendingOK, Sending, Kept, StopParts
<1>3. TameOK' /\ FlagsOK' /\ PollOK' /\ LevelOK' /\ UidOK'
  BY <1>0, <1>1 DEF TameOK, FlagsOK, PollOK, LevelOK, UidOK, PollParts
<1>4. FifoOK'
  BY <1>0 DEF Bus, FifoOK, Kept
<1> QED  BY <1>2, <1>3, <1>4, AccessDone DEF Kept

(* An access before an exchange begins. *)
LEMMA BeforeDone ==
    ASSUME Bus, Shifted, at \in {"Reqa", "Anticoll"}, op < Len(Script[at]), op \in Nat,
           chip'.frame = chip.frame, chip'.startSend = FALSE, chip'.air = NONE,
           chip'.irq \subseteq chip.irq,
           op >= (IF at = "Reqa" THEN 2 ELSE 1) => chip'.irq = {},
           at = "Anticoll" /\ op \in {2, 3} => chip'.fifo = <<>>,
           at = "Anticoll" /\ op = 4 => chip'.fifo = << 147 >>,
           at = "Anticoll" /\ op >= 5 => chip'.fifo = <<147, 32>>
    PROVE  Bus'
<1>0. at' = at /\ ~Window' /\ ~Sending' /\ chip.irq \subseteq {RxIRq} /\ Performed' = op
  BY ShiftedWindow DEF Shifted, PollParts, Sending
<1>2. SendingOK'
  BY <1>0 DEF SendingOK, Sending, StopParts
<1>3. TameOK' /\ PollOK' /\ LevelOK' /\ UidOK'
  BY <1>0 DEF TameOK, PollOK, LevelOK, UidOK, PollParts
<1>4. FifoOK' /\ FlagsOK'
  BY <1>0 DEF FifoOK, FlagsOK
<1> QED  BY <1>2, <1>3, <1>4, AccessDone

(* The access that starts the sending. *)
LEMMA StartDone ==
    ASSUME Bus, Shifted, at \in {"Reqa", "Anticoll"}, op = Len(Script[at]),
           chip'.frame = chip.frame, chip'.reg = 13, chip'.air = NONE, chip'.irq = {},
           at = "Anticoll" => chip'.fifo = <<147, 32>> /\ chip'.startSend = TRUE
    PROVE  Bus'
<1>0. at' = at /\ Window' /\ isr' = "off" /\ ~pending' /\ tx' = <<>>
  BY ShiftedWindow DEF Shifted
<1>1. Starting'
  BY DEF Shifted, Starting
<1>2. SendingOK'
  BY <1>0 DEF SendingOK, Sending, StopParts
<1>3. PollOK' /\ LevelOK' /\ UidOK' /\ FlagsOK'
  BY <1>0 DEF PollOK, LevelOK, UidOK, PollParts, FlagsOK
<1>4. FifoOK'
  BY <1>0 DEF FifoOK, Sending
<1>5. TameOK'
  <2>1. tx' \in Seq({8, 127})
    BY <1>0
  <2> QED  BY <1>1, <2>1 DEF TameOK
<1> QED  BY <1>2, <1>3, <1>4, <1>5, AccessDone

(* The poll reads no flag: it is asked before the answer is there. *)
LEMMA PollDone ==
    ASSUME Bus, Shifted, at \in PollParts, Sending, Kept(chip, chip'), chip'.reg = 0, rx' = << 0 >>
    PROVE  Bus'
<1>0. at' = at /\ Window /\ Window' /\ tx' = <<>> /\ x' = "read2" /\ isr' = isr /\ pending' = pending
  BY ShiftedWindow DEF Shifted
<1>1. Sending' /\ ~Starting'
  BY <1>0 DEF Sending, Kept, Starting, PollParts
<1>2. SendingOK'
  BY <1>0, <1>1 DEF Bus, SendingOK, Kept, PollParts, StopParts
<1>3. LevelOK' /\ UidOK' /\ FlagsOK'
  BY <1>0 DEF LevelOK, UidOK, PollParts, FlagsOK
<1>4. FifoOK'
  BY <1>0, <1>1 DEF Bus, FifoOK, Kept, PollParts
<1>5. TameOK'
  <2>1. tx' \in Seq({0, 8, 127, 136})
    BY <1>0
  <2> QED  BY <1>1, <2>1 DEF TameOK
<1>6. PollOK'
  <2>1. ReplyIs(0)'
    BY <1>0 DEF ReplyIs
  <2> QED  BY <2>1 DEF PollOK
<1> QED  BY <1>2, <1>3, <1>4, <1>5, <1>6, AccessDone DEF Kept

(* The sending is stopped. *)
LEMMA StopDone ==
    ASSUME Bus, Shifted, at \in StopParts, chip'.frame = chip.frame,
           chip'.startSend = FALSE, chip'.air = chip.air, chip'.fifo = chip.fifo, chip'.irq = chip.irq
    PROVE  Bus'
<1>0. at' = at /\ ~Window /\ ~Window' /\ isr' = isr /\ pending' = pending /\ timeout' = timeout
  BY ShiftedWindow DEF Shifted, PollParts, StopParts
<1>1. Sending' => Sending
  BY DEF Sending
<1>2. SendingOK'
  BY <1>0, <1>1 DEF Bus, SendingOK, StopParts
<1>3. LevelOK' /\ UidOK' /\ FlagsOK' /\ PollOK' /\ TameOK'
  BY <1>0 DEF LevelOK, UidOK, PollParts, StopParts, FlagsOK, PollOK, TameOK
<1>4. FifoOK'
  BY <1>0 DEF Bus, FifoOK, StopParts
<1> QED  BY <1>2, <1>3, <1>4, AccessDone

(* RFID_Cleanup takes back what may still be in the air, before the flags. *)
LEMMA CleanupDone ==
    ASSUME Bus, Shifted, at = "Cleanup", chip'.frame = chip.frame,
           chip'.startSend = FALSE, chip'.air = NONE, chip'.irq \subseteq chip.irq
    PROVE  Bus'
<1>0. at' = at /\ ~Window /\ ~Window' /\ chip.irq \subseteq {RxIRq} /\ ~Sending'
  BY ShiftedWindow DEF Shifted, PollParts, StopParts, Sending
<1>2. SendingOK'
  BY <1>0 DEF SendingOK
<1>3. LevelOK' /\ UidOK' /\ FlagsOK' /\ PollOK' /\ TameOK' /\ FifoOK'
  BY <1>0 DEF LevelOK, UidOK, PollParts, FlagsOK, PollOK, TameOK, FifoOK
<1> QED  BY <1>2, <1>3, AccessDone

LEMMA LevelDone ==
    ASSUME Bus, Shifted, at = "Level", Kept(chip, chip'), rx' = <<Len(UID)>>
    PROVE  Bus'
<1>0. at' = at /\ ~Window /\ ~Window' /\ chip.irq \subseteq {RxIRq} /\ ~Sending /\ x' = "read2"
  BY ShiftedWindow DEF Shifted, PollParts, StopParts
<1>1. ~Sending'
  BY <1>0 DEF Sending, Kept
<1>2. SendingOK'
  BY <1>0, <1>1 DEF SendingOK, Sending, Kept, StopParts
<1>3. UidOK' /\ FlagsOK' /\ PollOK' /\ TameOK'
  BY <1>0 DEF UidOK, PollParts, FlagsOK, PollOK, TameOK
<1>4. FifoOK'
  BY <1>0 DEF Bus, FifoOK, Kept
<1>5. LevelOK'
  <2>1. ReplyIs(Len(UID))'
    BY <1>0 DEF ReplyIs
  <2> QED  BY <2>1 DEF LevelOK
<1> QED  BY <1>2, <1>3, <1>4, <1>5, AccessDone DEF Kept

(* The last elements of a sequence but its first. *)
LEMMA TailSuffix ==
    ASSUME NEW s \in Seq(Nat), NEW q \in Seq(Nat), Suffix(s, q), s # <<>>
    PROVE  /\ Len(s) \in Nat \ {0} /\ Len(Tail(s)) = Len(s) - 1
           /\ Suffix(Tail(s), q)
           /\ Head(s) = q[Len(q) - Len(s) + 1]
<1>1. Len(s) \in Nat \ {0} /\ Len(q) \in Nat /\ Len(s) <= Len(q)
  BY EmptySeq, LenProperties DEF Suffix
<1>2. Len(Tail(s)) = Len(s) - 1 /\ \A i \in 1 .. Len(Tail(s)) : Tail(s)[i] = s[i + 1]
  BY HeadTailProperties
<1>3. Head(s) = q[Len(q) - Len(s) + 1]
  <2>1. s[1] = q[Len(q) - Len(s) + 1]
    BY <1>1 DEF Suffix
  <2>2. Head(s) = s[1]
    BY <1>1
  <2> QED  BY <2>1, <2>2
<1>4. ASSUME NEW i \in 1 .. Len(Tail(s)) PROVE Tail(s)[i] = q[Len(q) - Len(Tail(s)) + i]
  <2>1. i \in Nat /\ i + 1 \in 1 .. Len(s) /\ Len(q) - Len(s) + (i + 1) = Len(q) - Len(Tail(s)) + i
    BY <1>1, <1>2
  <2>2. s[i + 1] = q[Len(q) - Len(s) + (i + 1)]
    BY <2>1 DEF Suffix
  <2> QED  BY <1>2, <2>1, <2>2
<1>5. Len(Tail(s)) <= Len(q)
  BY <1>1, <1>2
<1> QED  BY <1>1, <1>2, <1>3, <1>4, <1>5 DEF Suffix

(* A byte of the UID is read off the FIFO. *)
LEMMA UidDone ==
    ASSUME BoardInv, Bus, Shifted, at = "Uid", chip'.frame = chip.frame,
           chip'.startSend = chip.startSend, chip'.air = chip.air, chip'.irq = chip.irq,
           chip'.fifo = Tail(chip.fifo), rx' = <<Head(chip.fifo)>>, chip.fifo # <<>>
    PROVE  Bus'
<1>0. at' = at /\ ~Window /\ ~Window' /\ chip.irq \subseteq {RxIRq} /\ ~Sending /\ x' = "read2" /\ uid' = uid
  BY ShiftedWindow DEF Shifted, PollParts, StopParts
<1>1. ~Sending'
  BY <1>0 DEF Sending
<1>2. SendingOK'
  BY <1>0, <1>1 DEF SendingOK, Sending, StopParts
<1>3. LevelOK' /\ FlagsOK' /\ PollOK' /\ TameOK' /\ FifoOK'
  BY <1>0 DEF LevelOK, PollParts, FlagsOK, PollOK, TameOK, FifoOK
<1>4. chip.fifo \in Seq(Nat) /\ UID \in Seq(Nat) /\ uid.bytes \in Seq(Nat) /\ uid.left \in Nat
  BY Mfrc522Assumption DEF BoardInv, ReaderInv, RfidTypeOK, ChipTypeOK, Chips
<1>5. Prefix(uid.bytes, UID) /\ Suffix(chip.fifo, UID) /\ Len(uid.bytes) + uid.left = Len(UID)
      /\ Len(chip.fifo) = uid.left
  BY <1>0 DEF Bus, UidOK, Shifted
<1>6. /\ Len(Tail(chip.fifo)) = Len(chip.fifo) - 1 /\ Suffix(Tail(chip.fifo), UID)
      /\ Head(chip.fifo) = UID[Len(UID) - Len(chip.fifo) + 1]
  BY <1>4, <1>5, TailSuffix
<1>7. Len(UID) - Len(chip.fifo) + 1 = Len(uid.bytes) + 1
  <2>1. Len(uid.bytes) \in Nat /\ Len(UID) \in Nat
    BY <1>4, LenProperties
  <2> QED  BY <1>4, <1>5, <2>1
<1>8. ReplyIs(UID[Len(uid.bytes) + 1])'
  <2>1. Head(chip.fifo) = UID[Len(uid'.bytes) + 1]
    BY <1>0, <1>6, <1>7
  <2>2. Head(rx') = Head(chip.fifo)
    OBVIOUS
  <2> QED  BY <1>0, <2>1, <2>2 DEF ReplyIs
<1>9. UidOK'
  <2>1. Prefix(uid.bytes, UID)' /\ Suffix(chip.fifo, UID)'
        /\ Len(uid'.bytes) + uid'.left = Len(UID) /\ Reached'
    BY <1>0, <1>5, <1>6 DEF Shifted
  <2>2. Len(chip'.fifo) = uid'.left - 1
    BY <1>0, <1>5, <1>6
  <2> QED  BY <1>8, <2>1, <2>2 DEF UidOK
<1> QED  BY <1>2, <1>3, <1>9, AccessDone

(* What DataShifted says of the chip. *)
WritesByte ==
    \A r \in 0 .. 63 : Bytes[1] = 2 * r => chip' = Written(chip, r, Bytes[2])
ReadsByte ==
    \A r \in 0 .. 63 : Bytes[1] = 128 + 2 * r =>
        /\ chip' = [Read(chip, r) EXCEPT !.reg = (Bytes[2] \div 2) % 64]
        /\ \E v \in Reads(chip, r) : rx' = <<v>>

LEMMA WrittenTo ==
    ASSUME WritesByte, NEW b
    PROVE  /\ Bytes = <<2, b>> => chip' = Written(chip, 1, b)
           /\ Bytes = <<8, b>> => chip' = Written(chip, 4, b)
           /\ Bytes = <<18, b>> => chip' = Written(chip, 9, b)
           /\ Bytes = <<20, b>> => chip' = Written(chip, 10, b)
           /\ Bytes = <<26, b>> => chip' = Written(chip, 13, b)
<1>1. ASSUME NEW a, NEW r \in 0 .. 63, a = 2 * r, Bytes = <<a, b>> PROVE chip' = Written(chip, r, b)
  <2>1. Bytes[1] = a /\ Bytes[2] = b
    BY <1>1
  <2> QED  BY <1>1, <2>1 DEF WritesByte
<1>2. 2 = 2 * 1 /\ 8 = 2 * 4 /\ 18 = 2 * 9 /\ 20 = 2 * 10 /\ 26 = 2 * 13
      /\ 1 \in 0 .. 63 /\ 4 \in 0 .. 63 /\ 9 \in 0 .. 63 /\ 10 \in 0 .. 63 /\ 13 \in 0 .. 63
  OBVIOUS
<1>3. Bytes = <<2, b>> => chip' = Written(chip, 1, b)
  BY <1>1, <1>2
<1>4. Bytes = <<8, b>> => chip' = Written(chip, 4, b)
  BY <1>1, <1>2
<1>5. Bytes = <<18, b>> => chip' = Written(chip, 9, b)
  BY <1>1, <1>2
<1>6. Bytes = <<20, b>> => chip' = Written(chip, 10, b)
  BY <1>1, <1>2
<1>7. Bytes = <<26, b>> => chip' = Written(chip, 13, b)
  BY <1>1, <1>2
<1> QED  BY <1>3, <1>4, <1>5, <1>6, <1>7

LEMMA ReadFrom ==
    ASSUME ReadsByte, NEW r \in 0 .. 63, NEW a, a = 128 + 2 * r, Bytes = <<a, 0>>
    PROVE  /\ chip' = [Read(chip, r) EXCEPT !.reg = 0]
           /\ \E v \in Reads(chip, r) : rx' = <<v>>
<1>1. Bytes[1] = a /\ Bytes[2] = 0
  OBVIOUS
<1>2. (0 \div 2) % 64 = 0
  OBVIOUS
<1> QED  BY <1>1, <1>2 DEF ReadsByte

(* RFID_Init and the accesses to ErrorReg. *)
LEMMA PlainShifted ==
    ASSUME BoardInv, Bus, Shifted, WritesByte, ReadsByte,
           at \in {"Init", "Antenna", "Enable", "Version", "ReqaError", "AnticollError"}
    PROVE  Bus'
<1>0. chip \in Chips /\ op \in 1 .. Len(Script[at]) /\ Bytes = Script[at][op]
  BY PartNames DEF BoardInv, ReaderInv, RfidTypeOK, ChipTypeOK, Bytes
<1>1. ASSUME NEW a \in {84, 86, 88, 90, 42, 34, 40, 4, 6}, NEW b, Bytes = <<a, b>> PROVE Kept(chip, chip')
  <2>1. PICK r \in {42, 43, 44, 45, 21, 17, 20, 2, 3} : a = 2 * r
    OBVIOUS
  <2>2. r \in Nat \ {1, 4, 9, 10, 13} /\ r \in 0 .. 63
    OBVIOUS
  <2>3. Bytes[1] = a /\ Bytes[2] = b
    BY <1>1
  <2>4. chip' = Written(chip, r, b)
    BY <2>1, <2>2, <2>3 DEF WritesByte
  <2> QED  BY <1>0, <2>2, <2>4, OtherWritten
<1>2. ASSUME NEW a \in {168, 238, 140}, Bytes = <<a, 0>> PROVE Kept(chip, chip')
  <2>1. PICK r \in {20, 55, 6} : a = 128 + 2 * r
    OBVIOUS
  <2>2. r \in 0 .. 63 /\ r # 9
    OBVIOUS
  <2>3. chip' = [Read(chip, r) EXCEPT !.reg = 0]
    BY <1>2, <2>1, <2>2, ReadFrom
  <2> QED  BY <1>0, <2>2, <2>3, ReadEffect DEF Kept
<1>3. CASE at = "Init"
  <2>1. op \in {1, 2, 3, 4, 5, 6, 7}
    BY <1>0, <1>3, AccessesOfInit
  <2>2. \/ Bytes = <<84, 141>> \/ Bytes = <<86, 62>> \/ Bytes = <<88, 0>> \/ Bytes = <<90, 48>>
        \/ Bytes = <<42, 64>> \/ Bytes = <<34, 61>> \/ Bytes = <<168, 0>>
    BY <1>0, <1>3, <2>1, AccessesOfInit
  <2>3. Kept(chip, chip')
    BY <1>1, <1>2, <2>2
  <2> QED  BY <2>3, PlainDone
<1>4. CASE at = "Antenna"
  <2>1. op = 1 /\ Bytes = <<40, 131>>
    BY <1>0, <1>4, SingleAccesses
  <2> QED  BY <1>1, <2>1, PlainDone
<1>5. CASE at = "Enable"
  <2>1. op \in {1, 2}
    BY <1>0, <1>5, AccessesOfInit
  <2>2. Bytes = <<4, 160>> \/ Bytes = <<6, 128>>
    BY <1>0, <1>5, <2>1, AccessesOfInit
  <2> QED  BY <1>1, <2>2, PlainDone
<1>6. CASE at = "Version"
  <2>1. op = 1 /\ Bytes = <<238, 0>>
    BY <1>0, <1>6, SingleAccesses
  <2> QED  BY <1>2, <2>1, PlainDone
<1>7. CASE at \in {"ReqaError", "AnticollError"}
  <2>1. op = 1 /\ Bytes = <<140, 0>>
    BY <1>0, <1>7, SingleAccesses
  <2> QED  BY <1>2, <2>1, PlainDone
<1> QED  BY <1>3, <1>4, <1>5, <1>6, <1>7

LEMMA ReqaShifted ==
    ASSUME BoardInv, Bus, Shifted, WritesByte, at = "Reqa"
    PROVE  Bus'
<1>0. chip \in Chips /\ op \in {1, 2, 3, 4, 5, 6, 7} /\ Bytes = Script["Reqa"][op] /\ Len(Script[at]) = 7
  <2>1. op \in 1 .. Len(Script[at]) /\ Len(Script[at]) = 7
    BY PartNames, AccessesOfReqa DEF BoardInv, ReaderInv, RfidTypeOK
  <2>2. op \in {1, 2, 3, 4, 5, 6, 7}
    BY <2>1
  <2> QED  BY <2>1, <2>2 DEF BoardInv, ReaderInv, RfidTypeOK, ChipTypeOK, Bytes
<1>1. chip.startSend = FALSE /\ chip.air = NONE /\ ~Window /\ Performed = op - 1
  BY <1>0, ShiftedWindow DEF Chips, Sending, PollParts, StopParts, Shifted
<1>2. op >= 3 => chip.irq = {}
  BY <1>0, <1>1 DEF Bus, FlagsOK
<1>3. at = "Reqa" /\ op \in Nat /\ (op < Len(Script[at]) <=> op # 7)
  BY <1>0
<1>4. ASSUME op # 7, chip'.frame = chip.frame, chip'.startSend = FALSE, chip'.air = NONE,
             chip'.irq \subseteq chip.irq, op = 2 => chip'.irq = {}
      PROVE  Bus'
  <2>1. op >= 2 => chip'.irq = {}
    BY <1>0, <1>2, <1>4
  <2> QED  BY <1>3, <1>4, <2>1, BeforeDone
<1>5. CASE op = 1
  <2>1. chip' = Written(chip, 1, 0)
    BY <1>0, <1>5, WrittenTo, AccessesOfReqa
  <2>3. chip'.frame = chip.frame /\ chip'.startSend = FALSE /\ chip'.air = NONE /\ chip'.irq = chip.irq
    BY <1>0, <1>1, <2>1, CommandWritten
  <2>4. op # 7 /\ chip'.irq \subseteq chip.irq /\ (op = 2 => chip'.irq = {})
    BY <1>5, <2>3
  <2> QED  BY <1>4, <2>3, <2>4, Zenon
<1>6. CASE op = 2
  <2>1. chip' = Written(chip, 4, 127)
    BY <1>0, <1>6, WrittenTo, AccessesOfReqa
  <2>3. chip'.frame = chip.frame /\ chip'.startSend = FALSE /\ chip'.air = NONE /\ chip'.irq = {}
    BY <1>0, <1>1, <2>1, IrqWritten
  <2>4. op # 7 /\ chip'.irq \subseteq chip.irq /\ (op = 2 => chip'.irq = {})
    BY <1>6, <2>3
  <2> QED  BY <1>4, <2>3, <2>4, Zenon
<1>7. CASE op = 3
  <2>1. chip' = Written(chip, 10, 128)
    BY <1>0, <1>7, WrittenTo, AccessesOfReqa
  <2>3. chip'.frame = chip.frame /\ chip'.startSend = FALSE /\ chip'.air = NONE /\ chip'.irq = chip.irq
    BY <1>0, <1>1, <2>1, FlushWritten
  <2>4. op # 7 /\ chip'.irq \subseteq chip.irq /\ (op = 2 => chip'.irq = {})
    BY <1>7, <2>3
  <2> QED  BY <1>4, <2>3, <2>4, Zenon
<1>8. CASE op = 4
  <2>1. chip' = Written(chip, 9, 38)
    BY <1>0, <1>8, WrittenTo, AccessesOfReqa
  <2>3. chip'.frame = chip.frame /\ chip'.startSend = FALSE /\ chip'.air = NONE /\ chip'.irq = chip.irq
    BY <1>0, <1>1, <2>1, DataWritten
  <2>4. op # 7 /\ chip'.irq \subseteq chip.irq /\ (op = 2 => chip'.irq = {})
    BY <1>8, <2>3
  <2> QED  BY <1>4, <2>3, <2>4, Zenon
<1>9. CASE op = 5
  <2>1. chip' = Written(chip, 13, 7)
    BY <1>0, <1>9, WrittenTo, AccessesOfReqa
  <2>2. Bit(7, 7) = FALSE
    BY Bits, BitType
  <2>3. chip'.frame = chip.frame /\ chip'.startSend = FALSE /\ chip'.air = NONE /\ chip'.irq = chip.irq
    BY <1>0, <1>1, <2>1, <2>2, FramingWritten
  <2>4. op # 7 /\ chip'.irq \subseteq chip.irq /\ (op = 2 => chip'.irq = {})
    BY <1>9, <2>3
  <2> QED  BY <1>4, <2>3, <2>4, Zenon
<1>10. CASE op = 6
  <2>1. chip' = Written(chip, 1, 12)
    BY <1>0, <1>10, WrittenTo, AccessesOfReqa
  <2>3. chip'.frame = chip.frame /\ chip'.startSend = FALSE /\ chip'.air = NONE /\ chip'.irq = chip.irq
    BY <1>0, <1>1, <2>1, CommandWritten
  <2>4. op # 7 /\ chip'.irq \subseteq chip.irq /\ (op = 2 => chip'.irq = {})
    BY <1>10, <2>3
  <2> QED  BY <1>4, <2>3, <2>4, Zenon
<1>11. CASE op = 7
  <2>1. chip' = Written(chip, 13, 135)
    BY <1>0, <1>11, WrittenTo, AccessesOfReqa
  <2>2. chip'.frame = chip.frame /\ chip'.air = NONE /\ chip'.irq = {}
    BY <1>0, <1>1, <1>2, <1>11, <2>1, FramingWritten
  <2>3. chip'.reg = 13
    <3>1. Bytes[1] = 26
      BY <1>0, <1>11, AccessesOfReqa
    <3>2. chip.reg = 13
      BY <3>1 DEF Shifted, InFrame
    <3> QED  BY <1>0, <2>1, <3>2, FramingWritten
  <2> QED  BY <1>0, <1>11, <2>2, <2>3, StartDone
<1> QED  BY <1>0, <1>5, <1>6, <1>7, <1>8, <1>9, <1>10, <1>11

LEMMA AnticollShifted ==
    ASSUME BoardInv, Bus, Shifted, WritesByte, at = "Anticoll"
    PROVE  Bus'
<1>0. chip \in Chips /\ op \in {1, 2, 3, 4, 5, 6, 7, 8} /\ Bytes = Script["Anticoll"][op] /\ Len(Script[at]) = 8
  <2>1. op \in 1 .. Len(Script[at]) /\ Len(Script[at]) = 8
    BY PartNames, AccessesOfAnticoll DEF BoardInv, ReaderInv, RfidTypeOK
  <2>2. op \in {1, 2, 3, 4, 5, 6, 7, 8}
    BY <2>1
  <2> QED  BY <2>1, <2>2 DEF BoardInv, ReaderInv, RfidTypeOK, ChipTypeOK, Bytes
<1>1. chip.startSend = FALSE /\ chip.air = NONE /\ ~Window /\ Performed = op - 1
  BY <1>0, ShiftedWindow DEF Chips, Sending, PollParts, StopParts, Shifted
<1>2. op >= 2 => chip.irq = {}
  BY <1>0, <1>1 DEF Bus, FlagsOK
<1>3. op \in Nat /\ (op < Len(Script[at]) <=> op # 8)
  BY <1>0
<1>a. /\ op \in {3, 4} => chip.fifo = <<>>
      /\ op = 5 => chip.fifo = << 147 >>
      /\ op >= 6 => chip.fifo = <<147, 32>>
  BY <1>0, <1>1 DEF Bus, FifoOK
<1>4. ASSUME op # 8, chip'.frame = chip.frame, chip'.startSend = FALSE, chip'.air = NONE,
             chip'.irq = {},
             op \in {2, 3} => chip'.fifo = <<>>, op = 4 => chip'.fifo = << 147 >>,
             op >= 5 => chip'.fifo = <<147, 32>>
      PROVE  Bus'
  BY <1>3, <1>4, BeforeDone
<1>5. CASE op = 1
  <2>1. chip' = Written(chip, 4, 127)
    BY <1>0, <1>5, WrittenTo, AccessesOfAnticoll
  <2>3. chip'.frame = chip.frame /\ chip'.startSend = FALSE /\ chip'.air = NONE /\ chip'.irq = {}
    BY <1>0, <1>1, <1>2, <1>5, <2>1, IrqWritten
  <2>5. /\ op # 8 /\ (op \in {2, 3} => chip'.fifo = <<>>) /\ (op = 4 => chip'.fifo = << 147 >>)
        /\ op >= 5 => chip'.fifo = <<147, 32>>
    BY <1>5
  <2> QED  BY <1>4, <2>3, <2>5, Zenon
<1>6. CASE op = 2
  <2>1. chip' = Written(chip, 10, 128)
    BY <1>0, <1>6, WrittenTo, AccessesOfAnticoll
  <2>3. chip'.frame = chip.frame /\ chip'.startSend = FALSE /\ chip'.air = NONE /\ chip'.irq = {}
    BY <1>0, <1>1, <1>2, <1>6, <2>1, FlushWritten
  <2>4. chip'.fifo = <<>>
    BY <1>0, <1>a, <1>6, <2>1, FlushWritten
  <2>5. /\ op # 8 /\ (op \in {2, 3} => chip'.fifo = <<>>) /\ (op = 4 => chip'.fifo = << 147 >>)
        /\ op >= 5 => chip'.fifo = <<147, 32>>
    BY <1>6, <2>4
  <2> QED  BY <1>4, <2>3, <2>5, Zenon
<1>7. CASE op = 3
  <2>1. chip' = Written(chip, 1, 0)
    BY <1>0, <1>7, WrittenTo, AccessesOfAnticoll
  <2>3. chip'.frame = chip.frame /\ chip'.startSend = FALSE /\ chip'.air = NONE /\ chip'.irq = {}
    BY <1>0, <1>1, <1>2, <1>7, <2>1, CommandWritten
  <2>4. chip'.fifo = <<>>
    BY <1>0, <1>a, <1>7, <2>1, CommandWritten
  <2>5. /\ op # 8 /\ (op \in {2, 3} => chip'.fifo = <<>>) /\ (op = 4 => chip'.fifo = << 147 >>)
        /\ op >= 5 => chip'.fifo = <<147, 32>>
    BY <1>7, <2>4
  <2> QED  BY <1>4, <2>3, <2>5, Zenon
<1>8. CASE op = 4
  <2>1. chip' = Written(chip, 9, 147)
    BY <1>0, <1>8, WrittenTo, AccessesOfAnticoll
  <2>3. chip'.frame = chip.frame /\ chip'.startSend = FALSE /\ chip'.air = NONE /\ chip'.irq = {}
    BY <1>0, <1>1, <1>2, <1>8, <2>1, DataWritten
  <2>4. chip'.fifo = << 147 >>
    BY <1>0, <1>a, <1>8, <2>1, DataWritten
  <2>5. /\ op # 8 /\ (op \in {2, 3} => chip'.fifo = <<>>) /\ (op = 4 => chip'.fifo = << 147 >>)
        /\ op >= 5 => chip'.fifo = <<147, 32>>
    BY <1>8, <2>4
  <2> QED  BY <1>4, <2>3, <2>5, Zenon
<1>9. CASE op = 5
  <2>1. chip' = Written(chip, 9, 32)
    BY <1>0, <1>9, WrittenTo, AccessesOfAnticoll
  <2>3. chip'.frame = chip.frame /\ chip'.startSend = FALSE /\ chip'.air = NONE /\ chip'.irq = {}
    BY <1>0, <1>1, <1>2, <1>9, <2>1, DataWritten
  <2>4. chip'.fifo = <<147, 32>>
    BY <1>0, <1>a, <1>9, <2>1, DataWritten
  <2>5. /\ op # 8 /\ (op \in {2, 3} => chip'.fifo = <<>>) /\ (op = 4 => chip'.fifo = << 147 >>)
        /\ op >= 5 => chip'.fifo = <<147, 32>>
    BY <1>9, <2>4
  <2> QED  BY <1>4, <2>3, <2>5, Zenon
<1>10. CASE op = 6
  <2>1. chip' = Written(chip, 13, 0)
    BY <1>0, <1>10, WrittenTo, AccessesOfAnticoll
  <2>2. Bit(0, 7) = FALSE
    BY Bits, BitType
  <2>3. chip'.frame = chip.frame /\ chip'.startSend = FALSE /\ chip'.air = NONE /\ chip'.irq = {}
    BY <1>0, <1>1, <1>2, <1>10, <2>1, <2>2, FramingWritten
  <2>4. chip'.fifo = <<147, 32>>
    BY <1>0, <1>a, <1>10, <2>1, FramingWritten
  <2>5. /\ op # 8 /\ (op \in {2, 3} => chip'.fifo = <<>>) /\ (op = 4 => chip'.fifo = << 147 >>)
        /\ op >= 5 => chip'.fifo = <<147, 32>>
    BY <1>10, <2>4
  <2> QED  BY <1>4, <2>3, <2>5, Zenon
<1>11. CASE op = 7
  <2>1. chip' = Written(chip, 1, 12)
    BY <1>0, <1>11, WrittenTo, AccessesOfAnticoll
  <2>3. chip'.frame = chip.frame /\ chip'.startSend = FALSE /\ chip'.air = NONE /\ chip'.irq = {}
    BY <1>0, <1>1, <1>2, <1>11, <2>1, CommandWritten
  <2>4. chip'.fifo = <<147, 32>>
    BY <1>0, <1>a, <1>11, <2>1, CommandWritten
  <2>5. /\ op # 8 /\ (op \in {2, 3} => chip'.fifo = <<>>) /\ (op = 4 => chip'.fifo = << 147 >>)
        /\ op >= 5 => chip'.fifo = <<147, 32>>
    BY <1>11, <2>4
  <2> QED  BY <1>4, <2>3, <2>5, Zenon
<1>12. CASE op = 8
  <2>1. chip' = Written(chip, 13, 128)
    BY <1>0, <1>12, WrittenTo, AccessesOfAnticoll
  <2>2. chip'.frame = chip.frame /\ chip'.air = NONE /\ chip'.irq = {} /\ chip'.fifo = <<147, 32>>
    BY <1>0, <1>1, <1>2, <1>a, <1>12, <2>1, FramingWritten
  <2>3. chip'.reg = 13
    <3>1. Bytes[1] = 26
      BY <1>0, <1>12, AccessesOfAnticoll
    <3>2. chip.reg = 13
      BY <3>1 DEF Shifted, InFrame
    <3> QED  BY <1>0, <2>1, <3>2, FramingWritten
  <2>4. chip'.startSend = TRUE
    <3>1. Bit(128, 7) = TRUE
      BY Bits, BitType
    <3> QED  BY <1>0, <2>1, <3>1, FramingWritten
  <2> QED  BY <1>0, <1>12, <2>2, <2>3, <2>4, StartDone
<1> QED  BY <1>0, <1>5, <1>6, <1>7, <1>8, <1>9, <1>10, <1>11, <1>12

LEMMA CleanupShifted ==
    ASSUME BoardInv, Bus, Shifted, WritesByte, at = "Cleanup"
    PROVE  Bus'
<1>0. chip \in Chips /\ op \in {1, 2, 3, 4} /\ Bytes = Script["Cleanup"][op]
  <2>1. op \in 1 .. Len(Script[at]) /\ Len(Script[at]) = 4
    BY PartNames, AccessesOfCleanup DEF BoardInv, ReaderInv, RfidTypeOK
  <2>2. op \in {1, 2, 3, 4}
    BY <2>1
  <2> QED  BY <2>2 DEF BoardInv, ReaderInv, RfidTypeOK, ChipTypeOK, Bytes
<1>1. chip.startSend = FALSE /\ (op # 1 => chip.air = NONE)
  BY <1>0 DEF Bus, SendingOK, Shifted, Chips
<1>2. ASSUME chip'.frame = chip.frame, chip'.startSend = FALSE, chip'.air = NONE,
             chip'.irq = chip.irq \/ chip'.irq = {}
      PROVE  Bus'
  <2>1. chip'.irq \subseteq chip.irq
    BY <1>2
  <2> QED  BY <1>2, <2>1, CleanupDone
<1>3. CASE op = 1
  <2>1. chip' = Written(chip, 1, 0)
    BY <1>0, <1>3, WrittenTo, AccessesOfCleanup
  <2>2. chip'.frame = chip.frame /\ chip'.startSend = FALSE /\ chip'.air = NONE /\ chip'.irq = chip.irq
    BY <1>0, <1>1, <2>1, CommandWritten
  <2> QED  BY <1>2, <2>2, Zenon
<1>4. CASE op = 2
  <2>1. chip' = Written(chip, 4, 127)
    BY <1>0, <1>4, WrittenTo, AccessesOfCleanup
  <2>2. chip'.frame = chip.frame /\ chip'.startSend = FALSE /\ chip'.air = NONE /\ chip'.irq = {}
    BY <1>0, <1>1, <1>4, <2>1, IrqWritten
  <2> QED  BY <1>2, <2>2, Zenon
<1>5. CASE op = 3
  <2>1. chip' = Written(chip, 10, 128)
    BY <1>0, <1>5, WrittenTo, AccessesOfCleanup
  <2>2. chip'.frame = chip.frame /\ chip'.startSend = FALSE /\ chip'.air = NONE /\ chip'.irq = chip.irq
    BY <1>0, <1>1, <1>5, <2>1, FlushWritten
  <2> QED  BY <1>2, <2>2, Zenon
<1>6. CASE op = 4
  <2>1. chip' = Written(chip, 13, 0)
    BY <1>0, <1>6, WrittenTo, AccessesOfCleanup
  <2>2. Bit(0, 7) = FALSE
    BY Bits, BitType
  <2>3. chip'.frame = chip.frame /\ chip'.startSend = FALSE /\ chip'.air = NONE /\ chip'.irq = chip.irq
    BY <1>0, <1>1, <1>6, <2>1, <2>2, FramingWritten
  <2> QED  BY <1>2, <2>3, Zenon
<1> QED  BY <1>0, <1>3, <1>4, <1>5, <1>6

LEMMA RepliesOf ==
    ASSUME NEW c
    PROVE  /\ Reads(c, 4) = {Number(c.irq)}
           /\ c.fifo # <<>> => Reads(c, 9) = {Head(c.fifo)}
           /\ Reads(c, 10) = {Len(c.fifo)}
<1> USE DEF CommandReg, ComIrqReg, ErrorReg, FIFODataReg, FIFOLevelReg, TxControlReg
<1>1. Reads(c, 4) = {Number(c.irq)}
  BY DEF Reads
<1>2. c.fifo # <<>> => Reads(c, 9) = {Head(c.fifo)}
  BY DEF Reads
<1>3. Reads(c, 10) = {Len(c.fifo)}
  BY DEF Reads
<1> QED  BY <1>1, <1>2, <1>3

LEMMA SingleShifted ==
    ASSUME BoardInv, Bus, Shifted, WritesByte, ReadsByte, ~Window \/ Sending,
           at \in PollParts \cup StopParts \cup {"Level", "Uid"}
    PROVE  Bus'
<1>0. chip \in Chips /\ op \in 1 .. Len(Script[at]) /\ Bytes = Script[at][op]
  BY DEF BoardInv, ReaderInv, RfidTypeOK, ChipTypeOK, Shifted, Bytes
<1>1. CASE at \in PollParts
  <2>1. Bytes = <<136, 0>>
    BY <1>1, PollBytes DEF BoardInv
  <2>2. 136 = 128 + 2 * 4 /\ 4 \in 0 .. 63
    OBVIOUS
  <2>3. chip' = [Read(chip, 4) EXCEPT !.reg = 0] /\ \E v \in Reads(chip, 4) : rx' = <<v>>
    BY <2>1, <2>2, ReadFrom
  <2>4. Sending /\ chip.irq = {}
    BY <1>1, ShiftedWindow DEF Bus, SendingOK
  <2>5. Reads(chip, 4) = {0}
    <3>1. Number({}) = 0
      BY DEF Number
    <3> QED  BY <2>4, <3>1, RepliesOf
  <2>6. rx' = << 0 >>
    BY <2>3, <2>5
  <2>7. Kept(chip, chip') /\ chip'.reg = 0
    BY <1>0, <2>3, ReadEffect DEF Kept
  <2> QED  BY <1>1, <2>4, <2>6, <2>7, PollDone
<1>2. CASE at \in StopParts
  <2>1. op = 1 /\ Bytes = <<26, 0>>
    BY <1>0, <1>2, SingleAccesses DEF StopParts
  <2>2. chip' = Written(chip, 13, 0)
    BY <2>1, WrittenTo
  <2>3. Bit(0, 7) = FALSE
    BY Bits, BitType
  <2>4. chip'.frame = chip.frame /\ chip'.startSend = FALSE /\ chip'.air = chip.air
        /\ chip'.fifo = chip.fifo /\ chip'.irq = chip.irq
    BY <1>0, <2>2, <2>3, FramingWritten
  <2> QED  BY <1>2, <2>4, StopDone
<1>3. CASE at = "Level"
  <2>1. op = 1 /\ Bytes = <<148, 0>>
    BY <1>0, <1>3, SingleAccesses
  <2>2. 148 = 128 + 2 * 10 /\ 10 \in 0 .. 63
    OBVIOUS
  <2>3. chip' = [Read(chip, 10) EXCEPT !.reg = 0] /\ \E v \in Reads(chip, 10) : rx' = <<v>>
    BY <2>1, <2>2, ReadFrom
  <2>4. chip.fifo = UID
    BY <1>3 DEF Bus, FifoOK
  <2>5. Reads(chip, 10) = {Len(UID)}
    BY <2>4, RepliesOf
  <2>6. rx' = <<Len(UID)>>
    BY <2>3, <2>5
  <2>7. Kept(chip, chip')
    BY <1>0, <2>3, ReadEffect DEF Kept
  <2> QED  BY <1>3, <2>6, <2>7, LevelDone
<1>4. CASE at = "Uid"
  <2>1. op = 1 /\ Bytes = <<146, 0>>
    BY <1>0, <1>4, SingleAccesses
  <2>2. 146 = 128 + 2 * 9 /\ 9 \in 0 .. 63
    OBVIOUS
  <2>3. chip' = [Read(chip, 9) EXCEPT !.reg = 0] /\ \E v \in Reads(chip, 9) : rx' = <<v>>
    BY <2>1, <2>2, ReadFrom
  <2>4. chip.fifo # <<>>
    <3>1. Len(chip.fifo) = uid.left
      BY <1>4 DEF Bus, UidOK, Shifted
    <3>2. uid.left > 0
      BY <1>4 DEF BoardInv, ReaderInv, CountersOK
    <3>3. chip.fifo # <<>> \/ Len(chip.fifo) = 0
      OBVIOUS
    <3> QED  BY <3>1, <3>2, <3>3
  <2>5. Reads(chip, 9) = {Head(chip.fifo)}
    BY <2>4, RepliesOf
  <2>6. rx' = <<Head(chip.fifo)>>
    BY <2>3, <2>5
  <2>7. /\ chip'.frame = chip.frame /\ chip'.startSend = chip.startSend /\ chip'.air = chip.air
        /\ chip'.irq = chip.irq /\ chip'.fifo = Tail(chip.fifo)
    BY <1>0, <2>3, <2>4, ReadEffect
  <2> QED  BY <1>4, <2>4, <2>6, <2>7, UidDone
<1> QED  BY <1>1, <1>2, <1>3, <1>4

(* The SPI exchanges a byte. *)
LEMMA ShiftKeeps ==
    ASSUME BoardInv, Bus, Shift, UNCHANGED <<driverVars, isrVars>>
    PROVE  Bus' /\ (Unharmed' <=> Unharmed)
<1>1. CASE Window /\ ~Sending
  BY <1>1, StrayByte
<1>2. CASE ~Window \/ Sending
  <2>1. isr = "off" /\ tx # <<>>
    BY <1>2 DEF Bus, CalmOK, SendingOK, Shift
  <2>2. x \in {"read1", "read2"}
    BY <2>1, LineQuiet
  <2>3. CASE x = "read1"
    BY <1>2, <2>3, AddressShifted
  <2>4. CASE x = "read2"
    <3>1. Shifted /\ WritesByte /\ ReadsByte /\ (Unharmed' <=> Unharmed)
      BY <1>2, <2>4, DataShifted DEF WritesByte, ReadsByte
    <3>2. at \in {"Init", "Antenna", "Enable", "Version", "Reqa", "ReqaPoll", "ReqaStop", "ReqaError",
                  "Anticoll", "AnticollPoll", "AnticollStop", "AnticollError", "Level", "Uid", "Cleanup"}
      BY <3>1 DEF Shifted, Parts, Script
    <3>3. Bus'
      BY <1>2, <3>1, <3>2, PlainShifted, ReqaShifted, AnticollShifted, CleanupShifted, SingleShifted
      DEF PollParts, StopParts
    <3> QED  BY <3>1, <3>3
  <2> QED  BY <2>2, <2>3, <2>4
<1> QED  BY <1>1, <1>2

(* A message in the air is not no message. *)
LEMMA MessageNotNone ==
    ASSUME NEW n \in Nat, NEW s \in Seq(Nat)
    PROVE  [lastBits |-> n, bytes |-> s] # NONE
<1>1. [lastBits |-> n, bytes |-> s] \in [lastBits : Nat, bytes : Seq(Nat)]
  OBVIOUS
<1> QED  BY <1>1, Mfrc522Assumption

LEMMA TransmitKeeps ==
    ASSUME BoardInv, Bus, Transmit, UNCHANGED <<driverVars, isrVars>>
    PROVE  Bus' /\ (Unharmed' <=> Unharmed)
<1>0. /\ UNCHANGED <<at, op, x, tx, rx, value, timeout, uid, status, isr, pending, odr, undone>>
      /\ chip \in Chips
  BY DEF driverVars, isrVars, portVars, Transmit, BoardInv, ReaderInv, RfidTypeOK, ChipTypeOK
<1>1. chip.startSend /\ chip.fifo # <<>> /\ Sending
  BY DEF Transmit, Sending
<1> DEFINE message == [lastBits |-> chip.lastBits, bytes |-> chip.fifo]
<1>2. /\ chip'.air = message /\ chip'.fifo = <<>> /\ ~chip'.startSend
      /\ chip'.frame = chip.frame /\ chip'.reg = chip.reg /\ chip'.irq = chip.irq
  BY <1>0 DEF Transmit, Chips
<1>3. chip'.air # NONE /\ chip'.air.bytes = chip.fifo
  <2>1. message # NONE
    BY <1>0, MessageNotNone DEF Chips
  <2> QED  BY <1>2, <2>1
<1> HIDE DEF message
<1>4. Sending'
  BY <1>3 DEF Sending
<1>5. (Reached' <=> Reached) /\ Performed' = Performed /\ (Starting' <=> Starting)
      /\ (Window' <=> Window) /\ (InFrame' <=> InFrame) /\ \A v : ReplyIs(v) => ReplyIs(v)'
  BY <1>0, <1>2 DEF Reached, Performed, Starting, Window, PollParts, Bytes, InFrame, ReplyIs
<1>6. chip.irq = {} /\ isr = "off" /\ ~pending /\ at # "Cleanup"
      /\ (Window \/ (timeout = 0 /\ at \in StopParts))
  BY <1>1 DEF Bus, SendingOK
<1>7. PinsOK'
  <2>1. at # "ResetHigh"
    BY <1>6 DEF Window, PollParts, Starting, StopParts
  <2> QED  BY <1>0, <1>2, <2>1 DEF Bus, PinsOK
<1>8. CalmOK'
  BY <1>0, <1>6 DEF CalmOK
<1>9. SendingOK'
  BY <1>0, <1>2, <1>4, <1>5, <1>6 DEF SendingOK
<1>10. SyncOK'
  BY <1>0, <1>1, <1>2, <1>5 DEF Bus, SyncOK, Bytes
<1>11. TameOK'
  BY <1>0, <1>2, <1>5 DEF Bus, TameOK
<1>12. FlagsOK'
  BY <1>0, <1>2, <1>6 DEF FlagsOK
<1>13. FifoOK'
  <2>1. CASE Window
    <3>1. at \in {"Reqa", "ReqaPoll", "Anticoll", "AnticollPoll"}
      BY <2>1 DEF Window, PollParts, Starting
    <3>2. at \in {"Anticoll", "AnticollPoll"} => chip.fifo = <<147, 32>>
      BY <1>1, <2>1 DEF Bus, FifoOK
    <3> QED  BY <1>0, <1>2, <1>3, <1>4, <1>5, <2>1, <3>1, <3>2 DEF FifoOK
  <2>2. CASE ~Window
    <3>1. at \in StopParts /\ timeout' = 0
      BY <1>0, <1>6, <2>2
    <3> QED  BY <1>0, <3>1 DEF FifoOK, StopParts
  <2> QED  BY <2>1, <2>2
<1>14. PollOK' /\ LevelOK'
  BY <1>0, <1>1, <1>5 DEF Bus, PollOK, LevelOK, PollParts
<1>15. UidOK'
  BY <1>0, <1>6 DEF UidOK, Window, PollParts, Starting, StopParts
<1>16. StatusOK'
  BY <1>0 DEF Bus, StatusOK
<1> QED
  BY <1>0, <1>7, <1>8, <1>9, <1>10, <1>11, <1>12, <1>13, <1>14, <1>15, <1>16 DEF Bus, Unharmed

(* A card answers while the driver polls for it, or is about to. *)
LEMMA AnswerKeeps ==
    ASSUME BoardInv, Bus, InTime, AnswerRequest(exti) \/ AnswerAnticoll(exti),
           UNCHANGED <<driverVars, isrVars>>
    PROVE  Bus' /\ (Unharmed' <=> Unharmed)
<1>1. PICK reply \in {ATQA, UID} :
          /\ Answers(reply, exti)
          /\ \/ chip.air = Request
             \/ chip.air = [lastBits |-> 0, bytes |-> <<147, 32>>] /\ reply = UID
  BY DEF AnswerRequest, AnswerAnticoll, Anticoll, PICC_ANTICOLL
<1>0. /\ UNCHANGED <<at, op, x, tx, rx, value, timeout, uid, status, isr, odr, undone>>
      /\ chip \in Chips
  BY <1>1 DEF driverVars, isrVars, portVars, Answers, BoardInv, ReaderInv, RfidTypeOK, ChipTypeOK
<1>2. chip.air # NONE
  <2>1. << 38 >> \in Seq(Nat) /\ <<147, 32>> \in Seq(Nat) /\ 7 \in Nat /\ 0 \in Nat
    OBVIOUS
  <2> QED  BY <1>1, <2>1, MessageNotNone DEF Request, PICC_REQA
<1>3. Sending /\ ~chip.startSend
  BY <1>2 DEF Sending, Bus, SendingOK
<1>4. chip.irq = {} /\ Window
  <2>1. Window \/ (timeout = 0 /\ at \in StopParts \cup {"Cleanup"})
    BY <1>3 DEF Bus, SendingOK
  <2> QED  BY <1>3, <2>1 DEF Bus, SendingOK, InTime, StopParts, BoardInv, ReaderInv, RfidTypeOK
<1>5. /\ chip'.air = NONE /\ chip'.fifo = chip.fifo \o reply /\ ~chip'.startSend
      /\ chip'.frame = chip.frame /\ chip'.reg = chip.reg /\ chip'.irq = {RxIRq}
  <2>1. chip' = [chip EXCEPT !.air = NONE, !.fifo = @ \o reply, !.irq = @ \cup {RxIRq}]
    BY <1>1 DEF Answers
  <2>2. chip'.air = NONE /\ chip'.fifo = chip.fifo \o reply /\ chip'.startSend = chip.startSend
        /\ chip'.frame = chip.frame /\ chip'.reg = chip.reg /\ chip'.irq = chip.irq \cup {RxIRq}
    BY <1>0, <2>1 DEF Chips
  <2> QED  BY <1>3, <1>4, <2>2
<1>6. (Reached' <=> Reached) /\ (Starting' <=> Starting) /\ (Window' <=> Window) /\ ~Sending'
  BY <1>0, <1>5 DEF Reached, Starting, Window, PollParts, Bytes, Sending
<1>7. PinsOK'
  <2>1. at # "ResetHigh"
    BY <1>4 DEF Window, PollParts, Starting
  <2> QED  BY <1>0, <1>5, <2>1 DEF Bus, PinsOK
<1>8. CalmOK' /\ SyncOK' /\ FlagsOK'
  BY <1>4, <1>6 DEF CalmOK, SyncOK, FlagsOK
<1>9. SendingOK'
  BY <1>5, <1>6 DEF SendingOK
<1>10. TameOK'
  BY <1>0, <1>5, <1>6 DEF Bus, TameOK
<1>11. FifoOK'
  <2>1. at \in {"Reqa", "ReqaPoll", "Anticoll", "AnticollPoll"}
    BY <1>4 DEF Window, PollParts, Starting
  <2>2. ASSUME at \in {"Anticoll", "AnticollPoll"} PROVE chip'.fifo = UID
    <3>1. chip.fifo = <<>> /\ chip.air.bytes = <<147, 32>>
      BY <1>2, <1>4, <2>2 DEF Bus, FifoOK
    <3>2. chip.air # Request
      BY <3>1 DEF Request, PICC_REQA
    <3>3. reply = UID
      BY <1>1, <3>2
    <3> QED  BY <1>5, <3>1, <3>3, Mfrc522Assumption, ConcatEmptySeq
  <2> QED  BY <1>0, <1>5, <1>6, <1>4, <2>1, <2>2 DEF FifoOK
<1>12. PollOK' /\ LevelOK' /\ UidOK'
  BY <1>0, <1>4, <1>6 DEF PollOK, LevelOK, UidOK, Window, PollParts, Starting
<1>13. StatusOK'
  BY <1>0 DEF Bus, StatusOK
<1> QED
  BY <1>0, <1>7, <1>8, <1>9, <1>10, <1>11, <1>12, <1>13 DEF Bus, Unharmed

LEMMA ReaderKeepsBus ==
    ASSUME BoardInv, Bus, Reader
    PROVE  Bus' /\ (Unharmed' <=> Unharmed)
<1>1. CASE Shift /\ UNCHANGED <<driverVars, isrVars>>
  BY <1>1, ShiftKeeps
<1>2. CASE Transmit /\ UNCHANGED <<driverVars, isrVars>>
  BY <1>2, TransmitKeeps
<1>3. CASE InTime /\ (AnswerRequest(exti) \/ AnswerAnticoll(exti)) /\ UNCHANGED <<driverVars, isrVars>>
  BY <1>3, AnswerKeeps
<1> QED  BY <1>1, <1>2, <1>3 DEF Reader

(* The end of an access: the chip select is high, the bytes are through.   *)
Deselected ==
    /\ UNCHANGED <<isr, pending>> /\ isr = "off" /\ ~pending /\ at \in Parts
    /\ tx' = <<>> /\ x' = "load" /\ Reached /\ ~Reached' /\ ~Starting' /\ Performed = op
    /\ SameContents /\ (Sending' <=> Sending)
    /\ "RST" \in odr' /\ "CS" \in odr' /\ chip'.frame = "off"

LEMMA DeselectEffect ==
    ASSUME BoardInv, Bus, TasksRun, Deselect, Unharmed'
    PROVE  Deselected /\ Unharmed
<1>0. /\ PortTypeOK /\ chip \in Chips /\ x = "deselect" /\ x' = "load" /\ tx' = tx /\ isr' = isr /\ pending' = pending
      /\ isr = "off" /\ ~pending /\ at \in Parts
  BY DEF BoardInv, ReaderInv, CountersOK, RfidTypeOK, ChipTypeOK, Deselect, TasksRun
<1>1. Store("RFID", "CS", TRUE) /\ chip' = SeesPins(odr')
  BY DEF Deselect
<1>2. Unharmed /\ "CS" \in odr' /\ ("RST" \in odr' <=> "RST" \in odr)
  BY <1>0, <1>1, StoreEffect DEF Drivers, Pins
<1>3. "RST" \in odr /\ (chip.frame = "off" <=> "CS" \in odr)
  BY <1>0, PartsOnly DEF Bus, PinsOK
<1>4. SameContents /\ chip'.frame = "off"
  BY <1>0, <1>1, <1>2, <1>3, SeesEffect DEF SameContents
<1>5. Reached /\ ~Reached' /\ ~Starting' /\ Performed = op
  BY <1>0 DEF Reached, Starting, Performed
<1>6. tx' = <<>>
  BY <1>0, LineQuiet
<1>7. Sending' <=> Sending
  BY <1>4 DEF Sending, SameContents
<1> QED  BY <1>0, <1>2, <1>3, <1>4, <1>5, <1>6, <1>7 DEF Deselected

LEMMA Onwards ==
    ASSUME Bus, Deselected, at' # "ResetHigh", SendingOK', FlagsOK', FifoOK', UidOK', StatusOK'
    PROVE  Bus'
<1>1. \A v : ReplyIs(v)'
  BY DEF Deselected, ReplyIs
<1>2. PinsOK' /\ CalmOK' /\ SyncOK'
  BY DEF Deselected, PinsOK, CalmOK, SyncOK
<1>3. TameOK'
  <2>1. <<>> \in Seq({0, 8, 127, 136})
    OBVIOUS
  <2> QED  BY <2>1 DEF Deselected, TameOK
<1>4. PollOK' /\ LevelOK'
  BY <1>1 DEF PollOK, LevelOK
<1> QED  BY <1>2, <1>3, <1>4 DEF Bus

LEMMA DeselectedFacts ==
    ASSUME Bus, Deselected
    PROVE  /\ chip.irq \subseteq {RxIRq} /\ chip'.irq = chip.irq
           /\ Sending => chip.irq = {}
           /\ Window' <=> at' \in PollParts
           /\ Performed' = op' - 1
           /\ chip'.air # NONE => ~chip'.startSend
           /\ chip'.fifo = chip.fifo
           /\ isr' = "off" /\ ~pending'
  BY DEF Bus, SendingOK, Deselected, SameContents, Window, Performed

(* The next access of the same part. *)
LEMMA NextAccess ==
    ASSUME BoardInv, Bus, Deselected, op < Len(Script[at]), op' = op + 1, UNCHANGED at, Keep
    PROVE  Bus'
<1>0. op \in Nat /\ op > 0 /\ at \in Parts
  BY DEF BoardInv, ReaderInv, RfidTypeOK, Deselected
<1>1. at \notin PollParts \cup StopParts \cup {"Level", "Uid", "AnticollError"}
  <2>1. Len(Script[at]) # 1
    <3>1. \A n : op < n => n # 1
      BY <1>0
    <3> QED  BY <3>1, Zenon
  <2> QED  BY <2>1, SingleAccesses DEF PollParts, StopParts
<1>2. Performed' = Performed /\ ~Window /\ ~Window'
  BY <1>0, <1>1, DeselectedFacts DEF Deselected, Window, Starting
<1>3. SendingOK'
  BY <1>1, <1>2, DeselectedFacts DEF Bus, SendingOK, Deselected, Keep, SameContents
<1>4. FlagsOK' /\ FifoOK'
  BY <1>1, <1>2, DeselectedFacts DEF Bus, FlagsOK, FifoOK, StopParts
<1>5. UidOK' /\ StatusOK'
  BY <1>1 DEF Bus, UidOK, StatusOK, Keep
<1>6. at' # "ResetHigh"
  BY <1>0, PartsOnly
<1> QED  BY <1>3, <1>4, <1>5, <1>6, Onwards

(* A part that leaves nothing in the air goes on to one that expects       *)
(* nothing of the FIFO.                                                    *)
LEMMA PlainNext ==
    ASSUME Bus, Deselected, ~Sending, op' = 1, StatusOK',
           at' \in {"Antenna", "Enable", "Version", "Sleep", "Cleanup", "ReqaError", "Anticoll"}
    PROVE  Bus'
<1>1. ~Window' /\ Performed' = 0 /\ ~Sending' /\ ~chip'.startSend
  BY DeselectedFacts DEF PollParts, Deselected, Sending
<1>2. SendingOK'
  BY <1>1, DeselectedFacts DEF SendingOK
<1>3. FlagsOK' /\ FifoOK' /\ UidOK'
  BY <1>1 DEF FlagsOK, FifoOK, UidOK
<1> QED  BY <1>2, <1>3, Onwards

LEMMA NotOKYet ==
    ASSUME Bus, at \notin {"Cleanup", "Sleep"}
    PROVE  status # "OK"
  BY DEF Bus, StatusOK

LEMMA InitNext ==
    ASSUME Bus, Deselected, RFID_Init
    PROVE  Bus'
<1>1. at \in {"Init", "Antenna", "Enable", "Version"} /\ op' = 1 /\ status' = status
      /\ at' \in {"Antenna", "Enable", "Version", "Sleep"}
  BY DEF RFID_Init, Goto, Keep
<1>2. ~Sending
  BY <1>1 DEF Bus, SendingOK, Window, PollParts, StopParts, Starting
<1>3. StatusOK'
  BY <1>1, NotOKYet DEF StatusOK
<1> QED  BY <1>1, <1>2, <1>3, PlainNext

LEMMA CleanupNext ==
    ASSUME BoardInv, Bus, Deselected, RFID_Cleanup
    PROVE  Bus'
<1>1. at = "Cleanup" /\ at' = "Sleep" /\ op' = 1 /\ UNCHANGED <<status, uid>>
  BY DEF RFID_Cleanup, Goto, Keep
<1>2. ~Sending
  <2>1. Performed > 0
    BY DEF Deselected, BoardInv, ReaderInv, RfidTypeOK
  <2> QED  BY <1>1, <2>1 DEF Bus, SendingOK, Sending
<1>3. StatusOK'
  BY <1>1 DEF Bus, StatusOK
<1> QED  BY <1>1, <1>2, <1>3, PlainNext

(* The sending has started: RFID_REQA and RFID_Anticollision poll.         *)
LEMMA PollingNext ==
    ASSUME Bus, Deselected,
           \/ at \in {"Reqa", "ReqaPoll"} /\ at' = "ReqaPoll"
           \/ at \in {"Anticoll", "AnticollPoll"} /\ at' = "AnticollPoll",
           Window, UNCHANGED status
    PROVE  Bus'
<1>1. Window' /\ at' \in PollParts
  BY DeselectedFacts DEF PollParts
<1>2. SendingOK'
  BY <1>1, DeselectedFacts DEF SendingOK, PollParts, StopParts, Deselected
<1>3. FlagsOK' /\ UidOK'
  BY <1>1 DEF FlagsOK, UidOK, PollParts
<1>4. FifoOK'
  BY <1>1, DeselectedFacts DEF Bus, FifoOK, PollParts, Deselected, SameContents
<1>5. StatusOK'
  BY NotOKYet DEF StatusOK
<1> QED  BY <1>1, <1>2, <1>3, <1>4, <1>5, Onwards DEF PollParts

LEMMA NothingSet == ~Bit(0, RxIRq) /\ ~Bit(0, IdleIRq)
  BY Bits DEF RxIRq, IdleIRq

(* The polling ends with the answer, or at the last of its rounds.         *)
LEMMA StoppingNext ==
    ASSUME BoardInv, Bus, Deselected, UNCHANGED status, timeout' = timeout - 1,
           \/ at = "ReqaPoll" /\ at' = "ReqaStop"
           \/ at = "AnticollPoll" /\ at' = "AnticollStop",
           Answered \/ ~(timeout' > 0), x = "deselect"
    PROVE  Bus'
<1>0. at \in PollParts /\ Window /\ at' \in StopParts /\ ~Window'
  BY DeselectedFacts DEF PollParts, StopParts, Window
<1>1. timeout' \in Nat
  BY <1>0 DEF BoardInv, ReaderInv, RfidTypeOK, CountersOK, PollParts
<1>2. Sending => timeout' = 0
  <2> SUFFICES ASSUME Sending PROVE timeout' = 0
    OBVIOUS
  <2>1. value = 0
    BY <1>0 DEF Bus, PollOK, ReplyIs
  <2>2. ~Answered
    BY <2>1, NothingSet DEF Answered
  <2>3. ~(timeout' > 0)
    BY <2>2
  <2>4. \A n \in Nat : ~(n > 0) => n = 0
    OBVIOUS
  <2> QED  BY <1>1, <2>3, <2>4, Zenon
<1>3. SendingOK'
  BY <1>0, <1>2, DeselectedFacts DEF SendingOK, StopParts, Deselected
<1>4. FlagsOK' /\ UidOK'
  BY <1>0 DEF FlagsOK, UidOK, StopParts
<1>5. FifoOK'
  <2>1. at' = "AnticollStop" /\ timeout' > 0 => chip'.fifo = UID
    BY <1>0, <1>2, DeselectedFacts DEF Bus, FifoOK
  <2> QED  BY <1>0, <2>1 DEF FifoOK, StopParts
<1>6. StatusOK'
  BY <1>0, NotOKYet DEF StatusOK, PollParts
<1> QED  BY <1>0, <1>3, <1>4, <1>5, <1>6, Onwards DEF StopParts

(* The polling was in vain. *)
LEMMA TimedOutNext ==
    ASSUME Bus, Deselected, at \in StopParts, at' = "Cleanup", op' = 1,
           UNCHANGED <<timeout, uid>>, status' # "OK"
    PROVE  Bus'
<1>0. ~Window /\ ~Window' /\ Performed' = 0
  BY DeselectedFacts DEF StopParts, PollParts, Window, Starting
<1>1. ~chip'.startSend
  BY DEF Bus, SendingOK, Deselected, SameContents
<1>2. Sending => timeout = 0
  BY <1>0 DEF Bus, SendingOK
<1>3. SendingOK'
  BY <1>0, <1>1, <1>2, DeselectedFacts DEF SendingOK, Deselected
<1>4. FlagsOK' /\ FifoOK' /\ UidOK' /\ StatusOK'
  BY <1>0 DEF FlagsOK, FifoOK, UidOK, StatusOK
<1> QED  BY <1>3, <1>4, Onwards

(* The answer to the anticollision is in the FIFO. *)
LEMMA AnsweredNext ==
    ASSUME Bus, Deselected, ~Sending, op' = 1, at' \in {"AnticollError", "Level"},
           chip.fifo = UID, UNCHANGED status, at \notin {"Cleanup", "Sleep"}
    PROVE  Bus'
<1>0. ~Window' /\ ~Sending'
  BY DeselectedFacts DEF PollParts, Deselected
<1>1. SendingOK'
  BY <1>0, DeselectedFacts DEF SendingOK, StopParts
<1>2. FlagsOK' /\ UidOK'
  BY DEF FlagsOK, UidOK
<1>3. FifoOK'
  BY <1>0, DeselectedFacts DEF FifoOK
<1>4. StatusOK'
  BY NotOKYet DEF StatusOK
<1> QED  BY <1>1, <1>2, <1>3, <1>4, Onwards

LEMMA ReqaNext ==
    ASSUME BoardInv, Bus, Deselected, x = "deselect", op \notin 1 .. Len(Script[at]) - 1, RFID_REQA
    PROVE  Bus'
<1>0. op = Len(Script[at])
  BY DEF BoardInv, ReaderInv, RfidTypeOK, Deselected
<1>1. CASE at = "Reqa" /\ StartPolling("ReqaPoll")
  <2>1. Window
    BY <1>0, <1>1 DEF Window, Starting, Deselected
  <2>2. at \in {"Reqa", "ReqaPoll"} /\ at' = "ReqaPoll" /\ UNCHANGED status
    BY <1>1 DEF StartPolling, Goto
  <2> QED  BY <2>1, <2>2, PollingNext, Zenon
<1>2. CASE at = "ReqaPoll" /\ Poll("ReqaPoll", "ReqaStop")
  <2>1. Window /\ timeout' = timeout - 1 /\ UNCHANGED status
        /\ (at' = "ReqaPoll" \/ (at' = "ReqaStop" /\ (Answered \/ ~(timeout' > 0))))
    BY <1>2 DEF Window, PollParts, Poll, Goto
  <2>2. CASE at' = "ReqaPoll"
    <3>1. at \in {"Reqa", "ReqaPoll"} /\ at' = "ReqaPoll"
      BY <1>2, <2>2
    <3> QED  BY <2>1, <3>1, PollingNext, Zenon
  <2>3. CASE at' = "ReqaStop" /\ (Answered \/ ~(timeout' > 0))
    BY <1>2, <2>1, <2>3, StoppingNext, Zenon
  <2> QED  BY <2>1, <2>2, <2>3
<1>3. CASE at = "ReqaStop" /\ TimedOut /\ Returns("ERROR")
  BY <1>3, TimedOutNext DEF Returns, Goto, StopParts
<1>4. CASE at = "ReqaStop" /\ ~TimedOut /\ Keep /\ Goto("ReqaError")
  <2>1. ~Sending
    BY <1>4 DEF Bus, SendingOK, TimedOut, Window, Starting, PollParts
  <2>2. StatusOK'
    BY <1>4, NotOKYet DEF StatusOK, Keep
  <2> QED  BY <1>4, <2>1, <2>2, PlainNext DEF Goto
<1>5. ASSUME at = "ReqaError" PROVE ~Sending
  BY <1>5 DEF Bus, SendingOK, Window, Starting, PollParts, StopParts
<1>6. CASE at = "ReqaError" /\ Failed /\ Returns("ERROR")
  <2>1. StatusOK'
    BY <1>6 DEF StatusOK, Returns
  <2> QED  BY <1>5, <1>6, <2>1, PlainNext DEF Returns, Goto
<1>7. CASE at = "ReqaError" /\ ~Failed /\ Keep /\ Goto("Anticoll")
  <2>1. StatusOK'
    BY <1>7, NotOKYet DEF StatusOK, Keep
  <2> QED  BY <1>5, <1>7, <2>1, PlainNext DEF Goto
<1> QED  BY <1>1, <1>2, <1>3, <1>4, <1>6, <1>7 DEF RFID_REQA

(* The first and the next byte of the UID. *)
LEMMA NothingRead ==
    ASSUME NEW q \in Seq(Nat)
    PROVE  Prefix(<<>>, q) /\ Suffix(q, q) /\ Len(<<>>) = 0
<1>1. Len(q) \in Nat /\ Len(<<>>) = 0
  BY LenProperties
<1>2. Prefix(<<>>, q)
  BY <1>1 DEF Prefix
<1>3. Suffix(q, q)
  <2>1. \A i \in 1 .. Len(q) : Len(q) - Len(q) + i = i
    BY <1>1
  <2>2. Len(q) <= Len(q)
    BY <1>1
  <2> QED  BY <2>1, <2>2 DEF Suffix
<1> QED  BY <1>1, <1>2, <1>3

LEMMA AppendPrefix ==
    ASSUME NEW s \in Seq(Nat), NEW q \in Seq(Nat), Prefix(s, q), Len(s) < Len(q)
    PROVE  LET t == Append(s, q[Len(s) + 1]) IN
           /\ t \in Seq(Nat) /\ Len(t) = Len(s) + 1 /\ Prefix(t, q)
           /\ Len(t) = Len(q) => t = q
<1>0. Len(s) \in Nat /\ Len(q) \in Nat
  BY LenProperties
<1>1. q[Len(s) + 1] \in Nat
  <2>1. Len(s) + 1 \in 1 .. Len(q)
    BY <1>0
  <2> QED  BY <2>1, ElementOfSeq
<1> DEFINE t == Append(s, q[Len(s) + 1])
<1>2. /\ t \in Seq(Nat) /\ Len(t) = Len(s) + 1 /\ t[Len(s) + 1] = q[Len(s) + 1]
      /\ \A i \in 1 .. Len(s) : t[i] = s[i]
  BY <1>1, AppendProperties
<1> HIDE DEF t
<1>3. Prefix(t, q)
  <2>1. ASSUME NEW i \in 1 .. Len(t) PROVE t[i] = q[i]
    <3>1. CASE i = Len(s) + 1
      BY <1>2, <3>1
    <3>2. CASE i # Len(s) + 1
      <4>1. i \in 1 .. Len(s)
        BY <1>0, <1>2, <3>2
      <4> QED  BY <1>2, <4>1 DEF Prefix
    <3> QED  BY <3>1, <3>2
  <2>2. Len(t) <= Len(q)
    BY <1>0, <1>2
  <2> QED  BY <2>1, <2>2 DEF Prefix
<1>4. Len(t) = Len(q) => t = q
  <2> SUFFICES ASSUME Len(t) = Len(q) PROVE t = q
    OBVIOUS
  <2>1. \A i \in 1 .. Len(t) : t[i] = q[i]
    BY <1>3 DEF Prefix
  <2> QED  BY <1>2, <2>1, SeqEqual
<1> QED  BY <1>2, <1>3, <1>4 DEF t

LEMMA LevelNext ==
    ASSUME BoardInv, Bus, Deselected, x = "deselect", at = "Level", FitsUid(value), Goto("Uid"),
           uid' = [left |-> value, bytes |-> <<>>], UNCHANGED <<timeout, status, exti>>
    PROVE  Bus'
<1>0. value = Len(UID) /\ chip.fifo = UID
  BY DEF Bus, LevelOK, ReplyIs, FifoOK
<1>1. ~Sending /\ ~Window' /\ ~Sending'
  BY DeselectedFacts DEF Bus, SendingOK, Window, Starting, PollParts, StopParts, Goto, Deselected
<1>2. SendingOK'
  BY <1>1, DeselectedFacts DEF SendingOK, Goto, StopParts
<1>3. FlagsOK' /\ FifoOK'
  BY DEF FlagsOK, FifoOK, Goto
<1>4. StatusOK'
  BY NotOKYet DEF StatusOK
<1>5. UidOK'
  <2>1. Prefix(uid'.bytes, UID) /\ Suffix(chip'.fifo, UID) /\ Len(uid'.bytes) = 0
    BY <1>0, DeselectedFacts, NothingRead, Mfrc522Assumption
  <2>2. uid'.left = Len(UID) /\ Len(chip'.fifo) = Len(UID) /\ Len(UID) \in Nat
    BY <1>0, DeselectedFacts, LenProperties, Mfrc522Assumption
  <2>3. Len(uid'.bytes) + uid'.left = Len(UID)
    BY <2>1, <2>2
  <2>4. \A v : ReplyIs(v)'
    BY DEF Deselected, ReplyIs
  <2> QED  BY <2>1, <2>2, <2>3, <2>4 DEF UidOK, Deselected
<1>6. at' # "ResetHigh"
  BY DEF Goto
<1> QED  BY <1>2, <1>3, <1>4, <1>5, <1>6, Onwards

LEMMA UidNext ==
    ASSUME BoardInv, Bus, Deselected, x = "deselect", at = "Uid",
           uid' = [left |-> uid.left - 1, bytes |-> Append(uid.bytes, value)],
           UNCHANGED <<timeout, exti>>,
           IF uid'.left > 0 THEN Goto("Uid") /\ UNCHANGED status ELSE Goto("Cleanup") /\ status' = "OK"
    PROVE  Bus'
<1>0. /\ Prefix(uid.bytes, UID) /\ Suffix(chip.fifo, UID)
      /\ Len(uid.bytes) + uid.left = Len(UID) /\ Len(chip.fifo) = uid.left - 1
      /\ value = UID[Len(uid.bytes) + 1]
  BY DEF Bus, UidOK, ReplyIs, Deselected
<1>t. uid.bytes \in Seq(Nat) /\ uid.left \in Nat /\ uid.left > 0 /\ Len(uid.bytes) \in Nat /\ UID \in Seq(Nat)
      /\ Len(UID) \in Nat
  BY Mfrc522Assumption, LenProperties DEF BoardInv, ReaderInv, RfidTypeOK, CountersOK
<1>1. /\ Len(uid'.bytes) = Len(uid.bytes) + 1 /\ Prefix(uid'.bytes, UID)
      /\ Len(uid'.bytes) = Len(UID) => uid'.bytes = UID
  <2>1. Len(uid.bytes) < Len(UID)
    BY <1>0, <1>t
  <2>2. uid'.bytes = Append(uid.bytes, UID[Len(uid.bytes) + 1])
    BY <1>0
  <2> QED  BY <1>0, <1>t, <2>1, <2>2, AppendPrefix
<1>2. uid'.left = uid.left - 1 /\ uid'.left \in Nat
  BY <1>t
<1>3. Len(uid'.bytes) + uid'.left = Len(UID)
  BY <1>0, <1>1, <1>2, <1>t
<1>4. ~Sending
  BY DEF Bus, SendingOK, Window, Starting, PollParts, StopParts
<1>5. CASE uid'.left > 0
  <2>1. at' = "Uid" /\ op' = 1 /\ status' = status
    BY <1>5 DEF Goto
  <2>2. ~Window' /\ ~Sending'
    BY <1>4, <2>1, DeselectedFacts DEF PollParts, Deselected
  <2>3. SendingOK'
    BY <2>1, <2>2, DeselectedFacts DEF SendingOK, StopParts
  <2>4. FlagsOK' /\ FifoOK'
    BY <2>1 DEF FlagsOK, FifoOK
  <2>5. StatusOK'
    BY <2>1, NotOKYet DEF StatusOK
  <2>6. UidOK'
    <3>1. Suffix(chip'.fifo, UID) /\ Len(chip'.fifo) = uid'.left
      BY <1>0, <1>2, DeselectedFacts
    <3>2. \A v : ReplyIs(v)'
      BY DEF Deselected, ReplyIs
    <3> QED  BY <1>1, <1>3, <3>1, <3>2 DEF UidOK, Deselected
  <2>7. at' # "ResetHigh"
    BY <2>1
  <2> QED  BY <2>3, <2>4, <2>5, <2>6, <2>7, Onwards
<1>6. CASE ~(uid'.left > 0)
  <2>1. at' = "Cleanup" /\ op' = 1
    BY <1>6 DEF Goto
  <2>2. uid'.left = 0
    <3>1. \A n \in Nat : ~(n > 0) => n = 0
      OBVIOUS
    <3> QED  BY <1>2, <1>6, <3>1, Zenon
  <2>3. Len(uid'.bytes) = Len(UID)
    BY <1>1, <1>3, <1>t, <2>2
  <2>4. StatusOK'
    BY <1>1, <2>1, <2>3 DEF StatusOK
  <2> QED  BY <1>4, <2>1, <2>4, PlainNext
<1> QED  BY <1>5, <1>6

LEMMA AnticollNext ==
    ASSUME BoardInv, Bus, Deselected, x = "deselect", op \notin 1 .. Len(Script[at]) - 1, RFID_Anticollision
    PROVE  Bus'
<1>0. op = Len(Script[at])
  BY DEF BoardInv, ReaderInv, RfidTypeOK, Deselected
<1>1. CASE at = "Anticoll" /\ StartPolling("AnticollPoll")
  <2>1. Window
    BY <1>0, <1>1 DEF Window, Starting, Deselected
  <2>2. at' = "AnticollPoll" /\ UNCHANGED status
    BY <1>1 DEF StartPolling, Goto
  <2> QED  BY <1>1, <2>1, <2>2, PollingNext
<1>2. CASE at = "AnticollPoll" /\ Poll("AnticollPoll", "AnticollStop")
  <2>1. Window /\ timeout' = timeout - 1 /\ UNCHANGED status
        /\ (at' = "AnticollPoll" \/ (at' = "AnticollStop" /\ (Answered \/ ~(timeout' > 0))))
    BY <1>2 DEF Window, PollParts, Poll, Goto
  <2>2. CASE at' = "AnticollPoll"
    BY <1>2, <2>1, <2>2, PollingNext
  <2>3. CASE at' = "AnticollStop" /\ (Answered \/ ~(timeout' > 0))
    BY <1>2, <2>1, <2>3, StoppingNext
  <2> QED  BY <2>1, <2>2, <2>3
<1>3. CASE at = "AnticollStop" /\ TimedOut /\ Returns("TIMEOUT")
  BY <1>3, TimedOutNext DEF Returns, Goto, StopParts
<1>4. CASE at = "AnticollStop" /\ ~TimedOut /\ Keep /\ Goto("AnticollError")
  <2>1. ~Sending
    BY <1>4 DEF Bus, SendingOK, TimedOut, Window, Starting, PollParts
  <2>2. chip.fifo = UID
    <3>1. timeout > 0
      BY <1>4 DEF TimedOut, BoardInv, ReaderInv, RfidTypeOK
    <3> QED  BY <1>4, <3>1 DEF Bus, FifoOK
  <2> QED  BY <1>4, <2>1, <2>2, AnsweredNext DEF Goto, Keep
<1>5. ASSUME at \in {"AnticollError", "Level"} PROVE ~Sending /\ chip.fifo = UID
  BY <1>5 DEF Bus, SendingOK, FifoOK, Window, Starting, PollParts, StopParts
<1>6. CASE at = "AnticollError" /\ Failed /\ Returns("ERROR")
  <2>1. StatusOK'
    BY <1>6 DEF StatusOK, Returns
  <2> QED  BY <1>5, <1>6, <2>1, PlainNext DEF Returns, Goto
<1>7. CASE at = "AnticollError" /\ ~Failed /\ Keep /\ Goto("Level")
  BY <1>5, <1>7, AnsweredNext DEF Goto, Keep
<1>8. CASE at = "Level" /\ ~FitsUid(value) /\ Returns("ERROR")
  <2>1. StatusOK'
    BY <1>8 DEF StatusOK, Returns
  <2> QED  BY <1>5, <1>8, <2>1, PlainNext DEF Returns, Goto
<1> QED
  BY <1>1, <1>2, <1>3, <1>4, <1>6, <1>7, <1>8, LevelNext, UidNext DEF RFID_Anticollision

LEMMA DeselectKeeps ==
    ASSUME BoardInv, Bus, TasksRun, Deselect, Unharmed'
    PROVE  Unharmed /\ Bus'
<1>1. Deselected /\ Unharmed /\ x = "deselect"
  BY DeselectEffect DEF Deselect
<1>2. op \in Nat /\ Len(Script[at]) \in Nat
  BY <1>1, ScriptType DEF BoardInv, ReaderInv, RfidTypeOK, Deselected, Accesses
<1>3. CASE op < Len(Script[at])
  BY <1>1, <1>3, NextAccess DEF Deselect
<1>4. CASE ~(op < Len(Script[at]))
  <2>1. op \notin 1 .. Len(Script[at]) - 1
    BY <1>2, <1>4
  <2>2. RFID_Init \/ RFID_REQA \/ RFID_Anticollision \/ RFID_Cleanup
    BY <1>4 DEF Deselect
  <2> QED  BY <1>1, <2>1, <2>2, InitNext, ReqaNext, AnticollNext, CleanupNext
<1> QED  BY <1>1, <1>3, <1>4

(* The next call finds the chip as RFID_Cleanup left it. *)
LEMMA DetectKeeps ==
    ASSUME BoardInv, Bus, TasksRun, RFID_DetectCard
    PROVE  Bus' /\ (Unharmed' <=> Unharmed)
<1>0. /\ UNCHANGED <<x, tx, rx, value, timeout, isr, pending, chip, odr, undone>>
      /\ at = "Sleep" /\ at' = "Reqa" /\ op' = 1 /\ status' = NONE /\ isr = "off" /\ ~pending
  BY DEF RFID_DetectCard, Goto, Called, isrVars, chipVars, TasksRun
<1>1. x \in {"load", "store"}
  BY <1>0, PartsOnly DEF BoardInv, ReaderInv, CountersOK
<1>2. ~Reached' /\ Performed' = 0 /\ ~Starting' /\ ~Window' /\ \A v : ReplyIs(v)'
  BY <1>0, <1>1 DEF Reached, Performed, Starting, Window, PollParts, ReplyIs
<1>3. ~Sending /\ ~Sending'
  BY <1>0 DEF Bus, SendingOK, Sending, Window, Starting, PollParts, StopParts
<1>4. PinsOK'
  BY <1>0, <1>1 DEF Bus, PinsOK
<1>5. CalmOK' /\ SyncOK' /\ TameOK'
  BY <1>0, <1>1, <1>2 DEF CalmOK, SyncOK, TameOK
<1>6. SendingOK'
  BY <1>0, <1>2, <1>3 DEF Bus, SendingOK, StopParts
<1>7. FlagsOK' /\ FifoOK' /\ PollOK' /\ LevelOK' /\ UidOK'
  BY <1>0, <1>2 DEF FlagsOK, FifoOK, PollOK, PollParts, LevelOK, UidOK
<1>8. StatusOK'
  BY <1>0, RfidAssumption DEF StatusOK
<1> QED  BY <1>0, <1>4, <1>5, <1>6, <1>7, <1>8 DEF Bus, Unharmed

(* Nothing that was undone is forgotten. *)
LEMMA UndoneStays ==
    ASSUME [Next]_vars
    PROVE  undone \subseteq undone'
<1>1. CASE vTaskRFID
  BY <1>1 DEF vTaskRFID, ResetPin, Select, SPI_TransmitReceive, BeginDeselect, Deselect, RFID_DetectCard,
     Load, Store, Called, portVars
<1>2. CASE EXTI0_IRQHandler
  BY <1>2 DEF EXTI0_IRQHandler, IsrEnters, IsrWrites, IsrReads, IsrReturns, portVars
<1>3. CASE Reader
  BY <1>3 DEF Reader, Shift, Transmit, AnswerRequest, AnswerAnticoll, Answers, portVars
<1>4. CASE vTaskKeypad
  BY <1>4 DEF vTaskKeypad, Keypad_GetKey, LoadColumn, StoreColumn, DriveColumn, ReadRow, Released,
     Load, Store, Called, portVars
<1>5. CASE Press \/ Release \/ UNCHANGED vars
  BY <1>5 DEF Press, Release, vars, rfidVars, portVars
<1> QED  BY <1>1, <1>2, <1>3, <1>4, <1>5 DEF Next, RfidNext

LEMMA BusKept ==
    ASSUME BoardInv, Unharmed => Bus, [Next]_vars
    PROVE  (Unharmed => Bus)'
<1> SUFFICES ASSUME Unharmed' PROVE Bus'
  OBVIOUS
<1>1. Bus
  BY UndoneStays DEF Unharmed
<1>2. CASE vTaskRFID
  <2>1. TasksRun
    BY <1>2 DEF vTaskRFID
  <2>2. CASE ResetPin
    <3>1. x = "load" \/ x = "store"
      BY <2>2 DEF ResetPin
    <3> QED  BY <1>1, <2>1, <2>2, <3>1, LoadKeeps, ResetStores DEF Select
  <2>3. CASE Select
    <3>1. x = "load" \/ x = "select"
      BY <2>3 DEF Select
    <3>2. CASE x = "load"
      BY <1>1, <2>1, <2>3, <3>2, LoadKeeps
    <3>3. CASE x = "select"
      BY <1>1, <2>1, <2>3, <3>3, SelectStores
    <3> QED  BY <3>1, <3>2, <3>3
  <2>4. CASE SPI_TransmitReceive
    BY <1>1, <2>1, <2>4, TransmitReceiveKeeps
  <2>5. CASE BeginDeselect
    <3>1. x = "load2" /\ ~ResetPin /\ ~Select
      BY <2>5 DEF BeginDeselect, ResetPin, Select
    <3> QED  BY <1>1, <2>1, <2>5, <3>1, LoadKeeps
  <2>6. CASE Deselect
    BY <1>1, <2>1, <2>6, DeselectKeeps
  <2>7. CASE RFID_DetectCard
    BY <1>1, <2>1, <2>7, DetectKeeps
  <2> QED  BY <1>2, <2>2, <2>3, <2>4, <2>5, <2>6, <2>7 DEF vTaskRFID
<1>3. CASE EXTI0_IRQHandler
  BY <1>1, <1>3, InterruptKeeps
<1>4. CASE Reader
  BY <1>1, <1>4, ReaderKeepsBus
<1>5. CASE vTaskKeypad
  BY <1>1, <1>5, KeypadSparesBus
<1>6. CASE Press \/ Release \/ UNCHANGED vars
  BY <1>1, <1>6, FingerSparesBus
<1> QED  BY <1>2, <1>3, <1>4, <1>5, <1>6 DEF Next, RfidNext

(* What the bus and the chip are doing is what the driver means, as long   *)
(* as vTaskKeypad has undone no write of the chip select or the reset.     *)
THEOREM BusInvariance == Spec => [](Unharmed => Bus)
<1>1. Init => (Unharmed => Bus)
  BY InitBus DEF Init
<1>2. BoardInv /\ (Unharmed => Bus) /\ [Next]_vars => (Unharmed => Bus)'
  BY BusKept
<1> QED  BY <1>1, <1>2, Invariance, PTL DEF Spec

(* EXTI0_IRQHandler takes the bus from RFID.c only in a poll of ComIrqReg  *)
(* or in the write that starts the sending, for every UID, every number of *)
(* polls, and whatever an undriven line is read as.                        *)
THEOREM DataSpared == Spec => []InterruptSparesData
<1>1. (Unharmed => Bus) => InterruptSparesData
  <2> SUFFICES ASSUME Unharmed => Bus, isr # "off", undone = {}
               PROVE  \/ at \in {"ReqaPoll", "AnticollPoll"}
                      \/ at \in {"Reqa", "Anticoll"} /\ op = Len(Script[at])
    BY DEF InterruptSparesData
  <2>1. Window
    BY DEF Unharmed, Bus, CalmOK
  <2> QED  BY <2>1 DEF Window, PollParts, Starting
<1> QED  BY <1>1, BusInvariance, PTL

(* A UID that RFID_DetectCard returns with STATUS_OK is the whole UID of   *)
(* the card, for every UID and whatever the interrupt cut into, under the  *)
(* same proviso.                                                           *)
THEOREM WholeUid == Spec => []UidIsWhole
<1>1. (Unharmed => Bus) => UidIsWhole
  BY DEF Unharmed, Bus, StatusOK, UidIsWhole
<1> QED  BY <1>1, BusInvariance, PTL
==============================================================================
