-------------------------------- MODULE PortB --------------------------------
(***************************************************************************)
(* GPIOB->ODR, the output register that drives the chip select (PB6) and   *)
(* the reset (PB0) of the card reader and the first column of the keypad   *)
(* (PB10).  vTaskRFID and vTaskKeypad have the same priority and share the *)
(* processor in time slices; each changes its own bits with |= and &= on   *)
(* the whole register, a load followed by a store.  The store writes back  *)
(* what the load saw of everybody's bits.                                  *)
(***************************************************************************)
EXTENDS Naturals, FiniteSets

CONSTANT LATE  (* bound: calls of a driver once a change was undone *)

ASSUME PortAssumption == LATE \in Nat

Drivers == {"RFID", "Keypad"}
Pins    == {"CS", "RST", "COL1"}

VARIABLES
    odr,    (* the pins that are high                                      *)
    held,   (* what a task has loaded of odr and not stored yet            *)
    undone, (* history: the pins that a store of the other task took back  *)
    late    (* counts the calls of each driver since then, up to LATE      *)

portVars == <<odr, held, undone, late>>

PortTypeOK ==
    /\ odr \in SUBSET Pins
    /\ held \in [Drivers -> SUBSET Pins]
    /\ undone \in SUBSET Pins
    /\ late \in [Drivers -> 0 .. LATE]

(* SPI_Init and Keypad_Init leave every pin high. *)
PortInit ==
    /\ odr = Pins
    /\ held = [d \in Drivers |-> {}]
    /\ undone = {}
    /\ late = [d \in Drivers |-> 0]

Load(d) ==
    /\ held' = [held EXCEPT ![d] = odr]
    /\ UNCHANGED <<odr, undone, late>>

With(pins, p, high) == IF high THEN pins \cup {p} ELSE pins \ {p}

Store(d, p, high) ==
    /\ odr' = With(held[d], p, high)
    /\ held' = [held EXCEPT ![d] = {}]
    /\ undone' = undone \cup {q \in Pins \ {p} : (q \in held[d]) # (q \in odr)}
    /\ UNCHANGED late

(* A driver is called again. *)
Called(d) ==
    /\ undone # {} => late[d] < LATE
    /\ late' = IF undone = {} THEN late ELSE [late EXCEPT ![d] = @ + 1]
    /\ UNCHANGED <<odr, held, undone>>
==============================================================================
