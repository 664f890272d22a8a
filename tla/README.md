# SmartDoor RTOS: a TLA+ verification project

SmartDoor is a door lock on an STM32L476 under FreeRTOS. An RFID reader and a
4x4 keypad take credentials, one task decides, the decision goes into an audit
log in flash and onto a 16x2 LCD, and a serial command line reads and clears
the log. The project models the program in `src/Src` and `src/Inc` and the parts
of the kernel it leans on, checks the models with TLC on small instances and
proves the main results with TLAPS for every value of the constants.
`PROJECT.json` is its index: components, runs, mutants, the map from definitions
to source lines, findings, hazards and theorems.

## 1. Inventory

### Components and their state

| Component | Source | State | Operations |
|---|---|---|---|
| Flash audit log | `Src/flash_log.c` | page of `LOG_MAX_ENTRIES` 16-byte slots, `log_index`, `FLASH->CR`/`SR` | `FlashLog_Init`, `_Write`, `_Count`, `_Read`, `_Clear` |
| vTaskAuth, priority 3 | `Src/task_auth.c` | the event and the entry of one round | receive a card, else a PIN; decide; log; publish; sleep 20 ms |
| vTaskRFID, priority 2 | `Src/task_rfid.c` | `last_card`, `last_tick` | detect, cooldown, check for space, print, send |
| vTaskKeypad, priority 2 | `Src/task_keypad.c` | `pin_buf`, `pin_idx` | key, PIN, 0xFF |
| vTaskLCD, priority 2 | `Src/task_lcd.c` | `star_count`, the text on the screen | one character, then one result held for `LCD_RESULT_MS` |
| vTaskCLI, priority 1 | `Src/task_cli.c` | line buffer | `dump_log`, `clear_log`, `status`, `set_time`, `help` |
| UART driver | `Src/uart.c` | `xUARTMutex`, transmit and receive register | print under the mutex or raw, poll a character |
| RTC driver | `Src/rtc.c` | calendar and shadow registers | `RTC_GetTime`, `RTC_SetTime` |
| RFID driver | `Src/RFID.c` | SPI1, the MFRC522, CS and RST on port B | `RFID_DetectCard`, `RFID_Cleanup`, `EXTI0_IRQHandler` |
| Keypad driver | `Src/keypad.c` | columns (the first on port B), rows | `Keypad_GetKey` |
| Queues | `FreeRTOS/Source/queue.c` | ring buffer, lock, waiting tasks | send with timeout 0, send from an interrupt, receive |
| Ticks | `FreeRTOS/Source/tasks.c` | tick count, two delayed lists, suspension | delay, timeout, wake-up, priority inheritance |
| Boot | `Src/main.c` | | initialise, create queues and tasks |

### How they interact

```
vTaskRFID   --xQueueRFID----> vTaskAuth --xQueueAuth--> vTaskLCD
vTaskKeypad --xQueueKeypad--> vTaskAuth --FlashLog_Write--> flash page
vTaskKeypad --xQueueKeyChar---------------------------> vTaskLCD
vTaskCLI    --FlashLog_Count/_Read/_Clear-------------> flash page
vTaskCLI    --RTC_SetTime--> calendar --RTC_GetTime--> vTaskAuth, vTaskCLI
vTaskRFID, EXTI0 --SPI1--> MFRC522       vTaskRFID, vTaskKeypad --> GPIOB->ODR
all tasks   --xUARTMutex--> USART2
```

### What is hard here

* vTaskAuth preempts vTaskCLI anywhere: in the middle of `FlashLog_Clear`,
  between the range check and the copy of `FlashLog_Read`, inside `set_time`.
* Power may fail between the two double words of an entry, during an erase, and
  with a page that is exactly full.
* Every send has timeout 0 and its result is ignored: a full queue drops.
* `xQueueRFID` is served before `xQueueKeypad`; only a cooldown keeps cards from
  overflowing the one and starving the other.
* The star counter of the display is a copy of `pin_idx`, kept up to date
  through a lossy queue and reset by a result.
* Two tasks of the same priority, which the tick slices, change bits of
  `GPIOB->ODR` by load and store, without a lock.
* `EXTI0_IRQHandler` uses the SPI bus in the middle of vTaskRFID's access.
* The take of `xUARTMutex` times out after 10 ms, possibly while a priority is
  lent, and a priority-2 task can spin without end in `Keypad_GetKey`.
* Two registers make one timestamp, and midnight may come between them.
* The tick count wraps; a task's wake time may lie behind the wrap.

## 2. Modules

| Module | What it is |
|---|---|
| `AuditLog` | abstract: a bounded sequence of records; append, start over, clear, power loss |
| `FlashLog` | `flash_log.c` with its callers; implements `AuditLog` |
| `AccessControl` | abstract: accepted credentials, the log, results on their way to the display |
| `SmartDoor` | the four tasks and the queues between them; implements `AccessControl` |
| `CardReader` | the cooldown of `vTaskRFID` on the wrapping tick counter |
| `Sleepers` | abstract: every task that sleeps counts its ticks |
| `Ticks` | the kernel's tick count and delayed lists; implements `Sleepers` |
| `Fifo` | abstract: a bounded first-in first-out queue |
| `Queue` | `queue.c` on `Ticks`; implements `Fifo` and `Sleepers` |
| `Uart` | `uart.c` with the mutex and its priority inheritance |
| `Rtc` | the calendar and `rtc.c` |
| `CommandLine` | the line editor and `set_time` on `Rtc`, which vTaskAuth reads too |
| `PortB` | `GPIOB->ODR`, loaded and stored by two tasks |
| `Mfrc522` | the reader chip, the card and SPI1 (external) on `PortB` |
| `Rfid` | `RFID.c` with its interrupt, on `Mfrc522` |
| `Board` | `keypad.c` and `Rfid` on one port |
| `MC...` | constants for TLC |
| `...Proofs` | theorems, in a module of their own for each of `FlashLog`, `SmartDoor`, `CardReader`, `Ticks`, `Queue`, `Uart`, `CommandLine`, `Board` |

Each operator whose comment starts with "Mutant of" is a plausible bug in the
definition that follows it. It is not part of the specification; put in the
place of that definition it must violate the property `PROJECT.json` names.

### FlashLog

`lo` and `hi` are the first and second double word of each slot, `locked`,
`keys`, `per` and `err` the controller's LOCK bit, unlock sequence, PER bit and
error flags, `log_index` the variable of that name. `auth` and `cli` are program
counters. `WriteBegin`, `WriteErase`, `WriteLo` and `WriteHi` are
`FlashLog_Write`: it runs at the highest priority, so it is split only where a
power loss makes a difference. `ClearKey1` to `ClearReset` are `FlashLog_Clear`,
split at every access to a shared register, since the task of priority 3 may wake
up at any of them. The `Dump` actions are `cmd_dump_log` with `FlashLog_Read`
split into check and two copies. `PowerLoss` leaves any outcome of the operation
in progress on the page (a word may be old, new or neither; an erase may have
reached any set of slots), and `Boot`, `BootFull` and `BootErase` are
`FlashLog_Init`.

The controller itself is external and follows the STM32L4 reference manual: a
locked CR ignores writes, a double word is programmed only if it is erased, no
error flag stands and PER is clear, a wrong key sequence is a hard fault. The
code never reads or clears the error flags.

`count` of a dump is taken before its prints, `log_index` is looked at again in
`DumpCheck`, and the two copies follow. `stale` says that the page was erased
since that look. `DumpIsLog` is about every copy that ends with `stale` false,
however old `count` is: the log may have grown, wrapped or been cleared since.

The log keeps its promise only while two things have not happened: a write that
begins inside a clear (`raced`) and a power loss that interrupts an erase
(`cut`). `Safe` says neither has; each safety property of `FlashLog` holds under
it, and the violation runs show what happens outside it. Unconditionally,
`WritesSucceed` says that a hard fault comes only from a write that falls
between the two keys of `clear_log`.

### SmartDoor

Each task is a program counter plus its locals; its actions are the stretches of
its loop between the points where another task may run, which are the prints
(the UART mutex can block) and the sends and receives. `FlashLog_Write` is one
step here and always appends: it is the write that no `clear_log` overlaps, with
no error flag standing; how a write fails is in `FlashLog`. `wake[t]` counts the ticks task `t` still sleeps; `Tick` passes when
all are blocked. `since` and `first` stand for `last_tick`: `since` is the age
of `last_tick`, up to `CARD_COOLDOWN`, and `first` its initial value 0. `Reset`
may happen at any time; it loses all of RAM and runs `FlashLog_Init`, which keeps
the log if it has room and erases it if it is full. `AccessControl` allows just
that. A slot torn by a power loss is left to `FlashLog`. Keys reach the display as "key"
or `Clear`, the only distinction `vTaskLCD` makes; of the stars it draws the model has the
counter, which says where the next one goes; cards are model values that
are authorised or not. Priorities are left out: every schedule of the kernel is
a behaviour of the model, and more are. `in_step` is a ghost variable: no
character of the current PIN was dropped and no result hid its stars.

### CardReader

`SmartDoor` counts the ticks since `last_tick`; here they are `now - last_tick` on
a counter of `WRAP` values, with the test `last_tick == 0U` for "no card yet".
`Nothing`, `Miss`, `Reject`, `Accept` and `Skip` are the ways through one poll, `Send`
its end, `Present` (external) what people do. Any number of polls in a row may miss a
card that is held: it may ignore a REQA after one that it answered, and
`EXTI0_IRQHandler` may clear the flag that a poll waits for. The ghost `misses` counts
them. A loop takes `RFID_POLL` ticks and up to `LATE` more. The ghost
clock `quiet[c]` runs since card `c` was accepted and does not wrap; `zero` says
that a card came in the very tick 0, which makes the reader forget that it came
(once in 49.7 days, for one tick).

`CardsApart` holds whatever is missed. `HeldCardAccepted` cannot: a card that
every poll misses is never accepted, and nor is one that is missed by every poll
that falls outside the cooldown, which after a wrap begins anew. So it has a
proviso: from some moment on the card is held and never missed more than
`MAX_MISSES` times in a row. What must hold is that `MAX_MISSES + 1` polls fit in
between the end of the cooldown and the wrap:
`(MAX_MISSES + 1) * (RFID_POLL + LATE) < WRAP - CARD_COOLDOWN`. The run has 3 polls
of 2 ticks in 12 - 5 = 7; with 3 misses TLC finds a card locked out. In the
program the gap is 2^32 ms less 1.5 s, so the proviso says that the card is not
missed for 49.7 days on end. Nothing in the code guarantees even that.

### Ticks and Queue

`Ticks` has the tick count modulo `WRAP`, `pxDelayedTaskList` and
`pxOverflowDelayedTaskList` with their switch at the wrap, `xNextTaskUnblockTime`,
the ready tasks, and `uxPendedTicks` while the scheduler is suspended.
`xNumOfOverflows` is counted modulo `OVERFLOWS`. `Sleepers` has none of this: a
task sleeps a number of ticks. `Queue` adds the ring (`pcHead`, `pcWriteTo`,
`pcReadFrom`, `uxMessagesWaiting`), the lock `cTxLock`, the waiting receivers and
the loop of `xQueueReceive` with `xTicksToWait` and `xTimeOut`. Sends come from
tasks and, at any moment at all, from an interrupt (which the kernel allows; in this
program only tasks send to a queue that a task receives from). Between the critical
section in which a receiver finds the queue empty and its suspension of the scheduler
other tasks send, and wake nobody: `prvIsQueueEmpty` looks again, and
`NoLostWakeup` depends on it. A section under
`taskENTER_CRITICAL` is one action; a suspended scheduler keeps other tasks out,
but neither the tick nor the interrupt. Waiting senders are left out, since every
send of the program has a timeout of 0.

### Uart

Each task calls `UART2_Print`, sleeps, or, if it is one of `Spinners`, waits in a
loop for a key to be released. The take of the mutex has the steps of
`xQueueSemaphoreTake`: take it, note the time, block and lend the holder one's
priority, wake up with the mutex free or after the timeout, and take the loan
back (`vTaskPriorityDisinheritAfterTimeout`). `CanRun` is the scheduler: a ready
task of the highest priority. A character goes out in two steps, the look at TXE and
the write of TDR. One string of the model is one call of `UART2_Print`; the lines
the tasks write are several calls each, and lines of two tasks may mix.

### Rtc and CommandLine

The calendar's registers are read through shadows; reading TR freezes the shadow
of DR until it is read. TR stands for its hour field, in BCD; DR for the number of
the day. `HoursPass` and `Midnight` may come between any two accesses of either
task. `overlapped` marks a reading that another task's reading came into, or
that came so soon after one that the shadows disagree: then the latch does not
help. `missed` marks a `set_time` whose date is of another day than the calendar's: a
midnight came after its first read, or that read found the shadow of DR
frozen before one. `DateKept` is about all others, with vTaskAuth reading
the clock at any step. `Type` (external) delivers a character, which is lost if the last one has not
been read. `Store`, `Erase` and `Enter` are the editor, the `SetTime` actions are
`set_time` and `RTC_SetTime`, access by access. `typed` is the line as it looks to who
types it, as long as nothing came that the editor has no answer to (a full line, a
backspace at its start, a lost character).

### PortB, Mfrc522, Rfid, Board

`GPIOB->ODR |= ...` is `Load` and `Store`. vTaskRFID (CS, RST) and vTaskKeypad
(COL1) have the same priority and are time-sliced, so each may store what the other
has changed since. `undone` collects the pins that a store of the other task took
back. `Rfid` runs the driver one register access at a time, each access as the
bytes it sends and receives; `Script` lists the accesses of its parts.
`EXTI0_IRQHandler` starts between any two of their steps and then runs alone, with
its own access on the bus, where a byte of theirs may be on its way. The chip
answers requests and anticollision by its registers, or not at all when it is not
selected or held in reset; `FLOATING` is what an undriven line reads as. `Board` adds the
scan of the keypad and a finger.

## 3. Runs

| Run | Question | Instance |
|---|---|---|
| `flash_log` | does the log keep index, page and dumps in step and implement `AuditLog`; do commands end? | 3 slots, 2 entries, 1 power loss |
| `smart_door` | is each credential decided once, in order, on record first, also across resets; do the stars follow the digits? | 1 card, PINs of 2 of 2 keys, queues of 1, log of 2, no cooldown |
| `door_service` | does the cooldown prevent overflow of `xQueueRFID`; are PINs, cards and results all served? | 2 cards, queue of 2, cooldowns 4 and 3 |
| `card_reader` | do cards keep their distance across wraps, and does no cooldown lock a card out? | 2 cards, 12 ticks to a wrap, cooldowns 5 and 2, queue of 2, `MAX_MISSES` 2 |
| `queue` | is the ring a FIFO, is every wake-up delivered, does a wait last as long as asked? | 2 tasks of different priorities, length 2, 4 ticks to a wrap, 1 pended tick |
| `uart` | are strings whole, is nobody blocked by a lower priority, is every loan returned? | 4 tasks, strings of 2 characters, timeout 2, one task may spin |
| `command_line` | is a command what was typed, a timestamp one moment, the date kept, the hour set? | lines of up to 2 characters, 2 hours of each of 2 days |
| `board` | is the key the one pressed, the UID whole, no call left waiting for a reply? | 1 row, 2 columns, UID of 2 bytes, 3 polls |
| `clear_race` | refutes "each address can only be written ONCE per erase cycle" | 2 slots |
| `erase_cut` | refutes "we survive power cuts, log continues where it left off" | 2 slots |
| `board_columns` | refutes "columns are driven LOW one at a time" | 1 row, 2 columns |
| `uart_raw` | refutes "safe to call from multiple FreeRTOS tasks" | 3 tasks, vTaskLCD prints raw |

Three slots give a first, a middle and a last one, with a torn record at any of
them and writes behind it; power may fail again only in the theorems, which
bound nothing. Queues of one are empty or full, which is what the guards tell
apart; the refinement and the order of two results need a credential in hand and
one queued. Two keys of which the PIN needs both separate a digit, several and
all. In `smart_door` delays are short, so that everything overflows;
`door_service` keeps the order of `app_config.h`
(poll < decision < new-card cooldown < same-card cooldown); the real ones leave
vTaskAuth far more time per card (500 ms against about 25 ms). `card_reader`
keeps `2 * CARD_NEW_COOLDOWN < CARD_COOLDOWN` (1000 < 1500), and a wrap so short
that `ms_since` often wraps, also to values below the cooldowns.

In `queue` a wrap of 4 makes every timeout cross it from some tick; `OVERFLOWS` and
`MaxPended` bound counters. Two overflows tell "this period" from "the last one"; the
code's own reckoning holds for waits of less than one full period, 49.7 days.
In `uart` a timeout of 2 can end before, while and after the holder prints. Longer
strings repeat the same two steps. In `command_line` the hours 0 and 23 are next to midnight, and a
buffer of 3 is empty, in use and full. In `board` three polls let an access miss
and then hit; `LATE` = 0 says that a driver whose pin was taken back is not
followed further, after its present call; the theorems hold for every `LATE`, and
for every number of rows and columns.

`flash_log` and its violations say `CHECK_DEADLOCK FALSE` because a hard fault
stops the program. All others check for deadlock.

### Fairness

`FlashLog!FairSpec`: vTaskAuth finishes a write it began (weak fairness; it has
the highest priority and does not block inside), and a command of the CLI goes on
if it can again and again (strong fairness; vTaskAuth disables it during each
write, and sleeps 20 ms after each). `SmartDoor!FairSpec`: weak fairness of each
task and of `Tick`. The kernel time-slices priority 2 (`configUSE_TIME_SLICING` is
1), vTaskAuth sleeps in every round, and no task spins except
for the key release in `Keypad_GetKey`, so keys are assumed to be released.
`CardReader!FairSpec`: weak fairness of the loop, of vTaskAuth's receive and of
`Tick`; nothing is assumed of `Present`. `Uart!FairSpec`: weak fairness of the
transmitter and of `Tick`, strong fairness of each task that the scheduler picks
again and again, except that a key need not be released. `HolderFinishes` says
that while tasks queue for the mutex again and again, no task holds it for good. It
cannot say that each holder is done before its waiters give up: when a waiter times out it
takes its loan back, and a holder of low priority then stands behind a task that
spins, until the next one asks.

### Findings

Refuted by a run:

1. `clear_race`: `FlashLog_Clear` preempted by `FlashLog_Write`: the write locks CR,
   the erase is ignored, `log_index` becomes 0, and the next write hits written slots.
   An error flag then stands for ever and every later record is lost.
2. `erase_cut`: after an erase that lost power, the scan stops in front of old records.
3. `board_columns`: between vTaskKeypad's load and store of `GPIOB->ODR` vTaskRFID
   may store, or the other way round. A column is then low beside another or not low at all (a
   wrong key, a missed key, a key seen twice), or the reader is deselected in the middle
   of an access or held in reset (a wrong byte in the UID, a soft reset that leaves the
   antenna off, RST low for good, since vTaskRFID calls `RFID_Init` once).
4. `uart_raw`: vTaskLCD prints with the raw function after the scheduler has started; a
   character is lost.

Seen while modelling:

* A restart with an exactly full page erases all records (README.md:97: "The log
  survives power cycles"). `FlashLog!BootErase` and `SmartDoor!FlashLog_Init` do so,
  and `AuditLog` and `AccessControl` have it as a step of their own: what the
  refinements show is that a restart loses nothing otherwise.
* `FlashLog_Read` may return 1 with an erased entry, with the first half of an old one and
  the second half of a new one, or with a new one in the place of an old one, if the page
  is erased between its check and the end of its copy. `DumpIsLog` covers every other read.
* A card result during PIN entry resets the stars but not the digits (README.md:51:
  "show * per keypress").
* The reader remembers one card, so two cards that alternate are each accepted
  every 1000 ms, not every 1500 (the README says 3000). `CardsApart` has the exact bound.
* `EXTI0_IRQHandler` clears the flag `RxIRq` that vTaskRFID polls for. A card that answers is seen
  only if vTaskRFID's read of the flags is already on its way when the interrupt
  comes; else the poll times out, and the next one gets its chance, or times out
  in the same way. No bound on such polls follows from the code (`CardReader!Miss`).
  `xRFIDSemaphore`, which the handler gives, is never taken.
* Two cards at once: a collision is not in the error mask 0x13 and BCC is not checked, so
  the UID that is compared may be of neither card. Only its first four bytes are.
* `set_time` does not check its arguments, and loses a day if midnight comes between
  its reading of the date and its entry into initialisation mode, or between a frozen
  shadow, which vTaskAuth's reading left, and its own reading.
* vTaskAuth's reading of the clock inside vTaskCLI's undoes the latch: around midnight the
  time may be of one day and the date of another.
* Each part of a log line takes the mutex by itself, and is dropped after 10 ms.
* `print_log_entry` prints `num[4]` of which it has not written every character
  (task_cli.c:33-37).

## 4. Proofs

`FlashLogProofs`, from `FlashLogAssumption`:

* `TypeCorrect`: type invariant, together with `IndexOK` (a write in progress has
  `log_index < N`), which is what keeps the programmed address on the page.
* `Invariance`: `IInv`. The properties are not inductive alone: that the slots
  below `log_index` are written needs the controller to accept every program
  operation, which needs PER clear and CR unlocked at that step, which depends on
  where the clear is. `ControllerInv` ties the controller's bits to the program
  counters as long as nothing has raced, `KeyInv` the unlock sequence to the clear
  whatever has, `PageInv` says in every step how many slots are written (none
  between an erase and the reset, `log_index` of them otherwise, some number when
  off), `DumpInv` keeps the dump's index below `log_index`.
* `IndexAgrees` and `ProgramsSucceed` follow from it;
  `ReadsAreFaithful` and `NoEarlyErase` are action properties from it; `LossesTearOneEach` counts: a
  step of the program tears no slot, a power loss at most the one at `log_index`.
* `Refinement`: every step of `FlashLog` is a step of `AuditLog` or a stutter. The
  abstract log is the page up to its first empty slot, less the slot in work.

`SmartDoorProofs`, from `SmartDoorAssumption`:

* `TypeCorrect`, one part of the state at a time; `AuthOK` says that the entry
  in hand is the decision on the credential in hand.
* `NoCardDropped`: vTaskRFID is the only sender on `xQueueRFID`.
* `DisplayInStep`: appending and taking a character commute with counting stars
  (`StarsAppend`, `StarsTail`).
* `CardsNeverPileUp`: vTaskRFID never finds `xQueueRFID` full, if the queue has room for two
  cards and the cooldown between different cards is longer than a round of vTaskAuth, its
  delay and its work on a credential together (`AUTH_ROUND`). The code has 8 places and a
  cooldown of 500 ms, against a delay of 20 ms (task_auth.c:131) and the work of printing two
  lines and writing one record; the run has 2 places and 3 ticks against 2. The invariant
  shows more: at most one card is ever queued. `AuthPaced` bounds what vTaskAuth still sleeps,
  and `CardsSpaced` says of a queued card that the time since it was accepted and the time
  until the look that takes it are together at most a round. So the cooldown is not over while
  a card waits, and the queue is empty whenever a card is accepted.
* `Refinement`: a credential counts as accepted from its send until its record is
  written, and a result as pending from then until the display takes it. A reset maps to the
  reset of `AccessControl`, with a full log and without.

`CardReaderProofs`, from `CardReaderAssumption`:

* `TypeCorrect`.
* `Apart`: what the reader knows is less than what is true. `ms_since` may have
  wrapped, so it is at most `quiet[c]` for every card, and the cards before the
  last one have been quiet for a `CARD_NEW_COOLDOWN` more (`Behind`). Two such
  gaps are why a card comes again after twice the new-card cooldown at the least.

`TicksProofs` and `QueueProofs`, from `TicksAssumption` and `QueueAssumption`:

* `ListsSplitAtNow`: what is in the current list lies ahead of the tick count, what is in the
  overflow list behind it, so that the current list is empty at the wrap and the
  lists can be switched. `TickLooksInTime`: `xNextTaskUnblockTime` is never too late.
  `ListsCountTicks`: the lists implement `Sleepers`.
* The queue's invariant `BaseInv` has the ticks, the types, who holds which lock, and who is in
  which list. `RingIsFifo` needs besides that the place of the next item is as far ahead of the
  last one taken as there are items, and one more, modulo the length (`RingOK`). `NoWakeupIsLost`
  counts: there are no more items than receivers on their way and sends that `cTxLock`
  remembers for the unlock (`HeadOK`, `PlaceOK`). `WaitsAsLongAsAsked` and `NeverEarly` tie
  `xTicksToWait` and `xTimeOut` to the ticks since the request. `SleepsCounted` carries the
  theorem about the lists over to the queue, since every step of it is one of `Ticks` or
  leaves them alone (`TimeKept`).

`UartProofs`, from `UartAssumption`:

* `BaseInv`: where a task is says whether it holds the mutex, waits in its list or has a
  priority to spare; no task has less than its base priority.
* `NeverInverted`, `LoanEnds`, `MutexNotForgotten` follow from `LoanInv`: a priority that was
  lent comes from a task that still wants the mutex or is about to take its loan back.
* `MutexProtectsRegister` and `MutexKeepsStringsWhole` hold if nobody prints raw.

`CommandLineProofs`, from `RtcAssumption` and `CommandLineAssumption`:

* `StampsAreMoments`: half a reading that nobody overlapped keeps the shadow of DR
  frozen at the day it began (`HalfRead`).
* `DatesAreKept` and `ClocksAreSet`: what each step of `set_time` knows of the calendar
  (`SetOK`): from its first read on it has the calendar's day, unless `missed` says
  otherwise, whoever reads in between; with `BcdRoundTrip`.
* `CommandsAreTyped`: the buffer holds the typed line but for the character not yet read
  (`TypedOK`), and no NUL before its end (`BufferOK`), so that the C string that
  process_command sees is that line. `Least`, the least number of a set of
  naturals, shows that cutting spaces off is defined.

`BoardProofs`, from `PortAssumption`, `Mfrc522Assumption`, `RfidAssumption` and
`BoardAssumption`:

* `Invariance`: `BoardInv`. `ReaderInv` gives every access its place in the script and bounds
  the counters, `KeypadInv` says which columns are low at each point of the scan and what was
  seen of the present press, and `RepliesPaired` that bytes sent and replies read match.
* `RightKey` and `PressedOnce`, under the proviso that COL1 was not taken back; `Paired`
  without one; `TypeCorrect`, that no UID overflows its buffer, whatever the bus carries.
* `BusInvariance`: `Bus`, as long as no write of the chip select or the reset was undone. It says,
  access by access, that the chip makes of the bytes what the driver means by them
  (`SyncOK`), what flags are set and what the FIFO holds (`FlagsOK`, `FifoOK`, `UidOK`), and when an
  interrupt may come (`CalmOK`): in the `Window` from the second byte of the access that starts
  a sending to the end of the polling, and there only once nothing is due from a card any more
  (`SendingOK`). Then bytes do go astray, and `TameOK` says that none of them is more than the address of
  a register that does not matter or a write that takes flags away. That an
  answer after the last poll is harmless is the part of `SendingOK` about `timeout = 0`. There is a
  lemma for each kind of step (`SelectStores`, `TransmitReceiveKeeps`, `InterruptKeeps`,
  `ShiftKeeps` with one for each part of the script, `AnswerKeeps`, `DeselectKeeps`, ...).
* `DataSpared` (`InterruptSparesData`) and `WholeUid` (`UidIsWhole`) follow from it, for every UID,
  also one that does not fit (it is then not returned), every `FLOATING` and every number of
  polls. They need that `NONE` is neither a message nor a status.

Only model-checked are the liveness properties: `CommandEnds`, `PinDecided`, `CardDecided`,
`ResultShown`, `HeldCardAccepted` and `HolderFinishes`; liveness and ENABLED are beyond this
prover. Every other property of a passing run is stated by a theorem.

## 5. Not modelled

* Vendored code, some 95% of the repository's lines: CMSIS and device headers,
  startup code, the kernel's heap, timers, stream buffers and port, and of `tasks.c` and
  `queue.c` what this program does not call. The heap is used before the scheduler
  starts; the others are not used, or are definitions without a behaviour. This is why
  the map covers a small share of the repository, although it covers about 60% of the
  lines of the files of `src/Src` that are modelled, comments included.
* The LCD driver: nibbles to an I2C expander, pure output from one task, whose
  effect on the screen is in `SmartDoor`.
* The watchdog driver is not called from anywhere (README.md:121 describes it as in use).
* Peripheral initialisation: straight-line register writes before the scheduler starts,
  except `RFID_Init`, which `Rfid` has.
* Sends that wait, peeks, queue sets, notifications, deletion of tasks: not used. The context switch
  itself: `CanRun` and the interleaving of actions stand for it.
