------------------------------ MODULE FlashLog ------------------------------
(***************************************************************************)
(* Src/flash_log.c, with its two callers: vTaskAuth (priority 3) writes    *)
(* entries, vTaskCLI (priority 1) dumps and clears them.                   *)
(*                                                                         *)
(* FlashLog_Write runs in the task of the highest priority, so no other    *)
(* task runs between its steps; it is split only where a power loss leaves *)
(* a different page behind.  The CLI's commands are split at every access  *)
(* to shared state, because the Auth task may wake up at any of them.      *)
(*                                                                         *)
(* A slot holds one 16-byte LogEntry_t, two double words.  Neither word of *)
(* an entry is all ones (granted is 0 or 1, the reserved bytes are 0), so  *)
(* a written word never reads as Erased.                                   *)
(***************************************************************************)
EXTENDS Naturals, Sequences, FiniteSets

CONSTANTS
    N,          \* LOG_MAX_ENTRIES, the slots of the page
    Entries,    \* the LogEntry_t values the Auth task logs
    Erased,     \* a double word as an erase leaves it, all ones
    Junk,       \* a double word whose programming lost power half way
    Torn,       \* how AuditLog names a slot that is not one whole entry
    MaxLosses   \* bound: how often the power is lost

ASSUME FlashLogAssumption ==
    /\ N \in Nat \ {0}
    /\ MaxLosses \in Nat
    /\ Erased \notin Entries /\ Junk \notin Entries /\ Torn \notin Entries
    /\ Erased # Junk

VARIABLES
    lo, hi,     \* the page: first and second double word of every slot
    locked,     \* FLASH_CR LOCK
    keys,       \* how many keys of the two-key unlock sequence KEYR has seen
    per,        \* FLASH_CR PER: page erase mode
    err,        \* a programming error flag of FLASH_SR; the code never clears it
    log_index,  \* the next free slot, in RAM
    mode,       \* "run", "off", "format" (boot found a full page) or "fault"
    auth,       \* where FlashLog_Write is
    entry,      \* the entry it writes
    cli,        \* where the CLI's command is
    count, idx, \* cmd_dump_log's snapshot of the count and its loop index
    word,       \* what FlashLog_Read's memcpy has copied so far
    line,       \* the entry a dump printed last: its two double words
    stale,      \* ghost: the page was erased since FlashLog_Read checked its index
    losses,     \* ghost: power losses so far
    raced,      \* ghost: a write began while a clear was in progress
    cut         \* ghost: the power was lost during a page erase

page     == <<lo, hi>>
hardware == <<locked, keys, per, err>>
dump     == <<count, idx, word, line, stale>>
ghosts   == <<losses, raced, cut>>
vars     == <<page, hardware, log_index, mode, auth, entry, cli, dump, ghosts>>

Slots == 0 .. N-1
DWord == Entries \cup {Erased, Junk}
Blank == [s \in Slots |-> Erased]

Empty(s) == lo[s] = Erased /\ hi[s] = Erased
Full     == \A s \in Slots : ~Empty(s)
IsEntry(s) == lo[s] \in Entries /\ hi[s] = lo[s]

FlagsOK ==
    /\ locked \in BOOLEAN /\ per \in BOOLEAN /\ err \in BOOLEAN
    /\ stale \in BOOLEAN /\ raced \in BOOLEAN /\ cut \in BOOLEAN

StateOK ==
    /\ lo \in [Slots -> DWord] /\ hi \in [Slots -> DWord]
    /\ keys \in 0..1
    /\ log_index \in 0..N
    /\ mode \in {"run", "off", "format", "fault"}
    /\ auth \in {"idle", "erase", "lo", "hi"}
    /\ entry \in Entries
    /\ cli \in {"idle", "key2", "setPER", "start", "clearPER", "lock", "reset",
                "check", "copyLo", "copyHi"}
    /\ count \in 0..N /\ idx \in 0..N
    /\ word \in DWord /\ line \in DWord \X DWord
    /\ losses \in 0..MaxLosses

TypeOK == FlagsOK /\ StateOK

\* A board fresh from the programmer: the page is erased, and FlashLog_Init
\* has left log_index at 0 before the scheduler starts.
Init ==
    /\ lo = Blank /\ hi = Blank
    /\ locked = TRUE /\ keys = 0 /\ per = FALSE /\ err = FALSE
    /\ log_index = 0 /\ mode = "run"
    /\ auth = "idle" /\ entry \in Entries
    /\ cli = "idle" /\ count = 0 /\ idx = 0
    /\ word = Erased /\ line = <<Erased, Erased>> /\ stale = FALSE
    /\ losses = 0 /\ raced = FALSE /\ cut = FALSE

\* The locals of cmd_dump_log go out of scope.
DropLocals ==
    /\ count' = 0 /\ idx' = 0
    /\ word' = Erased /\ line' = <<Erased, Erased>> /\ stale' = FALSE

(***************************************************************************)
(* The flash controller (external: RM0351, 3.3.5 to 3.3.7).  While LOCK is *)
(* set, writes to CR do nothing.  A double word is programmed only if it   *)
(* is erased, PER is clear and no earlier error flag stands; otherwise an  *)
(* error flag is set, and stands until software clears it.                 *)
(***************************************************************************)
Programs(w, s, e) ==
    IF ~err /\ ~per /\ w[s] = Erased THEN [w EXCEPT ![s] = e] ELSE w

ProgramError(w, s) == err \/ per \/ w[s] # Erased

\* What programming word s of w with e may leave behind when power is lost.
HalfProgrammed(w, s, e) ==
    {w} \cup {Programs(w, s, x) : x \in {e, Junk}}

\* Mutant of ErasePage: PER stays set.
ErasePageKeepsPER ==
    /\ lo' = IF err THEN lo ELSE Blank
    /\ hi' = IF err THEN hi ELSE Blank
    /\ per' = TRUE
    /\ stale' = TRUE

\* flash_erase_page with CR unlocked: PER is set, the page erased and PER
\* cleared again.  A standing error flag refuses the erase.
ErasePage ==
    /\ lo' = IF err THEN lo ELSE Blank
    /\ hi' = IF err THEN hi ELSE Blank
    /\ per' = FALSE
    /\ stale' = TRUE

-----------------------------------------------------------------------------
(***************************************************************************)
(* FlashLog_Write, called by the Auth task.                                *)
(***************************************************************************)
InClear == cli \in {"key2", "setPER", "start", "clearPER", "lock", "reset"}

\* Mutant of WriteBegin: the page counts as full one slot too early.
WriteBeginEarly(e) ==
    /\ mode = "run" /\ auth = "idle"
    /\ entry' = e
    /\ raced' = (raced \/ InClear)
    /\ IF keys = 1
         THEN mode' = "fault" /\ UNCHANGED auth
         ELSE auth' = (IF log_index >= N-1 THEN "erase" ELSE "lo") /\ UNCHANGED mode
    /\ UNCHANGED <<page, hardware, log_index, cli, dump, losses, cut>>

\* The Auth task preempts the CLI and calls FlashLog_Write.  Its flash_unlock
\* presents the first key; if the CLI was interrupted between its own two
\* keys, the sequence is wrong and the controller raises a hard fault.
WriteBegin(e) ==
    /\ mode = "run" /\ auth = "idle"
    /\ entry' = e
    /\ raced' = (raced \/ InClear)
    /\ IF keys = 1
         THEN mode' = "fault" /\ UNCHANGED auth
         ELSE auth' = (IF log_index >= N THEN "erase" ELSE "lo") /\ UNCHANGED mode
    /\ UNCHANGED <<page, hardware, log_index, cli, dump, losses, cut>>

\* Mutant of WriteErase: log_index is not reset.
WriteEraseKeepsIndex ==
    /\ mode = "run" /\ auth = "erase"
    /\ ErasePage
    /\ locked' = TRUE
    /\ auth' = "lo"
    /\ UNCHANGED <<keys, err, log_index, mode, entry, cli, count, idx, word, line, ghosts>>

\* The page is full: unlock, erase, lock, start again at slot 0.
WriteErase ==
    /\ mode = "run" /\ auth = "erase"
    /\ ErasePage
    /\ locked' = TRUE
    /\ log_index' = 0
    /\ auth' = "lo"
    /\ UNCHANGED <<keys, err, mode, entry, cli, count, idx, word, line, ghosts>>

\* Unlock, and program the first double word.
WriteLo ==
    /\ mode = "run" /\ auth = "lo"
    /\ lo' = Programs(lo, log_index, entry)
    /\ err' = ProgramError(lo, log_index)
    /\ locked' = FALSE
    /\ auth' = "hi"
    /\ UNCHANGED <<hi, keys, per, log_index, mode, entry, cli, dump, ghosts>>

\* Mutant of WriteHi: the second double word goes to the address of the first.
WriteHiSameAddress ==
    /\ mode = "run" /\ auth = "hi"
    /\ err' = ProgramError(lo, log_index)
    /\ locked' = TRUE
    /\ log_index' = log_index + 1
    /\ auth' = "idle"
    /\ UNCHANGED <<page, keys, per, mode, entry, cli, dump, ghosts>>

\* Program the second double word, lock, and move on to the next slot.
WriteHi ==
    /\ mode = "run" /\ auth = "hi"
    /\ hi' = Programs(hi, log_index, entry)
    /\ err' = ProgramError(hi, log_index)
    /\ locked' = TRUE
    /\ log_index' = log_index + 1
    /\ auth' = "idle"
    /\ UNCHANGED <<lo, keys, per, mode, entry, cli, dump, ghosts>>

-----------------------------------------------------------------------------
(***************************************************************************)
(* The CLI's commands.  They run only while the Auth task sleeps.          *)
(***************************************************************************)
CliMoves(from, to) ==
    /\ mode = "run" /\ auth = "idle"
    /\ cli = from /\ cli' = to
    /\ UNCHANGED <<mode, auth, entry, ghosts>>

\* cmd_clear_log: flash_unlock writes the first key if CR is locked.
ClearKey1 ==
    /\ CliMoves("idle", IF locked THEN "key2" ELSE "setPER")
    /\ keys' = IF locked THEN 1 ELSE 0
    /\ UNCHANGED <<page, locked, per, err, log_index, dump>>

ClearKey2 ==
    /\ CliMoves("key2", "setPER")
    /\ keys' = 0 /\ locked' = FALSE
    /\ UNCHANGED <<page, per, err, log_index, dump>>

ClearSetPER ==
    /\ CliMoves("setPER", "start")
    /\ per' = (per \/ ~locked)
    /\ UNCHANGED <<page, locked, keys, err, log_index, dump>>

\* Setting STRT erases the page, in erase mode, unless CR is locked.
ClearStart ==
    /\ CliMoves("start", "clearPER")
    /\ IF ~locked /\ per /\ ~err
         THEN lo' = Blank /\ hi' = Blank
         ELSE UNCHANGED page
    /\ UNCHANGED <<hardware, log_index, dump>>

ClearClearPER ==
    /\ CliMoves("clearPER", "lock")
    /\ per' = (per /\ locked)
    /\ UNCHANGED <<page, locked, keys, err, log_index, dump>>

ClearLock ==
    /\ CliMoves("lock", "reset")
    /\ locked' = TRUE
    /\ UNCHANGED <<page, keys, per, err, log_index, dump>>

ClearReset ==
    /\ CliMoves("reset", "idle")
    /\ log_index' = 0
    /\ UNCHANGED <<page, hardware, dump>>

\* cmd_dump_log takes the count once and loops up to it.
DumpCount ==
    /\ log_index > 0
    /\ CliMoves("idle", "check")
    /\ count' = log_index /\ idx' = 0
    /\ UNCHANGED <<page, hardware, log_index, word, line, stale>>

DumpDone ==
    /\ idx = count
    /\ CliMoves("check", "idle")
    /\ DropLocals
    /\ UNCHANGED <<page, hardware, log_index>>

\* Mutants of DumpSkip: the loop goes on to i <= count, or forgets i++.
DumpSkipPastCount ==
    /\ idx <= count /\ idx >= log_index
    /\ CliMoves("check", "check")
    /\ idx' = idx + 1
    /\ UNCHANGED <<page, hardware, log_index, count, word, line, stale>>

DumpSkipNoIncrement ==
    /\ idx < count /\ idx >= log_index
    /\ CliMoves("check", "check")
    /\ UNCHANGED <<page, hardware, log_index, dump>>

\* FlashLog_Read: an index out of range returns 0 and the loop skips it.
DumpSkip ==
    /\ idx < count /\ idx >= log_index
    /\ CliMoves("check", "check")
    /\ idx' = idx + 1
    /\ UNCHANGED <<page, hardware, log_index, count, word, line, stale>>

\* Mutant of DumpCheck: the index is within the count taken at the start.
DumpCheckTrustsCount ==
    /\ idx < count
    /\ CliMoves("check", "copyLo")
    /\ stale' = FALSE
    /\ UNCHANGED <<page, hardware, log_index, count, idx, word, line>>

\* FlashLog_Read looks at log_index again for every entry.
DumpCheck ==
    /\ idx < count /\ idx < log_index
    /\ CliMoves("check", "copyLo")
    /\ stale' = FALSE
    /\ UNCHANGED <<page, hardware, log_index, count, idx, word, line>>

DumpCopyLo ==
    /\ CliMoves("copyLo", "copyHi")
    /\ word' = lo[idx]
    /\ UNCHANGED <<page, hardware, log_index, count, idx, line, stale>>

\* The copy is complete, FlashLog_Read returns 1 and the entry is printed.
DumpCopyHi ==
    /\ CliMoves("copyHi", "check")
    /\ line' = <<word, hi[idx]>>
    /\ idx' = idx + 1
    /\ UNCHANGED <<page, hardware, log_index, count, word, stale>>

-----------------------------------------------------------------------------
(***************************************************************************)
(* Power losses and boot.                                                  *)
(***************************************************************************)
Erasing ==
    \/ mode = "run" /\ auth = "erase"
    \/ mode = "run" /\ auth = "idle" /\ cli = "start" /\ ~locked /\ per
    \/ mode = "format"

\* The page that power lost now may leave behind.
PageAfterLoss ==
    \/ UNCHANGED page
    \/ mode = "run" /\ auth = "lo"
         /\ lo' \in HalfProgrammed(lo, log_index, entry) /\ UNCHANGED hi
    \/ mode = "run" /\ auth = "hi"
         /\ hi' \in HalfProgrammed(hi, log_index, entry) /\ UNCHANGED lo
    \/ Erasing /\ ~err
         /\ \E gone \in SUBSET Slots :
              /\ lo' = [s \in Slots |-> IF s \in gone THEN Erased ELSE lo[s]]
              /\ hi' = [s \in Slots |-> IF s \in gone THEN Erased ELSE hi[s]]

\* RAM and the controller's registers are gone, the page stays.
PowerLoss ==
    /\ mode # "off" /\ losses < MaxLosses
    /\ PageAfterLoss
    /\ locked' = TRUE /\ keys' = 0 /\ per' = FALSE /\ err' = FALSE
    /\ log_index' = 0 /\ mode' = "off"
    /\ auth' = "idle" /\ cli' = "idle"
    /\ losses' = losses + 1
    /\ cut' = (cut \/ (Erasing /\ page' # page))
    /\ DropLocals
    /\ UNCHANGED <<entry, raced>>

\* Mutant of Boot: the scan stops one slot too late.
BootOneLate ==
    /\ mode = "off"
    /\ \E s \in Slots :
         /\ Empty(s) /\ \A r \in 0 .. s-1 : ~Empty(r)
         /\ log_index' = s + 1
    /\ mode' = "run"
    /\ UNCHANGED <<page, hardware, auth, entry, cli, dump, ghosts>>

\* FlashLog_Init: the scan stops at the first empty slot.
Boot ==
    /\ mode = "off"
    /\ \E s \in Slots :
         /\ Empty(s) /\ \A r \in 0 .. s-1 : ~Empty(r)
         /\ log_index' = s
    /\ mode' = "run"
    /\ UNCHANGED <<page, hardware, auth, entry, cli, dump, ghosts>>

\* FlashLog_Init: no slot is empty, so the page is erased.
BootFull ==
    /\ mode = "off" /\ Full
    /\ mode' = "format"
    /\ UNCHANGED <<page, hardware, log_index, auth, entry, cli, dump, ghosts>>

BootErase ==
    /\ mode = "format"
    /\ ErasePage
    /\ locked' = TRUE /\ log_index' = 0
    /\ mode' = "run"
    /\ UNCHANGED <<keys, err, auth, entry, cli, count, idx, word, line, ghosts>>

-----------------------------------------------------------------------------
AuthStep == (\E e \in Entries : WriteBegin(e)) \/ WriteErase \/ WriteLo \/ WriteHi

ClearStep == ClearKey2 \/ ClearSetPER \/ ClearStart \/ ClearClearPER
             \/ ClearLock \/ ClearReset

DumpStep == DumpDone \/ DumpSkip \/ DumpCheck \/ DumpCopyLo \/ DumpCopyHi

CliStep == ClearKey1 \/ ClearStep \/ DumpCount \/ DumpStep

Next == AuthStep \/ CliStep \/ PowerLoss \/ Boot \/ BootFull \/ BootErase

Spec == Init /\ [][Next]_vars

\* The Auth task runs whenever it is ready.  The CLI runs while the others
\* sleep: the Auth task delays 20 ms after every write, so the CLI gets the
\* processor again and again however many writes there are.
FairSpec ==
    /\ Spec
    /\ WF_vars(WriteErase \/ WriteLo \/ WriteHi)
    /\ SF_vars(ClearStep \/ DumpStep)

-----------------------------------------------------------------------------
(***************************************************************************)
(* Properties.                                                             *)
(***************************************************************************)
\* The two events after which the code no longer keeps the log whole have
\* not happened: a write inside a clear, a power loss inside an erase.
Safe == ~raced /\ ~cut

\* Between the erase of clear_log and its reset of log_index the two disagree.
IndexStale == cli \in {"clearPER", "lock", "reset"}

\* The index in RAM agrees with the page in flash: the slots below log_index
\* are written, those above are erased, and the slot at log_index is erased
\* unless its first word has just been programmed.  It holds across wraps,
\* clears, power losses inside a write and the scan of FlashLog_Init.
LogIsPrefix ==
    Safe /\ mode = "run" /\ ~IndexStale =>
        /\ \A s \in Slots : s < log_index => ~Empty(s)
        /\ \A s \in Slots : s > log_index => Empty(s)
        /\ log_index < N =>
             IF auth = "hi" THEN lo[log_index] = entry /\ hi[log_index] = Erased
                            ELSE Empty(log_index)

\* No program operation is refused, so no entry is lost without a trace, and
\* flash_unlock and flash_lock pair up: CR is unlocked only inside an operation.
\* Whatever has raced before, a hard fault comes only from a write that falls
\* between the two keys of clear_log.
WritesSucceed ==
    /\ Safe => ~err /\ mode # "fault" /\ (~locked => auth = "hi" \/ InClear)
    /\ mode = "fault" => cli = "key2"

\* The slots that hold neither nothing nor one entry, the one being written aside.
TornSlots == {s \in Slots : ~Empty(s) /\ ~IsEntry(s) /\ ~(auth = "hi" /\ s = log_index)}

\* A power loss tears at most one record, so the page never holds more torn
\* slots than there were power losses.
TornBounded == Safe => Cardinality(TornSlots) <= losses

\* flash_log.c:151, "Returns 1 if valid": what FlashLog_Read copied is the
\* written slot at its index, whatever the Auth task appended meanwhile, and
\* also when the log started over after the dump had taken its count.  Only
\* an erase between the look at log_index and the end of the copy spoils it.
DumpIsLog ==
    [][cli = "copyHi" /\ cli' = "check" /\ Safe /\ ~stale =>
         line' = <<lo[idx], hi[idx]>> /\ ~Empty(idx)]_vars

\* Records disappear from the page only when it is full or when clear_log
\* erases it.
ErasedOnlyWhenFull ==
    [][Safe' /\ (\E s \in Slots : ~Empty(s) /\ Empty(s)') => Full \/ cli = "start"]_vars

\* A command of the CLI comes to its end, however many entries the Auth task
\* writes meanwhile.
CommandEnds == cli # "idle" ~> cli = "idle" \/ mode = "fault"

(***************************************************************************)
(* The inductive invariant behind these properties: which of its two forms *)
(* the page has at every step, and that the controller's bits belong to    *)
(* the operation in progress.                                              *)
(***************************************************************************)
\* The first n slots are written, the others erased.
Holds(n) == \A s \in Slots : IF s < n THEN ~Empty(s) ELSE Empty(s)

\* FlashLog_Write computes an address only while log_index names a slot.
IndexOK ==
    /\ auth # "idle" => mode = "run"
    /\ cli # "idle" => mode \in {"run", "fault"}
    /\ auth \in {"lo", "hi"} => log_index < N
    /\ idx <= count
    /\ cli \in {"copyLo", "copyHi"} => idx < count

ControllerInv ==
    /\ ~err /\ mode # "fault"
    /\ InClear => auth = "idle"
    /\ per <=> cli \in {"start", "clearPER"}
    /\ ~locked <=> auth = "hi" \/ cli \in {"setPER", "start", "clearPER", "lock"}

PageInv ==
    /\ mode = "run" /\ IndexStale => Holds(0)
    /\ mode = "run" /\ ~IndexStale /\ auth # "hi" => Holds(log_index)
    /\ mode = "run" /\ auth = "hi" =>
         Holds(log_index + 1) /\ lo[log_index] = entry /\ hi[log_index] = Erased
    /\ auth = "erase" => log_index = N
    /\ mode = "off" => \E n \in 0..N : Holds(n)
    /\ mode = "format" => Holds(N)

DumpInv ==
    ~stale /\ cli \in {"copyLo", "copyHi"} =>
        /\ idx < log_index
        /\ cli = "copyHi" => word = lo[idx]

\* The one part that does not depend on Safe.
KeyInv == (keys = 1 <=> cli = "key2") /\ (mode = "fault" => cli = "key2")

IInv == StateOK /\ IndexOK /\ KeyInv /\ (Safe => ControllerInv /\ PageInv /\ DumpInv)

(***************************************************************************)
(* FlashLog implements AuditLog.  The log is what lies on the page up to   *)
(* the first empty slot, less the slot a write is in the middle of.        *)
(***************************************************************************)
FirstEmpty ==
    CHOOSE n \in 0..N : (\A s \in 0 .. n-1 : ~Empty(s)) /\ (n = N \/ Empty(n))

Committed == IF auth = "hi" THEN FirstEmpty - 1 ELSE FirstEmpty

Records == [i \in 1..Committed |-> IF IsEntry(i-1) THEN lo[i-1] ELSE Torn]

Abstract == INSTANCE AuditLog WITH
    log <- Records, clearing <- cli \in {"key2", "setPER", "start"}, ok <- Safe

\* Whatever the interleaving of writes, dumps, clears, power losses and boots,
\* the page behaves as the bounded log of AuditLog while Safe holds.
ImplementsAuditLog == Abstract!Spec

(***************************************************************************)
(* What the comments of flash_log.c say of the log, each of which one of   *)
(* the runs refutes.                                                       *)
(***************************************************************************)
\* flash_log.c:11: "each address can only be written ONCE per erase cycle".
WrittenOnce ==
    /\ auth = "lo" /\ ~err => lo[log_index] = Erased
    /\ auth = "hi" /\ ~err => hi[log_index] = Erased

\* flash_log.c:79: "we survive power cuts - log continues where it left off".
ContinuesAfterPowerCut ==
    mode = "run" /\ auth = "idle" /\ ~raced /\ ~IndexStale =>
        \A s \in Slots : s >= log_index => Empty(s)
=============================================================================
