--------------------------- MODULE FlashLogProofs ---------------------------
(***************************************************************************)
(* Proofs about FlashLog, for every page size, every set of entries and    *)
(* every number of power losses.                                           *)
(***************************************************************************)
EXTENDS FlashLog, SequenceTheorems, FiniteSetTheorems, TLAPS

(***************************************************************************)
(* Type correctness.                                                       *)
(***************************************************************************)
\* The type invariant needs IndexOK: whatever clear_log did in between,
\* FlashLog_Write programs a slot of the page.
TypeInv == StateOK /\ IndexOK

\* Programming a word keeps the page a page of double words.
LEMMA ProgramsType ==
    ASSUME NEW w \in [Slots -> DWord], NEW s \in Slots, NEW e \in DWord
    PROVE  Programs(w, s, e) \in [Slots -> DWord]
BY DEF Programs

LEMMA InitTypeInv == Init => TypeInv
BY FlashLogAssumption DEF Init, TypeInv, StateOK, IndexOK, Blank, DWord

LEMMA NextTypeInv == TypeInv /\ [Next]_vars => TypeInv'
<1> SUFFICES ASSUME TypeInv, [Next]_vars PROVE TypeInv'
  OBVIOUS
<1> USE FlashLogAssumption DEF TypeInv, StateOK, IndexOK, page, hardware, dump, ghosts
<1>a. Blank \in [Slots -> DWord]
  BY DEF Blank, DWord
<1>1. ASSUME NEW e \in Entries, WriteBegin(e) PROVE TypeInv'
  BY <1>1 DEF WriteBegin
<1>2. CASE WriteErase
  BY <1>2, <1>a DEF WriteErase, ErasePage
<1>3. CASE WriteLo
  <2>1. log_index \in Slots /\ entry \in DWord
    BY <1>3 DEF WriteLo, Slots, DWord
  <2>2. lo' \in [Slots -> DWord]
    BY <1>3, <2>1, ProgramsType DEF WriteLo
  <2> QED BY <1>3, <2>2 DEF WriteLo
<1>4. CASE WriteHi
  <2>1. log_index \in Slots /\ entry \in DWord
    BY <1>4 DEF WriteHi, Slots, DWord
  <2>2. hi' \in [Slots -> DWord]
    BY <1>4, <2>1, ProgramsType DEF WriteHi
  <2> QED BY <1>4, <2>2 DEF WriteHi
<1>5. CASE ClearKey1
  BY <1>5 DEF ClearKey1, CliMoves
<1>6. CASE ClearStep
  BY <1>6, <1>a DEF ClearStep, ClearKey2, ClearSetPER, ClearStart, ClearClearPER,
                    ClearLock, ClearReset, CliMoves
<1>7. CASE DumpCount
  BY <1>7 DEF DumpCount, CliMoves
<1>8. CASE DumpStep
  <2>1. CASE DumpDone
    BY <2>1 DEF DumpDone, DropLocals, CliMoves, DWord
  <2>2. CASE DumpSkip
    BY <2>2 DEF DumpSkip, CliMoves
  <2>3. CASE DumpCheck
    BY <2>3 DEF DumpCheck, CliMoves
  <2>4. CASE DumpCopyLo
    <3>1. idx \in Slots
      BY <2>4 DEF DumpCopyLo, CliMoves, Slots
    <3> QED BY <2>4, <3>1 DEF DumpCopyLo, CliMoves
  <2>5. CASE DumpCopyHi
    <3>1. idx \in Slots
      BY <2>5 DEF DumpCopyHi, CliMoves, Slots
    <3> QED BY <2>5, <3>1 DEF DumpCopyHi, CliMoves
  <2> QED BY <1>8, <2>1, <2>2, <2>3, <2>4, <2>5 DEF DumpStep
<1>9. CASE PowerLoss
  <2>1. lo' \in [Slots -> DWord] /\ hi' \in [Slots -> DWord]
    <3>1. ASSUME NEW w \in [Slots -> DWord], auth \in {"lo", "hi"},
                 NEW v \in HalfProgrammed(w, log_index, entry)
          PROVE  v \in [Slots -> DWord]
      <4>1. log_index \in Slots /\ entry \in DWord /\ Junk \in DWord
        BY <3>1 DEF Slots, DWord
      <4> QED BY <3>1, <4>1, ProgramsType DEF HalfProgrammed
    <3>2. Erased \in DWord
      BY DEF DWord
    <3> QED BY <1>9, <3>1, <3>2 DEF PowerLoss, PageAfterLoss
  <2> QED BY <1>9, <2>1 DEF PowerLoss, DropLocals, DWord
<1>10. CASE Boot
  BY <1>10 DEF Boot, Slots
<1>11. CASE BootFull
  BY <1>11 DEF BootFull
<1>12. CASE BootErase
  BY <1>12, <1>a DEF BootErase, ErasePage
<1>13. CASE UNCHANGED vars
  BY <1>13 DEF vars
<1> QED
  BY <1>1, <1>2, <1>3, <1>4, <1>5, <1>6, <1>7, <1>8, <1>9, <1>10, <1>11, <1>12, <1>13
  DEF Next, AuthStep, CliStep

LEMMA InitFlagsOK == Init => FlagsOK
BY DEF Init, FlagsOK

LEMMA NextFlagsOK == FlagsOK /\ [Next]_vars => FlagsOK'
BY DEF FlagsOK, Next, AuthStep, CliStep, ClearStep, DumpStep, vars, page, hardware, dump,
       ghosts, WriteBegin, WriteErase, WriteLo, WriteHi, ErasePage, ProgramError, CliMoves,
       ClearKey1, ClearKey2, ClearSetPER, ClearStart, ClearClearPER, ClearLock, ClearReset,
       DumpCount, DumpDone, DumpSkip, DumpCheck, DumpCopyLo, DumpCopyHi, DropLocals,
       PowerLoss, Boot, BootFull, BootErase

\* FlashLog_Write, FlashLog_Read and FlashLog_Init never leave their types;
\* in particular log_index never passes the end of the page.
THEOREM TypeCorrect == Spec => []TypeOK
<1>1. TypeInv /\ FlagsOK => TypeOK
  BY DEF TypeInv, TypeOK
<1> QED
  BY <1>1, InitTypeInv, NextTypeInv, InitFlagsOK, NextFlagsOK, PTL DEF Spec

(***************************************************************************)
(* The inductive invariant.                                                *)
(***************************************************************************)
SafeInv == ControllerInv /\ PageInv /\ DumpInv

\* Once a write has raced a clear or an erase has been cut, Safe is lost for
\* good; so a step that ends safe also began safe.
LEMMA SafeBefore == [Next]_vars /\ Safe' => Safe
<1> SUFFICES ASSUME [Next]_vars, Safe' PROVE Safe
  OBVIOUS
<1> USE DEF Safe, ghosts
<1>1. CASE AuthStep
  <2>1. ASSUME NEW e \in Entries, WriteBegin(e) PROVE Safe
    BY <2>1 DEF WriteBegin
  <2>2. CASE WriteErase \/ WriteLo \/ WriteHi
    BY <2>2 DEF WriteErase, WriteLo, WriteHi
  <2> QED BY <1>1, <2>1, <2>2 DEF AuthStep
<1>2. CASE CliStep
  <2>1. UNCHANGED ghosts
    BY <1>2, Zenon DEF CliStep, ClearStep, DumpStep, CliMoves, ClearKey1, ClearKey2, ClearSetPER,
            ClearStart, ClearClearPER, ClearLock, ClearReset,
            DumpCount, DumpDone, DumpSkip, DumpCheck, DumpCopyLo, DumpCopyHi
  <2> QED BY <2>1
<1>3. CASE PowerLoss
  BY <1>3 DEF PowerLoss
<1>4. CASE Boot \/ BootFull \/ BootErase
  BY <1>4 DEF Boot, BootFull, BootErase
<1>5. CASE UNCHANGED vars
  BY <1>5 DEF vars
<1> QED BY <1>1, <1>2, <1>3, <1>4, <1>5 DEF Next

LEMMA InitSafeInv == Init => SafeInv
<1> SUFFICES ASSUME Init PROVE SafeInv
  OBVIOUS
<1>1. ControllerInv
  BY DEF Init, ControllerInv, InClear
<1>2. PageInv
  BY DEF Init, PageInv, Holds, Empty, Blank, Slots, IndexStale
<1>3. DumpInv
  BY DEF Init, DumpInv
<1> QED BY <1>1, <1>2, <1>3 DEF SafeInv

\* A write that does not race, and every step of a clear, leaves the control
\* bits as the step of the clear that is due next needs them.
LEMMA NextControllerInv ==
    ASSUME TypeInv, KeyInv, SafeInv, Safe', [Next]_vars
    PROVE  ControllerInv'
<1> USE DEF TypeInv, StateOK, IndexOK, KeyInv, SafeInv, ControllerInv, InClear, hardware, dump, page
<1>1. ASSUME NEW e \in Entries, WriteBegin(e) PROVE ControllerInv'
  BY <1>1 DEF WriteBegin, Safe
<1>2. CASE WriteErase
  BY <1>2 DEF WriteErase, ErasePage
<1>3. CASE WriteLo
  <2>1. log_index \in Slots /\ Holds(log_index)
    BY <1>3, FlashLogAssumption DEF WriteLo, PageInv, IndexStale, Slots
  <2>2. lo[log_index] = Erased
    BY <2>1 DEF Holds, Empty, Slots
  <2>3. ~err'
    BY <1>3, <2>2 DEF WriteLo, ProgramError
  <2> QED BY <1>3, <2>3 DEF WriteLo
<1>4. CASE WriteHi
  BY <1>4 DEF WriteHi, ProgramError, PageInv
<1>5. CASE ClearKey1
  BY <1>5 DEF ClearKey1, CliMoves
<1>6. CASE ClearStep
  <2>1. CASE ClearKey2
    BY <2>1 DEF ClearKey2, CliMoves
  <2>2. CASE ClearSetPER
    BY <2>2 DEF ClearSetPER, CliMoves
  <2>3. CASE ClearStart
    BY <2>3 DEF ClearStart, CliMoves
  <2>4. CASE ClearClearPER
    BY <2>4 DEF ClearClearPER, CliMoves
  <2>5. CASE ClearLock
    BY <2>5 DEF ClearLock, CliMoves
  <2>6. CASE ClearReset
    BY <2>6 DEF ClearReset, CliMoves
  <2> QED BY <1>6, <2>1, <2>2, <2>3, <2>4, <2>5, <2>6 DEF ClearStep
<1>7. CASE DumpCount \/ DumpStep
  BY <1>7 DEF DumpCount, DumpStep, DumpDone, DumpSkip, DumpCheck, DumpCopyLo, DumpCopyHi,
              CliMoves
<1>8. CASE PowerLoss
  BY <1>8 DEF PowerLoss
<1>9. CASE Boot \/ BootFull \/ BootErase
  BY <1>9 DEF Boot, BootFull, BootErase, ErasePage
<1>10. CASE UNCHANGED vars
  BY <1>10 DEF vars
<1> QED
  BY <1>1, <1>2, <1>3, <1>4, <1>5, <1>6, <1>7, <1>8, <1>9, <1>10
  DEF Next, AuthStep, CliStep

\* While the page is full up to log_index, no clear is under way and no slot is
\* half written, the next slot is erased and within the page.
LEMMA WriteSlot ==
    ASSUME TypeInv, SafeInv, auth = "lo"
    PROVE  mode = "run" /\ ~InClear /\ log_index \in Slots /\ Holds(log_index)
BY FlashLogAssumption
   DEF TypeInv, StateOK, IndexOK, SafeInv, ControllerInv, PageInv, InClear, IndexStale, Slots

\* Programming one word of the first erased slot makes it the last written one.
LEMMA HoldsMore ==
    ASSUME TypeInv, NEW n \in Slots, Holds(n), NEW x \in Entries \cup {Junk},
           lo' = [lo EXCEPT ![n] = x], hi' = hi
    PROVE  (\A s \in Slots : IF s < n + 1 THEN ~Empty(s)' ELSE Empty(s)')
BY FlashLogAssumption DEF TypeInv, StateOK, Holds, Empty, Slots

LEMMA NextPageInv ==
    ASSUME TypeInv, KeyInv, SafeInv, Safe, Safe', [Next]_vars
    PROVE  PageInv'
<1> USE DEF TypeInv, StateOK, IndexOK, SafeInv, InClear, IndexStale
<1>1. ASSUME NEW e \in Entries, WriteBegin(e) PROVE PageInv'
  <2>1. ~InClear /\ keys # 1
    BY <1>1 DEF WriteBegin, Safe, KeyInv
  <2>2. mode = "run" /\ mode' = "run" /\ Holds(log_index) /\ cli' = cli /\ UNCHANGED <<lo, hi, log_index>>
    BY <1>1, <2>1 DEF WriteBegin, PageInv, page
  <2>3. auth' \in {"erase", "lo"} /\ (auth' = "erase" => log_index = N)
    BY <1>1, <2>1, FlashLogAssumption DEF WriteBegin
  <2>4. Holds(log_index)'
    BY <2>2 DEF Holds, Empty
  <2> QED BY <2>1, <2>2, <2>3, <2>4 DEF PageInv
<1>2. CASE WriteErase
  <2>1. lo' = Blank /\ hi' = Blank
    BY <1>2 DEF WriteErase, ErasePage, ControllerInv
  <2>2. auth' = "lo" /\ mode' = "run" /\ cli' = cli /\ log_index' = 0
    BY <1>2 DEF WriteErase
  <2> QED BY <2>1, <2>2 DEF PageInv, Holds, Empty, Blank, Slots
<1>3. CASE WriteLo
  <2>1. log_index \in Slots /\ Holds(log_index) /\ mode = "run" /\ ~InClear
    BY <1>3, WriteSlot DEF WriteLo
  <2>2. lo[log_index] = Erased /\ hi[log_index] = Erased /\ ~err /\ ~per
    BY <2>1 DEF Holds, Empty, Slots, ControllerInv
  <2>3. lo' = [lo EXCEPT ![log_index] = entry] /\ hi' = hi
    BY <1>3, <2>2 DEF WriteLo, Programs
  <2>4. Holds(log_index + 1)'
    BY <1>3, <2>1, <2>3, HoldsMore DEF WriteLo, Holds
  <2>5. lo'[log_index] = entry /\ hi'[log_index] = Erased
    BY <2>1, <2>2, <2>3
  <2> QED BY <1>3, <2>1, <2>4, <2>5 DEF WriteLo, PageInv
<1>4. CASE WriteHi
  <2>1. ~InClear /\ mode = "run" /\ Holds(log_index + 1) /\ lo[log_index] = entry
    BY <1>4 DEF WriteHi, ControllerInv, PageInv
  <2>2. log_index \in Slots
    BY <1>4, FlashLogAssumption DEF WriteHi, Slots
  <2>3. lo' = lo /\ \A s \in Slots : s # log_index => hi'[s] = hi[s]
    BY <1>4, <2>2 DEF WriteHi, Programs
  <2>4. lo[log_index] # Erased
    BY <2>1, FlashLogAssumption
  <2>5. log_index' = log_index + 1 /\ auth' = "idle" /\ mode' = "run" /\ cli' = cli
    BY <1>4 DEF WriteHi
  <2>6. Holds(log_index)'
    BY <2>1, <2>2, <2>3, <2>4, <2>5 DEF Holds, Empty, Slots
  <2> QED BY <2>1, <2>5, <2>6 DEF PageInv
<1>5. CASE ClearKey1
  BY <1>5 DEF ClearKey1, CliMoves, PageInv, Holds, Empty, page
<1>6. CASE ClearStep
  <2>1. CASE ClearKey2 \/ ClearSetPER
    BY <2>1 DEF ClearKey2, ClearSetPER, CliMoves, PageInv, Holds, Empty, page
  <2>2. CASE ClearStart
    <3>1. lo' = Blank /\ hi' = Blank
      BY <2>2 DEF ClearStart, CliMoves, ControllerInv
    <3> QED BY <2>2, <3>1 DEF ClearStart, CliMoves, PageInv, Holds, Empty, Blank, Slots
  <2>3. CASE ClearClearPER \/ ClearLock
    BY <2>3 DEF ClearClearPER, ClearLock, CliMoves, PageInv, Holds, Empty, page
  <2>4. CASE ClearReset
    BY <2>4 DEF ClearReset, CliMoves, PageInv, Holds, Empty, page
  <2> QED BY <1>6, <2>1, <2>2, <2>3, <2>4 DEF ClearStep
<1>7. CASE DumpCount \/ DumpStep
  BY <1>7 DEF DumpCount, DumpStep, DumpDone, DumpSkip, DumpCheck, DumpCopyLo, DumpCopyHi,
              CliMoves, PageInv, Holds, Empty, page
<1>8. CASE PowerLoss
  <2> SUFFICES \E n \in 0..N : \A s \in Slots : IF s < n THEN ~Empty(s)' ELSE Empty(s)'
    BY <1>8 DEF PowerLoss, PageInv, Holds
  <2>1. CASE UNCHANGED page
    <3>1. \E n \in 0..N : Holds(n)
      BY <1>8, FlashLogAssumption DEF PowerLoss, PageInv, ControllerInv
    <3> QED BY <2>1, <3>1 DEF Holds, Empty, page
  <2>2. CASE ~Erasing /\ auth = "lo" /\ lo' \in HalfProgrammed(lo, log_index, entry) /\ hi' = hi
    <3>1. log_index \in Slots /\ Holds(log_index) /\ ~InClear
      BY <2>2, WriteSlot
    <3>2. PICK x \in {entry, Junk} : lo' = lo \/ lo' = [lo EXCEPT ![log_index] = x]
      BY <2>2 DEF HalfProgrammed, Programs
    <3>3. CASE lo' = lo
      BY <2>1, <2>2, <3>3 DEF page
    <3>4. CASE lo' = [lo EXCEPT ![log_index] = x]
      <4>1. log_index + 1 \in 0..N
        BY <3>1, FlashLogAssumption DEF Slots
      <4> QED BY <2>2, <3>1, <3>4, <4>1, HoldsMore
    <3> QED BY <3>2, <3>3, <3>4
  <2>3. CASE ~Erasing /\ auth = "hi" /\ hi' \in HalfProgrammed(hi, log_index, entry) /\ lo' = lo
    <3>1. log_index \in Slots /\ log_index + 1 \in 0..N
      BY <2>3, FlashLogAssumption DEF Slots
    <3>2. Holds(log_index + 1) /\ lo[log_index] = entry
      BY <2>3 DEF PageInv
    <3>3. PICK x \in {entry, Junk} : hi' = hi \/ hi' = [hi EXCEPT ![log_index] = x]
      BY <2>3 DEF HalfProgrammed, Programs
    <3>4. \A s \in Slots : IF s < log_index + 1 THEN ~Empty(s)' ELSE Empty(s)'
      BY <2>3, <3>1, <3>2, <3>3, FlashLogAssumption DEF Holds, Empty, Slots
    <3> QED BY <3>1, <3>4
  <2>4. page' = page \/ ~Erasing
    BY <1>8 DEF PowerLoss, Safe
  <2> QED BY <1>8, <2>1, <2>2, <2>3, <2>4 DEF PowerLoss, PageAfterLoss, Erasing, page
<1>9. CASE Boot
  <2>1. PICK n \in 0..N : Holds(n)
    BY <1>9 DEF Boot, PageInv
  <2>2. log_index' = n /\ auth = "idle" /\ cli = "idle"
    BY <1>9, <2>1, FlashLogAssumption DEF Boot, Holds, Slots
  <2> QED BY <1>9, <2>1, <2>2 DEF Boot, PageInv, Holds, Empty, page
<1>10. CASE BootFull
  BY <1>10, FlashLogAssumption DEF BootFull, Full, PageInv, Holds, Empty, page, Slots
<1>11. CASE BootErase
  <2>1. lo' = Blank /\ hi' = Blank
    BY <1>11 DEF BootErase, ErasePage, ControllerInv
  <2> QED BY <1>11, <2>1 DEF BootErase, PageInv, Holds, Empty, Blank, Slots
<1>12. CASE UNCHANGED vars
  BY <1>12 DEF vars, PageInv, Holds, Empty, page
<1> QED
  BY <1>1, <1>2, <1>3, <1>4, <1>5, <1>6, <1>7, <1>8, <1>9, <1>10, <1>11, <1>12
  DEF Next, AuthStep, CliStep

\* A write changes no word of a slot below log_index, and FlashLog_Read reads
\* only those until the page is erased.
LEMMA NextDumpInv ==
    ASSUME TypeInv, SafeInv, Safe, Safe', [Next]_vars
    PROVE  DumpInv'
<1> USE FlashLogAssumption DEF TypeInv, StateOK, IndexOK, SafeInv, DumpInv, dump, page
<1>1. ASSUME NEW e \in Entries, WriteBegin(e) PROVE DumpInv'
  BY <1>1 DEF WriteBegin
<1>2. CASE WriteErase
  BY <1>2 DEF WriteErase, ErasePage
<1>3. CASE WriteLo
  <2>1. log_index \in Slots /\ \A s \in Slots : s < log_index => lo'[s] = lo[s]
    BY <1>3 DEF WriteLo, Programs, Slots
  <2> QED BY <1>3, <2>1 DEF WriteLo, Slots
<1>4. CASE WriteHi
  <2>1. log_index \in Slots /\ \A s \in Slots : s < log_index => hi'[s] = hi[s]
    BY <1>4 DEF WriteHi, Programs, Slots
  <2> QED BY <1>4, <2>1 DEF WriteHi, Slots
<1>5. CASE ClearKey1
  BY <1>5 DEF ClearKey1, CliMoves
<1>6. CASE ClearStep
  BY <1>6 DEF ClearStep, ClearKey2, ClearSetPER, ClearStart, ClearClearPER,
              ClearLock, ClearReset, CliMoves
<1>7. CASE DumpCount
  BY <1>7 DEF DumpCount, CliMoves
<1>8. CASE DumpDone \/ DumpSkip
  BY <1>8 DEF DumpDone, DumpSkip, CliMoves
<1>9. CASE DumpCheck \/ DumpCopyLo
  BY <1>9 DEF DumpCheck, DumpCopyLo, CliMoves
<1>10. CASE DumpCopyHi
  BY <1>10 DEF DumpCopyHi, CliMoves
<1>11. CASE PowerLoss
  BY <1>11 DEF PowerLoss
<1>12. CASE Boot \/ BootFull \/ BootErase
  BY <1>12 DEF Boot, BootFull, BootErase, ErasePage
<1>13. CASE UNCHANGED vars
  BY <1>13 DEF vars
<1> QED
  BY <1>1, <1>2, <1>3, <1>4, <1>5, <1>6, <1>7, <1>8, <1>9, <1>10, <1>11, <1>12, <1>13
  DEF Next, AuthStep, CliStep, DumpStep

\* KEYR has seen one key only between the two keys of clear_log, and a write
\* that begins there is the only way to a hard fault.
LEMMA NextKeyInv == KeyInv /\ [Next]_vars => KeyInv'
<1> SUFFICES ASSUME KeyInv, [Next]_vars PROVE KeyInv'
  OBVIOUS
<1> USE DEF KeyInv, hardware
<1>1. ASSUME NEW e \in Entries, WriteBegin(e) PROVE KeyInv'
  BY <1>1 DEF WriteBegin
<1>2. CASE WriteErase \/ WriteLo \/ WriteHi
  BY <1>2 DEF WriteErase, WriteLo, WriteHi
<1>3. CASE ClearKey1
  BY <1>3 DEF ClearKey1, CliMoves
<1>4. CASE ClearStep
  BY <1>4 DEF ClearStep, ClearKey2, ClearSetPER, ClearStart, ClearClearPER, ClearLock,
              ClearReset, CliMoves
<1>5. CASE DumpCount \/ DumpStep
  BY <1>5 DEF DumpCount, DumpStep, DumpDone, DumpSkip, DumpCheck, DumpCopyLo, DumpCopyHi,
              CliMoves
<1>6. CASE PowerLoss
  BY <1>6 DEF PowerLoss
<1>7. CASE Boot \/ BootFull \/ BootErase
  BY <1>7 DEF Boot, BootFull, BootErase
<1>8. CASE UNCHANGED vars
  BY <1>8 DEF vars
<1> QED
  BY <1>1, <1>2, <1>3, <1>4, <1>5, <1>6, <1>7, <1>8 DEF Next, AuthStep, CliStep

LEMMA InitIInv == Init => IInv
<1>1. Init => KeyInv
  BY DEF Init, KeyInv
<1> QED BY <1>1, InitTypeInv, InitSafeInv DEF TypeInv, SafeInv, IInv

LEMMA NextIInv == IInv /\ [Next]_vars => IInv'
<1> SUFFICES ASSUME IInv, [Next]_vars PROVE IInv'
  OBVIOUS
<1>1. TypeInv /\ TypeInv'
  BY NextTypeInv DEF IInv, TypeInv
<1>2. ASSUME Safe' PROVE SafeInv'
  <2>1. Safe /\ KeyInv /\ SafeInv
    BY <1>2, SafeBefore DEF IInv, SafeInv
  <2> QED
    BY <1>1, <1>2, <2>1, NextControllerInv, NextPageInv, NextDumpInv DEF SafeInv
<1>3. KeyInv'
  BY NextKeyInv DEF IInv
<1> QED BY <1>1, <1>2, <1>3 DEF IInv, TypeInv, SafeInv

\* The inductive invariant of FlashLog.
THEOREM Invariance == Spec => []IInv
BY InitIInv, NextIInv, PTL DEF Spec

\* Until a write races a clear or an erase is cut, log_index agrees with the
\* page at every step of FlashLog_Write, FlashLog_Init and FlashLog_Clear.
THEOREM IndexAgrees == Spec => []LogIsPrefix
<1>1. IInv => LogIsPrefix
  <2> SUFFICES ASSUME IInv, Safe, mode = "run", ~IndexStale
               PROVE  /\ \A s \in Slots : s < log_index => ~Empty(s)
                      /\ \A s \in Slots : s > log_index => Empty(s)
                      /\ log_index < N =>
                           IF auth = "hi" THEN lo[log_index] = entry /\ hi[log_index] = Erased
                                          ELSE Empty(log_index)
    BY DEF LogIsPrefix
  <2> USE FlashLogAssumption DEF IInv, PageInv, StateOK, Slots
  <2>1. CASE auth = "hi"
    BY <2>1 DEF Holds
  <2>2. CASE auth # "hi"
    BY <2>2 DEF Holds
  <2> QED BY <2>1, <2>2
<1> QED BY <1>1, Invariance, PTL

\* In the same runs the controller refuses no program operation, no hard fault
\* occurs, and CR is unlocked only inside a write or a clear.  In every run a
\* hard fault comes from a write between the two keys of a clear.
THEOREM ProgramsSucceed == Spec => []WritesSucceed
<1>1. IInv => WritesSucceed
  BY DEF IInv, WritesSucceed, ControllerInv, KeyInv, InClear
<1> QED BY <1>1, Invariance, PTL

\* In the same runs FlashLog_Read returns the written slot at its index, whatever
\* the Auth task appended during the copy and however old the count of the dump.
THEOREM ReadsAreFaithful == Spec => DumpIsLog
<1>1. IInv /\ [Next]_vars =>
        [cli = "copyHi" /\ cli' = "check" /\ Safe /\ ~stale =>
           line' = <<lo[idx], hi[idx]>> /\ ~Empty(idx)]_vars
  <2> SUFFICES ASSUME IInv, [Next]_vars, cli = "copyHi", cli' = "check", Safe, ~stale
               PROVE  line' = <<lo[idx], hi[idx]>> /\ ~Empty(idx)
    OBVIOUS
  <2>1. DumpCopyHi
    <3>1. CASE AuthStep
      BY <3>1 DEF AuthStep, WriteBegin, WriteErase, WriteLo, WriteHi
    <3>2. CASE PowerLoss
      BY <3>2 DEF PowerLoss
    <3>3. CASE Boot \/ BootFull \/ BootErase \/ UNCHANGED vars
      BY <3>3 DEF Boot, BootFull, BootErase, vars
    <3>4. CASE CliStep
      BY <3>4 DEF CliStep, ClearKey1, ClearStep, ClearKey2, ClearSetPER, ClearStart,
                  ClearClearPER, ClearLock, ClearReset, DumpCount, DumpStep, DumpDone,
                  DumpSkip, DumpCheck, DumpCopyLo, CliMoves
    <3> QED BY <3>1, <3>2, <3>3, <3>4 DEF Next
  <2>2. mode = "run" /\ auth = "idle" /\ line' = <<word, hi[idx]>>
    BY <2>1 DEF DumpCopyHi, CliMoves
  <2>3. word = lo[idx] /\ idx < log_index /\ Holds(log_index)
    BY <2>2 DEF IInv, DumpInv, PageInv, IndexStale
  <2>4. idx \in Slots
    BY <2>3, FlashLogAssumption DEF IInv, StateOK, Slots
  <2> QED BY <2>2, <2>3, <2>4 DEF Holds
<1> QED BY <1>1, Invariance, PTL DEF Spec, DumpIsLog

(***************************************************************************)
(* How many records power losses can tear.                                 *)
(***************************************************************************)
LEMMA TornFinite == IsFiniteSet(TornSlots) /\ Cardinality(TornSlots) \in Nat
<1>1. IsFiniteSet(Slots)
  BY FlashLogAssumption, FS_Interval DEF Slots
<1>2. TornSlots \in SUBSET Slots
  BY DEF TornSlots
<1> QED BY <1>1, <1>2, FS_Subset, FS_CardinalityType

LEMMA TornFiniteNext == (IsFiniteSet(TornSlots) /\ Cardinality(TornSlots) \in Nat)'
BY TornFinite, PTL

\* A step of the program tears no slot; an erase may mend some.
LEMMA NoNewTorn ==
    IInv /\ IInv' /\ Safe /\ Safe' /\ [Next]_vars /\ ~PowerLoss => TornSlots' \subseteq TornSlots
<1> SUFFICES ASSUME IInv, IInv', Safe, Safe', [Next]_vars, ~PowerLoss,
                    NEW s \in Slots, ~Empty(s)', ~IsEntry(s)',
                    ~(auth' = "hi" /\ s = log_index')
             PROVE  ~Empty(s) /\ ~IsEntry(s) /\ ~(auth = "hi" /\ s = log_index)
  BY DEF TornSlots
<1>0. StateOK /\ IndexOK /\ ControllerInv /\ PageInv
  BY DEF IInv
<1>a. ASSUME UNCHANGED page, auth = "idle" \/ UNCHANGED <<auth, log_index>>
      PROVE  ~Empty(s) /\ ~IsEntry(s) /\ ~(auth = "hi" /\ s = log_index)
  BY <1>a DEF page, Empty, IsEntry
<1>b. ASSUME ErasePage PROVE FALSE
  BY <1>0, <1>b DEF ErasePage, ControllerInv, Blank, Empty
<1>1. ASSUME NEW e \in Entries, WriteBegin(e)
      PROVE  ~Empty(s) /\ ~IsEntry(s) /\ ~(auth = "hi" /\ s = log_index)
  BY <1>a, <1>1 DEF WriteBegin
<1>2. CASE WriteErase \/ BootErase
  BY <1>2, <1>b DEF WriteErase, BootErase
<1>3. CASE WriteLo
  <2>1. s # log_index /\ auth = "lo"
    BY <1>3 DEF WriteLo
  <2>2. lo'[s] = lo[s] /\ hi'[s] = hi[s]
    BY <1>0, <1>3, <2>1 DEF WriteLo, Programs, StateOK
  <2> QED BY <2>1, <2>2 DEF Empty, IsEntry
<1>4. CASE WriteHi
  <2>1. auth = "hi" /\ hi' = Programs(hi, log_index, entry) /\ lo' = lo /\ mode = "run"
    BY <1>4 DEF WriteHi
  <2>2. CASE s = log_index
    <3>1. lo[s] = entry /\ hi[s] = Erased /\ ~err /\ ~per /\ entry \in Entries
      BY <1>0, <2>1, <2>2 DEF PageInv, ControllerInv, StateOK, InClear
    <3>2. hi'[s] = entry
      BY <1>0, <2>1, <2>2, <3>1 DEF Programs, StateOK
    <3> QED BY <2>1, <3>1, <3>2 DEF IsEntry
  <2>3. CASE s # log_index
    <3>1. hi'[s] = hi[s]
      BY <1>0, <2>1, <2>3 DEF Programs, StateOK
    <3> QED BY <2>1, <2>3, <3>1 DEF Empty, IsEntry
  <2> QED BY <2>2, <2>3
<1>5. CASE ClearStart
  <2>1. CASE UNCHANGED page
    BY <1>5, <1>a, <2>1 DEF ClearStart, CliMoves
  <2>2. CASE lo' = Blank /\ hi' = Blank
    BY <2>2 DEF Blank, Empty
  <2> QED BY <1>5, <2>1, <2>2 DEF ClearStart
<1>6. CASE ClearKey1 \/ ClearKey2 \/ ClearSetPER \/ ClearClearPER \/ ClearLock \/ ClearReset
  BY <1>6, <1>a
  DEF ClearKey1, ClearKey2, ClearSetPER, ClearClearPER, ClearLock, ClearReset, CliMoves
<1>7. CASE DumpCount \/ DumpStep
  BY <1>7, <1>a
  DEF DumpCount, DumpStep, DumpDone, DumpSkip, DumpCheck, DumpCopyLo, DumpCopyHi, CliMoves
<1>8. CASE Boot \/ BootFull
  <2>1. auth = "idle"
    BY <1>0, <1>8 DEF Boot, BootFull, IndexOK
  <2> QED BY <1>8, <1>a, <2>1 DEF Boot, BootFull
<1>9. CASE UNCHANGED vars
  BY <1>9, <1>a DEF vars
<1> QED
  BY <1>1, <1>2, <1>3, <1>4, <1>5, <1>6, <1>7, <1>8, <1>9
  DEF Next, AuthStep, CliStep, ClearStep

\* A power loss tears at most the slot that is being written.
LEMMA OneNewTorn ==
    IInv /\ Safe /\ Safe' /\ PowerLoss => TornSlots' \subseteq TornSlots \cup {log_index}
<1> SUFFICES ASSUME IInv, Safe, Safe', PowerLoss,
                    NEW s \in Slots, ~Empty(s)', ~IsEntry(s)', s # log_index
             PROVE  ~Empty(s) /\ ~IsEntry(s)
  BY DEF TornSlots
<1>0. StateOK /\ PageAfterLoss
  BY DEF IInv, PowerLoss
<1>1. lo'[s] = lo[s] /\ hi'[s] = hi[s]
  <2>1. CASE UNCHANGED page
    BY <2>1 DEF page
  <2>2. CASE lo' \in HalfProgrammed(lo, log_index, entry) /\ UNCHANGED hi
    BY <1>0, <2>2 DEF HalfProgrammed, Programs, StateOK
  <2>3. CASE hi' \in HalfProgrammed(hi, log_index, entry) /\ UNCHANGED lo
    BY <1>0, <2>3 DEF HalfProgrammed, Programs, StateOK
  <2>4. CASE Erasing
    <3>1. UNCHANGED page
      BY <2>4 DEF PowerLoss, Safe
    <3> QED BY <3>1 DEF page
  <2> QED BY <1>0, <2>1, <2>2, <2>3, <2>4 DEF PageAfterLoss
<1> QED BY <1>1 DEF Empty, IsEntry

\* Each power loss costs at most one record.
THEOREM LossesTearOneEach == Spec => []TornBounded
<1>1. Init => TornBounded
  <2> SUFFICES ASSUME Init PROVE Cardinality(TornSlots) = 0 /\ losses = 0
    BY DEF TornBounded
  <2>1. TornSlots = {}
    BY DEF Init, TornSlots, Empty, Blank
  <2> QED BY <2>1, FS_EmptySet DEF Init
<1>2. IInv /\ IInv' /\ TornBounded /\ [Next]_vars => TornBounded'
  <2> SUFFICES ASSUME IInv, IInv', TornBounded, [Next]_vars, Safe'
               PROVE  Cardinality(TornSlots') <= losses'
    BY DEF TornBounded
  <2>1. Safe /\ Cardinality(TornSlots) <= losses /\ losses \in Nat
    BY SafeBefore, FlashLogAssumption DEF TornBounded, IInv, StateOK
  <2>2. IsFiniteSet(TornSlots') /\ Cardinality(TornSlots') \in Nat
    BY TornFiniteNext
  <2>3. CASE PowerLoss
    <3>1. TornSlots' \in SUBSET (TornSlots \cup {log_index})
      BY <2>1, <2>3, OneNewTorn
    <3>2. /\ IsFiniteSet(TornSlots \cup {log_index})
          /\ Cardinality(TornSlots \cup {log_index}) <= Cardinality(TornSlots) + 1
      BY TornFinite, FS_AddElement
    <3>3. /\ Cardinality(TornSlots') <= Cardinality(TornSlots \cup {log_index})
          /\ Cardinality(TornSlots \cup {log_index}) \in Nat
      BY <3>1, <3>2, FS_Subset, FS_CardinalityType
    <3>4. losses' = losses + 1
      BY <2>3 DEF PowerLoss
    <3> QED BY <2>1, <2>2, <3>2, <3>3, <3>4, TornFinite
  <2>4. CASE ~PowerLoss
    <3>1. TornSlots' \in SUBSET TornSlots
      BY <2>1, <2>4, NoNewTorn
    <3>2. Cardinality(TornSlots') <= Cardinality(TornSlots)
      BY <3>1, TornFinite, FS_Subset
    <3>3. losses' = losses
      BY <2>4
      DEF Next, AuthStep, CliStep, ClearStep, DumpStep, WriteBegin, WriteErase, WriteLo,
          WriteHi, ClearKey1, ClearKey2, ClearSetPER, ClearStart, ClearClearPER, ClearLock,
          ClearReset, DumpCount, DumpDone, DumpSkip, DumpCheck, DumpCopyLo, DumpCopyHi,
          CliMoves, Boot, BootFull, BootErase, vars, ghosts
    <3> QED BY <2>1, <2>2, <3>2, <3>3, TornFinite
  <2> QED BY <2>3, <2>4
<1> QED BY <1>1, <1>2, Invariance, PTL DEF Spec

(***************************************************************************)
(* When a record may disappear.                                            *)
(***************************************************************************)
\* Records leave the page only when it is full or clear_log erases it: a
\* wrap, a boot or a power loss never takes records from a page with room.
THEOREM NoEarlyErase == Spec => ErasedOnlyWhenFull
<1>1. IInv /\ [Next]_vars =>
        (Safe' /\ (\E s \in Slots : ~Empty(s) /\ Empty(s)') => Full \/ cli = "start")
  <2> SUFFICES ASSUME IInv, [Next]_vars, Safe',
                      NEW s \in Slots, ~Empty(s), Empty(s)'
               PROVE  Full \/ cli = "start"
    OBVIOUS
  <2> USE FlashLogAssumption DEF page, dump
  <2>1. Safe /\ ControllerInv /\ PageInv /\ StateOK /\ IndexOK
    BY SafeBefore DEF IInv
  <2>2. ~UNCHANGED page
    BY DEF Empty
  <2>3. ASSUME NEW e \in Entries, WriteBegin(e) PROVE FALSE
    BY <2>2, <2>3 DEF WriteBegin
  <2>4. CASE WriteErase
    <3>1. Holds(N)
      BY <2>1, <2>4 DEF WriteErase, PageInv, ControllerInv, InClear, IndexStale
    <3> QED BY <3>1 DEF Holds, Full, Slots
  <2>5. CASE WriteLo \/ WriteHi
    <3>1. log_index \in Slots /\ entry # Erased
      BY <2>1, <2>5 DEF WriteLo, WriteHi, StateOK, IndexOK, Slots
    <3>2. \A r \in Slots :
            (lo'[r] = lo[r] \/ lo'[r] = entry) /\ (hi'[r] = hi[r] \/ hi'[r] = entry)
      BY <2>1, <2>5, <3>1 DEF WriteLo, WriteHi, StateOK, Programs
    <3> QED BY <3>1, <3>2 DEF Empty
  <2>6. CASE CliStep
    BY <2>2, <2>6 DEF CliStep, ClearStep, DumpStep, CliMoves, ClearKey1, ClearKey2,
         ClearSetPER, ClearStart, ClearClearPER, ClearLock, ClearReset,
         DumpCount, DumpDone, DumpSkip, DumpCheck, DumpCopyLo, DumpCopyHi
  <2>7. CASE PowerLoss
    <3>1. ~Erasing
      BY <2>2, <2>7 DEF PowerLoss, Safe
    <3>2. auth \in {"lo", "hi"} /\ log_index \in Slots
      BY <2>1, <2>2, <2>7, <3>1 DEF PowerLoss, PageAfterLoss, IndexOK, StateOK, Slots
    <3>3. \A r \in Slots :
            /\ (lo'[r] = lo[r] \/ lo'[r] \in {entry, Junk})
            /\ (hi'[r] = hi[r] \/ hi'[r] \in {entry, Junk})
      BY <2>1, <2>7, <3>1, <3>2
      DEF PowerLoss, PageAfterLoss, HalfProgrammed, Programs, StateOK
    <3> QED BY <2>1, <3>3 DEF Empty, StateOK
  <2>8. CASE Boot \/ BootFull
    BY <2>2, <2>8 DEF Boot, BootFull
  <2>9. CASE BootErase
    <3>1. Holds(N)
      BY <2>1, <2>9 DEF BootErase, PageInv
    <3> QED BY <3>1 DEF Holds, Full, Slots
  <2>10. CASE UNCHANGED vars
    BY <2>2, <2>10 DEF vars
  <2> QED
    BY <2>3, <2>4, <2>5, <2>6, <2>7, <2>8, <2>9, <2>10 DEF Next, AuthStep
<1> QED BY <1>1, Invariance, PTL DEF Spec, ErasedOnlyWhenFull

(***************************************************************************)
(* The refinement of AuditLog.                                             *)
(***************************************************************************)
AbstractEntries == Entries \cup {Torn}

\* The scan of FlashLog_Init finds the end of the written slots.
LEMMA FirstEmptyIs == \A n \in 0..N : StateOK /\ Holds(n) => FirstEmpty = n
<1> SUFFICES ASSUME NEW n \in 0..N, StateOK, Holds(n) PROVE FirstEmpty = n
  OBVIOUS
<1> DEFINE First(m) == (\A s \in 0 .. m-1 : ~Empty(s)) /\ (m = N \/ Empty(m))
<1>1. First(n)
  BY FlashLogAssumption DEF Holds, Slots
<1>2. ASSUME NEW m \in 0..N, First(m) PROVE m = n
  <2>1. ~(m < n)
    BY <1>2, FlashLogAssumption DEF Holds, Slots
  <2>2. ~(n < m)
    BY <1>2, FlashLogAssumption DEF Holds, Slots
  <2> QED BY <2>1, <2>2
<1> HIDE DEF First
<1>3. (CHOOSE m \in 0..N : First(m)) = n
  BY <1>1, <1>2
<1> QED BY <1>3, Zenon DEF FirstEmpty, First

\* The abstract log is a sequence, one record per committed slot.
LEMMA RecordsType ==
    Committed \in 0..N => /\ Records \in Seq(AbstractEntries)
                          /\ Len(Records) = Committed
                          /\ \A i \in 1..Committed :
                               Records[i] = IF IsEntry(i-1) THEN lo[i-1] ELSE Torn
<1> SUFFICES ASSUME Committed \in 0..N
             PROVE  /\ Records \in Seq(AbstractEntries)
                    /\ Len(Records) = Committed
                    /\ \A i \in 1..Committed :
                         Records[i] = IF IsEntry(i-1) THEN lo[i-1] ELSE Torn
  OBVIOUS
<1>1. Committed \in Nat
  BY FlashLogAssumption
<1>2. \A i \in 1..Committed : (IF IsEntry(i-1) THEN lo[i-1] ELSE Torn) \in AbstractEntries
  BY DEF IsEntry, AbstractEntries
<1>3. Records \in [1..Committed -> AbstractEntries]
  BY <1>2 DEF Records
<1>4. Records \in Seq(AbstractEntries) /\ Len(Records) = Committed
  BY <1>1, <1>3
<1> QED BY <1>4 DEF Records

LEMMA FirstEmptyIsNext == (\A n \in 0..N : StateOK /\ Holds(n) => FirstEmpty = n)'
BY FirstEmptyIs, PTL

LEMMA RecordsTypeNext ==
    (Committed \in 0..N => /\ Records \in Seq(AbstractEntries)
                           /\ Len(Records) = Committed
                           /\ \A i \in 1..Committed :
                                Records[i] = IF IsEntry(i-1) THEN lo[i-1] ELSE Torn)'
BY RecordsType, PTL

\* How many records are committed, in every mode of a safe state.
LEMMA CommittedIs ==
    IInv /\ Safe =>
        /\ mode = "run" /\ ~IndexStale => Committed = log_index
        /\ mode = "run" /\ IndexStale => Committed = 0
        /\ mode = "format" => Committed = N
        /\ \A n \in 0..N : mode = "off" /\ Holds(n) => Committed = n
        /\ Committed \in 0..N
<1> SUFFICES ASSUME IInv, Safe
             PROVE  /\ mode = "run" /\ ~IndexStale => Committed = log_index
                    /\ mode = "run" /\ IndexStale => Committed = 0
                    /\ mode = "format" => Committed = N
                    /\ \A n \in 0..N : mode = "off" /\ Holds(n) => Committed = n
                    /\ Committed \in 0..N
  OBVIOUS
<1> USE FlashLogAssumption DEF IInv, StateOK, IndexOK, PageInv, Committed
<1>1. CASE mode = "run" /\ IndexStale
  <2>1. auth # "hi"
    BY <1>1 DEF IndexStale, ControllerInv, InClear
  <2> QED BY <1>1, <2>1, FirstEmptyIs
<1>2. CASE mode = "run" /\ ~IndexStale /\ auth = "hi"
  <2>1. log_index + 1 \in 0..N /\ Holds(log_index + 1)
    BY <1>2
  <2> QED BY <1>2, <2>1, FirstEmptyIs
<1>3. CASE mode = "run" /\ ~IndexStale /\ auth # "hi"
  BY <1>3, FirstEmptyIs
<1>4. CASE mode = "off"
  <2>1. auth # "hi"
    BY <1>4
  <2> QED BY <1>4, <2>1, FirstEmptyIs
<1>5. CASE mode = "format"
  BY <1>5, FirstEmptyIs
<1>6. mode # "fault"
  BY DEF ControllerInv
<1> QED BY <1>1, <1>2, <1>3, <1>4, <1>5, <1>6

LEMMA CommittedIsNext ==
    (IInv /\ Safe =>
        /\ mode = "run" /\ ~IndexStale => Committed = log_index
        /\ mode = "run" /\ IndexStale => Committed = 0
        /\ mode = "format" => Committed = N
        /\ \A n \in 0..N : mode = "off" /\ Holds(n) => Committed = n
        /\ Committed \in 0..N)'
BY CommittedIs, PTL

\* A step that keeps the committed slots keeps the abstract log.
LEMMA SameRecords ==
    ASSUME IInv, IInv', Safe, Safe', Committed' = Committed,
           \A s \in Slots : s < Committed => lo'[s] = lo[s] /\ hi'[s] = hi[s]
    PROVE  Records' = Records
<1>1. Committed \in 0..N /\ Committed' \in 0..N
  BY CommittedIs, CommittedIsNext
<1>2. \A i \in 1..Committed : Records'[i] = Records[i]
  <2> SUFFICES ASSUME NEW i \in 1..Committed PROVE Records'[i] = Records[i]
    OBVIOUS
  <2>1. i-1 \in Slots /\ i-1 < Committed
    BY <1>1, FlashLogAssumption DEF Slots
  <2> QED BY <1>1, <2>1, RecordsType, RecordsTypeNext DEF IsEntry
<1> QED BY <1>1, <1>2, RecordsType, RecordsTypeNext, SeqEqual

\* A step that commits one more slot appends what that slot holds.
LEMMA MoreRecords ==
    ASSUME IInv, IInv', Safe, Safe', Committed < N, Committed' = Committed + 1,
           \A s \in Slots : s < Committed => lo'[s] = lo[s] /\ hi'[s] = hi[s],
           NEW e \in AbstractEntries,
           e = IF lo'[Committed] \in Entries /\ hi'[Committed] = lo'[Committed]
                 THEN lo'[Committed] ELSE Torn
    PROVE  Records' = Append(Records, e)
<1>1. Committed \in 0..N /\ Committed' \in 0..N
  BY CommittedIs, CommittedIsNext
<1>2. /\ Append(Records, e) \in Seq(AbstractEntries)
      /\ Len(Append(Records, e)) = Committed + 1
      /\ \A i \in 1..Committed : Append(Records, e)[i] = Records[i]
      /\ Append(Records, e)[Committed + 1] = e
  BY <1>1, RecordsType, AppendProperties
<1>3. \A i \in 1..Committed : Records'[i] = Records[i]
  <2> SUFFICES ASSUME NEW i \in 1..Committed PROVE Records'[i] = Records[i]
    OBVIOUS
  <2>1. i-1 \in Slots /\ i-1 < Committed /\ i \in 1..Committed'
    BY <1>1, FlashLogAssumption DEF Slots
  <2> QED BY <1>1, <2>1, RecordsType, RecordsTypeNext DEF IsEntry
<1>4. Records'[Committed + 1] = e
  <2>1. Committed + 1 \in 1..Committed' /\ (Committed + 1) - 1 = Committed
    BY <1>1, FlashLogAssumption
  <2> QED BY <1>1, <2>1, RecordsTypeNext DEF IsEntry
<1>5. \A i \in 1..Committed' : Records'[i] = Append(Records, e)[i]
  BY <1>1, <1>2, <1>3, <1>4, FlashLogAssumption
<1> QED BY <1>1, <1>2, <1>5, RecordsTypeNext, SeqEqual

LEMMA NoRecords ==
    ASSUME IInv', Safe', Committed' = 0
    PROVE  Records' = <<>>
<1>1. 0 \in 0..N
  BY FlashLogAssumption
<1> QED BY <1>1, RecordsTypeNext, EmptySeq

\* Half a write that lost power: the slot is not committed, or it is torn, or
\* it holds the whole entry.
LEMMA LossRefines ==
    ASSUME IInv, IInv', Safe, Safe', PowerLoss
    PROVE  \/ Records' = Records
           \/ /\ Len(Records) < N
              /\ \E e \in AbstractEntries : Records' = Append(Records, e)
<1> USE FlashLogAssumption DEF IInv, StateOK, IndexOK, page
<1>0. mode' = "off" /\ auth' # "hi" /\ Committed \in 0..N /\ Len(Records) = Committed
  BY CommittedIs, RecordsType DEF PowerLoss
<1>1. CASE UNCHANGED page
  <2>1. PICK n \in 0..N : Holds(n)'
    BY <1>0 DEF PageInv
  <2>2. Holds(n) /\ Committed' = n
    BY <1>0, <1>1, <2>1, CommittedIsNext DEF Holds, Empty
  <2>3. FirstEmpty = n
    BY <2>2, FirstEmptyIs
  <2>4. CASE auth # "hi"
    BY <1>1, <2>2, <2>3, <2>4, SameRecords DEF Committed
  <2>5. CASE auth = "hi"
    <3>1. Committed' = Committed + 1 /\ Committed < N
      BY <1>0, <2>2, <2>3, <2>5 DEF Committed
    <3> DEFINE e == IF lo'[Committed] \in Entries /\ hi'[Committed] = lo'[Committed]
                      THEN lo'[Committed] ELSE Torn
    <3>2. e \in AbstractEntries
      BY DEF AbstractEntries
    <3>3. Records' = Append(Records, e)
      BY <1>1, <3>1, <3>2, MoreRecords
    <3> QED BY <1>0, <3>1, <3>2, <3>3
  <2> QED BY <2>4, <2>5
<1>2. CASE ~UNCHANGED page
  <2>1. ~Erasing
    BY <1>2 DEF PowerLoss, Safe
  <2>2. /\ auth \in {"lo", "hi"} /\ mode = "run" /\ log_index \in Slots
        /\ \A s \in Slots : s # log_index => lo'[s] = lo[s] /\ hi'[s] = hi[s]
    <3>1. auth \in {"lo", "hi"} /\ mode = "run" /\ log_index \in Slots
      BY <1>2, <2>1 DEF PowerLoss, PageAfterLoss, Slots
    <3>2. \/ lo' \in HalfProgrammed(lo, log_index, entry) /\ hi' = hi
          \/ hi' \in HalfProgrammed(hi, log_index, entry) /\ lo' = lo
      BY <1>2, <2>1 DEF PowerLoss, PageAfterLoss
    <3>3. ASSUME NEW w \in [Slots -> DWord], NEW v \in HalfProgrammed(w, log_index, entry),
                 NEW s \in Slots, s # log_index
          PROVE  v[s] = w[s]
      BY <3>1, <3>3 DEF HalfProgrammed, Programs
    <3> QED BY <3>1, <3>2, <3>3
  <2>3. Committed = log_index /\ Committed < N
    BY <2>2, CommittedIs DEF ControllerInv, InClear, IndexStale, Slots
  <2>4. Committed' = Committed \/ Committed' = Committed + 1
    <3>1. PICK n \in 0..N : Holds(n)'
      BY <1>0 DEF PageInv
    <3>2. Committed' = n
      BY <1>0, <3>1, CommittedIsNext
    <3>3. Holds(log_index) \/ Holds(log_index + 1)
      BY <2>2 DEF PageInv, ControllerInv, InClear, IndexStale
    <3>4. ~(n < log_index) /\ ~(log_index + 1 < n)
      <4>1. ~(n < log_index)
        <5>1. ASSUME n < log_index PROVE FALSE
          <6>1. n \in Slots /\ n # log_index /\ Empty(n)'
            BY <2>2, <3>1, <5>1 DEF Holds, Slots
          <6> QED BY <2>2, <3>3, <5>1, <6>1 DEF Holds, Empty, Slots
        <5> QED BY <5>1
      <4>2. ~(log_index + 1 < n)
        <5>1. ASSUME log_index + 1 < n PROVE FALSE
          <6>1. log_index + 1 \in Slots /\ ~Empty(log_index + 1)
            <7>1. log_index + 1 \in Slots
              BY <2>2, <5>1 DEF Slots
            <7>2. lo'[log_index + 1] # Erased \/ hi'[log_index + 1] # Erased
              BY <3>1, <5>1, <7>1 DEF Holds, Empty
            <7> QED BY <2>2, <7>1, <7>2 DEF Empty, Slots
          <6> QED BY <2>2, <3>3, <6>1 DEF Holds, Slots
        <5> QED BY <5>1
      <4> QED BY <4>1, <4>2
    <3> QED BY <2>2, <2>3, <3>2, <3>4 DEF Slots
  <2>5. \A s \in Slots : s < Committed => lo'[s] = lo[s] /\ hi'[s] = hi[s]
    BY <2>2, <2>3
  <2>6. CASE Committed' = Committed
    BY <2>5, <2>6, SameRecords
  <2>7. CASE Committed' = Committed + 1
    <3> DEFINE e == IF lo'[Committed] \in Entries /\ hi'[Committed] = lo'[Committed]
                      THEN lo'[Committed] ELSE Torn
    <3>1. e \in AbstractEntries
      BY DEF AbstractEntries
    <3>2. Records' = Append(Records, e)
      BY <2>3, <2>5, <2>7, <3>1, MoreRecords
    <3> QED BY <1>0, <2>3, <3>1, <3>2
  <2> QED BY <2>4, <2>6, <2>7
<1> QED BY <1>1, <1>2

LEMMA InitRefines == Init => Abstract!Init
<1> SUFFICES ASSUME Init PROVE Abstract!Init
  OBVIOUS
<1>1. IInv /\ Safe
  BY InitIInv DEF Init, Safe
<1>2. Committed = 0
  BY <1>1, CommittedIs DEF Init, IndexStale
<1>3. Records = <<>>
  BY <1>2, RecordsType, EmptySeq, FlashLogAssumption
<1>4. cli \notin {"key2", "setPER", "start"}
  BY DEF Init
<1> QED BY <1>1, <1>3, <1>4 DEF Abstract!Init

\* Every step of the code is a step of AuditLog or leaves its log alone.
LEMMA NextRefines ==
    ASSUME IInv, IInv', [Next]_vars
    PROVE  [Abstract!Next]_(Abstract!vars)
<1> DEFINE clearing == cli \in {"key2", "setPER", "start"}
<1>1. CASE ~Safe'
  BY <1>1 DEF Abstract!Next, Abstract!GiveUp
<1>2. CASE Safe'
  <2> USE FlashLogAssumption DEF page, dump
  <2>0. /\ Safe /\ StateOK /\ IndexOK /\ ControllerInv /\ PageInv
        /\ Committed \in 0..N /\ Len(Records) = Committed
    BY <1>2, SafeBefore, CommittedIs, RecordsType DEF IInv
  <2>a. ASSUME Records' = Records, clearing' = clearing
        PROVE  [Abstract!Next]_(Abstract!vars)
    BY <1>2, <2>0, <2>a DEF Abstract!vars, Safe
  <2>b. ASSUME UNCHANGED page, Committed' = Committed PROVE Records' = Records
    BY <1>2, <2>0, <2>b, SameRecords
  <2>c. ASSUME UNCHANGED page, (auth = "hi") <=> (auth' = "hi") PROVE Committed' = Committed
    <3>1. ASSUME NEW n \in 0..N, Holds(n) PROVE FirstEmpty' = FirstEmpty
      <4>1. Holds(n)' /\ StateOK'
        BY <2>c, <3>1 DEF Holds, Empty, IInv
      <4> QED BY <2>0, <3>1, <4>1, FirstEmptyIs, FirstEmptyIsNext
    <3>2. \E n \in 0..N : Holds(n)
      <4>1. mode \in {"run", "off", "format"}
        BY <2>0 DEF StateOK, ControllerInv
      <4> QED BY <2>0, <4>1 DEF PageInv, StateOK, IndexOK
    <3> QED BY <2>c, <3>1, <3>2 DEF Committed
  <2>1. ASSUME NEW e \in Entries, WriteBegin(e) PROVE [Abstract!Next]_(Abstract!vars)
    BY <2>1, <2>a, <2>b, <2>c DEF WriteBegin
  <2>2. CASE WriteErase
    <3>1. mode = "run" /\ ~IndexStale /\ cli' = cli
      BY <2>0, <2>2 DEF WriteErase, ControllerInv, InClear, IndexStale
    <3>2. Committed = N
      BY <2>0, <2>2, <3>1, CommittedIs DEF WriteErase, PageInv
    <3>3. mode' = "run" /\ ~IndexStale' /\ log_index' = 0
      BY <2>2, <3>1 DEF WriteErase, IndexStale
    <3>4. Records' = <<>>
      BY <1>2, <3>3, CommittedIsNext, NoRecords
    <3> QED
      BY <1>2, <2>0, <3>1, <3>2, <3>4 DEF Abstract!Next, Abstract!StartOver, Safe
  <2>3. CASE WriteLo
    <3>1. mode = "run" /\ ~IndexStale /\ log_index \in Slots
      BY <2>0, <2>3 DEF WriteLo, ControllerInv, InClear, IndexStale, StateOK, IndexOK, Slots
    <3>2. mode' = "run" /\ ~IndexStale' /\ log_index' = log_index /\ cli' = cli
      BY <2>3, <3>1 DEF WriteLo, IndexStale
    <3>3. Committed = log_index /\ Committed' = log_index
      BY <1>2, <2>0, <3>1, <3>2, CommittedIs, CommittedIsNext
    <3>4. \A s \in Slots : s < Committed => lo'[s] = lo[s] /\ hi'[s] = hi[s]
      BY <2>0, <2>3, <3>1, <3>3 DEF WriteLo, Programs, StateOK, Slots
    <3>5. Records' = Records
      BY <1>2, <2>0, <3>3, <3>4, SameRecords
    <3> QED BY <2>a, <3>2, <3>5
  <2>4. CASE WriteHi
    <3>1. mode = "run" /\ ~IndexStale /\ log_index \in Slots
      BY <2>0, <2>4 DEF WriteHi, ControllerInv, InClear, IndexStale, StateOK, IndexOK, Slots
    <3>2. mode' = "run" /\ ~IndexStale' /\ log_index' = log_index + 1 /\ cli' = cli
      BY <2>4, <3>1 DEF WriteHi, IndexStale
    <3>3. Committed = log_index /\ Committed' = log_index + 1 /\ Committed < N
      BY <1>2, <2>0, <3>1, <3>2, CommittedIs, CommittedIsNext DEF Slots
    <3>4. lo[log_index] = entry /\ hi[log_index] = Erased /\ ~err /\ ~per /\ entry \in Entries
      BY <2>0, <2>4, <3>1 DEF WriteHi, PageInv, ControllerInv, InClear, StateOK
    <3>5. lo' = lo /\ hi' = [hi EXCEPT ![log_index] = entry]
      BY <2>4, <3>4 DEF WriteHi, Programs
    <3>6. lo'[Committed] = entry /\ hi'[Committed] = entry
      BY <2>0, <3>1, <3>3, <3>4, <3>5 DEF StateOK
    <3>7. \A s \in Slots : s < Committed => lo'[s] = lo[s] /\ hi'[s] = hi[s]
      BY <2>0, <3>1, <3>3, <3>5 DEF StateOK, Slots
    <3>8. entry \in AbstractEntries
      BY <3>4 DEF AbstractEntries
    <3>9. Records' = Append(Records, entry)
      BY <1>2, <2>0, <3>3, <3>4, <3>6, <3>7, <3>8, MoreRecords
    <3> QED
      BY <1>2, <2>0, <3>2, <3>3, <3>4, <3>9 DEF Abstract!Next, Abstract!Record, Safe
  <2>5. CASE ClearKey1
    <3>1. Records' = Records
      BY <2>5, <2>b, <2>c DEF ClearKey1, CliMoves
    <3>2. clearing'
      BY <2>5 DEF ClearKey1, CliMoves
    <3> QED
      BY <1>2, <2>0, <3>1, <3>2 DEF Abstract!Next, Abstract!AskClear, Safe
  <2>6. CASE ClearKey2 \/ ClearSetPER
    BY <2>6, <2>a, <2>b, <2>c DEF ClearKey2, ClearSetPER, CliMoves
  <2>7. CASE ClearStart
    <3>1. mode' = "run" /\ IndexStale' /\ cli = "start" /\ cli' = "clearPER"
      BY <2>7 DEF ClearStart, CliMoves, IndexStale
    <3>2. Records' = <<>>
      BY <1>2, <3>1, CommittedIsNext, NoRecords
    <3> QED
      BY <1>2, <2>0, <3>1, <3>2 DEF Abstract!Next, Abstract!Clear, Safe
  <2>8. CASE ClearClearPER \/ ClearLock \/ ClearReset
    BY <2>8, <2>a, <2>b, <2>c DEF ClearClearPER, ClearLock, ClearReset, CliMoves
  <2>9. CASE DumpCount \/ DumpStep
    BY <2>9, <2>a, <2>b, <2>c
    DEF DumpCount, DumpStep, DumpDone, DumpSkip, DumpCheck, DumpCopyLo, DumpCopyHi, CliMoves
  <2>10. CASE PowerLoss
    <3>1. \/ Records' = Records
          \/ /\ Len(Records) < N
             /\ \E e \in AbstractEntries : Records' = Append(Records, e)
      BY <1>2, <2>0, <2>10, LossRefines
    <3>2. ~clearing'
      BY <2>10 DEF PowerLoss
    <3> QED
      BY <1>2, <2>0, <3>1, <3>2
      DEF Abstract!Next, Abstract!LosePower, Safe, AbstractEntries
  <2>11. CASE Boot \/ BootFull
    BY <2>11, <2>a, <2>b, <2>c DEF Boot, BootFull
  <2>12. CASE BootErase
    <3>1. Committed = N /\ cli = "idle" /\ cli' = "idle"
      BY <2>0, <2>12, CommittedIs DEF BootErase, IndexOK
    <3>2. mode' = "run" /\ ~IndexStale' /\ log_index' = 0
      BY <2>12, <3>1 DEF BootErase, IndexStale
    <3>3. Records' = <<>>
      BY <1>2, <3>2, CommittedIsNext, NoRecords
    <3> QED
      BY <1>2, <2>0, <3>1, <3>3 DEF Abstract!Next, Abstract!StartOver, Safe
  <2>13. CASE UNCHANGED vars
    BY <2>13, <2>a, <2>b, <2>c DEF vars
  <2> QED
    BY <2>1, <2>2, <2>3, <2>4, <2>5, <2>6, <2>7, <2>8, <2>9, <2>10, <2>11, <2>12, <2>13
    DEF Next, AuthStep, CliStep, ClearStep
<1> QED BY <1>1, <1>2

\* The page, read up to its first empty slot, behaves as the bounded log of
\* AuditLog: writes append whole records, a full page starts over, a clear
\* empties it, and a power loss costs at most the record being written.
THEOREM Refinement == Spec => ImplementsAuditLog
BY InitRefines, NextRefines, Invariance, PTL DEF Spec, ImplementsAuditLog, Abstract!Spec
=============================================================================
