\* Writes, dumps, clears, a power loss and boots on a page of three slots.
CONSTANTS
    N = 3
    Entries = {e1, e2}
    Erased = Erased
    Junk = Junk
    Torn = Torn
    MaxLosses = 1
SPECIFICATION FairSpec
\* A hard fault stops the program until the next reset.
CHECK_DEADLOCK FALSE
INVARIANTS TypeOK LogIsPrefix WritesSucceed TornBounded
PROPERTIES DumpIsLog CommandEnds ErasedOnlyWhenFull ImplementsAuditLog
