\* clear_log interrupted by FlashLog_Write, without power losses.
CONSTANTS
    N = 2
    Entries = {e1, e2}
    Erased = Erased
    Junk = Junk
    Torn = Torn
    MaxLosses = 0
SPECIFICATION Spec
\* A hard fault stops the program until the next reset.
CHECK_DEADLOCK FALSE
INVARIANT WrittenOnce
