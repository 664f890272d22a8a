\* Power lost during a page erase.
CONSTANTS
    N = 2
    Entries = {e1, e2}
    Erased = Erased
    Junk = Junk
    Torn = Torn
    MaxLosses = 1
SPECIFICATION Spec
\* A hard fault stops the program until the next reset.
CHECK_DEADLOCK FALSE
INVARIANT ContinuesAfterPowerCut
