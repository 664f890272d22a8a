\* A queue of two items and two tasks that receive or sleep; the tick count has
\* four values and wraps again and again.
CONSTANTS
    high = high
    low = low
    NONE = NONE
    Tasks = {high, low}
    Priority <- MCPriority
    Item = {x, y}
    uxLength = 2
    Timeouts <- MCTimeouts
    Delays = {1}
    WRAP = 4
    OVERFLOWS = 2
    MaxPended = 1
SYMMETRY MCItems
SPECIFICATION Spec
INVARIANTS WakeTimesAhead NoLostWakeup WaitIsRequest
PROPERTIES NotEarly ImplementsFifo ImplementsSleepers
