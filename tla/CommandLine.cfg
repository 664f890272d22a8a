\* Lines of up to two characters, and a clock looked at in the first and the
\* last hour of each of two days.
CONSTANTS
    x = x
    NONE = NONE
    Readers = {"auth", "cli"}
    Hours = {0, 23}
    DAYS = 2
    CLI_BUF_SIZE = 3
    Printable = {x}
    SetHours = {23}
SPECIFICATION Spec
INVARIANTS TypeOK StampIsMoment
PROPERTIES CommandIsTyped DateKept ClockIsSet
