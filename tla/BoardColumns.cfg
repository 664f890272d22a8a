SPECIFICATION Spec
CONSTANTS
  NONE = NONE
  UID <- MC_UID
  FLOATING <- MC_FLOATING
  POLLS = 2
  ROWS = 1
  COLUMNS = 2
  LATE = 0
INVARIANTS
  OneColumnLow
