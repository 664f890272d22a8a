SPECIFICATION Spec
CONSTANTS
  NONE = NONE
  UID <- MC_UID
  FLOATING <- MC_FLOATING
  POLLS = 3
  ROWS = 1
  COLUMNS = 2
  LATE = 0
INVARIANTS
  TypeOK
  KeyIsPressed
  OncePerPress
  RepliesPaired
  InterruptSparesData
  UidIsWhole
