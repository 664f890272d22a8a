\* The four tasks that print through the mutex, strings of two characters; one
\* of the tasks may stay in a loop for ever.
CONSTANTS
    auth = auth
    rfid = rfid
    keypad = keypad
    lcd = lcd
    cli = cli
    NONE = NONE
    Tasks = {auth, rfid, keypad, cli}
    uxBasePriority <- MCPriority
    RawPrinters = {}
    Spinners = {keypad}
    Lengths = {2}
    TIMEOUT = 2
    DELAY = 1
SPECIFICATION FairSpec
INVARIANTS NothingOverwritten NoInversion LoanReturned MutexGoesOn
PROPERTIES StringsWhole HolderFinishes
