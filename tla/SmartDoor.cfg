\* Every interleaving of the tasks, with board resets and clear_log.  With no
\* cooldown the same card gets in at every poll, so cards come faster than
\* vTaskAuth takes them, results stay on the display while keys are typed,
\* every queue fills up.
CONSTANTS
    good = good
    bad = bad
    k1 = k1
    k2 = k2
    Cards = {good}
    AuthorisedCards = {good}
    NoCard = NoCard
    Keys = {k1, k2}
    PIN_LENGTH = 2
    CORRECT_PIN <- ManyKeyPin
    QUEUE_RFID_LEN = 1
    QUEUE_KEYPAD_LEN = 1
    QUEUE_AUTH_LEN = 1
    LOG_MAX_ENTRIES = 2
    RFID_POLL = 1
    KEYPAD_POLL = 1
    AUTH_POLL = 1
    LCD_POLL = 1
    AUTH_WORK = 0
    LCD_RESULT = 1
    CARD_COOLDOWN = 0
    CARD_NEW_COOLDOWN = 0
SPECIFICATION Spec
INVARIANTS NoSilentDrop DisplayFollowsKeypad
PROPERTY ImplementsAccessControl
