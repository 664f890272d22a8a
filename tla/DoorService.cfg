\* Two cards in turn, as fast as the cooldowns let them through, and delays in
\* the order of app_config.h; progress under fairness.
CONSTANTS
    good = good
    bad = bad
    k1 = k1
    k2 = k2
    Cards = {good, bad}
    AuthorisedCards = {good, bad}
    NoCard = NoCard
    Keys = {k1}
    PIN_LENGTH = 1
    CORRECT_PIN <- ManyKeyPin
    QUEUE_RFID_LEN = 2
    QUEUE_KEYPAD_LEN = 1
    QUEUE_AUTH_LEN = 1
    LOG_MAX_ENTRIES = 1
    RFID_POLL = 1
    KEYPAD_POLL = 1
    AUTH_POLL = 1
    LCD_POLL = 1
    AUTH_WORK = 1
    LCD_RESULT = 2
    CARD_COOLDOWN = 4
    CARD_NEW_COOLDOWN = 3
SPECIFICATION FairSpec
INVARIANT CooldownPreventsOverflow
PROPERTIES PinDecided CardDecided ResultShown
