\* Delays in the order of app_config.h, with 2 * CARD_NEW_COOLDOWN < CARD_COOLDOWN,
\* and a counter that wraps after a little more than two cooldowns.  Two misses
\* in a row and the next poll fit into what a wrap leaves outside the cooldown.
CONSTANTS
    good = good
    bad = bad
    Cards = {good, bad}
    NoCard = NoCard
    WRAP = 12
    RFID_POLL = 1
    LATE = 1
    CARD_COOLDOWN = 5
    CARD_NEW_COOLDOWN = 2
    QUEUE_RFID_LEN = 2
    MAX_MISSES = 2
SPECIFICATION FairSpec
PROPERTIES
    CardsApart
    HeldCardAccepted
