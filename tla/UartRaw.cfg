\* vTaskLCD prints with UART2_sendString while another task prints with
\* UART2_Print.
CONSTANTS
    auth = auth
    rfid = rfid
    keypad = keypad
    lcd = lcd
    cli = cli
    NONE = NONE
    Tasks = {keypad, lcd, cli}
    uxBasePriority <- MCPriority
    RawPrinters = {lcd}
    Spinners = {}
    Lengths = {1, 2}
    TIMEOUT = 2
    DELAY = 2
SPECIFICATION Spec
INVARIANT NothingOverwritten
