SPECIFICATION ConfigSpec
CONSTANTS
    Modes = {"UART_FULL", "UART_RX_ONLY", "UART_TX_ONLY"}
    Clock = 20
    Bauds = {0, 3, 7, 21}
INVARIANTS
    PinsConsistent
    FullPinsHonoured
