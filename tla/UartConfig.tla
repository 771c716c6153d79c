----------------------------- MODULE UartConfig -----------------------------
(***************************************************************************)
(* How UART0 is wired and clocked: uart_init_ex, uart_uninit, uart_swap,   *)
(* uart_set_tx, uart_set_pins and uart_set_baudrate of system/uart.cpp.    *)
(* UART0 receives on pin 3 or 13 and transmits on pin 1, 2 or 15; UART1    *)
(* transmits on pin 2.  Pins 13 and 15 carry UART0 only while the IOSWAP   *)
(* bit of the I/O matrix is set.                                           *)
(***************************************************************************)
EXTENDS Integers

CONSTANTS
    Modes,    \* the modes UART0 may be opened in
    Clock,    \* ESP8266_CLOCK
    Bauds     \* the baud rates an application asks for

ASSUME ClockAssumption == Clock \in Nat /\ Bauds \subseteq Nat

ASSUME ModesAssumption == Modes \subseteq {"UART_FULL", "UART_RX_ONLY", "UART_TX_ONLY"}

VARIABLES
    mode,         \* the mode of UART0, or "closed"
    tx_pin,       \* uart->tx_pin of UART0 (255: none)
    rx_pin,       \* uart->rx_pin of UART0 (255: none)
    gpf,          \* the function select field of each pin's GPF register
    ioswap,       \* bit IOSWAPU0 of IOSWAP
    uart1,        \* is UART1 open?
    wanted,       \* the arguments of the latest uart_set_pins, or NoOption
    usd,          \* USD, the clock divider register of UART0
    baud_rate,    \* uart->baud_rate
    asked         \* the baud rate last asked for

baudVars == <<usd, baud_rate, asked>>
configVars == <<mode, tx_pin, rx_pin, gpf, ioswap, uart1, wanted, baudVars>>

NoPin == 255
Pins == {1, 2, 3, 13, 15}

\* "UART 0 possible options are (1, 3), (2, 3) or (15, 13)"
Options == {<<1, 3>>, <<2, 3>>, <<15, 13>>}
Arguments == {1, 2, 15} \X {3, 13}
NoOption == <<NoPin, NoPin>>

tx_enabled == mode # "UART_RX_ONLY"
rx_enabled == mode # "UART_TX_ONLY"

\* The functions that make a pin a GPIO, and a line of the bus it belongs to.
GPFFS_GPIO(p) == IF p = 2 THEN 0 ELSE 3
GPFFS_BUS(p) == IF p \in {1, 3} THEN 0 ELSE 2

\* What pinMode(p, m) selects.
pinMode(p, m) ==
    IF m = "SPECIAL" THEN GPFFS_BUS(p)
    ELSE IF m = "FUNCTION_0" THEN 0
    ELSE IF m = "FUNCTION_4" THEN 4
    ELSE GPFFS_GPIO(p)

\* The pins are GPIOs, as pinMode(pin, INPUT) leaves them.
ConfigInit ==
    /\ mode = "closed" /\ tx_pin = NoPin /\ rx_pin = NoPin
    /\ gpf = [p \in Pins |-> GPFFS_GPIO(p)]
    /\ ioswap \in BOOLEAN
    /\ uart1 = FALSE
    /\ wanted = NoOption
    /\ usd = 0 /\ baud_rate = 0 /\ asked = 0

\* pinMode(p, calls[p]) for every pin p in the domain of calls.
SetPins(calls) == [p \in Pins |-> IF p \in DOMAIN calls THEN pinMode(p, calls[p]) ELSE gpf[p]]

\* "UART 1 can't be used if GPIO2 is used with UART 0!"
Pin2Free == ~uart1

-----------------------------------------------------------------------------
\* uart_set_baudrate_reg(b): the integer divider, and the rate it really gives.
\* A rate of zero leaves the register alone; one beyond the clock zeroes it.
SetBaudrate(b) ==
    LET clkdiv == Clock \div b
    IN  /\ asked' = b
        /\ IF b = 0
           THEN baud_rate' = 0 /\ UNCHANGED usd
           ELSE /\ usd' = clkdiv
                /\ baud_rate' = IF clkdiv # 0 THEN Clock \div clkdiv ELSE 0

uart_set_baudrate(b) ==
    /\ mode # "closed"
    /\ SetBaudrate(b)
    /\ UNCHANGED <<mode, tx_pin, rx_pin, gpf, ioswap, uart1, wanted>>

-----------------------------------------------------------------------------
\* uart_init_ex for UART0 in mode m with tx_pin t and baud rate b.
uart_init(m, t, b) ==
    LET tx == IF m = "UART_RX_ONLY" THEN NoPin ELSE IF t = 2 THEN 2 ELSE 1
        rx == IF m = "UART_TX_ONLY" THEN NoPin ELSE 3
    IN  /\ mode = "closed"
        /\ tx = 2 => Pin2Free
        /\ mode' = m /\ tx_pin' = tx /\ rx_pin' = rx
        /\ gpf' = SetPins([p \in {tx, rx} \ {NoPin} |->
                                 IF p = 1 THEN "FUNCTION_0" ELSE IF p = 2 THEN "FUNCTION_4" ELSE "SPECIAL"])
        /\ ioswap' = FALSE
        /\ SetBaudrate(b)
        /\ wanted' = NoOption
        /\ UNCHANGED uart1

\* uart_uninit for UART0: both pins become inputs.
uart_uninit ==
    /\ mode # "closed"
    /\ gpf' = SetPins([p \in {tx_pin, rx_pin} \ {NoPin} |-> "INPUT"])
    /\ mode' = "closed" /\ tx_pin' = NoPin /\ rx_pin' = NoPin
    /\ wanted' = NoOption
    /\ UNCHANGED <<ioswap, uart1, baudVars>>

uart1_init ==
    /\ ~uart1
    /\ tx_pin # 2
    /\ uart1' = TRUE
    /\ gpf' = SetPins([p \in {2} |-> "SPECIAL"])
    /\ UNCHANGED <<mode, tx_pin, rx_pin, ioswap, wanted, baudVars>>

uart1_uninit ==
    /\ uart1
    /\ uart1' = FALSE
    /\ gpf' = SetPins([p \in {2} |-> "INPUT"])
    /\ UNCHANGED <<mode, tx_pin, rx_pin, ioswap, wanted, baudVars>>

-----------------------------------------------------------------------------
\* The test of uart_swap: is UART0 on its standard pins?
OnStandardPins == (tx_pin \in {1, 2} /\ tx_enabled) \/ (rx_pin = 3 /\ rx_enabled)

\* A variant for mutation testing.
Swap_NoIoswap(t) ==
    LET away == OnStandardPins
        tx == IF away THEN 15 ELSE IF t = 2 THEN 2 ELSE 1
        rx == IF away THEN 13 ELSE 3
        old == (IF tx_enabled THEN {tx_pin} ELSE {}) \cup (IF rx_enabled THEN {rx_pin} ELSE {})
        new == (IF tx_enabled THEN {tx} ELSE {}) \cup (IF rx_enabled THEN {rx} ELSE {})
    IN  /\ tx_pin' = IF tx_enabled THEN tx ELSE tx_pin
        /\ rx_pin' = IF rx_enabled THEN rx ELSE rx_pin
        /\ gpf' = SetPins([p \in old \cup new |-> IF p \in new THEN "SPECIAL" ELSE "INPUT"])
        /\ ioswap' = (ioswap \/ away)

\* uart_swap(uart, t): to 15/13, or back to 1 or 2 and 3.  The old pins become
\* inputs first, then the new ones get their function.
Swap(t) ==
    LET away == OnStandardPins
        tx == IF away THEN 15 ELSE IF t = 2 THEN 2 ELSE 1
        rx == IF away THEN 13 ELSE 3
        old == (IF tx_enabled THEN {tx_pin} ELSE {}) \cup (IF rx_enabled THEN {rx_pin} ELSE {})
        new == (IF tx_enabled THEN {tx} ELSE {}) \cup (IF rx_enabled THEN {rx} ELSE {})
        function(p) == IF away THEN "FUNCTION_4"
                       ELSE IF p = tx /\ t = 2 THEN "FUNCTION_4" ELSE "SPECIAL"
    IN  /\ ~away /\ tx_enabled /\ t = 2 => Pin2Free
        /\ tx_pin' = IF tx_enabled THEN tx ELSE tx_pin
        /\ rx_pin' = IF rx_enabled THEN rx ELSE rx_pin
        /\ gpf' = SetPins([p \in old \cup new |-> IF p \in new THEN function(p) ELSE "INPUT"])
        /\ ioswap' = away

\* uart_set_tx(uart, t): between pins 1 and 2, on UART0.
SetTx(t) ==
    LET from == tx_pin
        to == IF t = 2 THEN 2 ELSE 1
        moves == tx_enabled /\ ((from = 1 /\ t = 2) \/ (from = 2 /\ t # 2))
    IN  /\ moves /\ to = 2 => Pin2Free
        /\ IF moves
           THEN /\ tx_pin' = to
                /\ gpf' = SetPins([p \in {from, to} |->
                     IF p = from THEN "INPUT" ELSE IF p = 2 THEN "FUNCTION_4" ELSE "SPECIAL"])
           ELSE UNCHANGED <<tx_pin, gpf>>
        /\ UNCHANGED <<rx_pin, ioswap>>

uart_swap(t) ==
    /\ mode # "closed"
    /\ Swap(t)
    /\ wanted' = NoOption
    /\ UNCHANGED <<mode, uart1, baudVars>>

uart_set_tx(t) ==
    /\ mode # "closed"
    /\ SetTx(t)
    /\ wanted' = NoOption
    /\ UNCHANGED <<mode, uart1, baudVars>>

\* A variant for mutation testing.
uart_set_pins_NoTest(tx, rx) ==
    /\ mode # "closed"
    /\ IF tx_enabled /\ tx_pin # tx THEN Swap(tx)
       ELSE UNCHANGED <<tx_pin, rx_pin, gpf, ioswap>>
    /\ wanted' = <<tx, rx>>
    /\ UNCHANGED <<mode, uart1, baudVars>>

\* uart_set_pins(uart, tx, rx).  Both tests of the code may ask for a swap to
\* 15 and 13; the second does not once the first has moved the receive pin.
uart_set_pins(tx, rx) ==
    LET moveTx == tx_enabled /\ tx_pin # tx
        away == rx = 13 /\ tx = 15
        back == rx = 3 /\ tx \in {1, 2}
        swapped == \/ moveTx /\ (away \/ (back /\ rx_pin # rx))
                   \/ rx_enabled /\ rx_pin # rx /\ away
    IN  /\ mode # "closed"
        /\ IF swapped THEN Swap(tx)
           ELSE IF moveTx /\ back THEN SetTx(tx)
           ELSE UNCHANGED <<tx_pin, rx_pin, gpf, ioswap>>
        /\ wanted' = <<tx, rx>>
        /\ UNCHANGED <<mode, uart1, baudVars>>

-----------------------------------------------------------------------------
ConfigNext ==
    \/ \E m \in Modes, t \in {1, 2}, b \in Bauds : uart_init(m, t, b)
    \/ uart_uninit
    \/ uart1_init
    \/ uart1_uninit
    \/ \E t \in {1, 2} : uart_swap(t) \/ uart_set_tx(t)
    \/ \E o \in Arguments : uart_set_pins(o[1], o[2])
    \/ \E b \in Bauds : uart_set_baudrate(b)

ConfigSpec == ConfigInit /\ [][ConfigNext]_configVars

-----------------------------------------------------------------------------
(* Properties *)

ConfigTypeOK ==
    /\ mode \in Modes \cup {"closed"}
    /\ tx_pin \in {1, 2, 15, NoPin} /\ rx_pin \in {3, 13, NoPin}
    /\ gpf \in [Pins -> 0..4]
    /\ ioswap \in BOOLEAN /\ uart1 \in BOOLEAN
    /\ wanted \in Arguments \cup {NoOption}
    /\ usd \in Nat /\ baud_rate \in Nat /\ asked \in Bauds \cup {0}

\* The function that connects pin p to the UART that uses it, or to none.
FunctionOf(p) ==
    IF p \in {tx_pin, rx_pin} THEN (IF p \in {1, 3} THEN 0 ELSE 4)
    ELSE IF uart1 /\ p = 2 THEN 2
    ELSE GPFFS_GPIO(p)

\* Every pin is connected to the UART that uses it, by the one function that does
\* so, and every other pin is a GPIO: no swap, set_tx, set_pins or uninit leaves a
\* pin behind or takes one away from the other UART (uart.cpp:496-538, 565-587,
\* 611-718); and the I/O matrix agrees with them: its bit is set exactly while
\* UART0 is on 15 and 13 (uart.cpp:514, 636, 654).
PinsConsistent ==
    /\ \A p \in Pins : gpf[p] = FunctionOf(p)
    /\ mode # "closed" => (ioswap <=> (tx_pin = 15 \/ rx_pin = 13))

\* Is every pin in use the one last asked for?
Honours == (tx_enabled => tx_pin = wanted[1]) /\ (rx_enabled => rx_pin = wanted[2])

\* After uart_set_pins, a full-duplex UART0 is on the pins asked for, from
\* wherever it was (uart.cpp:698-718).
FullPinsHonoured == mode = "UART_FULL" /\ wanted \in Options => Honours

\* "Sets the transmission and receiving PINS ... UART 0 possible options are
\* (1, 3), (2, 3) or (15, 13)" (HardwareSerial.h:207-210), in whichever mode.
PinsHonoured == mode # "closed" /\ wanted \in Options => Honours

\* The stored rate is the one in use and never slower than the one asked for,
\* since the divider is rounded down; zero tells that the request could not be
\* met (uart.cpp:440-461).
BaudIsActual ==
    mode # "closed" =>
        IF asked \in 1..Clock
        THEN baud_rate = Clock \div usd /\ baud_rate >= asked
        ELSE baud_rate = 0
=============================================================================
