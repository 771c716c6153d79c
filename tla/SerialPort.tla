----------------------------- MODULE SerialPort -----------------------------
(***************************************************************************)
(* The life of serial ports: HardwareSerial objects of                     *)
(* SmingCore/HardwareSerial.cpp that open and close UARTs through          *)
(* uart_init_ex and uart_uninit of system/uart.cpp, the table of UART      *)
(* structures and the interrupt line both UARTs share, the debug output,   *)
(* and the callbacks that interrupts put on the task queue.                *)
(*                                                                         *)
(* Application code is a single task: one call of one port is in progress  *)
(* at a time, and the interrupt handler may come between any two of its    *)
(* steps.  A uart_t is named by the number of its allocation, so that a    *)
(* pointer to a deleted one is told from a pointer to its successor.       *)
(***************************************************************************)
EXTENDS Integers, Sequences, FiniteSets

CONSTANTS
    Serials,      \* the HardwareSerial objects
    MaxInit,      \* bound: how many uart_t are ever allocated
    MaxQueue,     \* the length of the task queue
    PortOf        \* PortOf[s]: the UART number s is constructed with

UART_NO == -1
UART0 == 0
UART1 == 1         \* the UART that cannot receive
Uarts == {UART0, UART1}
Numbers == Uarts \cup {UART_NO}

ASSUME BoundsAssumption == MaxInit \in Nat /\ MaxQueue \in Nat

\* "A global instance of UART 0 is already defined as Serial": no two objects
\* are made for one UART.
ASSUME PortOfAssumption ==
    /\ PortOf \in [Serials -> Numbers]
    /\ \A s, t \in Serials : PortOf[s] = PortOf[t] => s = t \/ PortOf[s] = UART_NO

VARIABLES
    uartNr,           \* HardwareSerial::uartNr
    uart,             \* HardwareSerial::uart
    delegate,         \* is HWSDelegate or the command executor set?
    complete,         \* is transmitComplete set?
    uartInstances,    \* the table of UART structures
    allocated,        \* how many uart_t have been allocated so far
    heap,             \* the uart_t not deleted yet
    buffers,          \* the SerialBuffers not deleted yet, by uart_t and direction
    uartMode,         \* uart_t::mode
    param,            \* uart_t::param, set and cleared along with callback
    isrMask,          \* the UARTs whose interrupts are handled
    usie,             \* the interrupt sources enabled in USIE of each UART
    etsEnabled,       \* is the interrupt both share enabled and attached?
    debugNr,          \* s_uart_debug_nr
    puts,             \* the uart_t bound by m_setPuts
    taskQueue,        \* the callbacks waiting on the task queue
    pc,               \* the step the call in progress is at
    caller,           \* the port it is a call of
    op, arg,          \* "end", "setPort" or "begin", and the argument
    made              \* uart_init_ex's local uart

serialVars == <<uartNr, uart, delegate, complete>>
driverVars == <<uartInstances, allocated, heap, buffers, uartMode, param>>
isrVars == <<isrMask, usie, etsEnabled>>
debugVars == <<debugNr, puts>>
callVars == <<pc, caller, op, arg, made>>
vars == <<serialVars, driverVars, isrVars, debugVars, taskQueue, callVars>>

-----------------------------------------------------------------------------
Null == 0          \* the null pointer
Pointers == 0..MaxInit
UartModes == {"UART_FULL", "UART_RX_ONLY", "UART_TX_ONLY"}

\* ~Null and not deleted: an access through the pointer is defined.
Valid(p) == p \in heap

\* delete uart->rx_buffer, uart->tx_buffer and uart, whose fields nobody may read again.
Delete(p) ==
    /\ heap' = heap \ {p}
    /\ buffers' = {b \in buffers : b[1] # p}
    /\ uartMode' = [uartMode EXCEPT ![p] = "UART_FULL"]
    /\ param' = [param EXCEPT ![p] = "none"]

uart_get_uart(nr) == IF nr \in Uarts THEN uartInstances[nr] ELSE Null

uart_tx_enabled(p) == uartMode[p] # "UART_RX_ONLY"
uart_rx_enabled(p) == uartMode[p] # "UART_TX_ONLY"

\* The sources uart_start_isr enables, and the one uart_write enables.
RxSource == "rx"
TxSource == "tx"
RxSources(p) == IF uart_rx_enabled(p) THEN {RxSource} ELSE {}

Goto(l) == pc' = l /\ UNCHANGED <<caller, op, arg, made>>

\* The call in progress is over.
Idle == pc = "idle" /\ caller = "none" /\ op = "none" /\ arg = "none" /\ made = Null
Return == pc' = "idle" /\ caller' = "none" /\ op' = "none" /\ arg' = "none" /\ made' = Null

\* The SDK may have left interrupt sources of either UART enabled; debug output
\* is meant for UART0 from the start.
Init ==
    /\ uartNr = PortOf
    /\ uart = [s \in Serials |-> Null]
    /\ delegate = [s \in Serials |-> FALSE]
    /\ complete = [s \in Serials |-> FALSE]
    /\ uartInstances = [n \in Uarts |-> Null]
    /\ allocated = 0 /\ heap = {} /\ buffers = {}
    /\ uartMode = [p \in Pointers |-> "UART_FULL"]
    /\ param = [p \in Pointers |-> "none"]
    /\ isrMask = {} /\ usie \in [Uarts -> SUBSET {RxSource, TxSource}] /\ etsEnabled = FALSE
    /\ debugNr = UART0 /\ puts = Null
    /\ taskQueue = <<>>
    /\ Idle

-----------------------------------------------------------------------------
(* end() *)

\* A variant for mutation testing.
debugNrWithout_Kept(nr) == debugNr

debugNrWithout(nr) == IF debugNr = nr THEN UART_NO ELSE debugNr

\* end() first: if(uart_get_debug() == uartNr) uart_set_debug(UART_NO), then
\* uart_uninit of an open port.
Call(s, o, a) ==
    /\ pc = "idle"
    /\ debugNr' = debugNrWithout(uartNr[s])
    /\ pc' = IF uart[s] # Null THEN "stop" ELSE "detach"
    /\ caller' = s /\ op' = o /\ arg' = a
    /\ UNCHANGED <<serialVars, driverVars, isrVars, puts, taskQueue, made>>

end(s) == Call(s, "end", "none")

\* A variant for mutation testing.
setPort_NoEnd(s, n) ==
    /\ pc = "idle"
    /\ \A t \in Serials \ {s} : uartNr[t] # n \/ n = UART_NO
    /\ uartNr' = [uartNr EXCEPT ![s] = n]
    /\ UNCHANGED <<uart, delegate, complete, driverVars, isrVars, debugVars, taskQueue, callVars>>

\* setPort(n), for a UART that no other object uses, or for none.
setPort(s, n) == (\A t \in Serials \ {s} : uartNr[t] # n \/ n = UART_NO) /\ Call(s, "setPort", n)

begin(s, m) == Call(s, "begin", m)

port == uartNr[caller]

\* A variant for mutation testing.
restored_Never(mask) == FALSE

\* uart_restore_interrupts: ETS_UART_INTR_ENABLE only if somebody needs it.
restored(mask) == mask # {}

\* uart_detach(nr), with interrupts disabled.  The register is chosen by the low
\* bit of the number, USIE(u & 1), so that UART_NO detaches UART1, while _BV(UART_NO)
\* is no bit of isrMask.
uart_detach(nr) ==
    /\ isrMask' = isrMask \ {nr}
    /\ usie' = [usie EXCEPT ![nr % 2] = {}]
    /\ etsEnabled' = restored(isrMask')

\* A variant for mutation testing.
StopIsr_LeftToEnd ==
    /\ pc = "stop"
    /\ Goto("free")
    /\ UNCHANGED <<serialVars, driverVars, isrVars, debugVars, taskQueue>>

\* uart_uninit: uart_stop_isr(uart)
StopIsr ==
    /\ pc = "stop"
    /\ uart_detach(port)
    /\ Goto("free")
    /\ UNCHANGED <<serialVars, driverVars, debugVars, taskQueue>>

\* uart_uninit: the debug output again, then delete.  Nothing touches uartInstances.
FreeUart ==
    /\ pc = "free"
    /\ debugNr' = debugNrWithout(port)
    /\ Delete(uart[caller])
    /\ Goto("clear")
    /\ UNCHANGED <<serialVars, uartInstances, allocated, isrVars, puts, taskQueue>>

\* uart = nullptr
ClearUart ==
    /\ pc = "clear"
    /\ uart' = [uart EXCEPT ![caller] = Null]
    /\ Goto("detach")
    /\ UNCHANGED <<uartNr, delegate, complete, driverVars, isrVars, debugVars, taskQueue>>

\* uart_detach(uartNr) of a port that is open or not, and what follows end().
EndDetach ==
    /\ pc = "detach"
    /\ uart_detach(port)
    /\ uartNr' = IF op = "setPort" THEN [uartNr EXCEPT ![caller] = arg] ELSE uartNr
    /\ IF op = "begin" /\ port >= 0 THEN Goto("init") ELSE Return
    /\ UNCHANGED <<uart, delegate, complete, driverVars, debugVars, taskQueue>>

-----------------------------------------------------------------------------
(* uart_init_ex *)

\* "Already initialised?", or no memory for a structure.
InitRefused ==
    /\ pc = "init"
    /\ Return
    /\ UNCHANGED <<serialVars, driverVars, isrVars, debugVars, taskQueue>>

\* new uart_t, all fields zero but number, mode and options; UART1 reverts to
\* transmit only.
InitNew ==
    /\ pc = "init"
    /\ uart_get_uart(port) = Null
    /\ allocated < MaxInit
    /\ allocated' = allocated + 1 /\ made' = allocated + 1
    /\ heap' = heap \cup {made'}
    /\ uartMode' = [uartMode EXCEPT ![made'] =
                  IF port = UART1 /\ arg # "UART_RX_ONLY" THEN "UART_TX_ONLY" ELSE arg]
    /\ pc' = "rx_buffer" /\ UNCHANGED <<caller, op, arg>>
    /\ UNCHANGED <<serialVars, uartInstances, buffers, param, isrVars, debugVars, taskQueue>>

\* realloc_buffer, for a size that is not zero.
InitBuffer(needed, next) ==
    /\ buffers' = IF needed THEN buffers \cup {<<made, pc>>} ELSE buffers
    /\ Goto(next)
    /\ UNCHANGED <<serialVars, uartInstances, allocated, heap, uartMode, param, isrVars, debugVars,
                   taskQueue>>

\* "uart_interrupt_handler does not support RX on UART 1"
InitRxBuffer ==
    /\ pc = "rx_buffer"
    /\ ~(port = UART1 /\ uartMode[made] = "UART_RX_ONLY")
    /\ InitBuffer(uart_rx_enabled(made), "tx_buffer")

InitTxBuffer ==
    /\ pc = "tx_buffer"
    /\ InitBuffer(uart_tx_enabled(made), "setup")

\* A variant for mutation testing.
InitGivesUp_KeepsBuffer ==
    /\ \/ pc = "rx_buffer" /\ uart_rx_enabled(made)
       \/ pc = "tx_buffer" /\ uart_tx_enabled(made)
    /\ heap' = heap \ {made}
    /\ Return
    /\ UNCHANGED <<serialVars, uartInstances, allocated, buffers, uartMode, param, isrVars,
                   debugVars, taskQueue>>

\* delete uart; return nullptr: no memory for a buffer, or reception only on UART1.
InitGivesUp ==
    /\ \/ pc = "rx_buffer" /\ uart_rx_enabled(made)
       \/ pc = "tx_buffer" /\ uart_tx_enabled(made)
    /\ Delete(made)
    /\ Return
    /\ UNCHANGED <<serialVars, uartInstances, allocated, isrVars, debugVars, taskQueue>>

\* "buffers allocated so setup hardware": uart_detach, pins and baud rate
InitSetup ==
    /\ pc = "setup"
    /\ uart_detach(port)
    /\ Goto("flush")
    /\ UNCHANGED <<serialVars, driverVars, debugVars, taskQueue>>

\* uart_flush: the receive interrupts are enabled before anybody asked for them.
InitFlush ==
    /\ pc = "flush"
    /\ usie' = [usie EXCEPT ![port] = (@ \ {TxSource}) \cup RxSources(made)]
    /\ etsEnabled' = restored(isrMask)
    /\ Goto("enter")
    /\ UNCHANGED <<serialVars, driverVars, isrMask, debugVars, taskQueue>>

\* uartInstances[cfg.uart_nr] = uart
InitEnter ==
    /\ pc = "enter"
    /\ uartInstances' = [uartInstances EXCEPT ![port] = made]
    /\ Goto("usie")
    /\ UNCHANGED <<serialVars, allocated, heap, buffers, uartMode, param, isrVars, debugVars,
                   taskQueue>>

\* uart_start_isr: USIE = usie ...
StartUsie ==
    /\ pc = "usie"
    /\ usie' = [usie EXCEPT ![port] = RxSources(made)]
    /\ Goto("mask")
    /\ UNCHANGED <<serialVars, driverVars, isrMask, etsEnabled, debugVars, taskQueue>>

\* ... then isrMask |= ..; the first to need the interrupt attaches the handler and
\* enables it: until then no interrupt can come in between.
StartMask ==
    /\ pc = "mask"
    /\ isrMask' = isrMask \cup {port}
    /\ etsEnabled' = IF isrMask = {} THEN TRUE ELSE etsEnabled
    /\ Goto("return")
    /\ UNCHANGED <<serialVars, driverVars, usie, debugVars, taskQueue>>

\* uart = uart_init_ex(cfg).  The callback fields of the new structure are zero:
\* begin() does not install the delegates again.
InitReturn ==
    /\ pc = "return"
    /\ uart' = [uart EXCEPT ![caller] = made]
    /\ Return
    /\ UNCHANGED <<uartNr, delegate, complete, driverVars, isrVars, debugVars, taskQueue>>

CallStep ==
    \/ StopIsr \/ FreeUart \/ ClearUart \/ EndDetach
    \/ InitRefused \/ InitNew \/ InitRxBuffer \/ InitTxBuffer \/ InitGivesUp \/ InitSetup
    \/ InitFlush \/ InitEnter \/ StartUsie \/ StartMask \/ InitReturn

-----------------------------------------------------------------------------
(* Callbacks *)

\* updateUartCallback(): installs or removes the interrupt callback.
updateUartCallback(s) ==
    IF uart[s] = Null THEN UNCHANGED param
    ELSE param' = [param EXCEPT ![uart[s]] = IF delegate'[s] \/ complete'[s] THEN s ELSE "none"]

\* onDataReceived(d), and commandProcessing(b) alike
onDataReceived(s, set) ==
    /\ pc = "idle"
    /\ delegate' = [delegate EXCEPT ![s] = set]
    /\ UNCHANGED complete
    /\ updateUartCallback(s)
    /\ UNCHANGED <<uartNr, uart, uartInstances, allocated, heap, buffers, uartMode, isrVars,
                   debugVars, taskQueue, callVars>>

onTransmitComplete(s, set) ==
    /\ pc = "idle"
    /\ complete' = [complete EXCEPT ![s] = set]
    /\ UNCHANGED delegate
    /\ updateUartCallback(s)
    /\ UNCHANGED <<uartNr, uart, uartInstances, allocated, heap, buffers, uartMode, isrVars,
                   debugVars, taskQueue, callVars>>

\* queueCallback, which drops the callback when the queue is full.
queueCallback(q, c) == IF Len(q) < MaxQueue THEN Append(q, c) ELSE q

\* callbackHandler(status), called from the interrupt: transmit complete names
\* the object, data received only the UART number.
callbackHandler(s, rx, tx) ==
    LET afterTx == IF tx /\ complete[s] THEN queueCallback(taskQueue, <<"tx", s>>) ELSE taskQueue
    IN  taskQueue' = IF rx /\ delegate[s] THEN queueCallback(afterTx, <<"rx", uartNr[s]>>)
                     ELSE afterTx

\* uart_isr: handle_uart_interrupt for UART nr.  An interrupt nobody asked for is
\* masked.  Otherwise rx and tx are what the callback is told: an empty transmit
\* FIFO, only if there was nothing to fill it with, and the source is masked then;
\* the receive sources are masked when nothing could be read (blocked).  Without
\* either it is a framing error (UIFR), or a FIFO topped up.
Interrupt(nr, rx, tx, blocked) ==
    /\ etsEnabled
    /\ usie[nr] # {}
    /\ rx => RxSource \in usie[nr]
    /\ tx => TxSource \in usie[nr]
    /\ blocked => rx
    /\ LET p == uartInstances[nr] IN
       IF p = Null \/ nr \notin isrMask
       THEN usie' = [usie EXCEPT ![nr] = {}] /\ UNCHANGED taskQueue
       ELSE /\ usie' = [usie EXCEPT ![nr] = (@ \ (IF tx THEN {TxSource} ELSE {}))
                                               \ (IF blocked THEN {RxSource} ELSE {})]
            /\ IF param[p] # "none" THEN callbackHandler(param[p], rx, tx)
               ELSE UNCHANGED taskQueue
    /\ UNCHANGED <<serialVars, driverVars, isrMask, etsEnabled, debugVars, callVars>>

\* The task queue runs the oldest callback.  The receive callback looks its
\* object up again, through the table and the structure it finds there, and
\* calls the delegate.
RunCallback ==
    /\ pc = "idle"
    /\ taskQueue # <<>>
    /\ taskQueue' = Tail(taskQueue)
    /\ UNCHANGED <<serialVars, driverVars, isrVars, debugVars, callVars>>

\* uart_write and uart_read (Uart has their steps): the interrupts they enable.
uart_write(s) ==
    /\ pc = "idle"
    /\ uart[s] # Null /\ uart_tx_enabled(uart[s])
    /\ usie' = [usie EXCEPT ![uartNr[s]] = @ \cup {TxSource}]
    /\ UNCHANGED <<serialVars, driverVars, isrMask, etsEnabled, debugVars, taskQueue, callVars>>

uart_read(s) ==
    /\ pc = "idle"
    /\ uart[s] # Null /\ uart_rx_enabled(uart[s])
    /\ usie' = [usie EXCEPT ![uartNr[s]] = @ \cup {RxSource}]
    /\ UNCHANGED <<serialVars, driverVars, isrMask, etsEnabled, debugVars, taskQueue, callVars>>

-----------------------------------------------------------------------------
(* Debug output *)

\* systemDebugOutput(true): uart_set_debug, and debugf() output bound to the uart_t.
systemDebugOutputOn(s) ==
    /\ pc = "idle"
    /\ uart[s] # Null /\ uart_tx_enabled(uart[s])
    /\ debugNr' = IF uart_get_uart(uartNr[s]) = Null THEN UART_NO ELSE uartNr[s]
    /\ puts' = uart[s]
    /\ UNCHANGED <<serialVars, driverVars, isrVars, taskQueue, callVars>>

\* systemDebugOutput(true) of a port that cannot transmit: uart_set_debug(UART_NO).
systemDebugOutputDenied(s) ==
    /\ pc = "idle"
    /\ uart[s] # Null /\ ~uart_tx_enabled(uart[s])
    /\ debugNr' = UART_NO
    /\ UNCHANGED <<serialVars, driverVars, isrVars, puts, taskQueue, callVars>>

\* systemDebugOutput(false)
systemDebugOutputOff(s) ==
    /\ pc = "idle"
    /\ uart[s] # Null
    /\ puts' = Null
    /\ debugNr' = debugNrWithout(uartNr[s])
    /\ UNCHANGED <<serialVars, driverVars, isrVars, taskQueue, callVars>>

-----------------------------------------------------------------------------
(* Specifications *)

PortStep(s) ==
    \/ \E m \in UartModes : begin(s, m)
    \/ end(s)
    \/ \E n \in Numbers : setPort(s, n)
    \/ uart_write(s)
    \/ uart_read(s)
    \/ systemDebugOutputOn(s)
    \/ systemDebugOutputDenied(s)
    \/ systemDebugOutputOff(s)
    \/ \E set \in BOOLEAN : onTransmitComplete(s, set) \/ onDataReceived(s, set)

Next ==
    \/ \E s \in Serials : PortStep(s)
    \/ CallStep
    \/ \E nr \in Uarts, rx, tx, blocked \in BOOLEAN : Interrupt(nr, rx, tx, blocked)
    \/ RunCallback

Spec == Init /\ [][Next]_vars

-----------------------------------------------------------------------------
(* Properties *)

Steps ==
    {"idle", "stop", "free", "clear", "detach", "init", "rx_buffer", "tx_buffer", "setup",
     "flush", "enter", "usie", "mask", "return"}

TypeOK ==
    /\ uartNr \in [Serials -> Numbers]
    /\ uart \in [Serials -> Pointers]
    /\ delegate \in [Serials -> BOOLEAN] /\ complete \in [Serials -> BOOLEAN]
    /\ uartInstances \in [Uarts -> Pointers]
    /\ allocated \in 0..MaxInit /\ heap \subseteq 1..allocated
    /\ buffers \subseteq Pointers \X {"rx_buffer", "tx_buffer"}
    /\ uartMode \in [Pointers -> UartModes]
    /\ param \in [Pointers -> Serials \cup {"none"}]
    /\ isrMask \subseteq Uarts /\ usie \in [Uarts -> SUBSET {RxSource, TxSource}]
    /\ etsEnabled \in BOOLEAN
    /\ debugNr \in Numbers /\ puts \in Pointers
    /\ taskQueue \in Seq(({"tx"} \X Serials) \cup ({"rx"} \X Numbers))
    /\ Len(taskQueue) <= MaxQueue
    /\ pc \in Steps /\ made \in Pointers
    /\ IF pc = "idle" THEN Idle ELSE caller \in Serials
    /\ op = "setPort" => arg \in Numbers
    /\ op = "begin" => arg \in UartModes

\* uart_uninit is at work on the structure of port s.
Closing(s) == caller = s /\ pc \in {"free", "clear"}
Open(s) == uart[s] # Null /\ ~Closing(s)

\* An open port owns its UART at every step of every call: its structure is the one
\* in the table, and no other object has it (HardwareSerial.cpp:28-55, uart.cpp:463-553).
OpenPortOwnsUart ==
    \A s \in Serials : Open(s) =>
        /\ Valid(uart[s])
        /\ uartNr[s] \in Uarts
        /\ uartInstances[uartNr[s]] = uart[s]
        /\ \A t \in Serials \ {s} : uartNr[t] # uartNr[s]

\* The interrupt handler never follows a stale pointer, at whatever step of end()
\* or begin() it comes: a UART whose interrupts are handled has a live structure,
\* although the table keeps the pointers of deleted ones, and so has the object its
\* callback belongs to (uart.cpp:232, 288 and 555-592, HardwareSerial.cpp:134-136).
IsrTargetLive ==
    \A nr \in isrMask :
        LET p == uartInstances[nr]
        IN  Valid(p) /\ (param[p] # "none" => Valid(uart[param[p]]))

\* While any step of opening, closing, moving or failing to open one port is taken,
\* the interrupts of every other open port are handled and delivered; and the shared
\* interrupt is on for nobody only while it is off (uart.cpp:85-89, 338-346, 749-757).
OpenPortServed ==
    /\ \A s \in Serials : Open(s) => uartNr[s] \in isrMask /\ etsEnabled
    /\ etsEnabled => \E s \in Serials : uartNr[s] \in isrMask /\ (Open(s) \/ caller = s)

\* System debug output goes to an open port that can transmit, or nowhere
\* (HardwareSerial.cpp:48-50 and 83-90, uart.cpp:561-563).
DebugPortOpen ==
    uart_get_uart(debugNr) # Null =>
        \E s \in Serials : uartNr[s] = debugNr /\ uart[s] # Null /\ uart_tx_enabled(uart[s])

\* Between calls, nobody has lost a structure or a buffer, however uart_init_ex
\* failed: each structure allocated is held by an open port, each buffer by a
\* structure (HardwareSerial.cpp:46-55, uart.cpp:484-542 and 589-591).
NoUartLeak ==
    pc = "idle" =>
        /\ heap = {uart[s] : s \in Serials} \ {Null}
        /\ \A b \in buffers : b[1] \in heap

\* A receive callback on the queue finds the object it is for: the structure it
\* looks up is live and still names it (HardwareSerial.cpp:143-148).
QueuedCallbackSafe ==
    \A i \in 1..Len(taskQueue) :
        taskQueue[i][1] = "rx" =>
            LET p == uart_get_uart(taskQueue[i][2]) IN Valid(p) /\ param[p] # "none"

\* debugf() output is bound to a live structure or to none (HardwareSerial.cpp:87).
NoStalePuts == puts # Null => Valid(puts)

\* "Get the uart structure for the given number ... Returns nullptr if uart isn't
\* initialised" (uart.h:162-164).
GetUartLive == \A nr \in Uarts : uart_get_uart(nr) # Null => Valid(uart_get_uart(nr))

\* The handler disables the sources of a UART "if we haven't asked for interrupts"
\* (uart.cpp:225): those uart_start_isr has just enabled are still enabled when it
\* enters the UART in isrMask (uart.cpp:336-340).
StartedSourcesKept == pc = "mask" => RxSources(made) \subseteq usie[port]

\* end(), which "De-inits the current UART" (HardwareSerial.h:147), leaves the
\* interrupt sources of the other ports alone (HardwareSerial.cpp:54, uart.cpp:749-757).
OthersSourcesKept ==
    [][EndDetach => \A s \in Serials : Open(s) => usie'[uartNr[s]] = usie[uartNr[s]]]_vars
=============================================================================
