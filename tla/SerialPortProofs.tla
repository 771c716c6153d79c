-------------------------- MODULE SerialPortProofs --------------------------
(***************************************************************************)
(* Proofs about SerialPort, for any number of ports, of structures ever    *)
(* allocated and of callbacks waiting, at every step of every call; and,   *)
(* in its second part, about UartConfig, the pins and the clock those      *)
(* ports run on.                                                           *)
(***************************************************************************)
EXTENDS SerialPort, UartConfig, TLAPS

\* uart_init_ex has a structure, which is not in the table yet, or already.
Building == pc \in {"rx_buffer", "tx_buffer", "setup", "flush", "enter"}
Entered == pc \in {"usie", "mask", "return"}

\* No two objects are for one UART, also when setPort() is done, and none has
\* another's structure.
Apart ==
    /\ \A s, t \in Serials : s # t =>
        /\ uartNr[s] = uartNr[t] => uartNr[s] = UART_NO
        /\ uart[s] # Null => uart[s] # uart[t]
    /\ op = "setPort" => \A t \in Serials : t # caller => uartNr[t] # arg \/ arg = UART_NO

\* What the call in progress knows at each of its steps.
AtStep ==
    /\ pc \in {"stop", "free", "clear"} => uart[caller] # Null
    /\ pc \in {"detach", "init"} => uart[caller] = Null
    /\ pc = "init" => op = "begin" /\ port \in Uarts
    /\ pc # "idle" => debugNr # port \/ debugNr = UART_NO

\* The structure uart_init_ex is about to return belongs to nobody else.
NewUart ==
    /\ Building => uartInstances[port] = Null
    /\ Entered => uartInstances[port] = made
    /\ Building \/ Entered =>
          /\ made \in heap /\ port \in Uarts /\ uart[caller] = Null /\ op = "begin"
          /\ \A s \in Serials : uart[s] # made
    /\ ~(Building \/ Entered) => made = Null

\* A port that has a structure has the one of the table; it exists until deleted.
Holds ==
    \A s \in Serials : uart[s] # Null =>
        /\ uartNr[s] \in Uarts
        /\ uartInstances[uartNr[s]] = uart[s]
        /\ (caller = s /\ pc = "clear") \/ uart[s] \in heap

\* Interrupts are handled for the open ports, and for the one just being opened.
Handled ==
    /\ \A s \in Serials : Open(s) => uartNr[s] \in isrMask
    /\ pc = "return" => port \in isrMask
    /\ \A nr \in isrMask : \E s \in Serials :
          uartNr[s] = nr /\ (Open(s) \/ (caller = s /\ pc = "return"))

Shared == etsEnabled <=> isrMask # {}

\* A structure with a callback is that of the object the callback is for.
Callbacks == \A p \in Pointers : param[p] # "none" => p \in heap /\ uart[param[p]] = p

\* Nothing on the heap is lost, at whatever step.
Reachable ==
    /\ \A p \in heap : p = made \/ \E s \in Serials : uart[s] = p
    /\ pc = "clear" => uart[caller] \notin heap
    /\ \A b \in buffers : b[1] \in heap

\* The inductive invariant.  The table keeps pointers to deleted structures, so
\* that it alone never tells which UART is open: the handled interrupts do.
Inv ==
    /\ TypeOK /\ Apart /\ AtStep /\ NewUart /\ Holds /\ Handled /\ Shared /\ Callbacks
    /\ Reachable /\ DebugPortOpen

-----------------------------------------------------------------------------
(* Type correctness *)

LEMMA InitTypeOK == Init => TypeOK
<1> SUFFICES ASSUME Init PROVE TypeOK
  OBVIOUS
<1>1. etsEnabled \in BOOLEAN
  BY DEF Init
<1>2. \A s \in Serials : delegate[s] \in BOOLEAN /\ complete[s] \in BOOLEAN
  BY DEF Init
<1>3. /\ uartNr \in [Serials -> Numbers] /\ uart \in [Serials -> Pointers]
      /\ uartInstances \in [Uarts -> Pointers] /\ allocated \in 0..MaxInit
      /\ heap \subseteq 1..allocated
      /\ buffers \subseteq Pointers \X {"rx_buffer", "tx_buffer"}
      /\ debugNr \in Numbers /\ puts \in Pointers /\ made \in Pointers
  BY BoundsAssumption, PortOfAssumption
  DEF Init, Pointers, Null, UART0, Uarts, Numbers, Idle
<1> QED
  BY <1>1, <1>2, <1>3, BoundsAssumption DEF Init, TypeOK, UartModes, Idle, Steps

\* The numbers and pointers a call works with.
LEMMA CallFacts ==
    ASSUME TypeOK, pc # "idle"
    PROVE  /\ caller \in Serials /\ port \in Numbers /\ port % 2 \in Uarts
           /\ made \in Pointers /\ Null \in Pointers /\ uart[caller] \in Pointers
           /\ allocated \in Nat /\ RxSources(made) \subseteq {RxSource, TxSource}
  BY BoundsAssumption
  DEF TypeOK, port, Numbers, Uarts, UART0, UART1, UART_NO, Pointers, Null, RxSources

\* Detaching a UART keeps the types of the interrupt's state.
LEMMA DetachTypes ==
    ASSUME TypeOK, pc # "idle", uart_detach(port)
    PROVE  /\ isrMask' \subseteq Uarts /\ usie' \in [Uarts -> SUBSET {RxSource, TxSource}]
           /\ etsEnabled' \in BOOLEAN
<1>1. etsEnabled' \in BOOLEAN
  BY DEF uart_detach, restored
<1> QED
  BY <1>1, CallFacts DEF uart_detach, TypeOK

\* Every step of a call keeps the types: in particular no structure is used that
\* was not allocated.
LEMMA CallStepTypeOK == ASSUME TypeOK, AtStep, NewUart, CallStep PROVE TypeOK'
<1> USE BoundsAssumption
<1>0. pc # "idle"
  BY DEF CallStep, StopIsr, FreeUart, ClearUart, EndDetach, InitRefused, InitNew, InitRxBuffer,
     InitTxBuffer, InitGivesUp, InitSetup, InitFlush, InitEnter, StartUsie, StartMask, InitReturn
<1> USE CallFacts, <1>0
<1>1. ASSUME StopIsr \/ InitSetup PROVE TypeOK'
  BY <1>1, DetachTypes DEF StopIsr, InitSetup, TypeOK, Goto, serialVars, driverVars,
     debugVars, Steps, Idle
<1>2. ASSUME FreeUart PROVE TypeOK'
  BY <1>2 DEF FreeUart, TypeOK, Goto, Delete, serialVars, isrVars, Steps, Idle, debugNrWithout,
     Numbers, UartModes
<1>3. ASSUME ClearUart PROVE TypeOK'
  BY <1>3 DEF ClearUart, TypeOK, Goto, driverVars, isrVars, debugVars, Steps, Idle
<1>4. ASSUME EndDetach PROVE TypeOK'
  BY <1>4, DetachTypes DEF EndDetach, TypeOK, Goto, Return, driverVars, debugVars, Steps, Idle
<1>5. ASSUME InitRefused PROVE TypeOK'
  BY <1>5 DEF InitRefused, TypeOK, Return, serialVars, driverVars, isrVars, debugVars, Steps, Idle
<1>6. ASSUME InitNew PROVE TypeOK'
  BY <1>6 DEF InitNew, TypeOK, AtStep, serialVars, isrVars, debugVars, Steps, Idle, UartModes,
     Pointers
<1>7. ASSUME InitRxBuffer \/ InitTxBuffer PROVE TypeOK'
  <2>1. buffers' \subseteq buffers \cup {<<made, pc>>} /\ pc \in {"rx_buffer", "tx_buffer"}
    BY <1>7 DEF InitRxBuffer, InitTxBuffer, InitBuffer
  <2>2. buffers' \subseteq Pointers \X {"rx_buffer", "tx_buffer"}
    BY <2>1 DEF TypeOK
  <2>3. pc' \in Steps \ {"idle"} /\ UNCHANGED <<caller, op, arg, made>>
    BY <1>7 DEF InitRxBuffer, InitTxBuffer, InitBuffer, Goto, Steps
  <2>4. UNCHANGED <<serialVars, uartInstances, allocated, heap, uartMode, param, isrVars, debugVars,
                    taskQueue>>
    BY <1>7 DEF InitRxBuffer, InitTxBuffer, InitBuffer
  <2> QED
    BY <2>2, <2>3, <2>4 DEF TypeOK, serialVars, isrVars, debugVars, Idle
<1>8. ASSUME InitGivesUp PROVE TypeOK'
  BY <1>8 DEF InitGivesUp, TypeOK, Delete, Return, serialVars, isrVars, debugVars, Steps, Idle,
     UartModes
<1>9. ASSUME InitFlush PROVE TypeOK'
  <2>1. port \in Uarts
    BY <1>9 DEF InitFlush, NewUart, Building
  <2>2. usie' \in [Uarts -> SUBSET {RxSource, TxSource}]
    BY <1>9, <2>1 DEF InitFlush, TypeOK
  <2>3. etsEnabled' \in BOOLEAN
    BY <1>9 DEF InitFlush, restored
  <2> QED
    BY <1>9, <2>2, <2>3 DEF InitFlush, TypeOK, Goto, serialVars, driverVars, debugVars, Steps, Idle
<1>10. ASSUME InitEnter PROVE TypeOK'
  BY <1>10 DEF InitEnter, TypeOK, Goto, serialVars, isrVars, debugVars, Steps, Idle
<1>11. ASSUME StartUsie PROVE TypeOK'
  BY <1>11 DEF StartUsie, TypeOK, Goto, serialVars, driverVars, debugVars, Steps, Idle
<1>12. ASSUME StartMask PROVE TypeOK'
  <2>1. port \in Uarts
    BY <1>12 DEF StartMask, NewUart, Entered
  <2>2. etsEnabled' \in BOOLEAN
    BY <1>12 DEF StartMask, TypeOK
  <2> QED
    BY <1>12, <2>1, <2>2 DEF StartMask, TypeOK, Goto, serialVars, driverVars, debugVars, Steps, Idle
<1>13. ASSUME InitReturn PROVE TypeOK'
  BY <1>13 DEF InitReturn, TypeOK, Return, driverVars, isrVars, debugVars, Steps, Idle
<1> QED
  BY <1>1, <1>2, <1>3, <1>4, <1>5, <1>6, <1>7, <1>8, <1>9, <1>10, <1>11, <1>12, <1>13 DEF CallStep

\* So does everything that happens between calls or interrupts them; the queue
\* never holds more callbacks than it has room for.
LEMMA NextTypeOK == TypeOK /\ AtStep /\ NewUart /\ [Next]_vars => TypeOK'
<1> SUFFICES ASSUME TypeOK, AtStep, NewUart, [Next]_vars PROVE TypeOK'
  OBVIOUS
<1> USE BoundsAssumption
<1>1. ASSUME NEW s \in Serials, NEW o \in {"begin", "end", "setPort"}, NEW a, Call(s, o, a),
             o = "setPort" => a \in Numbers, o = "begin" => a \in UartModes
      PROVE  TypeOK'
  BY <1>1 DEF Call, TypeOK, debugNrWithout, serialVars, driverVars, isrVars, Numbers, Steps, Idle
<1>2. ASSUME NEW s \in Serials, uart_write(s) \/ uart_read(s) PROVE TypeOK'
  <2>1. usie' \in [Uarts -> SUBSET {RxSource, TxSource}]
    BY <1>2 DEF uart_write, uart_read, TypeOK
  <2> QED
    BY <1>2, <2>1 DEF uart_write, uart_read, TypeOK, serialVars, driverVars, debugVars, callVars,
       Idle
<1>3. ASSUME NEW s \in Serials,
             systemDebugOutputOn(s) \/ systemDebugOutputDenied(s) \/ systemDebugOutputOff(s)
      PROVE  TypeOK'
  <2>1. debugNr' \in Numbers /\ puts' \in Pointers
    BY <1>3 DEF systemDebugOutputOn, systemDebugOutputDenied, systemDebugOutputOff, TypeOK,
       debugNrWithout, Numbers, Pointers, Null
  <2>2. UNCHANGED <<serialVars, driverVars, isrVars, taskQueue, callVars>>
    BY <1>3 DEF systemDebugOutputOn, systemDebugOutputDenied, systemDebugOutputOff
  <2> QED
    BY <2>1, <2>2 DEF TypeOK, serialVars, driverVars, isrVars, callVars, Idle
<1>4. ASSUME NEW s \in Serials, NEW set \in BOOLEAN,
             onTransmitComplete(s, set) \/ onDataReceived(s, set)
      PROVE  TypeOK'
  <2>1. delegate' \in [Serials -> BOOLEAN] /\ complete' \in [Serials -> BOOLEAN]
    BY <1>4 DEF TypeOK, onTransmitComplete, onDataReceived
  <2>2. param' \in [Pointers -> Serials \cup {"none"}]
    BY <1>4 DEF TypeOK, onTransmitComplete, onDataReceived, updateUartCallback
  <2>3. UNCHANGED <<uartNr, uart, uartInstances, allocated, heap, buffers, uartMode, isrVars,
                    debugVars, taskQueue, callVars>>
    BY <1>4 DEF onTransmitComplete, onDataReceived
  <2> QED
    BY <2>1, <2>2, <2>3 DEF TypeOK, isrVars, debugVars, callVars, Idle
<1>5. ASSUME NEW nr \in Uarts, NEW rx \in BOOLEAN, NEW tx \in BOOLEAN, NEW blocked \in BOOLEAN,
             Interrupt(nr, rx, tx, blocked)
      PROVE  TypeOK'
  <2> DEFINE Calls == ({"tx"} \X Serials) \cup ({"rx"} \X Numbers)
             Room(q) == q \in Seq(Calls) /\ Len(q) <= MaxQueue
  <2>1. ASSUME NEW q, NEW c \in Calls, Room(q) PROVE Room(queueCallback(q, c))
    BY <2>1 DEF queueCallback
  <2>2. ASSUME NEW s \in Serials, callbackHandler(s, rx, tx) PROVE Room(taskQueue')
    <3> <<"tx", s>> \in Calls /\ <<"rx", uartNr[s]>> \in Calls
      BY DEF TypeOK
    <3> Room(taskQueue)
      BY DEF TypeOK
    <3> HIDE DEF Room, Calls
    <3> QED
      BY <2>1, <2>2 DEF callbackHandler
  <2>3. Room(taskQueue')
    <3> uartInstances[nr] \in Pointers
      BY DEF TypeOK
    <3> QED
      BY <1>5, <2>2 DEF Interrupt, TypeOK
  <2>4. usie' \in [Uarts -> SUBSET {RxSource, TxSource}]
    <3> DEFINE left == (usie[nr] \ (IF tx THEN {TxSource} ELSE {})) \ (IF blocked THEN {RxSource} ELSE {})
    <3>1. left \subseteq usie[nr] /\ {} \subseteq usie[nr]
      OBVIOUS
    <3>2. usie' = [usie EXCEPT ![nr] = {}] \/ usie' = [usie EXCEPT ![nr] = left]
      BY <1>5 DEF Interrupt
    <3> HIDE DEF left
    <3> QED
      BY <3>1, <3>2 DEF TypeOK
  <2>5. UNCHANGED <<serialVars, driverVars, isrMask, etsEnabled, debugVars, callVars>>
    BY <1>5 DEF Interrupt
  <2> QED
    BY <2>3, <2>4, <2>5 DEF TypeOK, serialVars, driverVars, debugVars, callVars, Idle
<1>6. ASSUME RunCallback PROVE TypeOK'
  BY <1>6 DEF RunCallback, TypeOK, serialVars, driverVars, isrVars, debugVars, callVars, Idle
<1>7. CASE UNCHANGED vars
  BY <1>7 DEF vars, serialVars, driverVars, isrVars, debugVars, callVars, TypeOK, Idle
<1>8. ASSUME NEW s \in Serials, PortStep(s) PROVE TypeOK'
  BY <1>1, <1>2, <1>3, <1>4, <1>8 DEF PortStep, begin, end, setPort
<1> QED
  BY <1>5, <1>6, <1>7, <1>8, CallStepTypeOK DEF Next

-----------------------------------------------------------------------------
(* Ports that open and close *)

LEMMA InitInv == Init => Inv
<1> SUFFICES ASSUME Init PROVE Inv
  OBVIOUS
<1>1. Shared
  BY Zenon DEF Init, Shared
<1> QED
  BY <1>1, InitTypeOK, PortOfAssumption
  DEF Init, Inv, Apart, AtStep, NewUart, Building, Entered, Holds, Handled, Open, Closing, Callbacks,
      Reachable, DebugPortOpen, uart_get_uart, Idle, Null

\* What a step changes of the state the invariant is about.
portVars == <<uartNr, uart, uartInstances, heap, buffers, uartMode, param>>

\* end(), begin() and setPort() start by taking the debug output away.
LEMMA CallInv ==
    ASSUME NEW s \in Serials, NEW o, NEW a, Inv, TypeOK', Call(s, o, a),
           o = "setPort" => \A t \in Serials \ {s} : uartNr[t] # a \/ a = UART_NO
    PROVE  Inv'
<1>1. /\ UNCHANGED portVars /\ UNCHANGED <<isrMask, etsEnabled, made>> /\ pc = "idle"
      /\ pc' = (IF uart[s] # Null THEN "stop" ELSE "detach") /\ caller' = s /\ op' = o /\ arg' = a
      /\ debugNr' = (IF debugNr = uartNr[s] THEN UART_NO ELSE debugNr)
  BY DEF Call, portVars, serialVars, driverVars, isrVars, debugNrWithout
<1> USE <1>1 DEF portVars
<1>2. Apart' /\ Shared' /\ Callbacks'
  BY DEF Inv, Apart, Shared, Callbacks
<1>3. AtStep'
  BY DEF AtStep, port
<1>4. NewUart' /\ Reachable'
  BY DEF Inv, NewUart, Building, Entered, Reachable
<1>5. Holds' /\ Handled'
  BY DEF Inv, Holds, Handled, Open, Closing
<1>6. DebugPortOpen'
  BY DEF Inv, DebugPortOpen, uart_get_uart, uart_tx_enabled, UART_NO, Uarts, UART0, UART1, Null
<1> QED
  BY <1>2, <1>3, <1>4, <1>5, <1>6 DEF Inv

\* uart_stop_isr, and uart_detach of a closed port with what setPort() does next:
\* a UART is taken out of isrMask that no open port has.
LEMMA StopIsrInv == ASSUME Inv, TypeOK', StopIsr PROVE Inv'
<1>1. /\ UNCHANGED portVars /\ UNCHANGED <<caller, op, arg, made, debugNr>> 
      /\ pc = "stop" /\ pc' = "free" /\ caller \in Serials
      /\ isrMask' = isrMask \ {port}
  BY CallFacts DEF StopIsr, portVars, serialVars, driverVars, debugVars, Goto, uart_detach, Inv
<1>2. Shared'
  BY Zenon DEF StopIsr, uart_detach, restored, Shared
<1> USE <1>1 DEF portVars
<1>3. Apart' /\ AtStep' /\ NewUart' /\ Holds' /\ Callbacks' /\ Reachable'
  BY DEF Inv, Apart, AtStep, NewUart, Building, Entered, Holds, Callbacks, Reachable, port
<1>4. Handled'
  BY DEF Inv, Apart, Holds, AtStep, Handled, Open, Closing, port, TypeOK, UART_NO, Uarts, UART0, UART1
<1>5. DebugPortOpen'
  BY DEF Inv, DebugPortOpen, uart_get_uart, uart_tx_enabled
<1> QED
  BY <1>2, <1>3, <1>4, <1>5 DEF Inv

LEMMA EndDetachInv == ASSUME Inv, TypeOK', EndDetach PROVE Inv'
<1>1. /\ UNCHANGED <<uart, uartInstances, heap, buffers, uartMode, param, debugNr>>
      /\ pc = "detach" /\ caller \in Serials /\ uart[caller] = Null /\ made = Null /\ made' = Null
      /\ isrMask' = isrMask \ {port}
      /\ port \in Numbers
  BY CallFacts DEF EndDetach, driverVars, debugVars, Goto, Return, uart_detach, Inv, AtStep, NewUart,
     Building, Entered
<1>2. Shared'
  BY Zenon DEF EndDetach, uart_detach, restored, Shared
<1>3. \/ pc' = "init" /\ uartNr' = uartNr /\ op = "begin" /\ UNCHANGED <<caller, op, arg>> /\ port \in Uarts
      \/ pc' = "idle" /\ uartNr' = uartNr /\ op' = "none"
      \/ pc' = "idle" /\ op = "setPort" /\ uartNr' = [uartNr EXCEPT ![caller] = arg] /\ op' = "none"
  BY <1>1 DEF EndDetach, Goto, Return, Numbers, Uarts, UART0, UART1, UART_NO
<1>4. /\ \A t \in Serials : t # caller => uartNr'[t] = uartNr[t]
      /\ uartNr \in [Serials -> Numbers]
  BY <1>1, <1>3 DEF Inv, TypeOK
<1>5. Apart'
  BY <1>1, <1>3, <1>4 DEF Inv, Apart
<1>6. AtStep' /\ NewUart' /\ Callbacks' /\ Reachable'
  BY <1>1, <1>3 DEF Inv, AtStep, NewUart, Building, Entered, Callbacks, Reachable, port
<1>7. Holds'
  BY <1>1, <1>3, <1>4 DEF Inv, Holds
<1>8. Handled'
  <2>1. \A t \in Serials : Open(t)' <=> Open(t)
    BY <1>1, <1>3 DEF Open, Closing
  <2>2. \A t \in Serials : Open(t) => t # caller /\ uartNr[t] # port
    BY <1>1 DEF Inv, Open, Holds, Apart, port, Uarts, UART0, UART1, UART_NO
  <2>3. pc' # "return" /\ pc # "return"
    BY <1>1, <1>3
  <2> QED
    BY <1>1, <1>4, <2>1, <2>2, <2>3 DEF Inv, Handled
<1>9. DebugPortOpen'
  <2>1. uart_get_uart(debugNr)' = uart_get_uart(debugNr)
    BY <1>1 DEF uart_get_uart
  <2> QED
    BY <1>1, <1>4, <2>1 DEF Inv, DebugPortOpen, uart_tx_enabled
<1> QED
  BY <1>2, <1>5, <1>6, <1>7, <1>8, <1>9 DEF Inv

\* uart_uninit deletes the structure, which only the port and its callback had.
LEMMA FreeUartInv == ASSUME Inv, TypeOK', FreeUart PROVE Inv'
<1> DEFINE p == uart[caller]
<1>1. /\ UNCHANGED <<uartNr, uart, uartInstances, isrMask, etsEnabled, caller, op, arg, made>>
      /\ pc = "free" /\ pc' = "clear" /\ caller \in Serials /\ p # Null /\ p \in Pointers
      /\ heap' = heap \ {p} /\ buffers' = {b \in buffers : b[1] # p}
      /\ uartMode' = [uartMode EXCEPT ![p] = "UART_FULL"] /\ param' = [param EXCEPT ![p] = "none"]
      /\ debugNr' = (IF debugNr = port THEN UART_NO ELSE debugNr)
  BY CallFacts DEF FreeUart, Delete, serialVars, isrVars, Goto, debugNrWithout, Inv, AtStep
<1>2. /\ \A q \in Pointers : q # p => uartMode'[q] = uartMode[q] /\ param'[q] = param[q]
      /\ param'[p] = "none"
      /\ \A t \in Serials : t # caller => uart[t] # p
  BY <1>1 DEF Inv, TypeOK, Apart
<1> HIDE DEF p
<1>3. Apart' /\ AtStep' /\ Shared'
  BY <1>1 DEF Inv, Apart, AtStep, Shared, port
<1>4. NewUart' /\ Reachable'
  BY <1>1, <1>2 DEF Inv, NewUart, Building, Entered, Reachable, p
<1>5. Holds' /\ Handled'
  BY <1>1, <1>2 DEF Inv, Holds, Handled, Open, Closing, p
<1>6. Callbacks'
  BY <1>1, <1>2 DEF Inv, Callbacks
<1>7. DebugPortOpen'
  <2> SUFFICES ASSUME uart_get_uart(debugNr') # Null
               PROVE  \E t \in Serials : uartNr[t] = debugNr' /\ uart[t] # Null
                                          /\ uartMode'[uart[t]] # "UART_RX_ONLY"
    BY <1>1 DEF DebugPortOpen, uart_get_uart, uart_tx_enabled
  <2>1. debugNr' = debugNr /\ debugNr # port
    BY <1>1 DEF Inv, AtStep, uart_get_uart, UART_NO, Uarts, UART0, UART1
  <2>2. PICK t \in Serials : uartNr[t] = debugNr /\ uart[t] # Null
                              /\ uartMode[uart[t]] # "UART_RX_ONLY"
    BY <2>1 DEF Inv, DebugPortOpen, uart_tx_enabled
  <2>3. t # caller /\ uart[t] \in Pointers
    BY <2>1, <2>2 DEF port, Inv, TypeOK
  <2> QED
    BY <1>2, <2>1, <2>2, <2>3
<1> QED
  BY <1>3, <1>4, <1>5, <1>6, <1>7 DEF Inv

LEMMA ClearUartInv == ASSUME Inv, TypeOK', ClearUart PROVE Inv'
<1>1. /\ UNCHANGED <<uartNr, uartInstances, heap, buffers, uartMode, param, isrMask, etsEnabled,
                     debugNr, caller, op, arg, made>>
      /\ pc = "clear" /\ pc' = "detach" /\ caller \in Serials
      /\ uart' = [uart EXCEPT ![caller] = Null] /\ uart \in [Serials -> Pointers]
  BY CallFacts DEF ClearUart, driverVars, isrVars, debugVars, Goto, Inv, TypeOK
<1>2. /\ uart'[caller] = Null /\ \A t \in Serials : t # caller => uart'[t] = uart[t]
      /\ debugNr # port \/ debugNr = UART_NO
      /\ uart[caller] \notin heap
  BY <1>1 DEF Inv, AtStep, Reachable
<1>3. Apart' /\ AtStep' /\ Shared'
  BY <1>1, <1>2 DEF Inv, Apart, AtStep, Shared, port
<1>4. NewUart' /\ Reachable'
  BY <1>1, <1>2 DEF Inv, NewUart, Building, Entered, Reachable
<1>5. Holds' /\ Handled'
  BY <1>1, <1>2 DEF Inv, Holds, Handled, Open, Closing
<1>6. Callbacks'
  BY <1>1, <1>2 DEF Inv, Callbacks
<1>7. DebugPortOpen'
  BY <1>1, <1>2 DEF Inv, DebugPortOpen, uart_get_uart, uart_tx_enabled, port, UART_NO, Uarts, UART0,
     UART1
<1> QED
  BY <1>3, <1>4, <1>5, <1>6, <1>7 DEF Inv

\* A new structure: its number was never given to anybody.
LEMMA InitNewInv == ASSUME Inv, TypeOK', InitNew PROVE Inv'
<1> DEFINE new == allocated + 1
<1>1. /\ UNCHANGED <<uartNr, uart, uartInstances, buffers, param, isrMask, etsEnabled, debugNr,
                     caller, op, arg>>
      /\ pc = "init" /\ pc' = "rx_buffer" /\ caller \in Serials /\ made' = new
      /\ heap' = heap \cup {new} /\ made = Null
      /\ \A q \in Pointers : q # new => uartMode'[q] = uartMode[q]
      /\ uart_get_uart(port) = Null
  BY CallFacts DEF InitNew, serialVars, isrVars, debugVars, Inv, NewUart, Building, Entered, TypeOK
<1>2. \A s \in Serials : uart[s] # new /\ uart[s] \in Pointers
  BY <1>1 DEF Inv, TypeOK, Holds, Null
<1>3. op = "begin" /\ port \in Uarts /\ uart[caller] = Null
  BY <1>1 DEF Inv, AtStep
<1> HIDE DEF new
<1>4. Apart' /\ AtStep' /\ Shared'
  BY <1>1 DEF Inv, Apart, AtStep, Shared, port
<1>5. NewUart'
  BY <1>1, <1>2, <1>3 DEF NewUart, Building, Entered, port, uart_get_uart
<1>6. Reachable' /\ Holds' /\ Handled' /\ Callbacks'
  <2>1. Reachable'
    <3>1. Null \notin heap
      BY DEF Inv, TypeOK, Null
    <3> QED
      BY <1>1, <3>1 DEF Inv, Reachable
  <2>2. Holds' /\ Handled'
    BY <1>1 DEF Inv, Holds, Handled, Open, Closing
  <2>3. Callbacks'
    BY <1>1 DEF Inv, Callbacks
  <2> QED
    BY <2>1, <2>2, <2>3
<1>7. DebugPortOpen'
  BY <1>1, <1>2 DEF Inv, DebugPortOpen, uart_get_uart, uart_tx_enabled
<1> QED
  BY <1>4, <1>5, <1>6, <1>7 DEF Inv

\* A buffer that cannot be allocated: the structure and the other buffer go.
LEMMA InitGivesUpInv == ASSUME Inv, TypeOK', InitGivesUp PROVE Inv'
<1>1. /\ UNCHANGED <<uartNr, uart, uartInstances, isrMask, etsEnabled, debugNr>>
      /\ Building /\ pc # "clear" /\ pc # "free" /\ pc # "return" /\ pc' = "idle" /\ op' = "none"
      /\ caller' = "none" /\ made' = Null
      /\ heap' = heap \ {made} /\ buffers' = {b \in buffers : b[1] # made}
      /\ uartMode' = [uartMode EXCEPT ![made] = "UART_FULL"]
      /\ param' = [param EXCEPT ![made] = "none"]
  BY DEF InitGivesUp, Delete, Return, serialVars, isrVars, debugVars, Building
<1>2. /\ \A q \in Pointers : q # made => uartMode'[q] = uartMode[q] /\ param'[q] = param[q]
      /\ param'[made] = "none" /\ made \in Pointers
      /\ \A s \in Serials : uart[s] # made /\ uart[s] \in Pointers
  BY <1>1 DEF Inv, TypeOK, NewUart
<1>3. Apart' /\ AtStep' /\ NewUart' /\ Shared'
  BY <1>1 DEF Inv, Apart, AtStep, NewUart, Building, Entered, Shared
<1>4. Reachable'
  BY <1>1, <1>2 DEF Inv, Reachable
<1>5. Holds' /\ Handled'
  BY <1>1, <1>2 DEF Inv, Holds, Handled, Open, Closing
<1>6. Callbacks'
  BY <1>1, <1>2 DEF Inv, Callbacks
<1>7. DebugPortOpen'
  BY <1>1, <1>2 DEF Inv, DebugPortOpen, uart_get_uart, uart_tx_enabled
<1> QED
  BY <1>3, <1>4, <1>5, <1>6, <1>7 DEF Inv

\* The steps of uart_init_ex that change neither the table nor isrMask.
LEMMA InitStepInv ==
    ASSUME Inv, TypeOK', InitRefused \/ InitRxBuffer \/ InitTxBuffer \/ InitFlush \/ StartUsie
    PROVE  Inv'
<1>1. /\ UNCHANGED <<uartNr, uart, uartInstances, heap, uartMode, param, isrMask, debugNr>>
      /\ pc \in {"init", "rx_buffer", "tx_buffer", "flush", "usie"}
      /\ buffers' \subseteq buffers \cup {<<made, pc>>}
      /\ pc = "init" => buffers' = buffers
      /\ \/ pc = "init" /\ pc' = "idle" /\ op' = "none" /\ made' = Null
         \/ /\ \/ pc = "rx_buffer" /\ pc' = "tx_buffer"
               \/ pc = "tx_buffer" /\ pc' = "setup"
               \/ pc = "flush" /\ pc' = "enter"
               \/ pc = "usie" /\ pc' = "mask"
            /\ UNCHANGED <<caller, op, arg, made>>
  BY DEF InitRefused, InitRxBuffer, InitTxBuffer, InitBuffer, InitFlush, StartUsie, serialVars,
     driverVars, isrVars, debugVars, Goto, Return
<1>2. Shared'
  <2>1. InitFlush => Shared'
    BY Zenon DEF InitFlush, restored, Shared
  <2>2. InitRefused \/ InitRxBuffer \/ InitTxBuffer \/ StartUsie => UNCHANGED <<isrMask, etsEnabled>>
    BY DEF InitRefused, InitRxBuffer, InitTxBuffer, InitBuffer, StartUsie, isrVars
  <2> QED
    BY <2>1, <2>2 DEF Inv, Shared
<1>3. Apart' /\ AtStep' /\ NewUart'
  BY <1>1 DEF Inv, Apart, AtStep, NewUart, Building, Entered, port
<1>4. Reachable'
  <2>1. pc # "init" => made \in heap
    BY <1>1 DEF Inv, NewUart, Building, Entered
  <2>2. made' = made
    BY <1>1 DEF Inv, NewUart, Building, Entered
  <2> QED
    BY <1>1, <2>1, <2>2 DEF Inv, Reachable
<1>5. Holds' /\ Handled' /\ Callbacks'
  BY <1>1 DEF Inv, Holds, Handled, Open, Closing, Callbacks
<1>6. DebugPortOpen'
  BY <1>1 DEF Inv, DebugPortOpen, uart_get_uart, uart_tx_enabled
<1> QED
  BY <1>2, <1>3, <1>4, <1>5, <1>6 DEF Inv

\* uart_detach by uart_init_ex, then the table, and isrMask: of the UART that the
\* port being opened has for itself.
LEMMA InitSharedInv ==
    ASSUME Inv, TypeOK', InitSetup \/ InitEnter \/ StartMask
    PROVE  Inv'
<1>1. /\ UNCHANGED <<uartNr, uart, heap, buffers, uartMode, param, debugNr, caller, op, arg, made>>
      /\ \/ pc = "setup" /\ pc' = "flush" /\ uartInstances' = uartInstances
            /\ isrMask' = isrMask \ {port}
         \/ pc = "enter" /\ pc' = "usie" /\ isrMask' = isrMask
            /\ uartInstances' = [uartInstances EXCEPT ![port] = made]
         \/ pc = "mask" /\ pc' = "return" /\ uartInstances' = uartInstances
            /\ isrMask' = isrMask \cup {port}
  BY DEF InitSetup, InitEnter, StartMask, uart_detach, serialVars, driverVars, isrVars, debugVars, Goto
<1>2. /\ caller \in Serials /\ port \in Uarts /\ uart[caller] = Null /\ (Building \/ Entered)
      /\ debugNr # port
  BY <1>1, CallFacts DEF Inv, NewUart, Building, Entered, AtStep, UART_NO, Uarts, UART0, UART1
<1>3. Shared'
  <2>1. InitSetup => Shared'
    BY Zenon DEF InitSetup, uart_detach, restored, Shared
  <2>2. InitEnter => UNCHANGED <<isrMask, etsEnabled>>
    BY DEF InitEnter, isrVars
  <2>3. ASSUME StartMask PROVE Shared'
    <3>1. isrMask' # {}
      BY <2>3 DEF StartMask
    <3>2. etsEnabled'
      <4>1. CASE isrMask = {}
        BY <2>3, <4>1, Zenon DEF StartMask
      <4>2. CASE isrMask # {}
        <5>1. etsEnabled' = etsEnabled
          BY <2>3, <4>2, Zenon DEF StartMask
        <5>2. etsEnabled
          BY <4>2, Zenon DEF Inv, Shared
        <5> QED
          BY <5>1, <5>2
      <4> QED
        BY <4>1, <4>2
    <3> QED
      BY <3>1, <3>2, Zenon DEF Shared
  <2>4. InitEnter => Shared'
    BY <2>2 DEF Inv, Shared
  <2> QED
    BY <2>1, <2>3, <2>4
<1>4. \A t \in Serials : Open(t) => t # caller /\ uartNr[t] # port /\ uartNr[t] \in Uarts
  BY <1>2 DEF Inv, Open, Holds, Apart, port, UART_NO, Uarts, UART0, UART1
<1>5. \A n \in Uarts : n # port => uartInstances'[n] = uartInstances[n]
  BY <1>1 DEF Inv, TypeOK
<1>6. Apart' /\ AtStep' /\ Reachable' /\ Callbacks'
  BY <1>1 DEF Inv, Apart, AtStep, Reachable, Callbacks, port
<1>7. NewUart'
  BY <1>1, <1>2 DEF Inv, NewUart, Building, Entered, port, TypeOK
<1>8. Holds'
  <2>1. pc # "clear" /\ pc # "free" /\ pc' # "clear"
    BY <1>1
  <2> QED
    BY <1>1, <1>4, <1>5, <2>1 DEF Inv, Holds, Open, Closing
<1>9. Handled'
  <2>1. \A t \in Serials : Open(t)' <=> Open(t)
    BY <1>1 DEF Open, Closing
  <2>2. pc # "return" /\ (pc' = "return" => isrMask' = isrMask \cup {port}) /\ port' = port
    BY <1>1 DEF port
  <2>3. \A n \in isrMask : \E t \in Serials : uartNr[t] = n /\ Open(t)
    BY <2>2 DEF Inv, Handled
  <2>4. ASSUME NEW n \in isrMask'
        PROVE  \E t \in Serials : uartNr[t] = n /\ (Open(t) \/ (caller = t /\ pc' = "return"))
    <3>1. CASE n \in isrMask
      BY <2>3, <3>1
    <3>2. CASE n \notin isrMask
      BY <1>1, <1>2, <2>4, <3>2 DEF port
    <3> QED
      BY <3>1, <3>2
  <2>5. \A t \in Serials : Open(t) => uartNr[t] \in isrMask'
    BY <1>1, <1>4 DEF Inv, Handled
  <2> QED
    BY <1>1, <2>1, <2>2, <2>4, <2>5 DEF Handled
<1>10. DebugPortOpen'
  <2>1. uart_get_uart(debugNr)' = uart_get_uart(debugNr)
    BY <1>1, <1>2, <1>5 DEF uart_get_uart
  <2> QED
    BY <1>1, <2>1 DEF Inv, DebugPortOpen, uart_tx_enabled
<1> QED
  BY <1>3, <1>6, <1>7, <1>8, <1>9, <1>10 DEF Inv

\* uart_init_ex returns: the port has the structure that the table has.
LEMMA InitReturnInv == ASSUME Inv, TypeOK', InitReturn PROVE Inv'
<1>1. /\ UNCHANGED <<uartNr, uartInstances, heap, buffers, uartMode, param, isrMask, etsEnabled,
                     debugNr>>
      /\ pc = "return" /\ pc' = "idle" /\ op' = "none" /\ made' = Null /\ caller \in Serials
      /\ uart' = [uart EXCEPT ![caller] = made]
  BY CallFacts DEF InitReturn, driverVars, isrVars, debugVars, Return, Inv
<1>2. /\ made \in heap /\ made # Null /\ port \in Uarts /\ uart[caller] = Null
      /\ uartInstances[port] = made /\ (\A s \in Serials : uart[s] # made) /\ port \in isrMask
  BY <1>1 DEF Inv, NewUart, Entered, Handled, TypeOK, Null
<1>3. uart'[caller] = made /\ \A t \in Serials : t # caller => uart'[t] = uart[t]
  BY <1>1 DEF Inv, TypeOK
<1>4. Apart' /\ AtStep' /\ NewUart' /\ Shared'
  BY <1>1, <1>2, <1>3 DEF Inv, Apart, AtStep, NewUart, Building, Entered, Shared
<1>5. Reachable'
  BY <1>1, <1>2, <1>3 DEF Inv, Reachable
<1>6. Holds'
  BY <1>1, <1>2, <1>3 DEF Inv, Holds, port
<1>7. Handled'
  <2>1. \A t \in Serials : Open(t)' <=> (Open(t) \/ t = caller)
    BY <1>1, <1>2, <1>3 DEF Open, Closing
  <2> QED
    BY <1>1, <1>2, <2>1 DEF Inv, Handled, port
<1>8. Callbacks'
  <2>1. Null \notin heap
    BY DEF Inv, TypeOK, Null
  <2>2. \A p \in Pointers : param[p] # "none" =>
            p \in heap /\ param[p] \in Serials /\ uart[param[p]] = p
    BY DEF Inv, TypeOK, Callbacks
  <2> QED
    BY <1>1, <1>2, <1>3, <2>1, <2>2 DEF Callbacks
<1>9. DebugPortOpen'
  BY <1>1, <1>2, <1>3 DEF Inv, DebugPortOpen, uart_get_uart, uart_tx_enabled
<1> QED
  BY <1>4, <1>5, <1>6, <1>7, <1>8, <1>9 DEF Inv

-----------------------------------------------------------------------------
(* Theorems *)

\* The debug output is given to an open port, whose structure the table has.
LEMMA DebugInv ==
    ASSUME NEW s \in Serials, Inv, TypeOK', pc = "idle",
           systemDebugOutputOn(s) \/ systemDebugOutputDenied(s) \/ systemDebugOutputOff(s)
    PROVE  Inv'
<1>1. UNCHANGED <<uartNr, uart, uartInstances, heap, buffers, uartMode, param, isrMask, etsEnabled,
                  callVars>>
  BY DEF systemDebugOutputOn, systemDebugOutputDenied, systemDebugOutputOff, serialVars, driverVars,
     isrVars
<1>2. DebugPortOpen'
  BY <1>1 DEF systemDebugOutputOn, systemDebugOutputDenied, systemDebugOutputOff, Inv, DebugPortOpen,
     debugNrWithout, uart_get_uart, uart_tx_enabled, UART_NO, Uarts, UART0, UART1
<1>3. Apart' /\ AtStep' /\ NewUart' /\ Holds' /\ Handled' /\ Shared' /\ Callbacks' /\ Reachable'
  BY <1>1 DEF Inv, Apart, AtStep, NewUart, Building, Entered, Holds, Handled, Open, Closing, Shared,
     Callbacks, Reachable, port, callVars
<1> QED
  BY <1>2, <1>3 DEF Inv

\* Setting a delegate gives an open port's structure the callback of that port.
LEMMA DelegateInv ==
    ASSUME NEW s \in Serials, NEW set \in BOOLEAN, Inv, TypeOK',
           onTransmitComplete(s, set) \/ onDataReceived(s, set)
    PROVE  Inv'
<1>1. /\ UNCHANGED <<uartNr, uart, uartInstances, heap, buffers, uartMode, isrMask, etsEnabled,
                     debugNr, callVars>>
      /\ pc = "idle" /\ updateUartCallback(s)
  BY DEF onTransmitComplete, onDataReceived, isrVars, debugVars
<1>2. Callbacks'
  <2>1. CASE uart[s] = Null
    BY <1>1, <2>1 DEF Inv, Callbacks, updateUartCallback
  <2>2. CASE uart[s] # Null
    <3>1. uart[s] \in heap /\ uart[s] \in Pointers
      BY <1>1, <2>2 DEF Inv, Holds, TypeOK
    <3>2. /\ param'[uart[s]] \in {s, "none"}
          /\ \A p \in Pointers : p # uart[s] => param'[p] = param[p]
      BY <1>1, <2>2, <3>1 DEF updateUartCallback, Inv, TypeOK
    <3> QED
      BY <1>1, <3>1, <3>2 DEF Inv, Callbacks
  <2> QED
    BY <2>1, <2>2
<1>3. Apart' /\ AtStep' /\ NewUart' /\ Holds' /\ Handled' /\ Shared' /\ Reachable'
  BY <1>1 DEF Inv, Apart, AtStep, NewUart, Building, Entered, Holds, Handled, Open, Closing, Shared,
     Reachable, port, callVars
<1>4. DebugPortOpen'
  BY <1>1 DEF Inv, DebugPortOpen, uart_get_uart, uart_tx_enabled
<1> QED
  BY <1>2, <1>3, <1>4 DEF Inv

\* Interrupts, callbacks, and reading and writing leave what the ports share alone.
LEMMA NextInv == Inv /\ [Next]_vars => Inv'
<1> SUFFICES ASSUME Inv, [Next]_vars PROVE Inv'
  OBVIOUS
<1>0. TypeOK'
  BY NextTypeOK DEF Inv
<1>1. ASSUME NEW s \in Serials, end(s) \/ \E m \in UartModes : begin(s, m)
      PROVE  Inv'
  BY <1>0, <1>1, CallInv DEF begin, end
<1>2. ASSUME NEW s \in Serials, NEW n \in Numbers, setPort(s, n) PROVE Inv'
  BY <1>0, <1>2, CallInv DEF setPort
<1>3. ASSUME NEW s \in Serials,
             systemDebugOutputOn(s) \/ systemDebugOutputDenied(s) \/ systemDebugOutputOff(s)
      PROVE  Inv'
  BY <1>0, <1>3, DebugInv DEF systemDebugOutputOn, systemDebugOutputDenied, systemDebugOutputOff
<1>4. ASSUME NEW s \in Serials, NEW set \in BOOLEAN,
             onTransmitComplete(s, set) \/ onDataReceived(s, set)
      PROVE  Inv'
  BY <1>0, <1>4, DelegateInv
<1>5. CASE CallStep
  BY <1>0, <1>5, StopIsrInv, FreeUartInv, ClearUartInv, EndDetachInv, InitNewInv, InitGivesUpInv,
     InitStepInv, InitSharedInv, InitReturnInv DEF CallStep
<1>6. ASSUME UNCHANGED <<portVars, isrMask, etsEnabled, debugNr, callVars>> PROVE Inv'
  <2>1. Apart' /\ AtStep' /\ NewUart' /\ Holds' /\ Handled' /\ Shared' /\ Callbacks' /\ Reachable'
    BY <1>6 DEF Inv, Apart, AtStep, NewUart, Building, Entered, Holds, Handled, Open, Closing, Shared,
       Callbacks, Reachable, port, callVars, portVars
  <2>2. DebugPortOpen'
    BY <1>6 DEF Inv, DebugPortOpen, uart_get_uart, uart_tx_enabled, portVars
  <2> QED
    BY <1>0, <2>1, <2>2 DEF Inv
<1>7. ASSUME \/ UNCHANGED vars
             \/ RunCallback
             \/ \E nr \in Uarts, rx, tx, blocked \in BOOLEAN : Interrupt(nr, rx, tx, blocked)
             \/ \E s \in Serials : uart_write(s) \/ uart_read(s)
      PROVE  UNCHANGED <<portVars, isrMask, etsEnabled, debugNr, callVars>>
  BY <1>7 DEF vars, serialVars, driverVars, isrVars, debugVars, portVars, RunCallback, Interrupt,
     uart_write, uart_read
<1> QED
  BY <1>1, <1>2, <1>3, <1>4, <1>5, <1>6, <1>7 DEF Next, PortStep

\* Type correctness: every pointer a port or the driver keeps is to a structure
\* that was allocated, and the queue of callbacks never outgrows its length.
THEOREM TypeCorrect == Spec => []TypeOK
<1>1. Inv => TypeOK
  BY DEF Inv
<1> QED
  BY InitInv, NextInv, <1>1, PTL DEF Spec

\* HardwareSerial.cpp:28-55, uart.cpp:463-592: at every step of opening, closing and
\* moving ports, an open one owns its UART, and the table has its structure.
THEOREM PortsOwnUarts == Spec => []OpenPortOwnsUart
<1>1. Inv => OpenPortOwnsUart
  BY DEF Inv, Holds, Apart, OpenPortOwnsUart, Open, Closing, Valid, UART_NO, Uarts, UART0, UART1
<1> QED
  BY InitInv, NextInv, <1>1, PTL DEF Spec

\* HardwareSerial.cpp:46-55, uart.cpp:484-542 and 589-591: whatever allocation fails
\* and whatever is closed, no structure and no buffer is lost.
THEOREM NoLeak == Spec => []NoUartLeak
<1>1. Inv => NoUartLeak
  <2> SUFFICES ASSUME Inv, pc = "idle"
               PROVE  heap = {uart[s] : s \in Serials} \ {Null} /\ \A b \in buffers : b[1] \in heap
    BY DEF NoUartLeak
  <2>1. Null \notin heap /\ made = Null
    BY DEF Inv, TypeOK, NewUart, Building, Entered, Null
  <2> QED
    BY <2>1 DEF Inv, Reachable, Holds
<1> QED
  BY InitInv, NextInv, <1>1, PTL DEF Spec

\* uart.cpp:232, 288 and 555-592: between whichever two steps of a call the interrupt
\* comes, the handler follows no pointer to a deleted structure, nor does the callback.
THEOREM IsrSafe == Spec => []IsrTargetLive
<1>1. Inv => IsrTargetLive
  <2> SUFFICES ASSUME Inv, NEW nr \in isrMask
               PROVE  LET p == uartInstances[nr]
                      IN  p \in heap /\ (param[p] # "none" => uart[param[p]] \in heap)
    BY DEF IsrTargetLive, Valid
  <2>1. uartInstances[nr] \in heap
    BY DEF Inv, Handled, Open, Closing, Holds, NewUart, Entered, port
  <2> QED
    BY <2>1 DEF Inv, Callbacks, TypeOK, Pointers
<1> QED
  BY InitInv, NextInv, <1>1, PTL DEF Spec

\* uart.cpp:85-89, 338-346 and 749-757: no step of a call of one port takes the
\* interrupt from another that is open, although only the first to be opened ever
\* enables it; and it is on only while some port needs it.
THEOREM InterruptShared == Spec => []OpenPortServed
<1>1. Inv => OpenPortServed
  <2> SUFFICES ASSUME Inv PROVE OpenPortServed
    OBVIOUS
  <2>1. \A s \in Serials : Open(s) => uartNr[s] \in isrMask
    BY DEF Inv, Handled
  <2>2. isrMask # {} => etsEnabled
    BY Zenon DEF Inv, Shared
  <2>3. etsEnabled => isrMask # {}
    BY Zenon DEF Inv, Shared
  <2>4. isrMask # {} => \E s \in Serials : uartNr[s] \in isrMask /\ (Open(s) \/ caller = s)
    BY DEF Inv, Handled
  <2> QED
    BY <2>1, <2>2, <2>3, <2>4, Zenon DEF OpenPortServed
<1> QED
  BY InitInv, NextInv, <1>1, PTL DEF Spec

\* HardwareSerial.cpp:48-50: system debug output goes to an open port that can
\* transmit, or nowhere.
THEOREM DebugSafe == Spec => []DebugPortOpen
<1>1. Inv => DebugPortOpen
  BY DEF Inv
<1> QED
  BY InitInv, NextInv, <1>1, PTL DEF Spec

-----------------------------------------------------------------------------
(* The pins and the clock divider of UART0 (UartConfig), which HardwareSerial *)
(* sets with begin(), swap(), setTx(), pins() and setBaudRate(): for any set  *)
(* of modes, any clock and any baud rates.                                    *)

PinTypes ==
    /\ mode \in {"UART_FULL", "UART_RX_ONLY", "UART_TX_ONLY", "closed"}
    /\ gpf \in [Pins -> 0..4]

Flags == ioswap \in BOOLEAN /\ uart1 \in BOOLEAN

\* The pins UART0 may be on in each mode: only these three pairs when it is full duplex.
PinsOfMode ==
    /\ mode = "closed" => tx_pin = NoPin /\ rx_pin = NoPin
    /\ mode = "UART_FULL" => \/ tx_pin = 1 /\ rx_pin = 3
                             \/ tx_pin = 2 /\ rx_pin = 3
                             \/ tx_pin = 15 /\ rx_pin = 13
    /\ mode = "UART_RX_ONLY" => tx_pin = NoPin /\ rx_pin \in {3, 13}
    /\ mode = "UART_TX_ONLY" => tx_pin \in {1, 2, 15} /\ rx_pin = NoPin

\* The two UARTs never share pin 2.
Pin2Apart == uart1 => tx_pin # 2

\* The two parts of PinsConsistent.
FunctionsOfPins == \A p \in Pins : gpf[p] = FunctionOf(p)
MatrixOfPins == mode # "closed" => (ioswap <=> (tx_pin = 15 \/ rx_pin = 13))

PinParts == PinTypes /\ PinsOfMode /\ Pin2Apart /\ FunctionsOfPins /\ MatrixOfPins

\* The inductive invariant.  That a full-duplex UART0 is on one of three pairs is
\* what lets uart_set_pins decide where to go from one of the two pins alone.
WiringInv == Flags /\ PinParts /\ FullPinsHonoured

LEMMA WiringInit == ConfigInit => WiringInv
<1> SUFFICES ASSUME ConfigInit PROVE WiringInv
  OBVIOUS
<1>1. Flags
  BY Zenon DEF Flags, ConfigInit
<1>2. PinParts /\ FullPinsHonoured
  BY DEF ConfigInit, PinParts, PinTypes, PinsOfMode, Pin2Apart, FunctionsOfPins, FunctionOf, MatrixOfPins,
         FullPinsHonoured, Pins, NoPin, GPFFS_GPIO
<1> QED BY <1>1, <1>2 DEF WiringInv

\* The flags are set by uart_init_ex, uart_swap and the two calls for UART1 only.
LEMMA FlagsKept == Flags /\ [ConfigNext]_configVars => Flags'
<1> SUFFICES ASSUME Flags, [ConfigNext]_configVars PROVE Flags'
  OBVIOUS
<1>1. ASSUME NEW m, NEW t, NEW b, uart_init(m, t, b) PROVE Flags'
  BY <1>1, Zenon DEF Flags, uart_init
<1>2. CASE uart_uninit
  BY <1>2, Zenon DEF Flags, uart_uninit
<1>3. CASE uart1_init \/ uart1_uninit
  BY <1>3, Zenon DEF Flags, uart1_init, uart1_uninit
<1>4. ASSUME NEW t, uart_swap(t) \/ uart_set_tx(t) PROVE Flags'
  BY <1>4, Zenon DEF Flags, uart_swap, uart_set_tx, Swap, SetTx,
                     OnStandardPins
<1>5. ASSUME NEW tx, NEW rx, uart_set_pins(tx, rx) PROVE Flags'
  BY <1>5, Zenon DEF Flags, uart_set_pins, Swap, SetTx, OnStandardPins
<1>6. ASSUME NEW b, uart_set_baudrate(b) PROVE Flags'
  BY <1>6, Zenon DEF Flags, uart_set_baudrate
<1>7. CASE UNCHANGED configVars
  BY <1>7, Zenon DEF Flags, configVars
<1> QED BY <1>1, <1>2, <1>3, <1>4, <1>5, <1>6, <1>7, Zenon DEF ConfigNext

\* uart_init_ex opens a closed UART0 on its standard pins (uart.cpp:496-538).
LEMMA InitPins ==
  ASSUME PinParts, NEW m \in Modes, NEW t \in {1, 2}, NEW b, uart_init(m, t, b)
  PROVE  PinParts'
<1> USE DEF PinParts, PinTypes, PinsOfMode, Pin2Apart, FunctionsOfPins, FunctionOf, MatrixOfPins,
            Pins, NoPin, SetPins, pinMode, GPFFS_GPIO, GPFFS_BUS, uart_init, Pin2Free
<1>1. CASE m = "UART_FULL"
  BY <1>1
<1>2. CASE m = "UART_RX_ONLY"
  BY <1>2
<1>3. CASE m = "UART_TX_ONLY"
  BY <1>3
<1> QED BY <1>1, <1>2, <1>3, ModesAssumption

\* uart_uninit makes inputs of the pins of UART0 (uart.cpp:565-587), and leaves
\* pin 2 to UART1.
LEMMA UninitPins == ASSUME PinParts, uart_uninit PROVE PinParts'
  BY DEF PinParts, PinTypes, PinsOfMode, Pin2Apart, FunctionsOfPins, FunctionOf, MatrixOfPins,
         Pins, NoPin, SetPins, pinMode, GPFFS_GPIO, GPFFS_BUS, uart_uninit

\* Opening and closing UART1 touches pin 2 only, which UART0 is not on.
LEMMA Uart1Pins == ASSUME PinParts, uart1_init \/ uart1_uninit PROVE PinParts'
<1> USE DEF PinParts, PinTypes, PinsOfMode, Pin2Apart, FunctionsOfPins, FunctionOf, MatrixOfPins,
            Pins, NoPin, SetPins, pinMode, GPFFS_GPIO, GPFFS_BUS
<1>1. CASE uart1_init
  BY <1>1 DEF uart1_init
<1>2. CASE uart1_uninit
  BY <1>2 DEF uart1_uninit
<1> QED BY <1>1, <1>2

\* The pins a swap leaves, those it goes to, and what the latter become.
LeftPins == (IF tx_enabled THEN {tx_pin} ELSE {}) \cup (IF rx_enabled THEN {rx_pin} ELSE {})
SwapTx(t) == IF OnStandardPins THEN 15 ELSE IF t = 2 THEN 2 ELSE 1
SwapRx == IF OnStandardPins THEN 13 ELSE 3
TakenPins(t) == (IF tx_enabled THEN {SwapTx(t)} ELSE {}) \cup (IF rx_enabled THEN {SwapRx} ELSE {})
SwapFunction(t, p) ==
    IF OnStandardPins THEN "FUNCTION_4"
    ELSE IF p = SwapTx(t) /\ t = 2 THEN "FUNCTION_4" ELSE "SPECIAL"

\* What a swap makes of each pin.
LEMMA SwapFunctions ==
  ASSUME PinTypes, NEW t \in {1, 2, 15}, Swap(t)
  PROVE  /\ gpf' \in [Pins -> 0..4]
         /\ \A p \in Pins :
              gpf'[p] = IF p \in TakenPins(t) THEN pinMode(p, SwapFunction(t, p))
                        ELSE IF p \in LeftPins THEN GPFFS_GPIO(p)
                        ELSE gpf[p]
<1> DEFINE calls == [p \in LeftPins \cup TakenPins(t) |->
                      IF p \in TakenPins(t) THEN SwapFunction(t, p) ELSE "INPUT"]
<1>1. gpf' = [p \in Pins |-> IF p \in DOMAIN calls THEN pinMode(p, calls[p]) ELSE gpf[p]]
  BY DEF Swap, SetPins, LeftPins, TakenPins, SwapTx, SwapRx, SwapFunction
<1>2. /\ DOMAIN calls = LeftPins \cup TakenPins(t)
      /\ \A p \in TakenPins(t) : calls[p] = SwapFunction(t, p)
      /\ \A p \in LeftPins \ TakenPins(t) : calls[p] = "INPUT"
  OBVIOUS
<1> HIDE DEF calls
<1>3. \A p, m : pinMode(p, m) \in 0..4 /\ pinMode(p, "INPUT") = GPFFS_GPIO(p)
  BY DEF pinMode, GPFFS_BUS, GPFFS_GPIO
<1>4. \A p \in Pins : gpf'[p] = IF p \in DOMAIN calls THEN pinMode(p, calls[p]) ELSE gpf[p]
  BY <1>1
<1>5. gpf' \in [Pins -> 0..4]
  BY <1>1, <1>3 DEF PinTypes
<1> QED
  BY <1>2, <1>3, <1>4, <1>5

\* uart_swap moves UART0 away from its standard pins, or back to them, in every
\* mode (uart.cpp:611-666); a full-duplex one moves with both pins.
LEMMA SwapPins ==
  ASSUME PinParts, Flags, mode # "closed", NEW t \in {1, 2, 15}, Swap(t),
         mode' = mode, uart1' = uart1
  PROVE  /\ PinParts'
         /\ mode = "UART_FULL" => IF tx_pin = 15 THEN tx_pin' = (IF t = 2 THEN 2 ELSE 1) /\ rx_pin' = 3
                                  ELSE tx_pin' = 15 /\ rx_pin' = 13
<1> USE DEF PinParts, OnStandardPins, tx_enabled, rx_enabled, Pins, NoPin
<1> DEFINE away == (tx_pin \in {1, 2} /\ mode # "UART_RX_ONLY") \/ (rx_pin = 3 /\ mode # "UART_TX_ONLY")
<1>1. /\ ioswap' = away
      /\ tx_pin' = IF mode # "UART_RX_ONLY" THEN (IF away THEN 15 ELSE IF t = 2 THEN 2 ELSE 1) ELSE tx_pin
      /\ rx_pin' = IF mode # "UART_TX_ONLY" THEN (IF away THEN 13 ELSE 3) ELSE rx_pin
      /\ ~away /\ mode # "UART_RX_ONLY" /\ t = 2 => ~uart1
  BY DEF Swap, Pin2Free
<1>2. PinTypes'
  BY SwapFunctions DEF PinTypes
<1>3. /\ PinsOfMode'
      /\ mode = "UART_FULL" => IF tx_pin = 15 THEN tx_pin' = (IF t = 2 THEN 2 ELSE 1) /\ rx_pin' = 3
                               ELSE tx_pin' = 15 /\ rx_pin' = 13
  <2>1. CASE mode = "UART_FULL"
    BY <1>1, <2>1 DEF PinsOfMode
  <2>2. CASE mode = "UART_RX_ONLY"
    BY <1>1, <2>2 DEF PinsOfMode
  <2>3. CASE mode = "UART_TX_ONLY"
    BY <1>1, <2>3 DEF PinsOfMode
  <2> QED BY <2>1, <2>2, <2>3 DEF PinTypes
<1>4. Pin2Apart'
  BY <1>1 DEF Pin2Apart, PinTypes, PinsOfMode
<1>5. MatrixOfPins'
  <2>1. ioswap' <=> away
    BY <1>1, Zenon DEF Flags
  <2>2. away <=> (tx_pin' = 15 \/ rx_pin' = 13)
    BY <1>1 DEF PinsOfMode, PinTypes
  <2> QED BY <2>1, <2>2 DEF MatrixOfPins
<1>6. FunctionsOfPins'
  <2>1. \A p \in Pins :
          gpf'[p] = IF p \in TakenPins(t) THEN pinMode(p, SwapFunction(t, p))
                    ELSE IF p \in LeftPins THEN GPFFS_GPIO(p)
                    ELSE FunctionOf(p)
    BY SwapFunctions DEF FunctionsOfPins
  <2> SUFFICES ASSUME NEW p \in Pins PROVE gpf'[p] = FunctionOf(p)'
    BY DEF FunctionsOfPins
  <2> USE DEF FunctionOf, TakenPins, SwapTx, SwapRx, SwapFunction, LeftPins, PinsOfMode, Pin2Apart,
              pinMode, GPFFS_GPIO, GPFFS_BUS
  <2>2. CASE mode = "UART_FULL"
    BY <1>1, <2>1, <2>2
  <2>3. CASE mode = "UART_RX_ONLY"
    BY <1>1, <2>1, <2>3
  <2>4. CASE mode = "UART_TX_ONLY"
    BY <1>1, <2>1, <2>4
  <2> QED BY <2>2, <2>3, <2>4 DEF PinTypes
<1> QED BY <1>2, <1>3, <1>4, <1>5, <1>6

\* uart_set_tx moves the transmitter between pins 1 and 2 (uart.cpp:668-696), and
\* leaves a full-duplex UART0 on its standard pins where it was asked to be.
LEMMA SetTxPins ==
  ASSUME PinParts, mode # "closed", NEW t \in {1, 2, 15}, SetTx(t), mode' = mode, uart1' = uart1
  PROVE  PinParts' /\ (mode = "UART_FULL" /\ t # 15 /\ rx_pin = 3 => tx_pin' = t /\ rx_pin' = 3)
<1> USE DEF PinParts, PinTypes, PinsOfMode, Pin2Apart, FunctionsOfPins, FunctionOf, MatrixOfPins, Pins,
            NoPin, SetPins, pinMode, GPFFS_GPIO, GPFFS_BUS, SetTx, Pin2Free, tx_enabled
<1>1. CASE mode = "UART_FULL"
  BY <1>1
<1>2. CASE mode = "UART_RX_ONLY"
  BY <1>2
<1>3. CASE mode = "UART_TX_ONLY"
  BY <1>3
<1> QED BY <1>1, <1>2, <1>3

\* uart_set_pins either swaps, or moves the transmitter, or does nothing; from
\* whichever pair a full-duplex UART0 is on it reaches the pair it was asked for
\* (uart.cpp:698-718).
LEMMA SetPinsPins ==
  ASSUME PinParts, Flags, NEW tx \in {1, 2, 15}, NEW rx \in {3, 13}, uart_set_pins(tx, rx)
  PROVE  PinParts' /\ FullPinsHonoured'
<1> DEFINE moveTx == mode # "UART_RX_ONLY" /\ tx_pin # tx
           away == rx = 13 /\ tx = 15
           back == rx = 3 /\ tx \in {1, 2}
           swapped == \/ moveTx /\ (away \/ (back /\ rx_pin # rx))
                      \/ mode # "UART_TX_ONLY" /\ rx_pin # rx /\ away
<1>1. /\ mode # "closed" /\ mode' = mode /\ uart1' = uart1 /\ wanted' = <<tx, rx>>
      /\ swapped => Swap(tx)
      /\ ~swapped /\ moveTx /\ back => SetTx(tx)
      /\ ~swapped /\ ~(moveTx /\ back) => UNCHANGED <<tx_pin, rx_pin, gpf, ioswap>>
  BY DEF uart_set_pins, tx_enabled, rx_enabled
<1>2. FullPinsHonoured' <=>
        (mode' = "UART_FULL" /\ (away \/ back) => tx_pin' = tx /\ rx_pin' = rx)
  BY <1>1 DEF FullPinsHonoured, Options, Honours, tx_enabled, rx_enabled
<1>3. CASE swapped
  <2>1. /\ PinParts'
        /\ mode = "UART_FULL" => IF tx_pin = 15 THEN tx_pin' = (IF tx = 2 THEN 2 ELSE 1) /\ rx_pin' = 3
                                 ELSE tx_pin' = 15 /\ rx_pin' = 13
    BY <1>1, <1>3, SwapPins
  <2>2. mode = "UART_FULL" /\ (away \/ back) => tx_pin' = tx /\ rx_pin' = rx
    BY <1>3, <2>1 DEF PinParts, PinsOfMode
  <2> QED BY <1>1, <1>2, <2>1, <2>2
<1>4. CASE ~swapped /\ moveTx /\ back
  <2>1. PinParts' /\ (mode = "UART_FULL" /\ tx # 15 /\ rx_pin = 3 => tx_pin' = tx /\ rx_pin' = 3)
    BY <1>1, <1>4, SetTxPins
  <2>2. mode = "UART_FULL" => tx_pin' = tx /\ rx_pin' = rx
    BY <1>4, <2>1 DEF PinParts, PinsOfMode
  <2> QED BY <1>1, <1>2, <2>1, <2>2
<1>5. CASE ~swapped /\ ~(moveTx /\ back)
  <2>1. PinParts'
    BY <1>1, <1>5 DEF PinParts, PinTypes, PinsOfMode, Pin2Apart, FunctionsOfPins, FunctionOf, MatrixOfPins
  <2>2. mode = "UART_FULL" /\ (away \/ back) => tx_pin = tx /\ rx_pin = rx
    BY <1>5 DEF PinParts, PinsOfMode
  <2> QED BY <1>1, <1>2, <1>5, <2>1, <2>2
<1> QED BY <1>3, <1>4, <1>5

\* Every call keeps the invariant: one that moves no pin asks for none either.
LEMMA WiringNext == WiringInv /\ [ConfigNext]_configVars => WiringInv'
<1> SUFFICES ASSUME WiringInv, [ConfigNext]_configVars PROVE WiringInv'
  OBVIOUS
<1> USE DEF WiringInv
<1>f. Flags'
  BY FlagsKept
<1>n. wanted' = NoOption => FullPinsHonoured'
  BY DEF FullPinsHonoured, NoOption, NoPin, Options
<1>k. UNCHANGED <<mode, tx_pin, rx_pin, wanted>> => FullPinsHonoured'
  BY DEF FullPinsHonoured, Honours, tx_enabled, rx_enabled
<1>1. ASSUME NEW m \in Modes, NEW t \in {1, 2}, NEW b \in Bauds, uart_init(m, t, b) PROVE WiringInv'
  BY <1>f, <1>n, <1>1, InitPins DEF uart_init
<1>2. CASE uart_uninit
  BY <1>f, <1>n, <1>2, UninitPins DEF uart_uninit
<1>3. CASE uart1_init \/ uart1_uninit
  <2>1. UNCHANGED <<mode, tx_pin, rx_pin, wanted>>
    BY <1>3 DEF uart1_init, uart1_uninit
  <2> QED BY <1>f, <1>k, <1>3, <2>1, Uart1Pins
<1>4. ASSUME NEW t \in {1, 2}, uart_swap(t) PROVE WiringInv'
  <2>1. /\ mode # "closed" /\ mode' = mode /\ uart1' = uart1 /\ wanted' = NoOption
        /\ Swap(t)
    BY <1>4 DEF uart_swap
  <2>2. PinParts'
    BY <2>1, SwapPins
  <2> QED BY <1>f, <1>n, <2>1, <2>2
<1>5. ASSUME NEW t \in {1, 2}, uart_set_tx(t) PROVE WiringInv'
  <2>1. /\ mode # "closed" /\ mode' = mode /\ uart1' = uart1 /\ wanted' = NoOption
        /\ SetTx(t)
    BY <1>5 DEF uart_set_tx
  <2>2. PinParts'
    BY <2>1, SetTxPins
  <2> QED BY <1>f, <1>n, <2>1, <2>2
<1>6. ASSUME NEW o \in Arguments, uart_set_pins(o[1], o[2]) PROVE WiringInv'
  <2>1. o[1] \in {1, 2, 15} /\ o[2] \in {3, 13}
    BY DEF Arguments
  <2>2. PinParts' /\ FullPinsHonoured'
    BY <1>6, <2>1, SetPinsPins
  <2> QED BY <1>f, <2>2
<1>7. CASE UNCHANGED <<mode, tx_pin, rx_pin, gpf, ioswap, uart1, wanted>>
  <2>1. PinParts'
    BY <1>7 DEF PinParts, PinTypes, PinsOfMode, Pin2Apart, FunctionsOfPins, FunctionOf, MatrixOfPins
  <2> QED BY <1>f, <1>k, <1>7, <2>1
<1>8. ASSUME NEW b \in Bauds, uart_set_baudrate(b) PROVE WiringInv'
  BY <1>7, <1>8 DEF uart_set_baudrate
<1>9. CASE UNCHANGED configVars
  BY <1>7, <1>9 DEF configVars
<1> QED BY <1>1, <1>2, <1>3, <1>4, <1>5, <1>6, <1>8, <1>9 DEF ConfigNext

LEMMA WiringInvariant == ConfigSpec => []WiringInv
  BY WiringInit, WiringNext, PTL DEF ConfigSpec

\* After any sequence of calls on the two UARTs every pin has the function that
\* connects it to the UART that uses it, or to none, and IOSWAP agrees with them
\* (uart.cpp:496-538, 565-587, 611-718).
THEOREM PinsAlwaysConsistent == ConfigSpec => []PinsConsistent
<1>1. WiringInv => PinsConsistent
  BY DEF WiringInv, PinParts, FunctionsOfPins, MatrixOfPins, PinsConsistent
<1> QED BY <1>1, WiringInvariant, PTL

\* uart_set_pins brings a full-duplex UART0 to the pins asked for, wherever it was
\* and whatever was called before (uart.cpp:698-718).
THEOREM FullPinsAlwaysHonoured == ConfigSpec => []FullPinsHonoured
<1>1. WiringInv => FullPinsHonoured
  BY DEF WiringInv
<1> QED BY <1>1, WiringInvariant, PTL

\* Dividing the clock by the divider gives at least the rate the divider was made
\* for, as it was rounded down; and there is no divider for a rate beyond the clock.
LEMMA DividerRoundsDown ==
  ASSUME NEW C \in Nat, NEW a \in 1..C
  PROVE  C \div a \in Nat \ {0} /\ C \div (C \div a) \in Nat /\ C \div (C \div a) >= a
<1>1. C \div a \in Nat
  OBVIOUS
<1> QED
  BY <1>1

LEMMA DividerOfFastRate == ASSUME NEW C \in Nat, NEW a \in Nat, a > C PROVE C \div a = 0
  OBVIOUS

\* The registers and what they are for.
BaudInv ==
    /\ usd \in Nat /\ baud_rate \in Nat /\ asked \in Bauds \cup {0}
    /\ BaudIsActual

\* uart_set_baudrate_reg establishes it, whatever the registers held.
LEMMA SetBaudrateSets ==
  ASSUME usd \in Nat, NEW b \in Bauds, SetBaudrate(b)
  PROVE  BaudInv'
<1>1. b \in Nat /\ Clock \in Nat
  BY ClockAssumption
<1>2. CASE b = 0
  BY <1>1, <1>2 DEF BaudInv, SetBaudrate, BaudIsActual
<1>3. CASE b \in 1..Clock
  <2>1. Clock \div b \in Nat \ {0} /\ Clock \div (Clock \div b) \in Nat /\ Clock \div (Clock \div b) >= b
    BY <1>1, <1>3, DividerRoundsDown
  <2>2. b # 0
    BY <1>1, <1>3
  <2>3. asked' = b /\ usd' = Clock \div b /\ baud_rate' = Clock \div (Clock \div b)
    BY <2>1, <2>2 DEF SetBaudrate
  <2> QED BY <1>3, <2>1, <2>3 DEF BaudInv, BaudIsActual
<1>4. CASE b > Clock
  <2>1. Clock \div b = 0 /\ b # 0 /\ b \notin 1..Clock
    BY <1>1, <1>4, DividerOfFastRate
  <2>2. asked' = b /\ usd' = 0 /\ baud_rate' = 0
    BY <2>1 DEF SetBaudrate
  <2> QED BY <2>1, <2>2 DEF BaudInv, BaudIsActual
<1> QED BY <1>1, <1>2, <1>3, <1>4

LEMMA BaudNext == BaudInv /\ [ConfigNext]_configVars => BaudInv'
<1> SUFFICES ASSUME BaudInv, [ConfigNext]_configVars PROVE BaudInv'
  OBVIOUS
<1>1. ASSUME NEW m, NEW t, NEW b \in Bauds, uart_init(m, t, b) PROVE BaudInv'
  BY <1>1, SetBaudrateSets DEF uart_init, BaudInv
<1>2. ASSUME NEW b \in Bauds, uart_set_baudrate(b) PROVE BaudInv'
  BY <1>2, SetBaudrateSets DEF uart_set_baudrate, BaudInv
<1>3. CASE UNCHANGED <<usd, baud_rate, asked>> /\ (mode' # "closed" => mode # "closed")
  BY <1>3 DEF BaudInv, BaudIsActual
<1>4. CASE uart_uninit
  BY <1>3, <1>4 DEF uart_uninit, baudVars
<1>5. CASE uart1_init \/ uart1_uninit
  BY <1>3, <1>5 DEF uart1_init, uart1_uninit, baudVars
<1>6. ASSUME NEW t, uart_swap(t) \/ uart_set_tx(t) PROVE BaudInv'
  BY <1>3, <1>6 DEF uart_swap, uart_set_tx, baudVars
<1>7. ASSUME NEW tx, NEW rx, uart_set_pins(tx, rx) PROVE BaudInv'
  BY <1>3, <1>7 DEF uart_set_pins, baudVars
<1>8. CASE UNCHANGED configVars
  BY <1>3, <1>8 DEF configVars, baudVars
<1> QED BY <1>1, <1>2, <1>4, <1>5, <1>6, <1>7, <1>8 DEF ConfigNext

\* The rate stored is the one the divider gives, never slower than the one asked
\* for, and zero when the clock cannot give it (uart.cpp:440-461).
THEOREM BaudAlwaysActual == ConfigSpec => []BaudIsActual
<1>1. ConfigInit => BaudInv
  BY DEF ConfigInit, BaudInv, BaudIsActual
<1>2. BaudInv /\ [ConfigNext]_configVars => BaudInv'
  BY BaudNext
<1>3. BaudInv => BaudIsActual
  BY DEF BaudInv
<1> QED BY <1>1, <1>2, <1>3, PTL DEF ConfigSpec

\* What is left of the types.
AskedTypes == mode \in Modes \cup {"closed"} /\ wanted \in Arguments \cup {NoOption}

LEMMA AskedTypesNext == AskedTypes /\ [ConfigNext]_configVars => AskedTypes'
<1> SUFFICES ASSUME AskedTypes, [ConfigNext]_configVars PROVE AskedTypes'
  OBVIOUS
<1> USE DEF AskedTypes
<1>1. ASSUME NEW m \in Modes, NEW t, NEW b, uart_init(m, t, b) PROVE AskedTypes'
  BY <1>1, Zenon DEF uart_init
<1>2. CASE uart_uninit
  BY <1>2, Zenon DEF uart_uninit
<1>3. CASE uart1_init \/ uart1_uninit
  BY <1>3, Zenon DEF uart1_init, uart1_uninit
<1>4. ASSUME NEW t, uart_swap(t) \/ uart_set_tx(t) PROVE AskedTypes'
  BY <1>4, Zenon DEF uart_swap, uart_set_tx
<1>5. ASSUME NEW o \in Arguments, uart_set_pins(o[1], o[2]) PROVE AskedTypes'
  <2>1. o = <<o[1], o[2]>>
    BY DEF Arguments
  <2>2. mode' = mode /\ wanted' = <<o[1], o[2]>>
    BY <1>5, Zenon DEF uart_set_pins
  <2> QED BY <2>1, <2>2, Zenon
<1>6. ASSUME NEW b, uart_set_baudrate(b) PROVE AskedTypes'
  BY <1>6, Zenon DEF uart_set_baudrate
<1>7. CASE UNCHANGED configVars
  BY <1>7, Zenon DEF configVars
<1> QED BY <1>1, <1>2, <1>3, <1>4, <1>5, <1>6, <1>7 DEF ConfigNext

\* UART0 is only ever on pins it can be wired to, and the registers hold numbers.
THEOREM WiringTypeCorrect == ConfigSpec => []ConfigTypeOK
<1>1. ConfigInit => BaudInv /\ AskedTypes
  BY DEF ConfigInit, BaudInv, AskedTypes, BaudIsActual
<1>2. BaudInv /\ [ConfigNext]_configVars => BaudInv'
  BY BaudNext
<1>3. ConfigSpec => []WiringInv
  BY WiringInvariant
<1>4. WiringInv /\ BaudInv /\ AskedTypes => ConfigTypeOK
  <2> SUFFICES ASSUME WiringInv, BaudInv, AskedTypes PROVE ConfigTypeOK
    OBVIOUS
  <2>1. tx_pin \in {1, 2, 15, NoPin} /\ rx_pin \in {3, 13, NoPin}
    BY DEF WiringInv, PinParts, PinTypes, PinsOfMode
  <2>2. gpf \in [Pins -> 0..4]
    BY DEF WiringInv, PinParts, PinTypes
  <2>3. ioswap \in BOOLEAN /\ uart1 \in BOOLEAN
    BY Zenon DEF WiringInv, Flags
  <2>4. usd \in Nat /\ baud_rate \in Nat /\ asked \in Bauds \cup {0}
    BY DEF BaudInv
  <2> QED BY <2>1, <2>2, <2>3, <2>4, Zenon DEF ConfigTypeOK, AskedTypes
<1> QED BY <1>1, <1>2, <1>3, <1>4, AskedTypesNext, PTL DEF ConfigSpec
=============================================================================
