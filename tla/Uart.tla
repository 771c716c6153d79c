-------------------------------- MODULE Uart --------------------------------
(***************************************************************************)
(* One UART of system/uart.cpp: the hardware FIFOs and interrupt-enable    *)
(* register, the interrupt service routine and the task-level driver       *)
(* calls.  Application code is a single task, so at most one driver call   *)
(* is in progress; the interrupt handler and the shift registers of the    *)
(* hardware may act between any two steps of it, and the handler itself is *)
(* not interrupted.                                                        *)
(*                                                                         *)
(* The two SerialBuffers are taken at their contract, BoundedFifo, which   *)
(* SerialRing refines: a record of the allocated size and the characters   *)
(* held.  Received and transmitted characters are numbered in the order in *)
(* which they arrive and are accepted.                                     *)
(***************************************************************************)
EXTENDS Integers, Sequences, FiniteSets

CONSTANTS
    TxFifoFull,    \* characters at which UART_TXFULL holds (0x7f)
    RxFifoSize,    \* characters the receive FIFO holds (UART_RX_FIFO_SIZE)
    RxFifoFull,    \* the RX FIFO full threshold, UCFFT (127)
    RxSize,        \* uart_config.rx_size: 0 for no receive buffer
    TxSize,        \* uart_config.tx_size: 0 for no transmit buffer
    TxWait,        \* is UART_OPT_TXWAIT set?
    CallSizes,     \* bound: the lengths uart_read and uart_write are called with
    MaxTx,         \* bound: the characters the application ever writes
    MaxRx          \* bound: the characters that ever arrive

\* The shift register takes one character of a FIFO the handler has just
\* filled to the brim; with a threshold of one that would empty it again.
ASSUME TxFifoAssumption == TxFifoFull \in Nat \ {0, 1}

ASSUME RxFifoAssumption == RxFifoSize \in Nat \ {0} /\ RxFifoFull \in 1..RxFifoSize

ASSUME BufferAssumption == RxSize \in Nat /\ TxSize \in Nat

ASSUME OptionAssumption == TxWait \in BOOLEAN

ASSUME BoundAssumption == CallSizes \subseteq Nat \ {0} /\ MaxTx \in Nat /\ MaxRx \in Nat

VARIABLES
    txFifo, rxFifo,          \* the hardware FIFOs, oldest character first
    tx_buffer, rx_buffer,    \* the SerialBuffers, or NullBuffer
    usie,                    \* the interrupt sources enabled in USIE
    pc,                      \* the step the driver call in progress is at
    size, count,             \* its argument and its local `read` or `written`
    loaded,                  \* USIE as loaded by a read-modify-write of it
    copy,                    \* the new block of a resize in progress
    wire,                    \* the characters sent, in order
    got,                     \* the characters uart_read returned, in order
    accepted,                \* how many characters uart_write has taken
    arrived,                 \* how many characters have come in
    discarded,               \* characters written that a flush threw away
    dropped                  \* characters that arrived and were lost

txVars == <<txFifo, tx_buffer, wire, accepted, discarded>>
rxVars == <<rxFifo, rx_buffer, got, arrived, dropped>>
callVars == <<pc, size, count, loaded, copy>>
vars == <<txVars, rxVars, callVars, usie>>

-----------------------------------------------------------------------------
(* Buffers, FIFOs and interrupt sources *)

Junk == 0     \* what USF yields when the receive FIFO is empty

NewBuffer(n) == [size |-> n, data |-> <<>>]
NullBuffer == NewBuffer(0)

hasBuffer(b) == b.size # 0
freeSpace(b) == b.size - 1 - Len(b.data)

\* UIFR, a framing error, is enabled too: the handler hands it to the callback
\* and changes nothing that is kept here.
RxSources == {"UIFF", "UITO"}
Sources == RxSources \cup {"UIFE"}

UART_TXFULL == Len(txFifo) >= TxFifoFull

\* UART_RXCOUNT masks the level of the FIFO with 0x7f, one less than its size: a
\* FIFO filled to the last place counts as empty.
UART_RXCOUNT == Len(rxFifo) % RxFifoSize

Drop(s, n) == SubSeq(s, n + 1, Len(s))
Take(s, n) == SubSeq(s, 1, n)
Least(m, n) == IF m < n THEN m ELSE n
CharsIn(s) == {s[i] : i \in 1..Len(s)}

\* USIS: the enabled sources whose condition holds.  The receive timeout may
\* be reached at any moment at which the FIFO holds a character.
raised(s) ==
    CASE s = "UIFF" -> Len(rxFifo) >= RxFifoFull
      [] s = "UITO" -> rxFifo # <<>>
      [] s = "UIFE" -> txFifo = <<>>

USIS == {s \in usie : raised(s)}

-----------------------------------------------------------------------------
\* uart_init_ex() for a UART that receives and transmits: both buffers, empty
\* FIFOs, the receive interrupts on and the transmit interrupt off.
Init ==
    /\ txFifo = <<>> /\ rxFifo = <<>>
    /\ tx_buffer = NewBuffer(TxSize) /\ rx_buffer = NewBuffer(RxSize)
    /\ usie = RxSources
    /\ pc = "idle" /\ size = 0 /\ count = 0 /\ loaded = {} /\ copy = <<>>
    /\ wire = <<>> /\ got = <<>>
    /\ accepted = 0 /\ arrived = 0
    /\ discarded = {} /\ dropped = {}

-----------------------------------------------------------------------------
(* Hardware *)

\* The transmitter takes the oldest character of its FIFO.
ShiftOut ==
    /\ txFifo # <<>>
    /\ wire' = Append(wire, Head(txFifo))
    /\ txFifo' = Tail(txFifo)
    /\ UNCHANGED <<rxVars, callVars, usie, tx_buffer, accepted, discarded>>

\* A character comes in; a full FIFO loses it.
ShiftIn ==
    /\ arrived < MaxRx
    /\ arrived' = arrived + 1
    /\ IF Len(rxFifo) < RxFifoSize
       THEN rxFifo' = Append(rxFifo, arrived + 1) /\ UNCHANGED dropped
       ELSE dropped' = dropped \cup {arrived + 1} /\ UNCHANGED rxFifo
    /\ UNCHANGED <<txVars, callVars, usie, rx_buffer, got>>

-----------------------------------------------------------------------------
(* handle_uart_interrupt *)

\* How many characters the handler moves out of the receive FIFO.
rxMoved ==
    IF USIS \cap RxSources # {} /\ hasBuffer(rx_buffer)
    THEN Least(freeSpace(rx_buffer), UART_RXCOUNT) ELSE 0

\* How many characters it moves into the (then empty) transmit FIFO.
txMoved ==
    IF "UIFE" \in USIS /\ hasBuffer(tx_buffer)
    THEN Least(Len(tx_buffer.data), TxFifoFull) ELSE 0

\* A variant for mutation testing.
masked_AlwaysTx(shifted) ==
    (IF USIS \cap RxSources # {} /\ rxMoved = 0 THEN RxSources ELSE {})
        \cup (IF "UIFE" \in USIS THEN {"UIFE"} ELSE {})

\* The sources the handler masks: receive, when it could not read anything;
\* transmit, when the FIFO is still, or again, empty.
masked(shifted) ==
    (IF USIS \cap RxSources # {} /\ rxMoved = 0 THEN RxSources ELSE {})
        \cup (IF "UIFE" \in USIS /\ txMoved = shifted THEN {"UIFE"} ELSE {})

\* The shift register may take a character before the handler looks at the
\* fill level of the FIFO it has topped up.
Interrupt(shifted) ==
    /\ USIS # {}
    /\ shifted <= txMoved
    /\ rx_buffer' = [rx_buffer EXCEPT !.data = @ \o Take(rxFifo, rxMoved)]
    /\ rxFifo' = Drop(rxFifo, rxMoved)
    /\ tx_buffer' = [tx_buffer EXCEPT !.data = Drop(@, txMoved)]
    /\ txFifo' = txFifo \o SubSeq(tx_buffer.data, shifted + 1, txMoved)
    /\ wire' = wire \o Take(tx_buffer.data, shifted)
    /\ usie' = usie \ masked(shifted)
    /\ UNCHANGED <<callVars, got, accepted, arrived, discarded, dropped>>

-----------------------------------------------------------------------------
(* uart_write *)

Goto(l) == pc' = l

uart_write(n) ==
    /\ pc = "idle"
    /\ accepted + n <= MaxTx
    /\ Goto("w_test")
    /\ size' = n /\ count' = 0
    /\ UNCHANGED <<txVars, rxVars, usie, loaded, copy>>

\* A variant for mutation testing.
WriteTest_FifoFirst ==
    /\ pc = "w_test"
    /\ Goto("w_fifo")
    /\ UNCHANGED <<txVars, rxVars, usie, size, count, loaded, copy>>

\* A variant for mutation testing.
WriteTest_NeedsBuffer ==
    /\ pc = "w_test"
    /\ Goto(IF hasBuffer(tx_buffer) /\ tx_buffer.data = <<>> THEN "w_fifo" ELSE "w_buffer")
    /\ UNCHANGED <<txVars, rxVars, usie, size, count, loaded, copy>>

\* if(!uart->tx_buffer || uart->tx_buffer->isEmpty())
WriteTest ==
    /\ pc = "w_test"
    /\ Goto(IF ~hasBuffer(tx_buffer) \/ tx_buffer.data = <<>> THEN "w_fifo" ELSE "w_buffer")
    /\ UNCHANGED <<txVars, rxVars, usie, size, count, loaded, copy>>

\* while(written < size && !UART_TXFULL(..)) USF(..) = buf[written++]
WriteFifo ==
    /\ pc = "w_fifo"
    /\ IF count < size /\ ~UART_TXFULL
       THEN /\ txFifo' = Append(txFifo, accepted + 1)
            /\ accepted' = accepted + 1
            /\ count' = count + 1
            /\ UNCHANGED pc
       ELSE Goto("w_buffer") /\ UNCHANGED <<txFifo, accepted, count>>
    /\ UNCHANGED <<rxVars, usie, tx_buffer, wire, discarded, size, loaded, copy>>

\* while(written < size && uart->tx_buffer->writeChar(buf[written])) ++written
WriteBuffer ==
    /\ pc = "w_buffer"
    /\ IF hasBuffer(tx_buffer) /\ count < size /\ freeSpace(tx_buffer) > 0
       THEN /\ tx_buffer' = [tx_buffer EXCEPT !.data = Append(@, accepted + 1)]
            /\ accepted' = accepted + 1
            /\ count' = count + 1
            /\ UNCHANGED pc
       ELSE Goto("w_loop") /\ UNCHANGED <<tx_buffer, accepted, count>>
    /\ UNCHANGED <<rxVars, usie, txFifo, wire, discarded, size, loaded, copy>>

\* if (written >= size || !TXWAIT) break;  ...  if (written) USIE(..) |= ..
WriteLoop ==
    /\ pc = "w_loop"
    /\ Goto(IF count < size /\ TxWait THEN "w_test"
            ELSE IF count > 0 THEN "w_load" ELSE "idle")
    /\ UNCHANGED <<txVars, rxVars, usie, size, count, loaded, copy>>

-----------------------------------------------------------------------------
(* uart_read *)

uart_read(n) ==
    /\ pc = "idle"
    /\ Goto("r_buffer")
    /\ size' = n /\ count' = 0
    /\ UNCHANGED <<txVars, rxVars, usie, loaded, copy>>

\* while(read < size && !rx_buffer->isEmpty()) buf[read++] = rx_buffer->readChar()
ReadBuffer ==
    /\ pc = "r_buffer"
    /\ IF count < size /\ rx_buffer.data # <<>>
       THEN /\ got' = Append(got, Head(rx_buffer.data))
            /\ rx_buffer' = [rx_buffer EXCEPT !.data = Tail(@)]
            /\ count' = count + 1
            /\ UNCHANGED pc
       ELSE Goto("r_count") /\ UNCHANGED <<rx_buffer, got, count>>
    /\ UNCHANGED <<txVars, usie, rxFifo, arrived, dropped, size, loaded, copy>>

\* while(read < size && UART_RXCOUNT(..) != 0)
ReadCount ==
    /\ pc = "r_count"
    /\ Goto(IF count < size /\ UART_RXCOUNT # 0 THEN "r_fifo" ELSE "r_load")
    /\ UNCHANGED <<txVars, rxVars, usie, size, count, loaded, copy>>

\* A variant for mutation testing.
ReadFifo_Peek ==
    /\ pc = "r_fifo"
    /\ got' = Append(got, IF rxFifo = <<>> THEN Junk ELSE Head(rxFifo))
    /\ count' = count + 1
    /\ Goto("r_count")
    /\ UNCHANGED <<txVars, usie, rxFifo, rx_buffer, arrived, dropped, size, loaded, copy>>

\* buf[read++] = USF(..): the handler may have emptied the FIFO meanwhile.
ReadFifo ==
    /\ pc = "r_fifo"
    /\ got' = Append(got, IF rxFifo = <<>> THEN Junk ELSE Head(rxFifo))
    /\ rxFifo' = Drop(rxFifo, 1)
    /\ count' = count + 1
    /\ Goto("r_count")
    /\ UNCHANGED <<txVars, usie, rx_buffer, arrived, dropped, size, loaded, copy>>

-----------------------------------------------------------------------------
\* USIE(..) |= mask, the last statement of both calls: a load, then a store
\* that overwrites whatever the handler masked in between.
UsieLoad ==
    /\ pc \in {"w_load", "r_load"}
    /\ loaded' = usie
    /\ Goto(IF pc = "w_load" THEN "w_store" ELSE "r_store")
    /\ UNCHANGED <<txVars, rxVars, usie, size, count, copy>>

\* A variant for mutation testing.
UsieStore_NoTx ==
    /\ pc \in {"w_store", "r_store"}
    /\ usie' = loaded \cup RxSources
    /\ Goto("idle")
    /\ UNCHANGED <<txVars, rxVars, size, count, loaded, copy>>

UsieStore ==
    /\ pc \in {"w_store", "r_store"}
    /\ usie' = loaded \cup (IF pc = "w_store" THEN {"UIFE"} ELSE RxSources)
    /\ Goto("idle")
    /\ UNCHANGED <<txVars, rxVars, size, count, loaded, copy>>

-----------------------------------------------------------------------------
(* uart_wait_tx_empty *)

uart_wait_tx_empty ==
    /\ pc = "idle"
    /\ Goto("t_buffer")
    /\ UNCHANGED <<txVars, rxVars, usie, size, count, loaded, copy>>

\* A variant for mutation testing.
WaitBuffer_NoWait ==
    /\ pc = "t_buffer"
    /\ Goto("t_fifo")
    /\ UNCHANGED <<txVars, rxVars, usie, size, count, loaded, copy>>

\* while (!uart->tx_buffer->isEmpty()) delay(0)
WaitBuffer ==
    /\ pc = "t_buffer"
    /\ tx_buffer.data = <<>>
    /\ Goto("t_fifo")
    /\ UNCHANGED <<txVars, rxVars, usie, size, count, loaded, copy>>

\* while(UART_TXCOUNT(..) != 0) delay(0)
WaitFifo ==
    /\ pc = "t_fifo"
    /\ txFifo = <<>>
    /\ Goto("idle")
    /\ UNCHANGED <<txVars, rxVars, usie, size, count, loaded, copy>>

-----------------------------------------------------------------------------
\* A variant for mutation testing.
uart_flush_KeepsMask ==
    /\ pc = "idle"
    /\ rx_buffer' = [rx_buffer EXCEPT !.data = <<>>]
    /\ tx_buffer' = [tx_buffer EXCEPT !.data = <<>>]
    /\ rxFifo' = <<>> /\ txFifo' = <<>>
    /\ usie' = usie \ {"UIFE"}
    /\ discarded' = discarded \cup CharsIn(txFifo \o tx_buffer.data)
    /\ dropped' = dropped \cup CharsIn(rxFifo \o rx_buffer.data)
    /\ UNCHANGED <<callVars, wire, got, accepted, arrived>>

\* uart_flush(): with interrupts disabled, so in one step.
uart_flush ==
    /\ pc = "idle"
    /\ rx_buffer' = [rx_buffer EXCEPT !.data = <<>>]
    /\ tx_buffer' = [tx_buffer EXCEPT !.data = <<>>]
    /\ rxFifo' = <<>> /\ txFifo' = <<>>
    /\ usie' = (usie \ {"UIFE"}) \cup RxSources
    /\ discarded' = discarded \cup CharsIn(txFifo \o tx_buffer.data)
    /\ dropped' = dropped \cup CharsIn(rxFifo \o rx_buffer.data)
    /\ UNCHANGED <<callVars, wire, got, accepted, arrived>>

\* uart_resize_{tx,rx}_buffer(0): realloc_buffer deletes the buffer with
\* interrupts disabled, and with it the characters it holds.
DeleteTxBuffer ==
    /\ pc = "idle"
    /\ hasBuffer(tx_buffer)
    /\ discarded' = discarded \cup CharsIn(tx_buffer.data)
    /\ tx_buffer' = NullBuffer
    /\ UNCHANGED <<rxVars, callVars, usie, txFifo, wire, accepted>>

DeleteRxBuffer ==
    /\ pc = "idle"
    /\ hasBuffer(rx_buffer)
    /\ dropped' = dropped \cup CharsIn(rx_buffer.data)
    /\ rx_buffer' = NullBuffer
    /\ UNCHANGED <<txVars, callVars, usie, rxFifo, got, arrived>>

\* uart_resize_{tx,rx}_buffer(n) where there is no buffer yet: the new one is
\* complete before its pointer is stored.
CreateTxBuffer ==
    /\ pc = "idle"
    /\ ~hasBuffer(tx_buffer) /\ TxSize # 0
    /\ tx_buffer' = NewBuffer(TxSize)
    /\ UNCHANGED <<rxVars, callVars, usie, txFifo, wire, accepted, discarded>>

CreateRxBuffer ==
    /\ pc = "idle"
    /\ ~hasBuffer(rx_buffer) /\ RxSize # 0
    /\ rx_buffer' = NewBuffer(RxSize)
    /\ UNCHANGED <<txVars, callVars, usie, rxFifo, got, arrived, dropped>>

-----------------------------------------------------------------------------
(* uart_resize_tx_buffer(n) of an existing buffer.  realloc_buffer calls     *)
(* SerialBuffer::resize() without disabling interrupts, so the handler may   *)
(* take characters from the old block while resize() copies them.            *)

ResizeCall(n) ==
    /\ pc = "idle"
    /\ hasBuffer(tx_buffer) /\ n > tx_buffer.size
    /\ Goto("z_copy")
    /\ size' = n /\ count' = Len(tx_buffer.data) /\ copy' = <<>>
    /\ UNCHANGED <<txVars, rxVars, usie, loaded>>

\* while(avail-- && ..) new_buf[new_wpos++] = readChar(): -1 becomes 0xff when
\* the handler has emptied the ring.
ResizeCopy ==
    /\ pc = "z_copy"
    /\ IF count > 0
       THEN /\ copy' = Append(copy, IF tx_buffer.data = <<>> THEN Junk ELSE Head(tx_buffer.data))
            /\ tx_buffer' = [tx_buffer EXCEPT !.data = Drop(@, 1)]
            /\ count' = count - 1
            /\ UNCHANGED pc
       ELSE Goto("z_install") /\ UNCHANGED <<copy, tx_buffer, count>>
    /\ UNCHANGED <<rxVars, usie, txFifo, wire, accepted, discarded, size, loaded>>

\* delete[] buffer; buffer = new_buf; size = newSize; readPos = 0; ...
ResizeInstall ==
    /\ pc = "z_install"
    /\ tx_buffer' = [size |-> size, data |-> copy]
    /\ copy' = <<>>
    /\ Goto("idle")
    /\ UNCHANGED <<rxVars, usie, txFifo, wire, accepted, discarded, size, count, loaded>>

-----------------------------------------------------------------------------
(* Specifications *)

\* The steps inside a driver call: the task always gets the processor again.
CallStep ==
    \/ WriteTest \/ WriteFifo \/ WriteBuffer \/ WriteLoop
    \/ ReadBuffer \/ ReadCount \/ ReadFifo
    \/ UsieLoad \/ UsieStore
    \/ WaitBuffer \/ WaitFifo

HandleInterrupt == \E shifted \in 0..1 : Interrupt(shifted)

Next ==
    \/ ShiftOut
    \/ ShiftIn
    \/ HandleInterrupt
    \/ CallStep
    \/ \E n \in CallSizes : uart_write(n) \/ uart_read(n)
    \/ uart_wait_tx_empty
    \/ uart_flush
    \/ DeleteTxBuffer
    \/ DeleteRxBuffer
    \/ CreateTxBuffer
    \/ CreateRxBuffer

Spec == Init /\ [][Next]_vars

\* The transmitter never stops, the interrupt controller delivers what is
\* pending, and the task runs whenever it can.
Fairness == WF_vars(ShiftOut) /\ WF_vars(HandleInterrupt) /\ WF_vars(CallStep)

FairSpec == Spec /\ Fairness

\* With setTxBufferSize() of a port that already has a transmit buffer.
ResizeStep == ResizeCopy \/ ResizeInstall \/ \E n \in {TxSize + 2} : ResizeCall(n)
SpecResize == Init /\ [][Next \/ ResizeStep]_vars

-----------------------------------------------------------------------------
(* Properties *)

Labels ==
    {"idle", "w_test", "w_fifo", "w_buffer", "w_loop", "w_load", "w_store",
     "r_buffer", "r_count", "r_fifo", "r_load", "r_store", "t_buffer", "t_fifo",
     "z_copy", "z_install"}

TypeOK ==
    /\ txFifo \in Seq(Nat) /\ rxFifo \in Seq(Nat)
    /\ tx_buffer \in [size : Nat, data : Seq(Nat)]
    /\ rx_buffer \in [size : Nat, data : Seq(Nat)]
    /\ usie \subseteq Sources /\ loaded \subseteq Sources
    /\ pc \in Labels
    /\ size \in Nat /\ count \in Nat
    /\ copy \in Seq(Nat) /\ wire \in Seq(Nat) /\ got \in Seq(Nat)
    /\ accepted \in Nat /\ arrived \in Nat
    /\ discarded \subseteq Nat /\ dropped \subseteq Nat

\* No FIFO and no buffer is ever filled beyond what it holds: uart_write stops
\* at UART_TXFULL, the handler at the space it measured (uart.cpp:244, 270, 368).
WithinCapacity ==
    /\ Len(txFifo) <= TxFifoFull
    /\ Len(rxFifo) <= RxFifoSize
    /\ \A b \in {tx_buffer, rx_buffer} : b.data # <<>> => freeSpace(b) >= 0

\* Everything on its way out, oldest first.
outgoing == wire \o txFifo \o copy \o tx_buffer.data

\* Characters leave in the order in which uart_write accepted them, each of
\* them once and none missing but those a flush discarded, although uart_write
\* chooses between the FIFO and the buffer while the handler moves characters
\* from one to the other (uart.cpp:366-375 and 266-279).
TxInOrder ==
    /\ \A i, j \in 1..Len(outgoing) : i < j => outgoing[i] < outgoing[j]
    /\ CharsIn(outgoing) = (1..accepted) \ discarded

\* Between driver calls, characters waiting in the transmit buffer always have
\* the interrupt enabled that will move them on: the handler masks it only when
\* it has emptied the buffer, and the unprotected read-modify-write of USIE
\* cannot lose an enable (uart.cpp:285-286 and 382-384).
TxNeverStranded ==
    pc \in {"idle", "t_buffer", "r_buffer", "r_count", "r_fifo", "r_load"}
        /\ tx_buffer.data # <<>> => "UIFE" \in usie

\* Every character that came in is in exactly one place: handed to the
\* application, in the buffer, in the FIFO, or lost (uart.cpp:180-185, 243-249).
RxConserved ==
    LET kept == {i \in 1..Len(got) : got[i] # Junk}
        places == Cardinality(kept) + Len(rxFifo) + Len(rx_buffer.data) + Cardinality(dropped)
    IN  /\ places = arrived
        /\ {got[i] : i \in kept} \cup CharsIn(rxFifo) \cup CharsIn(rx_buffer.data)
             \cup dropped = 1..arrived

uart_rx_available == UART_RXCOUNT + Len(rx_buffer.data)

\* Between driver calls the receive interrupts are masked only while the
\* application is shown something to read, so that the uart_read that enables
\* them again is due; short of a FIFO filled to its last place (uart.cpp:254-259,
\* 187-188 and 193-204).
RxMaskedWithData ==
    pc = "idle" /\ ~(RxSources \subseteq usie) /\ Len(rxFifo) < RxFifoSize
        => uart_rx_available > 0

\* "this obtains a count of data both in the memory buffer and hardware FIFO"
\* (uart.h:306): where characters wait in either, uart_rx_available() is not zero.
RxAvailableSeen ==
    rxFifo # <<>> \/ rx_buffer.data # <<>> => uart_rx_available > 0

\* uart_read hands out characters in the order of their arrival: "If RX buffer
\* not in use or it's empty then read directly from hardware FIFO" (uart.cpp:179).
incoming == got \o rx_buffer.data \o rxFifo
RxInOrder == \A i, j \in 1..Len(incoming) : i < j => incoming[i] < incoming[j]

\* When uart_wait_tx_empty returns, every character written before the call has
\* gone to the transmitter (uart.cpp:400-412).
WaitMeansSent ==
    [][pc = "t_fifo" /\ pc' = "idle" => CharsIn(wire) = (1..accepted) \ discarded]_vars

\* With UART_OPT_TXWAIT, the default, "writes will wait for more buffer space so
\* that all requested data is written" (HardwareSerial.h:167): every uart_write
\* returns (uart.cpp:365-386).  It does without a transmit buffer; with one, the
\* interrupt that makes the space is enabled only after the loop.
WriteReturns == pc = "w_test" ~> pc = "idle"

\* Every uart_wait_tx_empty returns, whatever interrupts the calls before it and
\* the handler have left masked (uart.cpp:400-412).
WaitReturns == pc = "t_buffer" ~> pc = "idle"

\* A character accepted by uart_write is eventually sent or discarded by a flush
\* (uart.cpp:266-279).
AllSent == \A c \in 1..MaxTx : accepted >= c ~> c \in CharsIn(wire) \cup discarded
=============================================================================
