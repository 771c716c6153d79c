# A TLA+ model of the Sming core

Sming is a C++ framework for the ESP8266: a single application task runs on top
of the vendor's SDK, interrupt handlers cut into it at any instruction, and the
network stack calls back between the application's own callbacks. This project
models the parts where these contexts meet - the serial path from the hardware
FIFOs up to the application's delegates, the task queue through which handlers
hand work to task context, timers, and the TCP connections with the HTTP client on
top of them - checks them with TLC and proves every safety property the
passing runs check, two refinements among them, with TLAPS. Paths below are relative to `src/Sming/`
unless they start with `src/`.

## The system's parts

| Part | State | Operations | Interacts with |
| --- | --- | --- | --- |
| Serial buffer (`system/include/SerialBuffer.h`) | block, size, `readPos`, `writePos` | write, read, peek, find, clear, resize | shared by interrupt handler and task, no lock |
| UART driver (`system/uart.cpp`) | instance table, buffers, callback, `isrMask`, USIE, pins, baud rate, debug port | init, uninit, read, write, flush, wait, resize, swap, set pins, set debug, interrupt handler | hardware; calls the port's callback from the interrupt |
| HardwareSerial (`SmingCore/HardwareSerial.*`) | UART number, `uart_t` pointer, delegates | begin, end, setPort, delegates, debug output | driver below; task queue above |
| System (`SmingCore/Platform/System.*`) | state, task queue, two counters, ready handlers | initialize, queueCallback, taskHandler, onReady | called by handlers and by the task |
| TCP (`SmingCore/Network/Tcp*`) | connection state, pending stream, totals, client list | connect, send, close, lwIP callbacks, timeouts, shutdown | lwIP events; base of HTTP and MQTT |
| HTTP client (`SmingCore/Network/HttpClient*`, `Http/HttpConnection*`) | connection pool, waiting and execution queue, send state | send, pipelining, retry, clean-up | TCP events, parser callbacks |
| HTTP server, WebSocket | per-connection state, response | request dispatch, upgrade, frames | TCP |
| MQTT client (`SmingCore/Network/MqttClient*`) | request queue, state, ping timer | connect, publish, subscribe, keep-alive | TCP |
| Timer (`SmingCore/Timer.*`) | interval, long-interval counter, started | start, stop, tick | SDK timer |
| Wi-Fi, GPIO, SPI, I2C, PWM, file system, RTC, streams, services, libraries | mostly SDK or device state | wrappers | - |

What is hard in this code:

* **Concurrency without locks.** The ring, the USIE register and the task
  counters are read and modified by task and interrupt with nothing but the order
  of accesses to protect them.
* **Interrupts that mask themselves.** The handler turns off a source it cannot
  serve; some later call has to turn it on again or data waits for ever.
* **Two ways for data.** Characters go through the FIFO directly or through the
  buffer; choosing while the handler moves them decides about their order.
* **Stale pointers.** Structures are deleted while tables, queued callbacks and
  bound functions still name them.
* **Callbacks in any order.** lwIP reports acknowledgements, data, errors, polls and
  answers of the name server in whatever order they happen, to objects that close,
  reconnect and delete themselves from within these callbacks.
* **Objects that hold each other.** A server and its clients, a connection and its
  control block, a queue and the requests on it: each must outlive its users.
* **Limits.** Full rings, full FIFOs, full queues, counters of eight and sixteen
  bits, intervals beyond the timer's range.

What makes each part correct is stated with the modules below.

## Modules

**SerialBuffer** gives each method of the C++ struct as an operator on a record of
its four members. `find` is the scan of the code with its running offset (a
recursive function), and is compared with a definition by sets.

**BoundedFifo** is what a buffer promises: a queue with a capacity; a write to a full
queue is refused; a read takes the oldest character; a resize keeps the contents.

**SerialRing** is one buffer with its two users. `writeChar` is three steps (test
for room, store the slot, publish `writePos`), `readChar` two (fetch, move
`readPos`). They interleave freely. `clear` and `resize` happen while neither user is
inside a method, as the comment at SerialBuffer.h:124 requires. `ResizeToFit` is the
resize that leaves one slot free; `SpecAnyResize` lets the caller ask for less.

**Uart** is one UART that receives and transmits: both FIFOs, USIE, the handler and the
driver calls. The buffers are taken at their contract, which SerialRing shows they
keep. A call is a program counter `pc` (`w_` for `uart_write`, `r_` for
`uart_read`, `t_` for `uart_wait_tx_empty`, `z_` for a resize); the handler
(`Interrupt`) and the shift registers (`ShiftIn`, `ShiftOut`) act between any two
steps. `USIE |= mask` is a load and a store. `uart_flush` and the deletion of a
buffer disable interrupts in the code and are one step here. Characters are
numbers in the order of arrival or acceptance, so order and loss are visible;
`wire`, `got`, `discarded` and `dropped` record where each went. The receive
timeout may be reached whenever the FIFO holds a character. `UART_RXCOUNT` is the
FIFO level modulo the FIFO's size, which is what the mask 0x7f does to a level of
0x80. The `callback` made at the end of the handler is in SerialPort.

**TaskQueue** is SystemClass. Post and dispatch are split at each access to
`taskCount`, an interrupt's post is one step. The counters are `uint8_t` (modulo
`CountRange`, 256 in the code), the comparison `taskCount != oldCount - 1` is made on `int` and is not. The OS's
queue (`system_os_post`) is external: it refuses an event when it is full. The
variable `disturbed` records whether an interrupt ever posted while a count was
being adjusted.

**SerialPort** has one or more HardwareSerial objects and the driver's global state:
the instance table, `isrMask`, the sources enabled in USIE, the shared interrupt, the
debug port, queued callbacks. A `uart_t` is named by the number of its allocation, so that a pointer to
a deleted structure differs from one to its successor. `end`, `setPort` and `begin` start a
call whose steps follow (`pc`): `StopIsr`, `FreeUart`, `ClearUart` are `uart_uninit`,
`EndDetach` the `uart_detach` at the end of `HardwareSerial::end`, `InitNew` to
`InitReturn` are `uart_init_ex`, with the order of USIE and `isrMask` in `uart_start_isr`
(`StartUsie`, `StartMask`). `InitRefused` and `InitGivesUp` are its early returns, with what
was allocated before. The interrupt handler may come between any two steps.
**MCSerialPort** gives the two ports their UARTs.

**UartConfig** is the wiring of UART0: pins, the function selected for each pin (`gpf`, what
`pinMode` of SmingCore/Digital.cpp writes), the IOSWAP bit, the second UART's pin, and the
divider of the baud rate.

**TcpConnection** gives the methods of TcpConnection and TcpClient, and the static
callbacks lwIP calls, as operators from a connection to a connection (or to the set
of outcomes where lwIP decides how much it takes). A connection is a record of the
object's members (`con`), of the lwIP control blocks it has used (`pcb`) and of the
number of completion reports since `connect()`. A control block has the argument its
callbacks are given (`arg`: the object, or NULL once the object has let go) and the
data not yet acknowledged. Data are counted in units of 2^16/`Wrap` bytes, so that
the `int16_t` totals wrap after `Wrap` units. `Delete` counts the deletions of an
object.

**TcpSession** is what a TcpClient promises those above it: a connection goes through
its states in order, and its end is reported once, at that moment.

**TcpClient** is one client with its lwIP: `connect()` with a name that is known,
looked up or refused, `send`, `close`, deletion by the application or by the object
itself, and every callback, for the block in use as well as for blocks it has let
go. A reconnection uses another control block while the old one still exists. Nothing
keeps the application from closing or deleting an object whose name lookup is under way:
the answer is then `DnsLate`, the code follows a null or dangling pointer, and the
behaviour ends there (`faulted`).

**TcpServer** has a server and the clients it makes, each a connection of
TcpConnection with a control block of its own. `Outcome` applies what a client's
callback does to the server: `onClientComplete` for a report, `onClientDestroy` for a
deletion, within the same step.

**HttpConnection** is HttpClient's queue and pooled connection for one server:
`onReadyToSendData` as an operator (`advance`, the switch on the connection's state,
then `pushAsyncPart`), called at the end of each handler that calls it in the code,
so also inside `onMessageComplete`. A request is on its way in three steps: written
(`sent`), acknowledged (`wire`), answered. `bodies` are the requests that still
have their body stream, which `sendRequestBody` takes from them and `sendRequestHeaders`
makes anew where it is made of POST parameters. A buffer of a response is parsed and may
then be refused, by the parser or by a delegate (`onReceiveRefused`). A connection may be
lost at any time and with any number of requests in both queues; `kept` records whether
every `cleanup()` so far found at most one request in execution and room for it. `freed`
are requests deleted; a queue that names one of these holds a dangling pointer.

**Timer** is one Timer over the OS timer. `cut` divides an interval, `FirePart` and
`FireIdle` / `FireCalling` are `processing()` for a part of a long interval and for
its end, the latter with a callback that calls one of the timer's methods. Time
passes with the OS timer's periods only; `elapsed` adds them up and `last` keeps what
the callback last waited.

A module `XProofs` holds the theorems about X and the lemmas they rest on.

Modules contain operators named `X_Something` before the operator `X`, marked as
variants for mutation testing: each is `X` with a plausible mistake, and some
property fails when it takes X's place.

## Runs

| Run | Checks | Bounds |
| --- | --- | --- |
| `ring` | the ring implements BoundedFifo; slots owned, counts right, `find` and `peekLastChar` right | sizes 2 to 4, two characters |
| `uart_tx` | order on the wire, no stranded character, everything accepted is sent or flushed, `uart_wait_tx_empty` returns, and with everything sent (`WaitReturns`, `WaitMeansSent`) | FIFO 2, buffer 4 slots, 7 characters, calls of 1 and 6 |
| `uart_rx` | the default settings (a receive buffer, none for transmission, TXWAIT): every character received accounted for, masked only with something to read; every `uart_write` returns (`WriteReturns`) | FIFOs 2 with threshold 1, buffer 3 slots, 3 characters each way, calls of 1 and 3 |
| `task_queue` | accepted callbacks run, once and in the order of their source, whatever interrupts a post or a dispatch (`RunsInOrder`, `AcceptedIsRun`); ready handlers live as long as needed; `maxTaskCount` | queue 2, counters modulo 5, 3 posts from the task, 2 from interrupts |
| `serial_port` | stale pointers, ownership, leaks of structures and buffers, the shared interrupt kept for every open port (`OpenPortServed`), debug port | two ports, two UARTs, 3 allocations, task queue 1 |
| `uart_config` | each pin has the function of the UART that uses it, and no other; I/O matrix; pins asked for | clock 20; rates 0, 3, 7, 21; all modes |
| `tcp_client` | implements TcpSession; success means acknowledged; no callback of a control block into an object that let go or is gone; only a peer heard again and again keeps a connection open (`SilentPeerTimesOut`); released control blocks are closed | two control blocks, totals wrap at 4 units, 3 held at a time, 5 sent, send buffer 2, time-out 2 polls, 2 lookups; peers may send for ever |
| `tcp_server` | the server outlives its clients and is deleted once; client list and count; shutdown completes | two clients at a time, any number in sequence, keep-alive 2 polls |
| `http_connection` | responses meet their requests; no request held twice or after deletion, and none lost while `kept`; the outgoing request is live when read; every request answered | two GETs, a POST with a body stream and one with parameters, no retries, queues of 2 |
| `timer` | callback on time; one-shot once; OS timer armed exactly when due; a running timer fires | OS limit 10, millisecond 3, intervals 0, 3, 8, 12, 35, six calls |

The bounds are small but past each threshold: the transmit buffer holds more than the
FIFO, so that one interrupt does not empty it, and a call asks for more than both
hold, so that it returns short; with TXWAIT a call asks for more than the FIFO holds, so that
it must wait; the threshold of the receive FIFO is one below its size as
on the chip (127 of 128); the task queue overflows, and its counter, which has room
for a full queue and one refusal, wraps with the next; rates divide the clock, do
not, exceed it and are zero. The rings of 2 to 4 slots wrap in every position, and
the proofs remove the bounds for the safety properties. The third allocation of
`serial_port` is that of a call that fails before it enters the table; once entered, a UART
cannot be opened again, one of the deviations below.

The totals of `tcp_client` pass their wrap with data outstanding, control blocks are
released while a new connection is made, and the time-out is beyond one poll.
With three clients (333,945 states) `tcp_server` shows nothing new. `http_connection`
fills both queues, and refuses requests. The intervals of `timer` are none, counted
in microseconds, in milliseconds, in two parts without and in four parts with rounding.
TLC also finds each module's `TypeOK` (`ConfigTypeOK`) true under the constants of its runs; no run
lists it, since the theorems below prove it for every value of the constants. The types of
TcpServer are conjuncts of the inductive invariant `Inv` in TcpServerProofs.

Two more runs show where the code and what is written about it part. The
counterexamples are short and worth reading.

| Run | What is said | What happens |
| --- | --- | --- |
| `uart_rx_race` | "if it's empty then read directly from hardware FIFO" (uart.cpp:179) | the handler fills the buffer meanwhile; later characters are returned first |
| `http_cleanup` | "if there are requests in the executionQueue -> move them back to the waiting queue" (HttpConnection.cpp:442) | half of them are moved, the others are lost |

## Known deviations without a run

The models contain further disagreements. Where a property is named, TLC refutes it
with the change of constants or specification given.

Serial path and tasks:

* With `UART_OPT_TXWAIT` and a transmit buffer, a write longer than FIFO and buffer never returns: the
  interrupt that would empty the buffer is enabled after the loop (uart.cpp:384;
  `WriteReturns` with `TxWait = TRUE`, `TxSize = 3`, calls of 1 and 5, `MaxTx = 5`).
  HardwareSerial.h:167 says "writes will wait for more buffer space so that all
  requested data is written".
* A receive FIFO filled to its last place counts as empty (uart.cpp:54;
  `RxAvailableSeen` under the constants of `uart_rx_race`).
* `realloc_buffer` resizes a buffer in use with interrupts enabled, against
  SerialBuffer.h:124 "Must be called with interrupts disabled" (`TxInOrder` under
  `SpecResize` with `TxSize = 3`).
* A resize below the contents puts `writePos` outside the block (`SpaceAccounted`
  under `SpecAnyResize`).
* A callback the OS refuses stays on the count for ever. After some 200 of them
  `taskCount`, a `uint8_t`, wraps: `taskCount != oldCount - 1` (System.cpp:28) then takes
  the wrap for an interrupt, and a refusal can leave `maxTaskCount` at the queue's length
  (`MaxCountTellsOverflow` without its hypothesis `NoWrap`).
  The attempt to prove it without is what showed this.
* `taskCount` is not the "number of tasks currently on queue" (System.h:160;
  `TaskCountRight` under the constants of `task_queue`): the second decrement of
  `taskHandler`, meant to repair a count that an interrupt disturbed (System.cpp:25-28),
  spoils one that was right, and refused posts stay counted.
* `onReady` is queued even when the system is ready, though System.h:138 says it
  runs at once, and its handler leaks when the post is refused.
* `uart_uninit` leaves the deleted structure in the table; "Returns nullptr if uart
  isn't initialised" (uart.h:164) is not so (`GetUartLive`), the UART cannot be
  opened again, a queued receive callback may find a null parameter
  (`QueuedCallbackSafe`), and `debugf` stays bound to a closed port (`NoStalePuts`).
* `uart_start_isr` enables the sources in USIE (uart.cpp:336) before `isrMask` says that
  they were asked for (340); an interrupt of the other UART in between disables them
  (232-233; `StartedSourcesKept`).
* `end()` of a port without a UART calls `uart_detach(-1)`, which clears USIE of UART1
  (`OthersSourcesKept`). These five are refuted under the constants of `serial_port`.
* `uart_set_pins` does not lead to the pins asked for in the one-way modes
  (`PinsHonoured` under the constants of `uart_config`).

TCP:

* Nothing cancels a name lookup: its answer after `close()` or deletion uses a null
  or dangling pointer (`LookupTargetLive` under the constants of `tcp_client`, in two
  steps: `connect()` to a name, `close()`).
* `close()` of a connection whose lookup is still under way releases a control block that
  was never connected: lwIP does not poll it, so nobody ever closes it. `ReleasedPcbClosed`
  speaks of active control blocks.
* Whatever a peer sends restarts the count of the time-out (TcpConnection.cpp:475, 585):
  one that keeps sending keeps the connection open for ever.
* A `connect()` that fails at once, or a `tcp_connect` refused after the lookup,
  leaves the state Connecting for good and reports nothing; the control block is on
  no list of lwIP and leaks with the next `close()`. An HttpClient never replaces such
  a connection.
* A name that is not found, and a time-out while connecting, are reported as
  success where nothing was given to `send()` yet: both totals are 0 (TcpClient.cpp:152).
* An object that deletes itself is not deleted after a failed lookup with nothing
  left to close, nor after an error given to its receive callback.
* A close after sending happens at the first acknowledgement, which may cover a part
  of the data, and then reports failure (TcpClient.cpp:186).
* A receive delegate that returns false does not abort the connection, though
  "abort the connection" (TcpClient.cpp:127): ERR_ABRT is returned without the abort.
* The static callbacks call `checkSelfFree()`, and `staticOnReceive` also `close()`,
  on an object a handler may just have deleted. What the destructor leaves in the
  freed memory keeps it from a second deletion.

HTTP client:

* A request to be retried is put on the execution queue and deleted
  (`RequestsConserved` with `Retried = {"g1"}`); it is never "send again"
  (HttpRequest.h:270).
* A request being answered when the connection is lost is deleted without a report.
* A lost request whose body stream was handed over is sent again without it.
* A full waiting queue loses what `cleanup()` moves back (`MovedBack` under the constants of
  `http_connection`).
* `outgoingRequest` is forgotten when the waiting queue is empty, so that a GET sent
  later is pipelined behind a POST, against HttpConnection.cpp:304 "the outgoing
  request does not allow pipelining".
* A response that comes before its request is sent in full deletes the request being
  sent (`OutgoingLive` with `Parsable(c)` weakened to `c.incomingRequest # None \/
  Executing(c)`).
* `freeHttpConnectionPool` removes while it counts up: with several servers half of
  the connections stay.

Timer:

* Setting the interval of a started one-shot timer makes it repeat (`restart()` calls
  `start()` with its default), and a short one-shot timer counts as started after it
  fired, so that setting its interval starts it again (Timer.h:94 "trigger once").
* `getIntervalUs()` is 1 for intervals that are not cut (Timer.h:128).

## Fairness

`Uart!FairSpec` has weak fairness of the transmitter (hardware), of interrupt
delivery (a pending, enabled interrupt is taken) and of the steps inside a driver
call (a call in progress continues when no interrupt runs). Nothing is assumed of
the application or of the other side of the line: no call need be made and no
character need arrive. `TaskQueue!Spec` has weak fairness of task context: the OS
dispatches a queued event and a callback returns, which the watchdog enforces.
`TcpClient!FairSpec` and `TcpServer!FairSpec` have weak fairness of lwIP's poll of
each active control block, with a close that succeeds: lwIP polls from its slow timer,
and a FIN it has no memory for is sent one day. Peers may be silent or send for ever; the
liveness property of `tcp_client` says what follows from each.
`HttpConnection!FairSpec` has weak fairness of polls in which lwIP takes what the
stream holds, of acknowledgements and of the server's answers; its liveness is about
a connection that holds and a server that answers. `Timer!FairSpec` has weak fairness
of the OS timer. SerialRing, SerialPort and UartConfig state safety only.

Deadlock is checked everywhere but in TaskQueue, the TCP modules, HttpConnection and
Timer, where the system may rest: all posts are made, the object is deleted, all
requests are done, the timer is stopped.

## Proofs

Every theorem holds for all values of the constants that satisfy the named
assumptions of its module: all sizes, all sets of requests, ports, clients and control
blocks, all bounds on the number of calls. Each invariant below was checked by TLC on
small instances before it was proved.

**SerialRingProofs**: `RingTypeCorrect`, `WriterAlwaysOwnsSlot`, `FetchedAlwaysOldest`,
`SpaceAlwaysAccounted`, and `RingImplementsFifo`, the refinement of `BoundedFifo`; for
`Chars \subseteq Nat` and `Sizes \subseteq Nat \ {0, 1}` (a ring of one slot holds
nothing; a `SerialBuffer` without a block is never shared). The inductive invariant is
`RingInv == TypeOK /\ WriterOwnsSlot /\ FetchedIsOldest`. TypeOK alone is not enough:
that `WritePublish` does not make a full ring look empty needs the knowledge that the
room the writer tested is still there, which holds because only the writer moves
`writePos` and the reader only makes room; that `ReadAdvance` returns the head of the
abstract queue needs that the fetched slot was not overwritten. The refinement has one
lemma for each step that changes what the ring holds: `StoreInvisible` (a stored,
unpublished character is outside the contents), `PublishAppends`, `AdvanceRemoves`,
`ResizeKeeps`, `EmptyContents`; all other steps are stutters.

`QueriesAlwaysMatchContents` is about what `find` computes for every ring and character.
`find` is a recursive function, and the library's induction over data cannot be used here,
so the proof goes another way. `Solution` is a function written without recursion: what a
scan that is at some position and offset will return. `SolutionIsScan` shows that it
satisfies the recursion equation of `find`, turn by turn (`ResultTurn`, with the three cases
of a turn: the scan stops, goes on, wraps). `ScanUnique` shows that nothing else does: two
solutions that differ would differ at a greatest position of the scan, and there they
agree (a least counterexample, from the theorem that `<` is well founded on the naturals).
So `find` is `Solution` (`FindResult`), and `SlotsInOrder` says that the slots a scan
examines from `readPos` are the contents in order.

**UartProofs**, for FIFOs and buffers of any size, with and without TXWAIT:

* `TypeCorrect` and `CapacityKept`, from `Basic`.
* `NeverStranded`, from `TxServed`: a character in the transmit buffer has the interrupt
  enabled, or the writer is before the store of USIE, or still in its loop with
  something accepted; and a reader about to store USIE has loaded it with the transmit
  interrupt. The second half is what the load and store of `USIE |= mask` need.
* `MaskedWithData`, from `RxServed`: the receive sources are masked together and only
  with characters in the FIFO; a call about to store USIE has loaded at least what is
  enabled now, since the handler only masks.
* `SentInOrder`, from `Ordered` (wire, FIFO and buffer, one behind the other, are what was
  accepted, in order, without what was discarded) with `TxServed`, which says that
  `uart_write` finds the buffer still empty when it writes to the FIFO.
* `WaitCorrect`, the action property of `uart_wait_tx_empty`, from the same two.
* `ReceivedConserved`, from `Placed`: the characters returned, buffered, in the FIFO and
  dropped partition those that arrived.

**TaskQueueProofs**: `TypeCorrect`; `MaxCountCorrect` from `CountInv`,
which says at each step of a post or dispatch what task context knows of the counter, as long
as nothing has disturbed it and `NoWrap` holds, see above;
`ReadyCorrect` from `ReadyInv` (a ready handler has one callback: being posted, queued,
being run or refused).
`CallbacksInOrder` (callbacks of one source run in the order posted, and at most once)
and `CallbacksKept` (none the OS accepted is lost before it runs) hold without either, however
wrong the counters are. They follow from `OrderInv`: of each source, what was run comes
before what is being run, that before what is queued, the queue is in order, and what task
context is posting comes after all of them. Order between the two sources is not promised:
an interrupt's post overtakes one of task context that has counted but not yet posted.

**SerialPortProofs**, for any number of ports, UARTs and allocations: `TypeCorrect`,
`PortsOwnUarts`, `NoLeak`, `IsrSafe`, `InterruptShared`, `DebugSafe`. They are proved
together: `Inv` adds to them that no two objects are for one UART (`Apart`), what the call in
progress knows at each of its steps (`AtStep`, `NewUart`, `Holds`), that the interrupts
handled are those of open ports and of the one just being opened (`Handled`), and that the
shared interrupt is on exactly while some are (`Shared`). The last is what makes the code's
`if(oldmask == 0)` enough for `InterruptShared`, the theorem of `OpenPortServed`; Handled is
what `IsrSafe` needs, since the table keeps pointers to deleted structures.

Its second part is about **UartConfig**, whose formulas have names of their own (`ConfigSpec`,
`configVars`) so that one module can extend both: `PinsAlwaysConsistent` and
`FullPinsAlwaysHonoured` from `WiringInv`, `BaudAlwaysActual` from `BaudInv`, for any clock and
any rates, zero and rates beyond the clock included, and `WiringTypeCorrect`. `WiringInv` adds
to the two properties which pairs of pins each mode can be on (`PinsOfMode`):
`uart_set_pins` and `uart_swap` look at one of the two pins only, which is enough because
a full-duplex UART0 is on one of three pairs.

**TcpClientProofs**: `TypeCorrect`, `SuccessCorrect`, `TargetsLive`, `Refinement` and
`OneReportPerConnect`, for any
set of control blocks and any width of the totals, with `MaxHeld < Wrap` (the heap is
smaller than 2^16 bytes). The invariant says that a client is `Up` (it has a control
block whose argument is the object; what `send()` accepted is acknowledged, with lwIP
or in the stream; the totals differ by what is not acknowledged, or by that less one
wrap) or `Down` (no block names it).
Success needs the bound: the totals are equal only if nothing is outstanding, because
less than a whole wrap can be. `TargetsLive` is about the callbacks of control blocks, with
lookups under way or not; that lookups find their object is false (see above). `Refinement` shows
that each step is a step of TcpSession or a stutter; `OneReportPerConnect` draws from it
what those above rely on: no report while the connection is under way, one when it has
ended, never two.

**TcpServerProofs**, for any set of clients: `ServerOutlives`, `ClientsCounted`,
`ClientsEndWithReport` and `ClientsReportOnce`. Every
client object is `Good` (alive, connected, with its control block) or `Gone`; the list is
the set of the good ones, the count their number, and a deleted server has none. That
`onClientComplete` and `onClientDestroy` come in one step for a client is what keeps
the count and the list together; the last two theorems state it (`StepMoves`: each call
and callback leaves a client as it was to the server, or gone with one more report).

**HttpConnectionProofs**, for any requests and any `PoolSize`, under `NoRetries` (no request has
retries left: with one, the code is wrong, see above): `TypeCorrect`, `MatchedAlways`,
`OutgoingSafe` and `ConservedAlways`, whose last conjunct, that nothing is lost, ends with the
first `cleanup()` that has more to move than it can (`CleanupMoves`: some are moved, some
refused by the waiting queue, some left behind), as run `http_cleanup` shows. The invariant: what is
answered and executed is `wire`, then `sent`, then the request being written (`Wired`); a
request written in full stays outgoing in a sending state only until it is acknowledged
(`Settled`); requests are `Conserved`; without a connection nothing is under way
(`Resting`). Settled is what `OutgoingSafe` needs: every handler that acknowledges ends in
`onReadyToSendData`, which leaves the state of a finished request
(`AdvanceSends`) before a response can delete it. `OnlyServedDeleted` is the action property
that follows: while a connection is in use, a request is deleted only as the oldest the
server has in full (`IncomingIsHead`, from Wired), or by the `send()` that refuses it.

**TimerProofs**, for any intervals whose count of parts fits `Width`, and any limit of the OS
timer above twice `MsLimit`, the longest interval it is given in microseconds: `TypeCorrect`,
`ArmedCorrect`, `OneShotCorrect`, `OnTime`. `Inv` says how the parts follow from the interval
asked for (`CutFor`) and that the time elapsed is the parts counted times their length
(`Sound`); the rest is arithmetic of `\div`.

Only model-checked is liveness (`WriteReturns`, `WaitReturns`, `AllSent`, `AcceptedIsRun`,
`SilentPeerTimesOut`, `ReleasedPcbClosed`, `ShutdownCompletes`, `AllAnswered`, `TimerFires`): it rests on fairness, and
so on ENABLED, which TLAPS cannot handle here.

## What is assumed of the application

Each HardwareSerial object is made for a UART of its own and moved only to one no
other object uses (HardwareSerial.h says that `Serial` is the instance for UART 0).
UART0 is not put on pin 2 while UART1 uses it, nor UART1 opened while UART0 does:
"UART 1 can't be used if GPIO2 is used with UART 0!" (HardwareSerial.h). Driver
calls are made from task context, one at a time, and with a non-null buffer and a
length above zero; for the others the calls return at once.

Delegates of TCP connections (ready, receive, completed) do not close, connect or
delete the connection that calls them; they may at any other time. What `send()` has
accepted and the peer not acknowledged stays below 2^16 bytes (`MaxHeld < Wrap`): the
heap is smaller than that. `send()` is used while connecting or connected; in other
states it returns false. HTTP servers answer requests in order and after they have all of
a request.

## What is not modelled

The components marked so in PROJECT.json, with the reason for each. Within the
modelled parts: frame format and other plain register settings; `uart_peek_char`
and `uart_rx_find`, which forward to the buffer; failure of memory allocation, which
leaves the state as it was (SerialPort has it for a port); framing errors (UIFR) in Uart, which
only reach the callback (SerialPort has them); characters that
arrive during the handler's own loop, which are those of the next interrupt; SSL,
which is compiled out by default; the error lwIP might give to a server client's
receive callback, which it never does (TcpClient has it); the pool of HTTP
connections to different servers, which share nothing else; HTTP bodies made of files, which
`multipartProducer` removes from the request as it sends them; HTTP and MQTT message formats.

## Plan

1. Proofs of what is left of HttpConnection without the hypothesis that no request is
   retried: which of its properties survive a retry, and which do not.
2. **MqttClient** on top of TcpSession: request queue, handshake, keep-alive.
3. HTTP server connections on top of TcpServer.
