---------------------------- MODULE TcpConnection ----------------------------
(***************************************************************************)
(* What the methods of TcpConnection and TcpClient (SmingCore/Network) do  *)
(* to a connection.  Every handler is an operator from a connection `w` to *)
(* a connection: the object w.con, the lwIP control blocks w.pcb it has    *)
(* used, and w.reports, how often `completed` has been called since the    *)
(* last connect().  The machines TcpClient and TcpServer call them.        *)
(*                                                                         *)
(* Data are counted in units of 2^16 / Wrap bytes.  SSL is compiled out,   *)
(* as it is by default.                                                    *)
(***************************************************************************)
EXTENDS Integers, FiniteSets

CONSTANTS
    Wrap,         \* the range of int16_t, in units of data
    USHRT_MAX,    \* the largest uint16_t, as a time-out: none
    SndBuf        \* lwIP's send buffer, in units of data

ASSUME WrapAssumption == Wrap \in Nat \ {0, 1}
ASSUME UshrtAssumption == USHRT_MAX \in Nat \ {0, 1}
ASSUME SndBufAssumption == SndBuf \in Nat \ {0}

Null == 0          \* the null pointer to a control block
NoStream == -1     \* a null stream; otherwise the units it still holds

eTCS == {"Ready", "Connecting", "Connected", "Successful", "Failed"}
Finished == {"Successful", "Failed"}

\* The application's object.  `destroyed` counts how often it was deleted.
NewConnection(auto, wait) ==
    [tcp |-> Null, state |-> "Ready", stream |-> NoStream, asyncTotalSent |-> 0,
     asyncTotalLen |-> 0, asyncCloseAfterSent |-> FALSE, canSend |-> TRUE, sleep |-> 0,
     timeOut |-> wait, autoSelfDestruct |-> auto, destroyed |-> 0]

\* A control block: "new" blocks are on no list of lwIP and never get a callback;
\* `arg` tells whether its callbacks are given the object or NULL.
FreePcb == [st |-> "free", arg |-> FALSE, unacked |-> 0]
Active(pcb) == pcb.st \in {"connecting", "established"}

isProcessing(con) == con.state \in {"Connecting", "Connected"}
Alive(con) == con.destroyed = 0

-----------------------------------------------------------------------------
(* TcpConnection: the control block and the life of the object *)

initialize(w, p) ==
    [w EXCEPT !.con.tcp = p, !.con.sleep = 0, !.con.canSend = TRUE,
              !.pcb[p] = [FreePcb EXCEPT !.st = "new", !.arg = TRUE]]

\* lwIP may be out of memory for the FIN (ok = FALSE): staticOnPoll tries again.
closeTcpConnection(w, p, ok) ==
    IF p = Null THEN w
    ELSE [w EXCEPT !.pcb[p] = IF ok THEN FreePcb ELSE [@ EXCEPT !.arg = FALSE]]

\* A variant for mutation testing.
letGo_KeepsArg(w) == [w EXCEPT !.con.tcp = Null]

letGo(w) ==
    IF w.con.tcp = Null THEN w
    ELSE [w EXCEPT !.pcb[w.con.tcp].arg = FALSE, !.con.tcp = Null]

\* ~TcpClient and ~TcpConnection: no virtual close() any more, hence no report.
Delete(w) ==
    LET gone == letGo([w EXCEPT !.con.autoSelfDestruct = FALSE])
    IN  [gone EXCEPT !.con.stream = NoStream, !.con.destroyed = @ + 1]

checkSelfFree(w) ==
    IF w.con.tcp = Null /\ w.con.autoSelfDestruct THEN Delete(w) ELSE w

TcpConnection_close(w) == IF w.con.tcp = Null THEN w ELSE checkSelfFree(letGo(w))

getAvailableWriteSize(w) ==
    IF w.con.canSend /\ w.con.tcp # Null THEN SndBuf - w.pcb[w.con.tcp].unacked ELSE 0

-----------------------------------------------------------------------------
(* TcpClient *)

onFinished(w) ==
    [w EXCEPT !.con.stream = NoStream, !.con.asyncTotalSent = 0, !.con.asyncTotalLen = 0,
              !.reports = @ + 1]

onError(w) == onFinished([w EXCEPT !.con.state = "Failed"])

\* A variant for mutation testing.
close_NoTest(w) ==
    TcpConnection_close(
        onFinished([w EXCEPT !.con.state =
            IF w.con.asyncTotalSent = w.con.asyncTotalLen THEN "Successful" ELSE "Failed"]))

close(w) ==
    TcpConnection_close(
        IF w.con.state \in Finished THEN w
        ELSE onFinished([w EXCEPT !.con.state =
                 IF w.con.asyncTotalSent = w.con.asyncTotalLen THEN "Successful" ELSE "Failed"]))

\* A variant for mutation testing.
send_NotCounted(w, len, closeAfter) ==
    [w EXCEPT !.con.stream = (IF @ = NoStream THEN 0 ELSE @) + len,
              !.con.asyncCloseAfterSent = closeAfter]

\* send() in a state that allows it.
send(w, len, closeAfter) ==
    [w EXCEPT !.con.stream = (IF @ = NoStream THEN 0 ELSE @) + len,
              !.con.asyncTotalLen = (@ + len) % Wrap,
              !.con.asyncCloseAfterSent = closeAfter]

\* What one call of write(stream) may hand to lwIP: its queue may be full at any
\* time and tcp_write may fail.
Writable(w) ==
    LET room == getAvailableWriteSize(w)
    IN  0..(IF w.con.stream < room THEN w.con.stream ELSE room)

\* pushAsyncPart: k units are written; a stream that is finished is deleted.
pushAsyncPart(w, k) ==
    [w EXCEPT !.pcb[w.con.tcp].unacked = @ + k,
              !.con.stream = IF @ = k THEN NoStream ELSE @ - k]

\* onReadyToSendData under the guard all callers but onConnected have.
readyToSend(w) ==
    IF getAvailableWriteSize(w) = 0 \/ w.con.stream = NoStream THEN {w}
    ELSE {pushAsyncPart(w, k) : k \in Writable(w)}

onConnected(w, ok) ==
    IF ok THEN readyToSend([w EXCEPT !.con.state = "Connected", !.con.canSend = TRUE])
    ELSE {close([onError(w) EXCEPT !.con.canSend = TRUE])}

onSent(w, n) ==
    LET told == [w EXCEPT !.con.asyncTotalSent = (@ + n) % Wrap]
    IN  IF w.con.stream = NoStream /\ w.con.asyncCloseAfterSent
        THEN {close(v) : v \in readyToSend(told)}
        ELSE readyToSend(told)

onPoll(w) ==
    IF w.con.sleep >= w.con.timeOut /\ w.con.timeOut # USHRT_MAX
    THEN {close(w)} ELSE readyToSend(w)

-----------------------------------------------------------------------------
(* The callbacks lwIP calls for control block p: the set of outcomes. *)

awake(w) == [w EXCEPT !.con.sleep = 0]
freed(W) == {checkSelfFree(v) : v \in W}

\* The three-way handshake is over, or has failed.
staticOnConnected(w, p, ok) ==
    IF ~w.pcb[p].arg THEN {[w EXCEPT !.pcb[p] = FreePcb]}
    ELSE freed(onConnected(w, ok))

\* Data: the receive delegate either takes them, or returns false, upon which
\* nothing is sent and lwIP is told ERR_ABRT, which leaves the connection open.
staticOnReceive(w, p, taken, ok) ==
    IF ~w.pcb[p].arg THEN {closeTcpConnection(w, p, ok)}
    ELSE freed(IF taken THEN readyToSend(awake(w)) ELSE {awake(w)})

\* The peer closed its side: a null buffer.
staticOnReceiveNull(w, p, ok) ==
    IF ~w.pcb[p].arg THEN {closeTcpConnection(w, p, ok)}
    ELSE freed({closeTcpConnection(close(awake(w)), p, ok)})

\* An error given to the receive callback: here nothing checks for deletion.
staticOnReceiveError(w, p, ok) ==
    {IF ~w.pcb[p].arg THEN closeTcpConnection(w, p, ok)
     ELSE onError([closeTcpConnection(awake(w), p, ok) EXCEPT !.con.tcp = Null])}

\* n units were acknowledged.
staticOnSent(w, p, n) ==
    LET acked == [w EXCEPT !.pcb[p].unacked = @ - n]
    IN  IF ~w.pcb[p].arg THEN {acked} ELSE freed(onSent(awake(acked), n))

\* A variant for mutation testing.
staticOnPoll_NoSleep(w, p, ok) ==
    IF ~w.pcb[p].arg THEN {closeTcpConnection(w, p, ok)} ELSE freed(onPoll(w))

\* A variant for mutation testing.
staticOnPoll_KeepsOrphan(w, p, ok) ==
    IF ~w.pcb[p].arg THEN {w}
    ELSE freed(onPoll([w EXCEPT !.con.sleep = (@ + 1) % (USHRT_MAX + 1)]))

staticOnPoll(w, p, ok) ==
    IF ~w.pcb[p].arg THEN {closeTcpConnection(w, p, ok)}
    ELSE freed(onPoll([w EXCEPT !.con.sleep = (@ + 1) % (USHRT_MAX + 1)]))

\* lwIP has freed the control block: reset by the peer, or given up.
staticOnError(w, p) ==
    LET lost == [w EXCEPT !.pcb[p] = FreePcb]
    IN  IF ~w.pcb[p].arg THEN lost
        ELSE checkSelfFree(onError([lost EXCEPT !.con.tcp = Null]))
=============================================================================
