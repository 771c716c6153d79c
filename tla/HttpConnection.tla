--------------------------- MODULE HttpConnection ---------------------------
(***************************************************************************)
(* The HTTP client's requests for one server: HttpClient, with its waiting *)
(* queue and pool of one connection, and HttpConnection, which moves them  *)
(* from the waiting queue onto the wire and into the execution queue, and  *)
(* matches the responses that come back with the requests executed.        *)
(*                                                                         *)
(* Requests are pointers to objects; h.freed are those already deleted.    *)
(* TCP is as TcpSession says it is: a connection that is connecting, then  *)
(* connected, then down for good.  A server answers a request once it has  *)
(* all of it, in order; that the request is acknowledged, lwIP reports     *)
(* before it hands over the response.                                      *)
(***************************************************************************)
EXTENDS Naturals, Sequences, SequencesExt

CONSTANTS
    Requests,      \* the requests the application may send
    Pipelinable,   \* those that are GET or HEAD
    WithBody,      \* those with a body stream
    WithParams,    \* those with POST parameters, of which their body is made
    Retried,       \* those whose `retries` is 1; the others have 0
    PoolSize       \* HTTP_REQUEST_POOL_SIZE, of both queues

None == "none"

ASSUME RequestsAssumption ==
    /\ None \notin Requests
    /\ Pipelinable \subseteq Requests /\ WithBody \subseteq Requests
    /\ WithParams \subseteq Requests /\ Retried \subseteq Requests
ASSUME PoolAssumption == PoolSize \in Nat \ {0}

VARIABLES
    h,             \* the connection's object, its queues and streams
    accepted       \* requests send() was given

vars == <<h, accepted>>

\* The fields HttpConnection has, and
\*   bodies, retries   the requests that still have a body stream, or a retry left,
\*   conn              the state of the TCP connection, None without an object,
\*   sent, wire        requests written in full: not yet, and already acknowledged,
\*   freed             requests deleted,
\*   kept              whether cleanup() has always had the room it needs (RoomToMoveBack).
NoConnection ==
    [waitingQueue |-> <<>>, executionQueue |-> <<>>,
     incomingRequest |-> None, outgoingRequest |-> None,
     state |-> "Ready", stream |-> None, conn |-> None, sent |-> <<>>, wire |-> <<>>,
     bodies |-> WithBody, retries |-> Retried, freed |-> {}, kept |-> TRUE]

Init == h = NoConnection /\ accepted = {}

Executing(c) == c.executionQueue # <<>>

-----------------------------------------------------------------------------
(* Sending *)

\* A variant for mutation testing.
mayPipeline_NoQueueTest(c) ==
    /\ Head(c.waitingQueue) \in Pipelinable
    /\ c.outgoingRequest # None => c.outgoingRequest \in Pipelinable

\* Whether the next waiting request may follow what is being executed.
mayPipeline(c) ==
    Executing(c) =>
        /\ Head(c.waitingQueue) \in Pipelinable
        /\ c.outgoingRequest # None => c.outgoingRequest \in Pipelinable

\* The headers are put in the stream; a body of parameters is made anew each time.
sendRequestHeaders(c) ==
    [c EXCEPT !.stream = "headers", !.bodies = @ \cup ({c.outgoingRequest} \cap WithParams)]

\* The request gives up its body to the stream.
sendRequestBody(c) ==
    [c EXCEPT !.state = "SendingBody", !.stream = "body", !.bodies = @ \ {c.outgoingRequest}]

\* A variant for mutation testing.
nextRequest_KeepsState(c) ==
    IF c.waitingQueue = <<>> \/ ~mayPipeline(c) \/ Len(c.executionQueue) = PoolSize THEN c
    ELSE sendRequestHeaders([c EXCEPT !.executionQueue = Append(@, Head(c.waitingQueue)),
                                      !.waitingQueue = Tail(@),
                                      !.outgoingRequest = Head(c.waitingQueue),
                                      !.state = "SendingHeaders"])

\* State eHCS_Ready: the next request starts, if there is one and it may.
nextRequest(c) ==
    IF c.waitingQueue = <<>> THEN [c EXCEPT !.outgoingRequest = None, !.state = "Ready"]
    ELSE IF ~mayPipeline(c) \/ Len(c.executionQueue) = PoolSize THEN [c EXCEPT !.state = "Ready"]
    ELSE sendRequestHeaders([c EXCEPT !.executionQueue = Append(@, Head(c.waitingQueue)),
                                      !.waitingQueue = Tail(@),
                                      !.outgoingRequest = Head(c.waitingQueue),
                                      !.state = "SendingHeaders"])

\* The switch of onReadyToSendData: what is in the stream goes first, then the
\* body of the request, then the next request.
advance(c) ==
    IF c.stream # None THEN c
    ELSE IF c.state = "SendingHeaders" /\ c.outgoingRequest \in c.bodies
    THEN sendRequestBody(c)
    ELSE nextRequest(c)

\* TcpClient::pushAsyncPart: lwIP takes the rest of the stream, or less.
pushAsyncPart(c, all) ==
    IF c.stream = None \/ ~all THEN c
    ELSE [c EXCEPT !.stream = None,
                   !.sent = IF c.outgoingRequest \in c.bodies THEN @
                            ELSE Append(@, c.outgoingRequest)]

onReadyToSendData(c, all) == pushAsyncPart(advance(c), all)

\* The chance to send that polls and received data give where lwIP has room.
Rooms == {"none", "some", "all"}
mayReadyToSend(c, room) == IF room = "none" THEN c ELSE onReadyToSendData(c, room = "all")

-----------------------------------------------------------------------------
(* The parser's callbacks *)

\* A variant for mutation testing.
onMessageBegin_Newest(c) ==
    [c EXCEPT !.incomingRequest = Last(c.executionQueue), !.executionQueue = Front(@)]

\* The queue is empty, or gives its head.
onMessageBegin(c) ==
    [c EXCEPT !.incomingRequest = Head(c.executionQueue), !.executionQueue = Tail(@)]

\* staticOnMessageComplete.  A retry puts the request back on the queue, although
\* the reset() that follows deletes it.
onMessageComplete(c, all) ==
    LET r == c.incomingRequest
        done == [c EXCEPT !.incomingRequest = None, !.freed = @ \cup {r}, !.wire = Tail(@)]
    IN  IF r \in c.retries
        THEN [done EXCEPT !.retries = @ \ {r},
                          !.executionQueue = IF Len(@) < PoolSize THEN Append(@, r) ELSE @]
        ELSE IF Executing(done) THEN done ELSE onReadyToSendData(done, all)

\* The parser goes from one of the two to the other.
parse(c, all) ==
    IF c.incomingRequest = None THEN onMessageBegin(c) ELSE onMessageComplete(c, all)

\* There is something for it: the rest of a response, or the start of one.
Parsable(c) == c.incomingRequest # None \/ (c.wire # <<>> /\ Executing(c))

-----------------------------------------------------------------------------
(* Losing the connection *)

\* A variant for mutation testing.
moved_RoundedDown(n) == n \div 2

\* The loop of cleanup() counts i up while the queue it takes from gets shorter:
\* of n requests it moves half, rounded up.
moved(n) == (n + 1) \div 2

\* ObjectQueue::enqueue refuses what does not fit.
enqueueAll(q, s) == q \o SubSeq(s, 1, IF Len(s) < PoolSize - Len(q) THEN Len(s) ELSE PoolSize - Len(q))

\* At most one request is executed, and the waiting queue can take it.  Of what is
\* beyond that, cleanup() loses what moved() leaves behind or the queue refuses.
RoomToMoveBack(c) ==
    /\ Len(c.executionQueue) <= 1
    /\ Len(c.waitingQueue) + Len(c.executionQueue) <= PoolSize

\* cleanup(): reset() deletes the request being answered, the rest is moved back.
cleanup(c) ==
    LET n == moved(Len(c.executionQueue))
    IN  [c EXCEPT !.waitingQueue = enqueueAll(@, SubSeq(c.executionQueue, 1, n)),
                  !.executionQueue = SubSeq(@, n + 1, Len(@)),
                  !.freed = @ \cup ({c.incomingRequest} \ {None}),
                  !.incomingRequest = None,
                  !.kept = IF RoomToMoveBack(c) THEN @ ELSE FALSE]

\* onFinished() and letting go of the control block.
down(c) == [c EXCEPT !.conn = "down", !.stream = None, !.sent = <<>>, !.wire = <<>>]

\* ~HttpConnection: what is left in its execution queue nobody holds any more.
Delete(c) ==
    IF c.conn = None THEN c
    ELSE [NoConnection EXCEPT !.waitingQueue = cleanup(c).waitingQueue, !.bodies = c.bodies,
                              !.retries = c.retries, !.freed = cleanup(c).freed,
                              !.kept = cleanup(c).kept]

-----------------------------------------------------------------------------
(* The actions: the application *)

\* HttpClient::send.  A connection that is down is replaced; connect() on a
\* connection in use does nothing.  A request that does not fit is deleted.
send(r) ==
    /\ r \notin accepted
    /\ accepted' = accepted \cup {r}
    /\ LET queued == [h EXCEPT !.waitingQueue = Append(@, r)]
       IN  \/ Len(h.waitingQueue) = PoolSize /\ h' = [h EXCEPT !.freed = @ \cup {r}]
           \/ /\ Len(h.waitingQueue) < PoolSize
              /\ h.conn \in {"connecting", "connected"} /\ h' = queued
           \/ /\ Len(h.waitingQueue) < PoolSize
              /\ h.conn \in {None, "down"}
              /\ h' = [Delete(queued) EXCEPT !.conn = "connecting"]

\* HttpClient::cleanup(): the pool, then the waiting queue.
Cleanup ==
    /\ h.conn # None
    /\ h' = LET c == Delete(h)
            IN  [c EXCEPT !.waitingQueue = <<>>, !.freed = @ \cup ToSet(c.waitingQueue)]
    /\ UNCHANGED accepted

(* lwIP *)

\* The connection is established; connect() may also fail and leave it
\* "connecting" for good (see TcpClient).
onConnected(all) ==
    /\ h.conn = "connecting"
    /\ h' = onReadyToSendData([h EXCEPT !.conn = "connected"], all)
    /\ UNCHANGED accepted

\* The peer acknowledged what was written.
onSent(all) ==
    /\ h.conn = "connected" /\ h.sent # <<>>
    /\ h' = onReadyToSendData([h EXCEPT !.wire = @ \o h.sent, !.sent = <<>>], all)
    /\ UNCHANGED accepted

onPoll(room) ==
    /\ h.conn = "connected"
    /\ h' = mayReadyToSend(h, room)
    /\ UNCHANGED accepted

\* A buffer with a part of a response, up to and including its end if `two`.
Parsed(two, all) ==
    LET once == parse(h, all)
    IN  IF two /\ Parsable(once) THEN parse(once, all) ELSE once

\* It is parsed and gives a chance to send, as every buffer does ...
onReceive(two, room) ==
    /\ h.conn = "connected" /\ Parsable(h)
    /\ h' = mayReadyToSend(Parsed(two, room = "all"), room)
    /\ UNCHANGED accepted

\* ... or the parser or a delegate refuses it and onTcpReceive has the connection
\* closed.  (A response nobody asked for is refused at once: see close.)
onReceiveRefused(two, all) ==
    /\ h.conn = "connected" /\ Parsable(h)
    /\ h' = down(Parsed(two, all))
    /\ UNCHANGED accepted

\* Reset by the peer, or no connection.
onError ==
    /\ h.conn \in {"connecting", "connected"}
    /\ h' = down(cleanup(h))
    /\ UNCHANGED accepted

\* TcpClient::close(): FIN of the peer, time-out, name not found, or data that is
\* no response to anything.
close ==
    /\ h.conn \in {"connecting", "connected"}
    /\ h' = down(h)
    /\ UNCHANGED accepted

Next ==
    \/ \E r \in Requests : send(r)
    \/ Cleanup
    \/ \E all \in BOOLEAN : onConnected(all) \/ onSent(all)
    \/ \E room \in Rooms :
         \/ onPoll(room)
         \/ \E two \in BOOLEAN : onReceive(two, room)
    \/ \E two, all \in BOOLEAN : onReceiveRefused(two, all)
    \/ onError
    \/ close

Spec == Init /\ [][Next]_vars

\* lwIP polls the connection and in the end takes what the stream holds; the
\* peer acknowledges and answers.
FairSpec ==
    /\ Spec /\ WF_vars(onPoll("all")) /\ WF_vars(onSent(TRUE))
    /\ WF_vars(onReceive(FALSE, "all"))

-----------------------------------------------------------------------------
(* Properties *)

TypeOK ==
    /\ \A q \in {h.waitingQueue, h.executionQueue, h.wire, h.sent} : q \in Seq(Requests)
    /\ Len(h.waitingQueue) <= PoolSize /\ Len(h.executionQueue) <= PoolSize
    /\ h.incomingRequest \in Requests \cup {None} /\ h.outgoingRequest \in Requests \cup {None}
    /\ h.state \in {"Ready", "SendingHeaders", "SendingBody"}
    /\ h.stream \in {None, "headers", "body"}
    /\ h.conn \in {None, "connecting", "connected", "down"}
    /\ accepted \subseteq Requests /\ h.freed \subseteq accepted

answering == (IF h.incomingRequest = None THEN <<>> ELSE <<h.incomingRequest>>) \o h.executionQueue
held == answering \o h.waitingQueue

\* A request send() has taken is held once, by a queue or as the one being
\* answered, until it is deleted, and never afterwards; and as long as no connection
\* has ended with more than cleanup() can move back, none is lost, however sending,
\* answers, losses and reconnections follow each other (send, cleanup,
\* onMessageBegin, staticOnMessageComplete).
RequestsConserved ==
    /\ IsInjective(held)
    /\ ToSet(held) \cap h.freed = {}
    /\ h.kept => ToSet(held) \cup h.freed = accepted

\* "if there are requests in the executionQueue -> move them back to the waiting
\* queue" (HttpConnection.cpp:442): however many there are, none is lost.
MovedBack == ToSet(held) \cup h.freed = accepted

\* A response is given to the request it answers: what the connection holds as
\* answered or executed is what the server has, then what is on the way to it,
\* then at most the one request still being written (onMessageBegin).
ResponseMatches ==
    h.conn = "connected" =>
        /\ IsPrefix(h.wire \o h.sent, answering)
        /\ Len(answering) <= Len(h.wire) + Len(h.sent) + 1

\* onReadyToSendData never looks into an outgoing request that the response has
\* already deleted: its method where something is executed, its body where the
\* headers were sent.
OutgoingLive ==
    (h.conn = "connected" /\ (Executing(h) \/ h.state = "SendingHeaders")) =>
        h.outgoingRequest \notin h.freed

\* On a connection that holds, a request is answered.
AllAnswered ==
    \A r \in Requests : (h.conn = "connected" /\ r \in ToSet(held)) ~>
                            (r \in h.freed \/ h.conn # "connected")
=============================================================================
