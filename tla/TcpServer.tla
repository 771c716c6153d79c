------------------------------ MODULE TcpServer ------------------------------
(***************************************************************************)
(* A TcpServer (SmingCore/Network/TcpServer.cpp) with the TcpClient        *)
(* objects it makes for accepted connections.  The clients delete          *)
(* themselves and call the server when they complete and when they are     *)
(* destroyed; after shutdown() the server deletes itself with the last of  *)
(* them.  All of it happens in lwIP callbacks of different connections.    *)
(***************************************************************************)
EXTENDS TcpConnection

CONSTANTS
    Clients,      \* the client objects that may exist at a time
    KeepAlive     \* the time-out of a client, in polls

ASSUME KeepAliveAssumption == KeepAlive \in 1..USHRT_MAX

VARIABLES
    client,         \* client[c]: the connection of client object c
    connections,    \* TcpServer::connections
    activeClients,  \* TcpServer::activeClients
    active,         \* FALSE once shutdown() was called
    listening,      \* is there a listening control block?
    deleted         \* how often the server was deleted

vars == <<client, connections, activeClients, active, listening, deleted>>
serverVars == <<connections, activeClients, active, listening, deleted>>

NoClient == [con |-> [NewConnection(FALSE, 0) EXCEPT !.destroyed = 1],
             pcb |-> <<FreePcb>>, reports |-> 0]

p1 == 1      \* a client uses a single control block, its own first
tcpOf(c) == client[c].pcb[p1]
Exists(c) == Alive(client[c].con)

Init ==
    /\ client = [c \in Clients |-> NoClient]
    /\ connections = {} /\ activeClients = 0
    /\ active = TRUE /\ listening = FALSE /\ deleted = 0

-----------------------------------------------------------------------------
(* The server *)

listen ==
    /\ deleted = 0 /\ active /\ ~listening
    /\ listening' = TRUE
    /\ UNCHANGED <<client, connections, activeClients, active, deleted>>

\* onAccept, createClient and onClient, unless the heap is short, upon which lwIP
\* drops the connection.
onAccept(c) ==
    /\ listening /\ ~Exists(c) /\ tcpOf(c).st = "free"
    /\ active
    /\ LET made == initialize([con |-> NewConnection(TRUE, KeepAlive), pcb |-> <<FreePcb>>,
                               reports |-> 0], p1)
       IN  client' = [client EXCEPT ![c] = [made EXCEPT !.con.state = "Connected",
                                                        !.pcb[p1].st = "established"]]
    /\ connections' = connections \cup {c}
    /\ activeClients' = activeClients + 1
    /\ UNCHANGED <<active, listening, deleted>>

\* A variant for mutation testing.
deletedAfter_Any(gone, conns) == IF gone /\ ~active THEN deleted + 1 ELSE deleted

\* The server is deleted along with the last connection of a shutdown.
deletedAfter(gone, conns) == IF gone /\ ~active /\ conns = {} THEN deleted + 1 ELSE deleted

\* A variant for mutation testing.
Outcome_KeepsClient(c, v) ==
    LET gone == ~Alive(v.con) /\ Exists(c)
    IN  /\ client' = [client EXCEPT ![c] = v]
        /\ activeClients' = activeClients - (v.reports - client[c].reports)
        /\ connections' = connections
        /\ deleted' = deletedAfter(gone, connections \ {c})
        /\ UNCHANGED <<active, listening>>

\* A callback of client c ends in v: onClientComplete for each report and
\* onClientDestroy if the object is gone.
Outcome(c, v) ==
    LET gone == ~Alive(v.con) /\ Exists(c)
    IN  /\ client' = [client EXCEPT ![c] = v]
        /\ activeClients' = activeClients - (v.reports - client[c].reports)
        /\ connections' = IF gone THEN connections \ {c} ELSE connections
        /\ deleted' = deletedAfter(gone, connections')
        /\ UNCHANGED <<active, listening>>

\* A variant for mutation testing.
shutdown_KeepsTimeOut ==
    /\ deleted = 0 /\ active
    /\ active' = FALSE /\ listening' = FALSE
    /\ deleted' = IF connections = {} THEN deleted + 1 ELSE deleted
    /\ UNCHANGED <<client, connections, activeClients>>

shutdown ==
    /\ deleted = 0 /\ active
    /\ active' = FALSE /\ listening' = FALSE
    /\ deleted' = IF connections = {} THEN deleted + 1 ELSE deleted
    /\ client' = [c \in Clients |-> IF c \in connections
                                    THEN [client[c] EXCEPT !.con.timeOut = 1] ELSE client[c]]
    /\ UNCHANGED <<connections, activeClients>>

-----------------------------------------------------------------------------
(* The clients: calls of the application and callbacks of lwIP *)

\* Bound: the application gives a client one unit at a time.
Send(c, closeAfter) ==
    /\ Exists(c) /\ isProcessing(client[c].con)
    /\ client[c].con.asyncTotalLen = 0
    /\ Outcome(c, send(client[c], 1, closeAfter))

Close(c) == Exists(c) /\ Outcome(c, close(client[c]))

\* lwIP hands the receive callback no error: it has error callbacks for that.
Callback(c, ok) ==
    /\ tcpOf(c).st = "established"
    /\ \/ \E taken \in BOOLEAN : \E v \in staticOnReceive(client[c], p1, taken, ok) : Outcome(c, v)
       \/ \E v \in staticOnReceiveNull(client[c], p1, ok) : Outcome(c, v)
       \/ tcpOf(c).unacked > 0 /\ \E v \in staticOnSent(client[c], p1, 1) : Outcome(c, v)
       \/ Outcome(c, staticOnError(client[c], p1))

Poll(c, ok) ==
    /\ tcpOf(c).st = "established"
    /\ \E v \in staticOnPoll(client[c], p1, ok) : Outcome(c, v)

Next ==
    \/ listen
    \/ shutdown
    \/ \E c \in Clients :
         \/ onAccept(c)
         \/ \E closeAfter \in BOOLEAN : Send(c, closeAfter)
         \/ Close(c)
         \/ \E ok \in BOOLEAN : Callback(c, ok) \/ Poll(c, ok)

Spec == Init /\ [][Next]_vars

FairSpec == Spec /\ \A c \in Clients : WF_vars(Poll(c, TRUE))

-----------------------------------------------------------------------------
(* Properties *)

\* As long as a client exists the server its delegates point to does too, and
\* client and server are deleted once (onClientDestroy, shutdown, checkSelfFree).
ClientHasServer ==
    /\ deleted <= 1
    /\ deleted = 1 => \A c \in Clients : ~Exists(c)
    /\ \A c \in Clients : client[c].con.destroyed <= 1

\* The list holds exactly the clients that exist, and activeClients, a uint16_t
\* that is counted down by onClientComplete, counts those that have not completed.
ClientsAccounted ==
    /\ connections = {c \in Clients : Exists(c)}
    /\ activeClients = Cardinality({c \in Clients : Exists(c) /\ isProcessing(client[c].con)})

\* After shutdown() the polls close every connection at its next poll, whatever
\* the peers do, and the server is deleted in the end.
ShutdownCompletes == ~active ~> deleted = 1
=============================================================================
