------------------------------ MODULE TcpClient ------------------------------
(***************************************************************************)
(* One TcpClient and the lwIP it talks to: connect() with its name lookup, *)
(* asynchronous sending, the callbacks of its control blocks in any order, *)
(* time-outs counted in polls, closing and reconnecting, deletion by the   *)
(* application or by the object itself.                                    *)
(***************************************************************************)
EXTENDS TcpConnection

CONSTANTS
    Pcbs,                \* the control blocks lwIP has to give
    TimeOut,             \* the time-out of the client, in polls
    MaxTotal,            \* bound: units accepted by send() per connection
    MaxHeld,             \* units the heap has room for: accepted, not acknowledged
    MaxLookups           \* the lookups lwIP has room for in its table

ASSUME PcbsAssumption == Pcbs \subseteq Nat \ {0}
ASSUME TimeOutAssumption == TimeOut \in 0..USHRT_MAX
ASSUME HeapAssumption == MaxTotal \in Nat /\ MaxHeld \in 1..(Wrap - 1)
ASSUME LookupsAssumption == MaxLookups \in Nat

VARIABLES
    w,            \* the client: its object, control blocks and reports
    lookups,      \* the DnsLookup structures dns_gethostbyname still holds
    accepted,     \* units send() has accepted since connect()
    acked,        \* units acknowledged to this connection
    faulted       \* has an answer been given to an object that is gone?

vars == <<w, lookups, accepted, acked, faulted>>

con == w.con
pcb == w.pcb
Target(p) == pcb[p].arg /\ con.tcp = p

Init ==
    /\ \E auto \in BOOLEAN :
         w = [con |-> NewConnection(auto, TimeOut), pcb |-> [p \in Pcbs |-> FreePcb], reports |-> 0]
    /\ lookups = 0 /\ accepted = 0 /\ acked = 0 /\ faulted = FALSE

-----------------------------------------------------------------------------
(* The application *)

\* tcp_connect, which takes a new control block only and may be refused.
internalTcpConnect(v, ok) ==
    IF ok /\ v.pcb[v.con.tcp].st = "new"
    THEN [v EXCEPT !.pcb[v.con.tcp].st = "connecting"] ELSE v

\* connect() to an address, or to a name that is known, looked up, or refused at
\* once.  Only for a name does it wait for the connection before it sends.  Where
\* it returns false for want of a lookup or a route, the object stays "Connecting".
connect(p, to) ==
    /\ Alive(con) /\ ~isProcessing(con) /\ (con.tcp = Null => pcb[p].st = "free")
    /\ LET begun == IF con.tcp = Null THEN initialize(w, p) ELSE w
           busy == [begun EXCEPT !.con.state = "Connecting",
                                 !.con.canSend = IF to = "address" THEN @ ELSE FALSE, !.reports = 0]
       IN  \/ to \in {"address", "known"} /\ \E ok \in BOOLEAN : w' = internalTcpConnect(busy, ok)
           \/ to \in {"inprogress", "error"} /\ w' = busy
    /\ to = "inprogress" => lookups < MaxLookups
    /\ lookups' = IF to = "inprogress" THEN lookups + 1 ELSE lookups
    /\ accepted' = 0 /\ acked' = 0
    /\ UNCHANGED faulted

Send(len, closeAfter) ==
    /\ Alive(con) /\ isProcessing(con)
    /\ accepted + len <= MaxTotal /\ accepted - acked + len <= MaxHeld
    /\ w' = send(w, len, closeAfter)
    /\ accepted' = accepted + len
    /\ UNCHANGED <<lookups, acked, faulted>>

Close ==
    /\ Alive(con)
    /\ w' = close(w)
    /\ UNCHANGED <<lookups, accepted, acked, faulted>>

\* An object that deletes itself is not deleted by the application.
DeleteClient ==
    /\ Alive(con) /\ ~con.autoSelfDestruct
    /\ w' = Delete(w)
    /\ UNCHANGED <<lookups, accepted, acked, faulted>>

-----------------------------------------------------------------------------
(* lwIP *)

\* staticDnsResponse; the result of the connection attempt is not looked at.  The
\* answer may be to a lookup of an earlier connect().
DnsFound(ok) ==
    /\ lookups > 0 /\ Alive(con) /\ con.tcp # Null
    /\ lookups' = lookups - 1
    /\ w' = internalTcpConnect(w, ok)
    /\ UNCHANGED <<accepted, acked, faulted>>

DnsNotFound(ok) ==
    /\ lookups > 0 /\ Alive(con)
    /\ lookups' = lookups - 1
    /\ w' = close([closeTcpConnection(w, con.tcp, ok) EXCEPT !.con.tcp = Null])
    /\ UNCHANGED <<accepted, acked, faulted>>

\* Nothing cancels a lookup: the object it is for may be deleted, or have no control
\* block to give to tcp_connect.  Whatever happens then is not modelled.
DnsLate ==
    /\ lookups > 0 /\ (~Alive(con) \/ con.tcp = Null)
    /\ lookups' = lookups - 1
    /\ faulted' = TRUE
    /\ UNCHANGED <<w, accepted, acked>>

Connected(p, ok) ==
    /\ pcb[p].st = "connecting"
    /\ w' \in staticOnConnected([w EXCEPT !.pcb[p].st = IF ok THEN "established" ELSE @], p, ok)
    /\ UNCHANGED <<lookups, accepted, acked, faulted>>

Receive(p, taken, ok) ==
    /\ pcb[p].st = "established"
    /\ w' \in staticOnReceive(w, p, taken, ok)
    /\ UNCHANGED <<lookups, accepted, acked, faulted>>

ReceiveNull(p, ok) ==
    /\ pcb[p].st = "established"
    /\ w' \in staticOnReceiveNull(w, p, ok) \cup staticOnReceiveError(w, p, ok)
    /\ UNCHANGED <<lookups, accepted, acked, faulted>>

Acknowledge(p, n) ==
    /\ pcb[p].st = "established" /\ n <= pcb[p].unacked
    /\ w' \in staticOnSent(w, p, n)
    /\ acked' = IF Target(p) THEN acked + n ELSE acked
    /\ UNCHANGED <<lookups, accepted, faulted>>

Poll(p, ok) ==
    /\ Active(pcb[p])
    /\ w' \in staticOnPoll(w, p, ok)
    /\ UNCHANGED <<lookups, accepted, acked, faulted>>

Error(p) ==
    /\ Active(pcb[p])
    /\ w' = staticOnError(w, p)
    /\ UNCHANGED <<lookups, accepted, acked, faulted>>

Callback(p) ==
    \/ \E ok \in BOOLEAN :
         \/ Connected(p, ok)
         \/ \E taken \in BOOLEAN : Receive(p, taken, ok)
         \/ ReceiveNull(p, ok)
         \/ Poll(p, ok)
    \/ \E n \in 1..MaxHeld : Acknowledge(p, n)
    \/ Error(p)

Next ==
    /\ ~faulted
    /\ \/ \E p \in Pcbs, to \in {"address", "known", "inprogress", "error"} : connect(p, to)
       \/ \E len \in 1..MaxHeld, closeAfter \in BOOLEAN : Send(len, closeAfter)
       \/ Close
       \/ DeleteClient
       \/ \E ok \in BOOLEAN : DnsFound(ok) \/ DnsNotFound(ok)
       \/ DnsLate
       \/ \E p \in Pcbs : Callback(p)

Spec == Init /\ [][Next]_vars

\* lwIP polls every active control block; a FIN it has no memory for now is
\* sent one day.
FairSpec == Spec /\ \A p \in Pcbs : WF_vars(~faulted /\ Poll(p, TRUE))

-----------------------------------------------------------------------------
(* Properties *)

TypeOK ==
    /\ con.tcp \in Pcbs \cup {Null} /\ con.state \in eTCS /\ con.stream \in NoStream..MaxHeld
    /\ con.asyncTotalSent \in 0..(Wrap - 1) /\ con.asyncTotalLen \in 0..(Wrap - 1)
    /\ con.sleep \in 0..USHRT_MAX /\ con.destroyed \in Nat
    /\ \A p \in Pcbs : /\ pcb[p].st \in {"free", "new", "connecting", "established"}
                       /\ pcb[p].arg \in BOOLEAN
                       /\ pcb[p].unacked \in 0..SndBuf
    /\ w.reports \in Nat /\ lookups \in Nat /\ accepted \in 0..MaxTotal /\ acked \in 0..MaxTotal
    /\ faulted \in BOOLEAN

Session == INSTANCE TcpSession WITH
               phase <- IF Alive(con) THEN con.state ELSE "deleted", reports <- w.reports

\* `completed` is called exactly once for every connect(), at the moment the
\* state becomes final, however errors, time-outs, the peer's FIN and close()
\* follow each other; no state is left but as a session may, and a deleted
\* object reports nothing (the guard of TcpClient::close, onError, onFinished).
SessionRefined == Session!SessionSpec

\* Success is reported only if the peer has acknowledged every unit that send()
\* accepted, although both totals are int16_t and wrap (TcpClient::close).
SuccessMeansAcked == con.state = "Successful" => acked = accepted

\* lwIP never calls back into an object that has let go of the control block or
\* is deleted, the object never keeps a control block that is gone, and it is deleted
\* at most once (TcpConnection::close, closeTcpConnection, checkSelfFree).
CallbackTargetLive ==
    /\ \A p \in Pcbs : pcb[p].arg <=> con.tcp = p
    /\ con.tcp # Null => Alive(con) /\ pcb[con.tcp].st # "free"
    /\ con.destroyed <= 1

\* A name lookup finds the object that asked for it waiting, with a control block
\* to connect (TcpConnection.cpp:68 and 635).
LookupTargetLive == lookups > 0 => Alive(con) /\ con.tcp # Null /\ con.state = "Connecting"

InUse == con.tcp # Null /\ Active(pcb[con.tcp]) /\ ~faulted

\* The peer is heard: data or an acknowledgement for the connection in use.
Heard ==
    \E p \in Pcbs :
        /\ Target(p)
        /\ \/ \E taken, ok \in BOOLEAN : Receive(p, taken, ok)
           \/ \E n \in 1..MaxHeld : Acknowledge(p, n)

\* A connection stays in use for ever only if its peer is heard again and again,
\* whoever connects, sends or reconnects meanwhile: polls time a silent one out,
\* and nothing but the peer starts their count anew (TcpConnection.cpp:127, 475
\* and 585).
SilentPeerTimesOut == <>[]InUse => []<><<Heard>>_vars

\* A control block close() has let go of is closed by a later callback:
\* "reset pointer to close connection on next callback" (TcpConnection::close).
ReleasedPcbClosed ==
    \A p \in Pcbs : (Active(pcb[p]) /\ ~pcb[p].arg) ~> (pcb[p].st = "free" \/ faulted)
=============================================================================
