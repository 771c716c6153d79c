--------------------------- MODULE TcpServerProofs ---------------------------
(***************************************************************************)
(* Proofs about TcpServer, for any number of clients, any time-out and any *)
(* range of the totals.                                                    *)
(***************************************************************************)
EXTENDS TcpServer, FiniteSetTheorems, TLAPS

Con ==
    [tcp : {Null, p1}, state : eTCS, stream : Int, asyncTotalSent : Int, asyncTotalLen : Int,
     asyncCloseAfterSent : BOOLEAN, canSend : BOOLEAN, sleep : Nat, timeOut : Nat,
     autoSelfDestruct : BOOLEAN, destroyed : Nat]

Pcb == [st : {"free", "new", "established"}, arg : BOOLEAN, unacked : Int]

Client == [con : Con, pcb : [{p1} -> Pcb], reports : Nat]

\* A client that exists is connected and holds its control block; ...
Good(v) ==
    /\ v \in Client
    /\ v.con.destroyed = 0 /\ v.con.autoSelfDestruct
    /\ v.con.tcp = p1 /\ v.pcb[p1].arg /\ v.con.state = "Connected"

\* ... one that does not exist has let go of it, and deletes itself no more.
Gone(v) ==
    /\ v \in Client
    /\ v.con.destroyed = 1 /\ ~v.con.autoSelfDestruct
    /\ v.con.tcp = Null /\ ~v.pcb[p1].arg

-----------------------------------------------------------------------------
(* What the methods do to a client *)

LEMMA Constants == Wrap \in Nat \ {0} /\ USHRT_MAX \in Nat /\ SndBuf \in Nat /\ KeepAlive \in Nat
  BY WrapAssumption, UshrtAssumption, SndBufAssumption, KeepAliveAssumption

\* v is what a callback or a call makes of a client u that exists: it still does and
\* has reported nothing, or it is gone and has reported once.
Follows(u, v) ==
    \/ Good(v) /\ v.reports = u.reports
    \/ Gone(v) /\ v.reports = u.reports + 1

LEMMA GoodAwake ==
    ASSUME NEW v, Good(v)
    PROVE  Good(awake(v)) /\ awake(v).reports = v.reports
  BY DEF Good, Client, Con, awake

LEMMA GoodSleep ==
    ASSUME NEW v, Good(v), NEW n \in Nat
    PROVE  LET u == [v EXCEPT !.con.sleep = n] IN Good(u) /\ u.reports = v.reports
  BY DEF Good, Client, Con

LEMMA GoodSend ==
    ASSUME NEW v, Good(v), NEW len \in Nat, NEW closeAfter \in BOOLEAN
    PROVE  Good(send(v, len, closeAfter)) /\ send(v, len, closeAfter).reports = v.reports
  <1>1. /\ v.con.stream \in Int /\ v.con.asyncTotalLen \in Int /\ NoStream \in Int
    BY DEF Good, Client, Con, NoStream
  <1>2. (v.con.asyncTotalLen + len) % Wrap \in Int
    BY <1>1, Constants
  <1>3. (IF v.con.stream = NoStream THEN 0 ELSE v.con.stream) + len \in Int
    BY <1>1
  <1> QED BY <1>2, <1>3 DEF Good, Client, Con, send

LEMMA GoodReadyToSend ==
    ASSUME NEW v, Good(v), NEW u \in readyToSend(v)
    PROVE  Good(u) /\ u.reports = v.reports
  <1>1. CASE u = v
    BY <1>1
  <1>2. CASE \E k \in Writable(v) : u = pushAsyncPart(v, k)
    <2>1. PICK k \in Writable(v) : u = pushAsyncPart(v, k)
      BY <1>2
    <2>2. k \in Int
      BY <2>1 DEF Writable
    <2>3. /\ v.con.stream \in Int /\ v.pcb[p1].unacked \in Int /\ v.con.tcp = p1
          /\ NoStream \in Int
      BY DEF Good, Client, Con, Pcb, NoStream
    <2>4. /\ v.pcb[p1].unacked + k \in Int
          /\ (IF v.con.stream = k THEN NoStream ELSE v.con.stream - k) \in Int
      BY <2>2, <2>3
    <2> QED BY <2>1, <2>3, <2>4, ZenonT(60) DEF Good, Client, Con, Pcb, pushAsyncPart
  <1> QED BY <1>1, <1>2 DEF readyToSend

\* The methods field by field.
LEMMA FinishedFields ==
    ASSUME NEW v \in Client
    PROVE  LET u == onFinished(v)
           IN  /\ u \in Client /\ u.con.tcp = v.con.tcp /\ u.con.destroyed = v.con.destroyed
               /\ u.con.autoSelfDestruct = v.con.autoSelfDestruct /\ u.con.state = v.con.state
               /\ u.pcb = v.pcb /\ u.reports = v.reports + 1
  <1> DEFINE r == v.reports + 1
             k == [v.con EXCEPT !.stream = NoStream, !.asyncTotalSent = 0, !.asyncTotalLen = 0]
  <1>1. r \in Nat
    BY DEF Client
  <1>2. NoStream \in Int
    BY DEF NoStream
  <1>3. /\ k \in Con /\ k.tcp = v.con.tcp /\ k.destroyed = v.con.destroyed
        /\ k.autoSelfDestruct = v.con.autoSelfDestruct /\ k.state = v.con.state
    <2> DEFINE m == [v.con EXCEPT !.stream = NoStream]
    <2>1. /\ m \in Con /\ m.tcp = v.con.tcp /\ m.destroyed = v.con.destroyed
          /\ m.autoSelfDestruct = v.con.autoSelfDestruct /\ m.state = v.con.state
      BY <1>2 DEF Client, Con
    <2> DEFINE n == [m EXCEPT !.asyncTotalSent = 0]
    <2>2. k = [n EXCEPT !.asyncTotalLen = 0]
      OBVIOUS
    <2> HIDE DEF m
    <2>3. /\ n \in Con /\ n.tcp = v.con.tcp /\ n.destroyed = v.con.destroyed
          /\ n.autoSelfDestruct = v.con.autoSelfDestruct /\ n.state = v.con.state
      BY <2>1 DEF Con
    <2> HIDE DEF n, k
    <2> QED BY <2>2, <2>3 DEF Con
  <1>4. onFinished(v) = [v EXCEPT !.con = k, !.reports = r]
    BY DEF onFinished, Client, Con
  <1> HIDE DEF r, k
  <1>5. /\ [v EXCEPT !.con = k, !.reports = r] \in Client
        /\ [v EXCEPT !.con = k, !.reports = r].con = k
        /\ [v EXCEPT !.con = k, !.reports = r].pcb = v.pcb
        /\ [v EXCEPT !.con = k, !.reports = r].reports = r
    BY <1>1, <1>3 DEF Client
  <1>6. r = v.reports + 1
    BY DEF r
  <1> QED BY <1>3, <1>4, <1>5, <1>6

LEMMA StateFields ==
    ASSUME NEW v \in Client, NEW s \in eTCS
    PROVE  LET u == [v EXCEPT !.con.state = s]
           IN  /\ u \in Client /\ u.con.tcp = v.con.tcp /\ u.con.destroyed = v.con.destroyed
               /\ u.con.autoSelfDestruct = v.con.autoSelfDestruct /\ u.con.state = s
               /\ u.pcb = v.pcb /\ u.reports = v.reports
  BY DEF Client, Con

LEMMA LetGoFields ==
    ASSUME NEW v \in Client
    PROVE  LET u == letGo(v)
           IN  /\ u \in Client /\ u.con.tcp = Null /\ u.con.destroyed = v.con.destroyed
               /\ u.con.autoSelfDestruct = v.con.autoSelfDestruct /\ u.con.state = v.con.state
               /\ u.reports = v.reports /\ (~v.pcb[p1].arg \/ v.con.tcp = p1 => ~u.pcb[p1].arg)
  <1>1. CASE v.con.tcp = Null
    BY <1>1 DEF letGo, Null, p1
  <1>2. CASE v.con.tcp = p1
    <2>1. v.con.tcp # Null
      BY <1>2 DEF Null, p1
    <2> DEFINE f == [v.pcb EXCEPT ![p1].arg = FALSE]
               k == [v.con EXCEPT !.tcp = Null]
    <2>2. f \in [{p1} -> Pcb] /\ ~f[p1].arg
      BY DEF Client, Pcb
    <2>3. /\ k \in Con /\ k.tcp = Null /\ k.destroyed = v.con.destroyed
          /\ k.autoSelfDestruct = v.con.autoSelfDestruct /\ k.state = v.con.state
      BY DEF Client, Con
    <2>4. letGo(v) = [v EXCEPT !.pcb = f, !.con = k]
      BY <1>2, <2>1 DEF letGo, Client
    <2> HIDE DEF f, k
    <2> QED BY <2>2, <2>3, <2>4 DEF Client
  <1> QED BY <1>1, <1>2 DEF Client, Con

LEMMA DeleteFields ==
    ASSUME NEW v \in Client, v.con.destroyed = 0, ~v.pcb[p1].arg \/ v.con.tcp = p1
    PROVE  Gone(Delete(v)) /\ Delete(v).reports = v.reports
  <1> DEFINE x == [v EXCEPT !.con.autoSelfDestruct = FALSE]
             y == letGo(x)
             k == [y.con EXCEPT !.stream = NoStream, !.destroyed = y.con.destroyed + 1]
  <1>1. /\ x \in Client /\ x.con.destroyed = 0 /\ ~x.con.autoSelfDestruct
        /\ x.con.tcp = v.con.tcp /\ x.pcb = v.pcb /\ x.reports = v.reports
    BY DEF Client, Con
  <1> HIDE DEF x
  <1>2. /\ y \in Client /\ y.con.tcp = Null /\ y.con.destroyed = 0 /\ ~y.con.autoSelfDestruct
        /\ y.reports = v.reports /\ ~y.pcb[p1].arg
    BY <1>1, LetGoFields
  <1> HIDE DEF y
  <1>3. NoStream \in Int /\ y.con.destroyed + 1 = 1 /\ 1 \in Nat
    BY <1>2 DEF NoStream
  <1>4. k \in Con /\ k.tcp = Null /\ k.destroyed = 1 /\ ~k.autoSelfDestruct
    BY <1>2, <1>3 DEF Client, Con
  <1>5. Delete(v) = [y EXCEPT !.con = k]
    BY <1>2 DEF Delete, x, y, Client
  <1> HIDE DEF k
  <1> QED BY <1>2, <1>4, <1>5 DEF Gone, Client

\* The object deletes itself as soon as it has let go of its control block.
LEMMA GoneClose ==
    ASSUME NEW v, Good(v)
    PROVE  Gone(close(v)) /\ close(v).reports = v.reports + 1
  <1> DEFINE s == IF v.con.asyncTotalSent = v.con.asyncTotalLen THEN "Successful" ELSE "Failed"
             ended == [v EXCEPT !.con.state = s]
             told == onFinished(ended)
             loose == letGo(told)
  <1>1. v.con.state \notin Finished /\ s \in eTCS
    BY DEF Good, Finished, eTCS
  <1> HIDE DEF s
  <1>2. /\ ended \in Client /\ ended.con.destroyed = 0 /\ ended.con.autoSelfDestruct
        /\ ended.con.tcp = p1 /\ ended.reports = v.reports
    BY <1>1, StateFields DEF Good
  <1> HIDE DEF ended
  <1>3. /\ told \in Client /\ told.con.destroyed = 0 /\ told.con.autoSelfDestruct
        /\ told.con.tcp = p1 /\ told.reports = v.reports + 1
    BY <1>2, FinishedFields
  <1> HIDE DEF told
  <1>4. /\ loose \in Client /\ loose.con.destroyed = 0 /\ loose.con.autoSelfDestruct
        /\ loose.con.tcp = Null /\ ~loose.pcb[p1].arg /\ loose.reports = v.reports + 1
    BY <1>3, LetGoFields
  <1>5. close(v) = checkSelfFree(loose)
    BY <1>1, <1>3 DEF close, TcpConnection_close, told, ended, s, Null, p1
  <1> HIDE DEF loose
  <1>6. checkSelfFree(loose) = Delete(loose)
    BY <1>4 DEF checkSelfFree
  <1>7. Gone(Delete(loose)) /\ Delete(loose).reports = loose.reports
    BY <1>4, DeleteFields
  <1> QED BY <1>4, <1>5, <1>6, <1>7

LEMMA PcbFields ==
    ASSUME NEW v \in Client, NEW x \in Pcb
    PROVE  LET u == [v EXCEPT !.pcb[p1] = x]
           IN  u \in Client /\ u.con = v.con /\ u.reports = v.reports /\ u.pcb[p1] = x
  <1> DEFINE f == [v.pcb EXCEPT ![p1] = x]
  <1>1. f \in [{p1} -> Pcb] /\ f[p1] = x
    BY DEF Client
  <1>2. [v EXCEPT !.pcb[p1] = x] = [v EXCEPT !.pcb = f]
    OBVIOUS
  <1> HIDE DEF f
  <1> QED BY <1>1, <1>2 DEF Client

LEMMA FreePcbType == FreePcb \in Pcb /\ ~FreePcb.arg
  BY DEF FreePcb, Pcb

LEMMA Freed ==
    ASSUME NEW v, Good(v) \/ Gone(v)
    PROVE  checkSelfFree(v) = v
  BY DEF Good, Gone, checkSelfFree, Null, p1

LEMMA FreedSet ==
    ASSUME NEW W, \A v \in W : Good(v) \/ Gone(v)
    PROVE  freed(W) = W
  <1>1. \A v \in W : checkSelfFree(v) = v
    BY Freed
  <1> QED BY <1>1 DEF freed

\* lwIP's side of a close leaves an object that is gone alone.
LEMMA GoneCloseTcp ==
    ASSUME NEW v, Gone(v), NEW ok \in BOOLEAN
    PROVE  Gone(closeTcpConnection(v, p1, ok)) /\ closeTcpConnection(v, p1, ok).reports = v.reports
  <1> DEFINE x == IF ok THEN FreePcb ELSE [v.pcb[p1] EXCEPT !.arg = FALSE]
  <1>1. x \in Pcb /\ ~x.arg
    BY FreePcbType DEF Gone, Client, Pcb
  <1>2. closeTcpConnection(v, p1, ok) = [v EXCEPT !.pcb[p1] = x]
    BY DEF closeTcpConnection, Null, p1
  <1> HIDE DEF x
  <1> QED BY <1>1, <1>2, PcbFields DEF Gone

LEMMA GoodError ==
    ASSUME NEW v, Good(v)
    PROVE  Follows(v, staticOnError(v, p1))
  <1> DEFINE lost == [v EXCEPT !.pcb[p1] = FreePcb]
             loose == [lost EXCEPT !.con.tcp = Null]
             failed == [loose EXCEPT !.con.state = "Failed"]
             told == onFinished(failed)
  <1>1. /\ lost \in Client /\ lost.con = v.con /\ lost.reports = v.reports /\ ~lost.pcb[p1].arg
    BY PcbFields, FreePcbType DEF Good
  <1> HIDE DEF lost
  <1>2. /\ loose \in Client /\ loose.con.destroyed = 0 /\ loose.con.autoSelfDestruct
        /\ loose.con.tcp = Null /\ ~loose.pcb[p1].arg /\ loose.reports = v.reports
    BY <1>1 DEF Good, Client, Con
  <1> HIDE DEF loose
  <1>3. /\ failed \in Client /\ failed.con.destroyed = 0 /\ failed.con.autoSelfDestruct
        /\ failed.con.tcp = Null /\ ~failed.pcb[p1].arg /\ failed.reports = v.reports
    <2>1. "Failed" \in eTCS
      BY DEF eTCS
    <2> QED BY <1>2, <2>1, StateFields
  <1> HIDE DEF failed
  <1>4. /\ told \in Client /\ told.con.destroyed = 0 /\ told.con.autoSelfDestruct
        /\ told.con.tcp = Null /\ ~told.pcb[p1].arg /\ told.reports = v.reports + 1
    BY <1>3, FinishedFields
  <1>5. staticOnError(v, p1) = checkSelfFree(told)
    BY DEF Good, staticOnError, onError, lost, loose, failed
  <1> HIDE DEF told
  <1>6. checkSelfFree(told) = Delete(told)
    BY <1>4 DEF checkSelfFree
  <1>7. Gone(Delete(told)) /\ Delete(told).reports = told.reports
    BY <1>4, DeleteFields
  <1> QED BY <1>4, <1>5, <1>6, <1>7 DEF Follows

\* The callbacks of lwIP.
LEMMA GoodReceive ==
    ASSUME NEW u, Good(u), NEW taken \in BOOLEAN, NEW ok \in BOOLEAN,
           NEW v \in staticOnReceive(u, p1, taken, ok)
    PROVE  Follows(u, v)
  <1> DEFINE W == IF taken THEN readyToSend(awake(u)) ELSE {awake(u)}
  <1>1. \A x \in W : Good(x) /\ x.reports = u.reports
    BY GoodAwake, GoodReadyToSend
  <1>2. v \in W
    BY <1>1, FreedSet DEF staticOnReceive, Good
  <1> QED BY <1>1, <1>2 DEF Follows

LEMMA GoodReceiveNull ==
    ASSUME NEW u, Good(u), NEW ok \in BOOLEAN, NEW v \in staticOnReceiveNull(u, p1, ok)
    PROVE  Follows(u, v)
  <1> DEFINE x == close(awake(u))
             y == closeTcpConnection(x, p1, ok)
  <1>1. Gone(x) /\ x.reports = u.reports + 1
    BY GoodAwake, GoneClose
  <1> HIDE DEF x
  <1>2. Gone(y) /\ y.reports = u.reports + 1
    BY <1>1, GoneCloseTcp
  <1>3. v = y
    BY <1>2, Freed DEF staticOnReceiveNull, Good, freed, x
  <1> QED BY <1>2, <1>3 DEF Follows

LEMMA GoodSent ==
    ASSUME NEW u, Good(u), NEW v \in staticOnSent(u, p1, 1)
    PROVE  Follows(u, v)
  <1> DEFINE acked == [u EXCEPT !.pcb[p1].unacked = @ - 1]
             told == [awake(acked) EXCEPT !.con.asyncTotalSent = (@ + 1) % Wrap]
  <1>0. u.pcb[p1].unacked - 1 \in Int
    BY DEF Good, Client, Pcb
  <1>1. Good(acked) /\ acked.reports = u.reports
    BY <1>0 DEF Good, Client, Pcb
  <1> HIDE DEF acked
  <1>2. Good(awake(acked)) /\ awake(acked).reports = u.reports
    BY <1>1, GoodAwake
  <1>3. Good(told) /\ told.reports = u.reports
    <2>1. (awake(acked).con.asyncTotalSent + 1) % Wrap \in Int
      BY <1>2, Constants DEF Good, Client, Con
    <2> QED BY <1>2, <2>1 DEF Good, Client, Con
  <1>4. ~u.pcb[p1].arg = FALSE
    BY DEF Good
  <1>5. v \in freed(onSent(awake(acked), 1))
    BY <1>4 DEF staticOnSent, acked
  <1>6. \A x \in readyToSend(told) : /\ Good(x) /\ x.reports = u.reports
                                     /\ Gone(close(x)) /\ close(x).reports = u.reports + 1
    BY <1>3, GoodReadyToSend, GoneClose
  <1>7. \A x \in onSent(awake(acked), 1) : Follows(u, x)
    BY <1>6 DEF onSent, Follows
  <1>8. freed(onSent(awake(acked), 1)) = onSent(awake(acked), 1)
    BY <1>7, FreedSet DEF Follows
  <1> QED BY <1>5, <1>7, <1>8

LEMMA GoodPoll ==
    ASSUME NEW u, Good(u), NEW ok \in BOOLEAN, NEW v \in staticOnPoll(u, p1, ok)
    PROVE  Follows(u, v)
  <1> DEFINE n == (u.con.sleep + 1) % (USHRT_MAX + 1)
             x == [u EXCEPT !.con.sleep = n]
  <1>1. n \in Nat
    BY Constants DEF Good, Client, Con
  <1> HIDE DEF n
  <1>2. Good(x) /\ x.reports = u.reports
    BY <1>1, GoodSleep
  <1>3. v \in freed(onPoll(x))
    BY DEF staticOnPoll, Good, n
  <1> HIDE DEF x
  <1>4. \A y \in onPoll(x) : Follows(u, y)
    BY <1>2, GoneClose, GoodReadyToSend DEF onPoll, Follows
  <1>5. freed(onPoll(x)) = onPoll(x)
    BY <1>4, FreedSet DEF Follows
  <1> QED BY <1>3, <1>4, <1>5

\* What lwIP still calls for a client that is gone.
LEMMA GoneCallbacks ==
    ASSUME NEW u, Gone(u), NEW ok \in BOOLEAN, NEW taken \in BOOLEAN,
           NEW v, \/ v \in staticOnReceive(u, p1, taken, ok)
                  \/ v \in staticOnReceiveNull(u, p1, ok)
                  \/ v \in staticOnSent(u, p1, 1)
                  \/ v \in staticOnPoll(u, p1, ok)
                  \/ v = staticOnError(u, p1)
    PROVE  Gone(v) /\ v.reports = u.reports
  <1> DEFINE acked == [u EXCEPT !.pcb[p1].unacked = @ - 1]
             lost == [u EXCEPT !.pcb[p1] = FreePcb]
  <1>0. ~u.pcb[p1].arg /\ u.pcb[p1].unacked - 1 \in Int
    BY DEF Gone, Client, Pcb
  <1>1. Gone(acked) /\ acked.reports = u.reports
    BY <1>0 DEF Gone, Client, Pcb
  <1>2. Gone(lost) /\ lost.reports = u.reports
    BY PcbFields, FreePcbType DEF Gone
  <1>3. v \in {closeTcpConnection(u, p1, ok), acked, lost}
    BY <1>0 DEF staticOnReceive, staticOnReceiveNull, staticOnSent, staticOnPoll, staticOnError
  <1> QED BY <1>1, <1>2, <1>3, GoneCloseTcp
-----------------------------------------------------------------------------
(* The server *)

\* ClientsAccounted holds because a client that exists is always connected: it goes
\* with the callback that ends its connection.  The server is deleted once because
\* it needs a last client to go, and none comes after shutdown().
Inv ==
    /\ client \in [Clients -> Client]
    /\ \A c \in Clients : Good(client[c]) \/ Gone(client[c])
    /\ connections = {c \in Clients : Good(client[c])}
    /\ IsFiniteSet(connections) /\ activeClients = Cardinality(connections)
    /\ active \in BOOLEAN /\ listening \in BOOLEAN /\ deleted \in 0..1
    /\ deleted = 1 => ~active /\ connections = {}

LEMMA GoodOrGone ==
    ASSUME NEW v
    PROVE  /\ Good(v) => Alive(v.con) /\ isProcessing(v.con) /\ v \in Client /\ ~Gone(v)
           /\ Gone(v) => ~Alive(v.con) /\ v \in Client /\ ~Good(v)
  BY DEF Good, Gone, Alive, isProcessing

LEMMA NewConnectionType ==
    ASSUME NEW auto \in BOOLEAN, NEW wait \in Nat
    PROVE  LET k == NewConnection(auto, wait) IN
           /\ k \in Con /\ k.autoSelfDestruct = auto /\ k.destroyed = 0 /\ k.tcp = Null
  <1>1. NoStream \in Int /\ "Ready" \in eTCS
    BY DEF NoStream, eTCS
  <1> QED BY <1>1 DEF NewConnection, Con

LEMMA NoClientGone == Gone(NoClient) /\ NoClient.reports = 0
  <1> DEFINE n == NewConnection(FALSE, 0)
             k == [n EXCEPT !.destroyed = 1]
             f == <<FreePcb>>
  <1>0. n \in Con /\ ~n.autoSelfDestruct /\ n.tcp = Null
    BY NewConnectionType
  <1>1. k \in Con /\ k.destroyed = 1 /\ ~k.autoSelfDestruct /\ k.tcp = Null
    <2> HIDE DEF n
    <2> QED BY <1>0 DEF Con
  <1>2. f \in [{p1} -> Pcb] /\ ~f[p1].arg
    BY FreePcbType DEF p1
  <1>3. NoClient = [con |-> k, pcb |-> f, reports |-> 0]
    BY DEF NoClient
  <1> HIDE DEF k, f
  <1> QED BY <1>1, <1>2, <1>3 DEF Gone, Client

LEMMA InvInit == Init => Inv
  <1>1. SUFFICES ASSUME Init PROVE Inv
    OBVIOUS
  <1>2. client = [c \in Clients |-> NoClient] /\ connections = {} /\ activeClients = 0
        /\ active = TRUE /\ listening = FALSE /\ deleted = 0
    BY <1>1 DEF Init
  <1>3. client \in [Clients -> Client] /\ \A c \in Clients : Gone(client[c]) /\ ~Good(client[c])
    BY <1>2, NoClientGone, GoodOrGone
  <1>4. connections = {c \in Clients : Good(client[c])}
    BY <1>2, <1>3
  <1>5. IsFiniteSet(connections) /\ activeClients = Cardinality(connections)
    BY <1>2, FS_EmptySet
  <1>6. active \in BOOLEAN /\ listening \in BOOLEAN
    BY <1>2
  <1>7. deleted \in 0..1 /\ deleted # 1
    BY <1>2
  <1> QED BY <1>3, <1>4, <1>5, <1>6, <1>7 DEF Inv

\* What a call or a callback of one client leaves.
Leads(u, v) ==
    \/ Good(u) /\ Follows(u, v)
    \/ Gone(u) /\ Gone(v) /\ v.reports = u.reports

LEMMA OutcomeInv ==
    ASSUME Inv, NEW c \in Clients, NEW v, Outcome(c, v), Leads(client[c], v)
    PROVE  Inv'
  <1>1. v \in Client /\ (Good(v) \/ Gone(v))
    BY GoodOrGone DEF Leads, Follows
  <1>2. /\ client' = [client EXCEPT ![c] = v] /\ UNCHANGED <<active, listening>>
        /\ activeClients' = activeClients - (v.reports - client[c].reports)
    BY DEF Outcome
  <1>3. /\ client' \in [Clients -> Client] /\ client'[c] = v
        /\ \A d \in Clients \ {c} : client'[d] = client[d]
    BY <1>1, <1>2 DEF Inv
  <1>4. \A d \in Clients : Good(client'[d]) \/ Gone(client'[d])
    BY <1>1, <1>3 DEF Inv
  <1>5. Exists(c) <=> Good(client[c])
    BY GoodOrGone DEF Exists, Inv
  <1>6. Alive(v.con) <=> Good(v)
    BY <1>1, GoodOrGone
  <1>7. v.reports \in Nat /\ client[c].reports \in Nat
    BY <1>1 DEF Inv, Client
  <1>8. Cardinality(connections) \in Nat /\ IsFiniteSet(connections)
    BY FS_CardinalityType DEF Inv
  <1>9. CASE Good(client[c]) /\ Gone(v)
    <2>1. ~Good(v) /\ v.reports = client[c].reports + 1
      BY <1>9, GoodOrGone DEF Leads, Follows
    <2>2. /\ connections' = connections \ {c}
          /\ deleted' = deletedAfter(TRUE, connections')
      BY <1>5, <1>6, <1>9, <2>1 DEF Outcome
    <2>3. connections' = {d \in Clients : Good(client'[d])}
      BY <1>3, <2>1, <2>2 DEF Inv
    <2>4. c \in connections
      BY <1>9 DEF Inv
    <2>5. IsFiniteSet(connections') /\ Cardinality(connections') = Cardinality(connections) - 1
      BY <1>8, <2>2, <2>4, FS_RemoveElement
    <2>6. activeClients' = Cardinality(connections')
      BY <1>2, <1>7, <1>8, <2>1, <2>5 DEF Inv
    <2>7. deleted = 0
      BY <2>4 DEF Inv
    <2>8. deleted' \in 0..1 /\ (deleted' = 1 => ~active /\ connections' = {})
      BY <2>2, <2>7 DEF deletedAfter
    <2> QED BY <1>2, <1>3, <1>4, <2>3, <2>5, <2>6, <2>8 DEF Inv
  <1>10. CASE ~(Good(client[c]) /\ Gone(v))
    <2>1. /\ Good(client[c]) <=> Good(v)
          /\ v.reports = client[c].reports
      BY <1>10, GoodOrGone DEF Leads, Follows
    <2>2. connections' = connections /\ deleted' = deleted
      BY <1>5, <1>6, <2>1 DEF Outcome, deletedAfter
    <2>3. connections' = {d \in Clients : Good(client'[d])}
      BY <1>3, <2>1, <2>2 DEF Inv
    <2>4. activeClients' = activeClients
      <3>1. activeClients = Cardinality(connections)
        BY DEF Inv
      <3> QED BY <1>2, <1>7, <1>8, <2>1, <3>1
    <2> QED BY <1>2, <1>3, <1>4, <2>2, <2>3, <2>4 DEF Inv
  <1> QED BY <1>9, <1>10

LEMMA AcceptGood ==
    ASSUME NEW v, v = initialize([con |-> NewConnection(TRUE, KeepAlive), pcb |-> <<FreePcb>>,
                                  reports |-> 0], p1)
    PROVE  Good([v EXCEPT !.con.state = "Connected", !.pcb[p1].st = "established"])
  <1> DEFINE k == NewConnection(TRUE, KeepAlive)
             f == <<FreePcb>>
             x == [FreePcb EXCEPT !.st = "new", !.arg = TRUE]
             k1 == [k EXCEPT !.tcp = p1]
             k2 == [k1 EXCEPT !.sleep = 0]
             k3 == [k2 EXCEPT !.canSend = TRUE]
  <1>1. k \in Con /\ k.autoSelfDestruct /\ k.destroyed = 0
    BY Constants, NewConnectionType
  <1>2. FreePcb \in Pcb /\ f \in [{p1} -> Pcb] /\ f = [p \in {p1} |-> FreePcb]
    BY FreePcbType DEF p1
  <1>3. x \in Pcb /\ x.arg
    BY <1>2 DEF Pcb
  <1>5. v = [con |-> k3, pcb |-> [f EXCEPT ![p1] = x], reports |-> 0]
    <2>1. [con |-> k, pcb |-> f, reports |-> 0] \in [con : {k}, pcb : {f}, reports : {0}]
      OBVIOUS
    <2> HIDE DEF k, f, x
    <2> QED BY <2>1 DEF initialize, k, f, x
  <1> HIDE DEF k
  <1>6. k1 \in Con /\ k1.autoSelfDestruct /\ k1.destroyed = 0 /\ k1.tcp = p1
    BY <1>1 DEF Con
  <1> HIDE DEF k1
  <1>7. k2 \in Con /\ k2.autoSelfDestruct /\ k2.destroyed = 0 /\ k2.tcp = p1
    BY <1>6 DEF Con
  <1> HIDE DEF k2
  <1>8. k3 \in Con /\ k3.autoSelfDestruct /\ k3.destroyed = 0 /\ k3.tcp = p1
    BY <1>7 DEF Con
  <1> HIDE DEF k3
  <1> HIDE DEF f, x
  <1>9. [f EXCEPT ![p1] = x] \in [{p1} -> Pcb] /\ [f EXCEPT ![p1] = x][p1].arg
    BY <1>2, <1>3
  <1>10. /\ v \in Client /\ v.con.destroyed = 0 /\ v.con.autoSelfDestruct
         /\ v.con.tcp = p1 /\ v.pcb[p1].arg
    BY <1>5, <1>8, <1>9 DEF Client
  <1>11. SUFFICES \A u : /\ u \in Client /\ u.con.destroyed = 0 /\ u.con.autoSelfDestruct
                         /\ u.con.tcp = p1 /\ u.pcb[p1].arg
                         => Good([u EXCEPT !.con.state = "Connected",
                                           !.pcb[p1].st = "established"])
    BY <1>10
  <1>12. TAKE u
  <1>13. HAVE /\ u \in Client /\ u.con.destroyed = 0 /\ u.con.autoSelfDestruct
              /\ u.con.tcp = p1 /\ u.pcb[p1].arg
  <1> DEFINE a == [u EXCEPT !.con.state = "Connected"]
             b == [a EXCEPT !.pcb[p1].st = "established"]
  <1>14. Good(a)
    BY <1>13 DEF Good, Client, Con, eTCS
  <1>15. Good(b)
    <2> HIDE DEF a
    <2> QED BY <1>14 DEF Good, Client, Pcb
  <1>16. b = [u EXCEPT !.con.state = "Connected", !.pcb[p1].st = "established"]
    BY Zenon
  <1> QED BY <1>15, <1>16

\* What lwIP's callbacks for client c may make of it.
CallbackOutcome(c, ok, v) ==
    \/ \E taken \in BOOLEAN : v \in staticOnReceive(client[c], p1, taken, ok)
    \/ v \in staticOnReceiveNull(client[c], p1, ok)
    \/ v \in staticOnSent(client[c], p1, 1)
    \/ v \in staticOnPoll(client[c], p1, ok)
    \/ v = staticOnError(client[c], p1)

LEMMA CallbackLeads ==
    ASSUME Inv, NEW c \in Clients, NEW ok \in BOOLEAN, NEW v, CallbackOutcome(c, ok, v)
    PROVE  Leads(client[c], v)
  <1>1. CASE Good(client[c])
    BY <1>1, GoodReceive, GoodReceiveNull, GoodSent, GoodPoll, GoodError DEF Leads, CallbackOutcome
  <1>2. CASE Gone(client[c])
    BY <1>2, GoneCallbacks DEF Leads, CallbackOutcome
  <1> QED BY <1>1, <1>2 DEF Inv

LEMMA InvNext ==
    ASSUME Inv, [Next]_vars
    PROVE  Inv'
  <1>1. CASE listen
    BY <1>1 DEF listen, Inv
  <1>2. CASE shutdown
    <2>1. /\ deleted = 0 /\ active /\ active' = FALSE /\ listening' = FALSE
          /\ deleted' = IF connections = {} THEN deleted + 1 ELSE deleted
          /\ UNCHANGED <<connections, activeClients>>
          /\ client' = [c \in Clients |-> IF c \in connections
                                          THEN [client[c] EXCEPT !.con.timeOut = 1] ELSE client[c]]
      BY <1>2 DEF shutdown
    <2>2. \A c \in connections : Good([client[c] EXCEPT !.con.timeOut = 1])
      BY DEF Inv, Good, Client, Con
    <2>3. \A c \in Clients : Good(client'[c]) <=> Good(client[c])
      BY <2>1, <2>2 DEF Inv
    <2>4. \A c \in Clients : Good(client'[c]) \/ Gone(client'[c])
      BY <2>1, <2>2 DEF Inv
    <2>5. client' \in [Clients -> Client]
      <3>1. \A c \in Clients : client'[c] \in Client
        BY <2>4, GoodOrGone
      <3> QED BY <2>1, <3>1
    <2>6. deleted' \in 0..1 /\ (deleted' = 1 => connections = {})
      BY <2>1
    <2>7. connections' = {c \in Clients : Good(client'[c])}
      BY <2>1, <2>3 DEF Inv
    <2> QED BY <2>1, <2>4, <2>5, <2>6, <2>7 DEF Inv
  <1>3. ASSUME NEW c \in Clients, onAccept(c) PROVE Inv'
    <2>1. PICK v : /\ Good(v) /\ client' = [client EXCEPT ![c] = v]
      BY <1>3, AcceptGood DEF onAccept
    <2>2. /\ ~Exists(c) /\ active /\ connections' = connections \cup {c}
          /\ activeClients' = activeClients + 1 /\ UNCHANGED <<active, listening, deleted>>
      BY <1>3 DEF onAccept
    <2>3. ~Good(client[c]) /\ c \notin connections
      BY <2>2, GoodOrGone DEF Exists, Inv
    <2>4. /\ client' \in [Clients -> Client] /\ client'[c] = v
          /\ \A d \in Clients \ {c} : client'[d] = client[d]
      BY <2>1, GoodOrGone DEF Inv
    <2>5. connections' = {d \in Clients : Good(client'[d])}
      BY <2>1, <2>2, <2>4 DEF Inv
    <2>6. IsFiniteSet(connections') /\ Cardinality(connections') = Cardinality(connections) + 1
      BY <2>2, <2>3, FS_AddElement DEF Inv
    <2>7. activeClients' = Cardinality(connections')
      BY <2>2, <2>6 DEF Inv
    <2>8. deleted = 0
      BY <2>2 DEF Inv
    <2>9. \A d \in Clients : Good(client'[d]) \/ Gone(client'[d])
      BY <2>1, <2>4 DEF Inv
    <2> QED BY <2>2, <2>4, <2>5, <2>6, <2>7, <2>8, <2>9 DEF Inv
  <1>4. ASSUME NEW c \in Clients, NEW closeAfter \in BOOLEAN, Send(c, closeAfter) PROVE Inv'
    <2>1. Good(client[c]) /\ Outcome(c, send(client[c], 1, closeAfter))
      BY <1>4, GoodOrGone DEF Send, Exists, Inv
    <2>2. Leads(client[c], send(client[c], 1, closeAfter))
      BY <2>1, GoodSend DEF Leads, Follows
    <2> QED BY <2>1, <2>2, OutcomeInv
  <1>5. ASSUME NEW c \in Clients, Close(c) PROVE Inv'
    <2>1. Good(client[c]) /\ Outcome(c, close(client[c]))
      BY <1>5, GoodOrGone DEF Close, Exists, Inv
    <2>2. Leads(client[c], close(client[c]))
      BY <2>1, GoneClose DEF Leads, Follows
    <2> QED BY <2>1, <2>2, OutcomeInv
  <1>6. ASSUME NEW c \in Clients, NEW ok \in BOOLEAN, Callback(c, ok) \/ Poll(c, ok) PROVE Inv'
    <2>1. \A v : CallbackOutcome(c, ok, v) => Leads(client[c], v)
      BY CallbackLeads
    <2>2. PICK v : Outcome(c, v) /\ CallbackOutcome(c, ok, v)
      BY <1>6 DEF Callback, Poll, CallbackOutcome
    <2> QED BY <2>1, <2>2, OutcomeInv
  <1>7. CASE UNCHANGED vars
    BY <1>7 DEF vars, Inv
  <1> QED BY <1>1, <1>2, <1>3, <1>4, <1>5, <1>6, <1>7 DEF Next

\* As long as a client exists so does the server its delegates point to, and both
\* are deleted once.
THEOREM ServerOutlives == Spec => []ClientHasServer
  <1>1. ASSUME Inv PROVE ClientHasServer
    <2>1. \A c \in Clients : Exists(c) <=> Good(client[c])
      BY <1>1, GoodOrGone DEF Inv, Exists
    <2>2. \A c \in Clients : client[c].con.destroyed <= 1
      BY <1>1 DEF Inv, Good, Gone
    <2>3. deleted = 1 => \A c \in Clients : ~Exists(c)
      BY <1>1, <2>1 DEF Inv
    <2>4. deleted <= 1
      BY <1>1 DEF Inv
    <2> QED BY <2>2, <2>3, <2>4 DEF ClientHasServer
  <1> QED BY <1>1, InvInit, InvNext, PTL DEF Spec

\* The server's list holds exactly the clients that exist, and its count is that of
\* those still connected: activeClients never wraps below zero.
THEOREM ClientsCounted == Spec => []ClientsAccounted
  <1>1. ASSUME Inv PROVE ClientsAccounted
    <2>1. \A c \in Clients : /\ Exists(c) <=> Good(client[c])
                             /\ Good(client[c]) => isProcessing(client[c].con)
      BY <1>1, GoodOrGone DEF Inv, Exists
    <2>2. connections = {c \in Clients : Exists(c)}
          /\ connections = {c \in Clients : Exists(c) /\ isProcessing(client[c].con)}
      BY <1>1, <2>1 DEF Inv
    <2> QED BY <1>1, <2>2 DEF Inv, ClientsAccounted
  <1> QED BY <1>1, InvInit, InvNext, PTL DEF Spec

-----------------------------------------------------------------------------
(* The reports of the clients *)

reportsOf(c) == client[c].reports

\* What a step may do to client c: nothing that the server sees, end it with one report,
\* or make it anew.
ClientMoves(c) ==
    \/ (Exists(c)' <=> Exists(c)) /\ reportsOf(c)' = reportsOf(c)
    \/ Exists(c) /\ ~Exists(c)' /\ reportsOf(c)' = reportsOf(c) + 1
    \/ ~Exists(c) /\ Exists(c)' /\ reportsOf(c)' = 0 /\ active /\ deleted = 0

\* A client of the server goes exactly with the call of its completion delegate
\* (onClientComplete, then onClientDestroy), and none comes unless the server exists
\* and was not shut down (onAccept).
EndsWithReport == [][\A c \in Clients : ClientMoves(c)]_vars

\* A client that exists has not completed, and one that does not has completed at
\* most once since it was accepted: onClientComplete counts activeClients down once
\* for each onAccept.
ReportedOnce == \A c \in Clients : reportsOf(c) \in (IF Exists(c) THEN {0} ELSE {0, 1})

LEMMA OutcomeMoves ==
    ASSUME Inv, NEW c \in Clients, NEW v, Outcome(c, v), Leads(client[c], v)
    PROVE  \A d \in Clients : ClientMoves(d)
  <1>1. /\ client'[c] = v /\ \A d \in Clients \ {c} : client'[d] = client[d]
    BY DEF Outcome, Inv
  <1>2. ClientMoves(c)
    BY <1>1, GoodOrGone DEF Leads, Follows, ClientMoves, Exists, reportsOf
  <1>3. \A d \in Clients \ {c} : ClientMoves(d)
    BY <1>1 DEF ClientMoves, Exists, reportsOf
  <1> QED BY <1>2, <1>3

LEMMA StepMoves ==
    ASSUME Inv, [Next]_vars
    PROVE  \A c \in Clients : ClientMoves(c)
  <1>0. client \in [Clients -> Client]
    BY DEF Inv
  <1>1. CASE UNCHANGED client
    BY <1>1 DEF ClientMoves, Exists, reportsOf
  <1>2. CASE shutdown
    <2>1. \A c \in Clients : /\ client'[c].reports = client[c].reports
                             /\ client'[c].con.destroyed = client[c].con.destroyed
      BY <1>0, <1>2 DEF shutdown, Client, Con
    <2> QED BY <2>1 DEF ClientMoves, Exists, reportsOf, Alive
  <1>3. ASSUME NEW c \in Clients, onAccept(c) PROVE \A d \in Clients : ClientMoves(d)
    <2> DEFINE made == initialize([con |-> NewConnection(TRUE, KeepAlive), pcb |-> <<FreePcb>>,
                                   reports |-> 0], p1)
               v == [made EXCEPT !.con.state = "Connected", !.pcb[p1].st = "established"]
    <2>1. Good(v)
      BY AcceptGood
    <2>2. v.reports = 0
      BY DEF initialize
    <2>3. client' = [client EXCEPT ![c] = v] /\ ~Exists(c) /\ active
      BY <1>3 DEF onAccept
    <2> HIDE DEF v
    <2>4. client'[c] = v /\ \A d \in Clients \ {c} : client'[d] = client[d]
      BY <1>0, <2>3
    <2>5. ClientMoves(c)
      BY <2>1, <2>2, <2>3, <2>4, GoodOrGone DEF ClientMoves, Exists, reportsOf, Inv
    <2>6. \A d \in Clients \ {c} : ClientMoves(d)
      BY <2>4 DEF ClientMoves, Exists, reportsOf
    <2> QED BY <2>5, <2>6
  <1>4. ASSUME NEW c \in Clients, NEW closeAfter \in BOOLEAN, Send(c, closeAfter)
        PROVE  \A d \in Clients : ClientMoves(d)
    <2>1. Good(client[c]) /\ Outcome(c, send(client[c], 1, closeAfter))
      BY <1>4, GoodOrGone DEF Send, Exists, Inv
    <2>2. Leads(client[c], send(client[c], 1, closeAfter))
      BY <2>1, GoodSend DEF Leads, Follows
    <2> QED BY <2>1, <2>2, OutcomeMoves
  <1>5. ASSUME NEW c \in Clients, Close(c) PROVE \A d \in Clients : ClientMoves(d)
    <2>1. Good(client[c]) /\ Outcome(c, close(client[c]))
      BY <1>5, GoodOrGone DEF Close, Exists, Inv
    <2>2. Leads(client[c], close(client[c]))
      BY <2>1, GoneClose DEF Leads, Follows
    <2> QED BY <2>1, <2>2, OutcomeMoves
  <1>6. ASSUME NEW c \in Clients, NEW ok \in BOOLEAN, Callback(c, ok) \/ Poll(c, ok)
        PROVE  \A d \in Clients : ClientMoves(d)
    <2>1. PICK v : Outcome(c, v) /\ CallbackOutcome(c, ok, v)
      BY <1>6 DEF Callback, Poll, CallbackOutcome
    <2> QED BY <2>1, CallbackLeads, OutcomeMoves
  <1>7. listen \/ UNCHANGED vars => UNCHANGED client
    BY DEF listen, vars
  <1> QED BY <1>1, <1>2, <1>3, <1>4, <1>5, <1>6, <1>7 DEF Next

\* However sends, acknowledgements, errors, time-outs and shutdown() follow each other, no
\* client of the server goes without its report or reports and stays (TcpClient::close,
\* onError, checkSelfFree; onClientComplete, onClientDestroy, onAccept).
THEOREM ClientsEndWithReport == Spec => EndsWithReport
  BY InvInit, InvNext, StepMoves, PTL DEF Spec, EndsWithReport

\* So each accepted connection is counted down once (onClientComplete).
THEOREM ClientsReportOnce == Spec => []ReportedOnce
  <1>1. Init => ReportedOnce
    <2>1. ASSUME Init, NEW c \in Clients PROVE client[c] = NoClient
      BY <2>1 DEF Init
    <2> QED BY <2>1, NoClientGone DEF ReportedOnce, reportsOf
  <1>2. ASSUME ReportedOnce, \A c \in Clients : ClientMoves(c) PROVE ReportedOnce'
    BY <1>2 DEF ReportedOnce, ClientMoves
  <1> QED BY <1>1, <1>2, InvInit, InvNext, StepMoves, PTL DEF Spec
=============================================================================
