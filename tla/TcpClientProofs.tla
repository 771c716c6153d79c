--------------------------- MODULE TcpClientProofs ---------------------------
(***************************************************************************)
(* Proofs about TcpClient, for any control blocks lwIP has to give, any    *)
(* time-out, any heap that holds less data than an int16_t counts, any     *)
(* amount that is sent and any number of lookups.                          *)
(***************************************************************************)
EXTENDS TcpClient, TLAPS

Totals == 0..(Wrap - 1)
Sleeps == 0..USHRT_MAX
Pointers == Pcbs \cup {Null}

Con ==
    [tcp : Pointers, state : eTCS, stream : Int, asyncTotalSent : Totals, asyncTotalLen : Totals,
     asyncCloseAfterSent : BOOLEAN, canSend : BOOLEAN, sleep : Sleeps, timeOut : Nat,
     autoSelfDestruct : BOOLEAN, destroyed : Nat]

Pcb == [st : {"free", "new", "connecting", "established"}, arg : BOOLEAN, unacked : 0..SndBuf]

Client == [con : Con, pcb : [Pcbs -> Pcb], reports : Nat]

Units(stream) == IF stream = NoStream THEN 0 ELSE stream

\* Every unit accepted is in the stream, with lwIP, or acknowledged: m accepted and a
\* acknowledged.  The two totals may have wrapped differently; they cannot lie a whole
\* range apart, since the heap holds less than that.
Balanced(k, unacked, m, a) ==
    /\ k.stream >= NoStream
    /\ m = a + unacked + Units(k.stream)
    /\ m - a <= MaxHeld
    /\ k.asyncTotalLen - k.asyncTotalSent \in {m - a, m - a - Wrap}

\* A connection that has been begun and has not ended.
Up(v, m, a) ==
    /\ v \in Client
    /\ v.con.destroyed = 0 /\ v.con.state \in {"Connecting", "Connected"}
    /\ v.con.tcp \in Pcbs /\ v.pcb[v.con.tcp].st # "free"
    /\ \A p \in Pcbs : v.pcb[p].arg <=> p = v.con.tcp
    /\ Balanced(v.con, v.pcb[v.con.tcp].unacked, m, a)

\* None: not begun, ended, or the object is deleted.
Down(v, m, a) ==
    /\ v \in Client
    /\ v.con.tcp = Null /\ \A p \in Pcbs : ~v.pcb[p].arg
    /\ v.con.stream = NoStream
    /\ v.con.destroyed = 0 => /\ v.con.state \in {"Ready", "Successful", "Failed"}
                              /\ v.con.asyncTotalLen = 0 /\ v.con.asyncTotalSent = 0
    /\ v.con.destroyed # 0 => v.con.destroyed = 1 /\ ~v.con.autoSelfDestruct
    /\ v.con.state \in {"Ready", "Successful"} => m = a

\* A call or callback that ends the connection reports it ...
Ends(u, v, m, a) ==
    /\ Down(v, m, a)
    /\ v.con.destroyed = 0 => v.con.state \in Finished
    /\ v.reports = u.reports + 1

\* ... and one that does not leaves its state alone.
Stays(u, v, m, a) ==
    /\ Up(v, m, a)
    /\ v.con.tcp = u.con.tcp /\ v.con.state = u.con.state /\ v.reports = u.reports

Inv ==
    /\ Up(w, accepted, acked) \/ Down(w, accepted, acked)
    /\ lookups \in Nat /\ faulted \in BOOLEAN
    /\ accepted \in 0..MaxTotal /\ acked \in 0..MaxTotal

-----------------------------------------------------------------------------
(* Numbers *)

LEMMA Constants ==
    /\ Wrap \in Nat /\ Wrap > 1 /\ USHRT_MAX \in Nat /\ USHRT_MAX > 0
    /\ SndBuf \in Nat /\ SndBuf > 0 /\ TimeOut \in Nat
    /\ MaxTotal \in Nat /\ MaxLookups \in Nat /\ MaxHeld \in Nat /\ MaxHeld < Wrap /\ MaxHeld > 0
    /\ Null \notin Pcbs
  BY WrapAssumption, UshrtAssumption, SndBufAssumption, TimeOutAssumption, HeapAssumption,
     PcbsAssumption, LookupsAssumption DEF Null

LEMMA WrapOnce == \A y \in Nat, m \in Nat : y >= m /\ y < 2 * m => y % m = y - m
  BY SMT

\* Adding to a total wraps it once at most.
LEMMA TotalPlus ==
    ASSUME NEW x \in Totals, NEW n \in 0..MaxHeld
    PROVE  (x + n) % Wrap \in Totals /\ (x + n) % Wrap \in {x + n, x + n - Wrap}
  <1>1. \A y \in Nat, m \in Nat : y < m => y % m = y
    OBVIOUS
  <1>2. x \in Nat /\ n \in Nat /\ x + n \in Nat /\ x + n < 2 * Wrap /\ Wrap \in Nat
    BY Constants DEF Totals
  <1>3. CASE x + n < Wrap
    BY <1>1, <1>2, <1>3 DEF Totals
  <1>4. CASE x + n >= Wrap
    <2> DEFINE y == x + n
    <2>0. y \in Nat /\ y >= Wrap /\ y < 2 * Wrap
      BY <1>2, <1>4
    <2> HIDE DEF y
    <2>1. y % Wrap = y - Wrap
      BY WrapOnce, <1>2, <2>0
    <2> QED BY <1>2, <1>4, <2>1 DEF Totals, y
  <1> QED BY <1>2, <1>3, <1>4

\* The totals as plain numbers: len units are accepted, or n acknowledged.
LEMMA BalanceArith ==
    ASSUME NEW m \in Nat, NEW a \in Nat, NEW len \in Totals, NEW sent \in Totals,
           m >= a, m - a <= MaxHeld, len - sent \in {m - a, m - a - Wrap}
    PROVE  /\ \A n \in 0..MaxHeld, next \in Totals :
                /\ m + n - a <= MaxHeld /\ next \in {len + n, len + n - Wrap}
                => next - sent \in {m + n - a, m + n - a - Wrap}
           /\ \A n \in 0..MaxHeld, next \in Totals :
                /\ n <= m - a /\ next \in {sent + n, sent + n - Wrap}
                => len - next \in {m - (a + n), m - (a + n) - Wrap}
           /\ len = sent => m = a
  BY Constants DEF Totals

-----------------------------------------------------------------------------
(* What the methods do to a connection that is up *)

LEMMA UpAwake ==
    ASSUME NEW m, NEW a, NEW v, Up(v, m, a)
    PROVE  Stays(v, awake(v), m, a) /\ awake(v).pcb = v.pcb
  <1>1. 0 \in Sleeps
    BY Constants DEF Sleeps
  <1> QED BY <1>1 DEF Up, Stays, Client, Con, awake, Balanced

LEMMA UpSleep ==
    ASSUME NEW m, NEW a, NEW v, Up(v, m, a), NEW n \in Sleeps
    PROVE  Stays(v, [v EXCEPT !.con.sleep = n], m, a)
  BY DEF Up, Stays, Client, Con, Balanced

LEMMA UpSend ==
    ASSUME NEW m \in Nat, NEW a \in Nat, NEW v, Up(v, m, a),
           NEW len \in 1..MaxHeld, NEW closeAfter \in BOOLEAN, m - a + len <= MaxHeld
    PROVE  Stays(v, send(v, len, closeAfter), m + len, a) /\ send(v, len, closeAfter).pcb = v.pcb
  <1> DEFINE old == v.con.stream
             s == (IF old = NoStream THEN 0 ELSE old) + len
             tl == v.con.asyncTotalLen
             ts == v.con.asyncTotalSent
             t == (tl + len) % Wrap
             x == v.pcb[v.con.tcp].unacked
             n == m + len
             k == [v.con EXCEPT !.stream = s, !.asyncTotalLen = t, !.asyncCloseAfterSent = closeAfter]
  <1>1. /\ old \in Int /\ tl \in Totals /\ ts \in Totals
        /\ x \in 0..SndBuf /\ old >= NoStream
        /\ m = a + x + Units(old) /\ m - a <= MaxHeld
        /\ tl - ts \in {m - a, m - a - Wrap}
    BY DEF Up, Client, Con, Pcb, Balanced
  <1>2. send(v, len, closeAfter) = [v EXCEPT !.con = k]
    BY DEF send, Up, Client
  <1> HIDE DEF x, tl, ts, old
  <1>3. len \in Nat /\ x \in Nat /\ len \in 0..MaxHeld /\ len <= MaxHeld /\ Wrap \in Int
    BY <1>1, Constants
  <1>4. t \in Totals /\ t \in {tl + len, tl + len - Wrap}
    BY <1>1, <1>3, TotalPlus
  <1> HIDE DEF t
  <1>5. m >= a /\ s \in Int /\ s >= NoStream /\ n = a + x + Units(s)
    BY <1>1, <1>3 DEF Units, NoStream
  <1>6. n - a <= MaxHeld /\ m + len - a <= MaxHeld
    BY Constants
  <1>7. t - ts \in {n - a, n - a - Wrap}
    BY <1>1, <1>3, <1>4, <1>5, <1>6, BalanceArith
  <1> HIDE DEF s, n
  <1>8. /\ k \in Con /\ k.tcp = v.con.tcp /\ k.state = v.con.state /\ k.destroyed = v.con.destroyed
        /\ k.stream = s /\ k.asyncTotalLen = t /\ k.asyncTotalSent = ts
    BY <1>4, <1>5 DEF Up, Client, Con, ts
  <1> HIDE DEF k
  <1>9. Balanced(k, x, n, a)
    BY <1>5, <1>6, <1>7, <1>8 DEF Balanced
  <1> QED BY <1>2, <1>8, <1>9 DEF Up, Stays, Client, x, n

LEMMA UpPush ==
    ASSUME NEW m \in Nat, NEW a \in Nat, NEW v, Up(v, m, a), NEW k \in Writable(v),
           v.con.stream # NoStream, getAvailableWriteSize(v) # 0
    PROVE  Stays(v, pushAsyncPart(v, k), m, a)
  <1> DEFINE p == v.con.tcp
             x == v.pcb[p].unacked
             s == IF v.con.stream = k THEN NoStream ELSE v.con.stream - k
  <1>1. /\ v.con.stream \in Int /\ x \in 0..SndBuf /\ v.con.stream >= NoStream
        /\ m = a + x + Units(v.con.stream) /\ p \in Pcbs
    BY DEF Up, Client, Con, Pcb, Balanced
  <1>2. getAvailableWriteSize(v) = SndBuf - x
    BY DEF getAvailableWriteSize
  <1> HIDE DEF x, p
  <1>3. k \in Nat /\ k <= v.con.stream /\ k <= SndBuf - x
    BY <1>1, <1>2, Constants DEF Writable
  <1>4. x + k \in 0..SndBuf /\ s \in Int /\ s >= NoStream /\ m = a + (x + k) + Units(s)
    BY <1>1, <1>3, Constants DEF Units, NoStream
  <1> HIDE DEF s
  <1> DEFINE y == x + k
             f == [v.pcb EXCEPT ![p] = [@ EXCEPT !.unacked = y]]
             c == [v.con EXCEPT !.stream = s]
  <1>5. pushAsyncPart(v, k) = [v EXCEPT !.pcb = f, !.con = c]
    BY DEF pushAsyncPart, x, p, s, Up, Client
  <1> HIDE DEF y
  <1>6. /\ f \in [Pcbs -> Pcb] /\ f[p].unacked = y /\ f[p].st = v.pcb[p].st
        /\ \A q \in Pcbs : f[q].arg = v.pcb[q].arg
    BY <1>1, <1>4 DEF Up, Client, Pcb, y
  <1>7. /\ c \in Con /\ c.tcp = p /\ c.state = v.con.state /\ c.destroyed = v.con.destroyed
        /\ c.stream = s /\ c.asyncTotalLen = v.con.asyncTotalLen
        /\ c.asyncTotalSent = v.con.asyncTotalSent
    BY <1>4 DEF Up, Client, Con, p
  <1>8. Balanced(c, y, m, a)
    BY <1>4, <1>7 DEF Balanced, Up, y
  <1> HIDE DEF f, c
  <1>9. [v EXCEPT !.pcb = f, !.con = c] \in Client
    BY <1>6, <1>7 DEF Up, Client
  <1> QED BY <1>1, <1>5, <1>6, <1>7, <1>8, <1>9 DEF Up, Stays, Client, p

LEMMA UpReady ==
    ASSUME NEW m \in Nat, NEW a \in Nat, NEW v, Up(v, m, a), NEW u \in readyToSend(v)
    PROVE  Stays(v, u, m, a)
  <1>1. CASE u = v
    BY <1>1 DEF Stays
  <1>2. CASE u # v
    BY <1>2, UpPush DEF readyToSend
  <1> QED BY <1>1, <1>2

-----------------------------------------------------------------------------
(* How a connection ends *)

\* Each control block knows whether it is the object's.
Owner(v) == v \in Client /\ \A p \in Pcbs : v.pcb[p].arg <=> p = v.con.tcp

\* An ended connection, before or after the object lets go of its control block.
Over(v, m, a) ==
    /\ Owner(v)
    /\ v.con.destroyed = 0 /\ v.con.state \in Finished
    /\ v.con.stream = NoStream /\ v.con.asyncTotalLen = 0 /\ v.con.asyncTotalSent = 0
    /\ v.con.state = "Successful" => m = a

LEMMA FinishedFields ==
    ASSUME NEW v \in Client
    PROVE  LET u == onFinished(v)
           IN  /\ u \in Client /\ u.con.tcp = v.con.tcp /\ u.con.destroyed = v.con.destroyed
               /\ u.con.autoSelfDestruct = v.con.autoSelfDestruct /\ u.con.state = v.con.state
               /\ u.con.stream = NoStream /\ u.con.asyncTotalLen = 0 /\ u.con.asyncTotalSent = 0
               /\ u.pcb = v.pcb /\ u.reports = v.reports + 1
  <1> DEFINE r == v.reports + 1
             c == [v.con EXCEPT !.stream = NoStream]
             d == [c EXCEPT !.asyncTotalSent = 0]
             e == [d EXCEPT !.asyncTotalLen = 0]
  <1>1. r \in Nat /\ NoStream \in Int /\ 0 \in Totals
    BY Constants DEF Client, NoStream, Totals
  <1>2. onFinished(v) = [v EXCEPT !.con = e, !.reports = r]
    BY DEF onFinished, Client, Con
  <1>3. /\ c \in Con /\ c.tcp = v.con.tcp /\ c.destroyed = v.con.destroyed
        /\ c.autoSelfDestruct = v.con.autoSelfDestruct /\ c.state = v.con.state
        /\ c.stream = NoStream
    BY <1>1 DEF Client, Con
  <1> HIDE DEF c
  <1>4. /\ d \in Con /\ d.tcp = v.con.tcp /\ d.destroyed = v.con.destroyed
        /\ d.autoSelfDestruct = v.con.autoSelfDestruct /\ d.state = v.con.state
        /\ d.stream = NoStream /\ d.asyncTotalSent = 0
    BY <1>1, <1>3 DEF Con
  <1> HIDE DEF d
  <1>5. /\ e \in Con /\ e.tcp = v.con.tcp /\ e.destroyed = v.con.destroyed
        /\ e.autoSelfDestruct = v.con.autoSelfDestruct /\ e.state = v.con.state
        /\ e.stream = NoStream /\ e.asyncTotalSent = 0 /\ e.asyncTotalLen = 0
    BY <1>1, <1>4 DEF Con
  <1> HIDE DEF e
  <1>6. r = v.reports + 1
    OBVIOUS
  <1> HIDE DEF r
  <1>7. /\ [v EXCEPT !.con = e, !.reports = r] \in Client
        /\ [v EXCEPT !.con = e, !.reports = r].con = e
        /\ [v EXCEPT !.con = e, !.reports = r].pcb = v.pcb
        /\ [v EXCEPT !.con = e, !.reports = r].reports = r
    BY <1>1, <1>5 DEF Client
  <1> QED BY <1>2, <1>5, <1>6, <1>7

LEMMA StateFields ==
    ASSUME NEW v \in Client, NEW s \in eTCS
    PROVE  LET u == [v EXCEPT !.con.state = s]
           IN  /\ u \in Client /\ u.con.tcp = v.con.tcp /\ u.con.destroyed = v.con.destroyed
               /\ u.con.autoSelfDestruct = v.con.autoSelfDestruct /\ u.con.state = s
               /\ u.pcb = v.pcb /\ u.reports = v.reports
  BY DEF Client, Con

\* onFinished after the state was set to s.
LEMMA FinishOver ==
    ASSUME NEW m, NEW a, NEW v, Owner(v), v.con.destroyed = 0,
           NEW s \in Finished, s = "Successful" => m = a
    PROVE  LET u == onFinished([v EXCEPT !.con.state = s])
           IN  /\ Over(u, m, a) /\ u.con.tcp = v.con.tcp /\ u.reports = v.reports + 1
               /\ u.con.autoSelfDestruct = v.con.autoSelfDestruct /\ u.pcb = v.pcb
  <1> DEFINE x == [v EXCEPT !.con.state = s]
  <1>1. s \in eTCS /\ v \in Client
    BY DEF Finished, eTCS, Owner
  <1>2. /\ x \in Client /\ x.con.tcp = v.con.tcp /\ x.con.destroyed = 0 /\ x.con.state = s
        /\ x.con.autoSelfDestruct = v.con.autoSelfDestruct /\ x.pcb = v.pcb
        /\ x.reports = v.reports
    BY <1>1, StateFields
  <1> HIDE DEF x
  <1> DEFINE y == onFinished(x)
  <1>3. /\ y \in Client /\ y.con.tcp = v.con.tcp /\ y.con.destroyed = 0 /\ y.con.state = s
        /\ y.con.autoSelfDestruct = v.con.autoSelfDestruct /\ y.pcb = v.pcb
        /\ y.con.stream = NoStream /\ y.con.asyncTotalLen = 0 /\ y.con.asyncTotalSent = 0
        /\ y.reports = v.reports + 1
    BY <1>2, FinishedFields
  <1> HIDE DEF y
  <1>4. Owner(y)
    BY <1>3 DEF Owner
  <1>5. Over(y, m, a)
    BY <1>3, <1>4 DEF Over
  <1> QED BY <1>3, <1>5 DEF x, y

LEMMA LetGoOwner ==
    ASSUME NEW v, Owner(v)
    PROVE  LET u == letGo(v)
           IN  /\ Owner(u) /\ u.con.tcp = Null /\ u.reports = v.reports
               /\ u.con = [v.con EXCEPT !.tcp = Null]
  <1>0. Null \notin Pcbs /\ Null \in Pointers
    BY Constants DEF Pointers
  <1>1. CASE v.con.tcp = Null
    <2>1. letGo(v) = v
      BY <1>1 DEF letGo
    <2>2. v.con = [v.con EXCEPT !.tcp = Null]
      BY <1>1 DEF Owner, Client, Con
    <2> QED BY <1>1, <2>1, <2>2
  <1>2. CASE v.con.tcp # Null
    <2> DEFINE p == v.con.tcp
               f == [v.pcb EXCEPT ![p] = [@ EXCEPT !.arg = FALSE]]
               c == [v.con EXCEPT !.tcp = Null]
    <2>1. p \in Pcbs
      BY <1>2 DEF Owner, Client, Con, Pointers
    <2>2. letGo(v) = [v EXCEPT !.pcb = f, !.con = c]
      BY <1>2 DEF letGo, Owner, Client
    <2>3. f \in [Pcbs -> Pcb] /\ \A q \in Pcbs : ~f[q].arg
      BY <2>1 DEF Owner, Client, Pcb
    <2>4. c \in Con /\ c.tcp = Null
      BY <1>0 DEF Owner, Client, Con
    <2> HIDE DEF f, c
    <2>5. /\ [v EXCEPT !.pcb = f, !.con = c] \in Client
          /\ [v EXCEPT !.pcb = f, !.con = c].pcb = f
          /\ [v EXCEPT !.pcb = f, !.con = c].con = c
          /\ [v EXCEPT !.pcb = f, !.con = c].reports = v.reports
      BY <2>3, <2>4 DEF Owner, Client
    <2>6. Owner(letGo(v))
      BY <1>0, <2>2, <2>3, <2>4, <2>5 DEF Owner
    <2> QED BY <2>2, <2>4, <2>5, <2>6 DEF c
  <1> QED BY <1>1, <1>2

LEMMA DeleteDown ==
    ASSUME NEW m, NEW a, NEW v, Owner(v), v.con.destroyed = 0,
           v.con.state \in {"Ready", "Successful"} => m = a
    PROVE  /\ Down(Delete(v), m, a) /\ Delete(v).con.destroyed = 1
           /\ Delete(v).reports = v.reports
  <1> DEFINE x == [v EXCEPT !.con.autoSelfDestruct = FALSE]
             y == letGo(x)
             c == [y.con EXCEPT !.stream = NoStream]
             d == [c EXCEPT !.destroyed = y.con.destroyed + 1]
  <1>1. /\ Owner(x) /\ x.con.destroyed = 0 /\ ~x.con.autoSelfDestruct
        /\ x.con.state = v.con.state /\ x.reports = v.reports
    BY DEF Owner, Client, Con
  <1> HIDE DEF x
  <1>2. /\ Owner(y) /\ y.con.tcp = Null /\ y.reports = v.reports
        /\ y.con = [x.con EXCEPT !.tcp = Null]
    BY <1>1, LetGoOwner
  <1>3. /\ y.con.destroyed = 0 /\ ~y.con.autoSelfDestruct /\ y.con.state = v.con.state
    BY <1>1, <1>2 DEF Owner, Client, Con
  <1>4. Delete(v) = [y EXCEPT !.con = d]
    BY <1>2 DEF Delete, x, y, Owner, Client, Con
  <1> HIDE DEF y
  <1>5. NoStream \in Int /\ y.con.destroyed + 1 = 1 /\ 1 \in Nat
    BY <1>3 DEF NoStream
  <1>6. /\ c \in Con /\ c.tcp = Null /\ c.stream = NoStream /\ ~c.autoSelfDestruct
        /\ c.state = v.con.state
    BY <1>2, <1>3, <1>5 DEF Owner, Client, Con
  <1> HIDE DEF c
  <1>7. /\ d \in Con /\ d.tcp = Null /\ d.stream = NoStream /\ ~d.autoSelfDestruct
        /\ d.state = v.con.state /\ d.destroyed = 1
    BY <1>5, <1>6 DEF Con
  <1> HIDE DEF d
  <1>8. /\ [y EXCEPT !.con = d] \in Client /\ [y EXCEPT !.con = d].con = d
        /\ [y EXCEPT !.con = d].pcb = y.pcb /\ [y EXCEPT !.con = d].reports = y.reports
    BY <1>2, <1>7 DEF Owner, Client
  <1>9. \A p \in Pcbs : ~y.pcb[p].arg
    BY <1>2, Constants DEF Owner
  <1> QED BY <1>2, <1>4, <1>7, <1>8, <1>9 DEF Down

\* The object has let go of its control block, and deletes itself if it is to.
LEMMA OverFreed ==
    ASSUME NEW m, NEW a, NEW v, Over(v, m, a), v.con.tcp = Null
    PROVE  /\ Down(v, m, a) /\ v.con.destroyed = 0
           /\ Down(checkSelfFree(v), m, a)
           /\ checkSelfFree(v).con.destroyed = 0 => checkSelfFree(v).con.state \in Finished
           /\ checkSelfFree(v).reports = v.reports
  <1>1. Down(v, m, a) /\ v.con.destroyed = 0 /\ v.con.state \in Finished
    <2>1. \A p \in Pcbs : ~v.pcb[p].arg
      BY Constants DEF Over, Owner
    <2> QED BY <2>1 DEF Over, Owner, Down, Finished
  <1>2. CASE v.con.autoSelfDestruct
    <2>1. checkSelfFree(v) = Delete(v)
      BY <1>2 DEF checkSelfFree
    <2>2. Down(Delete(v), m, a) /\ Delete(v).con.destroyed = 1 /\ Delete(v).reports = v.reports
      BY DeleteDown DEF Over, Finished
    <2> QED BY <1>1, <2>1, <2>2
  <1>3. CASE ~v.con.autoSelfDestruct
    BY <1>1, <1>3 DEF checkSelfFree
  <1> QED BY <1>2, <1>3

LEMMA OverClose ==
    ASSUME NEW m, NEW a, NEW v, Over(v, m, a)
    PROVE  LET u == TcpConnection_close(v)
           IN  /\ Down(u, m, a)
               /\ u.con.destroyed = 0 => u.con.state \in Finished
               /\ u.reports = v.reports
  <1>1. CASE v.con.tcp = Null
    BY <1>1, OverFreed DEF TcpConnection_close, Over
  <1>2. CASE v.con.tcp # Null
    <2> DEFINE x == letGo(v)
    <2>1. /\ Owner(x) /\ x.con.tcp = Null /\ x.reports = v.reports
          /\ x.con = [v.con EXCEPT !.tcp = Null]
      BY LetGoOwner DEF Over
    <2>2. TcpConnection_close(v) = checkSelfFree(x)
      BY <1>2 DEF TcpConnection_close
    <2> HIDE DEF x
    <2>3. Over(x, m, a)
      BY <2>1 DEF Over, Owner, Client, Con
    <2>4. x.con.tcp = Null /\ x.reports = v.reports
      BY <2>1
    <2>5. /\ Down(checkSelfFree(x), m, a)
          /\ checkSelfFree(x).con.destroyed = 0 => checkSelfFree(x).con.state \in Finished
          /\ checkSelfFree(x).reports = x.reports
      BY <2>3, <2>4, OverFreed, Zenon
    <2> QED BY <2>2, <2>4, <2>5
  <1> QED BY <1>1, <1>2

\* close() of a connection that has not ended: success if the totals agree.
LEMMA CloseEnds ==
    ASSUME NEW m, NEW a, NEW v, Owner(v), v.con.destroyed = 0, v.con.state \notin Finished,
           v.con.asyncTotalSent = v.con.asyncTotalLen => m = a
    PROVE  Ends(v, close(v), m, a)
  <1> DEFINE s == IF v.con.asyncTotalSent = v.con.asyncTotalLen THEN "Successful" ELSE "Failed"
             x == onFinished([v EXCEPT !.con.state = s])
  <1>1. s \in Finished /\ (s = "Successful" => m = a)
    BY DEF Finished
  <1>2. close(v) = TcpConnection_close(x)
    BY DEF close
  <1> HIDE DEF s
  <1>3. Over(x, m, a) /\ x.reports = v.reports + 1
    BY <1>1, FinishOver
  <1> HIDE DEF x
  <1> QED BY <1>2, <1>3, OverClose DEF Ends

LEMMA UpAgrees ==
    ASSUME NEW m \in Nat, NEW a \in Nat, NEW v, Up(v, m, a)
    PROVE  /\ m >= a /\ Owner(v) /\ v.con.state \notin Finished
           /\ v.con.asyncTotalSent = v.con.asyncTotalLen => m = a
  <1> DEFINE tl == v.con.asyncTotalLen
             ts == v.con.asyncTotalSent
             x == v.pcb[v.con.tcp].unacked
             s == v.con.stream
  <1>1. /\ tl \in Totals /\ ts \in Totals /\ x \in Nat /\ s \in Int /\ s >= NoStream
        /\ m = a + x + Units(s) /\ m - a <= MaxHeld /\ tl - ts \in {m - a, m - a - Wrap}
    BY Constants DEF Up, Client, Con, Pcb, Balanced
  <1>2. Owner(v) /\ v.con.state \notin Finished
    BY DEF Up, Owner, Finished
  <1> HIDE DEF tl, ts, x, s
  <1>3. m >= a
    BY <1>1 DEF Units, NoStream
  <1>4. tl = ts => m = a
    BY <1>1, <1>3, BalanceArith
  <1> QED BY <1>2, <1>3, <1>4 DEF tl, ts

LEMMA UpClose ==
    ASSUME NEW m \in Nat, NEW a \in Nat, NEW v, Up(v, m, a)
    PROVE  Ends(v, close(v), m, a)
  BY UpAgrees, CloseEnds DEF Up

\* close() of a connection that is not up: the first close() of a fresh object is a
\* success, any other does nothing.
LEMMA DownClose ==
    ASSUME NEW m, NEW a, NEW v, Down(v, m, a), v.con.destroyed = 0
    PROVE  \/ v.con.state = "Ready" /\ Ends(v, close(v), m, a)
           \/ close(v) = v
  <1>1. CASE v.con.state = "Ready"
    <2>1. v.con.state \notin Finished
      BY <1>1 DEF Finished
    <2>2. Owner(v)
      BY Constants DEF Down, Owner
    <2>3. m = a
      BY <1>1 DEF Down
    <2> QED BY <1>1, <2>1, <2>2, <2>3, CloseEnds
  <1>2. CASE v.con.state # "Ready"
    <2>1. v.con.state \in Finished /\ v.con.tcp = Null
      BY <1>2 DEF Down, Finished
    <2> QED BY <2>1 DEF close, TcpConnection_close
  <1> QED BY <1>1, <1>2

\* onError after the object lost its control block.
LEMMA ErrorOver ==
    ASSUME NEW m, NEW a, NEW v, Owner(v), v.con.destroyed = 0
    PROVE  /\ Over(onError(v), m, a) /\ onError(v).con.tcp = v.con.tcp
           /\ onError(v).reports = v.reports + 1
           /\ onError(v).pcb = v.pcb
  <1>1. "Failed" \in Finished /\ "Failed" # "Successful"
    BY DEF Finished
  <1> QED BY <1>1, FinishOver DEF onError

\* Changing a control block that is not the object's.
LEMMA OtherPcb ==
    ASSUME NEW m, NEW a, NEW v, Up(v, m, a) \/ Down(v, m, a),
           NEW p \in Pcbs, p # v.con.tcp, NEW x \in Pcb, ~x.arg
    PROVE  LET u == [v EXCEPT !.pcb[p] = x]
           IN  /\ u.con = v.con /\ u.reports = v.reports
               /\ v.con.tcp # Null => u.pcb[v.con.tcp] = v.pcb[v.con.tcp]
               /\ Up(v, m, a) => Up(u, m, a)
               /\ Down(v, m, a) => Down(u, m, a)
  <1> DEFINE f == [v.pcb EXCEPT ![p] = x]
             u == [v EXCEPT !.pcb = f]
  <1>1. v \in Client /\ v.con.tcp \in Pointers
    BY DEF Up, Down, Client, Con
  <1>2. [v EXCEPT !.pcb[p] = x] = u
    OBVIOUS
  <1>3. /\ f \in [Pcbs -> Pcb] /\ f[p] = x
        /\ \A q \in Pcbs : q # p => f[q] = v.pcb[q]
    BY <1>1 DEF Client
  <1> HIDE DEF f
  <1>4. u \in Client /\ u.con = v.con /\ u.reports = v.reports /\ u.pcb = f
    BY <1>1, <1>3 DEF Client
  <1>5. v.con.tcp # Null => f[v.con.tcp] = v.pcb[v.con.tcp]
    BY <1>1, <1>3 DEF Pointers
  <1> HIDE DEF u
  <1>6. Up(v, m, a) => Up(u, m, a)
    BY <1>3, <1>4, <1>5, Constants DEF Up
  <1>7. Down(v, m, a) => Down(u, m, a)
    BY <1>3, <1>4 DEF Down
  <1> QED BY <1>2, <1>4, <1>5, <1>6, <1>7

LEMMA FreePcbType == FreePcb \in Pcb /\ ~FreePcb.arg /\ FreePcb.unacked = 0
  BY Constants DEF FreePcb, Pcb

\* What closeTcpConnection leaves of a control block.
LEMMA ClosedPcb ==
    ASSUME NEW v \in Client, NEW p \in Pcbs, NEW ok \in BOOLEAN
    PROVE  \E x \in Pcb : ~x.arg /\ closeTcpConnection(v, p, ok) = [v EXCEPT !.pcb[p] = x]
  <1> DEFINE x == IF ok THEN FreePcb ELSE [v.pcb[p] EXCEPT !.arg = FALSE]
  <1>1. x \in Pcb /\ ~x.arg
    BY FreePcbType DEF Client, Pcb
  <1>2. closeTcpConnection(v, p, ok) = [v EXCEPT !.pcb[p] = x]
    BY Constants DEF closeTcpConnection
  <1> HIDE DEF x
  <1> QED BY <1>1, <1>2

\* The control block of a connection is freed or given up, and the object told so.
detached(v, x) == [[v EXCEPT !.pcb[v.con.tcp] = x] EXCEPT !.con.tcp = Null]

LEMMA Detach ==
    ASSUME NEW m, NEW a, NEW v, Up(v, m, a), NEW x \in Pcb, ~x.arg
    PROVE  LET u == detached(v, x)
           IN  /\ Owner(u) /\ u.con.tcp = Null /\ u.con.destroyed = 0 /\ u.reports = v.reports
               /\ u.con.state = v.con.state /\ u.con.asyncTotalLen = v.con.asyncTotalLen
               /\ u.con.asyncTotalSent = v.con.asyncTotalSent
  <1> DEFINE p == v.con.tcp
             f == [v.pcb EXCEPT ![p] = x]
             c == [v.con EXCEPT !.tcp = Null]
             u == [[v EXCEPT !.pcb[p] = x] EXCEPT !.con.tcp = Null]
  <1>0. Null \in Pointers /\ Null \notin Pcbs /\ p \in Pcbs /\ v \in Client
    BY Constants DEF Pointers, Up
  <1>1. f \in [Pcbs -> Pcb] /\ \A q \in Pcbs : ~f[q].arg
    BY <1>0 DEF Up, Client
  <1>2. /\ c \in Con /\ c.tcp = Null /\ c.destroyed = 0 /\ c.state = v.con.state
        /\ c.asyncTotalLen = v.con.asyncTotalLen /\ c.asyncTotalSent = v.con.asyncTotalSent
    BY <1>0 DEF Up, Client, Con
  <1>3. u = [v EXCEPT !.pcb = f, !.con = c]
    BY <1>0 DEF Client
  <1> HIDE DEF f, c, u
  <1>4. u \in Client /\ u.con = c /\ u.pcb = f /\ u.reports = v.reports
    BY <1>0, <1>1, <1>2, <1>3 DEF Client
  <1>5. Owner(u)
    BY <1>0, <1>1, <1>2, <1>4 DEF Owner
  <1> QED BY <1>2, <1>4, <1>5 DEF u, p, detached

LEMMA DetachError ==
    ASSUME NEW m, NEW a, NEW v, Up(v, m, a), NEW x \in Pcb, ~x.arg
    PROVE  LET u == onError(detached(v, x))
           IN  Ends(v, u, m, a) /\ Ends(v, checkSelfFree(u), m, a)
  <1> DEFINE y == detached(v, x)
             u == onError(y)
  <1>1. Owner(y) /\ y.con.tcp = Null /\ y.con.destroyed = 0 /\ y.reports = v.reports
    BY Detach
  <1> HIDE DEF y
  <1>2. Over(u, m, a) /\ u.con.tcp = Null /\ u.reports = v.reports + 1
    BY <1>1, ErrorOver
  <1> HIDE DEF u
  <1>3. /\ Down(u, m, a) /\ u.con.destroyed = 0
        /\ Down(checkSelfFree(u), m, a)
        /\ checkSelfFree(u).con.destroyed = 0 => checkSelfFree(u).con.state \in Finished
        /\ checkSelfFree(u).reports = u.reports
    BY <1>2, OverFreed, Zenon
  <1>4. u.con.state \in Finished
    BY <1>2 DEF Over
  <1>5. Ends(v, u, m, a) /\ Ends(v, checkSelfFree(u), m, a)
    BY <1>2, <1>3, <1>4 DEF Ends
  <1> QED BY <1>5 DEF u, y

\* checkSelfFree after a callback.
LEMMA EndsFreed ==
    ASSUME NEW m, NEW a, NEW u, NEW v, Ends(u, v, m, a)
    PROVE  Ends(u, checkSelfFree(v), m, a)
  <1>1. CASE checkSelfFree(v) = v
    BY <1>1
  <1>2. CASE checkSelfFree(v) # v
    <2>1. checkSelfFree(v) = Delete(v) /\ v.con.autoSelfDestruct
      BY <1>2 DEF checkSelfFree
    <2>2. v.con.destroyed = 0 /\ Owner(v) /\ (v.con.state \in {"Ready", "Successful"} => m = a)
      BY <2>1, Constants DEF Ends, Down, Owner
    <2>3. Down(Delete(v), m, a) /\ Delete(v).con.destroyed = 1 /\ Delete(v).reports = v.reports
      BY <2>2, DeleteDown
    <2> QED BY <2>1, <2>3 DEF Ends
  <1> QED BY <1>1, <1>2

\* A callback either goes on with the connection or ends it.
Goes(u, v, m, a) == Stays(u, v, m, a) \/ Ends(u, v, m, a)

LEMMA GoesFreed ==
    ASSUME NEW m, NEW a, NEW u, NEW W, \A v \in W : Goes(u, v, m, a), NEW x \in freed(W)
    PROVE  Goes(u, x, m, a)
  <1>1. PICK v \in W : x = checkSelfFree(v)
    BY DEF freed
  <1>2. CASE Stays(u, v, m, a)
    <2>1. v.con.tcp # Null
      BY <1>2, Constants DEF Stays, Up
    <2> QED BY <1>1, <1>2, <2>1 DEF checkSelfFree, Goes
  <1>3. CASE Ends(u, v, m, a)
    BY <1>1, <1>3, EndsFreed DEF Goes
  <1> QED BY <1>2, <1>3 DEF Goes

-----------------------------------------------------------------------------
(* The callbacks of the control block in use *)

LEMMA UpReceive ==
    ASSUME NEW m \in Nat, NEW a \in Nat, NEW v, Up(v, m, a),
           NEW taken \in BOOLEAN, NEW ok \in BOOLEAN,
           NEW u \in staticOnReceive(v, v.con.tcp, taken, ok)
    PROVE  Goes(v, u, m, a)
  <1> DEFINE W == IF taken THEN readyToSend(awake(v)) ELSE {awake(v)}
  <1>1. Stays(v, awake(v), m, a)
    BY UpAwake
  <1>2. \A x \in readyToSend(awake(v)) : Stays(awake(v), x, m, a)
    BY <1>1, UpReady DEF Stays
  <1>3. \A x \in W : Goes(v, x, m, a)
    BY <1>1, <1>2 DEF Goes, Stays
  <1>4. u \in freed(W)
    BY DEF staticOnReceive, Up
  <1> HIDE DEF W
  <1> QED BY <1>3, <1>4, GoesFreed

LEMMA UpReceiveNull ==
    ASSUME NEW m \in Nat, NEW a \in Nat, NEW v, Up(v, m, a), NEW ok \in BOOLEAN,
           NEW u \in staticOnReceiveNull(v, v.con.tcp, ok)
    PROVE  Goes(v, u, m, a)
  <1> DEFINE p == v.con.tcp
             c == close(awake(v))
             d == closeTcpConnection(c, p, ok)
  <1>1. Up(awake(v), m, a) /\ awake(v).reports = v.reports
    BY UpAwake DEF Stays
  <1>2. Ends(v, c, m, a)
    BY <1>1, UpClose DEF Ends
  <1>3. u \in freed({d})
    BY DEF staticOnReceiveNull, Up
  <1>4. p \in Pcbs /\ p # Null
    BY Constants DEF Up
  <1> HIDE DEF c, p
  <1>5. c \in Client /\ c.con.tcp = Null /\ Down(c, m, a)
    BY <1>2 DEF Ends, Down
  <1>6. PICK x \in Pcb : ~x.arg /\ d = [c EXCEPT !.pcb[p] = x]
    BY <1>4, <1>5, ClosedPcb
  <1> HIDE DEF d
  <1>7. d.con = c.con /\ d.reports = c.reports /\ Down(d, m, a)
    BY <1>4, <1>5, <1>6, OtherPcb
  <1>8. Ends(v, d, m, a)
    BY <1>2, <1>7 DEF Ends
  <1>9. \A z \in {d} : Goes(v, z, m, a)
    BY <1>8 DEF Goes
  <1> QED BY <1>3, <1>9, GoesFreed

LEMMA UpReceiveError ==
    ASSUME NEW m \in Nat, NEW a \in Nat, NEW v, Up(v, m, a), NEW ok \in BOOLEAN,
           NEW u \in staticOnReceiveError(v, v.con.tcp, ok)
    PROVE  Goes(v, u, m, a)
  <1> DEFINE y == awake(v)
  <1>1. Up(y, m, a) /\ y.con.tcp = v.con.tcp /\ y.reports = v.reports
    BY UpAwake DEF Stays
  <1>2. u = onError([closeTcpConnection(y, v.con.tcp, ok) EXCEPT !.con.tcp = Null])
    BY DEF staticOnReceiveError, Up
  <1> HIDE DEF y
  <1> DEFINE p == y.con.tcp
  <1>3. y \in Client /\ p \in Pcbs
    BY <1>1 DEF Up
  <1> HIDE DEF p
  <1>4. PICK x \in Pcb : ~x.arg /\ closeTcpConnection(y, p, ok) = [y EXCEPT !.pcb[p] = x]
    BY <1>3, ClosedPcb
  <1>5. u = onError(detached(y, x))
    BY <1>1, <1>2, <1>4, Zenon DEF detached, p
  <1>6. Ends(y, u, m, a)
    BY <1>1, <1>4, <1>5, DetachError
  <1> QED BY <1>1, <1>6 DEF Goes, Ends

LEMMA UpError ==
    ASSUME NEW m \in Nat, NEW a \in Nat, NEW v, Up(v, m, a)
    PROVE  Goes(v, staticOnError(v, v.con.tcp), m, a)
  <1>1. staticOnError(v, v.con.tcp) = checkSelfFree(onError(detached(v, FreePcb)))
    BY DEF staticOnError, Up, detached
  <1> QED BY <1>1, FreePcbType, DetachError DEF Goes

LEMMA UpPoll ==
    ASSUME NEW m \in Nat, NEW a \in Nat, NEW v, Up(v, m, a), NEW ok \in BOOLEAN,
           NEW u \in staticOnPoll(v, v.con.tcp, ok)
    PROVE  Goes(v, u, m, a)
  <1> DEFINE n == (v.con.sleep + 1) % (USHRT_MAX + 1)
             y == [v EXCEPT !.con.sleep = n]
  <1>1. n \in Sleeps
    BY Constants DEF Up, Client, Con, Sleeps
  <1>2. u \in freed(onPoll(y))
    BY DEF staticOnPoll, Up
  <1> HIDE DEF n
  <1>3. Stays(v, y, m, a)
    BY <1>1, UpSleep
  <1> HIDE DEF y
  <1>4. Ends(y, close(y), m, a) /\ \A x \in readyToSend(y) : Stays(y, x, m, a)
    BY <1>3, UpClose, UpReady DEF Stays
  <1>5. Ends(v, close(y), m, a) /\ \A x \in readyToSend(y) : Stays(v, x, m, a)
    BY <1>3, <1>4 DEF Stays, Ends
  <1>6. \A x \in onPoll(y) : Goes(v, x, m, a)
    BY <1>5, SMTT(30) DEF onPoll, Goes
  <1> QED BY <1>2, <1>6, GoesFreed

\* n units are acknowledged: the unacked units shrink and the total grows.
LEMMA UpTold ==
    ASSUME NEW m \in Nat, NEW a \in Nat, NEW v, Up(v, m, a), NEW n \in 1..MaxHeld,
           n <= v.pcb[v.con.tcp].unacked
    PROVE  LET y == awake([v EXCEPT !.pcb[v.con.tcp].unacked = @ - n])
               told == [y EXCEPT !.con.asyncTotalSent = (@ + n) % Wrap]
           IN  Stays(v, told, m, a + n)
  <1> DEFINE p == v.con.tcp
             x == v.pcb[p].unacked
             z == x - n
             ts == v.con.asyncTotalSent
             tl == v.con.asyncTotalLen
             s == v.con.stream
             t == (ts + n) % Wrap
             b == a + n
             f == [v.pcb EXCEPT ![p] = [@ EXCEPT !.unacked = z]]
             c == [v.con EXCEPT !.sleep = 0]
             d == [c EXCEPT !.asyncTotalSent = t]
             y == awake([v EXCEPT !.pcb[p].unacked = @ - n])
             told == [y EXCEPT !.con.asyncTotalSent = (@ + n) % Wrap]
             u == [v EXCEPT !.pcb = f, !.con = d]
  <1>1. /\ tl \in Totals /\ ts \in Totals /\ x \in 0..SndBuf /\ s \in Int /\ s >= NoStream
        /\ m = a + x + Units(s) /\ m - a <= MaxHeld /\ tl - ts \in {m - a, m - a - Wrap}
        /\ p \in Pcbs /\ v \in Client
    BY DEF Up, Client, Con, Pcb, Balanced
  <1>2. told = u
    <2>1. y = [v EXCEPT !.pcb = f, !.con = c]
      BY <1>1 DEF awake, Client
    <2>2. y.con = c /\ c.asyncTotalSent = ts
      BY <1>1, <2>1 DEF Client, Con
    <2> HIDE DEF y, c, f
    <2> QED BY <1>1, <2>1, <2>2 DEF Client
  <1> HIDE DEF x, ts, tl, s, p
  <1>3. z \in 0..SndBuf /\ n \in 0..MaxHeld /\ n <= m - a /\ m >= a /\ n \in Nat
    <2>1. n <= x
      BY DEF x, p
    <2>2. Units(s) \in Nat
      BY <1>1 DEF Units, NoStream
    <2> QED BY <1>1, <2>1, <2>2, Constants
  <1>4. t \in Totals /\ t \in {ts + n, ts + n - Wrap}
    BY <1>1, <1>3, TotalPlus
  <1> HIDE DEF t
  <1>5. tl - t \in {m - b, m - b - Wrap}
    BY <1>1, <1>3, <1>4, BalanceArith
  <1>6. m = b + z + Units(s) /\ m - b <= MaxHeld
    <2>1. Units(s) \in Int
      BY <1>1 DEF Units, NoStream
    <2> QED BY <1>1, <1>3, <2>1, Constants
  <1> HIDE DEF b, z
  <1>7. /\ f \in [Pcbs -> Pcb] /\ f[p].unacked = z /\ f[p].st = v.pcb[p].st
        /\ \A q \in Pcbs : f[q].arg = v.pcb[q].arg
    BY <1>1, <1>3 DEF Client, Pcb
  <1>8. /\ c \in Con /\ c.tcp = p /\ c.state = v.con.state /\ c.destroyed = v.con.destroyed
        /\ c.stream = s /\ c.asyncTotalLen = tl
    <2>1. 0 \in Sleeps
      BY Constants DEF Sleeps
    <2> QED BY <1>1, <2>1 DEF Client, Con, p, s, tl
  <1> HIDE DEF f, c
  <1>9. /\ d \in Con /\ d.tcp = p /\ d.state = v.con.state /\ d.destroyed = v.con.destroyed
        /\ d.stream = s /\ d.asyncTotalLen = tl /\ d.asyncTotalSent = t
    BY <1>4, <1>8 DEF Con
  <1> HIDE DEF d
  <1>10. Balanced(d, z, m, b)
    BY <1>1, <1>5, <1>6, <1>9 DEF Balanced
  <1>11. u \in Client /\ u.con = d /\ u.pcb = f /\ u.reports = v.reports
    BY <1>1, <1>7, <1>9 DEF Client
  <1> HIDE DEF u
  <1>12. Stays(v, u, m, b)
    BY <1>1, <1>7, <1>9, <1>10, <1>11 DEF Stays, Up, p
  <1> HIDE DEF told, y
  <1>13. Stays(v, told, m, b)
    BY <1>2, <1>12
  <1> QED BY <1>13 DEF told, y, b, p

LEMMA UpSent ==
    ASSUME NEW m \in Nat, NEW a \in Nat, NEW v, Up(v, m, a), NEW n \in 1..MaxHeld,
           n <= v.pcb[v.con.tcp].unacked, NEW u \in staticOnSent(v, v.con.tcp, n)
    PROVE  Goes(v, u, m, a + n)
  <1> DEFINE y == awake([v EXCEPT !.pcb[v.con.tcp].unacked = @ - n])
             told == [y EXCEPT !.con.asyncTotalSent = (@ + n) % Wrap]
             b == a + n
  <1>1. u \in freed(onSent(y, n))
    BY SMTT(30) DEF staticOnSent, Up
  <1>2. Stays(v, told, m, b)
    BY UpTold
  <1>3. \A x \in onSent(y, n) : \/ x \in readyToSend(told)
                                \/ \E z \in readyToSend(told) : x = close(z)
    BY DEF onSent
  <1>4. b \in Nat
    OBVIOUS
  <1> HIDE DEF told, y, b
  <1>5. \A x \in readyToSend(told) : Stays(v, x, m, b) /\ Ends(x, close(x), m, b)
    <2>1. \A x \in readyToSend(told) : Stays(told, x, m, b)
      BY <1>2, <1>4, UpReady DEF Stays
    <2> QED BY <1>2, <1>4, <2>1, UpClose DEF Stays
  <1>6. \A x \in onSent(y, n) : Goes(v, x, m, b)
    BY <1>3, <1>5 DEF Goes, Stays, Ends
  <1>7. Goes(v, u, m, b)
    BY <1>1, <1>6, GoesFreed
  <1> QED BY <1>7 DEF b

\* lwIP moves the control block in use to another state.
LEMMA UpSt ==
    ASSUME NEW m, NEW a, NEW v, Up(v, m, a),
           NEW s \in {"new", "connecting", "established"}
    PROVE  Stays(v, [v EXCEPT !.pcb[v.con.tcp].st = s], m, a)
  <1> DEFINE p == v.con.tcp
             f == [v.pcb EXCEPT ![p] = [@ EXCEPT !.st = s]]
             u == [v EXCEPT !.pcb = f]
  <1>1. p \in Pcbs /\ v \in Client
    BY DEF Up
  <1>2. [v EXCEPT !.pcb[v.con.tcp].st = s] = u
    BY <1>1 DEF Client
  <1> HIDE DEF p
  <1>3. /\ f \in [Pcbs -> Pcb] /\ f[p].st = s /\ f[p].unacked = v.pcb[p].unacked
        /\ \A q \in Pcbs : f[q].arg = v.pcb[q].arg
    BY <1>1 DEF Client, Pcb
  <1> HIDE DEF f
  <1>4. u \in Client /\ u.con = v.con /\ u.pcb = f /\ u.reports = v.reports
    BY <1>1, <1>3 DEF Client
  <1> HIDE DEF u
  <1>5. Stays(v, u, m, a)
    BY <1>3, <1>4 DEF Stays, Up, p
  <1> QED BY <1>2, <1>5

LEMMA UpConnected ==
    ASSUME NEW m \in Nat, NEW a \in Nat, NEW v, Up(v, m, a), NEW ok \in BOOLEAN,
           v.pcb[v.con.tcp].st = "connecting",
           NEW u \in staticOnConnected([v EXCEPT !.pcb[v.con.tcp].st =
                                           IF ok THEN "established" ELSE @], v.con.tcp, ok)
    PROVE  \/ /\ Up(u, m, a) /\ u.con.state = "Connected"
              /\ u.con.tcp = v.con.tcp /\ u.reports = v.reports
           \/ Ends(v, u, m, a)
  <1> DEFINE s == IF ok THEN "established" ELSE "connecting"
             x == [v EXCEPT !.pcb[v.con.tcp].st = s]
             y == [x EXCEPT !.con.state = "Connected", !.con.canSend = TRUE]
             z == [onError(x) EXCEPT !.con.canSend = TRUE]
  <1>1. [v EXCEPT !.pcb[v.con.tcp].st = IF ok THEN "established" ELSE @] = x
    OBVIOUS
  <1>2. s \in {"new", "connecting", "established"}
    OBVIOUS
  <1> HIDE DEF s
  <1>3. Up(x, m, a) /\ x.con.tcp = v.con.tcp /\ x.reports = v.reports
    <2>1. Stays(v, x, m, a)
      BY <1>2, UpSt, Zenon
    <2> HIDE DEF x
    <2> QED BY <2>1 DEF Stays
  <1>4. u \in staticOnConnected(x, v.con.tcp, ok)
    BY <1>1
  <1> HIDE DEF x
  <1>5. u \in freed(onConnected(x, ok))
    BY <1>3, <1>4 DEF staticOnConnected, Up
  <1>6. CASE ok
    <2>1. u \in freed(readyToSend(y))
      BY <1>5, <1>6, SMTT(30) DEF onConnected
    <2>2. /\ Up(y, m, a) /\ y.con.state = "Connected" /\ y.con.tcp = v.con.tcp
          /\ y.reports = v.reports
      <3>1. y \in Client /\ y.pcb = x.pcb /\ y.reports = x.reports
        BY <1>3 DEF Up, Client, Con, eTCS
      <3>2. /\ y.con.state = "Connected" /\ y.con.tcp = x.con.tcp
            /\ y.con.destroyed = x.con.destroyed /\ y.con.stream = x.con.stream
            /\ y.con.asyncTotalLen = x.con.asyncTotalLen
            /\ y.con.asyncTotalSent = x.con.asyncTotalSent
        BY <1>3 DEF Up, Client, Con
      <3> HIDE DEF y
      <3> QED BY <1>3, <3>1, <3>2 DEF Up, Balanced
    <2> HIDE DEF y
    <2>3. \A r \in readyToSend(y) : Goes(y, r, m, a)
      BY <2>2, UpReady DEF Goes
    <2>4. Goes(y, u, m, a)
      BY <2>1, <2>3, GoesFreed
    <2> QED BY <2>2, <2>4 DEF Goes, Stays, Ends
  <1>7. CASE ~ok
    <2>1. u \in freed({close(z)})
      BY <1>5, <1>7 DEF onConnected
    <2> DEFINE e == onError(x)
    <2>2. Over(e, m, a) /\ e.reports = v.reports + 1
      BY <1>3, ErrorOver, UpAgrees DEF Up
    <2> HIDE DEF e
    <2>3. z = [e EXCEPT !.con.canSend = TRUE]
      BY DEF e
    <2> HIDE DEF z
    <2>4. Over(z, m, a) /\ z.reports = v.reports + 1
      BY <2>2, <2>3 DEF Over, Owner, Client, Con
    <2>5. close(z) = TcpConnection_close(z)
      BY <2>4 DEF close, Over
    <2>6. Ends(v, close(z), m, a)
      BY <2>4, <2>5, OverClose DEF Ends
    <2>7. \A r \in {close(z)} : Goes(v, r, m, a)
      BY <2>6 DEF Goes
    <2>8. Goes(v, u, m, a)
      BY <2>1, <2>7, GoesFreed
    <2>9. Ends(v, u, m, a)
      <3>1. u = checkSelfFree(close(z))
        BY <2>1 DEF freed
      <3> QED BY <2>6, <3>1, EndsFreed
    <2> QED BY <2>9
  <1> QED BY <1>6, <1>7

-----------------------------------------------------------------------------
(* The callbacks of the control blocks the object has let go of *)

LEMMA Orphan ==
    ASSUME NEW v \in Client, NEW p \in Pcbs, ~v.pcb[p].arg, NEW ok \in BOOLEAN,
           NEW taken \in BOOLEAN, NEW n \in Nat, n <= v.pcb[p].unacked, NEW u,
           \/ u \in staticOnReceive(v, p, taken, ok)
           \/ u \in staticOnReceiveNull(v, p, ok)
           \/ u \in staticOnReceiveError(v, p, ok)
           \/ u \in staticOnSent(v, p, n)
           \/ u \in staticOnPoll(v, p, ok)
           \/ u = staticOnError(v, p)
    PROVE  \E x \in Pcb : ~x.arg /\ u = [v EXCEPT !.pcb[p] = x]
  <1>1. \/ u = closeTcpConnection(v, p, ok)
        \/ u = [v EXCEPT !.pcb[p].unacked = @ - n]
        \/ u = [v EXCEPT !.pcb[p] = FreePcb]
    BY DEF staticOnReceive, staticOnReceiveNull, staticOnReceiveError, staticOnSent,
           staticOnPoll, staticOnError
  <1>2. CASE u = closeTcpConnection(v, p, ok)
    BY <1>2, ClosedPcb
  <1>3. CASE u = [v EXCEPT !.pcb[p].unacked = @ - n]
    <2> DEFINE z == v.pcb[p].unacked - n
               x == [v.pcb[p] EXCEPT !.unacked = z]
    <2>1. z \in 0..SndBuf
      BY Constants DEF Client, Pcb
    <2>2. u = [v EXCEPT !.pcb[p] = x]
      BY <1>3
    <2> HIDE DEF z
    <2>3. x \in Pcb /\ ~x.arg
      BY <2>1 DEF Client, Pcb
    <2> HIDE DEF x
    <2> QED BY <2>2, <2>3
  <1>4. CASE u = [v EXCEPT !.pcb[p] = FreePcb]
    BY <1>4, FreePcbType
  <1> QED BY <1>1, <1>2, <1>3, <1>4

LEMMA OrphanConnected ==
    ASSUME NEW v \in Client, NEW p \in Pcbs, ~v.pcb[p].arg, NEW ok \in BOOLEAN, NEW s,
           NEW u \in staticOnConnected([v EXCEPT !.pcb[p].st = s], p, ok)
    PROVE  u = [v EXCEPT !.pcb[p] = FreePcb]
  <1> DEFINE y == [v EXCEPT !.pcb[p].st = s]
  <1>1. ~y.pcb[p].arg
    BY DEF Client, Pcb
  <1>2. u = [y EXCEPT !.pcb[p] = FreePcb]
    BY <1>1 DEF staticOnConnected
  <1> QED BY <1>2 DEF Client

-----------------------------------------------------------------------------
(* Connecting *)

LEMMA UpTcpConnect ==
    ASSUME NEW m, NEW a, NEW v, Up(v, m, a), NEW ok \in BOOLEAN
    PROVE  Stays(v, internalTcpConnect(v, ok), m, a)
  <1>1. Stays(v, v, m, a)
    BY DEF Stays
  <1>2. "connecting" \in {"new", "connecting", "established"}
    OBVIOUS
  <1>3. Stays(v, [v EXCEPT !.pcb[v.con.tcp].st = "connecting"], m, a)
    BY <1>2, UpSt, Zenon
  <1> QED BY <1>1, <1>3 DEF internalTcpConnect

LEMMA NewPcb ==
    LET x == [FreePcb EXCEPT !.st = "new", !.arg = TRUE]
    IN  x \in Pcb /\ x.arg /\ x.st = "new" /\ x.unacked = 0
  <1> DEFINE y == [FreePcb EXCEPT !.st = "new"]
             x == [y EXCEPT !.arg = TRUE]
  <1>1. y \in Pcb /\ y.st = "new" /\ y.unacked = 0
    BY FreePcbType DEF Pcb
  <1>2. x = [FreePcb EXCEPT !.st = "new", !.arg = TRUE]
    BY Zenon
  <1> HIDE DEF y
  <1>3. x \in Pcb /\ x.arg /\ x.st = "new" /\ x.unacked = 0
    BY <1>1 DEF Pcb
  <1> QED BY <1>2, <1>3

\* A connection that begins has nothing to account for.
begun(v, p, to) ==
    [initialize(v, p) EXCEPT !.con.state = "Connecting",
                             !.con.canSend = IF to = "address" THEN @ ELSE FALSE, !.reports = 0]

LEMMA Begun ==
    ASSUME NEW m, NEW a, NEW v, Down(v, m, a), v.con.destroyed = 0, NEW p \in Pcbs,
           NEW to
    PROVE  LET u == begun(v, p, to)
           IN  /\ Up(u, 0, 0) /\ u.con.state = "Connecting" /\ u.reports = 0
               /\ u.con.tcp = p /\ u.pcb[p].st = "new"
  <1> DEFINE x == [FreePcb EXCEPT !.st = "new", !.arg = TRUE]
             f == [v.pcb EXCEPT ![p] = x]
             c1 == [v.con EXCEPT !.tcp = p]
             c2 == [c1 EXCEPT !.sleep = 0]
             c3 == [c2 EXCEPT !.canSend = TRUE]
             c4 == [c3 EXCEPT !.state = "Connecting"]
             b == IF to = "address" THEN c4.canSend ELSE FALSE
             c5 == [c4 EXCEPT !.canSend = b]
             i == initialize(v, p)
             j == [i EXCEPT !.con.state = "Connecting"]
             u == [j EXCEPT !.con.canSend = IF to = "address" THEN @ ELSE FALSE, !.reports = 0]
             r == [v EXCEPT !.con = c5, !.pcb = f, !.reports = 0]
  <1>0. v \in Client /\ p \in Pointers /\ 0 \in Sleeps /\ p # Null
    BY Constants DEF Down, Pointers, Sleeps
  <1>1. x \in Pcb /\ x.arg /\ x.st = "new" /\ x.unacked = 0
    BY NewPcb
  <1>2. i = [v EXCEPT !.con = c3, !.pcb = f]
    BY <1>0 DEF initialize, Client, Con
  <1>3. u = r
    <2>1. j = [v EXCEPT !.con = c4, !.pcb = f]
      <3> HIDE DEF c3, f, i
      <3> QED BY <1>0, <1>2 DEF Client
    <2> HIDE DEF c4, f, j
    <2>2. j.con = c4
      BY <1>0, <2>1 DEF Client
    <2>3. u = [j EXCEPT !.con.canSend = b, !.reports = 0]
      BY <2>2
    <2> HIDE DEF b, u
    <2> QED BY <1>0, <2>1, <2>3 DEF Client
  <1> HIDE DEF x, i
  <1>4. /\ f \in [Pcbs -> Pcb] /\ f[p] = x
        /\ \A q \in Pcbs : f[q].arg <=> q = p
    BY <1>0, <1>1 DEF Down, Client
  <1> HIDE DEF f
  <1>5. /\ c1 \in Con /\ c1.tcp = p /\ c1.destroyed = 0 /\ c1.stream = NoStream
        /\ c1.asyncTotalLen = 0 /\ c1.asyncTotalSent = 0
    BY <1>0 DEF Down, Client, Con
  <1> HIDE DEF c1
  <1>6. /\ c2 \in Con /\ c2.tcp = p /\ c2.destroyed = 0 /\ c2.stream = NoStream
        /\ c2.asyncTotalLen = 0 /\ c2.asyncTotalSent = 0
    BY <1>0, <1>5 DEF Con
  <1> HIDE DEF c2
  <1>7. /\ c3 \in Con /\ c3.tcp = p /\ c3.destroyed = 0 /\ c3.stream = NoStream
        /\ c3.asyncTotalLen = 0 /\ c3.asyncTotalSent = 0
    BY <1>6 DEF Con
  <1> HIDE DEF c3
  <1>8. /\ c4 \in Con /\ c4.tcp = p /\ c4.destroyed = 0 /\ c4.stream = NoStream
        /\ c4.asyncTotalLen = 0 /\ c4.asyncTotalSent = 0 /\ c4.state = "Connecting"
    BY <1>7 DEF Con, eTCS
  <1> HIDE DEF c4
  <1>9. /\ c5 \in Con /\ c5.tcp = p /\ c5.destroyed = 0 /\ c5.stream = NoStream
        /\ c5.asyncTotalLen = 0 /\ c5.asyncTotalSent = 0 /\ c5.state = "Connecting"
    <2>1. c4.canSend \in BOOLEAN
      BY <1>8 DEF Con
    <2>2. b \in BOOLEAN
      BY <2>1, Zenon DEF b
    <2> HIDE DEF b
    <2> QED BY <1>8, <2>2 DEF Con
  <1> HIDE DEF c5
  <1>10. r \in Client /\ r.con = c5 /\ r.pcb = f /\ r.reports = 0
    BY <1>0, <1>4, <1>9 DEF Client
  <1>11. Balanced(c5, 0, 0, 0)
    BY <1>9, Constants DEF Balanced, Units, NoStream
  <1> HIDE DEF r, u
  <1>12. /\ Up(u, 0, 0) /\ u.con.state = "Connecting" /\ u.reports = 0
         /\ u.con.tcp = p /\ u.pcb[p].st = "new"
    BY <1>1, <1>3, <1>4, <1>9, <1>10, <1>11 DEF Up
  <1> QED BY <1>12 DEF u, i, begun

-----------------------------------------------------------------------------
(* What a step does to the session *)

phaseOf(v) == IF v.con.destroyed = 0 THEN v.con.state ELSE "deleted"

\* The steps of TcpSession, in terms of two clients.
Moves(u, v) ==
    \/ phaseOf(v) = phaseOf(u) /\ v.reports = u.reports
    \/ /\ phaseOf(u) \in {"Ready", "Successful", "Failed"}
       /\ phaseOf(v) = "Connecting" /\ v.reports = 0
    \/ /\ phaseOf(u) = "Connecting"
       /\ phaseOf(v) = "Connected" /\ v.reports = u.reports
    \/ /\ phaseOf(u) \in {"Ready", "Connecting", "Connected"}
       /\ phaseOf(v) \in {"Successful", "Failed", "deleted"} /\ v.reports = u.reports + 1
    \/ phaseOf(u) # "deleted" /\ phaseOf(v) = "deleted" /\ v.reports = u.reports

LEMMA MovesSession == Moves(w, w') => [Session!SessionNext]_(Session!sessionVars)
  BY DEF Moves, phaseOf, Session!SessionNext, Session!sessionVars, Session!Open,
         Session!Establish, Session!End, Session!Delete, Session!Ended, Session!Underway,
         Alive, con

LEMMA EndsMoves ==
    ASSUME NEW m, NEW a, NEW u, NEW v, Ends(u, v, m, a), u.con.destroyed = 0,
           u.con.state \in {"Ready", "Connecting", "Connected"}
    PROVE  Moves(u, v)
  BY DEF Ends, Finished, Moves, phaseOf

LEMMA GoesMoves ==
    ASSUME NEW m, NEW a, NEW b, NEW c, NEW u, Up(u, m, a), NEW v, Goes(u, v, b, c)
    PROVE  Moves(u, v) /\ (Up(v, b, c) \/ Down(v, b, c))
  <1>1. u.con.destroyed = 0 /\ u.con.state \in {"Ready", "Connecting", "Connected"}
    BY DEF Up
  <1>2. CASE Stays(u, v, b, c)
    BY <1>1, <1>2 DEF Stays, Up, Moves, phaseOf
  <1>3. CASE Ends(u, v, b, c)
    BY <1>1, <1>3, EndsMoves DEF Ends
  <1> QED BY <1>2, <1>3 DEF Goes

LEMMA OtherMoves ==
    ASSUME NEW m, NEW a, NEW v, Up(v, m, a) \/ Down(v, m, a),
           NEW p \in Pcbs, p # v.con.tcp, NEW x \in Pcb, ~x.arg, NEW u,
           u = [v EXCEPT !.pcb[p] = x]
    PROVE  /\ Moves(v, u) /\ (Up(u, m, a) \/ Down(u, m, a))
           /\ u.con = v.con
           /\ v.con.tcp # Null => u.pcb[v.con.tcp] = v.pcb[v.con.tcp]
  <1>1. /\ u.con = v.con /\ u.reports = v.reports
        /\ v.con.tcp # Null => u.pcb[v.con.tcp] = v.pcb[v.con.tcp]
        /\ Up(v, m, a) => Up(u, m, a)
        /\ Down(v, m, a) => Down(u, m, a)
    BY OtherPcb
  <1> QED BY <1>1 DEF Moves, phaseOf

LEMMA InvTypes ==
    ASSUME Inv
    PROVE  /\ accepted \in Nat /\ acked \in Nat /\ w \in Client
           /\ \A p \in Pcbs : p = w.con.tcp => Up(w, accepted, acked) /\ w.pcb[p].arg
           /\ \A p \in Pcbs : p # w.con.tcp => ~w.pcb[p].arg
           /\ w.con.tcp # Null => Up(w, accepted, acked)
           /\ isProcessing(w.con) /\ Alive(w.con) => Up(w, accepted, acked)
  BY Constants DEF Inv, Up, Down, isProcessing, Alive

\* A callback of lwIP: of the control block in use, or of one let go of.
LEMMA CallbackStep ==
    ASSUME Inv, NEW p \in Pcbs, Active(w.pcb[p]), lookups' = lookups, faulted' \in BOOLEAN,
           accepted' \in 0..MaxTotal, acked' \in 0..MaxTotal,
           p = w.con.tcp => Moves(w, w') /\ (Up(w', accepted', acked') \/ Down(w', accepted', acked')),
           p # w.con.tcp => /\ accepted' = accepted /\ acked' = acked
                            /\ \E x \in Pcb : ~x.arg /\ w' = [w EXCEPT !.pcb[p] = x]
    PROVE  Inv' /\ Moves(w, w')
  <1>1. CASE p = w.con.tcp
    BY <1>1 DEF Inv
  <1>2. CASE p # w.con.tcp
    <2>1. PICK x \in Pcb : ~x.arg /\ w' = [w EXCEPT !.pcb[p] = x]
      BY <1>2
    <2>2. Up(w, accepted, acked) \/ Down(w, accepted, acked)
      BY DEF Inv
    <2>3. Moves(w, w') /\ (Up(w', accepted, acked) \/ Down(w', accepted, acked))
      BY <1>2, <2>1, <2>2, OtherMoves
    <2>4. Up(w', accepted', acked') \/ Down(w', accepted', acked')
      BY <1>2, <2>3
    <2> QED BY <2>3, <2>4 DEF Inv
  <1> QED BY <1>1, <1>2

-----------------------------------------------------------------------------
(* The actions *)

LEMMA InvInit == Init => Inv
  <1>1. SUFFICES ASSUME Init PROVE Inv
    OBVIOUS
  <1>2. PICK auto \in BOOLEAN : w = [con |-> NewConnection(auto, TimeOut),
                                     pcb |-> [p \in Pcbs |-> FreePcb], reports |-> 0]
    BY <1>1 DEF Init
  <1> DEFINE k == NewConnection(auto, TimeOut)
             f == [p \in Pcbs |-> FreePcb]
  <1>3. NoStream \in Int /\ "Ready" \in eTCS /\ 0 \in Totals /\ 0 \in Sleeps /\ Null \in Pointers
    BY Constants DEF NoStream, eTCS, Totals, Sleeps, Pointers
  <1>4. /\ k \in Con /\ k.tcp = Null /\ k.stream = NoStream /\ k.destroyed = 0
        /\ k.state = "Ready" /\ k.asyncTotalLen = 0 /\ k.asyncTotalSent = 0
    BY <1>3, Constants DEF NewConnection, Con
  <1>5. f \in [Pcbs -> Pcb] /\ \A p \in Pcbs : ~f[p].arg
    BY FreePcbType
  <1> HIDE DEF k, f
  <1>6. w = [con |-> k, pcb |-> f, reports |-> 0]
    BY <1>2 DEF k, f
  <1>7. w \in Client /\ w.con = k /\ w.pcb = f
    BY <1>4, <1>5, <1>6 DEF Client
  <1>8. lookups = 0 /\ accepted = 0 /\ acked = 0 /\ faulted = FALSE
    BY <1>1 DEF Init
  <1>9. Down(w, accepted, acked)
    BY <1>4, <1>5, <1>7, <1>8 DEF Down
  <1>10. accepted \in 0..MaxTotal /\ acked \in 0..MaxTotal /\ lookups \in Nat
    BY <1>8, Constants
  <1>11. faulted \in BOOLEAN
    BY <1>8, Zenon
  <1> QED BY <1>9, <1>10, <1>11 DEF Inv

LEMMA ConnectStep ==
    ASSUME Inv, NEW p \in Pcbs, NEW to \in {"address", "known", "inprogress", "error"},
           connect(p, to)
    PROVE  Inv' /\ Moves(w, w')
  <1> DEFINE busy == begun(w, p, to)
  <1>1. /\ w.con.destroyed = 0 /\ ~isProcessing(w.con)
        /\ accepted' = 0 /\ acked' = 0 /\ faulted' = faulted
        /\ lookups' = IF to = "inprogress" THEN lookups + 1 ELSE lookups
    BY DEF connect, Alive, con
  <1>2. Down(w, accepted, acked)
    BY <1>1 DEF Inv, Up, isProcessing
  <1>3. w.con.tcp = Null
    BY <1>2 DEF Down
  <1>4. \/ \E ok \in BOOLEAN : w' = internalTcpConnect(busy, ok)
        \/ w' = busy
    BY <1>3 DEF connect, con, begun
  <1>5. /\ Up(busy, 0, 0) /\ busy.con.state = "Connecting" /\ busy.reports = 0
        /\ busy.con.tcp = p /\ busy.pcb[p].st = "new"
    BY <1>1, <1>2, Begun
  <1> HIDE DEF busy
  <1>6. Stays(busy, w', 0, 0)
    BY <1>4, <1>5, UpTcpConnect DEF Stays
  <1>7. Moves(w, w')
    <2>1. w.con.state \in {"Ready", "Successful", "Failed"}
      BY <1>1, <1>2 DEF Down
    <2>2. w'.con.state = "Connecting" /\ w'.reports = 0 /\ w'.con.destroyed = 0
      BY <1>5, <1>6 DEF Stays, Up
    <2> QED BY <1>1, <2>1, <2>2 DEF Moves, phaseOf
  <1>8. /\ lookups' \in Nat /\ faulted' \in BOOLEAN
        /\ accepted' \in 0..MaxTotal /\ acked' \in 0..MaxTotal
    BY <1>1, Constants DEF Inv
  <1>9. Up(w', accepted', acked')
    BY <1>1, <1>6 DEF Stays
  <1> QED BY <1>7, <1>8, <1>9 DEF Inv

LEMMA SendStep ==
    ASSUME Inv, NEW len \in 1..MaxHeld, NEW closeAfter \in BOOLEAN, Send(len, closeAfter)
    PROVE  Inv' /\ Moves(w, w')
  <1>1. /\ Alive(w.con) /\ isProcessing(w.con)
        /\ accepted + len <= MaxTotal /\ accepted - acked + len <= MaxHeld
        /\ w' = send(w, len, closeAfter) /\ accepted' = accepted + len
        /\ lookups' = lookups /\ acked' = acked /\ faulted' = faulted
    BY DEF Send, con
  <1>2. Up(w, accepted, acked) /\ accepted \in Nat /\ acked \in Nat
    BY <1>1, InvTypes
  <1>3. Stays(w, w', accepted', acked') /\ w'.pcb = w.pcb
    BY <1>1, <1>2, UpSend
  <1>4. Moves(w, w') /\ Up(w', accepted', acked')
    BY <1>2, <1>3 DEF Moves, phaseOf, Stays, Up
  <1>5. accepted' \in 0..MaxTotal
    BY <1>1, <1>2, Constants
  <1> QED BY <1>1, <1>4, <1>5 DEF Inv

LEMMA CloseStep ==
    ASSUME Inv, Close
    PROVE  Inv' /\ Moves(w, w')
  <1>1. /\ w.con.destroyed = 0 /\ w' = close(w) /\ lookups' = lookups
        /\ accepted' = accepted /\ acked' = acked /\ faulted' = faulted
    BY DEF Close, Alive, con
  <1>2. w.con.destroyed = 0
    BY <1>1
  <1>3. Moves(w, w') /\ (Up(w', accepted, acked) \/ Down(w', accepted, acked))
    <2>1. CASE Up(w, accepted, acked)
      <3>1. Goes(w, w', accepted, acked)
        BY <1>1, <2>1, UpClose, InvTypes DEF Goes
      <3> QED BY <2>1, <3>1, GoesMoves
    <2>2. CASE Down(w, accepted, acked)
      <3>1. \/ w.con.state = "Ready" /\ Ends(w, w', accepted, acked)
            \/ w' = w
        BY <1>1, <1>2, <2>2, DownClose
      <3>2. CASE w' = w
        BY <2>2, <3>2 DEF Moves
      <3>3. CASE w.con.state = "Ready" /\ Ends(w, w', accepted, acked)
        BY <1>2, <3>3, EndsMoves DEF Ends
      <3> QED BY <3>1, <3>2, <3>3
    <2> QED BY <2>1, <2>2 DEF Inv
  <1> QED BY <1>1, <1>2, <1>3 DEF Inv

LEMMA DeleteStep ==
    ASSUME Inv, DeleteClient
    PROVE  Inv' /\ Moves(w, w')
  <1>1. /\ w.con.destroyed = 0 /\ w' = Delete(w) /\ lookups' = lookups
        /\ accepted' = accepted /\ acked' = acked /\ faulted' = faulted
    BY DEF DeleteClient, Alive, con
  <1>2. w.con.destroyed = 0
    BY <1>1
  <1>3. Owner(w) /\ (w.con.state \in {"Ready", "Successful"} => accepted = acked)
    BY Constants DEF Inv, Up, Down, Owner
  <1>4. Down(w', accepted, acked) /\ w'.con.destroyed = 1 /\ w'.reports = w.reports
    BY <1>1, <1>2, <1>3, DeleteDown
  <1>5. Moves(w, w')
    <2>1. w.con.state # "deleted"
      BY <1>3 DEF Owner, Client, Con, eTCS
    <2> QED BY <1>2, <1>4, <2>1 DEF Moves, phaseOf
  <1> QED BY <1>1, <1>2, <1>4, <1>5 DEF Inv

LEMMA DnsFoundStep ==
    ASSUME Inv, NEW ok \in BOOLEAN, DnsFound(ok)
    PROVE  Inv' /\ Moves(w, w')
  <1>1. /\ lookups > 0 /\ w.con.tcp # Null /\ w' = internalTcpConnect(w, ok)
        /\ lookups' = lookups - 1
        /\ accepted' = accepted /\ acked' = acked /\ faulted' = faulted
    BY DEF DnsFound, con
  <1>2. Up(w, accepted, acked)
    BY <1>1, InvTypes
  <1>3. Stays(w, w', accepted, acked)
    BY <1>1, <1>2, UpTcpConnect
  <1>4. Goes(w, w', accepted, acked)
    BY <1>3 DEF Goes
  <1>5. Moves(w, w') /\ Up(w', accepted, acked)
    BY <1>2, <1>3, <1>4, GoesMoves DEF Stays
  <1>6. lookups' \in Nat
    BY <1>1 DEF Inv
  <1> QED BY <1>1, <1>5, <1>6 DEF Inv

LEMMA DnsNotFoundStep ==
    ASSUME Inv, NEW ok \in BOOLEAN, DnsNotFound(ok)
    PROVE  Inv' /\ Moves(w, w')
  <1>1. /\ lookups > 0 /\ w.con.destroyed = 0 /\ lookups' = lookups - 1
        /\ w' = close([closeTcpConnection(w, w.con.tcp, ok) EXCEPT !.con.tcp = Null])
        /\ accepted' = accepted /\ acked' = acked /\ faulted' = faulted
    BY DEF DnsNotFound, con, Alive
  <1>2. Moves(w, w') /\ (Up(w', accepted, acked) \/ Down(w', accepted, acked))
    <2>1. CASE Up(w, accepted, acked)
      <3> DEFINE p == w.con.tcp
      <3>1. p \in Pcbs /\ w \in Client /\ accepted \in Nat /\ acked \in Nat
        BY <2>1, InvTypes DEF Up
      <3> HIDE DEF p
      <3>2. PICK x \in Pcb : ~x.arg /\ closeTcpConnection(w, p, ok) = [w EXCEPT !.pcb[p] = x]
        BY <3>1, ClosedPcb
      <3>3. w' = close(detached(w, x))
        BY <1>1, <3>2, Zenon DEF p, detached
      <3> DEFINE y == detached(w, x)
      <3>4. /\ Owner(y) /\ y.con.destroyed = 0 /\ y.reports = w.reports
            /\ y.con.state = w.con.state /\ y.con.asyncTotalLen = w.con.asyncTotalLen
            /\ y.con.asyncTotalSent = w.con.asyncTotalSent
        BY <2>1, <3>2, Detach
      <3> HIDE DEF y
      <3>5. /\ y.con.state \notin Finished
            /\ y.con.asyncTotalSent = y.con.asyncTotalLen => accepted = acked
        BY <2>1, <3>1, <3>4, UpAgrees
      <3>6. Ends(y, close(y), accepted, acked)
        BY <3>4, <3>5, CloseEnds
      <3>7. Ends(w, w', accepted, acked)
        BY <3>3, <3>4, <3>6 DEF Ends, y
      <3>8. Goes(w, w', accepted, acked)
        BY <3>7 DEF Goes
      <3> QED BY <2>1, <3>8, GoesMoves
    <2>2. CASE Down(w, accepted, acked)
      <3>1. closeTcpConnection(w, w.con.tcp, ok) = w
        BY <2>2 DEF Down, closeTcpConnection
      <3>2. [w EXCEPT !.con.tcp = Null] = w
        <4>1. w.con.tcp = Null /\ w \in Client
          BY <2>2 DEF Down
        <4> QED BY <4>1 DEF Client, Con
      <3>3. w' = close(w)
        BY <1>1, <3>1, <3>2
      <3>4. \/ w.con.state = "Ready" /\ Ends(w, w', accepted, acked)
            \/ w' = w
        BY <1>1, <2>2, <3>3, DownClose
      <3>5. CASE w' = w
        BY <2>2, <3>5 DEF Moves
      <3>6. CASE w.con.state = "Ready" /\ Ends(w, w', accepted, acked)
        BY <1>1, <3>6, EndsMoves DEF Ends
      <3> QED BY <3>4, <3>5, <3>6
    <2> QED BY <2>1, <2>2 DEF Inv
  <1>3. lookups' \in Nat
    BY <1>1 DEF Inv
  <1> QED BY <1>1, <1>2, <1>3 DEF Inv

LEMMA DnsLateStep ==
    ASSUME Inv, DnsLate
    PROVE  Inv' /\ Moves(w, w')
  <1>1. /\ lookups > 0 /\ lookups' = lookups - 1 /\ faulted' = TRUE
        /\ w' = w /\ accepted' = accepted /\ acked' = acked
    BY DEF DnsLate
  <1>2. lookups' \in Nat /\ faulted' \in BOOLEAN
    BY <1>1 DEF Inv
  <1> QED BY <1>1, <1>2 DEF Inv, Moves

LEMMA ConnectedStep ==
    ASSUME Inv, NEW p \in Pcbs, NEW ok \in BOOLEAN, Connected(p, ok)
    PROVE  Inv' /\ Moves(w, w')
  <1>1. /\ w.pcb[p].st = "connecting" /\ lookups' = lookups
        /\ w' \in staticOnConnected([w EXCEPT !.pcb[p].st = IF ok THEN "established" ELSE @], p, ok)
        /\ accepted' = accepted /\ acked' = acked /\ faulted' = faulted
    BY DEF Connected, pcb
  <1>2. ASSUME p = w.con.tcp
        PROVE  Moves(w, w') /\ (Up(w', accepted, acked) \/ Down(w', accepted, acked))
    <2>1. Up(w, accepted, acked) /\ accepted \in Nat /\ acked \in Nat
      BY <1>2, InvTypes
    <2>2. \/ /\ Up(w', accepted, acked) /\ w'.con.state = "Connected"
             /\ w'.con.tcp = w.con.tcp /\ w'.reports = w.reports
          \/ Ends(w, w', accepted, acked)
      BY <1>1, <1>2, <2>1, UpConnected
    <2>3. CASE Ends(w, w', accepted, acked)
      BY <2>1, <2>3, GoesMoves DEF Goes
    <2>4. CASE /\ Up(w', accepted, acked) /\ w'.con.state = "Connected"
               /\ w'.reports = w.reports
      BY <2>1, <2>4 DEF Up, Moves, phaseOf
    <2> QED BY <2>2, <2>3, <2>4
  <1>3. ASSUME p # w.con.tcp
        PROVE  \E x \in Pcb : ~x.arg /\ w' = [w EXCEPT !.pcb[p] = x]
    <2>1. ~w.pcb[p].arg /\ w \in Client
      BY <1>3, InvTypes
    <2> DEFINE s == IF ok THEN "established" ELSE w.pcb[p].st
    <2>2. w' \in staticOnConnected([w EXCEPT !.pcb[p].st = s], p, ok)
      BY <1>1
    <2> HIDE DEF s
    <2>3. w' = [w EXCEPT !.pcb[p] = FreePcb]
      BY <2>1, <2>2, OrphanConnected
    <2> QED BY <2>3, FreePcbType
  <1>4. /\ Active(w.pcb[p]) /\ faulted' \in BOOLEAN
        /\ accepted' \in 0..MaxTotal /\ acked' \in 0..MaxTotal
    BY <1>1 DEF Active, Inv
  <1> QED BY <1>1, <1>2, <1>3, <1>4, CallbackStep

\* Any other callback.
LEMMA OtherCallback ==
    ASSUME Inv, NEW p \in Pcbs, NEW ok \in BOOLEAN, NEW taken \in BOOLEAN,
           \/ w' \in staticOnReceive(w, p, taken, ok)
           \/ w' \in staticOnReceiveNull(w, p, ok)
           \/ w' \in staticOnReceiveError(w, p, ok)
           \/ w' \in staticOnPoll(w, p, ok)
           \/ w' = staticOnError(w, p),
           Active(w.pcb[p]), lookups' = lookups, faulted' \in BOOLEAN,
           accepted' = accepted, acked' = acked
    PROVE  Inv' /\ Moves(w, w')
  <1>1. accepted \in Nat /\ acked \in Nat /\ w \in Client
    BY InvTypes
  <1>2. ASSUME p = w.con.tcp
        PROVE  Moves(w, w') /\ (Up(w', accepted, acked) \/ Down(w', accepted, acked))
    <2>1. Up(w, accepted, acked)
      BY <1>2, InvTypes
    <2>2. Goes(w, w', accepted, acked)
      BY <1>1, <1>2, <2>1, UpReceive, UpReceiveNull, UpReceiveError, UpPoll, UpError
    <2> QED BY <2>1, <2>2, GoesMoves
  <1>3. ASSUME p # w.con.tcp
        PROVE  \E x \in Pcb : ~x.arg /\ w' = [w EXCEPT !.pcb[p] = x]
    <2>1. ~w.pcb[p].arg
      BY <1>3, InvTypes
    <2>2. 0 \in Nat /\ 0 <= w.pcb[p].unacked
      BY <1>1, Constants DEF Client, Pcb
    <2> QED BY <1>1, <2>1, <2>2, Orphan
  <1>4. accepted' \in 0..MaxTotal /\ acked' \in 0..MaxTotal
    BY DEF Inv
  <1> QED BY <1>2, <1>3, <1>4, CallbackStep

LEMMA AcknowledgeStep ==
    ASSUME Inv, NEW p \in Pcbs, NEW n \in 1..MaxHeld, Acknowledge(p, n)
    PROVE  Inv' /\ Moves(w, w')
  <1>1. /\ w.pcb[p].st = "established" /\ n <= w.pcb[p].unacked /\ w' \in staticOnSent(w, p, n)
        /\ acked' = IF w.pcb[p].arg /\ w.con.tcp = p THEN acked + n ELSE acked
        /\ lookups' = lookups /\ accepted' = accepted /\ faulted' = faulted
    BY DEF Acknowledge, Target, pcb, con
  <1>2. accepted \in Nat /\ acked \in Nat /\ w \in Client /\ n \in Nat
    BY InvTypes, Constants
  <1>3. ASSUME p = w.con.tcp
        PROVE  /\ Moves(w, w') /\ (Up(w', accepted, acked') \/ Down(w', accepted, acked'))
               /\ acked + n <= accepted /\ acked' = acked + n
    <2>1. Up(w, accepted, acked) /\ w.pcb[p].arg
      BY <1>3, InvTypes
    <2>2. acked' = acked + n
      BY <1>1, <1>3, <2>1
    <2>3. Goes(w, w', accepted, acked + n)
      BY <1>1, <1>2, <1>3, <2>1, UpSent
    <2>4. Moves(w, w') /\ (Up(w', accepted, acked + n) \/ Down(w', accepted, acked + n))
      BY <2>1, <2>3, GoesMoves
    <2>5. acked + n <= accepted
      <3> DEFINE x == w.pcb[p].unacked
                 s == w.con.stream
      <3>1. x \in Int /\ s \in Int /\ s >= NoStream /\ accepted = acked + x + Units(s) /\ n <= x
        BY <1>1, <1>3, <2>1, Constants DEF Up, Balanced, Client, Con, Pcb
      <3> HIDE DEF x, s
      <3> QED BY <1>2, <3>1 DEF Units, NoStream
    <2> QED BY <2>2, <2>4, <2>5
  <1>4. ASSUME p # w.con.tcp
        PROVE  acked' = acked /\ \E x \in Pcb : ~x.arg /\ w' = [w EXCEPT !.pcb[p] = x]
    <2>1. ~w.pcb[p].arg
      BY <1>4, InvTypes
    <2>2. \A ok \in BOOLEAN : \E x \in Pcb : ~x.arg /\ w' = [w EXCEPT !.pcb[p] = x]
      BY <1>1, <1>2, <2>1, Orphan
    <2>3. TRUE \in BOOLEAN
      OBVIOUS
    <2> QED BY <1>1, <2>1, <2>2, <2>3
  <1>5. accepted' \in 0..MaxTotal /\ acked' \in 0..MaxTotal
    <2>1. accepted \in 0..MaxTotal /\ acked \in 0..MaxTotal
      BY DEF Inv
    <2> QED BY <1>1, <1>2, <1>3, <1>4, <2>1, Constants
  <1>6. Active(w.pcb[p]) /\ faulted' \in BOOLEAN
    BY <1>1 DEF Active, Inv
  <1> QED BY <1>1, <1>3, <1>4, <1>5, <1>6, CallbackStep

LEMMA Step ==
    ASSUME Inv, [Next]_vars
    PROVE  Inv' /\ Moves(w, w')
  <1>1. ASSUME NEW p \in Pcbs, NEW ok \in BOOLEAN, NEW taken \in BOOLEAN, Receive(p, taken, ok)
        PROVE  Inv' /\ Moves(w, w')
    <2>1. /\ w' \in staticOnReceive(w, p, taken, ok) /\ Active(w.pcb[p]) /\ lookups' = lookups
          /\ faulted' = faulted /\ accepted' = accepted /\ acked' = acked
      BY <1>1 DEF Receive, pcb, Active
    <2>2. faulted' \in BOOLEAN
      BY <2>1 DEF Inv
    <2> QED BY <2>1, <2>2, OtherCallback
  <1>2. ASSUME NEW p \in Pcbs, NEW ok \in BOOLEAN, ReceiveNull(p, ok)
        PROVE  Inv' /\ Moves(w, w')
    <2>1. /\ w' \in staticOnReceiveNull(w, p, ok) \/ w' \in staticOnReceiveError(w, p, ok)
          /\ Active(w.pcb[p]) /\ lookups' = lookups
          /\ faulted' = faulted /\ accepted' = accepted /\ acked' = acked
      BY <1>2 DEF ReceiveNull, pcb, Active
    <2>2. faulted' \in BOOLEAN
      BY <2>1 DEF Inv
    <2> QED BY <2>1, <2>2, OtherCallback
  <1>3. ASSUME NEW p \in Pcbs, NEW ok \in BOOLEAN, Poll(p, ok)
        PROVE  Inv' /\ Moves(w, w')
    <2>1. /\ w' \in staticOnPoll(w, p, ok) /\ Active(w.pcb[p]) /\ lookups' = lookups
          /\ faulted' = faulted /\ accepted' = accepted /\ acked' = acked
      BY <1>3 DEF Poll, pcb
    <2>2. faulted' \in BOOLEAN
      BY <2>1 DEF Inv
    <2> QED BY <2>1, <2>2, OtherCallback
  <1>4. ASSUME NEW p \in Pcbs, Error(p)
        PROVE  Inv' /\ Moves(w, w')
    <2>1. /\ w' = staticOnError(w, p) /\ Active(w.pcb[p]) /\ lookups' = lookups
          /\ faulted' = faulted /\ accepted' = accepted /\ acked' = acked
      BY <1>4 DEF Error, pcb
    <2>2. faulted' \in BOOLEAN /\ TRUE \in BOOLEAN
      BY <2>1 DEF Inv
    <2> QED BY <2>1, <2>2, OtherCallback
  <1>5. CASE UNCHANGED vars
    <2>1. Inv'
      BY <1>5 DEF vars, Inv
    <2> QED BY <1>5, <2>1 DEF vars, Moves
  <1> QED BY <1>1, <1>2, <1>3, <1>4, <1>5, ConnectStep, SendStep, CloseStep, DeleteStep,
             DnsFoundStep, DnsNotFoundStep, DnsLateStep, ConnectedStep, AcknowledgeStep
         DEF Next, Callback

-----------------------------------------------------------------------------
(* The theorems *)

LEMMA Invariance == Spec => []Inv
  BY InvInit, Step, PTL DEF Spec

\* Every variable keeps its type.
THEOREM TypeCorrect == Spec => []TypeOK
  <1>1. ASSUME Inv PROVE TypeOK
    <2>1. w \in Client /\ accepted \in Nat /\ acked \in Nat
      BY <1>1, InvTypes
    <2>2. /\ w.con.tcp \in Pcbs \cup {Null} /\ w.con.state \in eTCS
          /\ w.con.asyncTotalSent \in 0..(Wrap - 1) /\ w.con.asyncTotalLen \in 0..(Wrap - 1)
          /\ w.con.sleep \in 0..USHRT_MAX /\ w.con.destroyed \in Nat /\ w.reports \in Nat
      BY <2>1 DEF Client, Con, Pointers, Totals, Sleeps
    <2>3. \A p \in Pcbs : /\ w.pcb[p].st \in {"free", "new", "connecting", "established"}
                          /\ w.pcb[p].arg \in BOOLEAN
                          /\ w.pcb[p].unacked \in 0..SndBuf
      BY <2>1 DEF Client, Pcb
    <2>4. w.con.stream \in NoStream..MaxHeld
      <3>1. CASE Down(w, accepted, acked)
        BY <3>1, Constants DEF Down, NoStream
      <3>2. CASE Up(w, accepted, acked)
        <4> DEFINE x == w.pcb[w.con.tcp].unacked
                   s == w.con.stream
        <4>1. /\ x \in 0..SndBuf /\ s \in Int /\ s >= NoStream
              /\ accepted = acked + x + Units(s) /\ accepted - acked <= MaxHeld
          BY <3>2 DEF Up, Balanced, Client, Con, Pcb
        <4> HIDE DEF x, s
        <4>2. s \in NoStream..MaxHeld
          BY <2>1, <4>1, Constants DEF Units, NoStream
        <4> QED BY <4>2 DEF s
      <3> QED BY <1>1, <3>1, <3>2 DEF Inv
    <2>5. lookups \in Nat /\ faulted \in BOOLEAN /\ accepted \in 0..MaxTotal /\ acked \in 0..MaxTotal
      BY <1>1 DEF Inv
    <2> QED BY <2>2, <2>3, <2>4, <2>5 DEF TypeOK, con, pcb
  <1> QED BY <1>1, Invariance, PTL

\* Success is reported only if the peer has acknowledged everything that send()
\* accepted, however often the int16_t totals have wrapped.
THEOREM SuccessCorrect == Spec => []SuccessMeansAcked
  <1>1. ASSUME Inv PROVE SuccessMeansAcked
    BY <1>1 DEF Inv, Up, Down, SuccessMeansAcked, con
  <1> QED BY <1>1, Invariance, PTL

\* The callbacks of a control block are given to a live object that still holds it, an
\* object holds no control block that is gone, and none is deleted twice
\* (TcpConnection::close, closeTcpConnection, checkSelfFree).
THEOREM TargetsLive == Spec => []CallbackTargetLive
  <1>1. ASSUME Inv PROVE CallbackTargetLive
    <2>1. \A p \in Pcbs : w.pcb[p].arg <=> w.con.tcp = p
      BY <1>1, InvTypes
    <2>2. w.con.tcp # Null => w.con.destroyed = 0 /\ w.pcb[w.con.tcp].st # "free"
      BY <1>1, InvTypes DEF Up
    <2>3. w.con.destroyed <= 1
      BY <1>1 DEF Inv, Up, Down
    <2> QED BY <2>1, <2>2, <2>3 DEF CallbackTargetLive, con, pcb, Alive
  <1> QED BY <1>1, Invariance, PTL

\* The client implements TcpSession: one report for every connect(), at its end.
THEOREM Refinement == Spec => SessionRefined
  <1>1. Init => Session!SessionInit
    BY DEF Init, NewConnection, con, Alive, Session!SessionInit
  <1>2. ASSUME Inv, [Next]_vars PROVE [Session!SessionNext]_(Session!sessionVars)
    BY <1>2, Step, MovesSession
  <1> QED BY <1>1, <1>2, Invariance, PTL DEF Spec, SessionRefined, Session!SessionSpec

\* What SessionRefined amounts to at any moment: no report since connect() while the
\* connection is under way, one once it has ended, and never two, of a deleted object
\* neither (TcpClient::close, onError, onFinished).
OneReport ==
    /\ phaseOf(w) \in {"Ready", "Connecting", "Connected", "Successful", "Failed", "deleted"}
    /\ phaseOf(w) \in {"Ready", "Connecting", "Connected"} => w.reports = 0
    /\ phaseOf(w) \in {"Successful", "Failed"} => w.reports = 1
    /\ phaseOf(w) = "deleted" => w.reports \in {0, 1}

\* `completed` has been called once for every connect() that has ended, and not yet
\* for one that has not (TcpClient::close, onError, onFinished).
THEOREM OneReportPerConnect == Spec => []OneReport
  <1>1. Init => OneReport
    BY DEF Init, NewConnection, OneReport, phaseOf
  <1>2. ASSUME OneReport, Moves(w, w') PROVE OneReport'
    BY <1>2 DEF OneReport, Moves
  <1>3. ASSUME Inv, [Next]_vars PROVE Moves(w, w')
    BY <1>3, Step
  <1> QED BY <1>1, <1>2, <1>3, Invariance, PTL DEF Spec
=============================================================================
