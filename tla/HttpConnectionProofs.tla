------------------------ MODULE HttpConnectionProofs ------------------------
(***************************************************************************)
(* Proofs about HttpConnection, for any set of requests, with bodies or    *)
(* without, and queues of any size, as long as no request is retried.      *)
(***************************************************************************)
EXTENDS HttpConnection, SequenceTheorems, TLAPS

\* A retry puts a request back that is deleted: see staticOnMessageComplete.
NoRetries == Retried = {}

Queue == Seq(Requests)
Pointer == Requests \cup {None}

Connection ==
    [waitingQueue : Queue, executionQueue : Queue,
     incomingRequest : Pointer, outgoingRequest : Pointer,
     state : {"Ready", "SendingHeaders", "SendingBody"}, stream : {None, "headers", "body"},
     conn : {None, "connecting", "connected", "down"}, sent : Queue, wire : Queue,
     bodies : SUBSET Requests, retries : SUBSET Requests, freed : SUBSET Requests,
     kept : BOOLEAN]

\* `answering` and `held` of a connection.
One(r) == IF r = None THEN <<>> ELSE <<r>>
Answering(c) == One(c.incomingRequest) \o c.executionQueue
Held(c) == Answering(c) \o c.waitingQueue

Conserved(c, acc) ==
    /\ IsInjective(Held(c)) /\ ToSet(Held(c)) \subseteq acc \ c.freed
    /\ c.kept => ToSet(Held(c)) = acc \ c.freed
    /\ c.freed \subseteq acc /\ acc \subseteq Requests

\* Is a request being written: some of it is in the stream, or its body still waits?
Writing(c) == c.stream # None \/ (c.state = "SendingHeaders" /\ c.outgoingRequest \in c.bodies)

\* What is answered or executed is with the server, on the way, or being written.
Wired(c) ==
    /\ Answering(c) = (c.wire \o c.sent) \o (IF Writing(c) THEN <<c.outgoingRequest>> ELSE <<>>)
    /\ Writing(c) => c.outgoingRequest # None
    /\ c.stream = "headers" => c.state = "SendingHeaders"
    /\ c.stream = "body" => c.state = "SendingBody" /\ c.outgoingRequest \notin c.bodies
    /\ c.incomingRequest # None => c.wire # <<>>
    /\ Executing(c) /\ c.outgoingRequest # None => c.outgoingRequest = Last(c.executionQueue)

\* A request written in full stays outgoingRequest in a sending state only until it
\* is acknowledged.
Settled(c) ==
    c.state # "Ready" /\ ~Writing(c) => c.sent # <<>> /\ c.outgoingRequest = Last(c.sent)

\* A connection that is down, or none.
Resting(c) ==
    /\ c.sent = <<>> /\ c.wire = <<>> /\ c.stream = None
    /\ c.conn = None => /\ c.executionQueue = <<>> /\ c.incomingRequest = None
                        /\ c.state = "Ready" /\ c.outgoingRequest = None

-----------------------------------------------------------------------------
(* Sequences of requests *)

LEMMA QueueFacts ==
    ASSUME NEW a \in Queue
    PROVE  /\ Len(a) \in Nat /\ DOMAIN a = 1..Len(a) /\ (\A i \in 1..Len(a) : a[i] \in Requests)
           /\ Len(a) = 0 <=> a = <<>>
  <1>1. Len(a) \in Nat /\ DOMAIN a = 1..Len(a) /\ \A i \in 1..Len(a) : a[i] \in Requests
    BY LenProperties DEF Queue
  <1>2. Len(a) = 0 <=> a = <<>>
    BY EmptySeq DEF Queue
  <1> QED BY <1>1, <1>2

LEMMA EmptyQueue == <<>> \in Queue /\ Len(<<>>) = 0 /\ ToSet(<<>>) = {} /\ IsInjective(<<>>)
  <1>1. <<>> \in Queue /\ Len(<<>>) = 0 /\ DOMAIN <<>> = {}
    BY EmptySeq DEF Queue
  <1> QED BY <1>1 DEF ToSet, IsInjective

LEMMA Single ==
    ASSUME NEW r \in Requests
    PROVE  /\ <<r>> \in Queue /\ <<r>> # <<>> /\ Len(<<r>>) = 1
           /\ ToSet(<<r>>) = {r} /\ IsInjective(<<r>>) /\ Last(<<r>>) = r
  <1>1. <<r>> \in Queue /\ Len(<<r>>) = 1 /\ DOMAIN <<r>> = {1} /\ <<r>>[1] = r
    BY DEF Queue
  <1>2. <<r>> # <<>>
    BY <1>1, EmptyQueue
  <1> QED BY <1>1, <1>2 DEF ToSet, IsInjective, Last

LEMMA OneFacts ==
    ASSUME NEW r \in Pointer
    PROVE  /\ One(r) \in Queue /\ ToSet(One(r)) = {r} \ {None}
           /\ One(None) = <<>> /\ (r # None => One(r) = <<r>>)
  <1>1. CASE r = None
    BY <1>1, EmptyQueue DEF One
  <1>2. CASE r # None
    <2>1. r \in Requests
      BY <1>2 DEF Pointer
    <2> QED BY <1>2, <2>1, Single DEF One
  <1> QED BY <1>1, <1>2

LEMMA Concat ==
    ASSUME NEW a \in Queue, NEW b \in Queue
    PROVE  /\ a \o b \in Queue /\ Len(a \o b) = Len(a) + Len(b)
           /\ a \o <<>> = a /\ <<>> \o a = a
           /\ a \o b = <<>> <=> a = <<>> /\ b = <<>>
  BY ConcatProperties, ConcatEmptySeq, ConcatEqualIffEmpty DEF Queue

LEMMA Assoc ==
    ASSUME NEW a \in Queue, NEW b \in Queue, NEW c \in Queue
    PROVE  (a \o b) \o c = a \o (b \o c)
  BY ConcatAssociative DEF Queue

LEMMA AppendOne ==
    ASSUME NEW a \in Queue, NEW r \in Requests
    PROVE  /\ Append(a, r) = a \o <<r>> /\ Append(a, r) \in Queue /\ Append(a, r) # <<>>
           /\ Len(Append(a, r)) = Len(a) + 1 /\ Last(Append(a, r)) = r
  <1>1. /\ Append(a, r) = a \o <<r>> /\ Append(a, r) \in Queue /\ Append(a, r) # <<>>
        /\ Len(Append(a, r)) = Len(a) + 1 /\ Append(a, r)[Len(a) + 1] = r
    BY AppendIsConcat, AppendProperties DEF Queue
  <1> QED BY <1>1 DEF Last

LEMMA HeadTail ==
    ASSUME NEW a \in Queue, a # <<>>
    PROVE  /\ Head(a) \in Requests /\ Tail(a) \in Queue /\ Len(Tail(a)) = Len(a) - 1
           /\ a = <<Head(a)>> \o Tail(a)
           /\ Tail(a) # <<>> => Last(Tail(a)) = Last(a)
  <1>1. /\ Len(a) \in Nat \ {0} /\ Head(a) \in Requests /\ Tail(a) \in Queue
        /\ Len(Tail(a)) = Len(a) - 1 /\ \A i \in 1..Len(Tail(a)) : Tail(a)[i] = a[i + 1]
    BY EmptySeq, HeadTailProperties DEF Queue
  <1>2. SubSeq(a, 2, Len(a)) = Tail(a)
    BY TailIsSubSeq DEF Queue
  <1>3. 1 \in 1..Len(a) /\ Len(a) \in 1..Len(a)
    BY <1>1
  <1>4. SubSeq(a, 1, Len(a)) = <<a[1]>> \o SubSeq(a, 1 + 1, Len(a))
    BY <1>3, SubSeqRecursiveFirst DEF Queue
  <1>5. a = <<a[1]>> \o Tail(a)
    BY <1>2, <1>4, SubSeqFull DEF Queue
  <1>6. Head(a) = a[1]
    BY DEF Queue
  <1>7. ASSUME Tail(a) # <<>> PROVE Last(Tail(a)) = Last(a)
    <2>1. Len(Tail(a)) # 0
      BY <1>1, <1>7, QueueFacts
    <2>2. Len(Tail(a)) \in 1..Len(Tail(a)) /\ Len(Tail(a)) + 1 = Len(a)
      BY <1>1, <2>1
    <2> QED BY <1>1, <2>2 DEF Last
  <1> QED BY <1>1, <1>5, <1>6, <1>7

LEMMA LastIn ==
    ASSUME NEW a \in Queue, a # <<>>
    PROVE  Last(a) \in ToSet(a)
  <1>1. Len(a) \in Nat /\ Len(a) # 0 /\ DOMAIN a = 1..Len(a)
    BY QueueFacts
  <1>2. Len(a) \in 1..Len(a)
    BY <1>1
  <1> QED BY <1>1, <1>2 DEF Last, ToSet

\* What two sequences hold together, and that they hold nothing twice.
LEMMA ConcatSet ==
    ASSUME NEW a \in Queue, NEW b \in Queue
    PROVE  /\ ToSet(a \o b) = ToSet(a) \cup ToSet(b)
           /\ IsInjective(a \o b) <=> /\ IsInjective(a) /\ IsInjective(b)
                                      /\ ToSet(a) \cap ToSet(b) = {}
  <1>0. /\ Len(a) \in Nat /\ Len(b) \in Nat
        /\ DOMAIN a = 1..Len(a) /\ DOMAIN b = 1..Len(b)
        /\ DOMAIN (a \o b) = 1..Len(a) + Len(b)
        /\ \A i \in 1..Len(a) : i \in 1..Len(a) + Len(b) /\ (a \o b)[i] = a[i]
        /\ \A i \in 1..Len(b) : i + Len(a) \in 1..Len(a) + Len(b) /\ (a \o b)[i + Len(a)] = b[i]
        /\ \A k \in 1..Len(a) + Len(b) :
             k \in 1..Len(a) \/ (k - Len(a) \in 1..Len(b) /\ (k - Len(a)) + Len(a) = k)
    <2>1. Len(a) \in Nat /\ Len(b) \in Nat /\ DOMAIN a = 1..Len(a) /\ DOMAIN b = 1..Len(b)
      BY QueueFacts
    <2>2. a \o b \in Queue /\ Len(a \o b) = Len(a) + Len(b)
          /\ \A i \in 1..Len(a) + Len(b) :
               (a \o b)[i] = IF i <= Len(a) THEN a[i] ELSE b[i - Len(a)]
      BY ConcatProperties DEF Queue
    <2>3. DOMAIN (a \o b) = 1..Len(a) + Len(b)
      BY <2>2, QueueFacts
    <2> QED BY <2>1, <2>2, <2>3
  <1>1. ASSUME NEW x \in ToSet(a \o b) PROVE x \in ToSet(a) \cup ToSet(b)
    <2>1. PICK k \in 1..Len(a) + Len(b) : x = (a \o b)[k]
      BY <1>0 DEF ToSet
    <2>2. CASE k \in 1..Len(a)
      BY <1>0, <2>1, <2>2 DEF ToSet
    <2>3. CASE k - Len(a) \in 1..Len(b) /\ (k - Len(a)) + Len(a) = k
      <3>1. x = b[k - Len(a)]
        BY <1>0, <2>1, <2>3
      <3> QED BY <1>0, <2>3, <3>1 DEF ToSet
    <2> QED BY <1>0, <2>2, <2>3
  <1>2. ToSet(a) \subseteq ToSet(a \o b)
    BY <1>0 DEF ToSet
  <1>3. ASSUME NEW x \in ToSet(b) PROVE x \in ToSet(a \o b)
    <2>1. PICK i \in 1..Len(b) : x = b[i]
      BY <1>0 DEF ToSet
    <2> QED BY <1>0, <2>1 DEF ToSet
  <1>4. ASSUME IsInjective(a \o b) PROVE IsInjective(a)
    BY <1>0, <1>4 DEF IsInjective
  <1>5. ASSUME IsInjective(a \o b) PROVE IsInjective(b)
    <2>1. ASSUME NEW i \in 1..Len(b), NEW j \in 1..Len(b), b[i] = b[j] PROVE i = j
      <3>1. i + Len(a) = j + Len(a)
        BY <1>0, <1>5, <2>1 DEF IsInjective
      <3> QED BY <3>1, <1>0
    <2> QED BY <1>0, <2>1 DEF IsInjective
  <1>6. ASSUME IsInjective(a \o b), NEW x \in ToSet(a), x \in ToSet(b) PROVE FALSE
    <2>1. PICK i \in 1..Len(a) : x = a[i]
      BY <1>0 DEF ToSet
    <2>2. PICK j \in 1..Len(b) : x = b[j]
      BY <1>0, <1>6 DEF ToSet
    <2>3. i # j + Len(a)
      BY <1>0
    <2>4. /\ i \in DOMAIN (a \o b) /\ j + Len(a) \in DOMAIN (a \o b)
          /\ (a \o b)[i] = (a \o b)[j + Len(a)]
      BY <1>0, <2>1, <2>2
    <2> QED BY <1>6, <2>3, <2>4 DEF IsInjective
  <1>7. ASSUME IsInjective(a), IsInjective(b), ToSet(a) \cap ToSet(b) = {}
        PROVE  IsInjective(a \o b)
    <2>0. \A i \in 1..Len(a), j \in 1..Len(b) : a[i] # b[j]
      BY <1>0, <1>7 DEF ToSet
    <2>1. SUFFICES ASSUME NEW i \in 1..Len(a) + Len(b), NEW j \in 1..Len(a) + Len(b),
                          (a \o b)[i] = (a \o b)[j]
                   PROVE  i = j
      BY <1>0 DEF IsInjective
    <2>3. CASE i \in 1..Len(a) /\ j \in 1..Len(a)
      BY <1>0, <1>7, <2>1, <2>3 DEF IsInjective
    <2>4. CASE i \in 1..Len(a) /\ j \notin 1..Len(a)
      BY <1>0, <2>0, <2>1, <2>4
    <2>5. CASE i \notin 1..Len(a) /\ j \in 1..Len(a)
      BY <1>0, <2>0, <2>1, <2>5
    <2>6. CASE i \notin 1..Len(a) /\ j \notin 1..Len(a)
      <3>1. i - Len(a) = j - Len(a)
        BY <1>0, <1>7, <2>1, <2>6 DEF IsInjective
      <3> QED BY <3>1, <1>0
    <2> QED BY <2>3, <2>4, <2>5, <2>6
  <1> QED BY <1>1, <1>2, <1>3, <1>4, <1>5, <1>6, <1>7

\* Cancellation on the left, and the tail of a concatenation.
LEMMA SameHead ==
    ASSUME NEW s \in Queue, NEW a \in Queue, NEW w \in Queue, NEW b \in Queue,
           Len(s) = 1, w # <<>>, s \o a = w \o b
    PROVE  a = Tail(w) \o b
  <1> DEFINE f == <<Head(w)>>
             x == Tail(w) \o b
  <1>1. /\ Head(w) \in Requests /\ Tail(w) \in Queue /\ w = f \o Tail(w) /\ f \in Queue
        /\ Len(f) = 1 /\ x \in Queue
    BY HeadTail, Single, Concat
  <1> HIDE DEF f
  <1>2. (f \o Tail(w)) \o b = f \o x
    <2> DEFINE t         == Tail(w)
               cat(p, q) == p \o q
    <2>1. \A p, q, r \in Queue : cat(cat(p, q), r) = cat(p, cat(q, r))
      BY ONLY Assoc, Zenon
    <2>2. t \in Queue /\ f \in Queue
      BY <1>1
    <2> HIDE DEF t, cat
    <2>3. cat(cat(f, t), b) = cat(f, cat(t, b))
      BY <2>1, <2>2
    <2> QED BY ONLY <2>3 DEF t, cat, x
  <1> HIDE DEF x
  <1>3. s \o a = f \o x
    BY <1>1, <1>2
  <1>4. s = f
    <2>1. s \in Seq(Requests) /\ f \in Seq(Requests) /\ a \in Seq(Requests) /\ x \in Seq(Requests)
      BY <1>1 DEF Queue
    <2>2. Len(a) \in Nat /\ Len(x) \in Nat
      BY <1>1, QueueFacts
    <2>3. (s \o a)[1] = s[1]
      <3>1. \A i \in 1..Len(s) + Len(a) : (s \o a)[i] = IF i <= Len(s) THEN s[i] ELSE a[i - Len(s)]
        BY <2>1, ConcatProperties
      <3> QED BY <2>2, <3>1
    <2>4. (f \o x)[1] = f[1]
      BY <1>1, <2>1, <2>2, ConcatProperties
    <2>5. s[1] = f[1]
      BY <1>3, <2>3, <2>4
    <2>6. \A i \in 1..Len(s) : s[i] = f[i]
      BY <2>5
    <2> QED BY <1>1, <2>1, <2>6, SeqEqual
  <1>5. \A u, v, z \in Seq(Requests) : u \o v = u \o z => v = z
    BY ConcatSimplifications
  <1>6. a = x
    BY <1>1, <1>3, <1>4, <1>5 DEF Queue
  <1> QED BY <1>6 DEF x

-----------------------------------------------------------------------------
(* Sending *)

\* The fields of a connection, and its queues within their limits.
Fits(c) ==
    /\ c \in Connection /\ Len(c.waitingQueue) <= PoolSize /\ Len(c.executionQueue) <= PoolSize

\* Sending takes no request away and gives none back.
Sends(c, d) ==
    /\ Fits(d) /\ Wired(d) /\ Held(d) = Held(c)
    /\ d.conn = c.conn /\ d.freed = c.freed /\ d.kept = c.kept /\ d.retries = c.retries
    /\ d.incomingRequest = c.incomingRequest /\ d.wire = c.wire

LEMMA Fields ==
    ASSUME NEW c \in Connection
    PROVE  /\ c.waitingQueue \in Queue /\ c.executionQueue \in Queue
           /\ c.sent \in Queue /\ c.wire \in Queue
           /\ c.incomingRequest \in Pointer /\ c.outgoingRequest \in Pointer
           /\ c.state \in {"Ready", "SendingHeaders", "SendingBody"}
           /\ c.stream \in {None, "headers", "body"}
           /\ c.conn \in {None, "connecting", "connected", "down"}
           /\ c.bodies \subseteq Requests /\ c.retries \subseteq Requests
           /\ c.freed \subseteq Requests /\ c.kept \in BOOLEAN
           /\ Answering(c) \in Queue /\ Held(c) \in Queue
           /\ c.outgoingRequest # None => c.outgoingRequest \in Requests
           /\ c.incomingRequest # None => c.incomingRequest \in Requests
  <1>1. /\ c.waitingQueue \in Queue /\ c.executionQueue \in Queue
        /\ c.sent \in Queue /\ c.wire \in Queue
        /\ c.incomingRequest \in Pointer /\ c.outgoingRequest \in Pointer
        /\ c.state \in {"Ready", "SendingHeaders", "SendingBody"}
        /\ c.stream \in {None, "headers", "body"}
        /\ c.conn \in {None, "connecting", "connected", "down"}
        /\ c.bodies \subseteq Requests /\ c.retries \subseteq Requests
        /\ c.freed \subseteq Requests /\ c.kept \in BOOLEAN
    BY DEF Connection
  <1>2. Answering(c) \in Queue
    BY <1>1, OneFacts, Concat DEF Answering
  <1>3. Held(c) \in Queue
    BY <1>1, <1>2, Concat DEF Held
  <1> QED BY <1>1, <1>2, <1>3 DEF Pointer

\* State eHCS_Ready.
LEMMA NextRequestSends ==
    ASSUME NEW c, Fits(c), Wired(c), ~Writing(c)
    PROVE  Sends(c, nextRequest(c)) /\ Settled(nextRequest(c))
  <1> DEFINE d == nextRequest(c)
             r == Head(c.waitingQueue)
  <1>0. c \in Connection
    BY DEF Fits
  <1>1. Answering(c) = c.wire \o c.sent /\ c.stream = None
    <2>1. Answering(c) = (c.wire \o c.sent) \o <<>> /\ c.stream = None
      BY DEF Wired, Writing
    <2>2. c.wire \o c.sent \in Queue
      BY <1>0, Fields, Concat
    <2> QED BY <2>1, <2>2, Concat
  <1>2. CASE c.waitingQueue = <<>>
    <2>1. d = [c EXCEPT !.outgoingRequest = None, !.state = "Ready"]
      BY <1>2 DEF nextRequest
    <2> HIDE DEF d
    <2>2. /\ d.waitingQueue = c.waitingQueue /\ d.executionQueue = c.executionQueue
          /\ d.incomingRequest = c.incomingRequest /\ d.outgoingRequest = None
          /\ d.state = "Ready" /\ d.stream = c.stream /\ d.conn = c.conn /\ d.sent = c.sent
          /\ d.wire = c.wire /\ d.bodies = c.bodies /\ d.retries = c.retries
          /\ d.freed = c.freed /\ d.kept = c.kept /\ d \in Connection
      BY <1>0, <2>1 DEF Connection, Pointer
    <2>3. Answering(d) = Answering(c) /\ Held(d) = Held(c)
      BY <2>2 DEF Answering, Held
    <2>4. ~Writing(d)
      BY <1>1, <2>2 DEF Writing
    <2>5. Wired(d)
      BY <1>1, <2>2, <2>3, <2>4 DEF Wired, Writing, Executing, None
    <2>6. Sends(c, d) /\ Settled(d)
      BY <2>2, <2>3, <2>5 DEF Sends, Settled, Fits
    <2> QED BY <2>6 DEF d
  <1>3. CASE c.waitingQueue # <<>> /\ (~mayPipeline(c) \/ Len(c.executionQueue) = PoolSize)
    <2>1. d = [c EXCEPT !.state = "Ready"]
      BY <1>3 DEF nextRequest
    <2> HIDE DEF d
    <2>2. /\ d.waitingQueue = c.waitingQueue /\ d.executionQueue = c.executionQueue
          /\ d.incomingRequest = c.incomingRequest /\ d.outgoingRequest = c.outgoingRequest
          /\ d.state = "Ready" /\ d.stream = c.stream /\ d.conn = c.conn /\ d.sent = c.sent
          /\ d.wire = c.wire /\ d.bodies = c.bodies /\ d.retries = c.retries
          /\ d.freed = c.freed /\ d.kept = c.kept /\ d \in Connection
      BY <1>0, <2>1 DEF Connection
    <2>3. Answering(d) = Answering(c) /\ Held(d) = Held(c)
      BY <2>2 DEF Answering, Held
    <2>4. ~Writing(d)
      BY <1>1, <2>2 DEF Writing
    <2>5. Wired(d)
      BY <1>1, <2>2, <2>3, <2>4 DEF Wired, Writing, Executing, None
    <2>6. Sends(c, d) /\ Settled(d)
      BY <2>2, <2>3, <2>5 DEF Sends, Settled, Fits
    <2> QED BY <2>6 DEF d
  <1>4. CASE c.waitingQueue # <<>> /\ mayPipeline(c) /\ Len(c.executionQueue) # PoolSize
    <2>0. /\ r \in Requests /\ Tail(c.waitingQueue) \in Queue
          /\ Len(Tail(c.waitingQueue)) = Len(c.waitingQueue) - 1
          /\ c.waitingQueue = <<r>> \o Tail(c.waitingQueue)
          /\ Append(c.executionQueue, r) = c.executionQueue \o <<r>>
          /\ Append(c.executionQueue, r) \in Queue /\ Append(c.executionQueue, r) # <<>>
          /\ Len(Append(c.executionQueue, r)) = Len(c.executionQueue) + 1
          /\ Last(Append(c.executionQueue, r)) = r
      BY <1>0, <1>4, Fields, HeadTail, AppendOne
    <2>1. d = [c EXCEPT !.executionQueue = Append(c.executionQueue, r),
                        !.waitingQueue = Tail(c.waitingQueue), !.outgoingRequest = r,
                        !.bodies = c.bodies \cup ({r} \cap WithParams),
                        !.state = "SendingHeaders", !.stream = "headers"]
      BY <1>0, <1>4 DEF nextRequest, sendRequestHeaders, Connection
    <2> HIDE DEF d, r
    <2>2. /\ d.waitingQueue = Tail(c.waitingQueue)
          /\ d.executionQueue = Append(c.executionQueue, r)
          /\ d.incomingRequest = c.incomingRequest /\ d.outgoingRequest = r
          /\ d.state = "SendingHeaders" /\ d.stream = "headers" /\ d.conn = c.conn
          /\ d.sent = c.sent /\ d.wire = c.wire
          /\ d.retries = c.retries /\ d.freed = c.freed /\ d.kept = c.kept /\ d \in Connection
      BY <1>0, <2>0, <2>1 DEF Connection, Pointer
    <2>a. /\ <<r>> \in Queue /\ One(c.incomingRequest) \in Queue /\ Answering(c) \in Queue
          /\ c.executionQueue \in Queue
      BY <1>0, <2>0, Fields, OneFacts, Single
    <2>3. Answering(d) = Answering(c) \o <<r>>
      <3>1. (One(c.incomingRequest) \o c.executionQueue) \o <<r>> =
              One(c.incomingRequest) \o (c.executionQueue \o <<r>>)
        BY <2>a, Assoc
      <3> QED BY <2>0, <2>2, <3>1 DEF Answering
    <2>4. Held(d) = Held(c)
      <3>1. (Answering(c) \o <<r>>) \o Tail(c.waitingQueue) =
              Answering(c) \o (<<r>> \o Tail(c.waitingQueue))
        BY <2>0, <2>a, Assoc
      <3> QED BY <2>0, <2>2, <2>3, <3>1 DEF Held
    <2>5. Writing(d) /\ d.stream # None /\ r # None
      BY <2>0, <2>2, RequestsAssumption DEF Writing, None
    <2>6. Wired(d)
      BY <1>1, <2>0, <2>2, <2>3, <2>5 DEF Wired, Executing
    <2>7. Len(d.waitingQueue) <= PoolSize /\ Len(d.executionQueue) <= PoolSize
      <3>1. Len(c.waitingQueue) \in Nat /\ Len(c.executionQueue) \in Nat /\ PoolSize \in Nat
        BY <1>0, Fields, QueueFacts, PoolAssumption
      <3>2. Len(c.waitingQueue) <= PoolSize /\ Len(c.executionQueue) <= PoolSize
        BY DEF Fits
      <3>3. Len(d.waitingQueue) = Len(c.waitingQueue) - 1
            /\ Len(d.executionQueue) = Len(c.executionQueue) + 1
        BY <2>0, <2>2
      <3> QED BY <1>4, <3>1, <3>2, <3>3
    <2>8. Sends(c, d) /\ Settled(d)
      BY <2>2, <2>4, <2>5, <2>6, <2>7 DEF Sends, Settled, Fits
    <2> QED BY <2>8 DEF d
  <1> QED BY <1>2, <1>3, <1>4

\* The switch of onReadyToSendData leaves a request that is acknowledged behind.
LEMMA AdvanceSends ==
    ASSUME NEW c, Fits(c), Wired(c)
    PROVE  Sends(c, advance(c)) /\ Settled(advance(c))
  <1> DEFINE d == advance(c)
  <1>0. c \in Connection
    BY DEF Fits
  <1>1. CASE c.stream # None
    <2>1. advance(c) = c /\ Writing(c)
      BY <1>1 DEF advance, Writing
    <2> QED BY <2>1 DEF Sends, Settled
  <1>2. CASE c.stream = None /\ c.state = "SendingHeaders" /\ c.outgoingRequest \in c.bodies
    <2>1. d = [c EXCEPT !.state = "SendingBody", !.stream = "body",
                        !.bodies = c.bodies \ {c.outgoingRequest}]
      BY <1>0, <1>2 DEF advance, sendRequestBody, Connection
    <2> HIDE DEF d
    <2>2. /\ d.waitingQueue = c.waitingQueue /\ d.executionQueue = c.executionQueue
          /\ d.incomingRequest = c.incomingRequest /\ d.outgoingRequest = c.outgoingRequest
          /\ d.state = "SendingBody" /\ d.stream = "body" /\ d.conn = c.conn /\ d.sent = c.sent
          /\ d.wire = c.wire /\ d.bodies = c.bodies \ {c.outgoingRequest}
          /\ d.retries = c.retries /\ d.freed = c.freed /\ d.kept = c.kept /\ d \in Connection
      BY <1>0, <2>1 DEF Connection
    <2>3. Answering(d) = Answering(c) /\ Held(d) = Held(c)
      BY <2>2 DEF Answering, Held
    <2>4. Writing(c) /\ Writing(d)
      BY <1>2, <2>2 DEF Writing, None
    <2>5. Wired(d)
      BY <1>2, <2>2, <2>3, <2>4 DEF Wired, Executing
    <2>6. Sends(c, d) /\ Settled(d)
      BY <2>2, <2>3, <2>4, <2>5 DEF Sends, Settled, Fits
    <2> QED BY <2>6 DEF d
  <1>3. CASE c.stream = None /\ ~(c.state = "SendingHeaders" /\ c.outgoingRequest \in c.bodies)
    <2>1. advance(c) = nextRequest(c) /\ ~Writing(c)
      BY <1>3 DEF advance, Writing
    <2> QED BY <2>1, NextRequestSends
  <1> QED BY <1>1, <1>2, <1>3

LEMMA PushSends ==
    ASSUME NEW c, Fits(c), Wired(c), Settled(c), NEW all \in BOOLEAN
    PROVE  Sends(c, pushAsyncPart(c, all)) /\ Settled(pushAsyncPart(c, all))
  <1> DEFINE d == pushAsyncPart(c, all)
             o == c.outgoingRequest
  <1>0. c \in Connection
    BY DEF Fits
  <1>1. CASE c.stream = None \/ ~all
    <2>1. pushAsyncPart(c, all) = c
      BY <1>1 DEF pushAsyncPart
    <2> QED BY <2>1 DEF Sends
  <1>2. CASE c.stream # None /\ all /\ o \in c.bodies
    <2>1. d = [c EXCEPT !.stream = None, !.sent = c.sent]
      BY <1>0, <1>2 DEF pushAsyncPart, Connection
    <2> HIDE DEF d
    <2>2. /\ d.waitingQueue = c.waitingQueue /\ d.executionQueue = c.executionQueue
          /\ d.incomingRequest = c.incomingRequest /\ d.outgoingRequest = o
          /\ d.state = c.state /\ d.stream = None /\ d.conn = c.conn /\ d.sent = c.sent
          /\ d.wire = c.wire /\ d.bodies = c.bodies
          /\ d.retries = c.retries /\ d.freed = c.freed /\ d.kept = c.kept /\ d \in Connection
      BY <1>0, <2>1 DEF Connection
    <2>3. Answering(d) = Answering(c) /\ Held(d) = Held(c)
      BY <2>2 DEF Answering, Held
    <2>4. c.state = "SendingHeaders"
      BY <1>0, <1>2, Fields DEF Wired
    <2>5. Writing(c) /\ Writing(d)
      BY <1>2, <2>2, <2>4 DEF Writing
    <2>6. Wired(d)
      BY <2>2, <2>3, <2>5 DEF Wired, Executing, None
    <2>7. Sends(c, d) /\ Settled(d)
      BY <2>2, <2>3, <2>5, <2>6 DEF Sends, Settled, Fits
    <2> QED BY <2>7 DEF d
  <1>3. CASE c.stream # None /\ all /\ o \notin c.bodies
    <2>0. Writing(c) /\ o # None /\ Answering(c) = (c.wire \o c.sent) \o <<o>>
      BY <1>3 DEF Writing, Wired
    <2>1. d = [c EXCEPT !.stream = None, !.sent = Append(c.sent, o)]
      BY <1>0, <1>3 DEF pushAsyncPart, Connection
    <2>a. /\ o \in Requests /\ <<o>> \in Queue /\ c.wire \in Queue /\ c.sent \in Queue
          /\ Append(c.sent, o) = c.sent \o <<o>> /\ Append(c.sent, o) \in Queue
          /\ Append(c.sent, o) # <<>> /\ Last(Append(c.sent, o)) = o
      BY <1>0, <2>0, Fields, Single, AppendOne
    <2> HIDE DEF d
    <2>2. /\ d.waitingQueue = c.waitingQueue /\ d.executionQueue = c.executionQueue
          /\ d.incomingRequest = c.incomingRequest /\ d.outgoingRequest = o
          /\ d.state = c.state /\ d.stream = None /\ d.conn = c.conn
          /\ d.sent = Append(c.sent, o) /\ d.wire = c.wire /\ d.bodies = c.bodies
          /\ d.retries = c.retries /\ d.freed = c.freed /\ d.kept = c.kept /\ d \in Connection
      BY <1>0, <2>1, <2>a DEF Connection
    <2>3. Answering(d) = Answering(c) /\ Held(d) = Held(c)
      BY <2>2 DEF Answering, Held
    <2>4. ~Writing(d)
      BY <1>3, <2>2 DEF Writing
    <2>5. Answering(d) = (d.wire \o d.sent) \o <<>>
      <3>1. (c.wire \o c.sent) \o <<o>> = c.wire \o (c.sent \o <<o>>)
        BY <2>a, Assoc
      <3>2. d.wire \o d.sent \in Queue
        BY <2>a, <2>2, Concat
      <3>3. (d.wire \o d.sent) \o <<>> = d.wire \o d.sent
        BY <3>2, Concat
      <3> QED BY <2>0, <2>2, <2>3, <2>a, <3>1, <3>3
    <2>6. Wired(d)
      BY <2>0, <2>2, <2>4, <2>5 DEF Wired, Executing, None
    <2>7. Sends(c, d) /\ Settled(d)
      BY <2>a, <2>2, <2>3, <2>6 DEF Sends, Settled, Fits
    <2> QED BY <2>7 DEF d
  <1> QED BY <1>1, <1>2, <1>3

\* Whatever state the last request was left in, onReadyToSendData settles it.
LEMMA ReadySends ==
    ASSUME NEW c, Fits(c), Wired(c), NEW all \in BOOLEAN
    PROVE  Sends(c, onReadyToSendData(c, all)) /\ Settled(onReadyToSendData(c, all))
  <1> DEFINE d == advance(c)
  <1>1. Sends(c, d) /\ Settled(d)
    BY AdvanceSends
  <1> HIDE DEF d
  <1>2. Fits(d) /\ Wired(d)
    BY <1>1 DEF Sends
  <1>3. Sends(d, pushAsyncPart(d, all)) /\ Settled(pushAsyncPart(d, all))
    BY <1>1, <1>2, PushSends
  <1>4. Sends(c, pushAsyncPart(d, all))
    BY <1>1, <1>3 DEF Sends
  <1> QED BY <1>3, <1>4 DEF onReadyToSendData, d

LEMMA MaySends ==
    ASSUME NEW c, Fits(c), Wired(c), Settled(c), NEW room \in Rooms
    PROVE  Sends(c, mayReadyToSend(c, room)) /\ Settled(mayReadyToSend(c, room))
  <1>1. CASE room = "none"
    BY <1>1 DEF mayReadyToSend, Sends
  <1>2. CASE room # "none"
    <2>1. (room = "all") \in BOOLEAN
      OBVIOUS
    <2>2. mayReadyToSend(c, room) = onReadyToSendData(c, room = "all")
      BY <1>2 DEF mayReadyToSend
    <2> QED BY <2>1, <2>2, ReadySends
  <1> QED BY <1>1, <1>2

-----------------------------------------------------------------------------
(* The parser's callbacks *)

\* A connection in use.
Live(c, acc) ==
    /\ Fits(c) /\ Wired(c) /\ Settled(c) /\ Conserved(c, acc) /\ c.retries = {}

LEMMA SendsConserves ==
    ASSUME NEW c, NEW d, NEW acc, Sends(c, d), Settled(d), Conserved(c, acc), c.retries = {}
    PROVE  Live(d, acc)
  BY DEF Live, Sends, Conserved

LEMMA BeginKeeps ==
    ASSUME NEW c, NEW acc, Live(c, acc), c.incomingRequest = None, c.wire # <<>>, Executing(c)
    PROVE  Live(onMessageBegin(c), acc) /\ onMessageBegin(c).conn = c.conn
  <1> DEFINE d == onMessageBegin(c)
             e == c.executionQueue
  <1>0. c \in Connection /\ e \in Queue /\ e # <<>>
    BY Fields DEF Live, Fits, Executing
  <1>1. /\ Head(e) \in Requests /\ Tail(e) \in Queue /\ Len(Tail(e)) = Len(e) - 1
        /\ e = <<Head(e)>> \o Tail(e) /\ (Tail(e) # <<>> => Last(Tail(e)) = Last(e))
    BY <1>0, HeadTail
  <1>2. d = [c EXCEPT !.incomingRequest = Head(e), !.executionQueue = Tail(e)]
    BY <1>0 DEF onMessageBegin, Connection
  <1> HIDE DEF d
  <1>3. /\ d.waitingQueue = c.waitingQueue /\ d.executionQueue = Tail(e)
        /\ d.incomingRequest = Head(e) /\ d.outgoingRequest = c.outgoingRequest
        /\ d.state = c.state /\ d.stream = c.stream /\ d.conn = c.conn /\ d.sent = c.sent
        /\ d.wire = c.wire /\ d.bodies = c.bodies
        /\ d.retries = c.retries /\ d.freed = c.freed /\ d.kept = c.kept /\ d \in Connection
    BY <1>0, <1>1, <1>2 DEF Connection, Pointer
  <1>4. Answering(d) = Answering(c)
    <2>1. Head(e) \in Pointer /\ Head(e) # None /\ None \in Pointer
      BY <1>1, RequestsAssumption DEF Pointer
    <2>2. Answering(d) = e
      BY <1>1, <1>3, <2>1, OneFacts DEF Answering
    <2>3. Answering(c) = <<>> \o e
      BY <2>1, OneFacts DEF Answering
    <2> QED BY <1>0, <2>2, <2>3, Concat
  <1>5. Held(d) = Held(c)
    BY <1>3, <1>4 DEF Held
  <1>6. Writing(d) <=> Writing(c)
    BY <1>3 DEF Writing
  <1>7. Wired(d)
    BY <1>0, <1>1, <1>3, <1>4, <1>6 DEF Live, Wired, Executing
  <1>8. Settled(d)
    BY <1>3, <1>6 DEF Live, Settled
  <1>9. Conserved(d, acc)
    BY <1>3, <1>5 DEF Live, Conserved
  <1>10. Fits(d)
    <2>1. Len(e) \in Nat /\ PoolSize \in Nat
      BY <1>0, QueueFacts, PoolAssumption
    <2>2. Len(c.waitingQueue) <= PoolSize /\ Len(e) <= PoolSize
      BY DEF Live, Fits
    <2>3. Len(d.executionQueue) = Len(e) - 1
      BY <1>1, <1>3
    <2>4. Len(d.executionQueue) <= PoolSize
      BY <2>1, <2>2, <2>3
    <2> QED BY <1>3, <2>2, <2>4 DEF Fits
  <1>11. Live(d, acc)
    BY <1>3, <1>7, <1>8, <1>9, <1>10 DEF Live
  <1> QED BY <1>3, <1>11 DEF d

\* The request answered, taken away and deleted.
answered(c) ==
    [c EXCEPT !.incomingRequest = None, !.freed = c.freed \cup {c.incomingRequest},
              !.wire = Tail(c.wire)]

LEMMA AnsweredKeeps ==
    ASSUME NEW c, NEW acc, Live(c, acc), c.incomingRequest # None
    PROVE  Live(answered(c), acc) /\ answered(c).conn = c.conn
  <1> DEFINE d == answered(c)
             r == c.incomingRequest
             e == c.executionQueue
             w == IF Writing(c) THEN <<c.outgoingRequest>> ELSE <<>>
  <1>0. /\ c \in Connection /\ e \in Queue /\ r \in Requests /\ c.wire \in Queue
        /\ c.sent \in Queue /\ c.waitingQueue \in Queue /\ c.freed \subseteq Requests
        /\ r \in Pointer /\ None \in Pointer
    BY Fields DEF Live, Fits, Pointer
  <1>1. c.wire # <<>> /\ Answering(c) = (c.wire \o c.sent) \o w
    BY DEF Live, Wired
  <1>2. w \in Queue /\ <<r>> \in Queue
    <2>1. Writing(c) => c.outgoingRequest \in Requests
      BY <1>0, Fields DEF Live, Wired
    <2>2. CASE Writing(c)
      BY <1>0, <2>1, <2>2, Single
    <2>3. CASE ~Writing(c)
      BY <1>0, <2>3, Single, EmptyQueue
    <2> QED BY <2>2, <2>3
  <1> HIDE DEF w
  <1>3. /\ Answering(c) = <<r>> \o e /\ Tail(c.wire) \in Queue
    BY <1>0, <1>1, OneFacts, HeadTail DEF Answering
  <1>4. e = (Tail(c.wire) \o c.sent) \o w
    <2> DEFINE x == c.sent \o w
    <2>1. x \in Queue
      BY <1>0, <1>2, Concat
    <2>2. (c.wire \o c.sent) \o w = c.wire \o x
      BY <1>0, <1>2, Assoc, ZenonT(60)
    <2>3. (Tail(c.wire) \o c.sent) \o w = Tail(c.wire) \o x
      BY <1>0, <1>2, <1>3, Assoc
    <2> HIDE DEF x, e, r
    <2>4. <<r>> \o e = c.wire \o x
      BY <1>1, <1>3, <2>2
    <2>5. e = Tail(c.wire) \o x
      <3>1. r \in Requests /\ e \in Queue /\ c.wire \in Queue /\ c.wire # <<>>
        BY <1>0, <1>1
      <3> DEFINE s == <<r>>
      <3>2. s \in Queue /\ Len(s) = 1 /\ s \o e = c.wire \o x
        BY <1>2, <2>4, <3>1, Single DEF r
      <3> HIDE DEF s
      <3> QED BY <2>1, <3>1, <3>2, SameHead
    <2> QED BY <2>3, <2>5
  <1> HIDE DEF d
  <1>5. /\ d.waitingQueue = c.waitingQueue /\ d.executionQueue = e
        /\ d.incomingRequest = None /\ d.outgoingRequest = c.outgoingRequest
        /\ d.state = c.state /\ d.stream = c.stream /\ d.conn = c.conn /\ d.sent = c.sent
        /\ d.wire = Tail(c.wire) /\ d.bodies = c.bodies
        /\ d.retries = c.retries /\ d.freed = c.freed \cup {r} /\ d.kept = c.kept
        /\ d \in Connection
    BY <1>0, <1>3 DEF d, answered, Connection
  <1>6. Answering(d) = e
    BY <1>0, <1>5, OneFacts, Concat DEF Answering
  <1>7. Writing(d) <=> Writing(c)
    BY <1>5 DEF Writing
  <1>8. Wired(d)
    <2>1. Answering(d) = (d.wire \o d.sent) \o (IF Writing(d) THEN <<d.outgoingRequest>> ELSE <<>>)
      BY <1>4, <1>5, <1>6, <1>7 DEF w
    <2> QED BY <1>5, <1>7, <2>1 DEF Live, Wired, Executing
  <1>9. Settled(d)
    BY <1>5, <1>7 DEF Live, Settled
  <1>10. Conserved(d, acc)
    <2>1. Held(c) = <<r>> \o (e \o c.waitingQueue) /\ Held(d) = e \o c.waitingQueue
      <3>1. (<<r>> \o e) \o c.waitingQueue = <<r>> \o (e \o c.waitingQueue)
        BY <1>0, <1>2, Assoc, ZenonT(60)
      <3> QED BY <1>3, <1>5, <1>6, <3>1 DEF Held
    <2>2. e \o c.waitingQueue \in Queue
      BY <1>0, Concat
    <2>3. /\ ToSet(Held(c)) = {r} \cup ToSet(Held(d)) /\ IsInjective(Held(d))
          /\ r \notin ToSet(Held(d))
      <3>1. /\ ToSet(<<r>> \o Held(d)) = ToSet(<<r>>) \cup ToSet(Held(d))
            /\ IsInjective(<<r>> \o Held(d)) =>
                 IsInjective(Held(d)) /\ ToSet(<<r>>) \cap ToSet(Held(d)) = {}
        BY <1>2, <2>1, <2>2, ConcatSet
      <3>2. IsInjective(<<r>> \o Held(d)) /\ Held(c) = <<r>> \o Held(d)
        BY <2>1 DEF Live, Conserved
      <3>3. ToSet(<<r>>) = {r}
        BY <1>0, Single
      <3> QED BY <3>1, <3>2, <3>3
    <2>4. /\ ToSet(Held(c)) \subseteq acc \ c.freed /\ c.freed \subseteq acc /\ acc \subseteq Requests
          /\ c.kept => ToSet(Held(c)) = acc \ c.freed
      BY DEF Live, Conserved
    <2>5. ToSet(Held(d)) \subseteq acc \ d.freed /\ d.freed \subseteq acc
      BY <1>5, <2>3, <2>4
    <2>6. d.kept => ToSet(Held(d)) = acc \ d.freed
      BY <1>5, <2>3, <2>4
    <2> QED BY <2>3, <2>4, <2>5, <2>6 DEF Conserved
  <1>11. Live(d, acc)
    BY <1>5, <1>8, <1>9, <1>10 DEF Live, Fits
  <1> QED BY <1>5, <1>11 DEF d

LEMMA CompleteKeeps ==
    ASSUME NEW c, NEW acc, Live(c, acc), c.incomingRequest # None, NEW all \in BOOLEAN
    PROVE  Live(onMessageComplete(c, all), acc) /\ onMessageComplete(c, all).conn = c.conn
  <1> DEFINE d == answered(c)
  <1>1. Live(d, acc) /\ d.conn = c.conn
    BY AnsweredKeeps
  <1>2. onMessageComplete(c, all) = IF Executing(d) THEN d ELSE onReadyToSendData(d, all)
    <2>1. c \in Connection /\ c.incomingRequest \notin c.retries
      BY DEF Live, Fits
    <2>2. d = [c EXCEPT !.incomingRequest = None, !.freed = @ \cup {c.incomingRequest},
                        !.wire = Tail(@)]
      BY <2>1 DEF answered, Connection
    <2> QED BY <2>1, <2>2 DEF onMessageComplete
  <1> HIDE DEF d
  <1>3. Fits(d) /\ Wired(d) /\ Conserved(d, acc) /\ d.retries = {}
    BY <1>1 DEF Live
  <1>4. Sends(d, onReadyToSendData(d, all)) /\ Settled(onReadyToSendData(d, all))
    BY <1>3, ReadySends
  <1>5. Live(onReadyToSendData(d, all), acc)
    BY <1>3, <1>4, SendsConserves
  <1>6. onReadyToSendData(d, all).conn = d.conn
    BY <1>4 DEF Sends
  <1>7. CASE Executing(d)
    BY <1>1, <1>2, <1>7
  <1>8. CASE ~Executing(d)
    BY <1>1, <1>2, <1>5, <1>6, <1>8
  <1> QED BY <1>7, <1>8

LEMMA ParseKeeps ==
    ASSUME NEW c, NEW acc, Live(c, acc), Parsable(c), NEW all \in BOOLEAN
    PROVE  Live(parse(c, all), acc) /\ parse(c, all).conn = c.conn
  <1>1. CASE c.incomingRequest = None
    <2>1. c.wire # <<>> /\ Executing(c)
      BY <1>1 DEF Parsable
    <2> QED BY <1>1, <2>1, BeginKeeps DEF parse
  <1>2. CASE c.incomingRequest # None
    BY <1>2, CompleteKeeps DEF parse
  <1> QED BY <1>1, <1>2

-----------------------------------------------------------------------------
(* Losing the connection *)

\* kept, after cleanup().
KeptBy(c) == IF RoomToMoveBack(c) THEN c.kept ELSE FALSE

\* cleanup() takes the older executed requests, moves those the waiting queue takes (t),
\* drops the others of them (x) and leaves the younger ones (u).  With room for all,
\* there are neither x nor u.
MovedAs(c, t, x, u) ==
    /\ c.executionQueue = (t \o x) \o u
    /\ Len(u) <= PoolSize /\ Len(c.waitingQueue \o t) <= PoolSize
    /\ RoomToMoveBack(c) => x = <<>> /\ u = <<>>
    /\ cleanup(c) = [c EXCEPT !.waitingQueue = c.waitingQueue \o t, !.executionQueue = u,
                              !.freed = c.freed \cup ({c.incomingRequest} \ {None}),
                              !.incomingRequest = None, !.kept = KeptBy(c)]

LEMMA CleanupMoves ==
    ASSUME NEW c, Fits(c)
    PROVE  \E t, x, u \in Queue : MovedAs(c, t, x, u)
  <1> DEFINE e == c.executionQueue
             q == c.waitingQueue
             n == Len(e)
             m == Len(q)
             k == moved(n)
             s == SubSeq(e, 1, k)
             u == SubSeq(e, k + 1, n)
             j == IF k < PoolSize - m THEN k ELSE PoolSize - m
             t == SubSeq(s, 1, j)
             x == SubSeq(s, j + 1, k)
             room == RoomToMoveBack(c)
  <1>0. c \in Connection /\ e \in Queue /\ q \in Queue
    BY Fields DEF Fits
  <1>1. /\ n \in Nat /\ m \in Nat /\ PoolSize \in Nat /\ m <= PoolSize /\ n <= PoolSize
        /\ room => n <= 1 /\ m + n <= PoolSize
    <2>1. n \in Nat /\ m \in Nat /\ PoolSize \in Nat
      BY <1>0, QueueFacts, PoolAssumption
    <2>2. m <= PoolSize /\ n <= PoolSize
      BY DEF Fits
    <2> QED BY <2>1, <2>2 DEF RoomToMoveBack
  <1>2. k \in 0..n /\ (room => k = n)
    <2> HIDE DEF n, room
    <2>1. \A i \in Nat : (i + 1) \div 2 \in 0..i
      OBVIOUS
    <2>2. k \in 0..n
      BY <1>1, <2>1 DEF moved
    <2>3. ASSUME room PROVE k = n
      <3>1. n = 0 \/ n = 1
        BY <1>1, <2>3
      <3>2. (0 + 1) \div 2 = 0 /\ (1 + 1) \div 2 = 1
        OBVIOUS
      <3> QED BY <3>1, <3>2 DEF moved
    <2> QED BY <2>2, <2>3
  <1> HIDE DEF k
  <1>3. s \in Queue /\ u \in Queue /\ Len(s) = k /\ Len(u) = n - k /\ e = s \o u
    <2>0. \A i \in 1..n : e[i] \in Requests
      BY <1>0, QueueFacts
    <2>1. s \in Queue /\ Len(s) = k
      BY <1>1, <1>2, <2>0, SubSeqProperties DEF Queue
    <2>2. u \in Queue /\ Len(u) = n - k
      BY <1>1, <1>2, <2>0, SubSeqProperties DEF Queue
    <2>3. 1 \in 1..n + 1 /\ k \in 1 - 1..n /\ n \in k..n
      BY <1>1, <1>2
    <2>4. s \o u = SubSeq(e, 1, n)
      BY <1>0, <2>3, ConcatAdjacentSubSeq DEF Queue
    <2> QED BY <1>0, <2>1, <2>2, <2>4, SubSeqFull DEF Queue
  <1>4. cleanup(c) = [c EXCEPT !.waitingQueue = enqueueAll(q, s), !.executionQueue = u,
                               !.freed = c.freed \cup ({c.incomingRequest} \ {None}),
                               !.incomingRequest = None,
                               !.kept = KeptBy(c)]
    <2> HIDE DEF room
    <2>1. cleanup(c) = [c EXCEPT !.waitingQueue = enqueueAll(@, s), !.executionQueue = u,
                                 !.freed = @ \cup ({c.incomingRequest} \ {None}),
                                 !.incomingRequest = None,
                                 !.kept = IF room THEN @ ELSE FALSE]
      BY DEF cleanup, k, room
    <2> QED BY <1>0, <2>1 DEF Connection, KeptBy, room
  <1> HIDE DEF s, u
  <1>5. j \in 0..k /\ m + j <= PoolSize /\ (room => j = k)
    <2> HIDE DEF n, m, room
    <2> QED BY <1>1, <1>2
  <1>6. enqueueAll(q, s) = q \o t
    BY <1>3 DEF enqueueAll
  <1> HIDE DEF j
  <1>7. t \in Queue /\ x \in Queue /\ Len(t) = j /\ Len(x) = k - j /\ s = t \o x
    <2>0. \A i \in 1..k : s[i] \in Requests
      BY <1>3, QueueFacts
    <2>1. t \in Queue /\ Len(t) = j
      BY <1>2, <1>3, <1>5, <2>0, SubSeqProperties DEF Queue
    <2>2. x \in Queue /\ Len(x) = k - j
      BY <1>2, <1>3, <1>5, <2>0, SubSeqProperties DEF Queue
    <2>3. 1 \in 1..k + 1 /\ j \in 1 - 1..k /\ k \in j..k
      BY <1>2, <1>5
    <2>4. t \o x = SubSeq(s, 1, k)
      BY <1>3, <2>3, ConcatAdjacentSubSeq DEF Queue
    <2> QED BY <1>3, <2>1, <2>2, <2>4, SubSeqFull DEF Queue
  <1> HIDE DEF t, x
  <1>8. Len(q \o t) = m + j /\ Len(q \o t) <= PoolSize
    BY <1>0, <1>5, <1>7, Concat
  <1>9. Len(u) <= PoolSize /\ (room => Len(u) = 0 /\ Len(x) = 0)
    <2> HIDE DEF n, m, room
    <2> QED BY <1>1, <1>2, <1>3, <1>5, <1>7
  <1>10. room => x = <<>> /\ u = <<>>
    BY <1>3, <1>7, <1>9, QueueFacts
  <1>11. e = (t \o x) \o u
    BY <1>3, <1>7
  <1>12. cleanup(c) = [c EXCEPT !.waitingQueue = q \o t, !.executionQueue = u,
                                !.freed = c.freed \cup ({c.incomingRequest} \ {None}),
                                !.incomingRequest = None, !.kept = KeptBy(c)]
    BY <1>4, <1>6
  <1> t \in Queue /\ x \in Queue /\ u \in Queue
    BY <1>3, <1>7
  <1> WITNESS t \in Queue, x \in Queue, u \in Queue
  <1> QED BY <1>8, <1>9, <1>10, <1>11, <1>12 DEF MovedAs

\* What is dropped was held once: the rest is still conserved.
LEMMA CleanupKeeps ==
    ASSUME NEW c, NEW acc, Fits(c), Conserved(c, acc)
    PROVE  LET d == cleanup(c)
           IN  /\ Fits(d) /\ Conserved(d, acc)
               /\ d.kept => d.executionQueue = <<>>
               /\ d.incomingRequest = None /\ d.conn = c.conn /\ d.retries = c.retries
  <1> DEFINE d == cleanup(c)
             e == c.executionQueue
             q == c.waitingQueue
             r == c.incomingRequest
             room == RoomToMoveBack(c)
  <1>0. /\ c \in Connection /\ e \in Queue /\ q \in Queue /\ r \in Pointer /\ c.freed \subseteq Requests
        /\ One(r) \in Queue /\ ToSet(One(r)) = {r} \ {None} /\ None \in Pointer /\ <<>> \in Queue
        /\ One(None) = <<>> /\ {r} \ {None} \subseteq Requests /\ ToSet(<<>>) = {}
    <2>1. c \in Connection
      BY DEF Fits
    <2>2. /\ e \in Queue /\ q \in Queue /\ r \in Pointer /\ c.freed \subseteq Requests
      BY <2>1, Fields
    <2>3. /\ One(r) \in Queue /\ ToSet(One(r)) = {r} \ {None} /\ One(None) = <<>> /\ <<>> \in Queue
          /\ ToSet(<<>>) = {}
      BY <2>2, OneFacts, EmptyQueue
    <2> QED BY <2>1, <2>2, <2>3 DEF Pointer
  <1>1. PICK t, x, u \in Queue : MovedAs(c, t, x, u)
    BY CleanupMoves
  <1>c. /\ e = (t \o x) \o u /\ Len(u) <= PoolSize /\ Len(q \o t) <= PoolSize
        /\ room => x = <<>> /\ u = <<>>
        /\ d = [c EXCEPT !.waitingQueue = q \o t, !.executionQueue = u,
                         !.freed = c.freed \cup ({r} \ {None}), !.incomingRequest = None,
                         !.kept = KeptBy(c)]
    BY <1>1 DEF MovedAs
  <1>2. q \o t \in Queue /\ t \o x \in Queue
    BY <1>0, Concat
  <1>a. KeptBy(c) \in BOOLEAN /\ (KeptBy(c) => room /\ c.kept)
    BY <1>0, Fields DEF KeptBy
  <1> HIDE DEF d, room
  <1>3. /\ d.waitingQueue = q \o t /\ d.executionQueue = u
        /\ d.incomingRequest = None /\ d.freed = c.freed \cup ({r} \ {None})
        /\ d.conn = c.conn /\ d.retries = c.retries /\ d.kept = KeptBy(c) /\ d \in Connection
    BY <1>0, <1>c, <1>2, <1>a DEF Connection
  <1>b. d.kept => c.kept /\ x = <<>> /\ u = <<>>
    BY <1>c, <1>3, <1>a
  <1>4. Held(d) = u \o (q \o t)
    <2>1. Answering(d) = <<>> \o u
      BY <1>0, <1>3 DEF Answering
    <2>2. <<>> \o u = u
      BY Concat
    <2> QED BY <1>3, <2>1, <2>2 DEF Held
  <1>5. /\ IsInjective(Held(d)) /\ {r} \ {None} \subseteq ToSet(Held(c))
        /\ ToSet(Held(d)) = (ToSet(Held(c)) \ ({r} \ {None})) \ ToSet(x)
    <2>0. /\ ToSet(e) = ToSet(t \o x) \cup ToSet(u)
          /\ IsInjective(e) <=>
               IsInjective(t \o x) /\ IsInjective(u) /\ ToSet(t \o x) \cap ToSet(u) = {}
      BY <1>c, <1>2, ConcatSet
    <2>a. /\ ToSet(t \o x) = ToSet(t) \cup ToSet(x)
          /\ IsInjective(t \o x) <=> IsInjective(t) /\ IsInjective(x) /\ ToSet(t) \cap ToSet(x) = {}
      BY ConcatSet
    <2>1. One(r) \o e \in Queue
      BY <1>0, Concat
    <2>2. /\ ToSet(One(r) \o e) = ToSet(One(r)) \cup ToSet(e)
          /\ IsInjective(One(r) \o e) => IsInjective(e) /\ ToSet(One(r)) \cap ToSet(e) = {}
      BY <1>0, ConcatSet
    <2>3. /\ ToSet(Held(c)) = ToSet(One(r) \o e) \cup ToSet(q)
          /\ IsInjective(Held(c)) =>
               /\ IsInjective(One(r) \o e) /\ IsInjective(q)
               /\ ToSet(One(r) \o e) \cap ToSet(q) = {}
      BY <1>0, <2>1, ConcatSet DEF Held, Answering
    <2>4. /\ ToSet(q \o t) = ToSet(q) \cup ToSet(t)
          /\ IsInjective(q \o t) <=> IsInjective(q) /\ IsInjective(t) /\ ToSet(q) \cap ToSet(t) = {}
      BY <1>0, ConcatSet
    <2>5. /\ ToSet(Held(d)) = ToSet(u) \cup ToSet(q \o t)
          /\ IsInjective(Held(d)) <=>
               IsInjective(u) /\ IsInjective(q \o t) /\ ToSet(u) \cap ToSet(q \o t) = {}
      BY <1>2, <1>4, ConcatSet
    <2>6. IsInjective(Held(c))
      BY DEF Conserved
    <2>b. /\ IsInjective(e) /\ IsInjective(q) /\ ToSet(One(r)) \cap ToSet(e) = {}
          /\ (ToSet(One(r)) \cup ToSet(e)) \cap ToSet(q) = {}
      BY <2>2, <2>3, <2>6
    <2>7. /\ IsInjective(t) /\ IsInjective(u) /\ IsInjective(q)
          /\ ToSet(t) \cap ToSet(x) = {} /\ (ToSet(t) \cup ToSet(x)) \cap ToSet(u) = {}
      BY <2>0, <2>a, <2>b
    <2> DEFINE Te == ToSet(e)
               Tt == ToSet(t)
               Tx == ToSet(x)
               Tu == ToSet(u)
               Tq == ToSet(q)
               Tr == {r} \ {None}
    <2>8. /\ Te = Tt \cup Tx \cup Tu /\ Tt \cap Tx = {} /\ (Tt \cup Tx) \cap Tu = {}
          /\ Tr \cap Te = {} /\ (Tr \cup Te) \cap Tq = {}
          /\ ToSet(Held(c)) = Tr \cup Te \cup Tq /\ ToSet(Held(d)) = Tu \cup (Tq \cup Tt)
      BY <1>0, <2>0, <2>a, <2>2, <2>3, <2>4, <2>5, <2>7, <2>b
    <2> HIDE DEF Te, Tt, Tx, Tu, Tq, Tr
    <2>9. Tq \cap Tt = {} /\ Tu \cap (Tq \cup Tt) = {}
      BY <2>8
    <2>10. IsInjective(Held(d))
      BY <2>4, <2>5, <2>7, <2>9 DEF Tu, Tq, Tt
    <2>11. ToSet(Held(d)) = (ToSet(Held(c)) \ Tr) \ Tx /\ Tr \subseteq ToSet(Held(c))
      BY <2>8
    <2> QED BY <2>10, <2>11 DEF Tr, Tx
  <1>6. /\ ToSet(Held(d)) \subseteq acc \ d.freed /\ d.freed \subseteq acc /\ acc \subseteq Requests
        /\ d.kept => ToSet(Held(d)) = acc \ d.freed
    <2>1. /\ ToSet(Held(c)) \subseteq acc \ c.freed /\ c.freed \subseteq acc /\ acc \subseteq Requests
          /\ c.kept => ToSet(Held(c)) = acc \ c.freed
      BY DEF Conserved
    <2>2. ToSet(Held(d)) \subseteq acc \ d.freed /\ d.freed \subseteq acc
      BY <1>3, <1>5, <2>1
    <2>3. ASSUME d.kept PROVE ToSet(Held(d)) = acc \ d.freed
      <3>1. c.kept /\ ToSet(x) = {}
        BY <1>0, <1>b, <2>3
      <3> QED BY <1>3, <1>5, <2>1, <3>1
    <2> QED BY <2>1, <2>2, <2>3
  <1>7. Fits(d) /\ Conserved(d, acc)
    BY <1>c, <1>3, <1>5, <1>6 DEF Fits, Conserved
  <1> QED BY <1>b, <1>3, <1>7 DEF d

\* What is taken out of the execution queue and dropped leaves the rest conserved.
LEMMA DropKeeps ==
    ASSUME NEW c, NEW acc, Fits(c), Conserved(c, acc), c.incomingRequest = None,
           c.kept => c.executionQueue = <<>>
    PROVE  /\ IsInjective(c.waitingQueue) /\ ToSet(c.waitingQueue) \subseteq acc \ c.freed
           /\ c.kept => ToSet(c.waitingQueue) = acc \ c.freed
  <1>0. c \in Connection /\ c.executionQueue \in Queue /\ c.waitingQueue \in Queue
        /\ One(None) = <<>> /\ ToSet(<<>>) = {}
    BY Fields, OneFacts, EmptyQueue DEF Fits
  <1>1. Held(c) = c.executionQueue \o c.waitingQueue
    <2>1. <<>> \o c.executionQueue = c.executionQueue
      BY <1>0, Concat
    <2> QED BY <1>0, <2>1 DEF Held, Answering
  <1>2. /\ ToSet(Held(c)) = ToSet(c.executionQueue) \cup ToSet(c.waitingQueue)
        /\ IsInjective(Held(c)) => IsInjective(c.waitingQueue)
    BY <1>0, <1>1, ConcatSet
  <1>3. /\ IsInjective(Held(c)) /\ ToSet(Held(c)) \subseteq acc \ c.freed
        /\ c.kept => ToSet(Held(c)) = acc \ c.freed
    BY DEF Conserved
  <1> QED BY <1>0, <1>2, <1>3

\* ~HttpConnection: a new object starts with what the old one held.
LEMMA DeleteKeeps ==
    ASSUME NEW c, NEW acc, Fits(c), Conserved(c, acc), c.retries = {},
           c.conn = None => Resting(c)
    PROVE  LET d == Delete(c)
           IN  /\ Fits(d) /\ Conserved(d, acc) /\ d.retries = {} /\ d.conn = None /\ Resting(d)
               /\ ToSet(d.waitingQueue) \subseteq acc \ d.freed
               /\ d.kept => ToSet(d.waitingQueue) = acc \ d.freed
  <1> DEFINE d == Delete(c)
             k == cleanup(c)
  <1>0. c \in Connection /\ <<>> \in Queue /\ None \in Pointer /\ <<>> \o <<>> = <<>>
    BY EmptyQueue, Concat DEF Fits, Pointer
  <1>1. CASE c.conn = None
    <2>1. d = c /\ Resting(c)
      BY <1>1 DEF Delete
    <2>2. /\ ToSet(c.waitingQueue) \subseteq acc \ c.freed
          /\ c.kept => ToSet(c.waitingQueue) = acc \ c.freed
      <3>1. c.incomingRequest = None /\ c.executionQueue = <<>>
        BY <1>1, <2>1 DEF Resting
      <3> QED BY <3>1, DropKeeps
    <2> QED BY <1>1, <2>1, <2>2
  <1>2. CASE c.conn # None
    <2>1. Fits(k) /\ Conserved(k, acc) /\ k.incomingRequest = None
          /\ (k.kept => k.executionQueue = <<>>)
      BY CleanupKeeps
    <2>2. d = [NoConnection EXCEPT !.waitingQueue = k.waitingQueue, !.bodies = c.bodies,
                                   !.retries = c.retries, !.freed = k.freed,
                                   !.kept = k.kept]
      BY <1>2 DEF Delete
    <2>3. k \in Connection
      BY <2>1 DEF Fits
    <2>4. /\ k.waitingQueue \in Queue /\ k.freed \subseteq Requests /\ k.kept \in BOOLEAN
          /\ c.bodies \subseteq Requests
      BY <1>0, <2>3, Fields
    <2> HIDE DEF k, d
    <2>5. /\ d.waitingQueue = k.waitingQueue /\ d.executionQueue = <<>>
          /\ d.incomingRequest = None /\ d.outgoingRequest = None /\ d.state = "Ready"
          /\ d.stream = None /\ d.conn = None /\ d.sent = <<>> /\ d.wire = <<>>
          /\ d.freed = k.freed /\ d.kept = k.kept /\ d.retries = {} /\ d \in Connection
      BY <1>0, <2>2, <2>4 DEF NoConnection, Connection
    <2>a. /\ IsInjective(k.waitingQueue) /\ ToSet(k.waitingQueue) \subseteq acc \ k.freed
          /\ k.kept => ToSet(k.waitingQueue) = acc \ k.freed
      BY <2>1, DropKeeps
    <2>6. Held(d) = k.waitingQueue
      <3>1. Answering(d) = <<>> \o <<>>
        BY <1>0, <2>5, OneFacts DEF Answering
      <3> QED BY <1>0, <2>4, <2>5, <3>1, Concat DEF Held
    <2>7. Conserved(d, acc)
      BY <2>1, <2>5, <2>6, <2>a DEF Conserved
    <2>8. Resting(d)
      BY <2>5 DEF Resting
    <2>9. Fits(d)
      <3>1. Len(k.waitingQueue) <= PoolSize
        BY <2>1 DEF Fits
      <3>2. Len(<<>>) = 0 /\ 0 <= PoolSize
        BY EmptyQueue, PoolAssumption
      <3>3. Len(<<>>) <= PoolSize
        BY <3>2, Zenon
      <3> QED BY <2>5, <3>1, <3>3 DEF Fits
    <2>10. /\ ToSet(d.waitingQueue) \subseteq acc \ d.freed
           /\ d.kept => ToSet(d.waitingQueue) = acc \ d.freed
      BY <2>5, <2>a
    <2> QED BY <2>5, <2>7, <2>8, <2>9, <2>10 DEF d
  <1> QED BY <1>1, <1>2

\* connect() of a new object.
connecting(c) == [c EXCEPT !.conn = "connecting"]

LEMMA ConnectLive ==
    ASSUME NEW c, NEW acc, Fits(c), Conserved(c, acc), c.retries = {}, c.conn = None, Resting(c)
    PROVE  Live(connecting(c), acc) /\ connecting(c).conn = "connecting"
  <1> DEFINE d == connecting(c)
  <1>0. c \in Connection /\ <<>> \in Queue /\ <<>> \o <<>> = <<>> /\ One(None) = <<>>
    BY EmptyQueue, Concat, OneFacts DEF Fits, Pointer
  <1>1. /\ d.waitingQueue = c.waitingQueue /\ d.executionQueue = c.executionQueue
        /\ d.incomingRequest = c.incomingRequest /\ d.outgoingRequest = c.outgoingRequest
        /\ d.state = c.state /\ d.stream = c.stream /\ d.conn = "connecting"
        /\ d.sent = c.sent /\ d.wire = c.wire /\ d.bodies = c.bodies
        /\ d.retries = c.retries /\ d.freed = c.freed /\ d.kept = c.kept /\ d \in Connection
    BY <1>0 DEF connecting, Connection
  <1> HIDE DEF d
  <1>2. Answering(d) = <<>>
    BY <1>0, <1>1 DEF Answering, Resting
  <1>3. ~Writing(d)
    BY <1>1 DEF Writing, Resting
  <1>4. Wired(d)
    <2>1. (d.wire \o d.sent) \o <<>> = <<>>
      BY <1>0, <1>1 DEF Resting
    <2> QED BY <1>1, <1>2, <1>3, <2>1 DEF Wired, Executing, Resting, None
  <1>5. Settled(d)
    BY <1>1 DEF Settled, Resting
  <1>6. Held(d) = Held(c)
    BY <1>1 DEF Held, Answering
  <1>7. Conserved(d, acc) /\ Fits(d)
    BY <1>1, <1>6 DEF Conserved, Fits
  <1>8. Live(d, acc)
    BY <1>1, <1>4, <1>5, <1>7 DEF Live
  <1> QED BY <1>1, <1>8 DEF d

\* send() with room in the waiting queue.
queuedWith(c, r) == [c EXCEPT !.waitingQueue = Append(c.waitingQueue, r)]

LEMMA QueuedKeeps ==
    ASSUME NEW c, NEW acc, Fits(c), Conserved(c, acc), NEW r \in Requests, r \notin acc,
           Len(c.waitingQueue) < PoolSize
    PROVE  LET d == queuedWith(c, r)
           IN  /\ Fits(d) /\ Conserved(d, acc \cup {r}) /\ d.retries = c.retries
               /\ d.conn = c.conn
               /\ Wired(c) => Wired(d)
               /\ Settled(c) => Settled(d)
               /\ Resting(c) => Resting(d)
  <1> DEFINE d == queuedWith(c, r)
             q == c.waitingQueue
  <1>0. c \in Connection /\ q \in Queue /\ Answering(c) \in Queue /\ Held(c) \in Queue
    BY Fields DEF Fits
  <1>1. /\ Append(q, r) = q \o <<r>> /\ Append(q, r) \in Queue /\ Len(Append(q, r)) = Len(q) + 1
        /\ <<r>> \in Queue /\ ToSet(<<r>>) = {r} /\ IsInjective(<<r>>)
    BY <1>0, AppendOne, Single
  <1>2. /\ d.waitingQueue = Append(q, r) /\ d.executionQueue = c.executionQueue
        /\ d.incomingRequest = c.incomingRequest /\ d.outgoingRequest = c.outgoingRequest
        /\ d.state = c.state /\ d.stream = c.stream /\ d.conn = c.conn
        /\ d.sent = c.sent /\ d.wire = c.wire /\ d.bodies = c.bodies
        /\ d.retries = c.retries /\ d.freed = c.freed /\ d.kept = c.kept /\ d \in Connection
    BY <1>0, <1>1 DEF queuedWith, Connection
  <1> HIDE DEF d
  <1>3. Answering(d) = Answering(c) /\ (Writing(d) <=> Writing(c))
    BY <1>2 DEF Answering, Writing
  <1>4. Held(d) = Held(c) \o <<r>>
    <2>1. (Answering(c) \o q) \o <<r>> = Answering(c) \o (q \o <<r>>)
      BY <1>0, <1>1, Assoc
    <2> QED BY <1>1, <1>2, <1>3, <2>1 DEF Held
  <1>5. Conserved(d, acc \cup {r})
    <2>1. /\ ToSet(Held(c) \o <<r>>) = ToSet(Held(c)) \cup ToSet(<<r>>)
          /\ IsInjective(Held(c) \o <<r>>) <=>
               IsInjective(Held(c)) /\ IsInjective(<<r>>) /\ ToSet(Held(c)) \cap ToSet(<<r>>) = {}
      BY <1>0, <1>1, ConcatSet
    <2>2. /\ IsInjective(Held(c)) /\ ToSet(Held(c)) \subseteq acc \ c.freed
          /\ c.kept => ToSet(Held(c)) = acc \ c.freed
          /\ c.freed \subseteq acc /\ acc \subseteq Requests
      BY DEF Conserved
    <2>3. ToSet(Held(c)) \cap ToSet(<<r>>) = {}
      BY <1>1, <2>2
    <2>4. IsInjective(Held(d))
      BY <1>1, <1>4, <2>1, <2>2, <2>3
    <2>5. ToSet(Held(d)) \subseteq (acc \cup {r}) \ d.freed /\ d.freed \subseteq acc \cup {r}
      BY <1>1, <1>2, <1>4, <2>1, <2>2
    <2>6. d.kept => ToSet(Held(d)) = (acc \cup {r}) \ d.freed
      BY <1>1, <1>2, <1>4, <2>1, <2>2
    <2> QED BY <2>2, <2>4, <2>5, <2>6 DEF Conserved
  <1>6. Fits(d)
    <2>1. Len(q) \in Nat /\ PoolSize \in Nat /\ Len(q) < PoolSize
      BY <1>0, QueueFacts, PoolAssumption
    <2>2. Len(q) + 1 <= PoolSize
      BY <2>1
    <2>3. Len(d.waitingQueue) <= PoolSize
      BY <1>1, <1>2, <2>2
    <2> QED BY <1>2, <2>3 DEF Fits
  <1>7. Wired(c) => Wired(d)
    BY <1>2, <1>3 DEF Wired, Executing
  <1>8. Settled(c) => Settled(d)
    BY <1>2, <1>3 DEF Settled
  <1>9. Resting(c) => Resting(d)
    BY <1>2 DEF Resting
  <1> QED BY <1>2, <1>5, <1>6, <1>7, <1>8, <1>9 DEF d

\* onFinished(), after cleanup() or without.
LEMMA DownKeeps ==
    ASSUME NEW c, NEW acc, Fits(c), Conserved(c, acc), c.retries = {}
    PROVE  LET d == down(c)
           IN  Fits(d) /\ Conserved(d, acc) /\ d.retries = {} /\ d.conn = "down" /\ Resting(d)
  <1> DEFINE d == down(c)
  <1>0. c \in Connection /\ <<>> \in Queue
    BY EmptyQueue DEF Fits
  <1>1. /\ d.waitingQueue = c.waitingQueue /\ d.executionQueue = c.executionQueue
        /\ d.incomingRequest = c.incomingRequest /\ d.stream = None /\ d.conn = "down"
        /\ d.sent = <<>> /\ d.wire = <<>>
        /\ d.retries = c.retries /\ d.freed = c.freed /\ d.kept = c.kept /\ d \in Connection
    BY <1>0 DEF down, Connection
  <1> HIDE DEF d
  <1>2. Held(d) = Held(c)
    BY <1>1 DEF Held, Answering
  <1>3. Fits(d) /\ Conserved(d, acc)
    BY <1>1, <1>2 DEF Fits, Conserved
  <1>4. Resting(d)
    BY <1>1 DEF Resting, None
  <1> QED BY <1>1, <1>3, <1>4 DEF d

-----------------------------------------------------------------------------
(* The invariant *)

Used(c) == c.conn \in {"connecting", "connected"}

Inv ==
    /\ Fits(h) /\ Conserved(h, accepted) /\ h.retries = {}
    /\ Used(h) => Wired(h) /\ Settled(h)
    /\ ~Used(h) => Resting(h)

LEMMA LiveInv == Used(h) => (Inv <=> Live(h, accepted))
  BY DEF Inv, Live

LEMMA InvInit == NoRetries /\ Init => Inv
  <1> SUFFICES ASSUME NoRetries, Init PROVE Inv
    OBVIOUS
  <1>0. /\ <<>> \in Queue /\ <<>> \o <<>> = <<>> /\ None \in Pointer /\ One(None) = <<>>
        /\ ToSet(<<>>) = {} /\ IsInjective(<<>>)
    BY EmptyQueue, Concat, OneFacts DEF Pointer
  <1>1. /\ h.waitingQueue = <<>> /\ h.executionQueue = <<>>
        /\ h.incomingRequest = None /\ h.outgoingRequest = None /\ h.state = "Ready"
        /\ h.stream = None /\ h.conn = None /\ h.sent = <<>> /\ h.wire = <<>>
        /\ h.retries = {} /\ h.freed = {} /\ h.kept = TRUE /\ h \in Connection
    BY <1>0, RequestsAssumption DEF Init, NoConnection, Connection, NoRetries
  <1>2. Held(h) = <<>>
    BY <1>0, <1>1 DEF Held, Answering
  <1>3. Conserved(h, accepted)
    BY <1>0, <1>1, <1>2 DEF Conserved, Init
  <1>4. Resting(h) /\ ~Used(h)
    BY <1>1 DEF Resting, Used, None
  <1>5. Fits(h)
    <2>1. Len(<<>>) = 0 /\ 0 <= PoolSize
      BY EmptyQueue, PoolAssumption
    <2>2. Len(<<>>) <= PoolSize
      BY <2>1, Zenon
    <2> QED BY <1>1, <2>2 DEF Fits
  <1> QED BY <1>1, <1>3, <1>4, <1>5 DEF Inv

\* A step that leaves the connection in use.
LEMMA LiveNext ==
    ASSUME Live(h', accepted'), h'.conn \in {"connecting", "connected"}
    PROVE  Inv'
  BY DEF Inv, Live, Used

\* A step that leaves it at rest.
LEMMA RestNext ==
    ASSUME Fits(h'), Conserved(h', accepted'), h'.retries = {}, h'.conn \in {None, "down"},
           Resting(h')
    PROVE  Inv'
  <1>1. ~Used(h')
    BY DEF Used, None
  <1> QED BY <1>1 DEF Inv

LEMMA SendNext ==
    ASSUME Inv, NEW r \in Requests, send(r)
    PROVE  Inv'
  <1> DEFINE q == queuedWith(h, r)
  <1>0. /\ r \notin accepted /\ accepted' = accepted \cup {r} /\ Fits(h) /\ h \in Connection
        /\ Conserved(h, accepted) /\ h.retries = {}
    BY DEF send, Inv, Fits
  <1>1. [h EXCEPT !.waitingQueue = Append(@, r)] = q
    BY <1>0 DEF queuedWith, Connection
  <1>2. ASSUME Len(h.waitingQueue) < PoolSize
        PROVE  /\ Fits(q) /\ Conserved(q, accepted') /\ q.retries = {} /\ q.conn = h.conn
               /\ Wired(h) => Wired(q)
               /\ Settled(h) => Settled(q)
               /\ Resting(h) => Resting(q)
    BY <1>0, <1>2, QueuedKeeps
  <1> HIDE DEF q
  <1>3. CASE Len(h.waitingQueue) = PoolSize /\ h' = [h EXCEPT !.freed = @ \cup {r}]
    <2>0. h.freed \subseteq Requests
      BY <1>0, Fields
    <2>1. /\ h'.waitingQueue = h.waitingQueue /\ h'.executionQueue = h.executionQueue
          /\ h'.incomingRequest = h.incomingRequest /\ h'.outgoingRequest = h.outgoingRequest
          /\ h'.state = h.state /\ h'.stream = h.stream /\ h'.conn = h.conn
          /\ h'.sent = h.sent /\ h'.wire = h.wire /\ h'.bodies = h.bodies
          /\ h'.retries = h.retries /\ h'.freed = h.freed \cup {r} /\ h'.kept = h.kept
          /\ h' \in Connection
      BY <1>0, <1>3, <2>0 DEF Connection
    <2>2. Answering(h') = Answering(h) /\ Held(h') = Held(h)
      BY <2>1 DEF Held, Answering
    <2>3. Conserved(h', accepted')
      BY <1>0, <2>1, <2>2 DEF Conserved
    <2>4. Writing(h') <=> Writing(h)
      BY <2>1 DEF Writing
    <2>5. Wired(h) => Wired(h')
      BY <2>1, <2>2, <2>4 DEF Wired, Executing
    <2>6. Settled(h) => Settled(h')
      BY <2>1, <2>4 DEF Settled
    <2>7. Resting(h) => Resting(h')
      BY <2>1 DEF Resting
    <2>8. Fits(h') /\ (Used(h') <=> Used(h))
      BY <1>0, <2>1 DEF Fits, Used
    <2> QED BY <1>0, <2>1, <2>3, <2>5, <2>6, <2>7, <2>8 DEF Inv
  <1>4. CASE Len(h.waitingQueue) < PoolSize /\ h.conn \in {"connecting", "connected"} /\ h' = q
    <2>1. Wired(h) /\ Settled(h)
      BY <1>4 DEF Inv, Used
    <2>2. Live(q, accepted') /\ q.conn \in {"connecting", "connected"}
      BY <1>2, <1>4, <2>1 DEF Live
    <2> QED BY <1>4, <2>2, LiveNext
  <1>5. CASE /\ Len(h.waitingQueue) < PoolSize /\ h.conn \in {None, "down"}
             /\ h' = [Delete(q) EXCEPT !.conn = "connecting"]
    <2> DEFINE d == Delete(q)
    <2>1. q.conn = None => Resting(q)
      <3>1. ~Used(h)
        BY <1>5 DEF Used, None
      <3> QED BY <1>2, <1>5, <3>1 DEF Inv
    <2>2. Fits(d) /\ Conserved(d, accepted') /\ d.retries = {} /\ d.conn = None /\ Resting(d)
      BY <1>2, <1>5, <2>1, DeleteKeeps
    <2> HIDE DEF d
    <2>3. h' = connecting(d)
      BY <1>5 DEF connecting, d
    <2>4. Live(connecting(d), accepted') /\ connecting(d).conn = "connecting"
      BY <2>2, ConnectLive
    <2> QED BY <2>3, <2>4, LiveNext
  <1> QED BY <1>1, <1>3, <1>4, <1>5 DEF send

LEMMA CleanupNext ==
    ASSUME Inv, Cleanup
    PROVE  Inv'
  <1> DEFINE c == Delete(h)
  <1>0. Fits(h) /\ Conserved(h, accepted) /\ h.retries = {} /\ h.conn # None
    BY DEF Inv, Cleanup
  <1>1. /\ Fits(c) /\ Conserved(c, accepted) /\ c.retries = {} /\ c.conn = None /\ Resting(c)
        /\ ToSet(c.waitingQueue) \subseteq accepted \ c.freed
        /\ c.kept => ToSet(c.waitingQueue) = accepted \ c.freed
    BY <1>0, DeleteKeeps
  <1>2. h' = [c EXCEPT !.waitingQueue = <<>>, !.freed = @ \cup ToSet(c.waitingQueue)]
        /\ accepted' = accepted
    BY DEF Cleanup
  <1> HIDE DEF c
  <1>3. c \in Connection /\ <<>> \in Queue /\ <<>> \o <<>> = <<>> /\ One(None) = <<>>
        /\ ToSet(<<>>) = {} /\ IsInjective(<<>>)
    BY <1>1, EmptyQueue, Concat, OneFacts DEF Fits, Pointer
  <1>4. /\ c.freed \cup ToSet(c.waitingQueue) \subseteq accepted /\ accepted \subseteq Requests
        /\ c.kept => c.freed \cup ToSet(c.waitingQueue) = accepted
    BY <1>1 DEF Conserved
  <1>5. /\ h'.waitingQueue = <<>> /\ h'.executionQueue = c.executionQueue
        /\ h'.incomingRequest = c.incomingRequest /\ h'.outgoingRequest = c.outgoingRequest
        /\ h'.state = c.state /\ h'.stream = c.stream /\ h'.conn = c.conn
        /\ h'.sent = c.sent /\ h'.wire = c.wire
        /\ h'.retries = c.retries /\ h'.freed = c.freed \cup ToSet(c.waitingQueue)
        /\ h'.kept = c.kept /\ h' \in Connection
    BY <1>2, <1>3, <1>4 DEF Connection
  <1>6. Held(h') = <<>>
    BY <1>1, <1>3, <1>5 DEF Held, Answering, Resting
  <1>7. Conserved(h', accepted')
    BY <1>2, <1>3, <1>4, <1>5, <1>6 DEF Conserved
  <1>8. Resting(h')
    BY <1>1, <1>5 DEF Resting
  <1>9. Fits(h')
    <2>1. Len(<<>>) = 0 /\ 0 <= PoolSize
      BY EmptyQueue, PoolAssumption
    <2>2. Len(<<>>) <= PoolSize
      BY <2>1, Zenon
    <2>3. Len(c.executionQueue) <= PoolSize
      BY <1>1 DEF Fits
    <2> QED BY <1>5, <2>2, <2>3 DEF Fits
  <1> QED BY <1>1, <1>5, <1>7, <1>8, <1>9, RestNext

\* The connection established, and what was sent acknowledged.
established(c) == [c EXCEPT !.conn = "connected"]
acknowledged(c) == [c EXCEPT !.wire = c.wire \o c.sent, !.sent = <<>>]

LEMMA EstablishedWired ==
    ASSUME NEW c, NEW acc, Live(c, acc)
    PROVE  LET d == established(c)
           IN  Fits(d) /\ Wired(d) /\ Conserved(d, acc) /\ d.retries = {} /\ d.conn = "connected"
  <1> DEFINE d == established(c)
  <1>0. c \in Connection
    BY DEF Live, Fits
  <1>1. /\ d.waitingQueue = c.waitingQueue /\ d.executionQueue = c.executionQueue
        /\ d.incomingRequest = c.incomingRequest /\ d.outgoingRequest = c.outgoingRequest
        /\ d.state = c.state /\ d.stream = c.stream /\ d.conn = "connected"
        /\ d.sent = c.sent /\ d.wire = c.wire /\ d.bodies = c.bodies
        /\ d.retries = c.retries /\ d.freed = c.freed /\ d.kept = c.kept /\ d \in Connection
    BY <1>0 DEF established, Connection
  <1> HIDE DEF d
  <1>2. Answering(d) = Answering(c) /\ Held(d) = Held(c) /\ (Writing(d) <=> Writing(c))
    BY <1>1 DEF Held, Answering, Writing
  <1>3. Wired(d)
    BY <1>1, <1>2 DEF Live, Wired, Executing
  <1>4. Fits(d) /\ Conserved(d, acc) /\ d.retries = {}
    BY <1>1, <1>2 DEF Live, Fits, Conserved
  <1> QED BY <1>1, <1>3, <1>4 DEF d

LEMMA AcknowledgedWired ==
    ASSUME NEW c, NEW acc, Live(c, acc)
    PROVE  LET d == acknowledged(c)
           IN  Fits(d) /\ Wired(d) /\ Conserved(d, acc) /\ d.retries = {} /\ d.conn = c.conn
  <1> DEFINE d == acknowledged(c)
             w == IF Writing(c) THEN <<c.outgoingRequest>> ELSE <<>>
  <1>0. /\ c \in Connection /\ c.wire \in Queue /\ c.sent \in Queue /\ <<>> \in Queue
        /\ c.wire \o c.sent \in Queue /\ (c.wire \o c.sent) \o <<>> = c.wire \o c.sent
        /\ c.wire # <<>> => c.wire \o c.sent # <<>>
    <2>1. c \in Connection /\ c.wire \in Queue /\ c.sent \in Queue
      BY Fields DEF Live, Fits
    <2>2. c.wire \o c.sent \in Queue /\ (c.wire # <<>> => c.wire \o c.sent # <<>>)
      BY <2>1, Concat
    <2> QED BY <2>1, <2>2, EmptyQueue, Concat
  <1>1. /\ d.waitingQueue = c.waitingQueue /\ d.executionQueue = c.executionQueue
        /\ d.incomingRequest = c.incomingRequest /\ d.outgoingRequest = c.outgoingRequest
        /\ d.state = c.state /\ d.stream = c.stream /\ d.conn = c.conn
        /\ d.sent = <<>> /\ d.wire = c.wire \o c.sent /\ d.bodies = c.bodies
        /\ d.retries = c.retries /\ d.freed = c.freed /\ d.kept = c.kept /\ d \in Connection
    BY <1>0 DEF acknowledged, Connection
  <1> HIDE DEF d
  <1>2. Answering(d) = Answering(c) /\ Held(d) = Held(c) /\ (Writing(d) <=> Writing(c))
    BY <1>1 DEF Held, Answering, Writing
  <1>3. d.wire \o d.sent = c.wire \o c.sent /\ (c.wire # <<>> => d.wire # <<>>)
    BY <1>0, <1>1
  <1>4. Wired(d)
    BY <1>1, <1>2, <1>3 DEF Live, Wired, Executing
  <1>5. Fits(d) /\ Conserved(d, acc) /\ d.retries = {}
    BY <1>1, <1>2 DEF Live, Fits, Conserved
  <1> QED BY <1>1, <1>4, <1>5 DEF d

LEMMA TrafficNext ==
    ASSUME Inv, NEW all \in BOOLEAN, NEW room \in Rooms, NEW two \in BOOLEAN,
           onConnected(all) \/ onSent(all) \/ onPoll(room) \/ onReceive(two, room)
    PROVE  Inv'
  <1>0. Live(h, accepted) /\ accepted' = accepted /\ h \in Connection
    <2>1. Used(h) /\ accepted' = accepted
      BY DEF onConnected, onSent, onPoll, onReceive, Used
    <2> QED BY <2>1, LiveInv DEF Inv, Fits
  <1>1. ASSUME NEW c, Fits(c), Wired(c), Conserved(c, accepted), c.retries = {},
               c.conn = "connected", h' = onReadyToSendData(c, all)
        PROVE  Inv'
    <2>1. Sends(c, h') /\ Settled(h')
      BY <1>1, ReadySends
    <2>2. Live(h', accepted')
      BY <1>0, <1>1, <2>1, SendsConserves
    <2>3. h'.conn = "connected"
      BY <1>1, <2>1 DEF Sends
    <2> QED BY <2>2, <2>3, LiveNext
  <1>2. ASSUME NEW c, Live(c, accepted), c.conn = "connected", h' = mayReadyToSend(c, room)
        PROVE  Inv'
    <2>1. Sends(c, h') /\ Settled(h')
      BY <1>2, MaySends DEF Live
    <2>2. Live(h', accepted')
      BY <1>0, <1>2, <2>1, SendsConserves DEF Live
    <2>3. h'.conn = "connected"
      BY <1>2, <2>1 DEF Sends
    <2> QED BY <2>2, <2>3, LiveNext
  <1>3. CASE onConnected(all)
    <2>1. h' = onReadyToSendData(established(h), all)
      BY <1>3 DEF onConnected, established
    <2> DEFINE c == established(h)
    <2>2. Fits(c) /\ Wired(c) /\ Conserved(c, accepted) /\ c.retries = {} /\ c.conn = "connected"
      BY <1>0, EstablishedWired
    <2> HIDE DEF c
    <2>3. h' = onReadyToSendData(c, all)
      BY <2>1 DEF c
    <2> QED BY <1>1, <2>2, <2>3
  <1>4. CASE onSent(all)
    <2> DEFINE c == acknowledged(h)
    <2>1. c = [h EXCEPT !.wire = @ \o h.sent, !.sent = <<>>]
      BY <1>0 DEF acknowledged, Connection
    <2>2. Fits(c) /\ Wired(c) /\ Conserved(c, accepted) /\ c.retries = {} /\ c.conn = "connected"
      BY <1>0, <1>4, AcknowledgedWired DEF onSent
    <2> HIDE DEF c
    <2>3. h' = onReadyToSendData(c, all)
      BY <1>4, <2>1 DEF onSent
    <2> QED BY <1>1, <2>2, <2>3
  <1>5. CASE onPoll(room)
    BY <1>0, <1>2, <1>5 DEF onPoll
  <1>6. CASE onReceive(two, room)
    <2> DEFINE a == (room = "all")
               once == parse(h, a)
               twice == parse(once, a)
    <2>0. a \in BOOLEAN
      OBVIOUS
    <2> HIDE DEF a
    <2>1. Live(once, accepted) /\ once.conn = "connected"
      BY <1>0, <1>6, <2>0, ParseKeeps DEF onReceive
    <2>2. h' = mayReadyToSend(IF two /\ Parsable(once) THEN twice ELSE once, room)
      BY <1>6 DEF onReceive, Parsed, a
    <2> HIDE DEF once
    <2>3. Parsable(once) => Live(twice, accepted) /\ twice.conn = "connected"
      BY <2>0, <2>1, ParseKeeps
    <2> HIDE DEF twice
    <2>4. CASE two /\ Parsable(once)
      BY <1>2, <2>2, <2>3, <2>4
    <2>5. CASE ~(two /\ Parsable(once))
      BY <1>2, <2>1, <2>2, <2>5
    <2> QED BY <2>4, <2>5
  <1> QED BY <1>3, <1>4, <1>5, <1>6

LEMMA LossNext ==
    ASSUME Inv, onError \/ close
    PROVE  Inv'
  <1>0. /\ Fits(h) /\ Conserved(h, accepted) /\ h.retries = {} /\ accepted' = accepted
    BY DEF Inv, onError, close
  <1> DEFINE c == cleanup(h)
  <1>1. CASE onError
    <2>1. Fits(c) /\ Conserved(c, accepted) /\ c.retries = {}
      BY <1>0, CleanupKeeps
    <2>2. h' = down(c)
      BY <1>1 DEF onError
    <2> HIDE DEF c
    <2>3. Fits(h') /\ Conserved(h', accepted) /\ h'.retries = {} /\ h'.conn = "down" /\ Resting(h')
      BY <2>1, <2>2, DownKeeps
    <2> QED BY <1>0, <2>3, RestNext
  <1>2. CASE close
    <2>1. h' = down(h)
      BY <1>2 DEF close
    <2>2. Fits(h') /\ Conserved(h', accepted) /\ h'.retries = {} /\ h'.conn = "down" /\ Resting(h')
      BY <1>0, <2>1, DownKeeps
    <2> QED BY <1>0, <2>2, RestNext
  <1> QED BY <1>1, <1>2

\* A buffer refused: what the parser did with it before stays done.
LEMMA RefusedNext ==
    ASSUME Inv, NEW two \in BOOLEAN, NEW all \in BOOLEAN, onReceiveRefused(two, all)
    PROVE  Inv'
  <1> DEFINE once == parse(h, all)
             p == Parsed(two, all)
  <1>0. Live(h, accepted) /\ Parsable(h) /\ accepted' = accepted /\ h' = down(p)
    BY LiveInv DEF onReceiveRefused, Used
  <1>1. Live(once, accepted)
    BY <1>0, ParseKeeps
  <1>2. p = IF two /\ Parsable(once) THEN parse(once, all) ELSE once
    BY DEF Parsed
  <1> HIDE DEF once, p
  <1>3. Live(p, accepted)
    BY <1>1, <1>2, ParseKeeps
  <1>4. Fits(h') /\ Conserved(h', accepted) /\ h'.retries = {} /\ h'.conn = "down" /\ Resting(h')
    BY <1>0, <1>3, DownKeeps DEF Live
  <1> QED BY <1>0, <1>4, RestNext

LEMMA InvNext == Inv /\ [Next]_vars => Inv'
  <1> SUFFICES ASSUME Inv, [Next]_vars PROVE Inv'
    OBVIOUS
  <1>1. CASE UNCHANGED vars
    BY <1>1 DEF vars, Inv, Fits, Conserved, Used, Wired, Settled, Resting, Held, Answering,
                Writing, Executing
  <1>2. ASSUME NEW r \in Requests, send(r) PROVE Inv'
    BY <1>2, SendNext
  <1>3. CASE Cleanup
    BY <1>3, CleanupNext
  <1>4. ASSUME NEW all \in BOOLEAN, onConnected(all) \/ onSent(all) PROVE Inv'
    <2>1. "none" \in Rooms /\ TRUE \in BOOLEAN
      BY DEF Rooms
    <2> QED BY <1>4, <2>1, TrafficNext
  <1>5. ASSUME NEW room \in Rooms, NEW two \in BOOLEAN, onPoll(room) \/ onReceive(two, room)
        PROVE  Inv'
    <2>1. TRUE \in BOOLEAN
      OBVIOUS
    <2> QED BY <1>5, <2>1, TrafficNext
  <1>6. CASE onError \/ close
    BY <1>6, LossNext
  <1>7. TRUE \in BOOLEAN
    OBVIOUS
  <1>8. ASSUME NEW two \in BOOLEAN, NEW all \in BOOLEAN, onReceiveRefused(two, all) PROVE Inv'
    BY <1>8, RefusedNext
  <1> QED BY <1>1, <1>2, <1>3, <1>4, <1>5, <1>6, <1>7, <1>8 DEF Next

LEMMA Invariance == ASSUME NoRetries PROVE Spec => []Inv
  <1>1. Init => Inv
    BY InvInit
  <1>2. Inv /\ [Next]_vars => Inv'
    BY InvNext
  <1> QED BY <1>1, <1>2, PTL DEF Spec

-----------------------------------------------------------------------------
(* The theorems *)

\* The queues hold requests and stay within HTTP_REQUEST_POOL_SIZE; only what send()
\* was given is ever deleted.
THEOREM TypeCorrect == ASSUME NoRetries PROVE Spec => []TypeOK
  <1>1. Inv => TypeOK
    <2> SUFFICES ASSUME Inv PROVE TypeOK
      OBVIOUS
    <2>1. h \in Connection
      BY DEF Inv, Fits
    <2>2. /\ accepted \subseteq Requests /\ h.freed \subseteq accepted
          /\ Len(h.waitingQueue) <= PoolSize /\ Len(h.executionQueue) <= PoolSize
      BY DEF Inv, Fits, Conserved
    <2> QED BY <2>1, <2>2, Fields DEF TypeOK, Queue, Pointer
  <1> QED BY <1>1, Invariance, PTL

\* Whatever is lost, replaced or answered, and however many requests a lost connection
\* has executed: none is held twice and none that is deleted is held; and every one that
\* send() took is still held or was deleted, unless cleanup() had more to move back than
\* it can (send, cleanup, onMessageBegin, staticOnMessageComplete).
THEOREM ConservedAlways == ASSUME NoRetries PROVE Spec => []RequestsConserved
  <1>1. Held(h) = held
    BY DEF Held, Answering, One, held, answering
  <1>2. Inv => RequestsConserved
    BY <1>1 DEF Inv, Conserved, RequestsConserved
  <1> QED BY <1>2, Invariance, PTL

\* Responses are given to the requests they answer, however sends, acknowledgements and
\* buffers interleave (onReadyToSendData, onMessageBegin).
THEOREM MatchedAlways == ASSUME NoRetries PROVE Spec => []ResponseMatches
  <1>1. Inv => ResponseMatches
    <2> SUFFICES ASSUME Inv, h.conn = "connected"
                 PROVE  /\ IsPrefix(h.wire \o h.sent, answering)
                        /\ Len(answering) <= Len(h.wire) + Len(h.sent) + 1
      BY DEF ResponseMatches
    <2> DEFINE w == IF Writing(h) THEN <<h.outgoingRequest>> ELSE <<>>
               s == h.wire \o h.sent
    <2>0. h \in Connection /\ h.wire \in Queue /\ h.sent \in Queue /\ Wired(h)
      BY Fields DEF Inv, Fits, Used
    <2>1. answering = s \o w
      BY <2>0 DEF Wired, Answering, One, answering
    <2>2. w \in Queue /\ Len(w) \in {0, 1}
      <3>1. Writing(h) => h.outgoingRequest \in Requests
        BY <2>0, Fields DEF Wired
      <3>2. CASE Writing(h)
        BY <3>1, <3>2, Single
      <3>3. CASE ~Writing(h)
        BY <3>3, EmptyQueue
      <3> QED BY <3>2, <3>3
    <2>3. s \in Queue /\ Len(s) = Len(h.wire) + Len(h.sent)
      BY <2>0, Concat
    <2> HIDE DEF w, s
    <2>4. Len(s \o w) = Len(s) + Len(w) /\ Len(s) \in Nat /\ s \o w \in Queue
      BY <2>2, <2>3, Concat, QueueFacts
    <2>5. Len(s) <= Len(s \o w) /\ Len(s \o w) <= Len(s) + 1
      <3>1. \A i \in Nat : i <= i + 0 /\ i + 0 <= i + 1 /\ i <= i + 1 /\ i + 1 <= i + 1
        OBVIOUS
      <3>2. CASE Len(w) = 0
        <4>1. Len(s \o w) = Len(s) + 0
          BY <2>4, <3>2
        <4> QED BY <2>4, <3>1, <4>1, Zenon
      <3>3. CASE Len(w) = 1
        <4>1. Len(s \o w) = Len(s) + 1
          BY <2>4, <3>3
        <4> QED BY <2>4, <3>1, <4>1, Zenon
      <3> QED BY <2>2, <3>2, <3>3
    <2>6. SubSeq(s, 1, Len(s)) = SubSeq(s \o w, 1, Len(s))
      <3>1. s \in Seq(Requests) /\ w \in Seq(Requests)
        BY <2>2, <2>3 DEF Queue
      <3>2. SubSeq(s \o w, 1, Len(s)) = s
        BY <3>1, SubSeqOfConcat1
      <3>3. SubSeq(s, 1, Len(s)) = s
        BY <3>1, SubSeqFull
      <3> QED BY <3>2, <3>3
    <2>7. IsPrefix(s, s \o w)
      BY <2>5, <2>6 DEF IsPrefix
    <2> QED BY <2>1, <2>3, <2>5, <2>7 DEF s
  <1> QED BY <1>1, Invariance, PTL

\* onReadyToSendData never follows outgoingRequest to a request that is deleted.
THEOREM OutgoingSafe == ASSUME NoRetries PROVE Spec => []OutgoingLive
  <1>1. Inv => OutgoingLive
    <2> SUFFICES ASSUME Inv, h.conn = "connected", Executing(h) \/ h.state = "SendingHeaders"
                 PROVE  h.outgoingRequest \notin h.freed
      BY DEF OutgoingLive
    <2> DEFINE o == h.outgoingRequest
               w == IF Writing(h) THEN <<o>> ELSE <<>>
               s == h.wire \o h.sent
               e == h.executionQueue
    <2>0. /\ h \in Connection /\ h.wire \in Queue /\ h.sent \in Queue /\ e \in Queue
          /\ h.waitingQueue \in Queue /\ Answering(h) \in Queue /\ h.freed \subseteq Requests
          /\ One(h.incomingRequest) \in Queue /\ Wired(h) /\ Settled(h)
      BY Fields, OneFacts DEF Inv, Fits, Used
    <2>1. /\ ToSet(Held(h)) = ToSet(Answering(h)) \cup ToSet(h.waitingQueue)
          /\ ToSet(Answering(h)) = ToSet(One(h.incomingRequest)) \cup ToSet(e)
      BY <2>0, ConcatSet DEF Held, Answering
    <2>2. ToSet(Held(h)) \cap h.freed = {}
      BY DEF Inv, Conserved
    <2>3. CASE o = None
      BY <2>0, <2>3, RequestsAssumption
    <2>4. CASE Executing(h) /\ o # None
      <3>1. o = Last(e) /\ e # <<>>
        BY <2>0, <2>4 DEF Wired, Executing
      <3>2. o \in ToSet(e)
        BY <2>0, <3>1, LastIn
      <3> QED BY <2>1, <2>2, <3>2
    <2>5. CASE h.state = "SendingHeaders" /\ o # None
      <3>1. s \in Queue /\ ToSet(s) = ToSet(h.wire) \cup ToSet(h.sent)
        BY <2>0, Concat, ConcatSet
      <3>2. <<o>> \in Queue /\ ToSet(<<o>>) = {o} /\ <<>> \in Queue /\ ToSet(<<>>) = {}
        BY <2>0, <2>5, Fields, Single, EmptyQueue
      <3>3. w \in Queue /\ Answering(h) = s \o w
        BY <2>0, <3>2 DEF Wired
      <3> HIDE DEF s
      <3>4. ToSet(s \o w) = ToSet(s) \cup ToSet(w)
        <4> HIDE DEF w
        <4> QED BY <3>1, <3>3, ConcatSet
      <3>5. CASE Writing(h)
        <4>1. o \in ToSet(w)
          BY <3>2, <3>5
        <4> HIDE DEF w
        <4> QED BY <2>1, <2>2, <3>3, <3>4, <4>1
      <3>6. CASE ~Writing(h)
        <4>1. o \in ToSet(h.sent)
          BY <2>0, <2>5, <3>6, LastIn DEF Settled
        <4> HIDE DEF w
        <4> QED BY <2>1, <2>2, <3>1, <3>3, <3>4, <4>1
      <3> QED BY <3>5, <3>6
    <2> QED BY <2>3, <2>4, <2>5
  <1> QED BY <1>1, Invariance, PTL

-----------------------------------------------------------------------------
(* When requests are deleted *)

\* On a connection in use, a request that send() took earlier is deleted only when it
\* is the oldest the server has all of: the one whose response is parsed, and not
\* one that is waiting, being written or not acknowledged (staticOnMessageComplete,
\* reset).
DeletedWhenServed ==
    [][Used(h) /\ Used(h') =>
         \A r \in h'.freed \ h.freed : r \in accepted => h.wire # <<>> /\ r = Head(h.wire)]_vars

\* The request being answered is the oldest the server has.
LEMMA IncomingIsHead ==
    ASSUME NEW c, NEW acc, Live(c, acc), c.incomingRequest # None
    PROVE  c.wire # <<>> /\ c.incomingRequest = Head(c.wire)
  <1> DEFINE r == c.incomingRequest
             w == IF Writing(c) THEN <<c.outgoingRequest>> ELSE <<>>
             x == c.sent \o w
  <1>0. /\ c.executionQueue \in Queue /\ r \in Requests /\ c.wire \in Queue /\ c.sent \in Queue
        /\ r \in Pointer
    BY Fields DEF Live, Fits
  <1>1. c.wire # <<>> /\ Answering(c) = (c.wire \o c.sent) \o w
    BY DEF Live, Wired
  <1>2. w \in Queue /\ <<r>> \in Queue
    <2>1. Writing(c) => c.outgoingRequest \in Requests
      BY Fields DEF Live, Wired, Fits
    <2>2. CASE Writing(c)
      BY <1>0, <2>1, <2>2, Single
    <2>3. CASE ~Writing(c)
      BY <1>0, <2>3, Single, EmptyQueue
    <2> QED BY <2>2, <2>3
  <1> HIDE DEF w
  <1>3. x \in Queue /\ <<r>> \o c.executionQueue = c.wire \o x
    <2>1. Answering(c) = <<r>> \o c.executionQueue
      BY <1>0, OneFacts DEF Answering
    <2>2. (c.wire \o c.sent) \o w = c.wire \o x
      BY <1>0, <1>2, Assoc
    <2> QED BY <1>0, <1>1, <1>2, <2>1, <2>2, Concat
  <1> HIDE DEF x
  <1>4. (<<r>> \o c.executionQueue)[1] = r
    BY <1>0, <1>2, ConcatProperties DEF Queue
  <1>5. (c.wire \o x)[1] = c.wire[1]
    <2>1. c.wire \in Seq(Requests) /\ x \in Seq(Requests) /\ Len(c.wire) \in Nat \ {0} /\ Len(x) \in Nat
      BY <1>0, <1>1, <1>3 DEF Queue
    <2>2. \A i \in 1..Len(c.wire) + Len(x) :
            (c.wire \o x)[i] = IF i <= Len(c.wire) THEN c.wire[i] ELSE x[i - Len(c.wire)]
      BY <2>1, ConcatProperties
    <2>3. 1 \in 1..Len(c.wire) + Len(x) /\ 1 <= Len(c.wire)
      BY <2>1
    <2> QED BY <2>2, <2>3
  <1> QED BY <1>0, <1>1, <1>3, <1>4, <1>5 DEF Queue

\* A callback of the parser deletes nothing and leaves the wire, or it deletes the
\* oldest request on the wire and leaves none being answered.
Frees(c, d) ==
    \/ d.freed = c.freed /\ d.wire = c.wire
    \/ /\ c.wire # <<>> /\ d.freed = c.freed \cup {Head(c.wire)}
       /\ c.incomingRequest # None /\ d.incomingRequest = None

LEMMA ParseFrees ==
    ASSUME NEW c, NEW acc, Live(c, acc), Parsable(c), NEW all \in BOOLEAN
    PROVE  /\ Frees(c, parse(c, all))
           /\ c.incomingRequest = None => parse(c, all).freed = c.freed
  <1>0. c \in Connection
    BY DEF Live, Fits
  <1>1. CASE c.incomingRequest = None
    <2>1. parse(c, all) = onMessageBegin(c)
      BY <1>1 DEF parse
    <2>2. onMessageBegin(c).freed = c.freed /\ onMessageBegin(c).wire = c.wire
      BY <1>0 DEF onMessageBegin, Connection
    <2> QED BY <2>1, <2>2 DEF Frees
  <1>2. CASE c.incomingRequest # None
    <2> DEFINE d == answered(c)
    <2>1. d.freed = c.freed \cup {c.incomingRequest} /\ d.incomingRequest = None
      BY <1>0 DEF answered, Connection
    <2>2. parse(c, all) = IF Executing(d) THEN d ELSE onReadyToSendData(d, all)
      <3>1. c.incomingRequest \notin c.retries
        BY DEF Live
      <3>2. d = [c EXCEPT !.incomingRequest = None, !.freed = @ \cup {c.incomingRequest},
                          !.wire = Tail(@)]
        BY <1>0 DEF answered, Connection
      <3> QED BY <1>2, <3>1, <3>2 DEF parse, onMessageComplete
    <2>3. Fits(d) /\ Wired(d)
      BY <1>2, AnsweredKeeps DEF Live
    <2> HIDE DEF d
    <2>4. Sends(d, onReadyToSendData(d, all))
      BY <2>3, ReadySends
    <2>5. parse(c, all).freed = d.freed /\ parse(c, all).incomingRequest = None
      BY <2>1, <2>2, <2>4 DEF Sends
    <2>6. c.wire # <<>> /\ c.incomingRequest = Head(c.wire)
      BY <1>2, IncomingIsHead
    <2> QED BY <1>2, <2>1, <2>5, <2>6 DEF Frees
  <1> QED BY <1>1, <1>2

\* Of the actions on a connection in use only onReceive deletes requests taken before.
LEMMA StepDeletes ==
    ASSUME Inv, [Next]_vars, Used(h), Used(h'), NEW r \in h'.freed \ h.freed, r \in accepted
    PROVE  h.wire # <<>> /\ r = Head(h.wire)
  <1>0. Live(h, accepted) /\ h \in Connection
    BY LiveInv DEF Inv, Fits
  <1>1. ASSUME NEW c, Fits(c), Wired(c), c.freed = h.freed, NEW all \in BOOLEAN,
               h' = onReadyToSendData(c, all)
        PROVE  FALSE
    BY <1>1, ReadySends DEF Sends
  <1>2. ASSUME NEW c, Live(c, accepted), NEW room \in Rooms, h' = mayReadyToSend(c, room)
        PROVE  h'.freed = c.freed
    BY <1>2, MaySends DEF Live, Sends
  <1>3. CASE UNCHANGED vars
    BY <1>3 DEF vars
  <1>4. ASSUME NEW s \in Requests, send(s) PROVE FALSE
    <2>1. s \notin accepted /\ h.conn \notin {None, "down"}
      BY <1>4 DEF send, Used, None
    <2>2. \/ h' = [h EXCEPT !.freed = @ \cup {s}]
          \/ h' = [h EXCEPT !.waitingQueue = Append(@, s)]
      BY <1>4, <2>1 DEF send
    <2>3. h'.freed \subseteq h.freed \cup {s}
      BY <1>0, <2>2 DEF Connection
    <2> QED BY <2>1, <2>3
  <1>5. CASE Cleanup
    <2>1. h'.conn = None
      BY <1>5 DEF Cleanup, Delete, NoConnection
    <2> QED BY <2>1 DEF Used, None
  <1>6. ASSUME NEW all \in BOOLEAN, onConnected(all) PROVE FALSE
    <2> DEFINE c == established(h)
    <2>1. h' = onReadyToSendData(c, all)
      BY <1>6 DEF onConnected, established
    <2>2. Fits(c) /\ Wired(c)
      BY <1>0, EstablishedWired
    <2>3. c.freed = h.freed
      BY <1>0 DEF established, Connection
    <2> HIDE DEF c
    <2> QED BY <1>1, <2>1, <2>2, <2>3
  <1>7. ASSUME NEW all \in BOOLEAN, onSent(all) PROVE FALSE
    <2> DEFINE c == acknowledged(h)
    <2>1. c = [h EXCEPT !.wire = @ \o h.sent, !.sent = <<>>]
      BY <1>0 DEF acknowledged, Connection
    <2>2. Fits(c) /\ Wired(c)
      BY <1>0, <1>7, AcknowledgedWired DEF onSent
    <2>3. c.freed = h.freed
      BY <1>0 DEF acknowledged, Connection
    <2> HIDE DEF c
    <2> QED BY <1>1, <1>7, <2>1, <2>2, <2>3 DEF onSent
  <1>8. ASSUME NEW room \in Rooms, onPoll(room) PROVE FALSE
    BY <1>0, <1>2, <1>8 DEF onPoll
  <1>9. ASSUME NEW room \in Rooms, NEW two \in BOOLEAN, onReceive(two, room)
        PROVE  h.wire # <<>> /\ r = Head(h.wire)
    <2> DEFINE a == (room = "all")
               once == parse(h, a)
               twice == parse(once, a)
    <2>0. a \in BOOLEAN
      OBVIOUS
    <2> HIDE DEF a
    <2>1. /\ Live(once, accepted) /\ Frees(h, once)
          /\ h.incomingRequest = None => once.freed = h.freed
      BY <1>0, <1>9, <2>0, ParseKeeps, ParseFrees DEF onReceive
    <2>2. h' = mayReadyToSend(IF two /\ Parsable(once) THEN twice ELSE once, room)
      BY <1>9 DEF onReceive, Parsed, a
    <2> HIDE DEF once
    <2>3. Parsable(once) => /\ Live(twice, accepted) /\ Frees(once, twice)
                            /\ once.incomingRequest = None => twice.freed = once.freed
      BY <2>0, <2>1, ParseKeeps, ParseFrees
    <2> HIDE DEF twice
    <2>4. CASE two /\ Parsable(once)
      <3>1. h'.freed = twice.freed
        BY <1>2, <2>2, <2>3, <2>4
      <3> QED BY <2>1, <2>3, <2>4, <3>1 DEF Frees
    <2>5. CASE ~(two /\ Parsable(once))
      <3>1. h'.freed = once.freed
        BY <1>2, <2>1, <2>2, <2>5
      <3> QED BY <2>1, <3>1 DEF Frees
    <2> QED BY <2>4, <2>5
  <1>10. CASE onError \/ close
    <2>1. h'.conn = "down"
      <3>1. cleanup(h) \in Connection
        BY <1>0, <1>10, CleanupKeeps DEF onError, close, Live, Fits
      <3> QED BY <1>0, <1>10, <3>1 DEF onError, close, down, Connection
    <2> QED BY <2>1 DEF Used
  <1>11. ASSUME NEW two \in BOOLEAN, NEW all \in BOOLEAN, onReceiveRefused(two, all) PROVE FALSE
    <2>1. Inv' /\ h' = down(Parsed(two, all))
      BY <1>11, RefusedNext DEF onReceiveRefused
    <2> DEFINE p == Parsed(two, all)
    <2> HIDE DEF p
    <2>2. Live(h, accepted) /\ Parsable(h)
      BY <1>0, <1>11 DEF onReceiveRefused
    <2>3. parse(h, all) \in Connection /\ Live(parse(h, all), accepted)
      BY <2>2, ParseKeeps DEF Live, Fits
    <2>4. p \in Connection
      BY <2>3, ParseKeeps DEF p, Parsed, Live, Fits
    <2>5. h'.conn = "down"
      BY <2>1, <2>4 DEF down, Connection, p
    <2> QED BY <2>5 DEF Used
  <1> QED BY <1>3, <1>4, <1>5, <1>6, <1>7, <1>8, <1>9, <1>10, <1>11 DEF Next

\* No response deletes another request than the one the server has answered,
\* and nothing else deletes requests while the connection is up (onMessageBegin,
\* staticOnMessageComplete, HttpConnection::reset).
THEOREM OnlyServedDeleted == ASSUME NoRetries PROVE Spec => DeletedWhenServed
  <1>1. Spec => []Inv
    BY Invariance
  <1>2. ASSUME Inv, [Next]_vars
        PROVE  Used(h) /\ Used(h') =>
                 \A r \in h'.freed \ h.freed : r \in accepted => h.wire # <<>> /\ r = Head(h.wire)
    BY <1>2, StepDeletes
  <1> QED BY <1>1, <1>2, PTL DEF Spec, DeletedWhenServed
=============================================================================
