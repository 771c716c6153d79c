-------------------------- MODULE TaskQueueProofs ---------------------------
(***************************************************************************)
(* Proofs about TaskQueue, for any length of the queue, any range of the   *)
(* counters and any number of posts.                                       *)
(***************************************************************************)
EXTENDS TaskQueue, TLAPS

\* A callback is on the count but not on the queue: it is about to be posted, or
\* it has been taken off the queue.
Pending == pc \in {"q_max", "q_post", "h_old", "h_load", "h_store"}

Count == Len(taskQueue) + refused + (IF Pending THEN 1 ELSE 0)

\* What task context knows of taskCount between two accesses to it.
CountKept ==
    /\ pc \notin {"h_again", "h_store_again"}
    /\ taskCount = Count
    /\ pc = "q_store" => reg = taskCount
    /\ pc \in {"h_load", "h_store"} => oldCount = taskCount
    /\ pc = "h_store" => reg = taskCount
    /\ pc = "h_check" => oldCount = taskCount + 1

\* maxTaskCount is behind taskCount only where it is about to be raised, and
\* above the length of the queue only once a post was refused or is about to be.
MaxKept ==
    /\ IF pc = "q_max" THEN maxTaskCount <= taskCount ELSE maxTaskCount >= taskCount
    /\ refused > 0 => maxTaskCount > QueueLength
    /\ maxTaskCount > QueueLength /\ refused = 0 =>
         pc \in {"q_max", "q_post"} /\ Len(taskQueue) = QueueLength

CountInv ==
    /\ TypeOK
    /\ pc = "boot" => taskQueue = <<>>
    /\ ~disturbed /\ NoWrap => CountKept /\ MaxKept

\* Each ready handler has one callback, which is being posted, queued, being run or
\* was refused.
ReadyInv ==
    /\ TypeOK
    /\ \A i \in 1..Len(taskQueue) : taskQueue[i].kind = "ready" => taskQueue[i].n \in handlers
    /\ \A i, j \in 1..Len(taskQueue) :
         i # j /\ taskQueue[i].kind = "ready" => taskQueue[i] # taskQueue[j]
    /\ event.kind = "ready" =>
         event.n \in handlers /\ \A i \in 1..Len(taskQueue) : taskQueue[i] # event
    /\ \A c \in ran : c.kind = "ready" => c.n \notin handlers /\ c.n <= posted

-----------------------------------------------------------------------------
(* Type correctness *)

LEMMA ByteType == \A n \in Int : Byte(n) \in Counts
  BY QueueAssumption DEF Byte, Counts

\* As long as it does not wrap around, the counter counts.
LEMMA ByteSmall == \A n \in Counts : Byte(n) = n
  BY QueueAssumption DEF Byte, Counts

LEMMA NoCallbackType == NoCallback \in Callbacks
  BY DEF NoCallback, Callback, Callbacks

LEMMA InitTypeOK == Init => TypeOK
<1> SUFFICES ASSUME Init PROVE TypeOK
  OBVIOUS
<1>1. 0 \in Counts /\ 0 \in 0..MaxPosts /\ 0 \in 0..MaxIsrPosts
  BY QueueAssumption, PostsAssumption DEF Counts
<1>2. taskQueue \in Seq(Callbacks) /\ Len(taskQueue) <= QueueLength
  BY QueueAssumption DEF Init
<1>3. event \in Callbacks /\ ran \subseteq Callbacks
  BY NoCallbackType DEF Init
<1> QED
  BY <1>1, <1>2, <1>3 DEF Init, TypeOK

\* system_os_post: the queue keeps within its length, by refusing.
LEMMA PostType ==
    ASSUME TypeOK, NEW c \in Callbacks, system_os_post(c)
    PROVE  /\ taskQueue' \in Seq(Callbacks) /\ Len(taskQueue') <= QueueLength
           /\ refused' \in Nat
  BY QueueAssumption, SMTT(30) DEF TypeOK, system_os_post, QueueFull

LEMMA NextTypeOK == TypeOK /\ [Next]_vars => TypeOK'
<1> SUFFICES ASSUME TypeOK, [Next]_vars PROVE TypeOK'
  OBVIOUS
<1> USE QueueAssumption, PostsAssumption DEF Goto, counters, history
<1>1. CASE initialize
  BY <1>1 DEF initialize, TypeOK
<1>2. CASE CountLoad \/ HandlerLoad
  BY <1>2 DEF CountLoad, HandlerLoad, TypeOK
<1>3. CASE CountStore
  <2>1. taskCount' \in Counts
    BY <1>3, ByteType DEF CountStore, TypeOK, Counts
  <2> QED
    BY <1>3, <2>1 DEF CountStore, TypeOK
<1>4. CASE CountMax \/ HandlerOld \/ HandlerCheck \/ Return
  BY <1>4 DEF CountMax, HandlerOld, HandlerCheck, Return, TypeOK
<1>5. CASE Post
  <2>1. /\ taskQueue' \in Seq(Callbacks) /\ Len(taskQueue') <= QueueLength
        /\ refused' \in Nat
    BY <1>5, PostType DEF Post, TypeOK
  <2> QED
    BY <1>5, <2>1, NoCallbackType DEF Post, TypeOK
<1>6. CASE Dispatch
  <2>1. event' \in Callbacks /\ taskQueue' \in Seq(Callbacks) /\ Len(taskQueue') <= QueueLength
    BY <1>6 DEF Dispatch, TypeOK
  <2> QED
    BY <1>6, <2>1 DEF Dispatch, TypeOK
<1>7. CASE HandlerStore
  <2>1. taskCount' \in Counts
    BY <1>7, ByteType DEF HandlerStore, TypeOK, Counts
  <2> QED
    BY <1>7, <2>1 DEF HandlerStore, TypeOK
<1>8. CASE Run
  <2>1. handlers' \subseteq 1..posted /\ state' \in {"eSS_None", "eSS_Intializing", "eSS_Ready"}
    BY <1>8 DEF Run, TypeOK
  <2>2. ran' \subseteq Callbacks
    BY <1>8 DEF Run, TypeOK
  <2> QED
    BY <1>8, <2>1, <2>2, NoCallbackType DEF Run, TypeOK
<1>9. CASE queueCallback \/ onReady \/ onReadyObject
  <2>1. event' \in Callbacks
    BY <1>9 DEF queueCallback, onReady, onReadyObject, Callback, Callbacks, TypeOK
  <2>2. posted' \in 0..MaxPosts /\ handlers' \subseteq 1..posted'
    <3>1. posted \in Nat /\ posted' = posted + 1 /\ posted' \in 0..MaxPosts
      BY <1>9 DEF queueCallback, onReady, onReadyObject, TypeOK
    <3>2. handlers \subseteq 1..posted /\ handlers' \subseteq handlers \cup {posted'}
      BY <1>9 DEF queueCallback, onReady, onReadyObject, TypeOK
    <3> QED
      BY <3>1, <3>2
  <2> QED
    BY <1>9, <2>1, <2>2 DEF queueCallback, onReady, onReadyObject, TypeOK
<1>10. CASE IsrQueueCallback
  <2>1. Callback("isr", isrPosted + 1) \in Callbacks
    BY DEF TypeOK, Callback, Callbacks
  <2>2. /\ taskQueue' \in Seq(Callbacks) /\ Len(taskQueue') <= QueueLength
        /\ refused' \in Nat
    BY <1>10, <2>1, PostType DEF IsrQueueCallback
  <2>3. taskCount' \in Counts /\ maxTaskCount' \in Counts
    <3>1. taskCount' \in Counts
      BY <1>10, ByteType DEF IsrQueueCallback, TypeOK, Counts
    <3> QED
      BY <1>10, <3>1 DEF IsrQueueCallback, TypeOK
  <2>4. disturbed' \in BOOLEAN /\ isrPosted' \in 0..MaxIsrPosts
    BY <1>10 DEF IsrQueueCallback, TypeOK, Adjusting
  <2> QED
    BY <1>10, <2>2, <2>3, <2>4 DEF IsrQueueCallback, TypeOK
<1>11. CASE UNCHANGED vars
  BY <1>11 DEF vars, TypeOK
<1> QED
  BY <1>1, <1>2, <1>3, <1>4, <1>5, <1>6, <1>7, <1>8, <1>9, <1>10, <1>11 DEF Next, TaskStep

-----------------------------------------------------------------------------
(* The counters *)

\* Posts that are refused are counted in refused, the others on the queue.
LEMMA PostCounts ==
    ASSUME TypeOK, NEW c \in Callbacks, system_os_post(c)
    PROVE  /\ Len(taskQueue') + refused' = Len(taskQueue) + refused + 1
           /\ \/ Len(taskQueue) = QueueLength /\ Len(taskQueue') = QueueLength
                 /\ refused' = refused + 1
              \/ Len(taskQueue') = Len(taskQueue) + 1 /\ refused' = refused
  BY DEF TypeOK, system_os_post, QueueFull

LEMMA InitCount == Init => CountInv
  BY InitTypeOK, QueueAssumption
  DEF Init, CountInv, CountKept, MaxKept, Count, Pending

LEMMA NextCount == CountInv /\ [Next]_vars => CountInv'
<1> SUFFICES ASSUME CountInv, [Next]_vars PROVE CountInv'
  OBVIOUS
<1>0. TypeOK /\ TypeOK'
  BY NextTypeOK DEF CountInv
<1>1. (pc = "boot" => taskQueue = <<>>)'
  BY DEF CountInv, Next, TaskStep, vars, initialize, CountLoad, CountStore, CountMax, Post,
     Dispatch, HandlerOld, HandlerLoad, HandlerStore, HandlerCheck, Run, Return, queueCallback,
     onReady, onReadyObject, IsrQueueCallback, Goto
<1>2. disturbed => disturbed'
  BY DEF Next, TaskStep, vars, initialize, CountLoad, CountStore, CountMax, Post,
     Dispatch, HandlerOld, HandlerLoad, HandlerStore, HandlerCheck, Run, Return, queueCallback,
     onReady, onReadyObject, IsrQueueCallback, history
<1>3. refused <= refused'
  BY <1>0 DEF TypeOK, Next, TaskStep, vars, initialize, CountLoad, CountStore, CountMax, Post,
     Dispatch, HandlerOld, HandlerLoad, HandlerStore, HandlerCheck, Run, Return, queueCallback,
     onReady, onReadyObject, IsrQueueCallback, history, system_os_post
<1>4. SUFFICES ASSUME ~disturbed', NoWrap' PROVE (CountKept /\ MaxKept)'
  BY <1>0, <1>1 DEF CountInv
<1>5. /\ refused \in Nat /\ refused' \in Nat /\ QueueLength \in Nat /\ CountRange \in Nat
      /\ Len(taskQueue) \in Nat /\ Len(taskQueue) <= QueueLength
      /\ Len(taskQueue') \in Nat /\ Len(taskQueue') <= QueueLength
  BY <1>0, QueueAssumption DEF TypeOK
<1>6. QueueLength + refused' + 1 < CountRange
  <2>1. NoWrap'
    BY <1>4
  <2> QED
    BY <2>1 DEF NoWrap
<1>7. NoWrap
  <2>1. \A q, r, rr, n \in Nat : r <= rr /\ q + rr + 1 < n => q + r + 1 < n
    OBVIOUS
  <2> QED
    BY <1>3, <1>5, <1>6, <2>1 DEF NoWrap
<1>8. CountKept /\ MaxKept
  BY <1>2, <1>4, <1>7 DEF CountInv
<1>9. taskCount \in Nat /\ maxTaskCount \in Nat /\ taskCount' \in Nat /\ maxTaskCount' \in Nat
  BY <1>0, QueueAssumption DEF TypeOK, Counts
<1> USE DEF Goto, counters, history
<1>10. CASE initialize
  BY <1>8, <1>10 DEF CountInv, initialize, CountKept, MaxKept, Count, Pending
<1>11. CASE CountLoad \/ HandlerOld \/ queueCallback \/ onReady \/ onReadyObject \/ Return \/ Run
  BY <1>8, <1>11 DEF CountLoad, HandlerOld, queueCallback, onReady, onReadyObject, Return, Run, CountKept, MaxKept,
     Count, Pending
<1>12. CASE HandlerLoad
  BY <1>8, <1>12 DEF HandlerLoad, CountKept, MaxKept, Count, Pending
<1>13. CASE CountStore
  <2>1. /\ taskCount' = taskCount + 1 /\ taskCount = Len(taskQueue) + refused
        /\ maxTaskCount >= taskCount
    BY <1>5, <1>6, <1>8, <1>13, ByteSmall DEF CountStore, CountKept, MaxKept, Count, Pending, Counts
  <2>2. CASE taskCount' > maxTaskCount
    BY <2>1, <2>2, <1>5, <1>8, <1>9, <1>13
    DEF CountStore, CountKept, MaxKept, Count, Pending
  <2>3. CASE ~(taskCount' > maxTaskCount)
    BY <2>1, <2>3, <1>5, <1>8, <1>9, <1>13
    DEF CountStore, CountKept, MaxKept, Count, Pending
  <2> QED
    BY <2>2, <2>3
<1>14. CASE CountMax
  BY <1>5, <1>8, <1>9, <1>14 DEF CountMax, CountKept, MaxKept, Count, Pending
<1>15. CASE Post
  <2>1. /\ Len(taskQueue') + refused' = Len(taskQueue) + refused + 1
        /\ \/ Len(taskQueue) = QueueLength /\ Len(taskQueue') = QueueLength
              /\ refused' = refused + 1
           \/ Len(taskQueue') = Len(taskQueue) + 1 /\ refused' = refused
    BY <1>0, <1>15, PostCounts DEF Post, TypeOK
  <2> QED
    BY <2>1, <1>5, <1>8, <1>9, <1>15 DEF Post, CountKept, MaxKept, Count, Pending
<1>16. CASE Dispatch
  <2>1. Len(taskQueue') = Len(taskQueue) - 1
    BY <1>0, <1>16 DEF Dispatch, TypeOK
  <2> QED
    BY <2>1, <1>5, <1>8, <1>9, <1>16 DEF Dispatch, CountKept, MaxKept, Count, Pending
<1>17. CASE HandlerStore
  <2>1. taskCount' = taskCount - 1 /\ pc = "h_store" /\ taskCount = Len(taskQueue) + refused + 1
    BY <1>5, <1>6, <1>8, <1>17, ByteSmall DEF HandlerStore, CountKept, Count, Pending, Counts
  <2> QED
    BY <2>1, <1>5, <1>8, <1>9, <1>17 DEF HandlerStore, CountKept, MaxKept, Count, Pending
<1>18. CASE HandlerCheck
  BY <1>5, <1>8, <1>9, <1>18 DEF HandlerCheck, CountKept, MaxKept, Count, Pending
<1>19. CASE IsrQueueCallback
  <2>1. Callback("isr", isrPosted + 1) \in Callbacks
    BY <1>0 DEF TypeOK, Callback, Callbacks
  <2>2. /\ Len(taskQueue') + refused' = Len(taskQueue) + refused + 1
        /\ \/ Len(taskQueue) = QueueLength /\ Len(taskQueue') = QueueLength
              /\ refused' = refused + 1
           \/ Len(taskQueue') = Len(taskQueue) + 1 /\ refused' = refused
    BY <1>0, <1>19, <2>1, PostCounts DEF IsrQueueCallback
  <2>3. ~Adjusting
    <3>1. disturbed' = (disturbed \/ Adjusting)
      BY <1>19 DEF IsrQueueCallback
    <3> QED
      BY <1>4, <3>1
  <2>4. pc' = pc /\ oldCount' = oldCount /\ reg' = reg
    BY <1>19 DEF IsrQueueCallback
  <2>5. taskCount' = taskCount + 1
    <3>1. taskCount <= Len(taskQueue) + refused + 1
      BY <1>5, <1>8 DEF CountKept, Count
    <3>2. \A c, l, r, ll, rr, q, n \in Nat :
            ll + rr = l + r + 1 /\ c <= l + r + 1 /\ ll <= q /\ q + rr + 1 < n => c + 1 \in 0..(n - 1)
      OBVIOUS
    <3>3. taskCount + 1 \in Counts
      BY <1>5, <1>6, <1>9, <2>2, <3>1, <3>2 DEF Counts
    <3> QED
      BY <1>19, <3>3, ByteSmall DEF IsrQueueCallback
  <2>6. maxTaskCount' = IF taskCount + 1 > maxTaskCount THEN taskCount + 1 ELSE maxTaskCount
    BY <1>19, <2>5 DEF IsrQueueCallback
  <2>7. CountKept'
    BY <1>5, <1>8, <2>2, <2>3, <2>5, <2>4 DEF CountKept, Count, Pending, Adjusting
  <2>8. MaxKept'
    <3>1. /\ taskCount >= Len(taskQueue) + refused
          /\ taskCount > Len(taskQueue) + refused => pc \in {"q_max", "q_post"}
          /\ taskCount <= Len(taskQueue) + refused + 1
      BY <1>5, <1>8, <2>3 DEF CountKept, Count, Pending, Adjusting
    <3>2. IF pc = "q_max" THEN maxTaskCount' <= taskCount' ELSE maxTaskCount' >= taskCount'
      BY <1>8, <1>9, <2>5, <2>6 DEF MaxKept
    <3>3. (refused > 0 => maxTaskCount > QueueLength)
          /\ (maxTaskCount > QueueLength /\ refused = 0 => Len(taskQueue) = QueueLength)
      BY <1>8 DEF MaxKept
    <3>4. refused' > 0 => maxTaskCount' > QueueLength
      BY <1>5, <1>9, <2>2, <2>6, <3>1, <3>3
    <3>5. maxTaskCount' > QueueLength /\ refused' = 0 =>
            taskCount > Len(taskQueue) + refused /\ Len(taskQueue') = QueueLength
      BY <1>5, <1>9, <2>2, <2>6, <3>1, <3>3
    <3> QED
      BY <2>4, <3>1, <3>2, <3>4, <3>5 DEF MaxKept
  <2> QED
    BY <2>7, <2>8
<1>20. CASE UNCHANGED vars
  BY <1>8, <1>20 DEF vars, CountKept, MaxKept, Count, Pending
<1> QED
  BY <1>10, <1>11, <1>12, <1>13, <1>14, <1>15, <1>16, <1>17, <1>18, <1>19, <1>20 DEF Next, TaskStep

-----------------------------------------------------------------------------
(* The ready handlers *)

LEMMA InitReady == Init => ReadyInv
<1> SUFFICES ASSUME Init PROVE ReadyInv
  OBVIOUS
<1>1. event.kind # "ready" /\ ran = {} /\ Len(taskQueue) = 0
  BY DEF Init, NoCallback, Callback
<1> QED
  BY <1>1, InitTypeOK DEF ReadyInv

\* A callback whose handler is alive, if it is a ready handler's, and that is not
\* on the queue yet can be put there.
LEMMA PostReady ==
    ASSUME ReadyInv, TypeOK', NEW c \in Callbacks, system_os_post(c),
           handlers' = handlers, ran' = ran, posted' = posted,
           c.kind = "ready" => c.n \in handlers /\ \A i \in 1..Len(taskQueue) : taskQueue[i] # c,
           event'.kind = "ready" => event' = event /\ event # c
    PROVE  ReadyInv'
<1> DEFINE n == Len(taskQueue)
<1>1. TypeOK /\ n \in Nat
  BY DEF ReadyInv, TypeOK
<1>2. CASE taskQueue' = taskQueue
  BY <1>2 DEF ReadyInv
<1>3. CASE taskQueue' = Append(taskQueue, c)
  <2>1. /\ Len(taskQueue') = n + 1 /\ taskQueue'[n + 1] = c
        /\ \A i \in 1..n : taskQueue'[i] = taskQueue[i]
    BY <1>1, <1>3 DEF TypeOK
  <2>2. \A i \in 1..(n + 1) : i \in 1..n \/ i = n + 1
    BY <1>1
  <2> HIDE DEF n
  <2>3. \A i \in 1..(n + 1) : taskQueue'[i].kind = "ready" => taskQueue'[i].n \in handlers
    BY <2>1, <2>2 DEF ReadyInv, n
  <2>4. \A i, j \in 1..(n + 1) :
          i # j /\ taskQueue'[i].kind = "ready" => taskQueue'[i] # taskQueue'[j]
    BY <2>1, <2>2 DEF ReadyInv, n
  <2>5. event'.kind = "ready" =>
          event'.n \in handlers /\ \A i \in 1..(n + 1) : taskQueue'[i] # event'
    BY <2>1, <2>2 DEF ReadyInv, n
  <2>6. \A d \in ran : d.kind = "ready" => d.n \notin handlers /\ d.n <= posted
    BY DEF ReadyInv
  <2> QED
    BY <2>1, <2>3, <2>4, <2>5, <2>6 DEF ReadyInv
<1> QED
  BY <1>2, <1>3 DEF system_os_post

LEMMA NextReady == ReadyInv /\ [Next]_vars => ReadyInv'
<1> SUFFICES ASSUME ReadyInv, [Next]_vars PROVE ReadyInv'
  OBVIOUS
<1>0. TypeOK /\ TypeOK'
  BY NextTypeOK DEF ReadyInv
<1>1. CASE Post
  <2>1. NoCallback.kind # "ready"
    BY DEF NoCallback, Callback
  <2> QED
    BY <1>0, <1>1, <2>1, PostReady DEF Post, ReadyInv, TypeOK
<1>2. CASE IsrQueueCallback
  <2>1. Callback("isr", isrPosted + 1) \in Callbacks /\ Callback("isr", isrPosted + 1).kind = "isr"
    BY <1>0 DEF TypeOK, Callback, Callbacks
  <2> QED
    BY <1>0, <1>2, <2>1, PostReady DEF IsrQueueCallback
<1>3. CASE Dispatch
  <2>1. /\ event' = taskQueue[1] /\ Len(taskQueue) \in Nat \ {0}
        /\ Len(taskQueue') = Len(taskQueue) - 1
        /\ \A i \in 1..Len(taskQueue') :
             i + 1 \in 1..Len(taskQueue) /\ i + 1 # 1 /\ taskQueue'[i] = taskQueue[i + 1]
    BY <1>0, <1>3 DEF Dispatch, TypeOK
  <2>2. 1 \in 1..Len(taskQueue)
    BY <2>1
  <2>3. \A i \in 1..Len(taskQueue') : taskQueue'[i].kind = "ready" => taskQueue'[i].n \in handlers
    BY <2>1 DEF ReadyInv
  <2>4. \A i, j \in 1..Len(taskQueue') :
          i # j /\ taskQueue'[i].kind = "ready" => taskQueue'[i] # taskQueue'[j]
    <3> SUFFICES ASSUME NEW i \in 1..Len(taskQueue'), NEW j \in 1..Len(taskQueue'), i # j,
                        taskQueue'[i].kind = "ready"
                 PROVE  taskQueue'[i] # taskQueue'[j]
      OBVIOUS
    <3>1. i + 1 # j + 1
      OBVIOUS
    <3> QED
      BY <2>1, <3>1 DEF ReadyInv
  <2>5. event'.kind = "ready" =>
          event'.n \in handlers /\ \A i \in 1..Len(taskQueue') : taskQueue'[i] # event'
    BY <2>1, <2>2 DEF ReadyInv
  <2>6. handlers' = handlers /\ ran' = ran /\ posted' = posted
    BY <1>3 DEF Dispatch, history
  <2> QED
    BY <1>0, <2>3, <2>4, <2>5, <2>6 DEF ReadyInv
<1>4. CASE queueCallback \/ onReady \/ onReadyObject
  <2>1. event' \in Callbacks /\ (event'.kind = "ready" => event'.n = posted + 1 /\ event'.n \in handlers')
    BY <1>0, <1>4 DEF queueCallback, onReady, onReadyObject, Callback, TypeOK
  <2>2. /\ handlers \subseteq handlers' /\ handlers' \subseteq handlers \cup {posted + 1}
        /\ posted' = posted + 1 /\ taskQueue' = taskQueue /\ ran' = ran
    BY <1>4 DEF queueCallback, onReady, onReadyObject
  <2>3. posted \in Nat /\ posted + 1 \notin handlers
    BY <1>0 DEF TypeOK
  <2>4. \A d \in ran : d.n \in Nat
    BY <1>0 DEF TypeOK, Callbacks
  <2>5. \A d \in ran : d.kind = "ready" => d.n \notin handlers' /\ d.n <= posted'
    BY <2>2, <2>3, <2>4 DEF ReadyInv
  <2>6. event'.kind = "ready" =>
          event'.n \in handlers' /\ \A i \in 1..Len(taskQueue) : taskQueue[i] # event'
    BY <2>1, <2>2, <2>3 DEF ReadyInv
  <2> QED
    BY <1>0, <2>2, <2>5, <2>6 DEF ReadyInv
<1>5. CASE Run
  <2>1. /\ event'.kind # "ready" /\ ran' = ran \cup {event} /\ taskQueue' = taskQueue
        /\ posted' = posted
        /\ handlers' = IF event.kind = "ready" THEN handlers \ {event.n} ELSE handlers
    BY <1>5 DEF Run, NoCallback, Callback
  <2>2. \A i \in 1..Len(taskQueue) : taskQueue[i] \in Callbacks
    BY <1>0 DEF TypeOK
  <2>3. \A c, d \in Callbacks : c.kind = d.kind /\ c.n = d.n => c = d
    BY DEF Callbacks
  <2>4. \A i \in 1..Len(taskQueue) :
          event.kind = "ready" /\ taskQueue[i].kind = "ready" => taskQueue[i].n # event.n
    <3>1. event \in Callbacks
      BY <1>0 DEF TypeOK
    <3> QED
      BY <2>2, <2>3, <3>1 DEF ReadyInv
  <2>5. \A i \in 1..Len(taskQueue) : taskQueue[i].kind = "ready" => taskQueue[i].n \in handlers'
    BY <2>1, <2>4 DEF ReadyInv
  <2>6. event.kind = "ready" => event.n \notin handlers' /\ event.n <= posted
    <3>1. \A n \in handlers : n <= posted
      BY <1>0 DEF TypeOK
    <3>2. event.kind = "ready" => event.n \in handlers /\ event.n \notin handlers'
      BY <2>1 DEF ReadyInv
    <3> QED
      BY <3>1, <3>2
  <2>7. \A c \in ran' : c.kind = "ready" => c.n \notin handlers' /\ c.n <= posted
    BY <2>1, <2>6 DEF ReadyInv
  <2> QED
    BY <1>0, <2>1, <2>5, <2>7 DEF ReadyInv
<1>6. CASE initialize
  BY <1>0, <1>6 DEF initialize, ReadyInv, history
<1>7. CASE CountLoad \/ CountStore \/ CountMax \/ HandlerOld \/ HandlerLoad \/ HandlerStore
           \/ HandlerCheck \/ Return \/ UNCHANGED vars
  <2>1. UNCHANGED <<taskQueue, event, handlers, ran, posted>>
    BY <1>7 DEF CountLoad, CountStore, CountMax, HandlerOld, HandlerLoad, HandlerStore, HandlerCheck,
       Return, vars, history
  <2> QED
    BY <1>0, <2>1 DEF ReadyInv
<1> QED
  BY <1>1, <1>2, <1>3, <1>4, <1>5, <1>6, <1>7 DEF Next, TaskStep

-----------------------------------------------------------------------------
(* Theorems *)

\* Type correctness: the queue keeps within its length, whoever posts.
THEOREM TypeCorrect == Spec => []TypeOK
  BY InitTypeOK, NextTypeOK, PTL DEF Spec

\* System.cpp:51-53: short of a post in the middle of an adjustment and of a counter
\* that wraps around, maxTaskCount tells whether the OS ever refused a post.
THEOREM MaxCountCorrect == Spec => []MaxCountTellsOverflow
<1>1. CountInv => MaxCountTellsOverflow
  <2> SUFFICES ASSUME CountInv, ~disturbed, NoWrap, Resting
               PROVE  maxTaskCount > QueueLength <=> refused > 0
    BY DEF MaxCountTellsOverflow
  <2>1. MaxKept /\ refused \in Nat /\ pc \notin {"q_max", "q_post"}
    BY DEF CountInv, TypeOK, Resting
  <2> QED
    BY <2>1 DEF MaxKept
<1> QED
  BY InitCount, NextCount, <1>1, PTL DEF Spec

\* System.cpp:61-69: no ready handler is run after it was deleted, or twice.
THEOREM ReadyCorrect == Spec => []ReadyHandlerAlive
<1>1. ReadyInv => ReadyHandlerAlive
  BY DEF ReadyInv, ReadyHandlerAlive, Queued, Callback
<1> QED
  BY InitReady, NextReady, <1>1, PTL DEF Spec

-----------------------------------------------------------------------------
(* The order of the callbacks *)

\* Task context is posting `event`.
Posting == pc \in {"q_load", "q_store", "q_max", "q_post"}

\* A callback that is among the first t of task context or the first i of handlers.
Numbered(c, t, i) == c.kind # "none" /\ c.n <= (IF FromIsr(c) THEN i ELSE t)
Posted(c) == Numbered(c, posted, isrPosted)

\* What was run comes before what is being run, and that before what is queued, in
\* the order of the queue; what is being posted comes after all others of its source.
OrderInv ==
    /\ TypeOK
    /\ pc = "boot" => taskQueue = <<>>
    /\ \A c \in ran : Posted(c)
    /\ \A i \in 1..Len(taskQueue) : Posted(taskQueue[i])
    /\ \A i, j \in 1..Len(taskQueue) : i < j => Before(taskQueue[i], taskQueue[j])
    /\ \A c \in ran, i \in 1..Len(taskQueue) : Before(c, taskQueue[i])
    /\ Running => /\ Posted(event)
                  /\ \A c \in ran : Before(c, event)
                  /\ \A i \in 1..Len(taskQueue) : Before(event, taskQueue[i])
    /\ Posting => /\ Posted(event) /\ ~FromIsr(event)
                  /\ \A c \in ran : Before(c, event)
                  /\ \A i \in 1..Len(taskQueue) : Before(taskQueue[i], event)

LEMMA InitOrder == Init => OrderInv
<1> SUFFICES ASSUME Init PROVE OrderInv
  OBVIOUS
<1>1. TypeOK
  BY InitTypeOK
<1>2. taskQueue = <<>> /\ Len(taskQueue) = 0 /\ ran = {} /\ ~Running /\ ~Posting
  BY DEF Init, Running, Posting
<1> QED BY <1>1, <1>2 DEF OrderInv

\* Further posts do not change what was posted before.
LEMMA NumberedGrows ==
  ASSUME NEW c \in Callbacks, NEW t \in Nat, NEW i \in Nat, NEW u \in Nat, NEW j \in Nat,
         t <= u, i <= j, Numbered(c, t, i)
  PROVE  Numbered(c, u, j)
<1>1. c.n \in Nat
  BY DEF Callbacks
<1>2. CASE FromIsr(c)
  BY <1>1, <1>2 DEF Numbered
<1>3. CASE ~FromIsr(c)
  BY <1>1, <1>3 DEF Numbered
<1> QED BY <1>2, <1>3

\* The queue after a post: as it was, or with the callback at its end.
LEMMA PostQueue ==
  ASSUME TypeOK, NEW c \in Callbacks, system_os_post(c)
  PROVE  \/ taskQueue' = taskQueue
         \/ /\ Len(taskQueue') = Len(taskQueue) + 1 /\ Len(taskQueue) \in Nat
            /\ \A i \in 1..Len(taskQueue) : taskQueue'[i] = taskQueue[i]
            /\ taskQueue'[Len(taskQueue) + 1] = c
  BY DEF TypeOK, system_os_post

\* The parts of the invariant about what is queued and what was run.
QueueOrder ==
    /\ \A c \in ran : Posted(c)
    /\ \A i \in 1..Len(taskQueue) : Posted(taskQueue[i])
    /\ \A i, j \in 1..Len(taskQueue) : i < j => Before(taskQueue[i], taskQueue[j])
    /\ \A c \in ran, i \in 1..Len(taskQueue) : Before(c, taskQueue[i])

\* A post of a callback that comes after all others of its source keeps the order.
LEMMA PostOrder ==
  ASSUME OrderInv, NEW c \in Callbacks, system_os_post(c), UNCHANGED <<ran, posted>>,
         isrPosted' \in Nat, isrPosted <= isrPosted', Numbered(c, posted, isrPosted'),
         \A d \in ran : Before(d, c),
         \A i \in 1..Len(taskQueue) : Before(taskQueue[i], c)
  PROVE  QueueOrder'
<1>0. TypeOK /\ posted \in Nat /\ isrPosted \in Nat
  BY DEF OrderInv, TypeOK
<1>1. \A d \in Callbacks : Posted(d) => Numbered(d, posted, isrPosted')
  BY <1>0, NumberedGrows DEF Posted
<1>2. ran \subseteq Callbacks /\ \A i \in 1..Len(taskQueue) : taskQueue[i] \in Callbacks
  BY <1>0 DEF TypeOK
<1>3. CASE taskQueue' = taskQueue
  <2>1. /\ \A d \in ran : Numbered(d, posted, isrPosted')
        /\ \A i \in 1..Len(taskQueue) : Numbered(taskQueue[i], posted, isrPosted')
    BY <1>1, <1>2 DEF OrderInv
  <2> QED BY <1>3, <2>1 DEF OrderInv, QueueOrder, Posted
<1>4. CASE /\ Len(taskQueue') = Len(taskQueue) + 1 /\ Len(taskQueue) \in Nat
           /\ \A i \in 1..Len(taskQueue) : taskQueue'[i] = taskQueue[i]
           /\ taskQueue'[Len(taskQueue) + 1] = c
  <2>1. \A i \in 1..Len(taskQueue') :
          \/ i \in 1..Len(taskQueue) /\ taskQueue'[i] = taskQueue[i]
          \/ i = Len(taskQueue) + 1 /\ taskQueue'[i] = c
    BY <1>4
  <2>2. \A i \in 1..Len(taskQueue') : Numbered(taskQueue'[i], posted, isrPosted')
    BY <1>1, <1>2, <2>1 DEF OrderInv
  <2>3. \A d \in ran, i \in 1..Len(taskQueue') : Before(d, taskQueue'[i])
    BY <2>1 DEF OrderInv
  <2>4. ASSUME NEW i \in 1..Len(taskQueue'), NEW j \in 1..Len(taskQueue'), i < j
        PROVE  Before(taskQueue'[i], taskQueue'[j])
    <3>1. i \in 1..Len(taskQueue) /\ taskQueue'[i] = taskQueue[i]
      BY <1>4, <2>4
    <3>2. CASE j \in 1..Len(taskQueue) /\ taskQueue'[j] = taskQueue[j]
      BY <2>4, <3>1, <3>2 DEF OrderInv
    <3>3. CASE taskQueue'[j] = c
      BY <3>1, <3>3
    <3> QED BY <2>1, <3>2, <3>3
  <2>5. \A d \in ran : Numbered(d, posted, isrPosted')
    BY <1>1, <1>2 DEF OrderInv
  <2> QED BY <2>2, <2>3, <2>4, <2>5 DEF QueueOrder, Posted
<1> QED BY <1>0, <1>3, <1>4, PostQueue

\* A callback that interrupt handlers have not posted yet comes after all they have;
\* so does the next of task context.
LEMMA NextIsLast ==
  ASSUME NEW c \in Callbacks, NEW d \in Callbacks, NEW t \in Nat, NEW i \in Nat, Numbered(d, t, i),
         c.n = (IF FromIsr(c) THEN i ELSE t) + 1
  PROVE  Before(d, c)
<1>1. d.n \in Nat
  BY DEF Callbacks
<1>2. CASE FromIsr(c)
  BY <1>1, <1>2 DEF Numbered, Before
<1>3. CASE ~FromIsr(c)
  BY <1>1, <1>3 DEF Numbered, Before
<1> QED BY <1>2, <1>3

LEMMA NextOrder == OrderInv /\ [Next]_vars => OrderInv'
<1> SUFFICES ASSUME OrderInv, [Next]_vars PROVE OrderInv'
  OBVIOUS
<1>0. TypeOK /\ TypeOK'
  BY NextTypeOK DEF OrderInv
<1>t. /\ ran \subseteq Callbacks /\ event \in Callbacks
      /\ \A i \in 1..Len(taskQueue) : taskQueue[i] \in Callbacks
      /\ posted \in Nat /\ isrPosted \in Nat /\ Len(taskQueue) \in Nat
  BY <1>0 DEF TypeOK
<1>q. QueueOrder
  BY DEF OrderInv, QueueOrder
<1>1. CASE Post
  <2>1. /\ system_os_post(event) /\ UNCHANGED <<ran, posted, isrPosted>>
        /\ Posting /\ pc' # "boot" /\ ~Posting' /\ ~Running'
    BY <1>1 DEF Post, Goto, Posting, Running
  <2>2. QueueOrder'
    BY <1>t, <2>1, PostOrder DEF OrderInv, Posted
  <2> QED BY <1>0, <2>1, <2>2 DEF OrderInv, QueueOrder
<1>2. CASE IsrQueueCallback
  <2> DEFINE c == Callback("isr", isrPosted + 1)
  <2>1. c \in Callbacks /\ FromIsr(c) /\ c.n = isrPosted + 1 /\ c.kind # "none"
    BY <1>t DEF Callback, Callbacks, FromIsr
  <2>2. /\ system_os_post(c) /\ isrPosted' = isrPosted + 1 /\ pc # "boot"
        /\ UNCHANGED <<pc, event, posted, ran>>
    BY <1>2 DEF IsrQueueCallback
  <2> HIDE DEF c
  <2>3. Numbered(c, posted, isrPosted')
    BY <1>t, <2>1, <2>2 DEF Numbered
  <2>4. \A d \in Callbacks : Posted(d) => Before(d, c)
    BY <1>t, <2>1, NextIsLast DEF Posted
  <2>5. QueueOrder'
    <3>1. \A d \in ran : Before(d, c)
      BY <1>t, <2>4 DEF OrderInv
    <3>2. \A i \in 1..Len(taskQueue) : Before(taskQueue[i], c)
      BY <1>t, <2>4 DEF OrderInv
    <3>3. isrPosted' \in Nat /\ isrPosted <= isrPosted'
      BY <1>t, <2>2
    <3> QED BY <2>1, <2>2, <2>3, <3>1, <3>2, <3>3, PostOrder
  <2>6. \A i \in 1..Len(taskQueue') :
          \/ i \in 1..Len(taskQueue) /\ taskQueue'[i] = taskQueue[i]
          \/ taskQueue'[i] = c
    <3>1. CASE taskQueue' = taskQueue
      BY <3>1
    <3>2. CASE /\ Len(taskQueue') = Len(taskQueue) + 1 /\ Len(taskQueue) \in Nat
               /\ \A i \in 1..Len(taskQueue) : taskQueue'[i] = taskQueue[i]
               /\ taskQueue'[Len(taskQueue) + 1] = c
      BY <3>2
    <3> QED BY <1>0, <2>1, <2>2, <3>1, <3>2, PostQueue
  <2>7. Posted(event) => Numbered(event, posted', isrPosted')
    BY <1>t, <2>2, NumberedGrows DEF Posted
  <2>8. Running' => /\ Posted(event)'
                    /\ \A d \in ran' : Before(d, event')
                    /\ \A i \in 1..Len(taskQueue') : Before(event', taskQueue'[i])
    <3> SUFFICES ASSUME Running
                 PROVE  /\ Posted(event)'
                        /\ \A d \in ran' : Before(d, event')
                        /\ \A i \in 1..Len(taskQueue') : Before(event', taskQueue'[i])
      BY <2>2 DEF Running
    <3>1. Posted(event) /\ Before(event, c)
      BY <1>t, <2>4 DEF OrderInv
    <3>2. Posted(event)'
      BY <2>2, <2>7, <3>1 DEF Posted
    <3>3. \A d \in ran' : Before(d, event')
      BY <2>2 DEF OrderInv
    <3>4. \A i \in 1..Len(taskQueue') : Before(event', taskQueue'[i])
      BY <2>2, <2>6, <3>1 DEF OrderInv
    <3> QED BY <3>2, <3>3, <3>4
  <2>9. Posting' => /\ Posted(event)' /\ ~FromIsr(event')
                    /\ \A d \in ran' : Before(d, event')
                    /\ \A i \in 1..Len(taskQueue') : Before(taskQueue'[i], event')
    <3> SUFFICES ASSUME Posting
                 PROVE  /\ Posted(event)' /\ ~FromIsr(event')
                        /\ \A d \in ran' : Before(d, event')
                        /\ \A i \in 1..Len(taskQueue') : Before(taskQueue'[i], event')
      BY <2>2 DEF Posting
    <3>1. Posted(event) /\ ~FromIsr(event) /\ Before(c, event)
      BY <2>1 DEF OrderInv, Before
    <3>2. Posted(event)' /\ ~FromIsr(event')
      BY <2>2, <2>7, <3>1 DEF Posted
    <3>3. \A d \in ran' : Before(d, event')
      BY <2>2 DEF OrderInv
    <3>4. \A i \in 1..Len(taskQueue') : Before(taskQueue'[i], event')
      BY <2>2, <2>6, <3>1 DEF OrderInv
    <3> QED BY <3>2, <3>3, <3>4
  <2> QED BY <1>0, <2>2, <2>5, <2>8, <2>9 DEF OrderInv, QueueOrder, FromIsr
<1>3. CASE Dispatch
  <2>1. /\ event' = taskQueue[1] /\ Len(taskQueue) \in Nat \ {0}
        /\ Len(taskQueue') = Len(taskQueue) - 1
        /\ \A i \in 1..Len(taskQueue') :
             i + 1 \in 1..Len(taskQueue) /\ 1 < i + 1 /\ taskQueue'[i] = taskQueue[i + 1]
    BY <1>0, <1>3 DEF Dispatch, TypeOK
  <2>2. 1 \in 1..Len(taskQueue)
    BY <2>1
  <2>3. UNCHANGED <<ran, posted, isrPosted>> /\ pc' # "boot" /\ ~Posting'
    BY <1>3 DEF Dispatch, history, Goto, Posting
  <2>4. ASSUME NEW i \in 1..Len(taskQueue'), NEW j \in 1..Len(taskQueue'), i < j
        PROVE  Before(taskQueue'[i], taskQueue'[j])
    <3>1. i + 1 < j + 1
      BY <2>4
    <3> QED BY <2>1, <3>1 DEF OrderInv
  <2>5. QueueOrder'
    BY <2>1, <2>3, <2>4 DEF OrderInv, QueueOrder, Posted
  <2>6. /\ Posted(event)'
        /\ \A c \in ran' : Before(c, event')
        /\ \A i \in 1..Len(taskQueue') : Before(event', taskQueue'[i])
    <3>1. Posted(event)' /\ \A c \in ran' : Before(c, event')
      BY <2>1, <2>2, <2>3 DEF OrderInv, Posted
    <3>2. \A i \in 1..Len(taskQueue') : Before(event', taskQueue'[i])
      BY <2>1, <2>2 DEF OrderInv
    <3> QED BY <3>1, <3>2
  <2> QED BY <1>0, <2>3, <2>5, <2>6 DEF OrderInv, QueueOrder
<1>4. CASE queueCallback \/ onReady \/ onReadyObject
  <2>1. /\ event' \in Callbacks /\ ~FromIsr(event') /\ event'.kind # "none" /\ event'.n = posted + 1
        /\ posted' = posted + 1 /\ UNCHANGED <<taskQueue, ran, isrPosted>>
        /\ pc' # "boot" /\ ~Running'
    BY <1>0, <1>4 DEF queueCallback, onReady, onReadyObject, Callback, FromIsr, TypeOK, Goto, Running
  <2>2. \A d \in Callbacks : Posted(d) => Before(d, event') /\ Numbered(d, posted', isrPosted')
    <3> SUFFICES ASSUME NEW d \in Callbacks, Posted(d)
                 PROVE  Before(d, event') /\ Numbered(d, posted', isrPosted')
      OBVIOUS
    <3>1. Numbered(d, posted, isrPosted)
      BY DEF Posted
    <3>2. Before(d, event')
      BY <1>t, <2>1, <3>1, NextIsLast
    <3>3. posted' \in Nat /\ isrPosted' \in Nat /\ posted <= posted' /\ isrPosted <= isrPosted'
      BY <1>t, <2>1
    <3> QED BY <1>t, <3>1, <3>2, <3>3, NumberedGrows
  <2>3. Numbered(event', posted', isrPosted')
    BY <1>t, <2>1 DEF Numbered
  <2>4. QueueOrder'
    BY <1>t, <2>1, <2>2 DEF OrderInv, QueueOrder, Posted
  <2>5. /\ \A d \in ran : Before(d, event')
        /\ \A i \in 1..Len(taskQueue) : Before(taskQueue[i], event')
    BY <1>t, <2>2 DEF OrderInv
  <2> QED BY <1>0, <2>1, <2>3, <2>4, <2>5 DEF OrderInv, QueueOrder, Posted
<1>5. CASE Run
  <2>1. /\ Running /\ ran' = ran \cup {event} /\ UNCHANGED <<taskQueue, posted, isrPosted>>
        /\ pc' # "boot" /\ ~Running' /\ ~Posting'
    BY <1>5 DEF Run, Goto, Running, Posting
  <2>2. QueueOrder'
    BY <2>1 DEF OrderInv, QueueOrder, Posted
  <2> QED BY <1>0, <2>1, <2>2 DEF OrderInv, QueueOrder
<1>6. CASE initialize
  <2>1. /\ taskQueue = <<>> /\ taskQueue' = <<>> /\ UNCHANGED <<ran, posted, isrPosted>>
        /\ pc' # "boot" /\ ~Running' /\ ~Posting'
    BY <1>6 DEF initialize, OrderInv, history, Goto, Running, Posting
  <2> QED BY <1>0, <1>q, <2>1 DEF OrderInv, QueueOrder, Posted
<1>7. CASE CountLoad \/ CountStore \/ CountMax \/ HandlerOld \/ HandlerLoad \/ HandlerStore
           \/ HandlerCheck \/ Return \/ UNCHANGED vars
  <2>1. UNCHANGED <<taskQueue, event, ran, posted, isrPosted>>
    BY <1>7 DEF CountLoad, CountStore, CountMax, HandlerOld, HandlerLoad, HandlerStore, HandlerCheck,
       Return, vars, history
  <2>2. (Running' => Running) /\ (Posting' => Posting) /\ (pc' = "boot" => pc = "boot")
    BY <1>7 DEF CountLoad, CountStore, CountMax, HandlerOld, HandlerLoad, HandlerStore, HandlerCheck,
       Return, vars, Running, Posting, Goto
  <2> QED BY <1>0, <1>q, <2>1, <2>2 DEF OrderInv, QueueOrder, Posted
<1> QED
  BY <1>1, <1>2, <1>3, <1>4, <1>5, <1>6, <1>7 DEF Next, TaskStep

\* The callbacks of one source run in the order in which they were posted, each at
\* most once, whatever interrupts queueCallback and taskHandler (System.cpp:21-31
\* and 45-56).
THEOREM CallbacksInOrder == Spec => RunsInOrder
<1>1. OrderInv => (Run => /\ event \notin ran
                          /\ \A c \in ran : Before(c, event)
                          /\ \A i \in 1..Len(taskQueue) : Before(event, taskQueue[i]))
  <2> SUFFICES ASSUME OrderInv, Run
               PROVE  /\ event \notin ran
                      /\ \A c \in ran : Before(c, event)
                      /\ \A i \in 1..Len(taskQueue) : Before(event, taskQueue[i])
    OBVIOUS
  <2>1. /\ \A c \in ran : Before(c, event)
        /\ \A i \in 1..Len(taskQueue) : Before(event, taskQueue[i])
    BY DEF OrderInv, Run, Running
  <2>2. ~Before(event, event)
    <3>1. event.n \in Nat
      BY DEF OrderInv, TypeOK, Callbacks
    <3> QED BY <3>1 DEF Before
  <2> QED BY <2>1, <2>2
<1> QED
  BY InitOrder, NextOrder, <1>1, PTL DEF Spec, RunsInOrder

\* Once system_os_post has accepted a callback it is queued, dispatched or run for
\* ever after: a full queue, a count that went wrong or a later post loses no other
\* callback (System.cpp:21-31 and 45-56).
THEOREM CallbacksKept == Spec => AcceptedIsKept
<1>1. ASSUME OrderInv, [Next]_vars PROVE \A c \in Callbacks : Accepted(c) => Accepted(c)'
  <2> SUFFICES ASSUME NEW c \in Callbacks, Accepted(c) PROVE Accepted(c)'
    OBVIOUS
  <2>0. TypeOK
    BY <1>1 DEF OrderInv
  <2>1. ASSUME NEW d \in Callbacks, system_os_post(d) PROVE Queued(c) => Queued(c)'
    <3> SUFFICES ASSUME Queued(c) PROVE Queued(c)'
      OBVIOUS
    <3>1. PICK i \in 1..Len(taskQueue) : taskQueue[i] = c
      BY DEF Queued
    <3>2. i \in 1..Len(taskQueue') /\ taskQueue'[i] = c
      <4>1. CASE taskQueue' = taskQueue
        BY <3>1, <4>1
      <4>2. CASE /\ Len(taskQueue') = Len(taskQueue) + 1 /\ Len(taskQueue) \in Nat
                 /\ \A k \in 1..Len(taskQueue) : taskQueue'[k] = taskQueue[k]
                 /\ taskQueue'[Len(taskQueue) + 1] = d
        BY <3>1, <4>2
      <4> QED BY <2>0, <2>1, <4>1, <4>2, PostQueue
    <3> QED BY <3>2 DEF Queued
  <2>2. CASE Post
    <3>1. ~Running /\ ran' = ran /\ event \in Callbacks
      BY <2>0, <2>2 DEF Post, Running, TypeOK
    <3> QED BY <2>1, <2>2, <3>1 DEF Accepted, Post
  <2>3. CASE IsrQueueCallback
    <3>1. UNCHANGED <<pc, event, ran>> /\ system_os_post(Callback("isr", isrPosted + 1))
      BY <2>3 DEF IsrQueueCallback
    <3>2. Callback("isr", isrPosted + 1) \in Callbacks
      BY <2>0 DEF TypeOK, Callback, Callbacks
    <3> QED BY <2>1, <3>1, <3>2 DEF Accepted, Running
  <2>4. CASE Dispatch
    <3>1. /\ ~Running /\ Running' /\ ran' = ran /\ event' = taskQueue[1]
          /\ Len(taskQueue) \in Nat \ {0} /\ Len(taskQueue') = Len(taskQueue) - 1
          /\ \A i \in 1..Len(taskQueue') : taskQueue'[i] = taskQueue[i + 1]
      BY <2>0, <2>4 DEF Dispatch, Running, Goto, history, TypeOK
    <3>2. CASE Queued(c)
      <4>1. PICK i \in 1..Len(taskQueue) : taskQueue[i] = c
        BY <3>2 DEF Queued
      <4>2. CASE i = 1
        BY <3>1, <4>1, <4>2 DEF Accepted
      <4>3. CASE i # 1
        <5>1. i - 1 \in 1..Len(taskQueue') /\ (i - 1) + 1 = i
          BY <3>1, <4>1, <4>3
        <5>2. taskQueue'[i - 1] = c
          BY <3>1, <4>1, <5>1
        <5> QED BY <5>1, <5>2 DEF Accepted, Queued
      <4> QED BY <4>2, <4>3
    <3> QED BY <3>1, <3>2 DEF Accepted
  <2>5. CASE Run
    <3>1. ran' = ran \cup {event} /\ taskQueue' = taskQueue
      BY <2>5 DEF Run
    <3> QED BY <3>1 DEF Accepted, Queued
  <2>6. CASE initialize
    <3>1. taskQueue' = taskQueue /\ ~Running /\ ran' = ran
      BY <1>1, <2>6 DEF initialize, OrderInv, Running, history
    <3> QED BY <3>1 DEF Accepted, Queued
  <2>7. CASE queueCallback \/ onReady \/ onReadyObject
    <3>1. taskQueue' = taskQueue /\ ~Running /\ ran' = ran
      BY <2>7 DEF queueCallback, onReady, onReadyObject, Running
    <3> QED BY <3>1 DEF Accepted, Queued
  <2>8. CASE CountLoad \/ CountStore \/ CountMax \/ HandlerOld \/ HandlerLoad \/ HandlerStore
             \/ HandlerCheck \/ Return \/ UNCHANGED vars
    <3>1. UNCHANGED <<taskQueue, event, ran>> /\ (Running => Running')
      BY <2>8 DEF CountLoad, CountStore, CountMax, HandlerOld, HandlerLoad, HandlerStore, HandlerCheck,
         Return, vars, history, Running, Goto
    <3> QED BY <3>1 DEF Accepted, Queued
  <2> QED
    BY <1>1, <2>2, <2>3, <2>4, <2>5, <2>6, <2>7, <2>8 DEF Next, TaskStep
<1> QED
  BY InitOrder, NextOrder, <1>1, PTL DEF Spec, AcceptedIsKept
=============================================================================
