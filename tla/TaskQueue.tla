----------------------------- MODULE TaskQueue ------------------------------
(***************************************************************************)
(* SystemClass of SmingCore/Platform/System.cpp: the queue of deferred     *)
(* callbacks through which interrupt handlers hand work to task context,   *)
(* its two profiling counters, and the "system ready" handlers, which are  *)
(* queued like any other callback.                                         *)
(*                                                                         *)
(* Task context runs one callback at a time and may be interrupted between *)
(* any two accesses to the counters; an interrupt handler runs to its end. *)
(* The counters are uint8_t, so their arithmetic is modulo 2^8, while the  *)
(* comparison in taskHandler is made on int and is not.                    *)
(***************************************************************************)
EXTENDS Integers, Sequences

CONSTANTS
    QueueLength,    \* TASK_QUEUE_LENGTH (10)
    CountRange,     \* 2^8: the counters are uint8_t
    MaxPosts,       \* bound: callbacks ever posted from task context
    MaxIsrPosts     \* bound: callbacks ever posted from interrupt handlers

ASSUME QueueAssumption == QueueLength \in Nat \ {0} /\ CountRange \in Nat \ {0}

ASSUME PostsAssumption == MaxPosts \in Nat /\ MaxIsrPosts \in Nat

VARIABLES
    state,           \* the SystemState
    taskQueue,       \* the callbacks the OS holds, oldest first
    taskCount,       \* "Number of tasks on queue"
    maxTaskCount,    \* "Maximum number of tasks seen on queue"
    pc,              \* where task context is
    oldCount, reg,   \* taskHandler's local, and the register of a -- or ++
    event,           \* the callback being dispatched, run or posted
    handlers,        \* the SystemReadyDelegates allocated
    posted,          \* how many callbacks task context has posted
    isrPosted,       \* how many callbacks interrupt handlers have posted
    refused,         \* how many posts the OS has refused
    ran,             \* the callbacks that have been run
    disturbed        \* has an interrupt ever posted during an adjustment?

counters == <<taskCount, maxTaskCount>>
history == <<posted, isrPosted, refused, ran, disturbed>>
vars == <<state, taskQueue, counters, pc, oldCount, reg, event, handlers, history>>

-----------------------------------------------------------------------------
Byte(n) == n % CountRange

\* A callback is named by who posted it, in which order.
Callback(kind, n) == [kind |-> kind, n |-> n]
NoCallback == Callback("none", 0)

QueueFull == Len(taskQueue) = QueueLength

\* system_os_post: the OS refuses an event when the queue is full.
system_os_post(c) ==
    IF QueueFull
    THEN refused' = refused + 1 /\ UNCHANGED taskQueue
    ELSE taskQueue' = Append(taskQueue, c) /\ UNCHANGED refused

Goto(l) == pc' = l

-----------------------------------------------------------------------------
Init ==
    /\ state = "eSS_None"
    /\ taskQueue = <<>>
    /\ taskCount = 0 /\ maxTaskCount = 0
    /\ pc = "boot" /\ oldCount = 0 /\ reg = 0 /\ event = NoCallback
    /\ handlers = {}
    /\ posted = 0 /\ isrPosted = 0 /\ refused = 0 /\ ran = {} /\ disturbed = FALSE

\* SystemClass::initialize(), called once by user_main, which goes on to init().
initialize ==
    /\ pc = "boot"
    /\ state = "eSS_None"
    /\ state' = "eSS_Intializing"
    /\ taskQueue' = <<>>
    /\ Goto("app")
    /\ UNCHANGED <<counters, oldCount, reg, event, handlers, history>>

-----------------------------------------------------------------------------
(* queueCallback *)

\* Task context is between taking a callback and having taken it off the count,
\* or in the middle of ++taskCount.
Adjusting ==
    pc \in {"h_old", "h_load", "h_store", "h_check", "h_again", "h_store_again", "q_store"}

\* From an interrupt handler: nothing comes in between.
IsrQueueCallback ==
    /\ pc # "boot"
    /\ isrPosted < MaxIsrPosts
    /\ isrPosted' = isrPosted + 1
    /\ taskCount' = Byte(taskCount + 1)
    /\ maxTaskCount' = IF taskCount' > maxTaskCount THEN taskCount' ELSE maxTaskCount
    /\ system_os_post(Callback("isr", isrPosted + 1))
    /\ disturbed' = (disturbed \/ Adjusting)
    /\ UNCHANGED <<state, pc, oldCount, reg, event, handlers, posted, ran>>

\* From a callback or from init().
queueCallback ==
    /\ pc = "app"
    /\ posted < MaxPosts
    /\ posted' = posted + 1
    /\ event' = Callback("task", posted + 1)
    /\ Goto("q_load")
    /\ UNCHANGED <<state, taskQueue, counters, oldCount, reg, handlers, isrPosted, refused, ran,
                   disturbed>>

\* onReady(SystemReadyDelegate): new SystemReadyDelegate(..), then queueCallback,
\* whose result nobody looks at.
onReady ==
    /\ pc = "app"
    /\ posted < MaxPosts
    /\ posted' = posted + 1
    /\ event' = Callback("ready", posted + 1)
    /\ handlers' = handlers \cup {posted + 1}
    /\ Goto("q_load")
    /\ UNCHANGED <<state, taskQueue, counters, oldCount, reg, isrPosted, refused, ran,
                   disturbed>>

\* onReady(ISystemReadyHandler*): the object is the caller's, nothing is allocated.
onReadyObject ==
    /\ pc = "app"
    /\ posted < MaxPosts
    /\ posted' = posted + 1
    /\ event' = Callback("object", posted + 1)
    /\ Goto("q_load")
    /\ UNCHANGED <<state, taskQueue, counters, oldCount, reg, handlers, isrPosted, refused, ran,
                   disturbed>>

\* ++taskCount: a load ...
CountLoad ==
    /\ pc = "q_load"
    /\ reg' = taskCount
    /\ Goto("q_store")
    /\ UNCHANGED <<state, taskQueue, counters, oldCount, event, handlers, history>>

\* ... and a store, whose value is compared with maxTaskCount;
CountStore ==
    /\ pc = "q_store"
    /\ taskCount' = Byte(reg + 1)
    /\ Goto(IF taskCount' > maxTaskCount THEN "q_max" ELSE "q_post")
    /\ UNCHANGED <<state, taskQueue, maxTaskCount, oldCount, reg, event, handlers, history>>

\* maxTaskCount = taskCount
CountMax ==
    /\ pc = "q_max"
    /\ maxTaskCount' = taskCount
    /\ Goto("q_post")
    /\ UNCHANGED <<state, taskQueue, taskCount, oldCount, reg, event, handlers, history>>

Post ==
    /\ pc = "q_post"
    /\ system_os_post(event)
    /\ event' = NoCallback
    /\ Goto("app")
    /\ UNCHANGED <<state, counters, oldCount, reg, handlers, posted, isrPosted, ran,
                   disturbed>>

-----------------------------------------------------------------------------
(* taskHandler *)

\* A variant for mutation testing.
Dispatch_Newest ==
    /\ pc = "idle"
    /\ taskQueue # <<>>
    /\ event' = taskQueue[Len(taskQueue)]
    /\ taskQueue' = SubSeq(taskQueue, 1, Len(taskQueue) - 1)
    /\ Goto("h_old")
    /\ UNCHANGED <<state, counters, oldCount, reg, handlers, history>>

\* The OS takes the oldest event and calls taskHandler.
Dispatch ==
    /\ pc = "idle"
    /\ taskQueue # <<>>
    /\ event' = Head(taskQueue)
    /\ taskQueue' = Tail(taskQueue)
    /\ Goto("h_old")
    /\ UNCHANGED <<state, counters, oldCount, reg, handlers, history>>

\* uint8_t oldCount = taskCount;
HandlerOld ==
    /\ pc = "h_old"
    /\ oldCount' = taskCount
    /\ Goto("h_load")
    /\ UNCHANGED <<state, taskQueue, counters, reg, event, handlers, history>>

\* --taskCount, twice in the code: a load ...
HandlerLoad ==
    /\ pc \in {"h_load", "h_again"}
    /\ reg' = taskCount
    /\ Goto(IF pc = "h_load" THEN "h_store" ELSE "h_store_again")
    /\ UNCHANGED <<state, taskQueue, counters, oldCount, event, handlers, history>>

\* A variant for mutation testing.
HandlerStore_Same ==
    /\ pc \in {"h_store", "h_store_again"}
    /\ taskCount' = Byte(reg)
    /\ Goto(IF pc = "h_store" THEN "h_check" ELSE "run")
    /\ UNCHANGED <<state, taskQueue, maxTaskCount, oldCount, reg, event, handlers, history>>

\* ... and a store
HandlerStore ==
    /\ pc \in {"h_store", "h_store_again"}
    /\ taskCount' = Byte(reg - 1)
    /\ Goto(IF pc = "h_store" THEN "h_check" ELSE "run")
    /\ UNCHANGED <<state, taskQueue, maxTaskCount, oldCount, reg, event, handlers, history>>

\* A variant for mutation testing.
HandlerCheck_Abandon ==
    /\ pc = "h_check"
    /\ Goto(IF taskCount # oldCount - 1 THEN "idle" ELSE "run")
    /\ UNCHANGED <<state, taskQueue, counters, oldCount, reg, event, handlers, history>>

\* if(taskCount != oldCount - 1) --taskCount;
HandlerCheck ==
    /\ pc = "h_check"
    /\ Goto(IF taskCount # oldCount - 1 THEN "h_again" ELSE "run")
    /\ UNCHANGED <<state, taskQueue, counters, oldCount, reg, event, handlers, history>>

ReadyKinds == {"ready", "object"}

\* A variant for mutation testing.
Run_NoDelete ==
    /\ pc = "run"
    /\ ran' = ran \cup {event}
    /\ state' = IF event.kind \in ReadyKinds THEN "eSS_Ready" ELSE state
    /\ event' = NoCallback
    /\ Goto("app")
    /\ UNCHANGED <<taskQueue, counters, oldCount, reg, handlers, posted, isrPosted, refused,
                   disturbed>>

\* callback(event->par): a ready handler sets the state and runs; the one onReady
\* allocated is deleted.
Run ==
    /\ pc = "run"
    /\ ran' = ran \cup {event}
    /\ state' = IF event.kind \in ReadyKinds THEN "eSS_Ready" ELSE state
    /\ handlers' = IF event.kind = "ready" THEN handlers \ {event.n} ELSE handlers
    /\ event' = NoCallback
    /\ Goto("app")
    /\ UNCHANGED <<taskQueue, counters, oldCount, reg, posted, isrPosted, refused,
                   disturbed>>

\* The callback, or init(), returns to the OS.
Return ==
    /\ pc = "app"
    /\ Goto("idle")
    /\ UNCHANGED <<state, taskQueue, counters, oldCount, reg, event, handlers, history>>

-----------------------------------------------------------------------------
TaskStep ==
    \/ initialize
    \/ CountLoad \/ CountStore \/ CountMax \/ Post
    \/ Dispatch \/ HandlerOld \/ HandlerLoad \/ HandlerStore \/ HandlerCheck
    \/ Run \/ Return

Next == TaskStep \/ queueCallback \/ onReady \/ onReadyObject \/ IsrQueueCallback

\* Task context runs whenever it can, and no callback runs forever.
Spec == Init /\ [][Next]_vars /\ WF_vars(TaskStep)

-----------------------------------------------------------------------------
(* Properties *)

Callbacks == [kind : {"none", "task", "isr", "ready", "object"}, n : Nat]
Counts == 0..(CountRange - 1)

TypeOK ==
    /\ state \in {"eSS_None", "eSS_Intializing", "eSS_Ready"}
    /\ taskQueue \in Seq(Callbacks) /\ Len(taskQueue) <= QueueLength
    /\ taskCount \in Counts /\ maxTaskCount \in Counts /\ oldCount \in Counts /\ reg \in Counts
    /\ pc \in {"boot", "idle", "app", "q_load", "q_store", "q_max", "q_post", "h_old", "h_load",
               "h_store", "h_check", "h_again", "h_store_again", "run"}
    /\ event \in Callbacks /\ ran \subseteq Callbacks
    /\ posted \in 0..MaxPosts /\ isrPosted \in 0..MaxIsrPosts /\ handlers \subseteq 1..posted
    /\ refused \in Nat /\ disturbed \in BOOLEAN

Resting == pc \in {"idle", "app"}

\* "Get number of tasks currently on queue" (System.h:160), kept right by "If we
\* get interrupt during adjustment of the counter, do it again" (System.cpp:25):
\* outside the adjustments the counter is the number of callbacks queued.  It is
\* not, for two reasons: a post in the adjustment (the second decrement spoils a
\* count that was right), and a refused post, which nobody takes off again.
TaskCountRight == Resting => taskCount = Len(taskQueue)

\* The counter has room for a full queue, the callbacks ever refused, which nobody
\* takes off, and the one being posted.  Beyond that it wraps around, and the
\* comparison with oldCount - 1 takes the wrap for an interrupt.
NoWrap == QueueLength + refused + 1 < CountRange

\* "If return value is higher than maximum task queue TASK_QUEUE_LENGTH then the
\* queue has overflowed at some point" (System.h:170), again short of a post that
\* finds a callback taken off the queue but not off the count; and the other way
\* round, which is what the counter is for: once a callback has been refused,
\* getMaxTaskCount() tells (System.cpp:51-53).
MaxCountTellsOverflow ==
    ~disturbed /\ NoWrap /\ Resting => (maxTaskCount > QueueLength <=> refused > 0)

Queued(c) == \E i \in 1..Len(taskQueue) : taskQueue[i] = c

\* A ready handler exists for as long as a callback is to run it and is deleted
\* after it ran, whatever overtakes it on the queue (System.cpp:61-69).
ReadyHandlerAlive ==
    \A n \in 1..MaxPosts :
        /\ Queued(Callback("ready", n)) => n \in handlers
        /\ Callback("ready", n) \in ran => n \notin handlers

\* Task context is dispatching or running `event`.
Running == pc \in {"h_old", "h_load", "h_store", "h_check", "h_again", "h_store_again", "run"}

\* Callbacks are numbered by source: interrupt handlers, or task context.
FromIsr(c) == c.kind = "isr"
Before(c, d) == (FromIsr(c) <=> FromIsr(d)) => c.n < d.n

\* A callback runs once, after every one of its source, task context or the
\* interrupt handlers, that was accepted before it: what is posted while a post or
\* taskHandler is interrupted overtakes nothing (System.cpp:21-31 and 45-56).
RunsInOrder ==
    [][Run => /\ event \notin ran
              /\ \A c \in ran : Before(c, event)
              /\ \A i \in 1..Len(taskQueue) : Before(event, taskQueue[i])]_vars

\* A callback the OS has accepted: it is queued, being dispatched or run, or was run.
Accepted(c) == Queued(c) \/ (Running /\ event = c) \/ c \in ran

\* An accepted callback stays so: no step of task context or of an interrupt handler
\* takes one off the queue but to run it (System.cpp:21-31).
AcceptedIsKept == [][\A c \in Callbacks : Accepted(c) => Accepted(c)']_vars

\* Every callback the OS accepted is run (System.cpp:21-31).
AcceptedIsRun ==
    \A kind \in {"task", "isr", "ready", "object"}, n \in 1..(MaxPosts + MaxIsrPosts) :
        Queued(Callback(kind, n)) ~> Callback(kind, n) \in ran
=============================================================================
