---------------------------- MODULE BoundedFifo -----------------------------
(***************************************************************************)
(* What a SerialBuffer promises to its two users: a first-in first-out     *)
(* queue of at most `capacity` characters.  A write to a full queue is     *)
(* refused and changes nothing, a read returns and removes the oldest      *)
(* character, clear empties the queue, and a resize changes the capacity   *)
(* without touching the characters.                                        *)
(***************************************************************************)
EXTENDS Integers, Sequences

CONSTANT Chars   \* the characters that may be written

VARIABLES
    queue,      \* the characters written and not yet read, oldest first
    capacity,   \* the most characters the queue may hold
    lastRead    \* the character the latest read returned

fifoVars == <<queue, capacity, lastRead>>

FifoInit ==
    /\ queue = <<>>
    /\ capacity \in Nat \ {0}
    /\ lastRead = -1

Put(c) ==
    /\ Len(queue) < capacity
    /\ queue' = Append(queue, c)
    /\ UNCHANGED <<capacity, lastRead>>

Get ==
    /\ queue # <<>>
    /\ lastRead' = Head(queue)
    /\ queue' = Tail(queue)
    /\ UNCHANGED capacity

Clear ==
    /\ queue' = <<>>
    /\ UNCHANGED <<capacity, lastRead>>

SetCapacity ==
    /\ capacity' \in Nat \ {0}
    /\ Len(queue) <= capacity'
    /\ UNCHANGED <<queue, lastRead>>

FifoNext ==
    \/ \E c \in Chars : Put(c)
    \/ Get
    \/ Clear
    \/ SetCapacity

FifoSpec == FifoInit /\ [][FifoNext]_fifoVars
=============================================================================
