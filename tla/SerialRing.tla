----------------------------- MODULE SerialRing -----------------------------
(***************************************************************************)
(* One SerialBuffer shared by its two users, the interrupt handler and the *)
(* task code: "For receive operations, data is written via ISR and read    *)
(* via task; for transmit operations, data is written via task and read    *)
(* via ISR" (SerialBuffer.h:15).  No lock protects the ring, so writeChar  *)
(* is split at its accesses to shared memory (test for room, store the     *)
(* slot, publish writePos) and readChar at its own (fetch the slot, free   *)
(* it by moving readPos), and the two interleave freely.                   *)
(*                                                                         *)
(* resize() and clear() are taken while neither user is inside a method,   *)
(* which is what "Must be called with interrupts disabled" asks of the     *)
(* callers of resize() (SerialBuffer.h:124).                               *)
(***************************************************************************)
EXTENDS SerialBuffer

CONSTANTS
    Chars,    \* the characters the writer may write
    Sizes     \* the sizes the buffer may be given

ASSUME CharsAssumption == Chars \subseteq Nat

\* A ring of one slot could hold nothing; the smallest useful one has two.
ASSUME SizesAssumption == Sizes \subseteq Nat \ {0, 1}

VARIABLES
    ring,      \* the SerialBuffer
    writer,    \* where the writer is: "idle", "room" or "stored"
    wchar,     \* the argument of the writeChar in progress
    reader,    \* where the reader is: "idle" or "fetched"
    rchar,     \* the local variable c of the readChar in progress
    lastRead   \* the character the latest readChar returned

vars == <<ring, writer, wchar, reader, rchar, lastRead>>

Init ==
    /\ \E n \in Sizes : ring = NewSerialBuffer(n)
    /\ writer = "idle"
    /\ reader = "idle"
    /\ wchar = NoChar
    /\ rchar = NoChar
    /\ lastRead = NoChar

-----------------------------------------------------------------------------
(* writeChar *)

\* A variant for mutation testing.
WriteTest_NoTest(c) ==
    /\ writer = "idle"
    /\ writer' = "room"
    /\ wchar' = c
    /\ UNCHANGED <<ring, reader, rchar, lastRead>>

\* size_t nextPos = getNextPos(writePos); if(nextPos == readPos) return 0;
WriteTest(c) ==
    /\ writer = "idle"
    /\ hasRoom(ring)
    /\ writer' = "room"
    /\ wchar' = c
    /\ UNCHANGED <<ring, reader, rchar, lastRead>>

\* buffer[writePos] = c;
WriteStore ==
    /\ writer = "room"
    /\ ring' = storeChar(ring, wchar)
    /\ writer' = "stored"
    /\ UNCHANGED <<wchar, reader, rchar, lastRead>>

\* writePos = nextPos; return 1;
WritePublish ==
    /\ writer = "stored"
    /\ ring' = advanceWrite(ring)
    /\ writer' = "idle"
    /\ UNCHANGED <<wchar, reader, rchar, lastRead>>

-----------------------------------------------------------------------------
(* readChar *)

\* if(!buffer || isEmpty()) return -1; uint8_t c = buffer[readPos];
ReadFetch ==
    /\ reader = "idle"
    /\ ~isEmpty(ring)
    /\ rchar' = ring.buffer[ring.readPos]
    /\ reader' = "fetched"
    /\ UNCHANGED <<ring, writer, wchar, lastRead>>

\* readPos = getNextPos(readPos); return c;
ReadAdvance ==
    /\ reader = "fetched"
    /\ ring' = advanceRead(ring)
    /\ lastRead' = rchar
    /\ reader' = "idle"
    /\ UNCHANGED <<writer, wchar, rchar>>

-----------------------------------------------------------------------------
(* Operations on the whole ring *)

Quiet == writer = "idle" /\ reader = "idle"

Clear ==
    /\ Quiet
    /\ ring' = clear(ring)
    /\ UNCHANGED <<writer, wchar, reader, rchar, lastRead>>

Resize(n) ==
    /\ Quiet
    /\ ring' = resize(ring, n)
    /\ UNCHANGED <<writer, wchar, reader, rchar, lastRead>>

\* A resize that leaves a free slot for what the ring holds.
ResizeToFit(n) == available(ring) < n /\ Resize(n)

RingStep ==
    \/ \E c \in Chars : WriteTest(c)
    \/ WriteStore
    \/ WritePublish
    \/ ReadFetch
    \/ ReadAdvance
    \/ Clear

Next == RingStep \/ \E n \in Sizes : ResizeToFit(n)

Spec == Init /\ [][Next]_vars

\* The same ring when the caller may also ask for a size that is too small.
SpecAnyResize == Init /\ [][RingStep \/ \E n \in Sizes : Resize(n)]_vars

-----------------------------------------------------------------------------
(* Properties *)

\* The blocks of n slots.
Block(n) == [0..(n - 1) -> Nat]

TypeOK ==
    /\ ring \in [size : Sizes, readPos : Nat, writePos : Nat, buffer : Block(ring.size)]
    /\ ring.readPos < ring.size
    /\ ring.writePos < ring.size
    /\ writer \in {"idle", "room", "stored"}
    /\ reader \in {"idle", "fetched"}
    /\ wchar \in Chars \cup {NoChar}
    /\ rchar \in Nat \cup {NoChar}
    /\ lastRead \in Nat \cup {NoChar}

\* Between the test for room and the store, and between the store and the
\* publication, the slot the writer owns is outside the characters the reader
\* may take: the ring is never full at that point (SerialBuffer.h:90-98).
WriterOwnsSlot ==
    writer # "idle" => /\ hasRoom(ring)
                       /\ wchar \in Chars
                       /\ writer = "stored" => ring.buffer[ring.writePos] = wchar

\* The character a reader has fetched is still the oldest one when it frees
\* the slot, whatever the writer did meanwhile (SerialBuffer.h:80-88).
FetchedIsOldest ==
    reader = "fetched" => ~isEmpty(ring) /\ rchar = ring.buffer[ring.readPos]

\* "get number of bytes of space available in this buffer" (SerialBuffer.h:42)
\* and "get number of bytes stored in the buffer" (SerialBuffer.h:31): the two counts are
\* never negative and account for every slot but the one kept free.
SpaceAccounted ==
    /\ available(ring) >= 0
    /\ getFreeSpace(ring) >= 0
    /\ available(ring) + getFreeSpace(ring) = ring.size - 1

\* The queries agree with what the buffer holds at every position of the ring:
\* find() returns the distance from readPos of the first occurrence of the
\* character, or -1 (SerialBuffer.h:104-122), and peekLastChar() the newest
\* character (SerialBuffer.h:69-78).
QueriesMatchContents ==
    /\ \A c \in Chars :
         LET hits == {i \in 1..available(ring) : contents(ring)[i] = c}
         IN  find(ring, c) = IF hits = {} THEN -1
                             ELSE (CHOOSE i \in hits : \A j \in hits : i <= j) - 1
    /\ ~isEmpty(ring) => peekLastChar(ring) = contents(ring)[available(ring)]

\* The ring implements the bounded queue: each store becomes visible at
\* WritePublish, each read takes effect at ReadAdvance.
Fifo == INSTANCE BoundedFifo WITH
            queue <- contents(ring), capacity <- ring.size - 1, lastRead <- lastRead

FifoRefined == Fifo!FifoSpec
=============================================================================
