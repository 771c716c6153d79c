-------------------------- MODULE SerialRingProofs --------------------------
(***************************************************************************)
(* Proofs about SerialRing, for every set of characters and every set of   *)
(* buffer sizes: the type invariant, the ownership of slots by the two     *)
(* users, the accounting of slots, the refinement of BoundedFifo, and what *)
(* the queries return.                                                     *)
(***************************************************************************)
EXTENDS SerialRing, SequenceTheorems, WellFoundedInduction, TLAPS

\* The inductive invariant: the slot the writer has tested or stored is not yet
\* published, and the one the reader has fetched is not yet freed.
RingInv == TypeOK /\ WriterOwnsSlot /\ FetchedIsOldest

\* The ring is a record of its four members, which EXCEPT can update.
LEMMA RingIsRecord ==
  ASSUME TypeOK
  PROVE  /\ ring.size \in Nat /\ ring.size >= 2
         /\ ring.readPos \in Nat /\ ring.readPos < ring.size
         /\ ring.writePos \in Nat /\ ring.writePos < ring.size
<1>1. /\ ring.size \in Sizes /\ ring.readPos \in Nat /\ ring.writePos \in Nat
      /\ ring.readPos < ring.size /\ ring.writePos < ring.size
  BY DEF TypeOK, Block
<1>2. \A n \in Sizes : n \in Nat /\ n # 0 /\ n # 1
  BY SizesAssumption
<1> QED BY <1>1, <1>2

\* Init establishes the invariant (SerialBuffer.h:166-170).
LEMMA InitInv == Init => RingInv
<1> SUFFICES ASSUME Init PROVE RingInv
  OBVIOUS
<1> PICK n \in Sizes : ring = NewSerialBuffer(n)
  BY DEF Init
<1>1. n \in Nat /\ n >= 2
  BY SizesAssumption
<1>2. ring.buffer \in [0..(n - 1) -> Nat] /\ ring.size = n
  BY <1>1 DEF NewSerialBuffer, Unwritten
<1>3. TypeOK
  BY <1>1, <1>2 DEF Init, TypeOK, Block, NewSerialBuffer, NoChar
<1> QED
  BY <1>3 DEF Init, RingInv, WriterOwnsSlot, FetchedIsOldest

\* Every step of the two users, and every clear and fitting resize, preserves it.
LEMMA NextInv == RingInv /\ [Next]_vars => RingInv'
<1> SUFFICES ASSUME RingInv, [Next]_vars PROVE RingInv'
  OBVIOUS
<1> USE DEF RingInv
<1>r. /\ ring.size \in Nat /\ ring.size >= 2
      /\ ring.readPos \in Nat /\ ring.readPos < ring.size
      /\ ring.writePos \in Nat /\ ring.writePos < ring.size
  BY RingIsRecord
<1>1. ASSUME NEW c \in Chars, WriteTest(c) PROVE RingInv'
  BY <1>1, <1>r DEF WriteTest, TypeOK, Block, WriterOwnsSlot, FetchedIsOldest, hasRoom, isEmpty, getNextPos
<1>2. CASE WriteStore
  <2>1. wchar \in Nat
    BY <1>2, CharsAssumption DEF WriteStore, WriterOwnsSlot
  <2>2. TypeOK'
    <3>1. ring'.buffer \in [0..(ring.size - 1) -> Nat]
      BY <1>2, <1>r, <2>1 DEF WriteStore, TypeOK, Block, storeChar
    <3>2. ring'.size = ring.size
      BY <1>2 DEF WriteStore, TypeOK, Block, storeChar
    <3>3. ring' \in [size : Sizes, readPos : Nat, writePos : Nat, buffer : Block(ring'.size)]
      BY <1>2, <3>1, <3>2 DEF WriteStore, TypeOK, Block, storeChar
    <3> QED
      BY <1>2, <1>r, <3>1, <3>3 DEF WriteStore, TypeOK, Block, storeChar
  <2>3. WriterOwnsSlot'
    BY <1>2, <1>r, <2>1 DEF WriteStore, TypeOK, Block, storeChar, WriterOwnsSlot, hasRoom, getNextPos
  <2>4. FetchedIsOldest'
    BY <1>2, <1>r, <2>1 DEF WriteStore, TypeOK, Block, storeChar, FetchedIsOldest, isEmpty
  <2> QED BY <2>2, <2>3, <2>4
<1>3. CASE WritePublish
  <2>1. TypeOK'
    BY <1>3, <1>r DEF WritePublish, TypeOK, Block, advanceWrite, getNextPos
  <2>2. WriterOwnsSlot'
    BY <1>3 DEF WritePublish, WriterOwnsSlot
  <2>3. FetchedIsOldest'
    BY <1>3, <1>r DEF WritePublish, TypeOK, Block, advanceWrite, getNextPos, WriterOwnsSlot,
                     FetchedIsOldest, isEmpty, hasRoom
  <2> QED BY <2>1, <2>2, <2>3
<1>4. CASE ReadFetch
  BY <1>4, <1>r DEF ReadFetch, TypeOK, Block, WriterOwnsSlot, FetchedIsOldest, isEmpty, hasRoom, getNextPos
<1>5. CASE ReadAdvance
  <2>1. TypeOK'
    BY <1>5, <1>r DEF ReadAdvance, TypeOK, Block, advanceRead, getNextPos
  <2>2. WriterOwnsSlot'
    BY <1>5, <1>r DEF ReadAdvance, TypeOK, Block, advanceRead, getNextPos, WriterOwnsSlot, hasRoom,
                     FetchedIsOldest, isEmpty
  <2>3. FetchedIsOldest'
    BY <1>5 DEF ReadAdvance, FetchedIsOldest
  <2> QED BY <2>1, <2>2, <2>3
<1>6. CASE Clear
  <2>1. ring' = [size |-> ring.size, readPos |-> 0, writePos |-> 0, buffer |-> ring.buffer]
    BY <1>6 DEF Clear, clear, TypeOK, Block
  <2> QED
    BY <1>6, <1>r, <2>1 DEF Clear, Quiet, TypeOK, Block, WriterOwnsSlot, FetchedIsOldest
<1>7. ASSUME NEW n \in Sizes, ResizeToFit(n) PROVE RingInv'
  <2>1. n \in Nat /\ n >= 2
    BY SizesAssumption
  <2>2. available(ring) \in 0..(ring.size - 1) /\ available(ring) < n
    BY <1>7, <1>r DEF ResizeToFit, available
  <2>3. \A i \in 1..available(ring) : contents(ring)[i] \in Nat
    <3>1. TAKE i \in 1..available(ring)
    <3>2. slotOf(ring, i) \in 0..(ring.size - 1)
      BY <1>r, <2>2 DEF slotOf
    <3>3. contents(ring)[i] = ring.buffer[slotOf(ring, i)]
      BY DEF contents
    <3> QED BY <3>2, <3>3 DEF TypeOK, Block
  <2>4. TypeOK'
    <3>1. CASE n = ring.size
      BY <1>7, <3>1 DEF ResizeToFit, Resize, resize, TypeOK, Block
    <3>2. CASE n # ring.size
      <4>1. ring' = [size |-> n, readPos |-> 0, writePos |-> available(ring),
                     buffer |-> [i \in 0..(n - 1) |->
                       IF i < available(ring) THEN contents(ring)[i + 1] ELSE Unwritten]]
        BY <1>7, <2>2, <3>2 DEF ResizeToFit, Resize, resize
      <4>2. ring'.buffer \in [0..(n - 1) -> Nat]
        BY <2>1, <2>2, <2>3, <4>1 DEF Unwritten
      <4>3. ring'.size = n
        BY <4>1
      <4>4. ring' \in [size : Sizes, readPos : Nat, writePos : Nat, buffer : Block(ring'.size)]
        BY <2>2, <4>1, <4>2, <4>3 DEF Block
      <4> QED
        BY <1>7, <2>1, <2>2, <4>1, <4>2, <4>4 DEF ResizeToFit, Resize, TypeOK, Block
    <3> QED BY <3>1, <3>2
  <2> QED BY <1>7, <2>4 DEF ResizeToFit, Resize, Quiet, WriterOwnsSlot, FetchedIsOldest
<1>8. CASE UNCHANGED vars
  BY <1>8 DEF vars, TypeOK, Block, WriterOwnsSlot, FetchedIsOldest, hasRoom, isEmpty, getNextPos
<1> QED BY <1>1, <1>2, <1>3, <1>4, <1>5, <1>6, <1>7, <1>8 DEF Next, RingStep

\* The invariant holds throughout every behaviour of the ring.
THEOREM RingInvariant == Spec => []RingInv
<1> QED BY InitInv, NextInv, PTL DEF Spec

\* The positions stay inside the block and the block keeps its size, however
\* the handler and the task interleave (SerialBuffer.h:80-98).
THEOREM RingTypeCorrect == Spec => []TypeOK
<1>1. RingInv => TypeOK
  BY DEF RingInv
<1> QED BY <1>1, RingInvariant, PTL

\* The slot the writer works on is never one the reader may take
\* (SerialBuffer.h:90-98).
THEOREM WriterAlwaysOwnsSlot == Spec => []WriterOwnsSlot
<1>1. RingInv => WriterOwnsSlot
  BY DEF RingInv
<1> QED BY <1>1, RingInvariant, PTL

\* A fetched character stays the oldest one until its slot is freed
\* (SerialBuffer.h:80-88).
THEOREM FetchedAlwaysOldest == Spec => []FetchedIsOldest
<1>1. RingInv => FetchedIsOldest
  BY DEF RingInv
<1> QED BY <1>1, RingInvariant, PTL

\* available() and getFreeSpace() account for every slot but one
\* (SerialBuffer.h:34-51).
THEOREM SpaceAlwaysAccounted == Spec => []SpaceAccounted
<1>1. RingInv => SpaceAccounted
  BY RingIsRecord DEF RingInv, SpaceAccounted, available, getFreeSpace
<1> QED BY <1>1, RingInvariant, PTL

-----------------------------------------------------------------------------
(* The refinement *)

\* The characters held are a sequence of available() natural numbers.
LEMMA ContentsIsSeq ==
  ASSUME TypeOK
  PROVE  /\ available(ring) \in 0..(ring.size - 1)
         /\ contents(ring) \in Seq(Nat)
         /\ Len(contents(ring)) = available(ring)
         /\ \A i \in 1..available(ring) :
               /\ slotOf(ring, i) \in 0..(ring.size - 1)
               /\ contents(ring)[i] = ring.buffer[slotOf(ring, i)]
<1>1. /\ ring.size \in Nat /\ ring.size >= 2
      /\ ring.readPos \in Nat /\ ring.readPos < ring.size
      /\ ring.writePos \in Nat /\ ring.writePos < ring.size
  BY RingIsRecord
<1>2. available(ring) \in 0..(ring.size - 1)
  BY <1>1 DEF available
<1>3. \A i \in 1..available(ring) : slotOf(ring, i) \in 0..(ring.size - 1)
  BY <1>1, <1>2 DEF slotOf
<1>4. \A i \in 1..available(ring) : ring.buffer[slotOf(ring, i)] \in Nat
  BY <1>3 DEF TypeOK, Block
<1>5. contents(ring) \in [1..available(ring) -> Nat]
  BY <1>4 DEF contents
<1>6. \A i \in 1..available(ring) : contents(ring)[i] = ring.buffer[slotOf(ring, i)]
  BY DEF contents
<1> QED BY <1>2, <1>3, <1>5, <1>6

\* Storing into the writer's slot does not show (SerialBuffer.h:95).
LEMMA StoreInvisible ==
  ASSUME RingInv, WriteStore
  PROVE  contents(ring)' = contents(ring)
<1>1. /\ ring.size \in Nat /\ ring.size >= 2
      /\ ring.readPos \in Nat /\ ring.readPos < ring.size
      /\ ring.writePos \in Nat /\ ring.writePos < ring.size
  BY RingIsRecord DEF RingInv
<1>2. /\ ring'.size = ring.size /\ ring'.readPos = ring.readPos /\ ring'.writePos = ring.writePos
      /\ ring'.buffer = [ring.buffer EXCEPT ![ring.writePos] = wchar]
  BY DEF WriteStore, storeChar, RingInv, TypeOK, Block
<1>3. available(ring') = available(ring) /\ \A i : slotOf(ring', i) = slotOf(ring, i)
  BY <1>2 DEF available, slotOf
<1>4. \A i \in 1..available(ring) : slotOf(ring, i) # ring.writePos
  BY <1>1 DEF available, slotOf
<1>5. \A i \in 1..available(ring) : ring'.buffer[slotOf(ring, i)] = ring.buffer[slotOf(ring, i)]
  BY <1>2, <1>4, ContentsIsSeq DEF RingInv, TypeOK, Block
<1> QED BY <1>3, <1>5 DEF contents

\* Publishing writePos appends the stored character (SerialBuffer.h:96).
LEMMA PublishAppends ==
  ASSUME RingInv, WritePublish
  PROVE  contents(ring)' = Append(contents(ring), wchar) /\ available(ring) < ring.size - 1
<1>1. /\ ring.size \in Nat /\ ring.size >= 2
      /\ ring.readPos \in Nat /\ ring.readPos < ring.size
      /\ ring.writePos \in Nat /\ ring.writePos < ring.size
  BY RingIsRecord DEF RingInv
<1>2. /\ ring'.size = ring.size /\ ring'.readPos = ring.readPos /\ ring'.buffer = ring.buffer
      /\ ring'.writePos = getNextPos(ring, ring.writePos)
  BY DEF WritePublish, advanceWrite, RingInv, TypeOK, Block
<1>3. hasRoom(ring) /\ ring.buffer[ring.writePos] = wchar
  BY DEF WritePublish, RingInv, WriterOwnsSlot
<1>4. available(ring') = available(ring) + 1 /\ available(ring) < ring.size - 1
  BY <1>1, <1>2, <1>3 DEF available, getNextPos, hasRoom
<1>5. /\ \A i : slotOf(ring', i) = slotOf(ring, i)
      /\ slotOf(ring, available(ring) + 1) = ring.writePos
  BY <1>1, <1>2 DEF slotOf, available
<1>6. contents(ring') = [i \in 1..(available(ring) + 1) |-> ring.buffer[slotOf(ring, i)]]
  BY <1>2, <1>4, <1>5 DEF contents
<1>7. contents(ring) \in Seq(Nat) /\ Len(contents(ring)) = available(ring)
      /\ available(ring) \in Nat
  BY ContentsIsSeq DEF RingInv
<1>8. \A i \in 1..available(ring) : contents(ring)[i] = ring.buffer[slotOf(ring, i)]
  BY ContentsIsSeq DEF RingInv
<1>9. wchar \in Nat /\ contents(ring') \in Seq(Nat)
  <2>1. wchar \in Nat
    BY CharsAssumption DEF WritePublish, RingInv, WriterOwnsSlot
  <2>2. \A i \in 1..(available(ring) + 1) : ring.buffer[slotOf(ring, i)] \in Nat
    BY <1>3, <1>5, <1>7, <1>8, <2>1
  <2> QED BY <1>6, <1>7, <2>1, <2>2
<1>10. /\ Append(contents(ring), wchar) \in Seq(Nat)
       /\ Len(Append(contents(ring), wchar)) = available(ring) + 1
       /\ \A i \in 1..available(ring) : Append(contents(ring), wchar)[i] = contents(ring)[i]
       /\ Append(contents(ring), wchar)[available(ring) + 1] = wchar
  BY <1>7, <1>9, AppendProperties
<1>11. Len(contents(ring')) = available(ring) + 1
  BY <1>6, <1>7
<1>12. \A i \in 1..(available(ring) + 1) : contents(ring')[i] = Append(contents(ring), wchar)[i]
  BY <1>3, <1>5, <1>6, <1>7, <1>8, <1>10
<1>13. contents(ring') = Append(contents(ring), wchar)
  BY <1>9, <1>10, <1>11, <1>12, SeqEqual
<1> QED BY <1>4, <1>13

\* Moving readPos removes the fetched character (SerialBuffer.h:86).
LEMMA AdvanceRemoves ==
  ASSUME RingInv, ReadAdvance
  PROVE  contents(ring) # <<>> /\ rchar = Head(contents(ring)) /\ contents(ring)' = Tail(contents(ring))
<1>1. /\ ring.size \in Nat /\ ring.size >= 2
      /\ ring.readPos \in Nat /\ ring.readPos < ring.size
      /\ ring.writePos \in Nat /\ ring.writePos < ring.size
  BY RingIsRecord DEF RingInv
<1>2. /\ ring'.size = ring.size /\ ring'.writePos = ring.writePos /\ ring'.buffer = ring.buffer
      /\ ring'.readPos = getNextPos(ring, ring.readPos)
  BY DEF ReadAdvance, advanceRead, RingInv, TypeOK, Block
<1>3. ~isEmpty(ring) /\ rchar = ring.buffer[ring.readPos]
  BY DEF ReadAdvance, RingInv, FetchedIsOldest
<1>4. available(ring) > 0 /\ available(ring') = available(ring) - 1
  BY <1>1, <1>2, <1>3 DEF available, getNextPos, isEmpty
<1>5. \A i \in 1..(available(ring) - 1) : slotOf(ring', i) = slotOf(ring, i + 1)
  BY <1>1, <1>2 DEF available, slotOf, getNextPos
<1>6. slotOf(ring, 1) = ring.readPos
  BY <1>1 DEF slotOf
<1>7. contents(ring) \in Seq(Nat) /\ Len(contents(ring)) = available(ring)
      /\ available(ring) \in Nat
  BY ContentsIsSeq DEF RingInv
<1>8. \A i \in 1..available(ring) : contents(ring)[i] = ring.buffer[slotOf(ring, i)]
  BY ContentsIsSeq DEF RingInv
<1>9. contents(ring') = [i \in 1..(available(ring) - 1) |-> ring.buffer[slotOf(ring, i + 1)]]
  BY <1>2, <1>4, <1>5 DEF contents
<1>10. /\ Tail(contents(ring)) \in Seq(Nat)
       /\ Len(Tail(contents(ring))) = available(ring) - 1
       /\ \A i \in 1..(available(ring) - 1) : Tail(contents(ring))[i] = contents(ring)[i + 1]
  <2>1. contents(ring) # <<>>
    BY <1>4, <1>7
  <2> QED BY <1>7, <2>1, HeadTailProperties
<1>11. contents(ring') \in Seq(Nat) /\ Len(contents(ring')) = available(ring) - 1
  <2>1. \A i \in 1..(available(ring) - 1) : ring.buffer[slotOf(ring, i + 1)] \in Nat
    <3>1. TAKE i \in 1..(available(ring) - 1)
    <3>2. i + 1 \in 1..available(ring)
      BY <1>7
    <3> QED BY <1>7, <1>8, <3>2
  <2>2. contents(ring') \in [1..(available(ring) - 1) -> Nat]
    BY <1>9, <2>1
  <2>3. available(ring) - 1 \in Nat
    BY <1>4, <1>7
  <2> QED BY <2>2, <2>3
<1>12. \A i \in 1..(available(ring) - 1) : contents(ring')[i] = Tail(contents(ring))[i]
  <2>1. TAKE i \in 1..(available(ring) - 1)
  <2>2. i + 1 \in 1..available(ring)
    BY <1>7
  <2>3. contents(ring)[i + 1] = ring.buffer[slotOf(ring, i + 1)]
    BY <1>8, <2>2
  <2> QED BY <1>9, <1>10, <2>3
<1>13. contents(ring') = Tail(contents(ring))
  BY <1>10, <1>11, <1>12, SeqEqual
<1> QED BY <1>3, <1>4, <1>6, <1>7, <1>8, <1>13

\* A resize with room for what the ring holds keeps it (SerialBuffer.h:134-143).
LEMMA ResizeKeeps ==
  ASSUME RingInv, NEW n \in Sizes, ResizeToFit(n)
  PROVE  contents(ring)' = contents(ring) /\ ring'.size = n /\ available(ring) < n
<1>1. n \in Nat /\ n >= 2 /\ available(ring) < n
  BY SizesAssumption DEF ResizeToFit
<1>2. CASE n = ring.size
  BY <1>1, <1>2 DEF ResizeToFit, Resize, resize
<1>3. CASE n # ring.size
  <2>1. available(ring) \in Nat
    BY ContentsIsSeq DEF RingInv
  <2>2. ring' = [size |-> n, readPos |-> 0, writePos |-> available(ring),
                 buffer |-> [i \in 0..(n - 1) |->
                   IF i < available(ring) THEN contents(ring)[i + 1] ELSE Unwritten]]
    BY <1>1, <1>3 DEF ResizeToFit, Resize, resize
  <2>3. available(ring') = available(ring) /\ ring'.size = n
    BY <2>1, <2>2 DEF available
  <2>4. \A i \in 1..available(ring) : slotOf(ring', i) = i - 1
    BY <1>1, <2>1, <2>2 DEF slotOf
  <2>5. \A i \in 1..available(ring) : ring'.buffer[i - 1] = contents(ring)[i]
    BY <1>1, <2>1, <2>2
  <2>6. contents(ring') = [i \in 1..available(ring) |-> contents(ring)[i]]
    BY <2>3, <2>4, <2>5 DEF contents
  <2>7. contents(ring) = [i \in 1..available(ring) |-> contents(ring)[i]]
    BY DEF contents
  <2> QED BY <1>1, <2>3, <2>6, <2>7
<1> QED BY <1>2, <1>3

\* A ring whose positions are equal holds nothing.
LEMMA EmptyContents ==
  ASSUME NEW b, b.readPos \in Nat, b.writePos = b.readPos
  PROVE  contents(b) = <<>>
<1>1. available(b) = 0
  BY DEF available
<1>2. contents(b) = [i \in 1..0 |-> b.buffer[slotOf(b, i)]]
  BY <1>1 DEF contents
<1> QED BY <1>2

\* Initial rings map to initial queues.
LEMMA InitRefines == Init => Fifo!FifoInit
<1> SUFFICES ASSUME Init PROVE Fifo!FifoInit
  OBVIOUS
<1>1. PICK n \in Sizes : ring = NewSerialBuffer(n)
  BY DEF Init
<1>2. n \in Nat /\ n >= 2 /\ ring.size = n /\ ring.readPos = 0 /\ ring.writePos = 0
  BY <1>1, SizesAssumption DEF NewSerialBuffer
<1>3. contents(ring) = <<>>
  BY <1>2, EmptyContents
<1> QED BY <1>2, <1>3 DEF Fifo!FifoInit, Init, NoChar

\* Every step of the ring maps to a step of the queue or to a stutter.
LEMMA StepRefines == RingInv /\ [Next]_vars => [Fifo!FifoNext]_(Fifo!fifoVars)
<1> SUFFICES ASSUME RingInv, [Next]_vars PROVE [Fifo!FifoNext]_(Fifo!fifoVars)
  OBVIOUS
<1>1. ASSUME NEW c \in Chars, WriteTest(c) PROVE UNCHANGED Fifo!fifoVars
  BY <1>1 DEF WriteTest, Fifo!fifoVars
<1>2. CASE WriteStore
  <2>1. ring'.size = ring.size
    BY <1>2 DEF WriteStore, storeChar, RingInv, TypeOK, Block
  <2> QED BY <1>2, <2>1, StoreInvisible DEF WriteStore, Fifo!fifoVars
<1>3. CASE WritePublish
  <2>1. contents(ring)' = Append(contents(ring), wchar) /\ available(ring) < ring.size - 1
    BY <1>3, PublishAppends
  <2>2. ring'.size = ring.size
    BY <1>3 DEF WritePublish, advanceWrite, RingInv, TypeOK, Block
  <2>3. wchar \in Chars /\ Len(contents(ring)) = available(ring)
    BY <1>3, ContentsIsSeq DEF WritePublish, RingInv, WriterOwnsSlot
  <2>4. Fifo!Put(wchar)
    BY <1>3, <2>1, <2>2, <2>3 DEF Fifo!Put, WritePublish
  <2> QED BY <2>3, <2>4 DEF Fifo!FifoNext
<1>4. CASE ReadFetch
  BY <1>4 DEF ReadFetch, Fifo!fifoVars
<1>5. CASE ReadAdvance
  <2>1. ring'.size = ring.size
    BY <1>5 DEF ReadAdvance, advanceRead, RingInv, TypeOK, Block
  <2>2. Fifo!Get
    BY <1>5, <2>1, AdvanceRemoves DEF Fifo!Get, ReadAdvance
  <2> QED BY <2>2 DEF Fifo!FifoNext
<1>6. CASE Clear
  <2>1. ring'.size = ring.size /\ ring'.readPos = 0 /\ ring'.writePos = 0
    BY <1>6 DEF Clear, clear, RingInv, TypeOK, Block
  <2>2. Fifo!Clear
    BY <1>6, <2>1, EmptyContents DEF Fifo!Clear, Clear
  <2> QED BY <2>2 DEF Fifo!FifoNext
<1>7. ASSUME NEW n \in Sizes, ResizeToFit(n) PROVE Fifo!FifoNext
  <2>1. contents(ring)' = contents(ring) /\ ring'.size = n /\ available(ring) < n
    BY <1>7, ResizeKeeps
  <2>2. Len(contents(ring)) = available(ring) /\ available(ring) \in Nat
    BY ContentsIsSeq DEF RingInv
  <2>3. n \in Nat /\ n >= 2
    BY SizesAssumption
  <2>4. Fifo!SetCapacity
    BY <1>7, <2>1, <2>2, <2>3 DEF Fifo!SetCapacity, ResizeToFit, Resize
  <2> QED BY <2>4 DEF Fifo!FifoNext
<1>8. CASE UNCHANGED vars
  BY <1>8 DEF vars, Fifo!fifoVars
<1> QED BY <1>1, <1>2, <1>3, <1>4, <1>5, <1>6, <1>7, <1>8 DEF Next, RingStep

\* The ring shared by the handler and the task, with its operations split at
\* every access, implements the bounded first-in first-out queue.
THEOREM RingImplementsFifo == Spec => FifoRefined
<1> QED BY InitRefines, StepRefines, RingInvariant, PTL DEF Spec, FifoRefined, Fifo!FifoSpec

-----------------------------------------------------------------------------
(* The queries.  find() is a recursive function, so its value is that of the *)
(* CHOOSE in the meaning of such a definition.  The recursion equation is    *)
(* shown to have a solution, written without recursion, and no other.        *)

\* A set of naturals that is not empty has a least element.
LEMMA LeastNat ==
  ASSUME NEW T, T \subseteq Nat, T # {}
  PROVE  \E n \in T : \A m \in T : n <= m
<1>1. PICK n \in T : \A m \in T : <<m, n>> \notin OpToRel(<, Nat)
  BY NatLessThanWellFounded, WFMin
<1>2. \A m \in T : ~(m < n)
  BY <1>1 DEF OpToRel
<1> QED
  BY <1>2

\* Are the positions of b inside its block?
IsRing(b) ==
  /\ b.size \in Nat /\ b.size > 0
  /\ b.readPos \in Nat /\ b.readPos < b.size
  /\ b.writePos \in Nat /\ b.writePos < b.size

\* The positions and offsets a scan may be at.
ScanDom(b) == (0..b.size) \X ((-b.size)..b.size)

\* One turn of the loop of find() (SerialBuffer.h:109-119), where f tells what
\* the turns after it return.
Turn(b, c, f, pos, offset) ==
    IF pos >= available(b) THEN -1
    ELSE IF b.buffer[offset + pos] = c THEN pos
    ELSE IF pos + 1 + offset = b.writePos THEN -1
    ELSE IF pos + 1 + offset = b.size THEN f[<<pos + 1, -(pos + 1)>>]
    ELSE f[<<pos + 1, offset>>]

\* Does f satisfy the recursion equation of find()?
IsScan(b, c, f) == f = [at \in ScanDom(b) |-> Turn(b, c, f, at[1], at[2])]

\* The slot that a scan which is at pos with offset examines when it comes to k.
SlotAt(b, pos, offset, k) ==
    IF pos + offset < b.size /\ offset + k >= b.size THEN offset + k - b.size ELSE offset + k

\* Is the character at k the one looked for?
Hit(b, c, pos, offset, k) == b.buffer[SlotAt(b, pos, offset, k)] = c

\* Does the scan go on after k?
Passed(b, c, pos, offset, k) ==
    ~Hit(b, c, pos, offset, k) /\ SlotAt(b, pos, offset, k) + 1 # b.writePos

\* The hit the scan stops at, if it stops at one.
Hits(b, c, pos, offset) ==
    {k \in pos..(available(b) - 1) :
        Hit(b, c, pos, offset, k) /\ \A j \in pos..(k - 1) : Passed(b, c, pos, offset, j)}

\* What the scan returns, without recursion; Solution is the function of it.
Result(b, c, pos, offset) ==
    IF Hits(b, c, pos, offset) = {} THEN -1 ELSE CHOOSE k \in Hits(b, c, pos, offset) : TRUE

Solution(b, c) == [at \in ScanDom(b) |-> Result(b, c, at[1], at[2])]

\* A ring holds fewer characters than it has slots (SerialBuffer.h:34-40).
LEMMA AvailableType == ASSUME NEW b, IsRing(b) PROVE available(b) \in 0..(b.size - 1)
  BY DEF IsRing, available

\* The slot examined first.
LEMMA SlotFirst ==
  ASSUME NEW b, IsRing(b), NEW pos \in 0..b.size, NEW offset \in (-b.size)..b.size
  PROVE  SlotAt(b, pos, offset, pos) = offset + pos
  BY DEF IsRing, SlotAt

\* A turn that keeps the offset leaves the slots still to be examined the same.
LEMMA SlotGoesOn ==
  ASSUME NEW b, IsRing(b), NEW pos \in 0..b.size, NEW offset \in (-b.size)..b.size,
         pos + 1 + offset # b.size, NEW k \in (pos + 1)..(available(b) - 1)
  PROVE  SlotAt(b, pos + 1, offset, k) = SlotAt(b, pos, offset, k)
  BY AvailableType DEF IsRing, SlotAt

\* So does the turn at the last slot, by its negative offset (SerialBuffer.h:117-118).
LEMMA SlotWraps ==
  ASSUME NEW b, IsRing(b), NEW pos \in 0..b.size, NEW offset \in (-b.size)..b.size,
         pos + 1 + offset = b.size, NEW k \in (pos + 1)..(available(b) - 1)
  PROVE  SlotAt(b, pos + 1, -(pos + 1), k) = SlotAt(b, pos, offset, k)
  BY AvailableType DEF IsRing, SlotAt

\* A turn that neither hits nor reaches writePos leaves the hit to the next turn.
LEMMA HitsGoOn ==
  ASSUME NEW b, IsRing(b), NEW c, NEW pos \in 0..b.size, NEW offset \in Int, NEW next \in Int,
         pos < available(b), Passed(b, c, pos, offset, pos),
         \A k \in (pos + 1)..(available(b) - 1) : SlotAt(b, pos + 1, next, k) = SlotAt(b, pos, offset, k)
  PROVE  Hits(b, c, pos + 1, next) = Hits(b, c, pos, offset)
<1>0. available(b) \in Nat /\ pos \in Nat
  BY AvailableType DEF IsRing
<1>1. \A k \in (pos + 1)..(available(b) - 1) :
        /\ Hit(b, c, pos + 1, next, k) <=> Hit(b, c, pos, offset, k)
        /\ Passed(b, c, pos + 1, next, k) <=> Passed(b, c, pos, offset, k)
  BY DEF Hit, Passed
<1>2. ~Hit(b, c, pos, offset, pos)
  BY DEF Passed
<1>3. ASSUME NEW k \in (pos + 1)..(available(b) - 1)
      PROVE  (\A j \in (pos + 1)..(k - 1) : Passed(b, c, pos + 1, next, j))
               <=> (\A j \in pos..(k - 1) : Passed(b, c, pos, offset, j))
  <2>1. \A j \in pos..(k - 1) : j = pos \/ j \in (pos + 1)..(k - 1)
    BY <1>0
  <2>2. \A j \in (pos + 1)..(k - 1) : j \in pos..(k - 1) /\ j \in (pos + 1)..(available(b) - 1)
    BY <1>0
  <2> QED
    BY <1>1, <2>1, <2>2
<1>4. \A k \in pos..(available(b) - 1) : k = pos \/ k \in (pos + 1)..(available(b) - 1)
  BY <1>0
<1>5. \A k \in (pos + 1)..(available(b) - 1) : k \in pos..(available(b) - 1)
  BY <1>0
<1>6. \A k : k \in Hits(b, c, pos + 1, next) <=> k \in Hits(b, c, pos, offset)
  BY <1>1, <1>2, <1>3, <1>4, <1>5 DEF Hits
<1> QED
  BY <1>6

\* Result satisfies the recursion, case by case of a turn.
LEMMA ResultTurn ==
  ASSUME NEW b, IsRing(b), NEW c, NEW pos \in 0..b.size, NEW offset \in (-b.size)..b.size
  PROVE  Result(b, c, pos, offset) = Turn(b, c, Solution(b, c), pos, offset)
<1>0. available(b) \in Nat /\ available(b) < b.size /\ b.size \in Nat /\ pos \in Nat /\ offset \in Int
  BY AvailableType DEF IsRing
<1>s. \A p \in 0..b.size, o \in (-b.size)..b.size : Solution(b, c)[<<p, o>>] = Result(b, c, p, o)
  BY DEF Solution, ScanDom
<1>1. CASE pos >= available(b)
  <2>1. Hits(b, c, pos, offset) = {}
    BY <1>0, <1>1 DEF Hits
  <2> QED
    BY <1>1, <2>1 DEF Result, Turn
<1>2. CASE pos < available(b) /\ b.buffer[offset + pos] = c
  <2>1. Hit(b, c, pos, offset, pos)
    BY <1>2, SlotFirst DEF Hit
  <2>2. pos \in Hits(b, c, pos, offset)
    BY <1>0, <1>2, <2>1 DEF Hits
  <2>3. ASSUME NEW k \in Hits(b, c, pos, offset) PROVE k = pos
    <3>1. CASE k > pos
      BY <1>0, <2>1, <3>1 DEF Hits, Passed
    <3>2. k \in pos..(available(b) - 1)
      BY DEF Hits
    <3> QED
      BY <1>0, <3>1, <3>2
  <2> QED
    BY <1>0, <1>2, <2>2, <2>3 DEF Result, Turn
<1>3. CASE pos < available(b) /\ b.buffer[offset + pos] # c /\ pos + 1 + offset = b.writePos
  <2>1. ~Hit(b, c, pos, offset, pos) /\ ~Passed(b, c, pos, offset, pos)
    BY <1>0, <1>3, SlotFirst DEF Hit, Passed
  <2>2. ASSUME NEW k \in Hits(b, c, pos, offset) PROVE FALSE
    <3>1. k \in pos..(available(b) - 1) /\ Hit(b, c, pos, offset, k)
          /\ \A j \in pos..(k - 1) : Passed(b, c, pos, offset, j)
      BY DEF Hits
    <3>2. k # pos
      BY <2>1, <3>1
    <3>3. pos \in pos..(k - 1)
      BY <1>0, <3>1, <3>2
    <3> QED
      BY <2>1, <3>1, <3>3
  <2> QED
    BY <1>0, <1>3, <2>2 DEF Result, Turn
<1>4. CASE pos < available(b) /\ b.buffer[offset + pos] # c /\ pos + 1 + offset # b.writePos
  <2>1. Passed(b, c, pos, offset, pos)
    BY <1>0, <1>4, SlotFirst DEF Hit, Passed
  <2>2. CASE pos + 1 + offset = b.size
    <3>1. Hits(b, c, pos + 1, -(pos + 1)) = Hits(b, c, pos, offset)
      BY <1>0, <1>4, <2>1, <2>2, SlotWraps, HitsGoOn
    <3>2. Solution(b, c)[<<pos + 1, -(pos + 1)>>] = Result(b, c, pos + 1, -(pos + 1))
      <4>1. pos + 1 \in 0..b.size /\ -(pos + 1) \in (-b.size)..b.size
        BY <1>0, <1>4
      <4> QED BY <1>s, <4>1
    <3>3. Turn(b, c, Solution(b, c), pos, offset) = Solution(b, c)[<<pos + 1, -(pos + 1)>>]
      BY <1>0, <1>4, <2>2 DEF Turn
    <3> QED
      BY <3>1, <3>2, <3>3 DEF Result
  <2>3. CASE pos + 1 + offset # b.size
    <3>1. Hits(b, c, pos + 1, offset) = Hits(b, c, pos, offset)
      BY <1>0, <1>4, <2>1, <2>3, SlotGoesOn, HitsGoOn
    <3>2. Solution(b, c)[<<pos + 1, offset>>] = Result(b, c, pos + 1, offset)
      BY <1>0, <1>4, <1>s
    <3>3. Turn(b, c, Solution(b, c), pos, offset) = Solution(b, c)[<<pos + 1, offset>>]
      BY <1>0, <1>4, <2>3 DEF Turn
    <3> QED
      BY <3>1, <3>2, <3>3 DEF Result
  <2> QED
    BY <2>2, <2>3
<1> QED
  BY <1>0, <1>1, <1>2, <1>3, <1>4

\* So the recursion has a solution,
LEMMA SolutionIsScan ==
  ASSUME NEW b, IsRing(b), NEW c PROVE IsScan(b, c, Solution(b, c))
<1>1. \A at \in ScanDom(b) : Result(b, c, at[1], at[2]) = Turn(b, c, Solution(b, c), at[1], at[2])
  BY ResultTurn DEF ScanDom
<1> QED
  BY <1>1 DEF IsScan, Solution

\* every solution of it obeys the equation at every point,
LEMMA ScanTurn ==
  ASSUME NEW b, IsRing(b), NEW c, NEW f, IsScan(b, c, f),
         NEW pos \in 0..b.size, NEW offset \in (-b.size)..b.size
  PROVE  f[<<pos, offset>>] = Turn(b, c, f, pos, offset)
<1>1. <<pos, offset>> \in ScanDom(b)
  BY DEF ScanDom
<1> QED
  BY <1>1 DEF IsScan

\* and there is only one: at the last point where two differed they would be
\* equal one turn later, and so there too.
LEMMA ScanUnique ==
  ASSUME NEW b, IsRing(b), NEW c, NEW f, IsScan(b, c, f), NEW g, IsScan(b, c, g)
  PROVE  f = g
<1> DEFINE Differ(n) == \E offset \in (-b.size)..b.size :
                          f[<<b.size - n, offset>>] # g[<<b.size - n, offset>>]
           T == {n \in 0..b.size : Differ(n)}
<1>0. b.size \in Nat /\ available(b) \in 0..(b.size - 1)
  BY AvailableType DEF IsRing
<1>1. T = {}
  <2> SUFFICES ASSUME T # {} PROVE FALSE
    OBVIOUS
  <2>1. T \subseteq Nat
    BY <1>0
  <2> HIDE DEF T
  <2>2. PICK n \in T : \A m \in T : n <= m
    BY <2>1, LeastNat
  <2> USE DEF T
  <2>3. n \in 0..b.size /\ Differ(n)
    OBVIOUS
  <2>4. PICK offset \in (-b.size)..b.size : f[<<b.size - n, offset>>] # g[<<b.size - n, offset>>]
    BY <2>3
  <2> DEFINE pos == b.size - n
  <2>5. pos \in 0..b.size
    BY <1>0, <2>3
  <2>6. f[<<pos, offset>>] = Turn(b, c, f, pos, offset) /\ g[<<pos, offset>>] = Turn(b, c, g, pos, offset)
    BY <2>5, ScanTurn
  <2>7. CASE pos >= available(b)
    BY <2>4, <2>6, <2>7 DEF Turn
  <2>8. CASE pos < available(b)
    <3>1. n - 1 \in 0..b.size /\ n - 1 \notin T
      <4>1. n - 1 \in 0..b.size /\ ~(n <= n - 1)
        BY <1>0, <2>3, <2>8
      <4> QED BY <2>2, <4>1
    <3>2. \A o \in (-b.size)..b.size : f[<<pos + 1, o>>] = g[<<pos + 1, o>>]
      <4>1. b.size - (n - 1) = pos + 1
        BY <1>0, <2>3
      <4> QED BY <3>1, <4>1
    <3>3. -(pos + 1) \in (-b.size)..b.size
      BY <1>0, <2>5, <2>8
    <3> QED
      BY <2>4, <2>6, <3>2, <3>3 DEF Turn
  <2> QED
    BY <1>0, <2>5, <2>7, <2>8
<1>2. \A at \in ScanDom(b) : f[at] = g[at]
  <2> SUFFICES ASSUME NEW at \in ScanDom(b) PROVE f[at] = g[at]
    OBVIOUS
  <2>1. at = <<at[1], at[2]>> /\ at[1] \in 0..b.size /\ at[2] \in (-b.size)..b.size
    BY DEF ScanDom
  <2>2. b.size - at[1] \in 0..b.size /\ b.size - (b.size - at[1]) = at[1]
    BY <1>0, <2>1
  <2>3. ~Differ(b.size - at[1])
    BY <1>1, <2>2
  <2> QED
    BY <2>1, <2>2, <2>3
<1>3. f = [at \in ScanDom(b) |-> f[at]] /\ g = [at \in ScanDom(b) |-> g[at]]
  BY DEF IsScan
<1> QED
  BY <1>2, <1>3

\* find() returns what Result says.
LEMMA FindResult ==
  ASSUME NEW b, IsRing(b), NEW c
  PROVE  find(b, c) = Result(b, c, 0, b.readPos)
<1> DEFINE h == CHOOSE f : IsScan(b, c, f)
<1>1. find(b, c) = h[<<0, b.readPos>>]
  BY DEF find, IsScan, Turn, ScanDom
<1>2. IsScan(b, c, h)
  BY SolutionIsScan
<1>3. h = Solution(b, c)
  BY <1>2, SolutionIsScan, ScanUnique
<1>4. <<0, b.readPos>> \in ScanDom(b)
  BY DEF ScanDom, IsRing
<1> QED
  BY <1>1, <1>3, <1>4 DEF Solution

\* From readPos on, a scan examines the slots in the order of the characters,
\* and comes to writePos only after the last of them.
LEMMA SlotsInOrder ==
  ASSUME TypeOK
  PROVE  /\ \A k \in 0..(available(ring) - 1) : SlotAt(ring, 0, ring.readPos, k) = slotOf(ring, k + 1)
         /\ \A k \in 0..(available(ring) - 2) : SlotAt(ring, 0, ring.readPos, k) + 1 # ring.writePos
<1>1. /\ ring.size \in Nat /\ ring.readPos \in Nat /\ ring.readPos < ring.size
      /\ ring.writePos \in Nat /\ ring.writePos < ring.size
  BY RingIsRecord
<1> QED
  BY <1>1 DEF SlotAt, slotOf, available

\* find() returns the distance of the first occurrence from readPos, or -1.
LEMMA FindIsFirst ==
  ASSUME TypeOK, NEW c
  PROVE  LET hits == {i \in 1..available(ring) : contents(ring)[i] = c}
         IN  find(ring, c) = IF hits = {} THEN -1
                             ELSE (CHOOSE i \in hits : \A j \in hits : i <= j) - 1
<1> DEFINE hits == {i \in 1..available(ring) : contents(ring)[i] = c}
           H == Hits(ring, c, 0, ring.readPos)
<1>0. available(ring) \in Nat
  BY ContentsIsSeq
<1>1. \A k \in 0..(available(ring) - 1) :
        k + 1 \in 1..available(ring) /\ (Hit(ring, c, 0, ring.readPos, k) <=> k + 1 \in hits)
  <2> SUFFICES ASSUME NEW k \in 0..(available(ring) - 1)
               PROVE  k + 1 \in 1..available(ring) /\ (Hit(ring, c, 0, ring.readPos, k) <=> k + 1 \in hits)
    OBVIOUS
  <2>1. k + 1 \in 1..available(ring)
    BY <1>0
  <2>2. contents(ring)[k + 1] = ring.buffer[slotOf(ring, k + 1)]
    BY <2>1, ContentsIsSeq
  <2> QED
    BY <2>1, <2>2, SlotsInOrder DEF Hit
<1>2. find(ring, c) = Result(ring, c, 0, ring.readPos)
  BY RingIsRecord, FindResult DEF IsRing
<1>3. CASE hits = {}
  <2>1. H = {}
    BY <1>1, <1>3 DEF Hits
  <2> QED
    BY <1>2, <1>3, <2>1 DEF Result
<1>4. CASE hits # {}
  <2>1. hits \subseteq Nat
    BY <1>0
  <2> HIDE DEF hits
  <2>2. PICK n \in hits : \A m \in hits : n <= m
    BY <1>4, <2>1, LeastNat
  <2>3. (CHOOSE i \in hits : \A j \in hits : i <= j) = n
    <3>1. \A i \in hits : (\A j \in hits : i <= j) => i = n
      BY <2>1, <2>2
    <3> QED BY <2>2, <3>1
  <2>4. n \in 1..available(ring) /\ n - 1 \in 0..(available(ring) - 1) /\ (n - 1) + 1 = n
    <3>1. n \in 1..available(ring)
      BY DEF hits
    <3> QED BY <1>0, <3>1
  <2>5. \A j \in 0..(n - 2) : Passed(ring, c, 0, ring.readPos, j)
    <3>1. TAKE j \in 0..(n - 2)
    <3>2. j \in 0..(available(ring) - 1) /\ j \in 0..(available(ring) - 2) /\ j + 1 < n /\ j + 1 \in Nat
      BY <1>0, <2>4
    <3>3. j + 1 \notin hits
      BY <2>1, <2>2, <3>2
    <3> QED
      BY <1>1, <3>2, <3>3, SlotsInOrder DEF Passed
  <2>6. Hit(ring, c, 0, ring.readPos, n - 1)
    BY <1>1, <2>4
  <2>7. n - 1 \in H
    <3>1. (n - 1) - 1 = n - 2
      BY <2>4
    <3> QED BY <2>4, <2>5, <2>6, <3>1 DEF Hits
  <2>8. ASSUME NEW k \in H PROVE k = n - 1
    <3>1. /\ k \in 0..(available(ring) - 1) /\ Hit(ring, c, 0, ring.readPos, k)
          /\ \A j \in 0..(k - 1) : Passed(ring, c, 0, ring.readPos, j)
      BY DEF Hits
    <3>2. k + 1 \in hits
      BY <1>1, <3>1
    <3>3. ~(n - 1 \in 0..(k - 1))
      BY <2>6, <3>1 DEF Passed
    <3>4. n <= k + 1
      BY <2>2, <3>2
    <3> QED
      BY <1>0, <2>4, <3>1, <3>3, <3>4
  <2>9. (CHOOSE k \in H : TRUE) = n - 1
    BY <2>7, <2>8
  <2>10. find(ring, c) = n - 1
    BY <1>2, <2>7, <2>9 DEF Result
  <2>11. find(ring, c) = IF hits = {} THEN -1
                         ELSE (CHOOSE i \in hits : \A j \in hits : i <= j) - 1
    BY <1>4, <2>3, <2>10
  <2> QED
    BY <2>11 DEF hits
<1> QED
  BY <1>3, <1>4

\* peekLastChar() returns the newest character (SerialBuffer.h:69-78).
LEMMA LastIsNewest ==
  ASSUME TypeOK, ~isEmpty(ring)
  PROVE  peekLastChar(ring) = contents(ring)[available(ring)]
<1>1. /\ ring.size \in Nat /\ ring.readPos \in Nat /\ ring.readPos < ring.size
      /\ ring.writePos \in Nat /\ ring.writePos < ring.size
  BY RingIsRecord
<1>2. available(ring) \in 1..available(ring)
  BY <1>1 DEF available, isEmpty
<1>3. slotOf(ring, available(ring)) = getPrevPos(ring, ring.writePos)
  BY <1>1 DEF slotOf, available, getPrevPos, isEmpty
<1>4. contents(ring)[available(ring)] = ring.buffer[slotOf(ring, available(ring))]
  BY <1>2, ContentsIsSeq
<1> QED
  BY <1>3, <1>4 DEF peekLastChar

\* Wherever the ring has got to, and however its users are interleaved, find()
\* and peekLastChar() tell what a search of the characters held would
\* (SerialBuffer.h:69-78, 104-122).
THEOREM QueriesAlwaysMatchContents == Spec => []QueriesMatchContents
<1>1. TypeOK => QueriesMatchContents
  BY FindIsFirst, LastIsNewest DEF QueriesMatchContents
<1> QED BY <1>1, RingTypeCorrect, PTL
=============================================================================
