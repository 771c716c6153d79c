---------------------------- MODULE SerialBuffer ----------------------------
(***************************************************************************)
(* The ring buffer of system/include/SerialBuffer.h that connects the UART *)
(* interrupt service routine with task code.  A buffer is a record of the  *)
(* four members of the C++ struct; every method is an operator on such a   *)
(* record: a query returns a value, a mutator returns the new record.      *)
(*                                                                         *)
(* One slot stays free so that readPos = writePos always means "empty".    *)
(***************************************************************************)
EXTENDS Integers, Sequences

\* What readChar() and peekChar() return for an empty buffer.
NoChar == -1

\* Contents of a slot that `new uint8_t[n]` allocated and nobody has written.
Unwritten == 0

\* A buffer of n slots just allocated by resize() on a fresh SerialBuffer.
NewSerialBuffer(n) ==
    [size |-> n, readPos |-> 0, writePos |-> 0, buffer |-> [i \in 0..(n - 1) |-> Unwritten]]

-----------------------------------------------------------------------------
(* Queries *)

getNextPos(b, pos) == IF pos + 1 = b.size THEN 0 ELSE pos + 1

getPrevPos(b, pos) == (IF pos # 0 THEN pos ELSE b.size) - 1

available(b) ==
    LET ret == b.writePos - b.readPos
    IN  IF ret < 0 THEN ret + b.size ELSE ret

\* A variant for mutation testing.
getFreeSpace_AllSlots(b) ==
    LET ret == b.readPos - b.writePos
    IN  IF ret < 0 THEN ret + b.size ELSE ret

getFreeSpace(b) ==
    LET ret == b.readPos - b.writePos - 1
    IN  IF ret < 0 THEN ret + b.size ELSE ret

isEmpty(b) == b.writePos = b.readPos

peekChar(b) == IF isEmpty(b) THEN NoChar ELSE b.buffer[b.readPos]

peekLastChar(b) == IF isEmpty(b) THEN NoChar ELSE b.buffer[getPrevPos(b, b.writePos)]

\* The test writeChar() makes before it stores: is there room for one more?
hasRoom(b) == getNextPos(b, b.writePos) # b.readPos

-----------------------------------------------------------------------------
(* Mutators.  readChar and writeChar are each two accesses to the ring: the  *)
(* slot, then the position; SerialRing interleaves them.                     *)

\* readPos = getNextPos(readPos)
advanceRead(b) == [b EXCEPT !.readPos = getNextPos(b, b.readPos)]

\* A variant for mutation testing.
storeChar_Next(b, c) == [b EXCEPT !.buffer[getNextPos(b, b.writePos)] = c]

\* buffer[writePos] = c
storeChar(b, c) == [b EXCEPT !.buffer[b.writePos] = c]

\* writePos = nextPos
advanceWrite(b) == [b EXCEPT !.writePos = getNextPos(b, b.writePos)]

clear(b) == [b EXCEPT !.readPos = 0, !.writePos = 0]

-----------------------------------------------------------------------------
(* The characters a buffer holds, oldest first. *)

slotOf(b, i) ==
    LET n == b.readPos + i - 1
    IN  IF n < b.size THEN n ELSE n - b.size

contents(b) == [i \in 1..available(b) |-> b.buffer[slotOf(b, i)]]

\* A variant for mutation testing.
resize_FromSlotZero(b, newSize) ==
    LET copied == IF available(b) < newSize THEN available(b) ELSE newSize
    IN  [size     |-> newSize,
         readPos  |-> 0,
         writePos |-> copied,
         buffer   |-> [i \in 0..(newSize - 1) |->
                         IF i < copied /\ i < b.size THEN b.buffer[i] ELSE Unwritten]]

\* resize(): the loop copies while there are characters and the new block has
\* slots; writePos becomes the number copied, even when that is newSize itself.
resize(b, newSize) ==
    LET copied == IF available(b) < newSize THEN available(b) ELSE newSize
    IN  IF newSize = b.size
        THEN b
        ELSE [size     |-> newSize,
              readPos  |-> 0,
              writePos |-> copied,
              buffer   |-> [i \in 0..(newSize - 1) |->
                              IF i < copied THEN contents(b)[i + 1] ELSE Unwritten]]

\* A variant for mutation testing.
find_FromSlotZero(b, c) ==
    LET hits == {i \in 0..(available(b) - 1) : b.buffer[i] = c}
    IN  IF hits = {} THEN -1 ELSE CHOOSE i \in hits : \A j \in hits : i <= j

\* find(): a scan with a running offset, which turns negative when the scan
\* passes the last slot (it is a size_t; the sum with pos wraps back).
find(b, c) ==
    LET scan[at \in (0..b.size) \X ((-b.size)..b.size)] ==
            LET pos == at[1]
                offset == at[2]
            IN  IF pos >= available(b) THEN -1
                ELSE IF b.buffer[offset + pos] = c THEN pos
                ELSE IF pos + 1 + offset = b.writePos THEN -1
                ELSE IF pos + 1 + offset = b.size THEN scan[<<pos + 1, -(pos + 1)>>]
                ELSE scan[<<pos + 1, offset>>]
    IN  scan[<<0, b.readPos>>]
=============================================================================
