----------------------------- MODULE UartProofs -----------------------------
(***************************************************************************)
(* Proofs about Uart, for all sizes of FIFOs and buffers, all calls of the *)
(* application and all interleavings with the handler and the hardware.    *)
(***************************************************************************)
EXTENDS Uart, SequenceTheorems, FiniteSetTheorems, TLAPS

-----------------------------------------------------------------------------
(* Sequences of characters *)

Chars == Seq(Nat)

Sorted(s) == \A i, j \in 1..Len(s) : i < j => s[i] < s[j]

\* No character twice; Junk, which is no character, does not count.
Distinct(s) == \A i, j \in 1..Len(s) : s[i] = s[j] /\ s[i] # Junk => i = j

LEMMA CharsInConcat ==
    ASSUME NEW a \in Chars, NEW b \in Chars
    PROVE  CharsIn(a \o b) = CharsIn(a) \cup CharsIn(b)
  <1>0. /\ Len(a) \in Nat /\ Len(b) \in Nat /\ Len(a \o b) = Len(a) + Len(b)
        /\ \A i \in 1..Len(a) + Len(b) :
             (a \o b)[i] = IF i <= Len(a) THEN a[i] ELSE b[i - Len(a)]
    BY ConcatProperties DEF Chars
  <1>1. ASSUME NEW x \in CharsIn(a \o b) PROVE x \in CharsIn(a) \cup CharsIn(b)
    <2>1. PICK i \in 1..Len(a) + Len(b) : x = (a \o b)[i]
      BY <1>0 DEF CharsIn
    <2>2. CASE i <= Len(a)
      BY <1>0, <2>1, <2>2 DEF CharsIn
    <2>3. CASE i > Len(a)
      <3>1. x = b[i - Len(a)] /\ i - Len(a) \in 1..Len(b)
        BY <1>0, <2>1, <2>3
      <3> QED BY <3>1 DEF CharsIn
    <2> QED BY <1>0, <2>2, <2>3
  <1>2. ASSUME NEW x \in CharsIn(a) PROVE x \in CharsIn(a \o b)
    <2>1. PICK i \in 1..Len(a) : x = a[i]
      BY DEF CharsIn
    <2>2. i \in 1..Len(a) + Len(b) /\ x = (a \o b)[i]
      BY <1>0, <2>1
    <2> QED BY <1>0, <2>2 DEF CharsIn
  <1>3. ASSUME NEW x \in CharsIn(b) PROVE x \in CharsIn(a \o b)
    <2>1. PICK i \in 1..Len(b) : x = b[i]
      BY DEF CharsIn
    <2>2. i + Len(a) \in 1..Len(a) + Len(b) /\ x = (a \o b)[i + Len(a)]
      BY <1>0, <2>1
    <2> QED BY <1>0, <2>2 DEF CharsIn
  <1> QED BY <1>1, <1>2, <1>3

LEMMA CharsInNat ==
    ASSUME NEW s \in Chars
    PROVE  CharsIn(s) \subseteq Nat
  <1>1. \A i \in 1..Len(s) : s[i] \in Nat
    BY ElementOfSeq DEF Chars
  <1> QED BY <1>1 DEF CharsIn

LEMMA CharsInEmpty == CharsIn(<<>>) = {}
  BY DEF CharsIn

LEMMA CharsInOne ==
    ASSUME NEW c \in Nat
    PROVE  <<c>> \in Chars /\ CharsIn(<<c>>) = {c} /\ Sorted(<<c>>) /\ Distinct(<<c>>)
  <1>1. <<c>> \in Chars /\ Len(<<c>>) = 1 /\ <<c>>[1] = c
    BY DEF Chars
  <1>2. 1..1 = {1}
    OBVIOUS
  <1> QED BY <1>1, <1>2 DEF CharsIn, Sorted, Distinct

\* A sequence is sorted if its two parts are and the first comes before the second.
LEMMA SortedConcat ==
    ASSUME NEW a \in Chars, NEW b \in Chars
    PROVE  Sorted(a \o b) <=> /\ Sorted(a) /\ Sorted(b)
                              /\ \A x \in CharsIn(a), y \in CharsIn(b) : x < y
  <1>0. /\ Len(a) \in Nat /\ Len(b) \in Nat /\ Len(a \o b) = Len(a) + Len(b)
        /\ \A i \in 1..Len(a) : i \in 1..Len(a) + Len(b) /\ (a \o b)[i] = a[i]
        /\ \A i \in 1..Len(b) : i + Len(a) \in 1..Len(a) + Len(b) /\ (a \o b)[i + Len(a)] = b[i]
    BY ConcatProperties DEF Chars
  <1>1. ASSUME Sorted(a \o b) PROVE Sorted(a)
    BY <1>0, <1>1 DEF Sorted
  <1>2. ASSUME Sorted(a \o b) PROVE Sorted(b)
    <2>1. ASSUME NEW i \in 1..Len(b), NEW j \in 1..Len(b), i < j PROVE b[i] < b[j]
      <3>1. i + Len(a) < j + Len(a)
        BY <2>1, <1>0
      <3> QED BY <3>1, <1>0, <1>2 DEF Sorted
    <2> QED BY <2>1 DEF Sorted
  <1>3. ASSUME Sorted(a \o b), NEW x \in CharsIn(a), NEW y \in CharsIn(b) PROVE x < y
    <2>1. PICK i \in 1..Len(a) : x = a[i]
      BY DEF CharsIn
    <2>2. PICK j \in 1..Len(b) : y = b[j]
      BY DEF CharsIn
    <2>3. i < j + Len(a)
      BY <1>0
    <2> QED BY <1>0, <1>3, <2>1, <2>2, <2>3 DEF Sorted
  <1>4. ASSUME Sorted(a), Sorted(b), \A x \in CharsIn(a), y \in CharsIn(b) : x < y
        PROVE  Sorted(a \o b)
    <2>1. SUFFICES ASSUME NEW i \in 1..Len(a) + Len(b), NEW j \in 1..Len(a) + Len(b), i < j
                   PROVE  (a \o b)[i] < (a \o b)[j]
      BY <1>0 DEF Sorted
    <2>2. CASE j <= Len(a)
      BY <1>0, <1>4, <2>1, <2>2 DEF Sorted
    <2>3. CASE i <= Len(a) /\ j > Len(a)
      <3>1. i \in 1..Len(a) /\ j - Len(a) \in 1..Len(b) /\ (j - Len(a)) + Len(a) = j
        BY <1>0, <2>3
      <3>2. a[i] \in CharsIn(a) /\ b[j - Len(a)] \in CharsIn(b)
        BY <3>1 DEF CharsIn
      <3> QED BY <1>0, <1>4, <3>1, <3>2
    <2>4. CASE i > Len(a)
      <3>1. /\ i - Len(a) \in 1..Len(b) /\ j - Len(a) \in 1..Len(b)
            /\ i - Len(a) < j - Len(a)
            /\ (i - Len(a)) + Len(a) = i /\ (j - Len(a)) + Len(a) = j
        BY <1>0, <2>1, <2>4
      <3> QED BY <1>0, <1>4, <3>1 DEF Sorted
    <2> QED BY <1>0, <2>2, <2>3, <2>4
  <1> QED BY <1>1, <1>2, <1>3, <1>4

\* A sequence holds no character twice if its two parts do not and share none.
LEMMA DistinctConcat ==
    ASSUME NEW a \in Chars, NEW b \in Chars
    PROVE  Distinct(a \o b) <=> /\ Distinct(a) /\ Distinct(b)
                                /\ CharsIn(a) \cap CharsIn(b) \subseteq {Junk}
  <1>0. /\ Len(a) \in Nat /\ Len(b) \in Nat /\ Len(a \o b) = Len(a) + Len(b)
        /\ \A i \in 1..Len(a) : i \in 1..Len(a) + Len(b) /\ (a \o b)[i] = a[i]
        /\ \A i \in 1..Len(b) : i + Len(a) \in 1..Len(a) + Len(b) /\ (a \o b)[i + Len(a)] = b[i]
    BY ConcatProperties DEF Chars
  <1>1. ASSUME Distinct(a \o b) PROVE Distinct(a)
    BY <1>0, <1>1 DEF Distinct
  <1>2. ASSUME Distinct(a \o b) PROVE Distinct(b)
    <2>1. ASSUME NEW i \in 1..Len(b), NEW j \in 1..Len(b), b[i] = b[j], b[i] # Junk PROVE i = j
      <3>1. i + Len(a) = j + Len(a)
        BY <1>0, <1>2, <2>1 DEF Distinct
      <3> QED BY <3>1, <1>0
    <2> QED BY <2>1 DEF Distinct
  <1>3. ASSUME Distinct(a \o b), NEW x \in CharsIn(a) \cap CharsIn(b) PROVE x = Junk
    <2>1. PICK i \in 1..Len(a) : x = a[i]
      BY DEF CharsIn
    <2>2. PICK j \in 1..Len(b) : x = b[j]
      BY DEF CharsIn
    <2>3. i # j + Len(a)
      BY <1>0
    <2> QED BY <1>0, <1>3, <2>1, <2>2, <2>3 DEF Distinct
  <1>4. ASSUME Distinct(a), Distinct(b), CharsIn(a) \cap CharsIn(b) \subseteq {Junk}
        PROVE  Distinct(a \o b)
    <2>0. \A i \in 1..Len(a), j \in 1..Len(b) : a[i] # b[j] \/ a[i] = Junk
      BY <1>4 DEF CharsIn
    <2>1. SUFFICES ASSUME NEW i \in 1..Len(a) + Len(b), NEW j \in 1..Len(a) + Len(b),
                          (a \o b)[i] = (a \o b)[j], (a \o b)[i] # Junk
                   PROVE  i = j
      BY <1>0 DEF Distinct
    <2>2. \A k \in 1..Len(a) + Len(b) :
            k \in 1..Len(a) \/ (k - Len(a) \in 1..Len(b) /\ (k - Len(a)) + Len(a) = k)
      BY <1>0
    <2>3. CASE i \in 1..Len(a) /\ j \in 1..Len(a)
      BY <1>0, <1>4, <2>1, <2>3 DEF Distinct
    <2>4. CASE i \in 1..Len(a) /\ j \notin 1..Len(a)
      BY <1>0, <2>0, <2>1, <2>2, <2>4
    <2>5. CASE i \notin 1..Len(a) /\ j \in 1..Len(a)
      BY <1>0, <2>0, <2>1, <2>2, <2>5
    <2>6. CASE i \notin 1..Len(a) /\ j \notin 1..Len(a)
      <3>1. i - Len(a) = j - Len(a)
        BY <1>0, <1>4, <2>1, <2>2, <2>6 DEF Distinct
      <3> QED BY <3>1, <1>0
    <2> QED BY <2>3, <2>4, <2>5, <2>6
  <1> QED BY <1>1, <1>2, <1>3, <1>4

\* A sequence is what is taken from it followed by what is left.
LEMMA CutFacts ==
    ASSUME NEW s \in Chars, NEW n \in 0..Len(s)
    PROVE  /\ Take(s, n) \in Chars /\ Drop(s, n) \in Chars
           /\ Len(Take(s, n)) = n /\ Len(Drop(s, n)) = Len(s) - n
           /\ s = Take(s, n) \o Drop(s, n)
  <1>1. Len(s) \in Nat /\ \A i \in 1..Len(s) : s[i] \in Nat
    BY LenProperties, ElementOfSeq DEF Chars
  <1>2. Take(s, n) \in Chars /\ Len(Take(s, n)) = n
    BY <1>1, SubSeqProperties DEF Take, Chars
  <1>3. Drop(s, n) \in Chars /\ Len(Drop(s, n)) = Len(s) - n
    BY <1>1, SubSeqProperties DEF Drop, Chars
  <1>4. 1 \in 1..Len(s) + 1 /\ n \in 1 - 1..Len(s) /\ Len(s) \in n..Len(s)
    BY <1>1
  <1>5. Take(s, n) \o Drop(s, n) = SubSeq(s, 1, Len(s))
    BY <1>4, ConcatAdjacentSubSeq DEF Take, Drop, Chars
  <1> QED BY <1>2, <1>3, <1>5, SubSeqFull DEF Chars

\* The same for what the handler sends and what it leaves in the FIFO.
LEMMA CutTwice ==
    ASSUME NEW s \in Chars, NEW n \in 0..Len(s), NEW m \in 0..n
    PROVE  /\ SubSeq(s, m + 1, n) \in Chars /\ Len(SubSeq(s, m + 1, n)) = n - m
           /\ Take(s, n) = Take(s, m) \o SubSeq(s, m + 1, n)
  <1>1. Len(s) \in Nat /\ \A i \in 1..Len(s) : s[i] \in Nat
    BY LenProperties, ElementOfSeq DEF Chars
  <1>2. m + 1 \in Int /\ n \in Int /\ \A i \in m + 1..n : s[i] \in Nat
    BY <1>1
  <1>3. SubSeq(s, m + 1, n) \in Chars /\ Len(SubSeq(s, m + 1, n)) = n - m
    BY <1>1, <1>2, SubSeqProperties DEF Chars
  <1>4. 1 \in 1..Len(s) + 1 /\ m \in 1 - 1..Len(s) /\ n \in m..Len(s)
    BY <1>1
  <1>5. Take(s, m) \o SubSeq(s, m + 1, n) = SubSeq(s, 1, n)
    BY <1>4, ConcatAdjacentSubSeq DEF Take, Chars
  <1> QED BY <1>3, <1>5 DEF Take

LEMMA HeadFacts ==
    ASSUME NEW s \in Chars, s # <<>>
    PROVE  /\ Len(s) \in Nat \ {0} /\ Head(s) \in Nat /\ Tail(s) \in Chars
           /\ Len(Tail(s)) = Len(s) - 1
           /\ s = <<Head(s)>> \o Tail(s) /\ Drop(s, 1) = Tail(s)
  <1>1. Len(s) \in Nat \ {0} /\ Head(s) \in Nat /\ Tail(s) \in Chars
        /\ Len(Tail(s)) = Len(s) - 1
    BY EmptySeq, HeadTailProperties DEF Chars
  <1>2. Drop(s, 1) = Tail(s)
    BY TailIsSubSeq DEF Drop, Chars
  <1>3. 1 \in 1..Len(s) /\ Len(s) \in 1..Len(s)
    BY <1>1
  <1>4. SubSeq(s, 1, Len(s)) = <<s[1]>> \o SubSeq(s, 1 + 1, Len(s))
    BY <1>3, SubSeqRecursiveFirst DEF Chars
  <1>5. s = <<s[1]>> \o Tail(s)
    BY <1>2, <1>4, SubSeqFull DEF Chars, Drop
  <1>6. Head(s) = s[1]
    BY DEF Chars
  <1> QED BY <1>1, <1>2, <1>5, <1>6

LEMMA DropEmpty == Drop(<<>>, 1) = <<>>
  BY SubSeqEmpty DEF Drop

LEMMA EmptyIsChars == <<>> \in Chars /\ Len(<<>>) = 0
  BY EmptySeq DEF Chars

-----------------------------------------------------------------------------
(* Types and capacities *)

BufferOK(b) ==
    /\ b \in [size : Nat, data : Chars]
    /\ IF hasBuffer(b) THEN freeSpace(b) >= 0 ELSE b.data = <<>>

\* No resize is in progress: Spec has none.
Basic ==
    /\ BufferOK(tx_buffer) /\ BufferOK(rx_buffer)
    /\ txFifo \in Chars /\ Len(txFifo) <= TxFifoFull
    /\ rxFifo \in Chars /\ Len(rxFifo) <= RxFifoSize
    /\ wire \in Chars /\ got \in Chars /\ copy = <<>>
    /\ usie \subseteq Sources /\ loaded \subseteq Sources
    /\ pc \in Labels \ {"z_copy", "z_install"}
    /\ size \in Nat /\ count \in Nat /\ accepted \in Nat /\ arrived \in Nat
    /\ discarded \subseteq Nat /\ dropped \subseteq Nat

USE DEF Chars

LEMMA BufferNew ==
    ASSUME NEW n \in Nat
    PROVE  BufferOK(NewBuffer(n))
  BY EmptyIsChars DEF BufferOK, NewBuffer, hasBuffer, freeSpace

LEMMA BufferData ==
    ASSUME NEW b, BufferOK(b), NEW d \in Chars, Len(d) <= Len(b.data)
    PROVE  /\ BufferOK([b EXCEPT !.data = d])
           /\ [b EXCEPT !.data = d].data = d /\ [b EXCEPT !.data = d].size = b.size
  <1>1. [b EXCEPT !.data = d] \in [size : Nat, data : Chars]
        /\ [b EXCEPT !.data = d].data = d /\ [b EXCEPT !.data = d].size = b.size
    BY DEF BufferOK
  <1>2. Len(d) \in Nat /\ Len(b.data) \in Nat /\ b.size \in Nat
    BY DEF BufferOK
  <1>3. CASE hasBuffer(b)
    BY <1>1, <1>2, <1>3 DEF BufferOK, hasBuffer, freeSpace
  <1>4. CASE ~hasBuffer(b)
    <2>1. Len(b.data) = 0
      BY <1>4, EmptyIsChars DEF BufferOK
    <2>2. d = <<>>
      BY <2>1, <1>2, EmptySeq
    <2> QED BY <1>1, <1>4, <2>2 DEF BufferOK, hasBuffer
  <1> QED BY <1>1, <1>3, <1>4

LEMMA BufferMore ==
    ASSUME NEW b, BufferOK(b), hasBuffer(b), NEW d \in Chars, Len(d) <= b.size - 1
    PROVE  /\ BufferOK([b EXCEPT !.data = d])
           /\ [b EXCEPT !.data = d].data = d /\ [b EXCEPT !.data = d].size = b.size
  <1>1. [b EXCEPT !.data = d] \in [size : Nat, data : Chars]
        /\ [b EXCEPT !.data = d].data = d /\ [b EXCEPT !.data = d].size = b.size
    BY DEF BufferOK
  <1>2. Len(d) \in Nat /\ b.size \in Nat
    BY DEF BufferOK
  <1> QED BY <1>1, <1>2 DEF BufferOK, hasBuffer, freeSpace

\* The handler moves no more than there is, and no more than there is room for.
LEMMA MovedFacts ==
    ASSUME Basic
    PROVE  /\ rxMoved \in 0..Len(rxFifo)
           /\ rxMoved > 0 => hasBuffer(rx_buffer) /\ rxMoved <= freeSpace(rx_buffer)
           /\ txMoved \in 0..Len(tx_buffer.data) /\ txMoved <= TxFifoFull
           /\ txMoved > 0 => txFifo = <<>> /\ hasBuffer(tx_buffer)
  <1>1. /\ Len(rxFifo) \in Nat /\ Len(rx_buffer.data) \in Nat /\ rx_buffer.size \in Nat
        /\ Len(tx_buffer.data) \in Nat /\ tx_buffer.size \in Nat
    BY DEF Basic, BufferOK
  <1>2. UART_RXCOUNT \in 0..Len(rxFifo)
    BY <1>1, RxFifoAssumption DEF UART_RXCOUNT
  <1>3. hasBuffer(rx_buffer) => freeSpace(rx_buffer) \in Nat
    BY <1>1 DEF Basic, BufferOK, freeSpace
  <1>4. rxMoved \in 0..Len(rxFifo)
        /\ (rxMoved > 0 => hasBuffer(rx_buffer) /\ rxMoved <= freeSpace(rx_buffer))
    BY <1>1, <1>2, <1>3 DEF rxMoved, Least
  <1>5. txMoved \in 0..Len(tx_buffer.data) /\ txMoved <= TxFifoFull
    BY <1>1, TxFifoAssumption DEF txMoved, Least
  <1>6. txMoved > 0 => "UIFE" \in USIS /\ hasBuffer(tx_buffer)
    BY DEF txMoved
  <1>7. "UIFE" \in USIS => txFifo = <<>>
    BY DEF USIS, raised
  <1> QED BY <1>4, <1>5, <1>6, <1>7

LEMMA BasicInit == Init => Basic
  BY BufferNew, EmptyIsChars, BufferAssumption, TxFifoAssumption, RxFifoAssumption
  DEF Init, Basic, RxSources, Sources, Labels

\* What the handler leaves in the FIFOs and the buffers.
LEMMA InterruptFacts ==
    ASSUME Basic, NEW shifted \in 0..1, Interrupt(shifted)
    PROVE  /\ shifted \in 0..txMoved
           /\ BufferOK(rx_buffer') /\ rxFifo' \in Chars /\ Len(rxFifo') <= Len(rxFifo)
           /\ rx_buffer'.data = rx_buffer.data \o Take(rxFifo, rxMoved)
           /\ BufferOK(tx_buffer') /\ tx_buffer'.data = Drop(tx_buffer.data, txMoved)
           /\ txFifo' \in Chars /\ Len(txFifo') <= TxFifoFull /\ wire' \in Chars
  <1>0. shifted \in 0..txMoved
    BY MovedFacts DEF Interrupt
  <1>1. /\ rx_buffer.data \in Chars /\ Len(rx_buffer.data) \in Nat /\ rx_buffer.size \in Nat
        /\ tx_buffer.data \in Chars /\ Len(tx_buffer.data) \in Nat
        /\ rxFifo \in Chars /\ txFifo \in Chars /\ wire \in Chars
    BY DEF Basic, BufferOK
  <1>2. /\ Take(rxFifo, rxMoved) \in Chars /\ Len(Take(rxFifo, rxMoved)) = rxMoved
        /\ rxFifo' \in Chars /\ Len(rxFifo') = Len(rxFifo) - rxMoved
    BY <1>1, MovedFacts, CutFacts DEF Interrupt
  <1>3. Len(rxFifo') <= Len(rxFifo)
    BY <1>1, <1>2, MovedFacts
  <1>4. /\ rx_buffer.data \o Take(rxFifo, rxMoved) \in Chars
        /\ Len(rx_buffer.data \o Take(rxFifo, rxMoved)) = Len(rx_buffer.data) + rxMoved
    BY <1>1, <1>2, ConcatProperties
  <1>5. BufferOK(rx_buffer') /\ rx_buffer'.data = rx_buffer.data \o Take(rxFifo, rxMoved)
    <2>1. CASE rxMoved = 0
      <3>1. Len(rx_buffer.data \o Take(rxFifo, rxMoved)) <= Len(rx_buffer.data)
        BY <1>1, <1>4, <2>1
      <3> QED BY <1>4, <3>1, BufferData DEF Interrupt, Basic
    <2>2. CASE rxMoved > 0
      <3>1. hasBuffer(rx_buffer) /\ Len(rx_buffer.data) + rxMoved <= rx_buffer.size - 1
        BY <1>1, <2>2, MovedFacts, SMTT(30) DEF freeSpace
      <3> QED BY <1>4, <3>1, BufferMore DEF Interrupt, Basic
    <2> QED BY <2>1, <2>2, MovedFacts
  <1>6. /\ Drop(tx_buffer.data, txMoved) \in Chars
        /\ Len(Drop(tx_buffer.data, txMoved)) = Len(tx_buffer.data) - txMoved
    BY <1>1, MovedFacts, CutFacts
  <1>7. BufferOK(tx_buffer') /\ tx_buffer'.data = Drop(tx_buffer.data, txMoved)
    <2>1. Len(Drop(tx_buffer.data, txMoved)) <= Len(tx_buffer.data)
      BY <1>1, <1>6, MovedFacts
    <2> QED BY <1>6, <2>1, BufferData DEF Interrupt, Basic
  <1>8. /\ SubSeq(tx_buffer.data, shifted + 1, txMoved) \in Chars
        /\ Len(SubSeq(tx_buffer.data, shifted + 1, txMoved)) = txMoved - shifted
    BY <1>0, <1>1, MovedFacts, CutTwice
  <1>9. txFifo' \in Chars /\ Len(txFifo') = Len(txFifo) + (txMoved - shifted)
    BY <1>1, <1>8, ConcatProperties DEF Interrupt
  <1>10. Len(txFifo') <= TxFifoFull
    <2>1. CASE txMoved = 0
      BY <1>0, <1>9, <2>1 DEF Basic
    <2>2. CASE txMoved > 0
      <3>1. Len(txFifo) = 0
        BY <2>2, MovedFacts, EmptyIsChars
      <3> QED BY <1>0, <1>9, <3>1, MovedFacts, TxFifoAssumption
    <2> QED BY <2>1, <2>2, MovedFacts
  <1>11. wire' \in Chars
    <2>1. shifted \in 0..Len(tx_buffer.data)
      BY <1>0, <1>1, MovedFacts
    <2>2. Take(tx_buffer.data, shifted) \in Chars
      BY <1>1, <2>1, CutFacts
    <2> QED BY <1>1, <2>2, ConcatProperties DEF Interrupt
  <1> QED BY <1>0, <1>2, <1>3, <1>5, <1>7, <1>9, <1>10, <1>11

LEMMA BasicNext ==
    ASSUME Basic, [Next]_vars
    PROVE  Basic'
  <1>0. /\ tx_buffer.data \in Chars /\ Len(tx_buffer.data) \in Nat /\ tx_buffer.size \in Nat
        /\ rx_buffer.data \in Chars /\ Len(rx_buffer.data) \in Nat /\ rx_buffer.size \in Nat
        /\ Len(txFifo) \in Nat /\ Len(rxFifo) \in Nat
    BY DEF Basic, BufferOK
  <1>1. CASE ShiftOut
    <2>1. txFifo' \in Chars /\ Len(txFifo') = Len(txFifo) - 1 /\ wire' \in Chars
      BY <1>1, HeadFacts, AppendProperties DEF ShiftOut, Basic
    <2>2. Len(txFifo') <= TxFifoFull
      BY <1>0, <2>1, TxFifoAssumption DEF Basic
    <2> QED BY <1>1, <2>1, <2>2 DEF ShiftOut, Basic, rxVars, callVars
  <1>2. CASE ShiftIn
    <2>1. arrived' \in Nat /\ dropped' \subseteq Nat /\ rxFifo' \in Chars /\ Len(rxFifo') <= RxFifoSize
      <3>1. CASE Len(rxFifo) < RxFifoSize
        <4>1. Len(rxFifo) + 1 <= RxFifoSize
          BY <1>0, <3>1, RxFifoAssumption
        <4>2. rxFifo' = Append(rxFifo, arrived + 1) /\ dropped' = dropped /\ arrived' = arrived + 1
          BY <1>2, <3>1 DEF ShiftIn
        <4>3. arrived + 1 \in Nat
          BY DEF Basic
        <4> QED BY <4>1, <4>2, <4>3, AppendProperties DEF Basic
      <3>2. CASE ~(Len(rxFifo) < RxFifoSize)
        <4>1. rxFifo' = rxFifo /\ dropped' = dropped \cup {arrived + 1} /\ arrived' = arrived + 1
          BY <1>2, <3>2 DEF ShiftIn
        <4>2. arrived + 1 \in Nat
          BY DEF Basic
        <4> QED BY <4>1, <4>2 DEF Basic
      <3> QED BY <3>1, <3>2
    <2> QED BY <1>2, <2>1 DEF ShiftIn, Basic, txVars, callVars
  <1>3. CASE HandleInterrupt
    <2>1. PICK shifted \in 0..1 : Interrupt(shifted)
      BY <1>3 DEF HandleInterrupt
    <2>2. Len(rxFifo') <= RxFifoSize
      <3>1. rxFifo' \in Chars /\ Len(rxFifo') <= Len(rxFifo) /\ Len(rxFifo) <= RxFifoSize
        BY <2>1, InterruptFacts DEF Basic
      <3> QED BY <1>0, <3>1, RxFifoAssumption
    <2> QED BY <2>1, <2>2, InterruptFacts DEF Interrupt, Basic, callVars
  <1>4. ASSUME NEW n \in CallSizes, uart_write(n) \/ uart_read(n) PROVE Basic'
    <2>1. n \in Nat
      BY BoundAssumption
    <2>2. /\ UNCHANGED <<txVars, rxVars, usie, loaded, copy>> /\ size' = n /\ count' = 0
          /\ pc' \in {"w_test", "r_buffer"}
      BY <1>4 DEF uart_write, uart_read, Goto
    <2> QED BY <2>1, <2>2 DEF Basic, txVars, rxVars, Labels
  <1>5. CASE WriteTest \/ WriteLoop \/ ReadCount
    BY <1>5 DEF WriteTest, WriteLoop, ReadCount, Basic, txVars, rxVars, Goto, Labels
  <1>6. CASE uart_wait_tx_empty \/ WaitBuffer \/ WaitFifo
    BY <1>6 DEF uart_wait_tx_empty, WaitBuffer, WaitFifo, Basic, txVars, rxVars, Goto, Labels
  <1>7. CASE WriteFifo
    <2>1. CASE count < size /\ ~UART_TXFULL
      <3>1. txFifo' \in Chars /\ Len(txFifo') = Len(txFifo) + 1 /\ accepted' \in Nat /\ count' \in Nat
        <4>1. txFifo' = Append(txFifo, accepted + 1) /\ accepted' = accepted + 1 /\ count' = count + 1
          BY <1>7, <2>1 DEF WriteFifo
        <4>2. accepted + 1 \in Nat /\ count + 1 \in Nat
          BY DEF Basic
        <4> QED BY <4>1, <4>2, AppendProperties DEF Basic
      <3>2. Len(txFifo') <= TxFifoFull
        BY <1>0, <2>1, <3>1, TxFifoAssumption DEF UART_TXFULL
      <3> QED BY <1>7, <2>1, <3>1, <3>2 DEF WriteFifo, Basic, rxVars
    <2>2. CASE ~(count < size /\ ~UART_TXFULL)
      BY <1>7, <2>2 DEF WriteFifo, Basic, rxVars, Goto, Labels
    <2> QED BY <2>1, <2>2
  <1>8. CASE WriteBuffer
    <2>1. CASE hasBuffer(tx_buffer) /\ count < size /\ freeSpace(tx_buffer) > 0
      <3>1. /\ Append(tx_buffer.data, accepted + 1) \in Chars
            /\ Len(Append(tx_buffer.data, accepted + 1)) = Len(tx_buffer.data) + 1
            /\ accepted' \in Nat /\ count' \in Nat
        BY <1>0, <1>8, <2>1, AppendProperties DEF WriteBuffer, Basic
      <3>2. Len(Append(tx_buffer.data, accepted + 1)) <= tx_buffer.size - 1
        BY <1>0, <2>1, <3>1 DEF freeSpace
      <3>3. BufferOK(tx_buffer')
        BY <1>8, <2>1, <3>1, <3>2, BufferMore DEF WriteBuffer, Basic
      <3> QED BY <1>8, <2>1, <3>1, <3>3 DEF WriteBuffer, Basic, rxVars
    <2>2. CASE ~(hasBuffer(tx_buffer) /\ count < size /\ freeSpace(tx_buffer) > 0)
      BY <1>8, <2>2 DEF WriteBuffer, Basic, rxVars, Goto, Labels
    <2> QED BY <2>1, <2>2
  <1>9. CASE ReadBuffer
    <2>1. CASE count < size /\ rx_buffer.data # <<>>
      <3>1. /\ Tail(rx_buffer.data) \in Chars /\ Head(rx_buffer.data) \in Nat
            /\ Len(Tail(rx_buffer.data)) <= Len(rx_buffer.data)
        BY <1>0, <2>1, HeadFacts
      <3>2. BufferOK(rx_buffer')
        BY <1>9, <2>1, <3>1, BufferData DEF ReadBuffer, Basic
      <3>3. got' \in Chars /\ count' \in Nat
        <4>1. got' = Append(got, Head(rx_buffer.data)) /\ count' = count + 1
          BY <1>9, <2>1 DEF ReadBuffer
        <4>2. count + 1 \in Nat
          BY DEF Basic
        <4> QED BY <3>1, <4>1, <4>2, AppendProperties DEF Basic
      <3> QED BY <1>9, <2>1, <3>2, <3>3 DEF ReadBuffer, Basic, txVars
    <2>2. CASE ~(count < size /\ rx_buffer.data # <<>>)
      BY <1>9, <2>2 DEF ReadBuffer, Basic, txVars, Goto, Labels
    <2> QED BY <2>1, <2>2
  <1>10. CASE ReadFifo
    <2>1. rxFifo' \in Chars /\ Len(rxFifo') <= RxFifoSize /\ got' \in Chars
      <3>1. CASE rxFifo = <<>>
        BY <1>10, <3>1, DropEmpty, EmptyIsChars, AppendProperties DEF ReadFifo, Basic, Junk
      <3>2. CASE rxFifo # <<>>
        <4>1. rxFifo' \in Chars /\ Len(rxFifo') = Len(rxFifo) - 1 /\ Head(rxFifo) \in Nat
          BY <1>10, <3>2, HeadFacts DEF ReadFifo, Basic
        <4>2. got' \in Chars
          BY <1>10, <3>2, <4>1, AppendProperties DEF ReadFifo, Basic
        <4> QED BY <1>0, <4>1, <4>2, RxFifoAssumption DEF Basic
      <3> QED BY <3>1, <3>2
    <2> QED BY <1>10, <2>1 DEF ReadFifo, Basic, txVars, Goto, Labels
  <1>11. CASE UsieLoad
    BY <1>11 DEF UsieLoad, Basic, txVars, rxVars, Goto, Labels
  <1>12. CASE UsieStore
    BY <1>12 DEF UsieStore, Basic, txVars, rxVars, Goto, Labels, Sources, RxSources
  <1>13. CASE uart_flush
    <2>1. BufferOK(tx_buffer') /\ BufferOK(rx_buffer')
      <3>1. Len(<<>>) <= Len(tx_buffer.data) /\ Len(<<>>) <= Len(rx_buffer.data)
        BY <1>0, EmptyIsChars
      <3> QED BY <1>13, <3>1, BufferData, EmptyIsChars DEF uart_flush, Basic
    <2>2. CharsIn(txFifo \o tx_buffer.data) \subseteq Nat /\ CharsIn(rxFifo \o rx_buffer.data) \subseteq Nat
      <3>1. txFifo \o tx_buffer.data \in Chars /\ rxFifo \o rx_buffer.data \in Chars
        BY <1>0, ConcatProperties DEF Basic
      <3> QED BY <3>1, CharsInNat
    <2> QED BY <1>13, <2>1, <2>2, EmptyIsChars, TxFifoAssumption, RxFifoAssumption
            DEF uart_flush, Basic, callVars, Sources, RxSources
  <1>14. CASE DeleteTxBuffer \/ DeleteRxBuffer
    <2>1. BufferOK(NullBuffer)
      BY BufferNew DEF NullBuffer
    <2>2. CharsIn(tx_buffer.data) \subseteq Nat /\ CharsIn(rx_buffer.data) \subseteq Nat
      BY <1>0, CharsInNat
    <2> QED BY <1>14, <2>1, <2>2
            DEF DeleteTxBuffer, DeleteRxBuffer, Basic, txVars, rxVars, callVars
  <1>15. CASE CreateTxBuffer \/ CreateRxBuffer
    BY <1>15, BufferNew, BufferAssumption
    DEF CreateTxBuffer, CreateRxBuffer, Basic, txVars, rxVars, callVars
  <1>16. CASE UNCHANGED vars
    BY <1>16 DEF vars, txVars, rxVars, callVars, Basic
  <1> QED BY <1>1, <1>2, <1>3, <1>4, <1>5, <1>6, <1>7, <1>8, <1>9, <1>10, <1>11, <1>12,
             <1>13, <1>14, <1>15, <1>16 DEF Next, CallStep

\* The type invariant holds in every reachable state of the driver.
THEOREM TypeCorrect == Spec => []TypeOK
  <1>1. Basic => TypeOK
    BY EmptyIsChars DEF Basic, BufferOK, TypeOK
  <1> QED BY <1>1, BasicInit, BasicNext, PTL DEF Spec

\* Neither FIFO and neither buffer is ever filled beyond its capacity, whatever the
\* handler and the calls do between each other's steps.
THEOREM CapacityKept == Spec => []WithinCapacity
  <1>1. Basic => WithinCapacity
    <2>1. SUFFICES ASSUME Basic, NEW b \in {tx_buffer, rx_buffer}, b.data # <<>>
                   PROVE  freeSpace(b) >= 0
      BY DEF Basic, WithinCapacity
    <2> QED BY <2>1 DEF Basic, BufferOK
  <1> QED BY <1>1, BasicInit, BasicNext, PTL DEF Spec

-----------------------------------------------------------------------------
(* The transmit interrupt *)

Writing == {"w_test", "w_fifo", "w_buffer", "w_loop"}

\* Characters in the transmit buffer have their interrupt enabled, or the call that
\* put them there is still to enable it; a read-modify-write that has read USIE
\* meanwhile will not take it away.  TxNeverStranded is not inductive without the
\* calls in progress.
TxServed ==
    /\ pc \in {"w_fifo", "t_fifo"} => tx_buffer.data = <<>>
    /\ tx_buffer.data # <<>> =>
         \/ "UIFE" \in usie
         \/ pc \in {"w_load", "w_store"}
         \/ pc \in Writing /\ count > 0
    /\ pc = "r_store" /\ tx_buffer.data # <<>> => "UIFE" \in loaded

LEMMA TxServedInit == Init => TxServed
  BY DEF Init, TxServed, NewBuffer

\* The handler masks the transmit interrupt only when it leaves the buffer empty.
LEMMA MaskedTx ==
    ASSUME Basic, NEW shifted \in 0..1, Interrupt(shifted)
    PROVE  /\ tx_buffer'.data # <<>> => tx_buffer.data # <<>>
           /\ tx_buffer'.data # <<>> /\ "UIFE" \in usie => "UIFE" \in usie'
  <1>1. tx_buffer.data \in Chars /\ Len(tx_buffer.data) \in Nat
    BY DEF Basic, BufferOK
  <1>2. tx_buffer'.data = Drop(tx_buffer.data, txMoved)
    BY InterruptFacts
  <1>3. Drop(tx_buffer.data, txMoved) \in Chars
        /\ Len(Drop(tx_buffer.data, txMoved)) = Len(tx_buffer.data) - txMoved
    BY <1>1, MovedFacts, CutFacts
  <1>4. Len(tx_buffer.data) = txMoved => tx_buffer'.data = <<>>
    BY <1>1, <1>2, <1>3, EmptySeq
  <1>5. tx_buffer.data = <<>> => tx_buffer'.data = <<>>
    BY <1>1, <1>4, MovedFacts, EmptyIsChars
  <1>6. ASSUME "UIFE" \in masked(shifted) PROVE Len(tx_buffer.data) = txMoved
    <2>1. "UIFE" \in USIS /\ txMoved = shifted
      BY <1>6 DEF masked, RxSources
    <2>2. CASE hasBuffer(tx_buffer)
      BY <1>1, <2>1, <2>2, TxFifoAssumption DEF txMoved, Least
    <2>3. CASE ~hasBuffer(tx_buffer)
      BY <2>3, EmptyIsChars DEF txMoved, Basic, BufferOK
    <2> QED BY <2>2, <2>3
  <1>7. usie' = usie \ masked(shifted)
    BY DEF Interrupt
  <1> QED BY <1>4, <1>5, <1>6, <1>7

LEMMA TxServedNext ==
    ASSUME Basic, TxServed, [Next]_vars
    PROVE  TxServed'
  <1>1. CASE ShiftOut \/ ShiftIn
    BY <1>1 DEF ShiftOut, ShiftIn, TxServed, txVars, rxVars, callVars
  <1>2. CASE HandleInterrupt
    <2>1. PICK shifted \in 0..1 : Interrupt(shifted)
      BY <1>2 DEF HandleInterrupt
    <2>2. UNCHANGED <<pc, count, loaded>>
      BY <2>1 DEF Interrupt, callVars
    <2> QED BY <2>1, <2>2, MaskedTx DEF TxServed
  <1>3. ASSUME NEW n \in CallSizes, uart_write(n) \/ uart_read(n) PROVE TxServed'
    <2>1. /\ pc = "idle" /\ UNCHANGED <<tx_buffer, usie, loaded>>
          /\ pc' \in {"w_test", "r_buffer"}
      BY <1>3 DEF uart_write, uart_read, Goto, txVars
    <2> QED BY <2>1 DEF TxServed, Writing
  <1>4. CASE WriteTest
    <2>1. ~hasBuffer(tx_buffer) => tx_buffer.data = <<>>
      BY DEF Basic, BufferOK
    <2> QED BY <1>4, <2>1 DEF WriteTest, TxServed, Writing, Goto, txVars
  <1>5. CASE WriteFifo
    <2>1. /\ pc = "w_fifo" /\ UNCHANGED <<tx_buffer, usie, loaded>>
          /\ pc' \in {"w_fifo", "w_buffer"}
      BY <1>5 DEF WriteFifo, Goto
    <2> QED BY <2>1 DEF TxServed, Writing
  <1>6. CASE WriteBuffer
    <2>1. CASE hasBuffer(tx_buffer) /\ count < size /\ freeSpace(tx_buffer) > 0
      <3>1. pc = "w_buffer" /\ pc' = "w_buffer" /\ count' = count + 1
        BY <1>6, <2>1 DEF WriteBuffer
      <3>2. count' > 0
        BY <3>1 DEF Basic
      <3> QED BY <3>1, <3>2 DEF TxServed, Writing
    <2>2. CASE ~(hasBuffer(tx_buffer) /\ count < size /\ freeSpace(tx_buffer) > 0)
      BY <1>6, <2>2 DEF WriteBuffer, TxServed, Writing, Goto
    <2> QED BY <2>1, <2>2
  <1>7. CASE WriteLoop
    BY <1>7 DEF WriteLoop, TxServed, Writing, Goto, txVars
  <1>8. CASE ReadBuffer \/ ReadCount \/ ReadFifo
    <2>1. /\ pc \in {"r_buffer", "r_count", "r_fifo"} /\ UNCHANGED <<tx_buffer, usie, loaded>>
          /\ pc' \in {"r_buffer", "r_count", "r_fifo", "r_load"}
      BY <1>8 DEF ReadBuffer, ReadCount, ReadFifo, Goto, txVars
    <2> QED BY <2>1 DEF TxServed, Writing
  <1>9. CASE UsieLoad \/ UsieStore
    BY <1>9 DEF UsieLoad, UsieStore, TxServed, Writing, Goto, txVars
  <1>10. CASE uart_wait_tx_empty \/ WaitBuffer \/ WaitFifo
    BY <1>10 DEF uart_wait_tx_empty, WaitBuffer, WaitFifo, TxServed, Writing, Goto, txVars
  <1>11. CASE uart_flush
    <2>1. tx_buffer'.data = <<>>
      BY <1>11 DEF uart_flush, Basic, BufferOK
    <2> QED BY <2>1 DEF TxServed
  <1>12. CASE DeleteTxBuffer \/ CreateTxBuffer
    <2>1. tx_buffer'.data = <<>>
      BY <1>12 DEF DeleteTxBuffer, CreateTxBuffer, NullBuffer, NewBuffer
    <2> QED BY <2>1 DEF TxServed
  <1>13. CASE DeleteRxBuffer \/ CreateRxBuffer
    BY <1>13 DEF DeleteRxBuffer, CreateRxBuffer, TxServed, txVars, callVars
  <1>14. CASE UNCHANGED vars
    BY <1>14 DEF vars, txVars, callVars, TxServed
  <1> QED BY <1>1, <1>2, <1>3, <1>4, <1>5, <1>6, <1>7, <1>8, <1>9, <1>10, <1>11, <1>12,
             <1>13, <1>14 DEF Next, CallStep

\* Characters waiting in the transmit buffer between calls have the interrupt
\* enabled that moves them on: no interleaving of handle_uart_interrupt() with the
\* read-modify-writes of USIE in uart_write() and uart_read() strands them.
THEOREM NeverStranded == Spec => []TxNeverStranded
  <1>1. TxServed => TxNeverStranded
    BY DEF TxServed, TxNeverStranded, Writing
  <1> QED BY <1>1, BasicInit, BasicNext, TxServedInit, TxServedNext, PTL DEF Spec

-----------------------------------------------------------------------------
(* The receive interrupts *)

Reading == {"r_buffer", "r_count", "r_fifo", "r_load", "r_store"}

\* The receive interrupts are enabled and masked together.
Together(s) == RxSources \subseteq s \/ RxSources \cap s = {}

\* Outside of uart_read(), whose last statement enables them, they are masked only
\* with characters in the FIFO; nor will a store of USIE that is due mask them
\* otherwise: the handler does not touch the FIFO while they are masked.
RxServed ==
    /\ Together(usie) /\ Together(loaded)
    /\ pc \in {"w_store", "r_store"} => usie \subseteq loaded
    /\ pc \notin Reading /\ ~(RxSources \subseteq usie) => rxFifo # <<>>
    /\ pc = "w_store" /\ ~(RxSources \subseteq loaded) => rxFifo # <<>>

LEMMA RxServedInit == Init => RxServed
  BY DEF Init, RxServed, Together, RxSources, Reading

\* The handler masks all receive interrupts, with the FIFO as it was and not empty,
\* or none; and it leaves the FIFO alone if they were masked.
LEMMA MaskedRx ==
    ASSUME Basic, Together(usie), NEW shifted \in 0..1, Interrupt(shifted)
    PROVE  /\ usie' \subseteq usie
           /\ \/ RxSources \cap usie' = RxSources \cap usie
              \/ RxSources \cap usie' = {} /\ rxFifo' = rxFifo /\ rxFifo # <<>>
           /\ ~(RxSources \subseteq usie) => rxFifo' = rxFifo
  <1>0. usie' = usie \ masked(shifted)
    BY DEF Interrupt
  <1>1. rxMoved = 0 => rxFifo' = rxFifo
    <2>1. 0 \in 0..Len(rxFifo)
      BY DEF Basic
    <2>2. /\ Take(rxFifo, 0) \in Chars /\ Drop(rxFifo, 0) \in Chars
          /\ Len(Take(rxFifo, 0)) = 0
          /\ rxFifo = Take(rxFifo, 0) \o Drop(rxFifo, 0)
      BY <2>1, CutFacts DEF Basic
    <2>3. Take(rxFifo, 0) = <<>>
      BY <2>2, EmptySeq
    <2>4. Drop(rxFifo, 0) = rxFifo
      BY <2>2, <2>3, ConcatEmptySeq
    <2> QED BY <2>4 DEF Interrupt
  <1>2. USIS \cap RxSources # {} => rxFifo # <<>>
    <2>1. Len(rxFifo) >= RxFifoFull => rxFifo # <<>>
      BY EmptyIsChars, RxFifoAssumption
    <2> QED BY <2>1 DEF USIS, raised, RxSources
  <1>3. CASE USIS \cap RxSources # {} /\ rxMoved = 0
    <2>1. RxSources \subseteq masked(shifted)
      BY <1>3 DEF masked
    <2> QED BY <1>0, <1>1, <1>2, <1>3, <2>1
  <1>4. CASE ~(USIS \cap RxSources # {} /\ rxMoved = 0)
    <2>1. RxSources \cap masked(shifted) = {}
      BY <1>4 DEF masked, RxSources
    <2>2. ~(RxSources \subseteq usie) => USIS \cap RxSources = {}
      BY DEF Together, USIS
    <2>3. USIS \cap RxSources = {} => rxMoved = 0
      BY DEF rxMoved
    <2> QED BY <1>0, <1>1, <2>1, <2>2, <2>3
  <1> QED BY <1>3, <1>4

LEMMA RxServedNext ==
    ASSUME Basic, RxServed, [Next]_vars
    PROVE  RxServed'
  <1>1. CASE ShiftOut
    BY <1>1 DEF ShiftOut, RxServed, rxVars, callVars
  <1>2. CASE ShiftIn
    <2>1. UNCHANGED <<usie, loaded, pc>>
      BY <1>2 DEF ShiftIn, callVars
    <2>2. rxFifo # <<>> => rxFifo' # <<>>
      <3>1. arrived + 1 \in Nat
        BY DEF Basic
      <3> QED BY <1>2, <3>1, AppendProperties DEF ShiftIn, Basic
    <2> QED BY <2>1, <2>2 DEF RxServed
  <1>3. CASE HandleInterrupt
    <2>1. PICK shifted \in 0..1 : Interrupt(shifted)
      BY <1>3 DEF HandleInterrupt
    <2>2. UNCHANGED <<pc, loaded>>
      BY <2>1 DEF Interrupt, callVars
    <2>3. /\ usie' \subseteq usie
          /\ \/ RxSources \cap usie' = RxSources \cap usie
             \/ RxSources \cap usie' = {} /\ rxFifo' = rxFifo /\ rxFifo # <<>>
          /\ ~(RxSources \subseteq usie) => rxFifo' = rxFifo
      BY <2>1, MaskedRx DEF RxServed
    <2>4. Together(usie')
      BY <2>3 DEF RxServed, Together
    <2>5. pc \notin Reading /\ ~(RxSources \subseteq usie') => rxFifo' # <<>>
      BY <2>3 DEF RxServed
    <2>6. pc = "w_store" /\ ~(RxSources \subseteq loaded) => rxFifo' # <<>>
      BY <2>3 DEF RxServed
    <2> QED BY <2>2, <2>3, <2>4, <2>5, <2>6 DEF RxServed
  <1>4. ASSUME NEW n \in CallSizes, uart_write(n) \/ uart_read(n) PROVE RxServed'
    <2>1. /\ pc = "idle" /\ UNCHANGED <<rxFifo, usie, loaded>>
          /\ pc' \in {"w_test", "r_buffer"}
      BY <1>4 DEF uart_write, uart_read, Goto, rxVars
    <2> QED BY <2>1 DEF RxServed, Reading
  <1>5. CASE WriteTest \/ WriteFifo \/ WriteBuffer \/ WriteLoop
    <2>1. /\ pc \in Writing /\ UNCHANGED <<rxFifo, usie, loaded>>
          /\ pc' \in Writing \cup {"w_load", "idle"}
      BY <1>5 DEF WriteTest, WriteFifo, WriteBuffer, WriteLoop, Writing, Goto, rxVars
    <2> QED BY <2>1 DEF RxServed, Reading, Writing
  <1>6. CASE ReadBuffer \/ ReadCount \/ ReadFifo
    <2>1. /\ UNCHANGED <<usie, loaded>>
          /\ pc' \in {"r_buffer", "r_count", "r_fifo", "r_load"}
      BY <1>6 DEF ReadBuffer, ReadCount, ReadFifo, Goto
    <2> QED BY <2>1 DEF RxServed, Reading
  <1>7. CASE UsieLoad
    BY <1>7 DEF UsieLoad, RxServed, Reading, Goto, rxVars
  <1>8. CASE UsieStore
    <2>1. UNCHANGED <<rxFifo, loaded>> /\ pc' = "idle"
      BY <1>8 DEF UsieStore, Goto, rxVars
    <2>2. CASE pc = "w_store"
      <3>1. usie' = loaded \cup {"UIFE"}
        BY <1>8, <2>2 DEF UsieStore
      <3> QED BY <2>1, <2>2, <3>1 DEF RxServed, Together, RxSources
    <2>3. CASE pc = "r_store"
      <3>1. usie' = loaded \cup RxSources
        BY <1>8, <2>3 DEF UsieStore
      <3> QED BY <2>1, <3>1 DEF RxServed, Together
    <2> QED BY <1>8, <2>2, <2>3 DEF UsieStore
  <1>9. CASE uart_wait_tx_empty \/ WaitBuffer \/ WaitFifo
    <2>1. /\ pc \in {"idle", "t_buffer", "t_fifo"} /\ UNCHANGED <<rxFifo, usie, loaded>>
          /\ pc' \in {"idle", "t_buffer", "t_fifo"}
      BY <1>9 DEF uart_wait_tx_empty, WaitBuffer, WaitFifo, Goto, rxVars
    <2> QED BY <2>1 DEF RxServed, Reading
  <1>10. CASE uart_flush
    <2>1. pc = "idle" /\ RxSources \subseteq usie' /\ UNCHANGED <<pc, loaded>>
      BY <1>10 DEF uart_flush, callVars
    <2> QED BY <2>1 DEF RxServed, Together
  <1>11. CASE DeleteTxBuffer \/ DeleteRxBuffer \/ CreateTxBuffer \/ CreateRxBuffer
    <2>1. UNCHANGED <<rxFifo, usie, pc, loaded>>
      BY <1>11 DEF DeleteTxBuffer, DeleteRxBuffer, CreateTxBuffer, CreateRxBuffer,
                   rxVars, txVars, callVars
    <2> QED BY <2>1 DEF RxServed
  <1>12. CASE UNCHANGED vars
    BY <1>12 DEF vars, rxVars, callVars, RxServed
  <1> QED BY <1>1, <1>2, <1>3, <1>4, <1>5, <1>6, <1>7, <1>8, <1>9, <1>10, <1>11, <1>12
          DEF Next, CallStep

\* Between calls the receive interrupts are masked only while uart_rx_available()
\* shows the application characters to read, short of a FIFO that is full.
THEOREM MaskedWithData == Spec => []RxMaskedWithData
  <1>1. ASSUME Basic, RxServed PROVE RxMaskedWithData
    <2>1. SUFFICES ASSUME rxFifo # <<>>, Len(rxFifo) < RxFifoSize
                   PROVE  uart_rx_available > 0
      BY <1>1 DEF RxServed, RxMaskedWithData, Reading
    <2>2. Len(rxFifo) \in Nat \ {0} /\ Len(rx_buffer.data) \in Nat
      BY <1>1, <2>1, EmptySeq DEF Basic, BufferOK
    <2>3. UART_RXCOUNT = Len(rxFifo)
      BY <2>1, <2>2, RxFifoAssumption DEF UART_RXCOUNT
    <2> QED BY <2>2, <2>3 DEF uart_rx_available
  <1> QED BY <1>1, BasicInit, BasicNext, RxServedInit, RxServedNext, PTL DEF Spec

-----------------------------------------------------------------------------
(* The order of transmission *)

\* The characters 1..n but those of D, in order.
InOrder(s, n, D) == Sorted(s) /\ CharsIn(s) = (1..n) \ D /\ D \subseteq 1..n

LEMMA InOrderMore ==
    ASSUME NEW s \in Chars, NEW n \in Nat, NEW D, InOrder(s, n, D)
    PROVE  InOrder(s \o <<n + 1>>, n + 1, D)
  <1>1. <<n + 1>> \in Chars /\ CharsIn(<<n + 1>>) = {n + 1} /\ Sorted(<<n + 1>>)
    BY CharsInOne
  <1>2. \A x \in CharsIn(s) : x < n + 1
    BY DEF InOrder
  <1>3. Sorted(s \o <<n + 1>>)
    BY <1>1, <1>2, SortedConcat, ZenonT(60) DEF InOrder
  <1>4. CharsIn(s \o <<n + 1>>) = CharsIn(s) \cup {n + 1}
    BY <1>1, CharsInConcat
  <1>5. 1..n + 1 = (1..n) \cup {n + 1} /\ n + 1 \notin 1..n
    OBVIOUS
  <1> QED BY <1>3, <1>4, <1>5 DEF InOrder

LEMMA InOrderLess ==
    ASSUME NEW s \in Chars, NEW r \in Chars, NEW n \in Nat, NEW D, InOrder(s \o r, n, D)
    PROVE  InOrder(s, n, D \cup CharsIn(r))
  <1>1. Sorted(s) /\ \A x \in CharsIn(s), y \in CharsIn(r) : x < y
    BY SortedConcat DEF InOrder
  <1>2. CharsIn(s) \cap CharsIn(r) = {}
    <2>1. SUFFICES ASSUME NEW x \in CharsIn(s), x \in CharsIn(r) PROVE FALSE
      OBVIOUS
    <2>2. x \in Nat /\ x < x
      BY <1>1, <2>1, CharsInNat
    <2> QED BY <2>2
  <1>3. CharsIn(s) \cup CharsIn(r) = (1..n) \ D
    BY CharsInConcat DEF InOrder
  <1> QED BY <1>1, <1>2, <1>3 DEF InOrder

LEMMA Concat ==
    ASSUME NEW a \in Chars, NEW b \in Chars
    PROVE  a \o b \in Chars
  BY ConcatProperties

LEMMA Assoc ==
    ASSUME NEW a \in Chars, NEW b \in Chars, NEW c \in Chars
    PROVE  (a \o b) \o c = a \o (b \o c)
  BY ConcatAssociative

LEMMA ConcatNone ==
    ASSUME NEW a \in Chars
    PROVE  a \o <<>> = a /\ <<>> \o a = a
  BY ConcatEmptySeq

LEMMA AppendOne ==
    ASSUME NEW a \in Chars, NEW c \in Nat
    PROVE  Append(a, c) = a \o <<c>> /\ Append(a, c) \in Chars
  BY AppendIsConcat, AppendProperties

LEMMA LenZero ==
    ASSUME NEW a \in Chars, Len(a) = 0
    PROVE  a = <<>>
  BY EmptySeq

HIDE DEF Chars

\* What a step does to the characters on their way: w on the wire, f in the FIFO and
\* d in the buffer.
onWay(w, f, d) == w \o f \o <<>> \o d

LEMMA WayFacts ==
    ASSUME NEW w \in Chars, NEW f \in Chars, NEW d \in Chars
    PROVE  onWay(w, f, d) = (w \o f) \o d
  BY Concat, ConcatNone DEF onWay

LEMMA WayIn ==
    ASSUME NEW w \in Chars, NEW f \in Chars, NEW d \in Chars
    PROVE  onWay(w, f, d) \in Chars
  <1>1. w \o f \in Chars
    BY Concat
  <1>2. (w \o f) \o d \in Chars
    BY <1>1, Concat
  <1> QED BY <1>2, WayFacts

LEMMA WayEmpty ==
    ASSUME NEW w \in Chars, NEW f \in Chars
    PROVE  onWay(w, f, <<>>) = w \o f /\ onWay(w, <<>>, <<>>) = w
  <1>1. w \o f \in Chars /\ w \o <<>> = w
    BY Concat, ConcatNone
  <1>2. (w \o f) \o <<>> = w \o f
    BY <1>1, ConcatNone
  <1> QED BY <1>1, <1>2 DEF onWay

LEMMA WayShift ==
    ASSUME NEW w \in Chars, NEW f \in Chars, NEW d \in Chars, f # <<>>
    PROVE  onWay(Append(w, Head(f)), Tail(f), d) = onWay(w, f, d)
  <1>1. Head(f) \in Nat /\ Tail(f) \in Chars /\ f = <<Head(f)>> \o Tail(f)
    BY HeadFacts
  <1>2. <<Head(f)>> \in Chars /\ Append(w, Head(f)) = w \o <<Head(f)>>
        /\ Append(w, Head(f)) \in Chars
    BY <1>1, CharsInOne, AppendOne
  <1>3. (w \o <<Head(f)>>) \o Tail(f) = w \o (<<Head(f)>> \o Tail(f))
    BY <1>1, <1>2, Assoc
  <1>4. onWay(Append(w, Head(f)), Tail(f), d) = (Append(w, Head(f)) \o Tail(f)) \o d
    BY <1>1, <1>2, WayFacts, ZenonT(60)
  <1>5. onWay(w, f, d) = (w \o f) \o d
    BY WayFacts
  <1> QED BY <1>1, <1>2, <1>3, <1>4, <1>5

LEMMA WayMove ==
    ASSUME NEW w \in Chars, NEW f \in Chars,
           NEW a \in Chars, NEW b \in Chars, NEW c \in Chars,
           f = <<>> \/ (a = <<>> /\ b = <<>>)
    PROVE  onWay(w \o a, f \o b, c) = onWay(w, f, (a \o b) \o c)
  <1>1. a \o b \in Chars
    BY Concat
  <1>2. (a \o b) \o c \in Chars
    BY <1>1, Concat
  <1>3. CASE f = <<>>
    <2>1. f \o b = b /\ w \o f = w
      BY <1>3, ConcatNone
    <2>2. onWay(w, f, (a \o b) \o c) = (w \o f) \o ((a \o b) \o c)
      BY <1>2, WayFacts, ZenonT(60)
    <2>3. onWay(w \o a, b, c) = ((w \o a) \o b) \o c
      <3>1. w \o a \in Chars
        BY Concat
      <3> QED BY <3>1, WayFacts
    <2>4. (w \o a) \o b = w \o (a \o b)
      BY Assoc
    <2>5. (w \o (a \o b)) \o c = w \o ((a \o b) \o c)
      <3>1. \A x \in Chars : (w \o x) \o c = w \o (x \o c)
        BY Assoc
      <3> QED BY <1>1, <3>1
    <2> QED BY <2>1, <2>2, <2>3, <2>4, <2>5
  <1>4. CASE a = <<>> /\ b = <<>>
    <2>1. w \o a = w /\ f \o b = f /\ a \o b = <<>> /\ <<>> \o c = c
      BY <1>4, ConcatNone, EmptyIsChars
    <2> QED BY <2>1
  <1> QED BY <1>3, <1>4

Ordered == InOrder(outgoing, accepted, discarded)

LEMMA WayTypes ==
    ASSUME Basic
    PROVE  /\ wire \in Chars /\ txFifo \in Chars /\ tx_buffer.data \in Chars
           /\ Len(tx_buffer.data) \in Nat
           /\ outgoing = onWay(wire, txFifo, tx_buffer.data) /\ accepted \in Nat
  <1>1. tx_buffer.data \in Chars /\ Len(tx_buffer.data) \in Nat
    BY DEF Basic, BufferOK, Chars
  <1> QED BY <1>1 DEF Basic, outgoing, onWay

LEMMA OrderedInit == Init => Ordered
  <1>1. SUFFICES ASSUME Init PROVE Ordered
    OBVIOUS
  <1>2. <<>> \o <<>> = <<>>
    BY ConcatNone, EmptyIsChars
  <1>3. outgoing = <<>>
    BY <1>1, <1>2 DEF Init, outgoing, NewBuffer
  <1>4. Sorted(<<>>) /\ CharsIn(<<>>) = {}
    BY CharsInEmpty, EmptyIsChars DEF Sorted
  <1>5. 1..0 = {}
    OBVIOUS
  <1> QED BY <1>1, <1>3, <1>4, <1>5 DEF Ordered, InOrder, Init

\* The handler moves characters along without changing their order.
LEMMA InterruptMoves ==
    ASSUME Basic, NEW shifted \in 0..1, Interrupt(shifted)
    PROVE  \E a, b, c \in Chars :
             /\ wire' = wire \o a /\ txFifo' = txFifo \o b /\ tx_buffer'.data = c
             /\ tx_buffer.data = (a \o b) \o c
             /\ txFifo = <<>> \/ (a = <<>> /\ b = <<>>)
  <1> DEFINE d == tx_buffer.data
  <1>0. d \in Chars /\ Len(d) \in Nat /\ txMoved \in 0..Len(d) /\ shifted \in 0..txMoved
        /\ (txMoved > 0 => txFifo = <<>>) /\ tx_buffer'.data = Drop(d, txMoved)
    BY WayTypes, MovedFacts, InterruptFacts
  <1> HIDE DEF d
  <1>1. shifted \in 0..Len(d) /\ txMoved \in Nat
    BY <1>0
  <1>2. Take(d, shifted) \in Chars /\ Len(Take(d, shifted)) = shifted
    BY <1>0, <1>1, CutFacts
  <1>3. /\ SubSeq(d, shifted + 1, txMoved) \in Chars
        /\ Len(SubSeq(d, shifted + 1, txMoved)) = txMoved - shifted
        /\ Take(d, txMoved) = Take(d, shifted) \o SubSeq(d, shifted + 1, txMoved)
    BY <1>0, CutTwice
  <1>4. Drop(d, txMoved) \in Chars /\ d = Take(d, txMoved) \o Drop(d, txMoved)
    BY <1>0, CutFacts
  <1>5. txFifo = <<>> \/ (Take(d, shifted) = <<>> /\ SubSeq(d, shifted + 1, txMoved) = <<>>)
    <2>1. CASE txMoved = 0
      <3>1. Len(Take(d, shifted)) = 0 /\ Len(SubSeq(d, shifted + 1, txMoved)) = 0
        BY <1>0, <1>2, <1>3, <2>1
      <3> QED BY <1>2, <1>3, <3>1, LenZero
    <2>2. CASE txMoved > 0
      BY <1>0, <2>2
    <2> QED BY <1>1, <2>1, <2>2
  <1>6. /\ wire' = wire \o Take(d, shifted)
        /\ txFifo' = txFifo \o SubSeq(d, shifted + 1, txMoved)
    BY DEF Interrupt, d
  <1>7. d = (Take(d, shifted) \o SubSeq(d, shifted + 1, txMoved)) \o Drop(d, txMoved)
    BY <1>3, <1>4
  <1>8. tx_buffer.data = d
    BY DEF d
  <1> QED BY <1>0, <1>2, <1>3, <1>4, <1>5, <1>6, <1>7, <1>8, Zenon

\* A step that leaves what is on its way, or adds one character at its end.
LEMMA OrderedStays ==
    ASSUME Ordered, outgoing' = outgoing, UNCHANGED <<accepted, discarded>>
    PROVE  Ordered'
  BY DEF Ordered

LEMMA OrderedNext ==
    ASSUME Basic, TxServed, Ordered, [Next]_vars
    PROVE  Ordered'
  <1>0. /\ wire \in Chars /\ txFifo \in Chars /\ tx_buffer.data \in Chars /\ accepted \in Nat
        /\ outgoing = onWay(wire, txFifo, tx_buffer.data)
    BY WayTypes
  <1>00. copy' = <<>> /\ outgoing' = onWay(wire', txFifo', tx_buffer'.data)
    <2>1. Basic'
      BY BasicNext
    <2> QED BY <2>1 DEF Basic, outgoing, onWay
  <1>1. CASE ShiftOut
    <2>1. txFifo # <<>> /\ wire' = Append(wire, Head(txFifo)) /\ txFifo' = Tail(txFifo)
          /\ UNCHANGED <<tx_buffer, accepted, discarded>>
      BY <1>1 DEF ShiftOut
    <2>2. outgoing' = outgoing
      BY <1>0, <1>00, <2>1, WayShift
    <2> QED BY <2>1, <2>2, OrderedStays
  <1>2. CASE HandleInterrupt
    <2>1. PICK shifted \in 0..1 : Interrupt(shifted)
      BY <1>2 DEF HandleInterrupt
    <2>2. PICK a \in Chars, b \in Chars, c \in Chars :
             /\ wire' = wire \o a /\ txFifo' = txFifo \o b /\ tx_buffer'.data = c
             /\ tx_buffer.data = (a \o b) \o c
             /\ txFifo = <<>> \/ (a = <<>> /\ b = <<>>)
      BY <2>1, InterruptMoves
    <2>3. onWay(wire \o a, txFifo \o b, c) = onWay(wire, txFifo, (a \o b) \o c)
      BY <1>0, <2>2, WayMove
    <2>4. outgoing' = outgoing
      BY <1>0, <1>00, <2>2, <2>3
    <2> QED BY <2>1, <2>4, OrderedStays DEF Interrupt
  <1>3. CASE WriteFifo
    <2>1. CASE count < size /\ ~UART_TXFULL
      <3>1. /\ txFifo' = Append(txFifo, accepted + 1) /\ accepted' = accepted + 1
            /\ UNCHANGED <<tx_buffer, wire, discarded>> /\ pc = "w_fifo"
        BY <1>3, <2>1 DEF WriteFifo
      <3>2. tx_buffer.data = <<>> /\ accepted + 1 \in Nat
        BY <1>0, <3>1 DEF TxServed
      <3>3. txFifo' = txFifo \o <<accepted + 1>> /\ txFifo' \in Chars /\ <<accepted + 1>> \in Chars
        BY <1>0, <3>1, <3>2, AppendOne, CharsInOne
      <3>4. wire \o txFifo \in Chars /\ wire \o txFifo' \in Chars
        BY <1>0, <3>3, Concat
      <3>5. outgoing = wire \o txFifo
        BY <1>0, <3>2, WayEmpty
      <3>6. outgoing' = wire \o txFifo'
        BY <1>0, <1>00, <3>1, <3>2, <3>3, WayEmpty
      <3>7. wire \o (txFifo \o <<accepted + 1>>) = (wire \o txFifo) \o <<accepted + 1>>
        BY <1>0, <3>3, Assoc
      <3>8. outgoing' = outgoing \o <<accepted + 1>>
        BY <3>3, <3>5, <3>6, <3>7
      <3>9. InOrder(outgoing \o <<accepted + 1>>, accepted + 1, discarded)
        BY <1>0, <3>4, <3>5, InOrderMore DEF Ordered
      <3> QED BY <3>1, <3>8, <3>9 DEF Ordered
    <2>2. CASE ~(count < size /\ ~UART_TXFULL)
      <3>1. UNCHANGED <<wire, txFifo, tx_buffer, accepted, discarded>>
        BY <1>3, <2>2 DEF WriteFifo
      <3> QED BY <1>0, <1>00, <3>1, OrderedStays
    <2> QED BY <2>1, <2>2
  <1>4. CASE WriteBuffer
    <2>1. CASE hasBuffer(tx_buffer) /\ count < size /\ freeSpace(tx_buffer) > 0
      <3>1. /\ tx_buffer' = [tx_buffer EXCEPT !.data = Append(@, accepted + 1)]
            /\ accepted' = accepted + 1 /\ UNCHANGED <<txFifo, wire, discarded>>
        BY <1>4, <2>1 DEF WriteBuffer
      <3>2. tx_buffer'.data = Append(tx_buffer.data, accepted + 1) /\ accepted + 1 \in Nat
        BY <3>1, <1>0 DEF Basic, BufferOK
      <3>3. tx_buffer'.data = tx_buffer.data \o <<accepted + 1>> /\ tx_buffer'.data \in Chars
            /\ <<accepted + 1>> \in Chars
        BY <1>0, <3>2, AppendOne, CharsInOne
      <3>4. wire \o txFifo \in Chars
        BY <1>0, Concat
      <3>5. outgoing = (wire \o txFifo) \o tx_buffer.data /\ outgoing \in Chars
        BY <1>0, WayFacts, WayIn
      <3>6. outgoing' = (wire \o txFifo) \o tx_buffer'.data
        BY <1>0, <1>00, <3>1, <3>3, WayFacts, ZenonT(60)
      <3>7. (wire \o txFifo) \o (tx_buffer.data \o <<accepted + 1>>)
              = ((wire \o txFifo) \o tx_buffer.data) \o <<accepted + 1>>
        <4>1. \A x \in Chars : x \o (tx_buffer.data \o <<accepted + 1>>)
                                 = (x \o tx_buffer.data) \o <<accepted + 1>>
          BY <1>0, <3>3, Assoc, ZenonT(60)
        <4> QED BY <3>4, <4>1
      <3>8. outgoing' = outgoing \o <<accepted + 1>>
        BY <3>3, <3>5, <3>6, <3>7
      <3>9. InOrder(outgoing \o <<accepted + 1>>, accepted + 1, discarded)
        BY <1>0, <3>5, InOrderMore DEF Ordered
      <3> QED BY <3>1, <3>8, <3>9 DEF Ordered
    <2>2. CASE ~(hasBuffer(tx_buffer) /\ count < size /\ freeSpace(tx_buffer) > 0)
      <3>1. UNCHANGED <<wire, txFifo, tx_buffer, accepted, discarded>>
        BY <1>4, <2>2 DEF WriteBuffer
      <3> QED BY <1>0, <1>00, <3>1, OrderedStays
    <2> QED BY <2>1, <2>2
  <1>5. CASE uart_flush
    <2>1. /\ txFifo' = <<>> /\ discarded' = discarded \cup CharsIn(txFifo \o tx_buffer.data)
          /\ UNCHANGED <<wire, accepted>> /\ tx_buffer'.data = <<>>
      BY <1>5 DEF uart_flush, Basic, BufferOK
    <2>2. txFifo \o tx_buffer.data \in Chars
      BY <1>0, Concat
    <2>3. outgoing = wire \o (txFifo \o tx_buffer.data)
      <3>1. outgoing = (wire \o txFifo) \o tx_buffer.data
        BY <1>0, WayFacts
      <3> QED BY <1>0, <3>1, Assoc
    <2>4. outgoing' = wire
      BY <1>0, <1>00, <2>1, WayEmpty
    <2>5. InOrder(wire, accepted, discarded \cup CharsIn(txFifo \o tx_buffer.data))
      BY <1>0, <2>2, <2>3, InOrderLess DEF Ordered
    <2> QED BY <2>1, <2>4, <2>5 DEF Ordered
  <1>6. CASE DeleteTxBuffer
    <2>1. /\ tx_buffer'.data = <<>> /\ discarded' = discarded \cup CharsIn(tx_buffer.data)
          /\ UNCHANGED <<txFifo, wire, accepted>>
      BY <1>6 DEF DeleteTxBuffer, NullBuffer, NewBuffer
    <2>2. wire \o txFifo \in Chars /\ outgoing = (wire \o txFifo) \o tx_buffer.data
      BY <1>0, WayFacts, Concat
    <2>3. outgoing' = wire \o txFifo
      BY <1>0, <1>00, <2>1, WayEmpty
    <2>4. InOrder(wire \o txFifo, accepted, discarded \cup CharsIn(tx_buffer.data))
      BY <1>0, <2>2, InOrderLess DEF Ordered
    <2> QED BY <2>1, <2>3, <2>4 DEF Ordered
  <1>7. CASE CreateTxBuffer
    <2>1. tx_buffer'.data = <<>> /\ UNCHANGED <<wire, txFifo, accepted, discarded>>
      BY <1>7 DEF CreateTxBuffer, NewBuffer
    <2>2. tx_buffer.data = <<>>
      BY <1>7 DEF CreateTxBuffer, Basic, BufferOK
    <2> QED BY <1>0, <1>00, <2>1, <2>2, OrderedStays
  <1>8. ASSUME UNCHANGED txVars PROVE Ordered'
    <2>1. UNCHANGED <<wire, txFifo, tx_buffer, accepted, discarded>>
      BY <1>8 DEF txVars
    <2> QED BY <1>0, <1>00, <2>1, OrderedStays
  <1>9. CASE ShiftIn \/ DeleteRxBuffer \/ CreateRxBuffer \/ uart_wait_tx_empty
    BY <1>8, <1>9 DEF ShiftIn, DeleteRxBuffer, CreateRxBuffer, uart_wait_tx_empty
  <1>10. ASSUME NEW n \in CallSizes, uart_write(n) \/ uart_read(n) PROVE Ordered'
    BY <1>8, <1>10 DEF uart_write, uart_read
  <1>11. CASE WriteTest \/ WriteLoop \/ ReadBuffer \/ ReadCount \/ ReadFifo
              \/ UsieLoad \/ UsieStore \/ WaitBuffer \/ WaitFifo
    BY <1>8, <1>11 DEF WriteTest, WriteLoop, ReadBuffer, ReadCount, ReadFifo, UsieLoad,
                       UsieStore, WaitBuffer, WaitFifo
  <1>12. CASE UNCHANGED vars
    BY <1>8, <1>12 DEF vars
  <1> QED BY <1>1, <1>2, <1>3, <1>4, <1>5, <1>6, <1>7, <1>9, <1>10, <1>11, <1>12
          DEF Next, CallStep

\* Characters leave in the order in which uart_write() accepted them, each once and
\* none missing but those a flush or a deleted buffer threw away.
THEOREM SentInOrder == Spec => []TxInOrder
  <1>1. Ordered => TxInOrder
    BY DEF Ordered, InOrder, Sorted, TxInOrder
  <1> QED BY <1>1, BasicInit, BasicNext, TxServedInit, TxServedNext, OrderedInit, OrderedNext,
             PTL DEF Spec

\* When uart_wait_tx_empty() returns, every character accepted before has been sent.
THEOREM WaitCorrect == Spec => WaitMeansSent
  <1> DEFINE A == pc = "t_fifo" /\ pc' = "idle" => CharsIn(wire) = (1..accepted) \ discarded
  <1>1. ASSUME Basic, TxServed, Ordered, [Next]_vars PROVE [A]_vars
    <2>1. SUFFICES ASSUME pc = "t_fifo", pc' = "idle"
                   PROVE  CharsIn(wire) = (1..accepted) \ discarded
      OBVIOUS
    <2>2. WaitFifo
      BY <1>1, <2>1 DEF Next, CallStep, ShiftOut, ShiftIn, HandleInterrupt, Interrupt, WriteTest,
         WriteFifo, WriteBuffer, WriteLoop, ReadBuffer, ReadCount, ReadFifo, UsieLoad, UsieStore,
         WaitBuffer, uart_write, uart_read, uart_wait_tx_empty, uart_flush, DeleteTxBuffer,
         DeleteRxBuffer, CreateTxBuffer, CreateRxBuffer, callVars, vars
    <2>3. txFifo = <<>> /\ tx_buffer.data = <<>>
      BY <1>1, <2>1, <2>2 DEF WaitFifo, TxServed
    <2>4. outgoing = wire
      BY <1>1, <2>3, WayTypes, WayEmpty
    <2> QED BY <1>1, <2>4 DEF Ordered, InOrder
  <1>2. Spec => [](Basic /\ TxServed /\ Ordered)
    BY BasicInit, BasicNext, TxServedInit, TxServedNext, OrderedInit, OrderedNext, PTL DEF Spec
  <1> QED BY <1>1, <1>2, PTL DEF Spec, WaitMeansSent

-----------------------------------------------------------------------------
(* The places of the characters received *)

\* 1..n cut into four: handed to the application, in the buffer, in the FIFO, lost.
Partition(G, D, F, X, n) ==
    /\ G \cup D \cup F \cup X = 1..n
    /\ G \cap D = {} /\ G \cap F = {} /\ G \cap X = {}
    /\ D \cap F = {} /\ D \cap X = {} /\ F \cap X = {}

\* RxConserved counts; that no character is anywhere twice is what keeps the counts.
Placed ==
    /\ Distinct(got) /\ Distinct(rx_buffer.data) /\ Distinct(rxFifo)
    /\ Partition(CharsIn(got) \ {Junk}, CharsIn(rx_buffer.data), CharsIn(rxFifo), dropped, arrived)

LEMMA RxTypes ==
    ASSUME Basic
    PROVE  /\ got \in Chars /\ rx_buffer.data \in Chars /\ rxFifo \in Chars
           /\ arrived \in Nat /\ dropped \subseteq Nat
  BY DEF Basic, BufferOK

LEMMA DistinctEmpty == Distinct(<<>>) /\ CharsIn(<<>>) = {}
  BY CharsInEmpty, EmptyIsChars DEF Distinct

LEMMA PlacedInit == Init => Placed
  <1>1. SUFFICES ASSUME Init PROVE Placed
    OBVIOUS
  <1>2. /\ got = <<>> /\ rx_buffer.data = <<>> /\ rxFifo = <<>> /\ dropped = {} /\ arrived = 0
    BY <1>1 DEF Init, NewBuffer
  <1>3. 1..0 = {}
    OBVIOUS
  <1>4. Partition({} \ {Junk}, {}, {}, {}, 0)
    BY <1>3 DEF Partition
  <1> QED BY <1>2, <1>4, DistinctEmpty DEF Placed

\* Reading the oldest character of a buffer or FIFO q, handed over to g.
LEMMA HandOver ==
    ASSUME NEW g \in Chars, NEW q \in Chars, q # <<>>, Distinct(g), Distinct(q),
           (CharsIn(g) \ {Junk}) \cap CharsIn(q) = {}, Junk \notin CharsIn(q)
    PROVE  /\ Distinct(Append(g, Head(q))) /\ Distinct(Tail(q))
           /\ CharsIn(q) = {Head(q)} \cup CharsIn(Tail(q)) /\ Head(q) \notin CharsIn(Tail(q))
           /\ CharsIn(Append(g, Head(q))) \ {Junk} = (CharsIn(g) \ {Junk}) \cup {Head(q)}
  <1>1. Head(q) \in Nat /\ Tail(q) \in Chars /\ q = <<Head(q)>> \o Tail(q)
    BY HeadFacts
  <1>2. /\ <<Head(q)>> \in Chars /\ CharsIn(<<Head(q)>>) = {Head(q)} /\ Distinct(<<Head(q)>>)
        /\ Append(g, Head(q)) = g \o <<Head(q)>>
    BY <1>1, CharsInOne, AppendOne
  <1>3. CharsIn(<<Head(q)>> \o Tail(q)) = CharsIn(<<Head(q)>>) \cup CharsIn(Tail(q))
    BY <1>1, <1>2, CharsInConcat
  <1>4. CharsIn(q) = {Head(q)} \cup CharsIn(Tail(q))
    BY <1>1, <1>2, <1>3
  <1>5. Distinct(<<Head(q)>> \o Tail(q)) <=>
          /\ Distinct(<<Head(q)>>) /\ Distinct(Tail(q))
          /\ CharsIn(<<Head(q)>>) \cap CharsIn(Tail(q)) \subseteq {Junk}
    BY <1>1, <1>2, DistinctConcat
  <1>6. Distinct(Tail(q)) /\ Head(q) \notin CharsIn(Tail(q)) /\ Head(q) # Junk
    BY <1>1, <1>2, <1>4, <1>5
  <1>7. Head(q) \notin CharsIn(g)
    BY <1>4, <1>6
  <1>8. Distinct(g \o <<Head(q)>>)
    BY <1>2, <1>7, DistinctConcat
  <1>9. CharsIn(g \o <<Head(q)>>) = CharsIn(g) \cup CharsIn(<<Head(q)>>)
    BY <1>2, CharsInConcat
  <1> QED BY <1>2, <1>4, <1>6, <1>8, <1>9

\* The handler moves characters from the FIFO to the buffer, n of them.
LEMMA MoveIn ==
    ASSUME NEW d \in Chars, NEW f \in Chars, NEW n \in 0..Len(f), Distinct(d), Distinct(f),
           CharsIn(d) \cap CharsIn(f) = {}, Junk \notin CharsIn(f)
    PROVE  /\ Distinct(d \o Take(f, n)) /\ Distinct(Drop(f, n))
           /\ CharsIn(d \o Take(f, n)) \cap CharsIn(Drop(f, n)) = {}
           /\ CharsIn(d \o Take(f, n)) \cup CharsIn(Drop(f, n)) = CharsIn(d) \cup CharsIn(f)
  <1>1. Take(f, n) \in Chars /\ Drop(f, n) \in Chars /\ f = Take(f, n) \o Drop(f, n)
    BY CutFacts
  <1>2. CharsIn(f) = CharsIn(Take(f, n)) \cup CharsIn(Drop(f, n))
    <2>1. CharsIn(Take(f, n) \o Drop(f, n)) = CharsIn(Take(f, n)) \cup CharsIn(Drop(f, n))
      BY <1>1, CharsInConcat
    <2> QED BY <1>1, <2>1
  <1>3. Distinct(Take(f, n)) /\ Distinct(Drop(f, n))
        /\ CharsIn(Take(f, n)) \cap CharsIn(Drop(f, n)) \subseteq {Junk}
    <2>1. Distinct(Take(f, n) \o Drop(f, n)) <=>
            /\ Distinct(Take(f, n)) /\ Distinct(Drop(f, n))
            /\ CharsIn(Take(f, n)) \cap CharsIn(Drop(f, n)) \subseteq {Junk}
      BY <1>1, DistinctConcat
    <2> QED BY <1>1, <2>1
  <1>4. CharsIn(d \o Take(f, n)) = CharsIn(d) \cup CharsIn(Take(f, n))
    BY <1>1, CharsInConcat
  <1>5. Distinct(d \o Take(f, n))
    <2>1. CharsIn(d) \cap CharsIn(Take(f, n)) \subseteq {Junk}
      BY <1>2
    <2> QED BY <1>1, <1>3, <2>1, DistinctConcat
  <1> QED BY <1>2, <1>3, <1>4, <1>5

LEMMA PlacedNext ==
    ASSUME Basic, Placed, [Next]_vars
    PROVE  Placed'
  <1> DEFINE G == CharsIn(got) \ {Junk}
             D == CharsIn(rx_buffer.data)
             F == CharsIn(rxFifo)
  <1>0. /\ got \in Chars /\ rx_buffer.data \in Chars /\ rxFifo \in Chars
        /\ arrived \in Nat /\ dropped \subseteq Nat
    BY RxTypes
  <1>00. /\ Distinct(got) /\ Distinct(rx_buffer.data) /\ Distinct(rxFifo)
         /\ Partition(G, D, F, dropped, arrived)
    BY DEF Placed
  <1>01. Junk \notin D /\ Junk \notin F
    <2>1. Junk \notin 1..arrived
      BY <1>0 DEF Junk
    <2> QED BY <1>00, <2>1 DEF Partition
  <1>1. CASE ShiftIn
    <2>0. 1..arrived + 1 = (1..arrived) \cup {arrived + 1} /\ arrived + 1 \notin 1..arrived
          /\ arrived + 1 \in Nat
      BY <1>0
    <2>1. UNCHANGED <<got, rx_buffer>> /\ arrived' = arrived + 1
      BY <1>1 DEF ShiftIn
    <2>2. CASE Len(rxFifo) < RxFifoSize
      <3>1. rxFifo' = Append(rxFifo, arrived + 1) /\ dropped' = dropped
        BY <1>1, <2>2 DEF ShiftIn
      <3>2. /\ rxFifo' = rxFifo \o <<arrived + 1>> /\ <<arrived + 1>> \in Chars
            /\ CharsIn(<<arrived + 1>>) = {arrived + 1} /\ Distinct(<<arrived + 1>>)
        BY <1>0, <2>0, <3>1, AppendOne, CharsInOne
      <3>3. CharsIn(rxFifo') = F \cup {arrived + 1}
        BY <1>0, <3>2, CharsInConcat
      <3>4. arrived + 1 \notin F
        BY <1>00, <2>0 DEF Partition
      <3>5. Distinct(rxFifo')
        BY <1>0, <1>00, <3>2, <3>4, DistinctConcat
      <3>6. Partition(G, D, F \cup {arrived + 1}, dropped, arrived + 1)
        BY <1>00, <2>0 DEF Partition
      <3> QED BY <1>00, <2>1, <3>1, <3>3, <3>5, <3>6 DEF Placed
    <2>3. CASE ~(Len(rxFifo) < RxFifoSize)
      <3>1. rxFifo' = rxFifo /\ dropped' = dropped \cup {arrived + 1}
        BY <1>1, <2>3 DEF ShiftIn
      <3>2. Partition(G, D, F, dropped \cup {arrived + 1}, arrived + 1)
        BY <1>00, <2>0 DEF Partition
      <3> QED BY <1>00, <2>1, <3>1, <3>2 DEF Placed
    <2> QED BY <2>2, <2>3
  <1>2. CASE HandleInterrupt
    <2>1. PICK shifted \in 0..1 : Interrupt(shifted)
      BY <1>2 DEF HandleInterrupt
    <2>2. /\ rx_buffer'.data = rx_buffer.data \o Take(rxFifo, rxMoved)
          /\ rxFifo' = Drop(rxFifo, rxMoved) /\ UNCHANGED <<got, arrived, dropped>>
      BY <2>1, InterruptFacts DEF Interrupt
    <2>3. rxMoved \in 0..Len(rxFifo) /\ D \cap F = {}
      BY <1>00, MovedFacts DEF Partition
    <2>4. /\ Distinct(rx_buffer'.data) /\ Distinct(rxFifo')
          /\ CharsIn(rx_buffer'.data) \cap CharsIn(rxFifo') = {}
          /\ CharsIn(rx_buffer'.data) \cup CharsIn(rxFifo') = D \cup F
      BY <1>0, <1>00, <1>01, <2>2, <2>3, MoveIn
    <2>5. Partition(G, CharsIn(rx_buffer'.data), CharsIn(rxFifo'), dropped, arrived)
      BY <1>00, <2>4 DEF Partition
    <2> QED BY <1>00, <2>2, <2>4, <2>5 DEF Placed
  <1>3. CASE ReadBuffer
    <2>1. CASE count < size /\ rx_buffer.data # <<>>
      <3>1. /\ got' = Append(got, Head(rx_buffer.data))
            /\ rx_buffer' = [rx_buffer EXCEPT !.data = Tail(@)]
            /\ UNCHANGED <<rxFifo, arrived, dropped>>
        BY <1>3, <2>1 DEF ReadBuffer
      <3>2. rx_buffer'.data = Tail(rx_buffer.data)
        BY <3>1 DEF Basic, BufferOK
      <3>3. G \cap D = {}
        BY <1>00 DEF Partition
      <3>4. /\ Distinct(got') /\ Distinct(rx_buffer'.data)
            /\ D = {Head(rx_buffer.data)} \cup CharsIn(rx_buffer'.data)
            /\ Head(rx_buffer.data) \notin CharsIn(rx_buffer'.data)
            /\ CharsIn(got') \ {Junk} = G \cup {Head(rx_buffer.data)}
        BY <1>0, <1>00, <1>01, <2>1, <3>1, <3>2, <3>3, HandOver
      <3>5. Partition(CharsIn(got') \ {Junk}, CharsIn(rx_buffer'.data), F, dropped, arrived)
        BY <1>00, <3>4 DEF Partition
      <3> QED BY <1>00, <3>1, <3>4, <3>5 DEF Placed
    <2>2. CASE ~(count < size /\ rx_buffer.data # <<>>)
      BY <1>3, <2>2 DEF ReadBuffer, Placed
    <2> QED BY <2>1, <2>2
  <1>4. CASE ReadFifo
    <2>1. /\ rxFifo' = Drop(rxFifo, 1) /\ UNCHANGED <<rx_buffer, arrived, dropped>>
          /\ got' = Append(got, IF rxFifo = <<>> THEN Junk ELSE Head(rxFifo))
      BY <1>4 DEF ReadFifo
    <2>2. CASE rxFifo = <<>>
      <3>1. Junk \in Nat /\ rxFifo' = rxFifo
        BY <2>1, <2>2, DropEmpty DEF Junk
      <3>2. /\ got' = got \o <<Junk>> /\ <<Junk>> \in Chars /\ CharsIn(<<Junk>>) = {Junk}
            /\ Distinct(<<Junk>>)
        BY <1>0, <2>1, <2>2, <3>1, AppendOne, CharsInOne
      <3>3. CharsIn(got') \ {Junk} = G
        BY <1>0, <3>2, CharsInConcat
      <3>4. Distinct(got')
        BY <1>0, <1>00, <3>2, DistinctConcat
      <3> QED BY <1>00, <2>1, <3>1, <3>3, <3>4 DEF Placed
    <2>3. CASE rxFifo # <<>>
      <3>1. got' = Append(got, Head(rxFifo)) /\ rxFifo' = Tail(rxFifo)
        BY <1>0, <2>1, <2>3, HeadFacts
      <3>2. G \cap F = {}
        BY <1>00 DEF Partition
      <3>3. /\ Distinct(got') /\ Distinct(rxFifo') /\ F = {Head(rxFifo)} \cup CharsIn(rxFifo')
            /\ Head(rxFifo) \notin CharsIn(rxFifo')
            /\ CharsIn(got') \ {Junk} = G \cup {Head(rxFifo)}
        BY <1>0, <1>00, <1>01, <2>3, <3>1, <3>2, HandOver
      <3>4. Partition(CharsIn(got') \ {Junk}, D, CharsIn(rxFifo'), dropped, arrived)
        BY <1>00, <3>3 DEF Partition
      <3> QED BY <1>00, <2>1, <3>3, <3>4 DEF Placed
    <2> QED BY <2>2, <2>3
  <1>5. CASE uart_flush
    <2>1. /\ rxFifo' = <<>> /\ dropped' = dropped \cup CharsIn(rxFifo \o rx_buffer.data)
          /\ UNCHANGED <<got, arrived>> /\ rx_buffer'.data = <<>>
      BY <1>5 DEF uart_flush, Basic, BufferOK
    <2>2. dropped' = dropped \cup (F \cup D)
      BY <1>0, <2>1, CharsInConcat
    <2>3. Partition(G, {}, {}, dropped \cup (F \cup D), arrived)
      BY <1>00 DEF Partition
    <2> QED BY <1>00, <2>1, <2>2, <2>3, DistinctEmpty DEF Placed
  <1>6. CASE DeleteRxBuffer
    <2>1. /\ rx_buffer'.data = <<>> /\ dropped' = dropped \cup D
          /\ UNCHANGED <<rxFifo, got, arrived>>
      BY <1>6 DEF DeleteRxBuffer, NullBuffer, NewBuffer
    <2>2. Partition(G, {}, F, dropped \cup D, arrived)
      BY <1>00 DEF Partition
    <2> QED BY <1>00, <2>1, <2>2, DistinctEmpty DEF Placed
  <1>7. CASE CreateRxBuffer
    <2>1. rx_buffer'.data = <<>> /\ UNCHANGED <<rxFifo, got, arrived, dropped>>
      BY <1>7 DEF CreateRxBuffer, NewBuffer
    <2>2. rx_buffer.data = <<>>
      BY <1>7 DEF CreateRxBuffer, Basic, BufferOK
    <2> QED BY <1>00, <2>1, <2>2 DEF Placed
  <1>8. ASSUME UNCHANGED rxVars PROVE Placed'
    BY <1>8 DEF rxVars, Placed
  <1>9. CASE ShiftOut \/ DeleteTxBuffer \/ CreateTxBuffer \/ uart_wait_tx_empty
    BY <1>8, <1>9 DEF ShiftOut, DeleteTxBuffer, CreateTxBuffer, uart_wait_tx_empty
  <1>10. ASSUME NEW n \in CallSizes, uart_write(n) \/ uart_read(n) PROVE Placed'
    BY <1>8, <1>10 DEF uart_write, uart_read
  <1>11. CASE WriteTest \/ WriteFifo \/ WriteBuffer \/ WriteLoop \/ ReadCount
              \/ UsieLoad \/ UsieStore \/ WaitBuffer \/ WaitFifo
    BY <1>8, <1>11 DEF WriteTest, WriteFifo, WriteBuffer, WriteLoop, ReadCount, UsieLoad,
                       UsieStore, WaitBuffer, WaitFifo
  <1>12. CASE UNCHANGED vars
    BY <1>8, <1>12 DEF vars
  <1> QED BY <1>1, <1>2, <1>3, <1>4, <1>5, <1>6, <1>7, <1>9, <1>10, <1>11, <1>12
          DEF Next, CallStep

LEMMA UpTo ==
    ASSUME NEW n \in Nat
    PROVE  IsFiniteSet(1..n) /\ Cardinality(1..n) = n
  BY FS_Interval

\* A sequence without a character twice has as many characters as places for them.
LEMMA DistinctCard ==
    ASSUME NEW s \in Chars, Distinct(s), NEW T, T = CharsIn(s) \ {Junk},
           NEW K, K = {i \in 1..Len(s) : s[i] # Junk}
    PROVE  /\ IsFiniteSet(T) /\ Cardinality(T) = Cardinality(K) /\ Cardinality(T) \in Nat
           /\ T = {s[i] : i \in K}
  <1>1. Len(s) \in Nat
    BY DEF Chars
  <1>2. IsFiniteSet(K)
    <2>1. IsFiniteSet(1..Len(s)) /\ K \in SUBSET (1..Len(s))
      BY <1>1, UpTo
    <2> QED BY <2>1, FS_Subset
  <1> DEFINE f == [i \in K |-> s[i]]
  <1>3. T = {s[i] : i \in K}
    BY DEF CharsIn
  <1>4. f \in Bijection(K, T)
    <2>1. f \in [K -> T] /\ \A i \in K : f[i] = s[i]
      BY <1>3
    <2>2. \A i, j \in K : f[i] = f[j] => i = j
      BY <2>1 DEF Distinct
    <2>3. \A t \in T : \E i \in K : f[i] = t
      BY <1>3, <2>1
    <2> HIDE DEF f
    <2> QED BY <2>1, <2>2, <2>3 DEF Bijection, Injection, Surjection, IsInjective
  <1>5. ExistsBijection(K, T)
    BY <1>4 DEF ExistsBijection
  <1>6. IsFiniteSet(T) /\ Cardinality(T) = Cardinality(K)
    BY <1>2, <1>5, FS_Bijection
  <1> QED BY <1>3, <1>6, FS_CardinalityType

LEMMA DistinctLen ==
    ASSUME NEW s \in Chars, Distinct(s), Junk \notin CharsIn(s)
    PROVE  IsFiniteSet(CharsIn(s)) /\ Cardinality(CharsIn(s)) = Len(s) /\ Len(s) \in Nat
  <1>1. Len(s) \in Nat
    BY DEF Chars
  <1>2. 1..Len(s) = {i \in 1..Len(s) : s[i] # Junk} /\ CharsIn(s) = CharsIn(s) \ {Junk}
    BY DEF CharsIn
  <1>3. IsFiniteSet(CharsIn(s)) /\ Cardinality(CharsIn(s)) = Cardinality(1..Len(s))
    BY <1>2, DistinctCard
  <1>4. Cardinality(1..Len(s)) = Len(s)
    BY <1>1, UpTo
  <1> QED BY <1>1, <1>3, <1>4

LEMMA PartitionCard ==
    ASSUME NEW G, NEW D, NEW F, NEW X, NEW n \in Nat, Partition(G, D, F, X, n)
    PROVE  Cardinality(G) + Cardinality(F) + Cardinality(D) + Cardinality(X) = n
  <1>1. IsFiniteSet(1..n) /\ Cardinality(1..n) = n
    BY UpTo
  <1>2. /\ G \in SUBSET (1..n) /\ D \in SUBSET (1..n) /\ F \in SUBSET (1..n)
        /\ X \in SUBSET (1..n)
    BY DEF Partition
  <1>3. IsFiniteSet(G) /\ IsFiniteSet(D) /\ IsFiniteSet(F) /\ IsFiniteSet(X)
    BY <1>1, <1>2, FS_Subset
  <1>4. /\ Cardinality(G) \in Nat /\ Cardinality(D) \in Nat /\ Cardinality(F) \in Nat
        /\ Cardinality(X) \in Nat
    BY <1>3, FS_CardinalityType
  <1>5. \A A, B : IsFiniteSet(A) /\ IsFiniteSet(B) /\ A \cap B = {} =>
          /\ IsFiniteSet(A \cup B)
          /\ Cardinality(A \cup B) = Cardinality(A) + Cardinality(B) - 0
    BY FS_Union, FS_EmptySet
  <1>6. IsFiniteSet(G \cup D) /\ Cardinality(G \cup D) = Cardinality(G) + Cardinality(D) - 0
    BY <1>3, <1>5 DEF Partition
  <1>7. (G \cup D) \cap F = {} /\ (G \cup D \cup F) \cap X = {} /\ G \cup D \cup F \cup X = 1..n
    BY DEF Partition
  <1>8. /\ IsFiniteSet(G \cup D \cup F)
        /\ Cardinality(G \cup D \cup F) = Cardinality(G \cup D) + Cardinality(F) - 0
    BY <1>3, <1>5, <1>6, <1>7
  <1>9. Cardinality(G \cup D \cup F \cup X) = Cardinality(G \cup D \cup F) + Cardinality(X) - 0
    BY <1>3, <1>5, <1>7, <1>8
  <1>10. Cardinality(G \cup D \cup F) + Cardinality(X) - 0 = n
    BY <1>1, <1>7, <1>9
  <1>11. \A g, d, f, x, gd, gdf \in Int :
           gd = g + d - 0 /\ gdf = gd + f - 0 /\ gdf + x - 0 = n => g + f + d + x = n
    OBVIOUS
  <1>12. Cardinality(G \cup D) \in Int /\ Cardinality(G \cup D \cup F) \in Int
    BY <1>6, <1>8, FS_CardinalityType
  <1> QED BY <1>4, <1>6, <1>8, <1>10, <1>11, <1>12

\* Every character that came in is in exactly one place, whatever the handler does
\* while uart_read() goes through buffer and FIFO.
THEOREM ReceivedConserved == Spec => []RxConserved
  <1>1. ASSUME Basic, Placed PROVE RxConserved
    <2> DEFINE G == CharsIn(got) \ {Junk}
               D == CharsIn(rx_buffer.data)
               F == CharsIn(rxFifo)
               K == {i \in 1..Len(got) : got[i] # Junk}
    <2>1. /\ got \in Chars /\ rx_buffer.data \in Chars /\ rxFifo \in Chars /\ arrived \in Nat
          /\ Distinct(got) /\ Distinct(rx_buffer.data) /\ Distinct(rxFifo)
          /\ Partition(G, D, F, dropped, arrived)
      BY <1>1, RxTypes DEF Placed
    <2>2. Junk \notin D /\ Junk \notin F
      <3>1. Junk \notin 1..arrived
        BY <2>1 DEF Junk
      <3> QED BY <2>1, <3>1 DEF Partition
    <2>3. Cardinality(G) = Cardinality(K) /\ G = {got[i] : i \in K}
      <3>1. \A T, L : T = CharsIn(got) \ {Junk} /\ L = {i \in 1..Len(got) : got[i] # Junk} =>
              Cardinality(T) = Cardinality(L) /\ T = {got[i] : i \in L}
        BY <2>1, DistinctCard, ZenonT(60)
      <3> QED BY <3>1, Zenon
    <2>4. Cardinality(D) = Len(rx_buffer.data) /\ Cardinality(F) = Len(rxFifo)
      BY <2>1, <2>2, DistinctLen
    <2>5. Cardinality(G) + Cardinality(F) + Cardinality(D) + Cardinality(dropped) = arrived
      BY <2>1, PartitionCard
    <2>6. Cardinality(K) + Len(rxFifo) + Len(rx_buffer.data) + Cardinality(dropped) = arrived
      BY <2>3, <2>4, <2>5
    <2>7. {got[i] : i \in K} \cup F \cup D \cup dropped = 1..arrived
      BY <2>1, <2>3 DEF Partition
    <2> QED BY <2>6, <2>7 DEF RxConserved
  <1> QED BY <1>1, BasicInit, BasicNext, PlacedInit, PlacedNext, PTL DEF Spec
=============================================================================
