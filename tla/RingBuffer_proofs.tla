-------------------------- MODULE RingBuffer_proofs --------------------------
(***************************************************************************)
(* For every size of the buffer and every kind of entry: what the drain     *)
(* copies is never torn, and the ring implements the bounded queue.         *)
(***************************************************************************)
EXTENDS RingBuffer, SequenceTheorems, TLAPS

(* What the thread has copied so far is the oldest entry.                   *)
CopyInv ==
  /\ reader \in {"copy", "copying", "copied"} => head # tail
  /\ reader \in {"copying", "copied"} => first = buffer[tail]
  /\ reader = "copied" => second = buffer[tail]

IInv == RingTypeOK /\ CopyInv

LEMMA InitIInv == RingInit => IInv
  BY BufferAssumption DEF RingInit, IInv, RingTypeOK, CopyInv, BufferSlots

(* Indices stay inside the buffer.                                          *)
LEMMA IndexBounds ==
  ASSUME NEW i \in BufferSlots
  PROVE  (i + 1) % N \in BufferSlots
  BY BufferAssumption DEF BufferSlots

LEMMA NextIInv == IInv /\ [RingNext]_ringVars => IInv'
  <1> SUFFICES ASSUME IInv, [RingNext]_ringVars PROVE IInv'
    OBVIOUS
  <1> USE DEF IInv
  <1>1. ASSUME NEW d \in Data, Insert(d) PROVE IInv'
    <2>1. CASE (head + 1) % N = tail
      BY <1>1, <2>1 DEF Insert, RingTypeOK, CopyInv
    <2>2. CASE (head + 1) % N # tail
      <3>1. /\ buffer' = [buffer EXCEPT ![head] = d]
            /\ head' = (head + 1) % N
            /\ UNCHANGED <<tail, reader, first, second, handled>>
        BY <1>1, <2>2 DEF Insert
      <3>2. RingTypeOK'
        BY <3>1, IndexBounds DEF RingTypeOK
      <3>3. head # tail => buffer'[tail] = buffer[tail]
        BY <3>1 DEF RingTypeOK
      <3>4. CopyInv'
        BY <2>2, <3>1, <3>3 DEF CopyInv
      <3> QED
        BY <3>2, <3>4
    <2> QED
      BY <2>1, <2>2
  <1>2. CASE GetTests
    BY <1>2 DEF GetTests, RingTypeOK, CopyInv
  <1>3. CASE GetCopiesFirst
    BY <1>3 DEF GetCopiesFirst, RingTypeOK, CopyInv
  <1>4. CASE GetCopiesSecond
    BY <1>4 DEF GetCopiesSecond, RingTypeOK, CopyInv
  <1>5. CASE GetAdvances
    <2>1. RingTypeOK'
      BY <1>5, IndexBounds DEF GetAdvances, RingTypeOK
    <2>2. CopyInv'
      BY <1>5 DEF GetAdvances, CopyInv
    <2> QED
      BY <2>1, <2>2
  <1>6. CASE UNCHANGED ringVars
    BY <1>6 DEF ringVars, RingTypeOK, CopyInv
  <1> QED
    BY <1>1, <1>2, <1>3, <1>4, <1>5, <1>6 DEF RingNext, Get

(* No entry is handled half old and half new, whatever the sizes of the     *)
(* buffer and whenever the interrupts come.                                 *)
THEOREM CopiesAreWhole == RingSpec => []NeverTorn
  <1>1. RingInit => IInv
    BY InitIInv
  <1>2. IInv /\ [RingNext]_ringVars => IInv'
    BY NextIInv
  <1>3. IInv => NeverTorn
    BY DEF IInv, CopyInv, NeverTorn
  <1> QED
    BY <1>1, <1>2, <1>3, PTL DEF RingSpec

-----------------------------------------------------------------------------
(* The slots from tail on, going round.                                     *)
LEMMA Wrap ==
  ASSUME NEW a \in BufferSlots, NEW j \in 0 .. N
  PROVE  /\ (a + j) % N = IF a + j < N THEN a + j ELSE a + j - N
         /\ (a + j) % N \in BufferSlots
  <1>1. CASE a + j < N
    BY <1>1, BufferAssumption DEF BufferSlots
  <1>2. CASE ~(a + j < N)
    <2> DEFINE k == a + j - N
    <2>1. k \in BufferSlots
      BY <1>2, BufferAssumption DEF BufferSlots
    <2>2. (k + N) % N = k
      BY <2>1, BufferAssumption DEF BufferSlots
    <2>3. a + j = k + N
      BY BufferAssumption DEF BufferSlots
    <2> QED
      BY <1>2, <2>1, <2>2, <2>3
  <1> QED
    BY <1>1, <1>2

(* The size in terms of the two indices.                                    *)
LEMMA SizeIs ==
  ASSUME NEW h \in BufferSlots, NEW t \in BufferSlots
  PROVE  /\ (h + N - t) % N = IF t <= h THEN h - t ELSE h + N - t
         /\ (h + N - t) % N \in 0 .. N - 1
  <1>1. N - t \in 0 .. N
    BY BufferAssumption DEF BufferSlots
  <1>2. /\ (h + (N - t)) % N = IF h + (N - t) < N THEN h + (N - t) ELSE h + (N - t) - N
        /\ (h + (N - t)) % N \in BufferSlots
    BY <1>1, Wrap
  <1>3. h + N - t = h + (N - t)
    BY <1>1, BufferAssumption DEF BufferSlots
  <1> QED
    BY <1>1, <1>2, <1>3, BufferAssumption DEF BufferSlots

(* The k entries from t on are a sequence of that length.                   *)
Entries(b, t, k) == [i \in 1 .. k |-> b[(t + i - 1) % N]]

LEMMA ContentsIs ==
  ASSUME NEW b \in [BufferSlots -> Data], NEW t \in BufferSlots, NEW k \in 0 .. N - 1
  PROVE  /\ Entries(b, t, k) \in Seq(Data)
         /\ Len(Entries(b, t, k)) = k
         /\ \A i \in 1 .. k : Entries(b, t, k)[i] = b[(t + i - 1) % N]
  <1>1. ASSUME NEW i \in 1 .. k
        PROVE  b[(t + i - 1) % N] \in Data
    <2>1. i - 1 \in 0 .. N
      BY BufferAssumption
    <2>2. (t + (i - 1)) % N \in BufferSlots
      BY <2>1, Wrap
    <2>3. t + (i - 1) = t + i - 1
      BY <2>1 DEF BufferSlots
    <2> QED
      BY <2>2, <2>3
  <1>2. k \in Nat
    BY BufferAssumption
  <1> QED
    BY <1>1, <1>2 DEF Entries

(* The empty ring.                                                          *)
LEMMA InitFifo == RingInit => Fifo!Init
  <1> SUFFICES ASSUME RingInit PROVE Fifo!Init
    OBVIOUS
  <1>1. RingTypeOK
    BY InitIInv DEF IInv
  <1>2. Size = 0
    BY <1>1, SizeIs DEF RingInit, RingTypeOK, Size
  <1>3. Contents = << >>
    BY <1>2 DEF Contents
  <1> QED
    BY <1>3 DEF RingInit, Fifo!Init

(* insert() is Put: dropped when N - 1 entries wait, appended otherwise.    *)
LEMMA InsertPuts ==
  ASSUME IInv, IInv', NEW d \in Data, Insert(d)
  PROVE  Fifo!Put(d)
  <1> USE DEF IInv
  <1>1. head \in BufferSlots /\ tail \in BufferSlots /\ 1 \in 0 .. N
    BY BufferAssumption DEF RingTypeOK
  <1>2. (head + 1) % N = IF head + 1 < N THEN head + 1 ELSE head + 1 - N
    BY <1>1, Wrap
  <1>3. /\ Size = IF tail <= head THEN head - tail ELSE head + N - tail
        /\ Size \in 0 .. N - 1
    BY <1>1, SizeIs DEF Size
  <1>4. CASE (head + 1) % N = tail
    <2>1. UNCHANGED <<buffer, head, tail, handled>>
      BY <1>4 DEF Insert
    <2>2. Size = N - 1
      BY <1>1, <1>2, <1>3, <1>4, BufferAssumption DEF BufferSlots
    <2>3. Contents' = Contents
      BY <2>1 DEF Contents, Size
    <2>4. ~(Len(Contents) < N - 1)
      BY <1>3, <2>2 DEF Contents
    <2> QED
      BY <2>1, <2>3, <2>4 DEF Fifo!Put
  <1>5. CASE (head + 1) % N # tail
    <2>1. /\ buffer' = [buffer EXCEPT ![head] = d]
          /\ head' = (head + 1) % N
          /\ UNCHANGED <<tail, handled>>
      BY <1>5 DEF Insert
    <2>2. /\ Size' = IF tail' <= head' THEN head' - tail' ELSE head' + N - tail'
          /\ Size' \in 0 .. N - 1
      BY SizeIs DEF Size, RingTypeOK
    <2>3. Size' = Size + 1 /\ Size < N - 1
      BY <1>1, <1>2, <1>3, <1>5, <2>1, <2>2, BufferAssumption DEF BufferSlots
    <2>4. /\ Contents \in Seq(Data) /\ Len(Contents) = Size
          /\ \A i \in 1 .. Size : Contents[i] = buffer[(tail + i - 1) % N]
      <3>1. Contents = Entries(buffer, tail, Size)
        BY DEF Contents, Entries
      <3> QED
        BY <1>1, <1>3, <3>1, ContentsIs DEF RingTypeOK
    <2>5. /\ Contents' \in Seq(Data) /\ Len(Contents') = Size + 1
          /\ \A i \in 1 .. Size + 1 : Contents'[i] = buffer'[(tail + i - 1) % N]
      <3>1. Contents' = Entries(buffer', tail', Size')
        BY DEF Contents, Entries
      <3>2. buffer' \in [BufferSlots -> Data] /\ tail' = tail /\ tail' \in BufferSlots
        BY <2>1 DEF RingTypeOK
      <3>3. /\ Contents' \in Seq(Data) /\ Len(Contents') = Size'
            /\ \A i \in 1 .. Size' : Contents'[i] = buffer'[(tail' + i - 1) % N]
        BY <2>2, <3>1, <3>2, ContentsIs
      <3> QED
        BY <2>3, <3>2, <3>3
    <2>6. ASSUME NEW i \in 1 .. Size
          PROVE  Contents'[i] = Contents[i]
      <3>1. i - 1 \in 0 .. N /\ tail + (i - 1) = tail + i - 1
        BY <1>1, <1>3, BufferAssumption DEF BufferSlots
      <3>2. /\ (tail + i - 1) % N = IF tail + (i - 1) < N THEN tail + (i - 1) ELSE tail + (i - 1) - N
            /\ (tail + i - 1) % N \in BufferSlots
        BY <1>1, <3>1, Wrap
      <3>3. (tail + i - 1) % N # head
        BY <1>1, <1>3, <3>2, BufferAssumption DEF BufferSlots
      <3>4. buffer'[(tail + i - 1) % N] = buffer[(tail + i - 1) % N]
        BY <1>1, <2>1, <3>2, <3>3 DEF RingTypeOK
      <3> QED
        BY <1>3, <2>4, <2>5, <3>4
    <2>7. Contents'[Size + 1] = d
      <3>1. Size \in 0 .. N /\ tail + (Size + 1) - 1 = tail + Size
        BY <1>1, <1>3, BufferAssumption DEF BufferSlots
      <3>2. (tail + Size) % N = IF tail + Size < N THEN tail + Size ELSE tail + Size - N
        BY <1>1, <3>1, Wrap
      <3>3. (tail + Size) % N = head
        BY <1>1, <1>3, <3>2, BufferAssumption DEF BufferSlots
      <3>4. buffer'[head] = d
        BY <1>1, <2>1 DEF RingTypeOK
      <3> QED
        BY <1>3, <2>5, <3>1, <3>3, <3>4
    <2>8. Contents' = Append(Contents, d)
      <3> DEFINE c == Contents
                 e == Contents'
      <3>1. c \in Seq(Data) /\ e \in Seq(Data) /\ Len(e) = Len(c) + 1
        BY <2>4, <2>5
      <3>2. \A i \in 1 .. Len(c) : e[i] = c[i]
        BY <2>4, <2>6
      <3>3. e[Len(c) + 1] = d
        BY <2>4, <2>7
      <3> HIDE DEF c, e
      <3>4. e = Append(c, d)
        BY <3>1, <3>2, <3>3
      <3> QED
        BY <3>4 DEF c, e
    <2> QED
      BY <2>1, <2>3, <2>4, <2>8 DEF Fifo!Put
  <1> QED
    BY <1>4, <1>5

(* Storing the new tail is Take: the copy is the oldest entry.              *)
LEMMA AdvanceTakes ==
  ASSUME IInv, IInv', GetAdvances
  PROVE  Fifo!Take
  <1> USE DEF IInv
  <1>1. head \in BufferSlots /\ tail \in BufferSlots /\ 1 \in 0 .. N
    BY BufferAssumption DEF RingTypeOK
  <1>2. /\ head # tail /\ first = buffer[tail]
        /\ tail' = (tail + 1) % N /\ handled' = first /\ UNCHANGED <<buffer, head>>
    BY DEF GetAdvances, CopyInv
  <1>3. (tail + 1) % N = IF tail + 1 < N THEN tail + 1 ELSE tail + 1 - N
    BY <1>1, Wrap
  <1>4. /\ Size = IF tail <= head THEN head - tail ELSE head + N - tail
        /\ Size \in 0 .. N - 1
    BY <1>1, SizeIs DEF Size
  <1>5. /\ Size' = IF tail' <= head' THEN head' - tail' ELSE head' + N - tail'
        /\ Size' \in 0 .. N - 1
    BY SizeIs DEF Size, RingTypeOK
  <1>6. Size >= 1 /\ Size' = Size - 1
    BY <1>1, <1>2, <1>3, <1>4, <1>5, BufferAssumption DEF BufferSlots
  <1>7. /\ Contents \in Seq(Data) /\ Len(Contents) = Size
        /\ \A i \in 1 .. Size : Contents[i] = buffer[(tail + i - 1) % N]
    <2>1. Contents = Entries(buffer, tail, Size)
      BY DEF Contents, Entries
    <2> QED
      BY <1>1, <1>4, <2>1, ContentsIs DEF RingTypeOK
  <1>8. /\ Contents' \in Seq(Data) /\ Len(Contents') = Size - 1
        /\ \A i \in 1 .. Size - 1 : Contents'[i] = buffer[(tail' + i - 1) % N]
    <2>1. Contents' = Entries(buffer', tail', Size')
      BY DEF Contents, Entries
    <2> QED
      BY <1>2, <1>5, <1>6, <2>1, ContentsIs DEF RingTypeOK
  <1>9. ASSUME NEW i \in 1 .. Size - 1
        PROVE  Contents'[i] = Contents[i + 1]
    <2>1. tail' \in BufferSlots /\ i - 1 \in 0 .. N /\ i \in 0 .. N
      BY <1>1, <1>2, <1>3, <1>4, BufferAssumption DEF BufferSlots
    <2>2. (tail' + (i - 1)) % N = IF tail' + (i - 1) < N THEN tail' + (i - 1) ELSE tail' + (i - 1) - N
      BY <2>1, Wrap
    <2>3. (tail + i) % N = IF tail + i < N THEN tail + i ELSE tail + i - N
      BY <1>1, <2>1, Wrap
    <2>4. (tail' + (i - 1)) % N = (tail + i) % N
      BY <1>1, <1>2, <1>3, <1>4, <2>1, <2>2, <2>3, BufferAssumption DEF BufferSlots
    <2>5. tail' + (i - 1) = tail' + i - 1 /\ tail + i = tail + (i + 1) - 1
      BY <1>1, <2>1 DEF BufferSlots
    <2>6. i + 1 \in 1 .. Size
      BY <1>4
    <2> QED
      BY <1>7, <1>8, <2>4, <2>5, <2>6
  <1>10. Contents[1] = first
    <2>1. tail + 1 - 1 = tail /\ tail % N = tail
      BY <1>1, BufferAssumption DEF BufferSlots
    <2>2. 1 \in 1 .. Size
      BY <1>4, <1>6
    <2> QED
      BY <1>2, <1>7, <2>1, <2>2
  <1> DEFINE c == Contents
             e == Contents'
  <1>11. c \in Seq(Data) /\ e \in Seq(Data) /\ Len(c) >= 1 /\ Len(e) = Len(c) - 1
    BY <1>6, <1>7, <1>8
  <1>12. \A i \in 1 .. Len(e) : e[i] = c[i + 1]
    BY <1>8, <1>9
  <1>13. Head(c) = first
    BY <1>10, <1>11
  <1> HIDE DEF c, e
  <1>14. c # << >> /\ e = Tail(c)
    BY <1>11, <1>12
  <1> QED
    BY <1>2, <1>13, <1>14 DEF Fifo!Take, c, e

(* The ring implements the bounded queue of N - 1 entries: nothing is lost  *)
(* but what finds it full, nothing repeated, nothing reordered.             *)
THEOREM RingIsFifo == RingSpec => Fifo!Spec
  <1>1. RingInit => Fifo!Init
    BY InitFifo
  <1>2. IInv /\ IInv' /\ [RingNext]_ringVars => [Fifo!Next]_(Fifo!vars)
    <2> SUFFICES ASSUME IInv, IInv', [RingNext]_ringVars
                 PROVE  [Fifo!Next]_(Fifo!vars)
      OBVIOUS
    <2>1. CASE \E d \in Data : Insert(d)
      BY <2>1, InsertPuts DEF Fifo!Next
    <2>2. CASE GetAdvances
      BY <2>2, AdvanceTakes DEF Fifo!Next
    <2>3. CASE GetTests \/ GetCopiesFirst \/ GetCopiesSecond \/ UNCHANGED ringVars
      <3>1. UNCHANGED <<buffer, head, tail, handled>>
        BY <2>3 DEF GetTests, GetCopiesFirst, GetCopiesSecond, ringVars
      <3> QED
        BY <3>1 DEF Fifo!vars, Contents, Size
    <2> QED
      BY <2>1, <2>2, <2>3 DEF RingNext, Get
  <1>3. RingInit => IInv
    BY InitIInv
  <1>4. IInv /\ [RingNext]_ringVars => IInv'
    BY NextIInv
  <1> QED
    BY <1>1, <1>2, <1>3, <1>4, PTL DEF RingSpec, Fifo!Spec
=============================================================================
