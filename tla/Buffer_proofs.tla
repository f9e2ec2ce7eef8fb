---------------------------- MODULE Buffer_proofs ----------------------------
(***************************************************************************)
(* For every size of the prepend area, the vector and extrabuf: whatever a *)
(* Buffer is asked to append, to read in or to retrieve, it goes on        *)
(* holding its part of the stream within its vector.                       *)
(***************************************************************************)
EXTENDS Buffer, TLAPS

LEMMA WrittenHolds ==
  ASSUME NEW b, NEW t, NEW p, NEW n \in Nat, Holds(b, t, p), n <= WritableBytes(b)
  PROVE  Holds(Written(b, p, n), t, p + n)
<1> SUFFICES ASSUME NEW c, c = Written(b, p, n) PROVE Holds(c, t, p + n)
  OBVIOUS
<1>1. /\ c.size = b.size /\ c.reader = b.reader /\ c.writer = b.writer + n
      /\ c.data = [i \in 0..(b.size - 1) |->
                     IF b.writer <= i /\ i < b.writer + n THEN p + 1 + i - b.writer
                     ELSE b.data[i]]
      /\ c = [data |-> c.data, size |-> c.size, reader |-> c.reader, writer |-> c.writer]
  BY DEF Written
<1>2. /\ b.size \in Nat /\ b.reader \in Nat /\ b.writer \in Nat /\ t \in Nat /\ p \in Nat
      /\ b.reader <= b.writer /\ b.writer + n <= b.size /\ b.writer - b.reader = p - t
  BY DEF Holds, Shape, WritableBytes
<1>3. c.data \in [0..(b.size - 1) -> Nat]
  BY <1>1, <1>2 DEF Holds, Shape
<1>4. ASSUME NEW i \in 0..((b.writer + n) - b.reader - 1)
      PROVE  c.data[b.reader + i] = t + 1 + i
  <2>1. PICK k \in Nat : k = b.reader + i
    BY <1>2
  <2>2. k \in 0..(b.size - 1) /\ k < b.writer + n /\ i \in Nat
    BY <1>2, <2>1
  <2>3. CASE k < b.writer
    <3>1. c.data[k] = b.data[k]
      BY <1>1, <1>2, <2>2, <2>3
    <3>2. i \in 0..(b.writer - b.reader - 1)
      BY <1>2, <2>1, <2>2, <2>3
    <3>3. b.data[b.reader + i] = t + 1 + i
      BY <3>2 DEF Holds
    <3> QED
      BY <2>1, <3>1, <3>3
  <2>4. CASE b.writer <= k
    <3>1. c.data[k] = p + 1 + k - b.writer
      BY <1>1, <2>2, <2>4
    <3>2. p + 1 + k - b.writer = t + 1 + i
      BY <1>2, <2>1, <2>2
    <3> QED
      BY <2>1, <3>1, <3>2
  <2> QED
    BY <1>2, <2>2, <2>3, <2>4
<1>5. Shape(c)
  BY <1>1, <1>2, <1>3 DEF Holds, Shape
<1>6. (b.writer + n) - b.reader = (p + n) - t /\ p + n \in Nat
  BY <1>2
<1> QED
  BY <1>1, <1>2, <1>4, <1>5, <1>6 DEF Holds

LEMMA GrownHolds ==
  ASSUME NEW b, NEW t, NEW p, NEW n \in Nat, Holds(b, t, p), WritableBytes(b) < n
  PROVE  Holds(Grown(b, n), t, p) /\ WritableBytes(Grown(b, n)) = n
<1> SUFFICES ASSUME NEW c, c = Grown(b, n)
             PROVE  Holds(c, t, p) /\ WritableBytes(c) = n
  OBVIOUS
<1>1. /\ c.size = b.writer + n /\ c.reader = b.reader /\ c.writer = b.writer
      /\ c.data = [i \in 0..(b.writer + n - 1) |-> IF i < b.size THEN b.data[i] ELSE 0]
      /\ c = [data |-> c.data, size |-> c.size, reader |-> c.reader, writer |-> c.writer]
  BY DEF Grown
<1>2. /\ b.size \in Nat /\ b.reader \in Nat /\ b.writer \in Nat
      /\ b.data \in [0..(b.size - 1) -> Nat]
      /\ b.reader <= b.writer /\ b.writer <= b.size
  BY DEF Holds, Shape
<1>3. c.data \in [0..((b.writer + n) - 1) -> Nat]
  <2>1. ASSUME NEW i \in 0..(b.writer + n - 1) PROVE c.data[i] \in Nat
    <3>1. i < b.size => i \in 0..(b.size - 1)
      BY <1>2
    <3>2. CASE i < b.size
      BY <1>1, <1>2, <3>1, <3>2
    <3>3. CASE ~(i < b.size)
      BY <1>1, <3>3
    <3> QED
      BY <3>2, <3>3
  <2>2. b.writer + n - 1 = (b.writer + n) - 1
    BY <1>2
  <2>3. ASSUME NEW D, c.data = [i \in D |-> IF i < b.size THEN b.data[i] ELSE 0],
               \A i \in D : c.data[i] \in Nat
        PROVE  c.data \in [D -> Nat]
    BY <2>3
  <2> QED
    BY <1>1, <2>1, <2>2, <2>3
<1>4. ASSUME NEW i \in 0..(b.writer - b.reader - 1)
      PROVE  c.data[b.reader + i] = t + 1 + i
  <2>1. b.reader + i \in 0..(b.writer + n - 1) /\ b.reader + i < b.size
    BY <1>2
  <2>2. c.data[b.reader + i] = b.data[b.reader + i]
    BY <1>1, <2>1
  <2> QED
    BY <2>2 DEF Holds
<1>5. Shape(c)
  BY <1>1, <1>2, <1>3 DEF Holds, Shape
<1>6. WritableBytes(c) = n
  BY <1>1, <1>2 DEF WritableBytes
<1> QED
  BY <1>1, <1>4, <1>5, <1>6 DEF Holds

\* The readable bytes are moved to the front only when this makes room enough.
LEMMA MovedUpHolds ==
  ASSUME NEW b, NEW t, NEW p, NEW n \in Nat, Holds(b, t, p),
         WritableBytes(b) + PrependableBytes(b) >= n + CheapPrepend
  PROVE  Holds(MovedUp(b), t, p) /\ WritableBytes(MovedUp(b)) >= n
<1> SUFFICES ASSUME NEW c, c = MovedUp(b)
             PROVE  Holds(c, t, p) /\ WritableBytes(c) >= n
  OBVIOUS
<1> DEFINE end == CheapPrepend + (b.writer - b.reader)
<1>1. /\ c.size = b.size /\ c.reader = CheapPrepend /\ c.writer = end
      /\ c.data = [i \in 0..(b.size - 1) |-> IF CheapPrepend <= i /\ i < end
                                            THEN b.data[i + b.reader - CheapPrepend]
                                            ELSE b.data[i]]
      /\ c = [data |-> c.data, size |-> c.size, reader |-> c.reader, writer |-> c.writer]
  BY DEF MovedUp, ReadableBytes
<1>2. /\ b.size \in Nat /\ b.reader \in Nat /\ b.writer \in Nat /\ CheapPrepend \in Nat
      /\ b.data \in [0..(b.size - 1) -> Nat]
      /\ CheapPrepend <= b.reader /\ b.reader <= b.writer /\ b.writer <= b.size
  BY BufferAssumption DEF Holds, Shape, BufferAssumption
<1>3. end \in Nat /\ CheapPrepend <= end /\ end <= b.size /\ b.size - end >= n
      /\ end - CheapPrepend = b.writer - b.reader
  BY <1>2 DEF WritableBytes, PrependableBytes
<1> HIDE DEF end
<1>4. c.data \in [0..(b.size - 1) -> Nat]
  <2> SUFFICES ASSUME NEW i \in 0..(b.size - 1)
               PROVE  (IF CheapPrepend <= i /\ i < end
                       THEN b.data[i + b.reader - CheapPrepend] ELSE b.data[i]) \in Nat
    BY <1>1
  <2>1. ASSUME CheapPrepend <= i, i < end
        PROVE  i + b.reader - CheapPrepend \in 0..(b.size - 1)
    <3>1. i \in Nat
      OBVIOUS
    <3>2. i - CheapPrepend < b.writer - b.reader
      BY <1>2, <1>3, <2>1, <3>1
    <3>3. PICK k \in Nat : i = CheapPrepend + k
      BY <1>2, <2>1, <3>1
    <3>4. k < b.writer - b.reader /\ i + b.reader - CheapPrepend = b.reader + k
      BY <1>2, <3>2, <3>3
    <3>5. b.reader + k \in Nat /\ b.reader + k < b.size
      BY <1>2, <3>3, <3>4
    <3> QED
      BY <1>2, <3>4, <3>5
  <2> QED
    BY <1>2, <2>1 DEF Holds, Shape
<1>5. ASSUME NEW i \in 0..(b.writer - b.reader - 1)
      PROVE  c.data[CheapPrepend + i] = t + 1 + i
  <2>1. PICK k \in Nat : k = CheapPrepend + i
    BY <1>2
  <2>2. i \in Nat /\ i < end - CheapPrepend
    BY <1>2, <1>3
  <2>3. CheapPrepend <= k /\ k < end /\ k + b.reader - CheapPrepend = b.reader + i
    <3>1. CheapPrepend <= k /\ k + b.reader - CheapPrepend = b.reader + i
      BY <1>2, <2>1, <2>2
    <3>2. k < end
      BY <1>2, <1>3, <2>1, <2>2
    <3> QED
      BY <3>1, <3>2
  <2>5. k \in 0..(b.size - 1)
    BY <1>2, <1>3, <2>1, <2>3
  <2>4. c.data[k] = b.data[b.reader + i]
    BY <1>1, <2>3, <2>5
  <2> QED
    BY <2>1, <2>4 DEF Holds
<1>6. Shape(c)
  BY <1>1, <1>2, <1>3, <1>4 DEF Shape
<1>7. WritableBytes(c) >= n
  BY <1>1, <1>3 DEF WritableBytes
<1>8. c.writer - c.reader = b.writer - b.reader
  BY <1>1, <1>3
<1> QED
  BY <1>1, <1>5, <1>6, <1>7, <1>8 DEF Holds

LEMMA EnsureHolds ==
  ASSUME NEW b, NEW t, NEW p, NEW n \in Nat, Holds(b, t, p)
  PROVE  /\ Holds(EnsureWriteable(b, n), t, p)
         /\ n <= WritableBytes(EnsureWriteable(b, n))
<1>1. WritableBytes(b) \in Nat /\ PrependableBytes(b) \in Nat /\ CheapPrepend \in Nat
  BY BufferAssumption DEF Holds, Shape, WritableBytes, PrependableBytes, BufferAssumption
<1>2. CASE WritableBytes(b) >= n
  BY <1>1, <1>2 DEF EnsureWriteable
<1>3. CASE WritableBytes(b) < n
  <2>1. EnsureWriteable(b, n) = MakeSpace(b, n)
    BY <1>3 DEF EnsureWriteable
  <2>2. CASE WritableBytes(b) + PrependableBytes(b) < n + CheapPrepend
    BY <1>3, <2>1, <2>2, GrownHolds DEF MakeSpace
  <2>3. CASE WritableBytes(b) + PrependableBytes(b) >= n + CheapPrepend
    <3>1. EnsureWriteable(b, n) = MovedUp(b)
      BY <1>1, <2>1, <2>3 DEF MakeSpace
    <3> QED
      BY <2>3, <3>1, MovedUpHolds
  <2> QED
    BY <1>1, <2>2, <2>3
<1> QED
  BY <1>1, <1>2, <1>3

\* append, and makeSpace under it, keep what is readable and add n bytes to it.
THEOREM AppendedHolds ==
  ASSUME NEW b, NEW t, NEW p, NEW n \in Nat, Holds(b, t, p)
  PROVE  Holds(Appended(b, p, n), t, p + n)
  BY EnsureHolds, WrittenHolds DEF Appended

\* readFd adds what readv returned, however much of it went over extrabuf.
THEOREM ReadIntoHolds ==
  ASSUME NEW b, NEW t, NEW p, NEW n \in Nat, Holds(b, t, p)
  PROVE  Holds(ReadInto(b, p, n), t, p + n)
<1> DEFINE room == WritableBytes(b)
<1>1. room \in Nat /\ p \in Nat
  BY DEF Holds, Shape, WritableBytes
<1>2. CASE n <= room
  BY <1>2, WrittenHolds DEF ReadInto
<1>3. CASE n > room
  <2>1. Holds(Written(b, p, room), t, p + room)
    BY <1>1, WrittenHolds
  <2>2. n - room \in Nat /\ (p + room) + (n - room) = p + n
    BY <1>1, <1>3
  <2>3. Holds(Appended(Written(b, p, room), p + room, n - room), t, p + n)
    BY <2>1, <2>2, AppendedHolds
  <2> QED
    BY <1>1, <1>3, <2>3 DEF ReadInto
<1> QED
  BY <1>1, <1>2, <1>3

\* retrive takes the first n bytes away and leaves the rest.
THEOREM RetrivedHolds ==
  ASSUME NEW b, NEW t, NEW p, NEW n \in Nat, Holds(b, t, p), n <= ReadableBytes(b)
  PROVE  Holds(Retrived(b, n), t + n, p)
<1> SUFFICES ASSUME NEW c, c = Retrived(b, n) PROVE Holds(c, t + n, p)
  OBVIOUS
<1>1. /\ b.size \in Nat /\ b.reader \in Nat /\ b.writer \in Nat /\ t \in Nat /\ p \in Nat
      /\ CheapPrepend \in Nat /\ CheapPrepend <= b.reader
      /\ b.reader <= b.writer /\ b.writer <= b.size /\ b.writer - b.reader = p - t
  BY BufferAssumption DEF Holds, Shape, BufferAssumption
<1>2. CASE n < ReadableBytes(b)
  <2>1. /\ c.data = b.data /\ c.size = b.size /\ c.writer = b.writer
        /\ c.reader = b.reader + n
        /\ c = [data |-> c.data, size |-> c.size, reader |-> c.reader, writer |-> c.writer]
    BY <1>2 DEF Retrived
  <2>2. n < b.writer - b.reader
    BY <1>2 DEF ReadableBytes
  <2>3. ASSUME NEW i \in 0..(c.writer - c.reader - 1)
        PROVE  c.data[c.reader + i] = (t + n) + 1 + i
    <3>1. /\ n + i \in 0..(b.writer - b.reader - 1)
          /\ c.reader + i = b.reader + (n + i)
          /\ (t + n) + 1 + i = t + 1 + (n + i)
      BY <1>1, <2>1, <2>2
    <3>2. b.data[b.reader + (n + i)] = t + 1 + (n + i)
      BY <3>1 DEF Holds
    <3> QED
      BY <2>1, <3>1, <3>2
  <2>4. Shape(c)
    BY <1>1, <2>1, <2>2 DEF Holds, Shape
  <2>5. c.writer - c.reader = p - (t + n)
    BY <1>1, <2>1
  <2> QED
    BY <1>1, <2>3, <2>4, <2>5 DEF Holds
<1>3. CASE n = ReadableBytes(b)
  <2>1. c = Emptied(b)
    BY <1>1, <1>3 DEF Retrived, ReadableBytes
  <2>2. /\ c.data = b.data /\ c.size = b.size
        /\ c.writer = CheapPrepend /\ c.reader = CheapPrepend
        /\ c = [data |-> c.data, size |-> c.size, reader |-> c.reader, writer |-> c.writer]
    BY <2>1 DEF Emptied
  <2>3. Shape(c)
    BY <1>1, <2>2 DEF Holds, Shape
  <2>4. t + n = p
    BY <1>1, <1>3 DEF ReadableBytes
  <2> QED
    BY <1>1, <2>2, <2>3, <2>4 DEF Holds
<1> QED
  BY <1>1, <1>2, <1>3 DEF ReadableBytes

LEMMA EmptyHolds == Holds(Empty, 0, 0)
<1> SUFFICES ASSUME NEW c, c = Empty PROVE Holds(c, 0, 0)
  OBVIOUS
<1>1. CheapPrepend \in Nat /\ InitialSize \in Nat
  BY BufferAssumption DEF BufferAssumption
<1>2. /\ c.size = CheapPrepend + InitialSize
      /\ c.reader = CheapPrepend /\ c.writer = CheapPrepend
      /\ c.data = [i \in 0..(CheapPrepend + InitialSize - 1) |-> 0]
      /\ c = [data |-> c.data, size |-> c.size, reader |-> c.reader, writer |-> c.writer]
  BY DEF Empty
<1>3. c.data \in [0..(c.size - 1) -> Nat]
  BY <1>1, <1>2
<1> QED
  BY <1>1, <1>2, <1>3 DEF Holds, Shape

\* What is peeked of a buffer are the next bytes of the stream.
LEMMA PeekHolds ==
  ASSUME NEW b, NEW t, NEW p, NEW n \in Nat, Holds(b, t, p), n <= ReadableBytes(b)
  PROVE  Peek(b, n) = [i \in 1..n |-> t + i]
<1>1. /\ b.reader \in Nat /\ b.writer \in Nat /\ t \in Nat
      /\ n <= b.writer - b.reader
  BY DEF Holds, Shape, ReadableBytes
<1>2. ASSUME NEW i \in 1..n PROVE b.data[b.reader + i - 1] = t + i
  <2>1. PICK k \in Nat : i = k + 1
    <3>1. i - 1 \in Nat /\ i = (i - 1) + 1
      OBVIOUS
    <3> QED
      BY <3>1
  <2>2. k \in 0..(b.writer - b.reader - 1)
    BY <1>1, <2>1
  <2>3. b.data[b.reader + k] = t + 1 + k
    BY <2>2 DEF Holds
  <2>4. b.reader + i - 1 = b.reader + k /\ t + i = t + 1 + k
    BY <1>1, <2>1
  <2> QED
    BY <2>3, <2>4
<1> QED
  BY <1>2 DEF Peek
=============================================================================
