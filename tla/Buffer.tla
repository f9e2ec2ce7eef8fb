-------------------------------- MODULE Buffer --------------------------------
(***************************************************************************)
(* The operations of class Buffer, the input and the output buffer of a    *)
(* TcpConnection: a vector of bytes with a reader and a writer index.      *)
(*                                                                         *)
(* The bytes put in are numbered 1, 2, 3, ... in the order they come, and  *)
(* that number is all that is kept of a byte; 0 is a byte of the vector    *)
(* nothing was ever put in.                                                *)
(***************************************************************************)
EXTENDS Naturals

CONSTANTS
  CheapPrepend,   \* kCheapPrepend
  InitialSize,    \* kInitialSize
  ExtraBuf        \* sizeof extrabuf of readFd

ASSUME BufferAssumption ==
  CheapPrepend \in Nat /\ InitialSize \in Nat /\ ExtraBuf \in Nat

Empty ==
  [data |-> [i \in 0..(CheapPrepend + InitialSize - 1) |-> 0],
   size |-> CheapPrepend + InitialSize,
   reader |-> CheapPrepend, writer |-> CheapPrepend]

ReadableBytes(b) == b.writer - b.reader
WritableBytes(b) == b.size - b.writer
PrependableBytes(b) == b.reader

\* resize(writerIndex_ + n).
Grown(b, n) ==
  [data |-> [i \in 0..(b.writer + n - 1) |-> IF i < b.size THEN b.data[i] ELSE 0],
   size |-> b.writer + n, reader |-> b.reader, writer |-> b.writer]

\* The readable bytes are moved to the front.
MovedUp(b) ==
  LET end == CheapPrepend + ReadableBytes(b) IN
  [data |-> [i \in 0..(b.size - 1) |-> IF CheapPrepend <= i /\ i < end
                                       THEN b.data[i + b.reader - CheapPrepend]
                                       ELSE b.data[i]],
   size |-> b.size, reader |-> CheapPrepend, writer |-> end]

MakeSpace(b, n) ==
  IF WritableBytes(b) + PrependableBytes(b) < n + CheapPrepend THEN Grown(b, n) ELSE MovedUp(b)

EnsureWriteable(b, n) == IF WritableBytes(b) < n THEN MakeSpace(b, n) ELSE b

\* mutant: writerIndex_ stays where it was
NotAdvanced(b, first, n) == b

\* n bytes, numbered from first + 1 on, copied to beginWrite(); what lies past
\* the end of the vector is not there.
Written(b, first, n) ==
  [data |-> [i \in 0..(b.size - 1) |-> IF b.writer <= i /\ i < b.writer + n
                                       THEN first + 1 + i - b.writer
                                       ELSE b.data[i]],
   size |-> b.size, reader |-> b.reader, writer |-> b.writer + n]

Appended(b, first, n) == Written(EnsureWriteable(b, n), first, n)

\* mutant: what readv put into extrabuf is not appended
SpillDropped(b, first, n) ==
  Written(b, first, IF n <= WritableBytes(b) THEN n ELSE WritableBytes(b))

\* readFd: readv fills the room in the vector first and extrabuf after it.
ReadInto(b, first, n) ==
  LET room == WritableBytes(b) IN
  IF n <= room THEN Written(b, first, n)
  ELSE Appended(Written(b, first, room), first + room, n - room)

\* With room for as much as extrabuf holds, extrabuf is not offered to readv.
MostRead(b) ==
  WritableBytes(b) + (IF WritableBytes(b) < ExtraBuf THEN ExtraBuf ELSE 0)

Emptied(b) ==
  [data |-> b.data, size |-> b.size, reader |-> CheapPrepend, writer |-> CheapPrepend]

RetrivedAll(b, n) == Emptied(b)   \* mutant: whatever was asked for, all is gone

Retrived(b, n) ==
  IF n < ReadableBytes(b)
  THEN [data |-> b.data, size |-> b.size, reader |-> b.reader + n, writer |-> b.writer]
  ELSE Emptied(b)

\* peek(): the first n readable bytes.
Peek(b, n) == [i \in 1..n |-> b.data[b.reader + i - 1]]

-----------------------------------------------------------------------------
(* What the operations keep.                                               *)

\* The indices are in order within the vector: neither copy of append nor
\* the readv of readFd wrote past its end, and the prepend area is free.
Shape(b) ==
  /\ b = [data |-> b.data, size |-> b.size, reader |-> b.reader, writer |-> b.writer]
  /\ b.size \in Nat /\ b.reader \in Nat /\ b.writer \in Nat
  /\ b.data \in [0..(b.size - 1) -> Nat]
  /\ CheapPrepend <= b.reader /\ b.reader <= b.writer /\ b.writer <= b.size

\* Of p bytes put in and t taken out, b holds the bytes t + 1 to p in order.
Holds(b, t, p) ==
  /\ t \in Nat /\ p \in Nat
  /\ Shape(b)
  /\ b.writer - b.reader = p - t
  /\ \A i \in 0..(b.writer - b.reader - 1) : b.data[b.reader + i] = t + 1 + i
=============================================================================
