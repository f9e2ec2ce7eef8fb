-------------------------- MODULE TcpStream_proofs --------------------------
(***************************************************************************)
(* The input and the output of a TcpConnection are byte streams, for every *)
(* size of the buffers and every cut the socket makes.                     *)
(***************************************************************************)
EXTENDS TcpStream, Buffer_proofs

\* s holds the bytes 1 to Len(s).
Counts(s) == s \in Seq(Nat) /\ \A i \in DOMAIN s : s[i] = i

\* The next k bytes of a stream extend what came out of it.
LEMMA CountsOn ==
  ASSUME NEW s, NEW n \in Nat, Counts(s)
  PROVE  LET r == s \o [i \in 1..n |-> Len(s) + i] IN
         Counts(r) /\ Len(r) = Len(s) + n
<1> DEFINE e == [i \in 1..n |-> Len(s) + i]
<1>1. s \in Seq(Nat) /\ Len(s) \in Nat
  BY DEF Counts
<1>2. e \in Seq(Nat) /\ Len(e) = n
  <2>1. e \in [1..n -> Nat]
    BY <1>1
  <2> HIDE DEF e
  <2>2. DOMAIN e = 1..n
    BY <2>1
  <2> QED
    BY <2>1, <2>2
<1>3. \A i \in 1..n : e[i] = Len(s) + i
  OBVIOUS
<1> HIDE DEF e
<1>4. s \o e \in Seq(Nat) /\ Len(s \o e) = Len(s) + n
  BY <1>1, <1>2
<1>5. ASSUME NEW i \in 1..(Len(s) + n) PROVE (s \o e)[i] = i
  <2>1. CASE i <= Len(s)
    <3>1. (s \o e)[i] = s[i] /\ i \in DOMAIN s
      BY <1>1, <1>2, <2>1
    <3> QED
      BY <3>1 DEF Counts
  <2>2. CASE i > Len(s)
    <3>1. i - Len(s) \in 1..n
      BY <1>1, <2>2
    <3>2. (s \o e)[i] = e[i - Len(s)]
      BY <1>1, <1>2, <2>2
    <3>3. e[i - Len(s)] = Len(s) + (i - Len(s))
      BY <1>3, <3>1
    <3> QED
      BY <1>1, <3>2, <3>3
  <2>3. i <= Len(s) \/ i > Len(s)
    BY <1>1
  <2> QED
    BY <2>1, <2>2, <2>3
<1>6. DOMAIN (s \o e) = 1..(Len(s) + n)
  BY <1>4
<1>7. Counts(s \o e)
  BY <1>4, <1>5, <1>6 DEF Counts
<1> QED
  BY <1>4, <1>7 DEF e

\* What Holds says of the sizes; a buffer with nothing in it holds nothing
\* from anywhere on.
LEMMA HoldsSizes ==
  ASSUME NEW b, NEW t, NEW p, Holds(b, t, p)
  PROVE  /\ ReadableBytes(b) \in Nat /\ ReadableBytes(b) = p - t
         /\ t \in Nat /\ p \in Nat /\ Shape(b)
  BY DEF Holds, Shape, ReadableBytes

LEMMA EmptyAnywhere ==
  ASSUME NEW b, Shape(b), ReadableBytes(b) = 0, NEW q \in Nat
  PROVE  Holds(b, q, q)
  BY DEF Holds, Shape, ReadableBytes

\* The two halves of the invariant.
InputOK ==
  /\ received \in Nat
  /\ Counts(handed)
  /\ NothingHeldBack

OutputOK ==
  /\ given \in Nat /\ writing \in BOOLEAN
  /\ Shape(outputBuffer)
  /\ Counts(wire)
  /\ RestIsBuffered

Rest ==
  /\ closed \in BOOLEAN /\ reset \in BOOLEAN
  /\ received + given <= MaxBytes

LEMMA Halves == IndInv <=> InputOK /\ OutputOK /\ Rest
<1>1. IndInv => InputOK /\ OutputOK /\ Rest
  BY DEF IndInv, TypeOK, WireInOrder, InputOK, OutputOK, Rest, Counts, NothingHeldBack
<1>2. InputOK /\ OutputOK /\ Rest => IndInv
  <2> SUFFICES ASSUME InputOK, OutputOK, Rest PROVE IndInv
    OBVIOUS
  <2>1. Shape(inputBuffer)
    BY DEF InputOK, NothingHeldBack, Holds
  <2> QED
    BY <2>1 DEF IndInv, TypeOK, WireInOrder, InputOK, OutputOK, Rest, Counts
<1> QED
  BY <1>1, <1>2

LEMMA InitOK == Init => IndInv
<1> SUFFICES ASSUME Init PROVE InputOK /\ OutputOK /\ Rest
  BY Halves
<1>1. Counts(<<>>) /\ Len(<<>>) = 0
  BY DEF Counts
<1>2. Holds(Empty, 0, 0) /\ Shape(Empty) /\ ReadableBytes(Empty) = 0
      /\ Empty.reader = CheapPrepend
  BY EmptyHolds, HoldsSizes DEF Empty
<1>3. InputOK
  BY <1>1, <1>2 DEF Init, InputOK, NothingHeldBack, Counts
<1>4. OutputOK
  <2>1. Waiting = 0 /\ writing = FALSE /\ wire = <<>> /\ given = 0
        /\ outputBuffer = Empty
    BY <1>2 DEF Init, Waiting
  <2>2. writing <=> Waiting > 0
    BY <2>1
  <2>3. Len(wire) = 0 /\ Holds(outputBuffer, Len(wire), given) /\ Len(wire) <= given
    BY <1>1, <1>2, <2>1
  <2>4. RestIsBuffered
    BY <2>2, <2>3 DEF RestIsBuffered
  <2> QED
    BY <1>1, <1>2, <2>1, <2>4 DEF OutputOK
<1>5. Rest
  <2>1. received = 0 /\ given = 0 /\ closed = FALSE /\ reset = FALSE
    BY DEF Init
  <2>2. received + given <= MaxBytes
    BY <2>1, StreamAssumption DEF StreamAssumption
  <2> QED
    BY <2>1, <2>2 DEF Rest
<1> QED
  BY <1>3, <1>4, <1>5

\* A read brings n bytes in and hands the same n on.
LEMMA ReadStep ==
  ASSUME IndInv, NEW n \in 1..MaxLen, HandleRead(n)
  PROVE  InputOK' /\ In!Move(n, n)
<1> DEFINE b == ReadInto(inputBuffer, received, n)
<1>1. /\ received \in Nat /\ Counts(handed) /\ Len(handed) = received /\ n \in Nat
      /\ Holds(inputBuffer, received, received)
  BY Halves DEF InputOK, NothingHeldBack
<1>2. /\ received' = received + n
      /\ handed' = handed \o Peek(b, ReadableBytes(b))
      /\ inputBuffer' = Retrived(b, ReadableBytes(b))
  BY DEF HandleRead, AsMuchAsThereIs
<1>3. Holds(b, received, received + n)
  BY <1>1, ReadIntoHolds
<1> HIDE DEF b
<1>4. ReadableBytes(b) = n
  BY <1>1, <1>3, HoldsSizes
<1>5. Holds(inputBuffer', received + n, received + n)
  <2>1. inputBuffer' = Retrived(b, n) /\ n <= ReadableBytes(b)
    BY <1>1, <1>2, <1>4
  <2>2. Holds(Retrived(b, n), received + n, received + n)
    BY <1>1, <1>3, <2>1, RetrivedHolds
  <2> QED
    BY <2>1, <2>2
<1>6. inputBuffer'.reader = CheapPrepend
  <2>1. inputBuffer' = Emptied(b)
    BY <1>1, <1>2, <1>4 DEF Retrived
  <2> QED
    BY <2>1 DEF Emptied
<1>7. Peek(b, n) = [i \in 1..n |-> received + i]
  BY <1>1, <1>3, <1>4, PeekHolds
<1>8. handed' = handed \o [i \in 1..n |-> Len(handed) + i]
  BY <1>1, <1>2, <1>4, <1>7
<1>9. Counts(handed') /\ Len(handed') = received + n
  BY <1>1, <1>8, CountsOn
<1>10. InputOK'
  BY <1>1, <1>2, <1>5, <1>6, <1>9 DEF InputOK, NothingHeldBack, Counts
<1>11. In!Move(n, n)
  BY <1>1, <1>2, <1>8 DEF In!Move, In!Bytes
<1> QED
  BY <1>10, <1>11

\* What sendInLoop is given goes to the socket, to the buffer, or nowhere.
LEMMA SendStep ==
  ASSUME IndInv, NEW n \in 1..MaxLen, SendInLoop(n)
  PROVE  OutputOK' /\ \E k \in 0..n : Out!Move(n, k)
<1>1. /\ given \in Nat /\ writing \in BOOLEAN /\ Shape(outputBuffer)
      /\ Counts(wire) /\ Len(wire) \in Nat /\ n \in Nat
  BY Halves DEF OutputOK, Counts
<1>2. /\ Holds(outputBuffer, Len(wire), given) \/ (reset /\ Waiting = 0)
      /\ writing <=> Waiting > 0
      /\ Waiting \in Nat
  BY Halves DEF OutputOK, RestIsBuffered, SendInLoop, Waiting, Shape, ReadableBytes
<1>3. /\ given' = given + n /\ ~closed /\ ~closed' /\ UNCHANGED reset
      /\ SendDirect(n) \/ SendFails \/ SendBuffered(n)
  BY DEF SendInLoop
<1>4. Len(wire) <= given
  BY Halves DEF OutputOK, RestIsBuffered
<1>5. CASE SendDirect(n)
  <2>1. PICK k \in 0..n :
          /\ wire' = wire \o Out!Bytes(given, k)
          /\ \/ k = n /\ UNCHANGED <<outputBuffer, writing>>
             \/ /\ k < n
                /\ outputBuffer' = Appended(outputBuffer, given + k, n - k)
                /\ AwaitWritable
    BY <1>5 DEF SendDirect
  <2>2. ~reset /\ ~writing /\ Waiting = 0
    BY <1>5 DEF SendDirect, Direct
  <2>3. Len(wire) = given
    BY <1>1, <1>2, <2>2, HoldsSizes DEF Waiting
  <2>4. wire' = wire \o [i \in 1..k |-> Len(wire) + i]
    BY <2>1, <2>3 DEF Out!Bytes
  <2>5. Counts(wire') /\ Len(wire') = given + k
    <3>1. k \in Nat
      BY <1>1
    <3>2. Counts(wire') /\ Len(wire') = Len(wire) + k
      BY <1>1, <2>4, <3>1, CountsOn
    <3> QED
      BY <2>3, <3>2
  <2>6. Out!Move(n, k)
    BY <1>1, <1>3, <2>3, <2>4 DEF Out!Move, Out!Bytes
  <2>7. CASE k = n /\ UNCHANGED <<outputBuffer, writing>>
    <3>1. Holds(outputBuffer, given + n, given + n)
      BY <1>1, <2>2, EmptyAnywhere DEF Waiting
    <3>2. OutputOK'
      BY <1>1, <1>2, <1>3, <2>5, <2>7, <3>1 DEF OutputOK, RestIsBuffered, Waiting
    <3> QED
      BY <2>6, <3>2
  <2>8. CASE /\ k < n
             /\ outputBuffer' = Appended(outputBuffer, given + k, n - k)
             /\ AwaitWritable
    <3>1. Holds(outputBuffer, given + k, given + k)
      BY <1>1, <2>2, EmptyAnywhere DEF Waiting
    <3>2. n - k \in Nat /\ given + k \in Nat /\ (given + k) + (n - k) = given + n
      BY <1>1, <2>8
    <3>3. Holds(outputBuffer', given + k, given + n)
      BY <2>8, <3>1, <3>2, AppendedHolds
    <3>4. Shape(outputBuffer') /\ ReadableBytes(outputBuffer') > 0
      BY <1>1, <2>8, <3>2, <3>3, HoldsSizes
    <3>5. OutputOK'
      BY <1>1, <1>3, <2>5, <2>8, <3>2, <3>3, <3>4
         DEF OutputOK, RestIsBuffered, Waiting, AwaitWritable
    <3> QED
      BY <2>6, <3>5
  <2> QED
    BY <2>1, <2>7, <2>8
<1>6. CASE SendFails
  <2>1. /\ UNCHANGED <<outputBuffer, writing, wire>> /\ reset
        /\ Waiting = 0 /\ ~writing
    BY <1>6 DEF SendFails, Direct
  <2>2. OutputOK'
    BY <1>1, <1>3, <1>4, <2>1 DEF OutputOK, RestIsBuffered, Waiting
  <2>3. wire \o [i \in 1..0 |-> Len(wire) + i] = wire
    <3>1. [i \in 1..0 |-> Len(wire) + i] = <<>>
      OBVIOUS
    <3> QED
      BY <1>1, <3>1 DEF Counts
  <2>4. Out!Move(n, 0)
    <3>1. Len(wire) + 0 <= given' /\ given' = given + n
      BY <1>1, <1>3, <1>4
    <3>2. wire' = wire \o Out!Bytes(Len(wire), 0)
      BY <2>1, <2>3 DEF Out!Bytes
    <3> QED
      BY <3>1, <3>2 DEF Out!Move
  <2>5. 0 \in 0..n
    BY <1>1
  <2> QED
    BY <2>2, <2>4, <2>5
<1>7. CASE SendBuffered(n)
  <2>1. /\ outputBuffer' = Appended(outputBuffer, given, n)
        /\ writing' = TRUE /\ wire' = wire
        /\ Waiting > 0
    BY <1>2, <1>7 DEF SendBuffered, Direct, AwaitWritable
  <2>2. Holds(outputBuffer, Len(wire), given)
    BY <1>2, <2>1
  <2>3. Holds(outputBuffer', Len(wire), given + n)
    BY <1>1, <2>1, <2>2, AppendedHolds
  <2>4. Shape(outputBuffer') /\ ReadableBytes(outputBuffer') > 0
    BY <1>1, <1>4, <2>3, HoldsSizes
  <2>5. OutputOK'
    BY <1>1, <1>3, <1>4, <2>1, <2>3, <2>4 DEF OutputOK, RestIsBuffered, Waiting
  <2>6. wire \o [i \in 1..0 |-> Len(wire) + i] = wire
    <3>1. [i \in 1..0 |-> Len(wire) + i] = <<>>
      OBVIOUS
    <3> QED
      BY <1>1, <3>1 DEF Counts
  <2>7. Out!Move(n, 0)
    <3>1. Len(wire) + 0 <= given' /\ given' = given + n
      BY <1>1, <1>3, <1>4
    <3>2. wire' = wire \o Out!Bytes(Len(wire), 0)
      BY <2>1, <2>6 DEF Out!Bytes
    <3> QED
      BY <3>1, <3>2 DEF Out!Move
  <2>8. 0 \in 0..n
    BY <1>1
  <2> QED
    BY <2>5, <2>7, <2>8
<1> QED
  BY <1>3, <1>5, <1>6, <1>7

\* handlerWrite moves the first k bytes that wait to the wire.
LEMMA WriteStep ==
  ASSUME IndInv, HandlerWrite
  PROVE  OutputOK' /\ \E k \in 0..given : Out!Move(0, k)
<1>1. /\ given \in Nat /\ Shape(outputBuffer) /\ Counts(wire) /\ Len(wire) \in Nat
  BY Halves DEF OutputOK, Counts
<1>2. PICK k \in 1..Waiting :
        /\ wire' = wire \o Peek(outputBuffer, k)
        /\ outputBuffer' = Retrived(outputBuffer, k)
        /\ writing' = StillWaiting(k)
  BY DEF HandlerWrite
<1>3. ~reset /\ UNCHANGED <<closed, reset, given>>
  BY DEF HandlerWrite
<1>4. Holds(outputBuffer, Len(wire), given)
  BY <1>3, Halves DEF OutputOK, RestIsBuffered
<1>5. Waiting \in Nat /\ Waiting = given - Len(wire)
  BY <1>4, HoldsSizes DEF Waiting
<1>6. k \in Nat /\ k <= ReadableBytes(outputBuffer)
  BY <1>5 DEF Waiting
<1>7. wire' = wire \o [i \in 1..k |-> Len(wire) + i]
  <2>1. Peek(outputBuffer, k) = [i \in 1..k |-> Len(wire) + i]
    BY <1>4, <1>6, PeekHolds
  <2> QED
    BY <1>2, <2>1
<1>8. Counts(wire') /\ Len(wire') = Len(wire) + k
  BY <1>1, <1>6, <1>7, CountsOn
<1>9. Holds(outputBuffer', Len(wire) + k, given)
  BY <1>2, <1>4, <1>6, RetrivedHolds
<1>10. /\ Shape(outputBuffer')
       /\ ReadableBytes(outputBuffer') = given - (Len(wire) + k)
  BY <1>9, HoldsSizes
<1>11. writing' \in BOOLEAN /\ (writing' <=> ReadableBytes(outputBuffer') > 0)
  <2>1. writing' = (k < Waiting)
    BY <1>2 DEF StillWaiting
  <2>2. (k < Waiting) <=> ReadableBytes(outputBuffer') > 0
    BY <1>1, <1>5, <1>6, <1>10
  <2>3. CASE k < Waiting
    <3>1. writing' = TRUE
      BY <2>1, <2>3
    <3> QED
      BY <2>2, <2>3, <3>1
  <2>4. CASE ~(k < Waiting)
    <3>0. (k < Waiting) = FALSE
      BY <2>4
    <3>1. writing' = FALSE
      BY <2>1, <3>0, Zenon
    <3> QED
      BY <2>2, <2>4, <3>1
  <2> QED
    BY <2>3, <2>4
<1>12. OutputOK'
  BY <1>1, <1>3, <1>5, <1>6, <1>8, <1>9, <1>10, <1>11, Waiting = ReadableBytes(outputBuffer)
     DEF OutputOK, RestIsBuffered, Waiting
<1>13. Out!Move(0, k) /\ k \in 0..given
  BY <1>1, <1>3, <1>5, <1>6, <1>7 DEF Out!Move, Out!Bytes
<1> QED
  BY <1>12, <1>13

\* Every step keeps the invariant and is a step of both streams or of neither.
LEMMA StepOK ==
  ASSUME IndInv, [Next]_vars
  PROVE  /\ IndInv'
         /\ [In!Next]_<<received, handed>>
         /\ [Out!Next]_<<given, wire>>
<1>0. /\ InputOK /\ OutputOK /\ Rest
      /\ received \in Nat /\ given \in Nat /\ MaxBytes \in Nat /\ MaxLen \in Nat
  BY Halves, StreamAssumption DEF InputOK, OutputOK, StreamAssumption
<1> SUFFICES /\ InputOK' /\ OutputOK' /\ Rest'
             /\ [In!Next]_<<received, handed>>
             /\ [Out!Next]_<<given, wire>>
  BY Halves, PTL
<1>1. UNCHANGED input => InputOK'
  BY <1>0 DEF input, InputOK, NothingHeldBack
<1>2. UNCHANGED output /\ UNCHANGED <<closed, reset>> => OutputOK'
  BY <1>0 DEF output, OutputOK, RestIsBuffered, Waiting
<1>3. CASE HandlerWrite
  <2>1. UNCHANGED <<input, closed, reset, given>>
    BY <1>3 DEF HandlerWrite
  <2>2. InputOK' /\ Rest'
    BY <1>0, <1>1, <2>1 DEF Rest, input
  <2>3. PICK k \in 0..given : Out!Move(0, k)
    BY <1>3, WriteStep
  <2>4. k \in 0..MaxBytes /\ 0 \in 0..MaxBytes
    BY <1>0 DEF Rest
  <2>5. Out!Next
    BY <2>3, <2>4 DEF Out!Next
  <2> QED
    BY <1>3, <2>1, <2>2, <2>5, WriteStep DEF input
<1>4. CASE HandlerClose
  <2>1. UNCHANGED <<input, outputBuffer, reset, given, wire>> /\ closed' /\ ~writing'
    BY <1>4 DEF HandlerClose
  <2>2. InputOK' /\ Rest'
    BY <1>0, <1>1, <1>4, <2>1 DEF Rest, input, HandlerClose
  <2>3. OutputOK'
    <3>1. RestIsBuffered'
      BY <1>0, <2>1 DEF OutputOK, RestIsBuffered, Waiting
    <3>2. writing' \in BOOLEAN
      BY <1>4 DEF HandlerClose
    <3> QED
      BY <1>0, <2>1, <3>1, <3>2 DEF OutputOK
  <2> QED
    BY <2>1, <2>2, <2>3 DEF input
<1>5. CASE PeerGone
  <2>1. UNCHANGED <<input, output, closed>> /\ reset' = TRUE
    BY <1>5 DEF PeerGone
  <2>2. InputOK' /\ Rest'
    BY <1>0, <1>1, <2>1 DEF Rest, input, output
  <2>3. OutputOK'
    BY <1>0, <2>1 DEF OutputOK, RestIsBuffered, Waiting, output
  <2> QED
    BY <2>1, <2>2, <2>3 DEF input, output
<1>6. ASSUME NEW n \in 1..MaxLen, SendInLoop(n)
      PROVE  /\ InputOK' /\ OutputOK' /\ Rest' /\ UNCHANGED <<received, handed>>
             /\ Out!Next
  <2>1. /\ UNCHANGED <<input, closed, reset>>
        /\ received + given + n <= MaxBytes /\ given' = given + n
    BY <1>6 DEF SendInLoop
  <2>2. InputOK' /\ Rest'
    BY <1>0, <1>1, <2>1 DEF Rest, input
  <2>3. PICK k \in 0..n : Out!Move(n, k)
    BY <1>6, SendStep
  <2>4. k \in 0..MaxBytes /\ n \in 0..MaxBytes
    BY <1>0, <2>1
  <2>5. Out!Next
    BY <2>3, <2>4 DEF Out!Next
  <2> QED
    BY <1>6, <2>1, <2>2, <2>5, SendStep DEF input
<1>7. ASSUME NEW n \in 1..MaxLen, HandleRead(n)
      PROVE  /\ InputOK' /\ OutputOK' /\ Rest' /\ UNCHANGED <<given, wire>>
             /\ In!Next
  <2>1. /\ UNCHANGED <<output, closed, reset>>
        /\ received + given + n <= MaxBytes /\ received' = received + n
    BY <1>7 DEF HandleRead
  <2>2. OutputOK' /\ Rest'
    BY <1>0, <1>2, <2>1 DEF Rest, output
  <2>3. n \in 0..MaxBytes
    BY <1>0, <2>1
  <2>4. In!Next
    BY <1>7, <2>3, ReadStep DEF In!Next
  <2> QED
    BY <1>7, <2>1, <2>2, <2>4, ReadStep DEF output
<1>8. CASE UNCHANGED vars
  <2>1. UNCHANGED <<input, output, closed, reset>>
    BY <1>8 DEF vars
  <2>2. Rest'
    BY <1>0, <2>1 DEF Rest, input, output
  <2> QED
    BY <1>1, <1>2, <2>1, <2>2 DEF input, output
<1> QED
  BY <1>3, <1>4, <1>5, <1>6, <1>7, <1>8 DEF Next

\* The invariant of both directions, whatever the sizes of the buffers, the
\* messages and the pieces the socket takes and gives.
THEOREM StreamInductive == Spec => []IndInv
<1>1. IndInv /\ [Next]_vars => IndInv'
  BY StepOK
<1> QED
  BY <1>1, InitOK, PTL DEF Spec

\* What is not on the wire yet waits in outputBuffer_, and EPOLLOUT with it.
THEOREM RestWaits == Spec => []RestIsBuffered
<1>1. IndInv => RestIsBuffered
  BY DEF IndInv
<1> QED
  BY <1>1, StreamInductive, PTL

\* handleRead hands every byte on, and no read of onMessage goes past the vector.
THEOREM ReadsAreWhole == Spec => []NothingHeldBack
<1>1. IndInv => NothingHeldBack
  BY DEF IndInv
<1> QED
  BY <1>1, StreamInductive, PTL

\* readFd and onMessage implement the stream from the peer.
THEOREM InputRefines == Spec => InputIsStream
<1>1. Init => In!Init
  BY DEF Init, In!Init
<1>2. IndInv /\ [Next]_vars => [In!Next]_<<received, handed>>
  BY StepOK
<1> QED
  BY <1>1, <1>2, StreamInductive, PTL DEF Spec, InputIsStream, In!Spec

\* sendInLoop and handlerWrite implement the stream to the peer.
THEOREM OutputRefines == Spec => OutputIsStream
<1>1. Init => Out!Init
  BY DEF Init, Out!Init
<1>2. IndInv /\ [Next]_vars => [Out!Next]_<<given, wire>>
  BY StepOK
<1> QED
  BY <1>1, <1>2, StreamInductive, PTL DEF Spec, OutputIsStream, Out!Spec
=============================================================================
