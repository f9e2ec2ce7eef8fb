------------------------------ MODULE TcpStream ------------------------------
(***************************************************************************)
(* The two byte streams of one TcpConnection, on the thread of its loop.   *)
(* Output: sendInLoop writes to the socket if nothing waits, and leaves    *)
(* what the socket does not take in outputBuffer_ for handlerWrite. Input: *)
(* handleRead reads into inputBuffer_ and calls onMessage, which takes    *)
(* all there is out of it.                                                 *)
(*                                                                         *)
(* The bytes of each direction are numbered in their order, as in module   *)
(* Buffer: those handed to sendInLoop while the connection is open, and    *)
(* those the peer sends.                                                   *)
(***************************************************************************)
EXTENDS Buffer, Sequences

CONSTANTS
  MaxBytes,   \* bound: bytes of both directions
  MaxLen      \* bound: bytes of one message

ASSUME StreamAssumption == MaxBytes \in Nat /\ MaxLen \in Nat

VARIABLES
  inputBuffer,    \* inputBuffer_
  outputBuffer,   \* outputBuffer_
  writing,        \* channel_ asks for EPOLLOUT
  closed,         \* state_ is kDisconnected
  reset,          \* the peer is gone: every write fails from now on
  received,       \* history: how many bytes readv returned
  handed,         \* history: the bytes onMessage took
  given,          \* history: how many bytes sendInLoop was handed
  wire            \* history: the bytes the socket took

input  == <<inputBuffer, received, handed>>
output == <<outputBuffer, writing, given, wire>>
vars   == <<input, output, closed, reset>>

In  == INSTANCE ByteStream WITH sent <- received, arrived <- handed
Out == INSTANCE ByteStream WITH sent <- given, arrived <- wire

TypeOK ==
  /\ Shape(inputBuffer) /\ Shape(outputBuffer)
  /\ writing \in BOOLEAN /\ closed \in BOOLEAN /\ reset \in BOOLEAN
  /\ received \in Nat /\ given \in Nat /\ received + given <= MaxBytes
  /\ handed \in Seq(Nat) /\ wire \in Seq(Nat)

Init ==
  /\ inputBuffer = Empty /\ outputBuffer = Empty
  /\ writing = FALSE /\ closed = FALSE /\ reset = FALSE
  /\ received = 0 /\ given = 0
  /\ handed = <<>> /\ wire = <<>>

Waiting == ReadableBytes(outputBuffer)

AlwaysDirect == TRUE   \* mutant: sendInLoop always tries the socket first

Direct == ~writing /\ Waiting = 0

AwaitWritable == writing' = TRUE

\* The socket takes k of the n bytes, none when the write would block.
SendDirect(n) ==
  /\ Direct /\ ~reset
  /\ \E k \in 0..n :
       /\ wire' = wire \o Out!Bytes(given, k)
       /\ \/ k = n /\ UNCHANGED <<outputBuffer, writing>>
          \/ /\ k < n
             /\ outputBuffer' = Appended(outputBuffer, given + k, n - k)
             /\ AwaitWritable

\* faultError: the message is given up.
SendFails == Direct /\ reset /\ UNCHANGED <<outputBuffer, writing, wire>>

SendBuffered(n) ==
  /\ ~Direct
  /\ outputBuffer' = Appended(outputBuffer, given, n)
  /\ AwaitWritable
  /\ UNCHANGED wire

SendInLoop(n) ==
  /\ ~closed
  /\ received + given + n <= MaxBytes
  /\ given' = given + n
  /\ SendDirect(n) \/ SendFails \/ SendBuffered(n)
  /\ UNCHANGED <<input, closed, reset>>

StopsAtOnce(k) == FALSE   \* mutant: EPOLLOUT is given up after any write

StillWaiting(k) == k < Waiting

\* handlerWrite; a write that fails changes nothing.
HandlerWrite ==
  /\ writing /\ ~reset
  /\ \E k \in 1..Waiting :
       /\ wire' = wire \o Peek(outputBuffer, k)
       /\ outputBuffer' = Retrived(outputBuffer, k)
       /\ writing' = StillWaiting(k)
  /\ UNCHANGED <<input, closed, reset, given>>

OneByteLeft(b) == ReadableBytes(b) - 1   \* mutant: the last byte is not taken

\* retrieveAllAsString of onMessage.
AsMuchAsThereIs(b) == ReadableBytes(b)

\* handleRead: what readFd read is handed on before anything else happens.
HandleRead(n) ==
  /\ ~closed
  /\ received + given + n <= MaxBytes
  /\ n <= MostRead(inputBuffer)
  /\ received' = received + n
  /\ LET b == ReadInto(inputBuffer, received, n)
         k == AsMuchAsThereIs(b) IN
       /\ handed' = handed \o Peek(b, k)
       /\ inputBuffer' = Retrived(b, k)
  /\ UNCHANGED <<output, closed, reset>>

\* setState(kDisconnected) and disableAll of handlerClose.
HandlerClose ==
  /\ ~closed
  /\ closed' = TRUE
  /\ writing' = FALSE
  /\ UNCHANGED <<input, outputBuffer, reset, given, wire>>

PeerGone == ~reset /\ reset' = TRUE /\ UNCHANGED <<input, output, closed>>

Next ==
  \/ HandlerWrite \/ HandlerClose \/ PeerGone
  \/ \E n \in 1..MaxLen : SendInLoop(n) \/ HandleRead(n)

Spec == Init /\ [][Next]_vars

\* The peer reads as long as it is there.
FairSpec == Spec /\ WF_vars(HandlerWrite)

-----------------------------------------------------------------------------
(* Properties.                                                             *)

\* The peer gets the bytes in the order in which they were handed to
\* sendInLoop, with none missing in between: no write overtakes the buffer.
WireInOrder == \A i \in DOMAIN wire : wire[i] = i

\* What is given and not on the wire is in the output buffer, in order and
\* within its vector, unless the peer was gone when nothing waited; and
\* EPOLLOUT is asked for exactly as long as something waits.
RestIsBuffered ==
  /\ Len(wire) <= given
  /\ Holds(outputBuffer, Len(wire), given) \/ (reset /\ Waiting = 0)
  /\ ~closed => (writing <=> Waiting > 0)

\* Every byte readv returned, the ones that went over extrabuf included, is
\* handed to onMessage in its order before the next read, and the input
\* buffer is back at the front of its vector.
NothingHeldBack ==
  /\ Holds(inputBuffer, Len(handed), received)
  /\ Len(handed) = received /\ \A i \in DOMAIN handed : handed[i] = i
  /\ inputBuffer.reader = CheapPrepend

\* The invariant behind them.
IndInv == TypeOK /\ WireInOrder /\ RestIsBuffered /\ NothingHeldBack

\* Both directions are streams of bytes, whatever the sizes of the buffers
\* and wherever the socket cuts a read or a write.
InputIsStream  == In!Spec
OutputIsStream == Out!Spec

\* Every byte reaches the wire, unless the peer goes or the connection closes.
AllIsWritten ==
  \A k \in 1..MaxBytes : given >= k ~> Len(wire) >= k \/ reset \/ closed
=============================================================================
