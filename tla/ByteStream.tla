----------------------------- MODULE ByteStream -----------------------------
(***************************************************************************)
(* What one direction of a TCP connection promises: the bytes put in come  *)
(* out in their order, none missing in between, none twice. The bytes are  *)
(* numbered as in module Buffer.                                           *)
(***************************************************************************)
EXTENDS Naturals, Sequences

CONSTANT MaxBytes   \* bound: bytes moved in a step

VARIABLES
  sent,      \* how many bytes were put in
  arrived    \* the bytes that came out

Init == sent = 0 /\ arrived = <<>>

\* n bytes from number first + 1 on.
Bytes(first, n) == [i \in 1..n |-> first + i]

\* n bytes are put in and the next k come out.
Move(n, k) ==
  /\ sent' = sent + n
  /\ Len(arrived) + k <= sent'
  /\ arrived' = arrived \o Bytes(Len(arrived), k)

Next == \E n, k \in 0..MaxBytes : Move(n, k)

Spec == Init /\ [][Next]_<<sent, arrived>>
=============================================================================
