--------------------------- MODULE MCNetConnection ---------------------------
(***************************************************************************)
(* NetConnection with three connections, the first and the last on one sub *)
(* loop; each of the others logs in under one of the two accounts that the *)
(* last logs in under.                                                     *)
(***************************************************************************)
EXTENDS NetConnection

CONSTANTS u1, u2

MCUser  == {u1, u2}
MCNames == <<{u2}, {u1}, {u1, u2}>>
=============================================================================
