-------------------------- MODULE SessionRegistry --------------------------
(***************************************************************************)
(* What the cluster promises of its accounts: each is a lock that one      *)
(* connection takes and gives back.  A connection that uses an account     *)
(* never turns to another without giving the first back.  Only an account  *)
(* marked as damaged may be taken while it is in use.                      *)
(***************************************************************************)
CONSTANTS
  User,     \* accounts
  Conn,     \* connections
  NoUser    \* the connection uses no account

VARIABLES
  using,    \* the account each connection uses
  damaged   \* accounts the lock no longer protects

vars == <<using, damaged>>

Init ==
  /\ using = [c \in Conn |-> NoUser]
  /\ damaged = {}

Free(u) == \A c \in Conn : using[c] # u

\* A connection takes an account that is free, or damages it.
Take(c, u) ==
  /\ using[c] = NoUser
  /\ damaged' \in {damaged, damaged \cup {u}}
  /\ Free(u) \/ u \in damaged'
  /\ using' = [using EXCEPT ![c] = u]

\* Some connections give back what they use, and some accounts are damaged.
GiveBack(C, D) ==
  /\ using' = [c \in Conn |-> IF c \in C THEN NoUser ELSE using[c]]
  /\ damaged' = damaged \cup D

Next ==
  \/ \E c \in Conn, u \in User : Take(c, u)
  \/ \E C \in SUBSET Conn, D \in SUBSET User : GiveBack(C, D)

Spec == Init /\ [][Next]_vars
=============================================================================
