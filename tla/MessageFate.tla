----------------------------- MODULE MessageFate -----------------------------
(***************************************************************************)
(* What the cluster promises of the messages it accepts, copy by copy, a   *)
(* copy being a recipient and a message.  A copy waits with the server     *)
(* that accepted it until it is sent, stored, or published to some of the  *)
(* servers, each of which then sends it or stores it; what has been dealt  *)
(* with does not come back.  What was stored stays so whatever breaks,     *)
(* until a login of its account that was given stored messages removes it. *)
(* What a login was given it sends.  A copy may be lost as it is dealt     *)
(* with, where its client leaves, where storing it fails, or where it is   *)
(* published to nobody.  Other copies are lost only where a server loses   *)
(* its subscription, and where its process ends: then all it has in memory *)
(* is gone, and nothing else.                                              *)
(***************************************************************************)
EXTENDS Naturals

CONSTANTS
  User,      \* accounts
  Msg,       \* messages
  Server,    \* processes of the cluster
  Conn,      \* connections
  ServerOf   \* the server of each connection

VARIABLES
  addressed,   \* the recipients of every message submitted so far
  waiting,     \* per server: copies accepted there and not dealt with
  published,   \* per server: copies published to it and not dealt with
  stored,      \* copies kept for the recipient's next login
  fetched,     \* per connection: copies given to a login that has not answered yet
  sent,        \* copies sent to a client
  deaf,        \* servers that have lost their subscription
  ended        \* how often each process has ended

vars == <<addressed, waiting, published, stored, fetched, sent, deaf, ended>>
faults == <<deaf, ended>>

Of(u) == {p \in stored : p[1] = u}

Init ==
  /\ addressed = [m \in Msg |-> {}]
  /\ waiting = [s \in Server |-> {}]
  /\ published = [s \in Server |-> {}]
  /\ stored = {}
  /\ fetched = [c \in Conn |-> {}]
  /\ sent = {}
  /\ deaf = {}
  /\ ended = [s \in Server |-> 0]

Submit(s, m, R) ==
  /\ addressed[m] = {}
  /\ addressed' = [addressed EXCEPT ![m] = R]
  /\ waiting' = [waiting EXCEPT ![s] = @ \cup (R \X {m})]
  /\ UNCHANGED <<published, stored, fetched, sent, faults>>

\* A copy is written to a client, or dropped as the client is leaving.
Send(p) == sent' \in {sent, sent \cup {p}} /\ UNCHANGED <<stored, fetched, addressed, faults>>

\* A copy is stored, or lost as that fails.
Store(p) == stored' \in {stored, stored \cup {p}} /\ UNCHANGED <<sent, fetched, addressed, faults>>

\* The server that accepted a copy sends or stores it.
DealWith(s, p) ==
  /\ waiting' = [waiting EXCEPT ![s] = @ \ {p}]
  /\ UNCHANGED published
  /\ Send(p) \/ Store(p)

\* It publishes the copy to the servers of T, which may be none.
Publish(s, p, T) ==
  /\ waiting' = [waiting EXCEPT ![s] = @ \ {p}]
  /\ published' = [t \in Server |-> published[t] \cup {q \in {p} : t \in T}]
  /\ UNCHANGED <<addressed, stored, fetched, sent, faults>>

\* A server a copy was published to sends or stores it.
DealWithPublished(s, p) ==
  /\ published' = [published EXCEPT ![s] = @ \ {p}]
  /\ UNCHANGED waiting
  /\ Send(p) \/ Store(p)

\* A login of account u is given what is stored for it, or part of that.
Fetch(c, u) ==
  /\ fetched[c] = {}
  /\ \E P \in (SUBSET Of(u)) \ {{}} : fetched' = [fetched EXCEPT ![c] = P]
  /\ UNCHANGED <<addressed, waiting, published, stored, sent, faults>>

\* It removes what is stored for the account.
Remove(c) ==
  /\ \E p \in fetched[c] : stored' = stored \ Of(p[1])
  /\ UNCHANGED <<addressed, waiting, published, fetched, sent, faults>>

Answer(c) ==
  /\ fetched[c] # {}
  /\ sent' = sent \cup fetched[c]
  /\ fetched' = [fetched EXCEPT ![c] = {}]
  /\ UNCHANGED <<addressed, waiting, published, stored, faults>>

LoseSubscription(s) ==
  /\ s \notin deaf /\ deaf' = deaf \cup {s}
  /\ \E P \in SUBSET published[s] : published' = [published EXCEPT ![s] = P]
  /\ UNCHANGED <<addressed, waiting, stored, fetched, sent, ended>>

\* The process of a server ends.
End(s) ==
  /\ ended' = [ended EXCEPT ![s] = @ + 1]
  /\ deaf' = deaf \ {s}
  /\ waiting' = [waiting EXCEPT ![s] = {}]
  /\ published' = [published EXCEPT ![s] = {}]
  /\ fetched' = [c \in Conn |-> IF ServerOf[c] = s THEN {} ELSE fetched[c]]
  /\ UNCHANGED <<addressed, stored, sent>>

ServerStep(s) ==
  \/ \E m \in Msg, R \in SUBSET User : Submit(s, m, R)
  \/ \E p \in waiting[s] : DealWith(s, p) \/ \E T \in SUBSET Server : Publish(s, p, T)
  \/ \E p \in published[s] : DealWithPublished(s, p)
  \/ LoseSubscription(s) \/ End(s)

LoginStep(c) == Remove(c) \/ Answer(c) \/ \E u \in User : Fetch(c, u)

Next == (\E s \in Server : ServerStep(s)) \/ (\E c \in Conn : LoginStep(c))

Spec == Init /\ [][Next]_vars
=============================================================================
