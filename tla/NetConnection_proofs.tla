------------------------ MODULE NetConnection_proofs ------------------------
(***************************************************************************)
(* No functor, thread or poller reaches a deleted TcpConnection, a closed  *)
(* one stays out of the poller, and output never waits without EPOLLOUT:   *)
(* for every number of connections, loops and messages.                    *)
(***************************************************************************)
EXTENDS NetConnection, TLAPS

-----------------------------------------------------------------------------
(* Loops and queues.                                                       *)

LEMMA Loops ==
  ASSUME NEW c \in Conn
  PROVE  /\ LoopOf(c) \in Sub /\ LoopOf(c) \in Loop /\ LoopOf(c) \in Sender
         /\ LoopOf(c) # Main /\ LoopOf(c) # Observer
<1>1. c - 1 \in Nat /\ NumLoops \in Nat /\ NumLoops > 0
  BY NetAssumption DEF Conn
<1>2. (c - 1) % NumLoops \in 0..(NumLoops - 1)
  BY <1>1
<1>3. LoopOf(c) \in Sub
  BY <1>1, <1>2 DEF LoopOf, Sub
<1>4. LoopOf(c) \in Nat /\ LoopOf(c) # 0
  BY <1>1, <1>3 DEF Sub
<1> QED
  BY <1>3, <1>4, NetAssumption DEF Loop, Sender, Main

LEMMA Homes ==
  ASSUME NEW k \in Call, NEW c \in Conn
  PROVE  /\ Home(k, c) \in Loop
         /\ \A j \in Call : Home(j, c) = Home(k, c) <=> (j = "remove" <=> k = "remove")
BY Loops DEF Home, Loop, Call

LEMMA Put ==
  ASSUME NEW S, NEW q \in Seq(S), NEW x \in S
  PROVE  Append(q, x) \in Seq(S) /\ Range(Append(q, x)) = Range(q) \cup {x}
<1>1. /\ Append(q, x) \in Seq(S) /\ Len(q) \in Nat /\ DOMAIN q = 1..Len(q)
      /\ DOMAIN Append(q, x) = 1..(Len(q) + 1)
      /\ Append(q, x)[Len(q) + 1] = x
      /\ \A i \in 1..Len(q) : Append(q, x)[i] = q[i]
  OBVIOUS
<1>2. ASSUME NEW y \in Range(Append(q, x)) PROVE y \in Range(q) \cup {x}
  <2>1. PICK i \in 1..(Len(q) + 1) : y = Append(q, x)[i]
    BY <1>1, <1>2 DEF Range
  <2>2. i \in 1..Len(q) \/ i = Len(q) + 1
    BY <1>1
  <2> QED
    BY <1>1, <2>1, <2>2 DEF Range
<1>3. ASSUME NEW y \in Range(q) \cup {x} PROVE y \in Range(Append(q, x))
  <2>1. CASE y = x
    <3>1. Len(q) + 1 \in DOMAIN Append(q, x)
      BY <1>1
    <3> QED
      BY <1>1, <2>1, <3>1 DEF Range
  <2>2. CASE y \in Range(q)
    <3>1. PICK i \in 1..Len(q) : y = q[i]
      BY <1>1, <2>2 DEF Range
    <3>2. i \in DOMAIN Append(q, x) /\ y = Append(q, x)[i]
      BY <1>1, <3>1
    <3> QED
      BY <3>2 DEF Range
  <2> QED
    BY <1>3, <2>1, <2>2
<1> QED
  BY <1>1, <1>2, <1>3

LEMMA PutInOrder ==
  ASSUME NEW q \in Seq(Call \X Conn), NEW x \in Call \X Conn, InOrder(q),
         <<"destroyed", x[2]>> \notin Range(q),
         x[1] = "sendInLoop" \/ x \notin Range(q)
  PROVE  InOrder(Append(q, x))
<1> DEFINE r == Append(q, x)
<1>1. /\ Len(q) \in Nat /\ DOMAIN q = 1..Len(q) /\ DOMAIN r = 1..(Len(q) + 1)
      /\ r[Len(q) + 1] = x
      /\ \A i \in 1..Len(q) : r[i] = q[i]
  OBVIOUS
<1>2. \A i \in 1..Len(q) : q[i] \in Range(q) /\ q[i] = <<q[i][1], q[i][2]>>
  BY <1>1 DEF Range
<1> HIDE DEF r
<1>3. SUFFICES ASSUME NEW i \in DOMAIN r, NEW j \in DOMAIN r, i < j
               PROVE  /\ r[i][1] = "destroyed" => r[j][2] # r[i][2]
                      /\ r[i] = r[j] => r[i][1] = "sendInLoop"
  BY DEF InOrder, r
<1>4. i \in 1..Len(q) /\ (j \in 1..Len(q) \/ j = Len(q) + 1)
  BY <1>1, <1>3
<1>5. CASE j \in 1..Len(q)
  BY <1>1, <1>3, <1>4, <1>5 DEF InOrder
<1>6. CASE j = Len(q) + 1
  <2>1. r[i] = q[i] /\ r[j] = x /\ q[i] \in Range(q) /\ q[i] = <<q[i][1], q[i][2]>>
    BY <1>1, <1>2, <1>4, <1>6
  <2> QED
    BY <2>1
<1> QED
  BY <1>4, <1>5, <1>6

LEMMA TakeFirst ==
  ASSUME NEW S, NEW q \in Seq(S), q # <<>>
  PROVE  /\ Tail(q) \in Seq(S) /\ Head(q) \in S
         /\ Range(q) = Range(Tail(q)) \cup {Head(q)}
<1>1. /\ Tail(q) \in Seq(S) /\ Head(q) \in S
      /\ Len(q) \in Nat /\ Len(q) >= 1 /\ DOMAIN q = 1..Len(q)
      /\ DOMAIN Tail(q) = 1..(Len(q) - 1)
      /\ Head(q) = q[1]
      /\ \A i \in 1..(Len(q) - 1) : Tail(q)[i] = q[i + 1]
  OBVIOUS
<1>2. ASSUME NEW y \in Range(q) PROVE y \in Range(Tail(q)) \cup {Head(q)}
  <2>1. PICK i \in 1..Len(q) : y = q[i]
    BY <1>1, <1>2 DEF Range
  <2>2. CASE i = 1
    BY <1>1, <2>1, <2>2
  <2>3. CASE i # 1
    <3>1. i - 1 \in 1..(Len(q) - 1)
      BY <1>1, <2>3
    <3>2. Tail(q)[i - 1] = q[(i - 1) + 1]
      BY <1>1, <3>1
    <3>3. (i - 1) + 1 = i
      BY <1>1
    <3>4. Tail(q)[i - 1] = y
      BY <2>1, <3>2, <3>3
    <3> QED
      BY <1>1, <3>1, <3>4 DEF Range
  <2> QED
    BY <2>2, <2>3
<1>3. ASSUME NEW y \in Range(Tail(q)) \cup {Head(q)} PROVE y \in Range(q)
  <2>1. CASE y = Head(q)
    <3>1. 1 \in DOMAIN q
      BY <1>1
    <3> QED
      BY <1>1, <2>1, <3>1 DEF Range
  <2>2. CASE y \in Range(Tail(q))
    <3>1. PICK i \in 1..(Len(q) - 1) : y = Tail(q)[i]
      BY <1>1, <2>2 DEF Range
    <3>2. i + 1 \in DOMAIN q /\ y = q[i + 1]
      BY <1>1, <3>1
    <3> QED
      BY <3>2 DEF Range
  <2> QED
    BY <1>3, <2>1, <2>2
<1> QED
  BY <1>1, <1>2, <1>3

LEMMA TakeInOrder ==
  ASSUME NEW q \in Seq(Call \X Conn), q # <<>>, InOrder(q)
  PROVE  /\ InOrder(Tail(q))
         /\ Head(q)[1] # "sendInLoop" => Head(q) \notin Range(Tail(q))
         /\ Head(q)[1] = "destroyed" => \A y \in Range(Tail(q)) : y[2] # Head(q)[2]
<1> DEFINE r == Tail(q)
<1>1. /\ Len(q) \in Nat /\ Len(q) >= 1 /\ DOMAIN q = 1..Len(q)
      /\ DOMAIN r = 1..(Len(q) - 1)
      /\ Head(q) = q[1]
      /\ \A i \in 1..(Len(q) - 1) : r[i] = q[i + 1]
  OBVIOUS
<1> HIDE DEF r
<1>2. ASSUME NEW i \in DOMAIN r, NEW j \in DOMAIN r, i < j
      PROVE  /\ r[i][1] = "destroyed" => r[j][2] # r[i][2]
             /\ r[i] = r[j] => r[i][1] = "sendInLoop"
  <2>1. /\ i + 1 \in DOMAIN q /\ j + 1 \in DOMAIN q /\ i + 1 < j + 1
        /\ r[i] = q[i + 1] /\ r[j] = q[j + 1]
    BY <1>1, <1>2
  <2> QED
    BY <2>1 DEF InOrder
<1>3. ASSUME NEW y \in Range(r)
      PROVE  /\ Head(q)[1] # "sendInLoop" => y # Head(q)
             /\ Head(q)[1] = "destroyed" => y[2] # Head(q)[2]
  <2>1. PICK i \in 1..(Len(q) - 1) : y = r[i]
    BY <1>1, <1>3 DEF Range
  <2>2. 1 \in DOMAIN q /\ i + 1 \in DOMAIN q /\ 1 < i + 1 /\ y = q[i + 1]
    BY <1>1, <2>1
  <2> QED
    BY <1>1, <2>2 DEF InOrder
<1> QED
  BY <1>2, <1>3 DEF InOrder, r

\* The queues of all loops, as a value.
QueueType == [Loop -> Seq(Call \X Conn)]

Is(q, k, c) == <<k, c>> \in Range(q[Home(k, c)])

Sorted(q) ==
  \A l \in Loop : InOrder(q[l]) /\ \A f \in Range(q[l]) : l = Home(f[1], f[2])

With(q, k, c) == [q EXCEPT ![Home(k, c)] = Append(@, <<k, c>>)]

\* A functor is queued that is not queued yet, and not after the last one.
LEMMA QueuePut ==
  ASSUME NEW q \in QueueType, Sorted(q), NEW k \in Call, NEW c \in Conn,
         ~Is(q, "destroyed", c), k = "sendInLoop" \/ ~Is(q, k, c)
  PROVE  /\ With(q, k, c) \in QueueType /\ Sorted(With(q, k, c))
         /\ \A j \in Call, d \in Conn :
              Is(With(q, k, c), j, d) <=> Is(q, j, d) \/ (j = k /\ d = c)
<1> DEFINE h == Home(k, c)
           x == <<k, c>>
           r == With(q, k, c)
<1>1. h \in Loop /\ x \in Call \X Conn /\ x[1] = k /\ x[2] = c
  BY Homes
<1>2. q[h] \in Seq(Call \X Conn)
  BY <1>1 DEF QueueType
<1>3. Append(q[h], x) \in Seq(Call \X Conn) /\ Range(Append(q[h], x)) = Range(q[h]) \cup {x}
  BY <1>1, <1>2, Put
<1>4. r = [q EXCEPT ![h] = Append(q[h], x)]
  BY DEF With
<1> HIDE DEF r, h
<1>5. /\ r \in QueueType
      /\ r[h] = Append(q[h], x)
      /\ \A l \in Loop \ {h} : r[l] = q[l]
  BY <1>1, <1>3, <1>4 DEF QueueType
<1>6. x \in Range(q[h]) <=> Is(q, k, c)
  BY DEF Is, h
<1>7. <<"destroyed", c>> \notin Range(q[h])
  <2>1. <<"destroyed", c>> \in Range(q[h]) => h = Home("destroyed", c)
    BY <1>1 DEF Sorted
  <2> QED
    BY <2>1 DEF Is
<1>8. InOrder(r[h])
  <2>1. InOrder(q[h])
    BY <1>1 DEF Sorted
  <2>2. x[1] = "sendInLoop" \/ x \notin Range(q[h])
    BY <1>1, <1>6
  <2>3. <<"destroyed", x[2]>> \notin Range(q[h])
    BY <1>1, <1>7
  <2> HIDE DEF x
  <2>4. InOrder(Append(q[h], x))
    BY <1>1, <1>2, <2>1, <2>2, <2>3, PutInOrder
  <2> QED
    BY <1>5, <2>4
<1>9. \A f \in Range(r[h]) : h = Home(f[1], f[2])
  <2>1. \A f \in Range(q[h]) : h = Home(f[1], f[2])
    BY <1>1 DEF Sorted
  <2>2. h = Home(x[1], x[2])
    BY <1>1 DEF h
  <2> HIDE DEF x
  <2> QED
    BY <1>3, <1>5, <2>1, <2>2
<1>10. Sorted(r)
  BY <1>5, <1>8, <1>9 DEF Sorted
<1>11. ASSUME NEW j \in Call, NEW d \in Conn
       PROVE  Is(r, j, d) <=> Is(q, j, d) \/ (j = k /\ d = c)
  <2>1. Home(j, d) \in Loop
    BY Homes
  <2>2. CASE Home(j, d) = h
    <3>1. Is(r, j, d) <=> <<j, d>> \in Range(q[h]) \cup {x}
      BY <1>3, <1>5, <2>2 DEF Is
    <3>2. Is(q, j, d) <=> <<j, d>> \in Range(q[h])
      BY <2>2 DEF Is
    <3> QED
      BY <3>1, <3>2
  <2>3. CASE Home(j, d) # h
    <3>1. ~(j = k /\ d = c)
      BY <2>3 DEF h
    <3>2. r[Home(j, d)] = q[Home(j, d)]
      BY <1>5, <2>1, <2>3
    <3> QED
      BY <3>1, <3>2 DEF Is
  <2> QED
    BY <2>2, <2>3
<1> QED
  BY <1>5, <1>10, <1>11 DEF r

Without(q, l) == [q EXCEPT ![l] = Tail(@)]

\* The first functor is taken out of the queue it is in.
LEMMA QueueTake ==
  ASSUME NEW q \in QueueType, Sorted(q), NEW l \in Loop, NEW k \in Call, NEW c \in Conn,
         q[l] # <<>>, Head(q[l]) = <<k, c>>
  PROVE  /\ l = Home(k, c) /\ Is(q, k, c)
         /\ Without(q, l) \in QueueType /\ Sorted(Without(q, l))
         /\ \A j \in Call, d \in Conn : Is(Without(q, l), j, d) => Is(q, j, d)
         /\ \A j \in Call, d \in Conn : Is(q, j, d) => Is(Without(q, l), j, d) \/ (j = k /\ d = c)
         /\ k # "sendInLoop" => ~Is(Without(q, l), k, c)
         /\ k = "destroyed" => ~Is(Without(q, l), "sendInLoop", c)
<1> DEFINE r == Without(q, l)
           x == <<k, c>>
<1>1. q[l] \in Seq(Call \X Conn) /\ InOrder(q[l])
  BY DEF QueueType, Sorted
<1>2. /\ Tail(q[l]) \in Seq(Call \X Conn)
      /\ Range(q[l]) = Range(Tail(q[l])) \cup {x}
  BY <1>1, TakeFirst
<1>3. /\ InOrder(Tail(q[l]))
      /\ k # "sendInLoop" => x \notin Range(Tail(q[l]))
      /\ k = "destroyed" => \A y \in Range(Tail(q[l])) : y[2] # c
  BY <1>1, TakeInOrder
<1>4. r = [q EXCEPT ![l] = Tail(q[l])]
  BY DEF Without
<1> HIDE DEF r
<1>5. /\ r \in QueueType /\ r[l] = Tail(q[l])
      /\ \A m \in Loop \ {l} : r[m] = q[m]
  BY <1>2, <1>4 DEF QueueType
<1>6. l = Home(k, c)
  BY <1>2 DEF Sorted
<1>7. Is(q, k, c)
  BY <1>2, <1>6 DEF Is
<1>8. Sorted(r)
  BY <1>2, <1>3, <1>5 DEF Sorted
<1>9. ASSUME NEW j \in Call, NEW d \in Conn
      PROVE  /\ Is(r, j, d) => Is(q, j, d)
             /\ Is(q, j, d) => Is(r, j, d) \/ (j = k /\ d = c)
  <2>1. Home(j, d) \in Loop
    BY Homes
  <2>2. CASE Home(j, d) = l
    <3>1. Is(r, j, d) <=> <<j, d>> \in Range(Tail(q[l]))
      BY <1>5, <2>2 DEF Is
    <3>2. Is(q, j, d) <=> <<j, d>> \in Range(Tail(q[l])) \cup {x}
      BY <1>2, <2>2 DEF Is
    <3> QED
      BY <3>1, <3>2
  <2>3. CASE Home(j, d) # l
    <3>1. r[Home(j, d)] = q[Home(j, d)]
      BY <1>5, <2>1, <2>3
    <3> QED
      BY <3>1 DEF Is
  <2> QED
    BY <2>2, <2>3
<1>10. k # "sendInLoop" => ~Is(r, k, c)
  BY <1>3, <1>5, <1>6 DEF Is
<1>11. k = "destroyed" => ~Is(r, "sendInLoop", c)
  <2> SUFFICES ASSUME k = "destroyed", Is(r, "sendInLoop", c) PROVE FALSE
    OBVIOUS
  <2>1. Home("sendInLoop", c) = l
    BY <1>6 DEF Home
  <2>2. <<"sendInLoop", c>> \in Range(Tail(q[l]))
    BY <1>5, <2>1 DEF Is
  <2> QED
    BY <1>3, <2>2
<1> QED
  BY <1>5, <1>6, <1>7, <1>8, <1>9, <1>10, <1>11 DEF r

\* The same, of the queues of the model.
LEMMA QueuesAre ==
  /\ Queues <=> Sorted(queue)
  /\ \A k, c : Waiting(k, c) <=> Is(queue, k, c)
BY DEF Queues, Sorted, Waiting, Is

LEMMA QueuesAreNext ==
  /\ Queues' <=> Sorted(queue')
  /\ \A k, c : Waiting(k, c)' <=> Is(queue', k, c)
BY DEF Queues, Sorted, Waiting, Is

LEMMA QueueOK ==
  ASSUME TypeOK, Queues, NEW k \in Call, NEW c \in Conn, NEW l, l = Home(k, c), Queue(l, k, c),
         ~Waiting("destroyed", c), k = "sendInLoop" \/ ~Waiting(k, c)
  PROVE  /\ queue' \in QueueType /\ Queues'
         /\ \A j \in Call, d \in Conn : Waiting(j, d)' <=> Waiting(j, d) \/ (j = k /\ d = c)
<1>1. queue \in QueueType /\ queue' = With(queue, k, c)
  BY DEF TypeOK, QueueType, Queue, With
<1>2. Sorted(queue) /\ ~Is(queue, "destroyed", c) /\ (k = "sendInLoop" \/ ~Is(queue, k, c))
  BY QueuesAre
<1>3. /\ queue' \in QueueType /\ Sorted(queue')
      /\ \A j \in Call, d \in Conn : Is(queue', j, d) <=> Is(queue, j, d) \/ (j = k /\ d = c)
  BY <1>1, <1>2, QueuePut
<1> QED
  BY <1>3, QueuesAre, QueuesAreNext

LEMMA FunctorOK ==
  ASSUME TypeOK, Queues, NEW k \in Call, NEW c \in Conn, NEW l \in Loop,
         NextFunctor(l, k, c), queue' = [queue EXCEPT ![l] = Tail(@)]
  PROVE  /\ l = Home(k, c) /\ Waiting(k, c)
         /\ queue' \in QueueType /\ Queues'
         /\ \A j \in Call, d \in Conn : Waiting(j, d)' => Waiting(j, d)
         /\ \A j \in Call, d \in Conn : Waiting(j, d) => Waiting(j, d)' \/ (j = k /\ d = c)
         /\ k # "sendInLoop" => ~Waiting(k, c)'
         /\ k = "destroyed" => ~Waiting("sendInLoop", c)'
<1>1. queue \in QueueType /\ queue' = Without(queue, l)
  BY DEF TypeOK, QueueType, Without
<1>2. Sorted(queue) /\ queue[l] # <<>> /\ Head(queue[l]) = <<k, c>>
  BY QueuesAre DEF NextFunctor
<1>3. /\ l = Home(k, c) /\ Is(queue, k, c)
      /\ Without(queue, l) \in QueueType /\ Sorted(Without(queue, l))
      /\ \A j \in Call, d \in Conn : Is(Without(queue, l), j, d) => Is(queue, j, d)
      /\ \A j \in Call, d \in Conn : Is(queue, j, d) => Is(Without(queue, l), j, d) \/ (j = k /\ d = c)
      /\ k # "sendInLoop" => ~Is(Without(queue, l), k, c)
      /\ k = "destroyed" => ~Is(Without(queue, l), "sendInLoop", c)
  BY <1>1, <1>2, QueueTake
<1>4. /\ l = Home(k, c) /\ Is(queue, k, c)
      /\ queue' \in QueueType /\ Sorted(queue')
      /\ \A j \in Call, d \in Conn : Is(queue', j, d) => Is(queue, j, d)
      /\ \A j \in Call, d \in Conn : Is(queue, j, d) => Is(queue', j, d) \/ (j = k /\ d = c)
      /\ k # "sendInLoop" => ~Is(queue', k, c)
      /\ k = "destroyed" => ~Is(queue', "sendInLoop", c)
  BY <1>1, <1>3
<1> QED
  BY <1>4, QueuesAre, QueuesAreNext

-----------------------------------------------------------------------------
(* The invariant, connection by connection.                                *)

ClosedOut(c) == state[c] = "kDisconnected" => index[c] # "kAdded" /\ events[c] = {}

Awaited(c) == state[c] = "kConnected" => (backlog[c] <=> "out" \in events[c])

Good(c) == References(c) /\ Registered(c) /\ ClosedOut(c) /\ Awaited(c)

Inv == TypeOK /\ Queues /\ Threads /\ \A c \in Conn : Good(c)

LEMMA InvIs == IndInv <=> Inv
BY DEF IndInv, Inv, Good, ClosedForGood, ClosedOut, OutputIsAwaited, Awaited

LEMMA InvIsNext == IndInv' <=> Inv'
BY DEF IndInv, Inv, Good, ClosedForGood, ClosedOut, OutputIsAwaited, Awaited

\* What a step does not touch of a connection.
ChannelKept(c) ==
  /\ revents'[c] = revents[c] /\ events'[c] = events[c]
  /\ index'[c] = index[c] /\ (backlog'[c] <=> backlog[c])

EntriesKept(c) ==
  /\ Entered(c)' <=> Entered(c)
  /\ EnteredOnce(c)' <=> EnteredOnce(c)
  /\ c \in twice' <=> c \in twice

PlacesKept(c) ==
  /\ c \in connections' <=> c \in connections
  /\ EntriesKept(c)

ThreadKept(c) ==
  /\ Closing(c)' <=> Closing(c)
  /\ Closing(c) => pc'[LoopOf(c)] = pc[LoopOf(c)]

QueuedKept(c) == \A k \in Call : Waiting(k, c)' <=> Waiting(k, c)

Kept(c) ==
  state'[c] = state[c] /\ ChannelKept(c) /\ PlacesKept(c) /\ ThreadKept(c) /\ QueuedKept(c)

LEMMA KeptIsGood ==
  ASSUME NEW c \in Conn, Good(c), Kept(c)
  PROVE  Good(c)'
<1>1. /\ state'[c] = state[c]
      /\ revents'[c] = revents[c] /\ events'[c] = events[c]
      /\ index'[c] = index[c] /\ (backlog'[c] <=> backlog[c])
      /\ c \in connections' <=> c \in connections
      /\ Entered(c)' <=> Entered(c)
      /\ EnteredOnce(c)' <=> EnteredOnce(c)
      /\ c \in twice' <=> c \in twice
      /\ Closing(c)' <=> Closing(c)
      /\ Closing(c) => pc'[LoopOf(c)] = pc[LoopOf(c)]
  BY DEF Kept, ChannelKept, PlacesKept, EntriesKept, ThreadKept
<1>2. /\ Waiting("established", c)' <=> Waiting("established", c)
      /\ Waiting("sendInLoop", c)' <=> Waiting("sendInLoop", c)
      /\ Waiting("destroyed", c)' <=> Waiting("destroyed", c)
      /\ Waiting("remove", c)' <=> Waiting("remove", c)
  BY DEF Kept, QueuedKept, Call
<1>3. References(c)'
  <2>1. Open(c)' <=> Open(c)
    BY <1>1 DEF Open
  <2> QED
    BY <1>1, <1>2, <2>1 DEF Good, References
<1>4. Registered(c)'
  BY <1>1, <1>2 DEF Good, Registered
<1>5. ClosedOut(c)' /\ Awaited(c)'
  BY <1>1 DEF Good, ClosedOut, Awaited
<1> QED
  BY <1>3, <1>4, <1>5 DEF Good

LEMMA QueueStays ==
  ASSUME Queues, UNCHANGED queue
  PROVE  Queues' /\ \A c : QueuedKept(c)
BY DEF Queues, QueuedKept, Waiting

LEMMA ThreadsStay ==
  ASSUME UNCHANGED <<pc, cur>>
  PROVE  \A c : ThreadKept(c)
BY DEF ThreadKept, Closing

LEMMA AccountsStay ==
  ASSUME UNCHANGED <<userConnMap, twice>>
  PROVE  \A c : EntriesKept(c)
BY DEF EntriesKept, Entered, EnteredOnce

\* A connection that is open stays so while its thread does what it does.
LEMMA OpenStays ==
  ASSUME NEW c \in Conn, Open(c), ThreadKept(c), state[c] = "kConnected" => state'[c] = "kConnected"
  PROVE  Open(c)'
BY DEF Open, ThreadKept

LEMMA ThreadsKept ==
  ASSUME Threads, UNCHANGED <<mutex, pc, cur>>,
         \A c \in Conn : state[c] = "kConnected" => state'[c] = "kConnected"
  PROVE  Threads'
<1>1. \A l \in Sub : pc'[l] \in {"erase", "close"} => cur'[l] \in Conn /\ LoopOf(cur'[l]) = l
  BY DEF Threads
<1>2. ASSUME NEW t \in Sender, pc'[t] = "send"
      PROVE  mutex' = t /\ cur'[t] \in Conn /\ Open(cur[t])'
  <2>1. mutex' = t /\ cur[t] \in Conn /\ Open(cur[t])
    BY <1>2 DEF Threads
  <2>2. PICK c \in Conn : c = cur[t] /\ c = cur'[t]
    BY <2>1
  <2>3. Open(c)'
    BY <2>1, <2>2, ThreadsStay, OpenStays
  <2> QED
    BY <2>1, <2>2, <2>3 DEF Open, Closing
<1> QED
  BY <1>1, <1>2 DEF Threads

\* A loop that was between two callbacks closes nothing.
LEMMA IdleStays ==
  ASSUME TypeOK, NEW t \in Sender, pc[t] \notin {"erase", "close"},
         pc' \in [Sender -> {"idle", "erase", "close", "send"}],
         pc'[t] \notin {"erase", "close"},
         \A u \in Sender \ {t} : pc'[u] = pc[u] /\ cur'[u] = cur[u]
  PROVE  \A c \in Conn : ThreadKept(c)
<1> TAKE c \in Conn
<1>1. LoopOf(c) \in Sender
  BY Loops
<1> QED
  BY <1>1 DEF ThreadKept, Closing

LEMMA EventsSet ==
  ASSUME TypeOK, NEW c \in Conn, NEW ev \in SUBSET {"in", "out"}, SetEvents(c, ev)
  PROVE  /\ events' \in [Conn -> SUBSET {"in", "out"}]
         /\ index' \in [Conn -> {"kNew", "kAdded", "kDelete"}]
         /\ events'[c] = ev /\ index'[c] = IndexWith(c, ev)
         /\ \A d \in Conn \ {c} : events'[d] = events[d] /\ index'[d] = index[d]
<1>1. IndexWith(c, ev) \in {"kNew", "kAdded", "kDelete"}
  BY DEF IndexWith
<1> QED
  BY <1>1 DEF TypeOK, SetEvents

\* What sendInLoop does to an open connection, and that it leaves a closed one
\* alone.
LEMMA SendInLoopDoes ==
  ASSUME TypeOK, NEW c \in Conn, SendInLoop(c)
  PROVE  /\ events' \in [Conn -> SUBSET {"in", "out"}]
         /\ index' \in [Conn -> {"kNew", "kAdded", "kDelete"}]
         /\ backlog' \in [Conn -> BOOLEAN]
         /\ \A d \in Conn \ {c} : events'[d] = events[d] /\ index'[d] = index[d]
                                  /\ (backlog'[d] <=> backlog[d])
         /\ \/ events'[c] = events[c] /\ index'[c] = index[c] /\ (backlog'[c] <=> backlog[c])
            \/ /\ state[c] # "kDisconnected" /\ backlog'[c]
               /\ events'[c] = events[c] \cup {"out"} /\ index'[c] = "kAdded"
<1>1. CASE UNCHANGED <<events, index, backlog>>
  BY <1>1 DEF TypeOK
<1>2. CASE /\ Writable(c)
           /\ backlog' = [backlog EXCEPT ![c] = TRUE]
           /\ SetEvents(c, events[c] \cup {"out"})
  <2>1. events[c] \cup {"out"} \in SUBSET {"in", "out"}
    BY DEF TypeOK
  <2>2. /\ events' \in [Conn -> SUBSET {"in", "out"}]
        /\ index' \in [Conn -> {"kNew", "kAdded", "kDelete"}]
        /\ events'[c] = events[c] \cup {"out"}
        /\ index'[c] = IndexWith(c, events[c] \cup {"out"})
        /\ \A d \in Conn \ {c} : events'[d] = events[d] /\ index'[d] = index[d]
    BY <1>2, <2>1, EventsSet
  <2>3. index'[c] = "kAdded"
    BY <2>2 DEF IndexWith
  <2>4. /\ backlog' \in [Conn -> BOOLEAN] /\ backlog'[c]
        /\ \A d \in Conn \ {c} : backlog'[d] <=> backlog[d]
    BY <1>2 DEF TypeOK
  <2> QED
    BY <1>2, <2>2, <2>3, <2>4 DEF Writable
<1> QED
  BY <1>1, <1>2 DEF SendInLoop

\* The entries of a connection are fewer, or it is open; and it is entered once
\* more only if that is recorded.
EntriesFit(c) ==
  /\ Entered(c)' => Entered(c) \/ state[c] = "kConnected"
  /\ c \notin twice' => c \notin twice /\ EnteredOnce(c)'

LEMMA EntriesStay ==
  ASSUME NEW c \in Conn, References(c), EntriesKept(c)
  PROVE  EntriesFit(c)
BY DEF EntriesFit, EntriesKept, References

LEMMA ReferencesKept ==
  ASSUME NEW c \in Conn, References(c), state'[c] = state[c],
         c \in connections' <=> c \in connections,
         EntriesFit(c), ThreadKept(c), QueuedKept(c)
  PROVE  References(c)'
<1>1. /\ Waiting("established", c)' <=> Waiting("established", c)
      /\ Waiting("sendInLoop", c)' <=> Waiting("sendInLoop", c)
      /\ Waiting("destroyed", c)' <=> Waiting("destroyed", c)
      /\ Waiting("remove", c)' <=> Waiting("remove", c)
  BY DEF QueuedKept, Call
<1>2. Closing(c)' <=> Closing(c)
  BY DEF ThreadKept
<1>3. Open(c)' <=> Open(c)
  BY DEF ThreadKept, Open
<1>4. /\ Entered(c)' => Entered(c) \/ state[c] = "kConnected"
      /\ c \notin twice' => c \notin twice /\ EnteredOnce(c)'
  BY DEF EntriesFit
<1>5. state[c] = "kConnected" => Open(c)
  BY DEF Open
<1> QED
  BY <1>1, <1>2, <1>3, <1>4, <1>5 DEF References

-----------------------------------------------------------------------------
(* The server and the poller.                                              *)

LEMMA InitOK ==
  ASSUME Init
  PROVE  Inv
<1>1. \A l \in Loop : queue[l] = <<>> /\ Range(queue[l]) = {}
  BY DEF Init, Range
<1>2. Queues
  <2>1. InOrder(<<>>)
    BY DEF InOrder
  <2>2. \A l \in Loop : InOrder(queue[l])
    BY <1>1, <2>1
  <2> QED
    BY <1>1, <2>2 DEF Queues
<1>3. \A k \in Call, c \in Conn : ~Waiting(k, c)
  BY <1>1, Homes DEF Waiting
<1>4. Threads
  BY DEF Init, Threads, Sender
<1>5. TypeOK
  <2>1. queue \in [Loop -> Seq(Call \X Conn)]
    BY DEF Init
  <2>2. /\ state \in [Conn -> {"none", "kConnecting", "kConnected", "kDisconnected"}]
        /\ pc \in [Sender -> {"idle", "erase", "close", "send"}]
        /\ cur \in [Sender -> Conn \cup {Nobody}]
    BY DEF Init
  <2>3. /\ revents \in [Conn -> SUBSET {"in", "out", "hup"}]
        /\ events \in [Conn -> SUBSET {"in", "out"}]
        /\ index \in [Conn -> {"kNew", "kAdded", "kDelete"}]
        /\ backlog \in [Conn -> BOOLEAN]
    BY DEF Init
  <2>4. connections \in SUBSET Conn /\ userConnMap \in [User -> Conn \cup {Nobody}]
        /\ twice \in SUBSET Conn /\ mutex \in Sender \cup {Nobody} /\ sends \in Nat
    BY NetAssumption DEF Init
  <2> QED
    BY <2>1, <2>2, <2>3, <2>4 DEF TypeOK
<1>6. ASSUME NEW c \in Conn PROVE Good(c)
  <2>0. ~Entered(c)
    BY NetAssumption DEF Init, Entered, Conn
  <2>1. /\ state[c] = "none" /\ c \notin connections
        /\ revents[c] = {} /\ events[c] = {} /\ index[c] = "kNew" /\ ~backlog[c]
    BY DEF Init
  <2>2. ~Closing(c)
    BY Loops DEF Init, Closing
  <2>3. /\ ~Waiting("established", c) /\ ~Waiting("sendInLoop", c)
        /\ ~Waiting("destroyed", c) /\ ~Waiting("remove", c)
    BY <1>3 DEF Call
  <2>4. References(c)
    BY <2>0, <2>1, <2>2, <2>3 DEF References, Entered, EnteredOnce
  <2>5. Registered(c)
    BY <2>1 DEF Registered
  <2> QED
    BY <2>1, <2>4, <2>5 DEF Good, ClosedOut, Awaited
<1> QED
  BY <1>2, <1>4, <1>5, <1>6 DEF Inv

LEMMA NewConnectionOK ==
  ASSUME Inv, NEW c \in Conn, NewConnection(c)
  PROVE  Inv'
<1>1. TypeOK /\ Queues /\ Threads /\ \A d \in Conn : Good(d)
  BY DEF Inv
<1>2. /\ state[c] = "none" /\ state' = [state EXCEPT ![c] = "kConnecting"]
      /\ connections' = connections \cup {c}
      /\ Queue(LoopOf(c), "established", c)
      /\ UNCHANGED <<userConnMap, twice, mutex, pc, cur, revents, events, index, backlog, sends>>
  BY DEF NewConnection, accounts, thread, channel
<1>3. References(c) /\ Registered(c)
  BY <1>1 DEF Good
<1>4. /\ c \notin connections /\ ~Entered(c) /\ ~Closing(c)
      /\ ~Waiting("established", c) /\ ~Waiting("sendInLoop", c)
      /\ ~Waiting("destroyed", c) /\ ~Waiting("remove", c)
  BY <1>2, <1>3 DEF References
<1>5. /\ queue' \in QueueType /\ Queues'
      /\ \A j \in Call, d \in Conn :
           Waiting(j, d)' <=> Waiting(j, d) \/ (j = "established" /\ d = c)
  <2>1. "established" \in Call /\ LoopOf(c) = Home("established", c)
    BY DEF Call, Home
  <2> QED
    BY <1>1, <1>2, <1>4, <2>1, QueueOK
<1>6. TypeOK'
  <2>1. /\ state' \in [Conn -> {"none", "kConnecting", "kConnected", "kDisconnected"}]
        /\ connections' \in SUBSET Conn
    BY <1>1, <1>2 DEF TypeOK
  <2> QED
    BY <1>1, <1>2, <1>5, <2>1 DEF TypeOK, QueueType
<1>7. Threads'
  BY <1>1, <1>2, ThreadsKept DEF TypeOK
<1>8. ThreadKept(c) /\ EntriesKept(c) /\ state'[c] = "kConnecting"
  BY <1>1, <1>2, ThreadsStay, AccountsStay DEF TypeOK
<1>9. Good(c)'
  <2>1. /\ Waiting("established", c)' /\ ~Waiting("sendInLoop", c)'
        /\ ~Waiting("destroyed", c)' /\ ~Waiting("remove", c)'
    BY <1>4, <1>5 DEF Call
  <2>2. ~Closing(c)'
    BY <1>4, <1>8 DEF ThreadKept
  <2>3. References(c)'
    BY <1>2, <1>3, <1>4, <1>8, <2>1, <2>2 DEF References, EntriesKept
  <2>4. Registered(c)'
    BY <1>2, <1>3, <1>8 DEF Registered
  <2>5. ClosedOut(c)' /\ Awaited(c)'
    BY <1>8 DEF ClosedOut, Awaited
  <2> QED
    BY <2>3, <2>4, <2>5 DEF Good
<1>10. ASSUME NEW d \in Conn \ {c} PROVE Good(d)'
  <2>1. QueuedKept(d)
    BY <1>5 DEF QueuedKept
  <2>2. Kept(d)
    BY <1>1, <1>2, <2>1, ThreadsStay, AccountsStay DEF Kept, ChannelKept, PlacesKept, TypeOK
  <2> QED
    BY <1>1, <2>2, KeptIsGood
<1> QED
  BY <1>5, <1>6, <1>7, <1>9, <1>10 DEF Inv

LEMMA RemoveConnectionInLoopOK ==
  ASSUME Inv, NEW c \in Conn, RemoveConnectionInLoop(c)
  PROVE  Inv'
<1>1. TypeOK /\ Queues /\ Threads /\ \A d \in Conn : Good(d)
  BY DEF Inv
<1>2. /\ NextFunctor(Main, "remove", c)
      /\ connections' = connections \ {c}
      /\ queue' = [queue EXCEPT ![Main] = Tail(@), ![LoopOf(c)] = Append(@, <<"destroyed", c>>)]
      /\ UNCHANGED <<state, userConnMap, twice, mutex, pc, cur, revents, events, index, backlog, sends>>
  BY DEF RemoveConnectionInLoop, RemovedFrom, accounts, thread, channel
<1>3. References(c) /\ Registered(c) /\ ClosedOut(c)
  BY <1>1 DEF Good
<1> DEFINE Q == Without(queue, Main)
<1>4. /\ Is(queue, "remove", c)
      /\ Q \in QueueType /\ Sorted(Q)
      /\ \A j \in Call, d \in Conn : Is(Q, j, d) => Is(queue, j, d)
      /\ \A j \in Call, d \in Conn : Is(queue, j, d) => Is(Q, j, d) \/ (j = "remove" /\ d = c)
      /\ ~Is(Q, "remove", c)
  <2>1. queue \in QueueType /\ Sorted(queue) /\ Main \in Loop /\ "remove" \in Call
    BY <1>1, QueuesAre DEF TypeOK, QueueType, Loop, Call
  <2>2. queue[Main] # <<>> /\ Head(queue[Main]) = <<"remove", c>>
    BY <1>2 DEF NextFunctor
  <2> QED
    BY <2>1, <2>2, QueueTake
<1>5. /\ state[c] = "kDisconnected" /\ c \in connections /\ ~Closing(c)
      /\ ~Is(queue, "destroyed", c) /\ ~Is(queue, "established", c)
      /\ c \notin twice => ~Entered(c) /\ EnteredOnce(c)
  BY <1>3, <1>4, QueuesAre DEF References, Open
<1>6. ~Is(Q, "destroyed", c)
  BY <1>4, <1>5 DEF Call
<1>7. queue' = With(Q, "destroyed", c)
  <2>1. Home("destroyed", c) = LoopOf(c) /\ LoopOf(c) # Main /\ LoopOf(c) \in Loop /\ Main \in Loop
    BY Loops DEF Home, Loop
  <2>2. queue \in QueueType
    BY <1>1 DEF TypeOK, QueueType
  <2> QED
    BY <1>2, <2>1, <2>2 DEF With, Without, QueueType
<1>8. /\ queue' \in QueueType /\ Sorted(queue')
      /\ \A j \in Call, d \in Conn : Is(queue', j, d) <=> Is(Q, j, d) \/ (j = "destroyed" /\ d = c)
  <2>1. "destroyed" \in Call
    BY DEF Call
  <2>2. /\ With(Q, "destroyed", c) \in QueueType /\ Sorted(With(Q, "destroyed", c))
        /\ \A j \in Call, d \in Conn :
             Is(With(Q, "destroyed", c), j, d) <=> Is(Q, j, d) \/ (j = "destroyed" /\ d = c)
    BY <1>4, <1>6, <2>1, QueuePut
  <2> QED
    BY <1>7, <2>2
<1> HIDE DEF Q
<1>9. TypeOK' /\ Queues' /\ Threads'
  <2>1. connections' \in SUBSET Conn
    BY <1>1, <1>2 DEF TypeOK
  <2>2. TypeOK'
    BY <1>1, <1>2, <1>8, <2>1 DEF TypeOK, QueueType
  <2>3. Threads'
    BY <1>1, <1>2, ThreadsKept
  <2> QED
    BY <1>8, <2>2, <2>3, QueuesAreNext
<1>10. Good(c)'
  <2>1. /\ ~Waiting("established", c)' /\ ~Waiting("remove", c)' /\ Waiting("destroyed", c)'
    BY <1>4, <1>5, <1>8, QueuesAreNext DEF Call
  <2>2. ~Closing(c)'
    BY <1>2, <1>5, ThreadsStay DEF ThreadKept
  <2>3. /\ state'[c] = "kDisconnected" /\ c \notin connections'
        /\ c \notin twice' => ~Entered(c)' /\ EnteredOnce(c)'
    BY <1>2, <1>5, AccountsStay DEF EntriesKept
  <2>4. References(c)'
    BY <2>1, <2>2, <2>3 DEF References
  <2>5. Registered(c)'
    BY <1>2, <1>3, <2>1 DEF Registered
  <2>6. ClosedOut(c)' /\ Awaited(c)'
    BY <1>2, <1>3, <1>5 DEF ClosedOut, Awaited
  <2> QED
    BY <2>4, <2>5, <2>6 DEF Good
<1>11. ASSUME NEW d \in Conn \ {c} PROVE Good(d)'
  <2>1. QueuedKept(d)
    <3>1. \A k \in Call : Is(queue', k, d) <=> Is(queue, k, d)
      BY <1>4, <1>8
    <3> QED
      BY <3>1, QueuesAre, QueuesAreNext DEF QueuedKept
  <2>2. Kept(d)
    BY <1>1, <1>2, <2>1, ThreadsStay, AccountsStay DEF Kept, ChannelKept, PlacesKept, TypeOK
  <2> QED
    BY <1>1, <2>2, KeptIsGood
<1> QED
  BY <1>9, <1>10, <1>11 DEF Inv

LEMMA PollOK ==
  ASSUME Inv, NEW l \in Sub, Poll(l)
  PROVE  Inv'
<1>1. TypeOK /\ Queues /\ Threads /\ \A d \in Conn : Good(d)
  BY DEF Inv
<1>2. /\ \A c \in OnLoop(l) : revents'[c] \in Reportable(c)
      /\ \A c \in Conn \ OnLoop(l) : revents'[c] = revents[c]
      /\ revents' \in [Conn -> SUBSET {"in", "out", "hup"}]
      /\ UNCHANGED <<state, connections, userConnMap, twice, mutex, queue, pc, cur, events,
                     index, backlog, sends>>
  BY DEF Poll, accounts, thread
<1>3. TypeOK'
  BY <1>1, <1>2 DEF TypeOK
<1>4. Threads' /\ Queues'
  BY <1>1, <1>2, QueueStays, ThreadsKept
<1>5. ASSUME NEW c \in Conn PROVE Good(c)'
  <2>1. Good(c) /\ QueuedKept(c) /\ ThreadKept(c) /\ EntriesKept(c) /\ References(c)
    BY <1>1, <1>2, QueueStays, ThreadsStay, AccountsStay DEF Good
  <2>2. CASE c \notin OnLoop(l)
    <3>1. Kept(c)
      BY <1>2, <2>1, <2>2, AccountsStay DEF Kept, ChannelKept, PlacesKept
    <3> QED
      BY <2>1, <3>1, KeptIsGood
  <2>3. CASE c \in OnLoop(l)
    <3>1. \/ index[c] = "kAdded" /\ ~({"hup", "in"} \subseteq revents'[c])
          \/ revents'[c] = {}
      BY <1>2, <2>3 DEF Reportable
    <3>2. /\ Waiting("established", c)' <=> Waiting("established", c)
          /\ Waiting("sendInLoop", c)' <=> Waiting("sendInLoop", c)
          /\ Waiting("destroyed", c)' <=> Waiting("destroyed", c)
          /\ Waiting("remove", c)' <=> Waiting("remove", c)
          /\ Closing(c)' <=> Closing(c)
      BY <2>1 DEF QueuedKept, ThreadKept, Call
    <3>3. References(c)'
      BY <1>2, <2>1, EntriesStay, ReferencesKept
    <3>4. Registered(c)'
      BY <1>2, <2>1, <3>1, <3>2 DEF Good, Registered
    <3>5. ClosedOut(c)' /\ Awaited(c)'
      BY <1>2, <2>1 DEF Good, ClosedOut, Awaited
    <3> QED
      BY <3>3, <3>4, <3>5 DEF Good
  <2> QED
    BY <2>2, <2>3
<1> QED
  BY <1>3, <1>4, <1>5 DEF Inv

-----------------------------------------------------------------------------
(* The functors of a sub loop.                                             *)

\* A functor of c is taken from the queue of its loop; those of the others stay.
LEMMA FunctorTaken ==
  ASSUME Inv, NEW k \in Call, NEW c \in Conn, FunctorDue(c, k)
  PROVE  /\ Waiting(k, c) /\ revents[c] = {}
         /\ queue' \in QueueType /\ Queues'
         /\ \A j \in Call : Waiting(j, c)' => Waiting(j, c)
         /\ \A j \in Call : Waiting(j, c) => Waiting(j, c)' \/ j = k
         /\ k # "sendInLoop" => ~Waiting(k, c)'
         /\ k = "destroyed" => ~Waiting("sendInLoop", c)'
         /\ \A d \in Conn \ {c} : QueuedKept(d)
<1>1. TypeOK /\ Queues /\ LoopOf(c) \in Loop
  BY Loops DEF Inv
<1>2. NextFunctor(LoopOf(c), k, c) /\ queue' = [queue EXCEPT ![LoopOf(c)] = Tail(@)]
  BY DEF FunctorDue
<1>3. /\ Waiting(k, c)
      /\ queue' \in QueueType /\ Queues'
      /\ \A j \in Call, d \in Conn : Waiting(j, d)' => Waiting(j, d)
      /\ \A j \in Call, d \in Conn : Waiting(j, d) => Waiting(j, d)' \/ (j = k /\ d = c)
      /\ k # "sendInLoop" => ~Waiting(k, c)'
      /\ k = "destroyed" => ~Waiting("sendInLoop", c)'
  BY <1>1, <1>2, FunctorOK
<1>4. revents[c] = {}
  BY DEF FunctorDue, OnLoop
<1>5. \A d \in Conn \ {c} : QueuedKept(d)
  BY <1>3 DEF QueuedKept
<1> QED
  BY <1>3, <1>4, <1>5

LEMMA ConnectionEstablishedOK ==
  ASSUME Inv, NEW c \in Conn, ConnectionEstablished(c)
  PROVE  Inv'
<1>1. TypeOK /\ Queues /\ Threads /\ \A d \in Conn : Good(d)
  BY DEF Inv
<1>2. /\ FunctorDue(c, "established")
      /\ state' = [state EXCEPT ![c] = "kConnected"]
      /\ SetEvents(c, {"in"})
      /\ UNCHANGED <<connections, userConnMap, twice, mutex, pc, cur, revents, backlog, sends>>
  BY DEF ConnectionEstablished, accounts, thread
<1>3. /\ Waiting("established", c) /\ revents[c] = {}
      /\ queue' \in QueueType /\ Queues'
      /\ \A j \in Call : Waiting(j, c)' => Waiting(j, c)
      /\ ~Waiting("established", c)'
      /\ \A d \in Conn \ {c} : QueuedKept(d)
  BY <1>2, FunctorTaken DEF Call
<1>4. /\ events' \in [Conn -> SUBSET {"in", "out"}]
      /\ index' \in [Conn -> {"kNew", "kAdded", "kDelete"}]
      /\ events'[c] = {"in"} /\ index'[c] = IndexWith(c, {"in"})
      /\ \A d \in Conn \ {c} : events'[d] = events[d] /\ index'[d] = index[d]
  BY <1>1, <1>2, EventsSet
<1>5. TypeOK'
  <2>1. state' \in [Conn -> {"none", "kConnecting", "kConnected", "kDisconnected"}]
    BY <1>1, <1>2 DEF TypeOK
  <2> QED
    BY <1>1, <1>2, <1>3, <1>4, <2>1 DEF TypeOK, QueueType
<1>6. Threads'
  BY <1>1, <1>2, ThreadsKept DEF TypeOK
<1>7. /\ References(c) /\ Registered(c) /\ ThreadKept(c) /\ state'[c] = "kConnected"
      /\ EntriesKept(c)
      /\ state[c] = "kConnecting"
  BY <1>1, <1>2, <1>3, ThreadsStay, AccountsStay DEF Good, References, TypeOK
<1>8. Good(c)'
  <2>1. /\ ~Closing(c)' /\ ~Waiting("remove", c)' /\ ~Waiting("destroyed", c)'
        /\ c \in connections' /\ ~Entered(c)'
        /\ c \notin twice' => EnteredOnce(c)'
    BY <1>2, <1>3, <1>7 DEF References, ThreadKept, EntriesKept, Call
  <2>2. References(c)'
    BY <1>3, <1>7, <2>1 DEF References
  <2>3. index'[c] = "kAdded" /\ ~backlog'[c] /\ revents'[c] = {}
    BY <1>2, <1>3, <1>4, <1>7 DEF IndexWith, Registered
  <2>4. Registered(c)'
    BY <1>4, <1>7, <2>3 DEF Registered
  <2>5. ClosedOut(c)' /\ Awaited(c)'
    BY <1>4, <1>7, <2>3 DEF ClosedOut, Awaited
  <2> QED
    BY <2>2, <2>4, <2>5 DEF Good
<1>9. ASSUME NEW d \in Conn \ {c} PROVE Good(d)'
  <2>1. Kept(d)
    BY <1>1, <1>2, <1>3, <1>4, ThreadsStay, AccountsStay DEF Kept, ChannelKept, PlacesKept, TypeOK
  <2> QED
    BY <1>1, <2>1, KeptIsGood
<1> QED
  BY <1>3, <1>5, <1>6, <1>8, <1>9 DEF Inv

\* sendInLoop on a connection that has been established.
LEMMA SentIsGood ==
  ASSUME TypeOK, NEW c \in Conn, Good(c), SendInLoop(c),
         state[c] \in {"kConnected", "kDisconnected"},
         state'[c] = state[c], revents'[c] = revents[c], References(c)',
         c \in connections' <=> c \in connections,
         Waiting("destroyed", c)' <=> Waiting("destroyed", c)
  PROVE  Good(c)'
<1>1. \/ events'[c] = events[c] /\ index'[c] = index[c] /\ (backlog'[c] <=> backlog[c])
      \/ /\ state[c] # "kDisconnected" /\ backlog'[c]
         /\ events'[c] = events[c] \cup {"out"} /\ index'[c] = "kAdded"
  BY SendInLoopDoes
<1>2. Registered(c) /\ ClosedOut(c) /\ Awaited(c)
  BY DEF Good
<1>3. Registered(c)'
  BY <1>1, <1>2 DEF Registered
<1>4. ClosedOut(c)'
  BY <1>1, <1>2 DEF ClosedOut
<1>5. Awaited(c)'
  BY <1>1, <1>2 DEF Awaited
<1> QED
  BY <1>3, <1>4, <1>5 DEF Good

LEMMA SendQueuedOK ==
  ASSUME Inv, NEW c \in Conn, SendQueued(c)
  PROVE  Inv'
<1>1. TypeOK /\ Queues /\ Threads /\ \A d \in Conn : Good(d)
  BY DEF Inv
<1>2. /\ FunctorDue(c, "sendInLoop") /\ SendInLoop(c)
      /\ UNCHANGED <<state, connections, userConnMap, twice, mutex, pc, cur, revents, sends>>
  BY DEF SendQueued, accounts, thread
<1>3. /\ Waiting("sendInLoop", c)
      /\ queue' \in QueueType /\ Queues'
      /\ \A j \in Call : Waiting(j, c)' => Waiting(j, c)
      /\ \A j \in Call : Waiting(j, c) => Waiting(j, c)' \/ j = "sendInLoop"
      /\ \A d \in Conn \ {c} : QueuedKept(d)
  BY <1>2, FunctorTaken DEF Call
<1>4. /\ events' \in [Conn -> SUBSET {"in", "out"}]
      /\ index' \in [Conn -> {"kNew", "kAdded", "kDelete"}]
      /\ backlog' \in [Conn -> BOOLEAN]
      /\ \A d \in Conn \ {c} : events'[d] = events[d] /\ index'[d] = index[d]
                               /\ (backlog'[d] <=> backlog[d])
  BY <1>1, <1>2, SendInLoopDoes
<1>5. TypeOK'
  BY <1>1, <1>2, <1>3, <1>4 DEF TypeOK, QueueType
<1>6. Threads'
  BY <1>1, <1>2, ThreadsKept
<1>7. Good(c)'
  <2>1. /\ Waiting("established", c)' <=> Waiting("established", c)
        /\ Waiting("destroyed", c)' <=> Waiting("destroyed", c)
        /\ Waiting("remove", c)' <=> Waiting("remove", c)
    BY <1>3 DEF Call
  <2>2. Good(c) /\ ThreadKept(c) /\ References(c)
    BY <1>1, <1>2, ThreadsStay DEF Good
  <2>3. References(c)'
    <3>1. EntriesKept(c) /\ (Open(c)' <=> Open(c))
      BY <1>2, AccountsStay DEF Open, Closing
    <3> QED
      BY <1>2, <1>3, <2>1, <2>2, <3>1 DEF References, ThreadKept, EntriesKept
  <2>4. state[c] \in {"kConnected", "kDisconnected"}
    BY <1>3, <2>2 DEF References
  <2> QED
    BY <1>1, <1>2, <2>1, <2>2, <2>3, <2>4, SentIsGood
<1>8. ASSUME NEW d \in Conn \ {c} PROVE Good(d)'
  <2>1. Kept(d)
    BY <1>2, <1>3, <1>4, ThreadsStay, AccountsStay DEF Kept, ChannelKept, PlacesKept
  <2> QED
    BY <1>1, <2>1, KeptIsGood
<1> QED
  BY <1>3, <1>5, <1>6, <1>7, <1>8 DEF Inv

LEMMA ConnectionDestroyedOK ==
  ASSUME Inv, NEW c \in Conn, ConnectionDestroyed(c)
  PROVE  Inv'
<1>1. TypeOK /\ Queues /\ Threads /\ \A d \in Conn : Good(d)
  BY DEF Inv
<1>2. /\ FunctorDue(c, "destroyed")
      /\ index' = [index EXCEPT ![c] = "kNew"]
      /\ UNCHANGED <<state, connections, userConnMap, twice, mutex, pc, cur, revents,
                     events, backlog, sends>>
  BY DEF ConnectionDestroyed, accounts, thread
<1>3. /\ Waiting("destroyed", c) /\ revents[c] = {}
      /\ queue' \in QueueType /\ Queues'
      /\ \A j \in Call : Waiting(j, c)' => Waiting(j, c)
      /\ \A j \in Call : Waiting(j, c) => Waiting(j, c)' \/ j = "destroyed"
      /\ ~Waiting("destroyed", c)' /\ ~Waiting("sendInLoop", c)'
      /\ \A d \in Conn \ {c} : QueuedKept(d)
  BY <1>2, FunctorTaken DEF Call
<1>4. TypeOK'
  <2>1. index' \in [Conn -> {"kNew", "kAdded", "kDelete"}]
    BY <1>1, <1>2 DEF TypeOK
  <2> QED
    BY <1>1, <1>2, <1>3, <2>1 DEF TypeOK, QueueType
<1>5. Threads'
  BY <1>1, <1>2, ThreadsKept
<1>6. Good(c)'
  <2>1. /\ Waiting("established", c)' <=> Waiting("established", c)
        /\ Waiting("remove", c)' <=> Waiting("remove", c)
    BY <1>3 DEF Call
  <2>2. Good(c) /\ ThreadKept(c) /\ References(c)
    BY <1>1, <1>2, ThreadsStay DEF Good
  <2>3. state[c] = "kDisconnected" /\ c \notin connections
    BY <1>3, <2>2 DEF References
  <2>4. References(c)'
    <3>1. EntriesKept(c) /\ (Open(c)' <=> Open(c))
      BY <1>2, AccountsStay DEF Open, Closing
    <3> QED
      BY <1>2, <1>3, <2>1, <2>2, <2>3, <3>1 DEF References, ThreadKept, EntriesKept
  <2>5. index'[c] = "kNew"
    BY <1>1, <1>2 DEF TypeOK
  <2>6. Registered(c)'
    BY <1>2, <1>3, <2>3, <2>5 DEF Registered
  <2>7. ClosedOut(c)' /\ Awaited(c)'
    BY <1>2, <2>2, <2>3, <2>5 DEF Good, ClosedOut, Awaited
  <2> QED
    BY <2>4, <2>6, <2>7 DEF Good
<1>7. ASSUME NEW d \in Conn \ {c} PROVE Good(d)'
  <2>1. Kept(d)
    BY <1>1, <1>2, <1>3, ThreadsStay, AccountsStay DEF Kept, ChannelKept, PlacesKept, TypeOK
  <2> QED
    BY <1>1, <2>1, KeptIsGood
<1> QED
  BY <1>3, <1>4, <1>5, <1>6, <1>7 DEF Inv

-----------------------------------------------------------------------------
(* The events of a sub loop.                                               *)

LEMMA EventTaken ==
  ASSUME TypeOK, NEW c \in Conn, NEW e, Handled(c, e)
  PROVE  /\ revents' \in [Conn -> SUBSET {"in", "out", "hup"}]
         /\ revents'[c] = revents[c] \ {e}
         /\ \A d \in Conn \ {c} : revents'[d] = revents[d]
BY DEF TypeOK, Handled

\* Only an open connection has input, or hangs up.
LEMMA OpenWhenHeard ==
  ASSUME Inv, NEW c \in Conn, NEW e \in {"in", "hup"}, e \in revents[c]
  PROVE  state[c] = "kConnected"
<1>1. Registered(c) /\ state[c] \in {"none", "kConnecting", "kConnected", "kDisconnected"}
  BY DEF Inv, Good, TypeOK
<1> QED
  BY <1>1 DEF Registered

\* An event that was handled, and nothing else about the channel.
LEMMA HandledIsGood ==
  ASSUME NEW c \in Conn, Good(c), state'[c] = state[c], revents'[c] \subseteq revents[c],
         events'[c] = events[c], index'[c] = index[c], backlog'[c] <=> backlog[c],
         c \in connections' <=> c \in connections, QueuedKept(c), References(c)'
  PROVE  Good(c)'
<1>1. Registered(c) /\ ClosedOut(c) /\ Awaited(c)
  BY DEF Good
<1>2. Waiting("destroyed", c)' <=> Waiting("destroyed", c)
  BY DEF QueuedKept, Call
<1>3. Registered(c)'
  BY <1>1, <1>2 DEF Registered
<1>4. ClosedOut(c)' /\ Awaited(c)'
  BY <1>1 DEF ClosedOut, Awaited
<1> QED
  BY <1>3, <1>4 DEF Good

LEMMA HandlerWriteOK ==
  ASSUME Inv, NEW c \in Conn, HandlerWrite(c)
  PROVE  Inv'
<1>1. TypeOK /\ Queues /\ Threads /\ \A d \in Conn : Good(d)
  BY DEF Inv
<1>2. /\ "out" \in revents[c] /\ Handled(c, "out")
      /\ UNCHANGED <<state, connections, userConnMap, twice, mutex, queue, pc, cur, sends>>
  BY DEF HandlerWrite, Due, accounts, thread
<1>3. /\ revents' \in [Conn -> SUBSET {"in", "out", "hup"}]
      /\ revents'[c] = revents[c] \ {"out"}
      /\ \A d \in Conn \ {c} : revents'[d] = revents[d]
  BY <1>1, <1>2, EventTaken
<1>4. Queues' /\ Threads' /\ \A d \in Conn : QueuedKept(d) /\ ThreadKept(d)
  BY <1>1, <1>2, QueueStays, ThreadsStay, ThreadsKept
<1>5. Good(c) /\ References(c)' /\ Registered(c) /\ ClosedOut(c)
  <2>1. Good(c) /\ References(c)
    BY <1>1 DEF Good
  <2>2. References(c)'
    BY <1>2, <1>4, <2>1, AccountsStay, EntriesStay, ReferencesKept
  <2> QED
    BY <2>1, <2>2 DEF Good
<1>6. CASE UNCHANGED <<events, index, backlog>>
  <2>1. TypeOK'
    BY <1>1, <1>2, <1>3, <1>6 DEF TypeOK
  <2>2. Good(c)'
    BY <1>2, <1>3, <1>4, <1>5, <1>6, HandledIsGood
  <2>3. ASSUME NEW d \in Conn \ {c} PROVE Good(d)'
    <3>1. Kept(d)
      BY <1>2, <1>3, <1>4, <1>6, AccountsStay DEF Kept, ChannelKept, PlacesKept
    <3> QED
      BY <1>1, <3>1, KeptIsGood
  <2> QED
    BY <1>4, <2>1, <2>2, <2>3 DEF Inv
<1>7. CASE /\ "out" \in events[c]
           /\ backlog' = [backlog EXCEPT ![c] = FALSE]
           /\ SetEvents(c, events[c] \ {"out"})
  <2>1. events[c] \ {"out"} \in SUBSET {"in", "out"}
    BY <1>1 DEF TypeOK
  <2>2. /\ events' \in [Conn -> SUBSET {"in", "out"}]
        /\ index' \in [Conn -> {"kNew", "kAdded", "kDelete"}]
        /\ events'[c] = events[c] \ {"out"} /\ index'[c] = IndexWith(c, events[c] \ {"out"})
        /\ \A d \in Conn \ {c} : events'[d] = events[d] /\ index'[d] = index[d]
    BY <1>1, <1>7, <2>1, EventsSet
  <2>3. /\ backlog' \in [Conn -> BOOLEAN] /\ ~backlog'[c]
        /\ \A d \in Conn \ {c} : backlog'[d] <=> backlog[d]
    BY <1>1, <1>7 DEF TypeOK
  <2>4. TypeOK'
    BY <1>1, <1>2, <1>3, <2>2, <2>3 DEF TypeOK
  <2>5. state[c] = "kConnected" /\ index[c] = "kAdded" /\ "in" \in events[c]
    <3>1. state[c] \in {"none", "kConnecting", "kConnected", "kDisconnected"}
      BY <1>1 DEF TypeOK
    <3>2. index[c] # "kNew" /\ events[c] # {}
      BY <1>2, <1>5, <1>7 DEF Registered
    <3>3. state[c] = "kConnected"
      BY <1>5, <3>1, <3>2 DEF Registered, ClosedOut
    <3> QED
      BY <1>5, <3>3 DEF Registered
  <2>6. index'[c] = "kAdded" /\ "in" \in events'[c] /\ "out" \notin events'[c]
    BY <2>2, <2>5 DEF IndexWith
  <2>7. Good(c)'
    <3>1. state'[c] = "kConnected"
      BY <1>2, <2>5
    <3>2. Registered(c)'
      BY <1>3, <1>5, <2>6, <3>1 DEF Registered
    <3>3. ClosedOut(c)' /\ Awaited(c)'
      BY <2>3, <2>6, <3>1 DEF ClosedOut, Awaited
    <3> QED
      BY <1>5, <3>2, <3>3 DEF Good
  <2>8. ASSUME NEW d \in Conn \ {c} PROVE Good(d)'
    <3>1. Kept(d)
      BY <1>2, <1>3, <1>4, <2>2, <2>3, AccountsStay DEF Kept, ChannelKept, PlacesKept
    <3> QED
      BY <1>1, <3>1, KeptIsGood
  <2> QED
    BY <1>4, <2>4, <2>7, <2>8 DEF Inv
<1> QED
  BY <1>6, <1>7 DEF HandlerWrite

\* The entry of an account is erased, whichever connection it holds.
LEMMA EraseFits ==
  ASSUME TypeOK, \A d \in Conn : Good(d), NEW u \in User,
         userConnMap' = EraseEntry(u), UNCHANGED twice
  PROVE  /\ userConnMap' \in [User -> Conn \cup {Nobody}]
         /\ \A d \in Conn : EntriesFit(d)
         /\ \A v \in User : userConnMap'[v] \in Conn => v # u /\ userConnMap'[v] = userConnMap[v]
<1>1. userConnMap \in [User -> Conn \cup {Nobody}] /\ Nobody \notin Conn
  BY NetAssumption DEF TypeOK, Conn
<1>2. /\ userConnMap' \in [User -> Conn \cup {Nobody}]
      /\ \A v \in User : userConnMap'[v] \in Conn => v # u /\ userConnMap'[v] = userConnMap[v]
  BY <1>1 DEF EraseEntry
<1>3. ASSUME NEW d \in Conn PROVE EntriesFit(d)
  <2>1. d \notin twice => EnteredOnce(d)
    BY DEF Good, References
  <2>2. Entered(d)' => Entered(d)
    BY <1>2 DEF Entered
  <2>3. EnteredOnce(d) => EnteredOnce(d)'
    BY <1>2 DEF EnteredOnce
  <2> QED
    BY <2>1, <2>2, <2>3 DEF EntriesFit
<1> QED
  BY <1>2, <1>3

\* A connection that is open is entered for an account that has no entry; that it
\* had one already is recorded.
LEMMA InsertFits ==
  ASSUME TypeOK, \A d \in Conn : Good(d), NEW u \in User, NEW c \in Conn,
         state[c] = "kConnected", userConnMap' = InsertEntry(u, c),
         twice' = twice \cup {d \in {c} : userConnMap[u] = Nobody /\ Entered(d)}
  PROVE  /\ userConnMap' \in [User -> Conn \cup {Nobody}] /\ twice' \in SUBSET Conn
         /\ \A d \in Conn : EntriesFit(d)
<1>1. userConnMap \in [User -> Conn \cup {Nobody}] /\ Nobody \notin Conn /\ twice \in SUBSET Conn
  BY NetAssumption DEF TypeOK, Conn
<1>2. /\ userConnMap' \in [User -> Conn \cup {Nobody}] /\ twice' \in SUBSET Conn
      /\ \A v \in User : \/ userConnMap'[v] = userConnMap[v]
                         \/ v = u /\ userConnMap[u] = Nobody /\ userConnMap'[v] = c
  BY <1>1 DEF InsertEntry
<1>3. ASSUME NEW d \in Conn PROVE EntriesFit(d)
  <2>1. d \notin twice => EnteredOnce(d)
    BY DEF Good, References
  <2>2. Entered(d)' => Entered(d) \/ state[d] = "kConnected"
    BY <1>2 DEF Entered
  <2>3. ASSUME d \notin twice' PROVE d \notin twice /\ EnteredOnce(d)'
    <3>1. d \notin twice /\ EnteredOnce(d)
      BY <2>1, <2>3
    <3>2. d = c /\ userConnMap[u] = Nobody => ~Entered(d)
      BY <2>3
    <3>3. EnteredOnce(d)'
      <4>1. CASE d = c /\ userConnMap[u] = Nobody
        BY <1>2, <3>2, <4>1 DEF EnteredOnce, Entered
      <4>2. CASE d # c \/ userConnMap[u] # Nobody
        BY <1>2, <3>1, <4>2 DEF EnteredOnce
      <4> QED
        BY <4>1, <4>2
    <3> QED
      BY <3>1, <3>3
  <2> QED
    BY <2>2, <2>3 DEF EntriesFit
<1> QED
  BY <1>2, <1>3

\* A request that changes at most one entry.
LEMMA RequestOK ==
  ASSUME Inv, NEW c \in Conn, "in" \in revents[c], Handled(c, "in"),
         userConnMap' \in [User -> Conn \cup {Nobody}], twice' \in SUBSET Conn,
         \A d \in Conn : EntriesFit(d),
         UNCHANGED <<state, connections, mutex, queue, pc, cur, events, index, backlog, sends>>
  PROVE  Inv'
<1>1. TypeOK /\ Queues /\ Threads /\ \A d \in Conn : Good(d)
  BY DEF Inv
<1>2. /\ revents' \in [Conn -> SUBSET {"in", "out", "hup"}]
      /\ \A d \in Conn : revents'[d] \subseteq revents[d]
  BY <1>1, EventTaken
<1>3. Queues' /\ Threads' /\ \A d \in Conn : QueuedKept(d) /\ ThreadKept(d)
  BY <1>1, QueueStays, ThreadsStay, ThreadsKept
<1>4. TypeOK'
  BY <1>1, <1>2 DEF TypeOK
<1>5. ASSUME NEW d \in Conn PROVE Good(d)'
  <2>1. Good(d) /\ References(d)
    BY <1>1 DEF Good
  <2>2. References(d)'
    BY <1>3, <2>1, ReferencesKept
  <2> QED
    BY <1>2, <1>3, <2>1, <2>2, HandledIsGood
<1> QED
  BY <1>3, <1>4, <1>5 DEF Inv

LEMMA RequestsOK ==
  ASSUME Inv, NEW c \in Conn, Login(c) \/ Loginout(c) \/ Nothing(c)
  PROVE  Inv'
<1>1. /\ "in" \in revents[c] /\ Handled(c, "in")
      /\ UNCHANGED <<state, connections, mutex, queue, pc, cur, events, index, backlog, sends>>
  BY DEF Login, Loginout, Nothing, Due, thread, accounts
<1>2. TypeOK /\ \A d \in Conn : Good(d)
  BY DEF Inv
<1>3. twice \in SUBSET Conn /\ userConnMap \in [User -> Conn \cup {Nobody}] /\ Names[c] \subseteq User
  BY <1>2, NetAssumption DEF TypeOK, Conn
<1>4. CASE Login(c)
  <2>1. PICK u \in User :
          /\ userConnMap' = InsertEntry(u, c)
          /\ twice' = twice \cup {d \in {c} : userConnMap[u] = Nobody /\ Entered(d)}
    BY <1>3, <1>4 DEF Login
  <2>2. state[c] = "kConnected"
    BY <1>1, OpenWhenHeard
  <2>3. /\ userConnMap' \in [User -> Conn \cup {Nobody}] /\ twice' \in SUBSET Conn
        /\ \A d \in Conn : EntriesFit(d)
    BY <1>2, <2>1, <2>2, InsertFits
  <2> QED
    BY <1>1, <2>3, RequestOK
<1>5. CASE Loginout(c)
  <2>1. PICK u \in User : userConnMap' = EraseEntry(u) /\ UNCHANGED twice
    BY <1>3, <1>5 DEF Loginout
  <2>2. userConnMap' \in [User -> Conn \cup {Nobody}] /\ \A d \in Conn : EntriesFit(d)
    BY <1>2, <2>1, EraseFits
  <2> QED
    BY <1>1, <1>3, <2>1, <2>2, RequestOK
<1>6. CASE Nothing(c)
  <2>1. UNCHANGED <<userConnMap, twice>>
    BY <1>6 DEF Nothing, accounts
  <2>2. \A d \in Conn : EntriesFit(d)
    BY <1>2, <2>1, AccountsStay, EntriesStay DEF Good
  <2> QED
    BY <1>1, <1>3, <2>1, <2>2, RequestOK
<1> QED
  BY <1>4, <1>5, <1>6

-----------------------------------------------------------------------------
(* Sending.                                                                *)

\* A thread that holds _mutex is the only one that sends.
LEMMA FindDoes ==
  ASSUME Inv, NEW t \in Sender, pc[t] = "idle", Find(t), UNCHANGED state
  PROVE  /\ mutex' \in Sender \cup {Nobody} /\ sends' \in Nat
         /\ pc' \in [Sender -> {"idle", "erase", "close", "send"}]
         /\ cur' \in [Sender -> Conn \cup {Nobody}]
         /\ Threads'
         /\ \A c \in Conn : ThreadKept(c)
<1>1. TypeOK /\ Threads
  BY DEF Inv
<1>2. PICK d \in Conn :
        /\ state[d] = "kConnected" /\ sends > 0 /\ sends' = sends - 1
        /\ mutex = Nobody /\ mutex' = t
        /\ pc' = [pc EXCEPT ![t] = "send"]
        /\ cur' = [cur EXCEPT ![t] = d]
  BY DEF Find, MutexFree
<1>3. Open(d)'
  BY <1>2 DEF Open
<1>4. sends' \in Nat
  BY <1>1, <1>2 DEF TypeOK
<1>5. /\ pc' \in [Sender -> {"idle", "erase", "close", "send"}]
      /\ cur' \in [Sender -> Conn \cup {Nobody}]
      /\ pc'[t] = "send" /\ cur'[t] = d
      /\ \A u \in Sender \ {t} : pc'[u] = pc[u] /\ cur'[u] = cur[u]
  BY <1>1, <1>2 DEF TypeOK
<1>6. \A u \in Sender : pc[u] # "send"
  BY <1>1, <1>2, NetAssumption DEF Threads, Sender, Sub
<1>7. Threads'
  <2>1. ASSUME NEW l \in Sub, pc'[l] \in {"erase", "close"}
        PROVE  cur'[l] \in Conn /\ LoopOf(cur'[l]) = l
    <3>1. l \in Sender \ {t}
      BY <1>5, <2>1 DEF Sender
    <3> QED
      BY <1>1, <1>5, <2>1, <3>1 DEF Threads
  <2>2. ASSUME NEW u \in Sender, pc'[u] = "send"
        PROVE  mutex' = u /\ cur'[u] \in Conn /\ Open(cur[u])'
    BY <1>2, <1>3, <1>5, <1>6, <2>2 DEF Open, Closing
  <2> QED
    BY <2>1, <2>2 DEF Threads
<1>8. \A c \in Conn : ThreadKept(c)
  BY <1>1, <1>5, IdleStays
<1> QED
  BY <1>2, <1>4, <1>5, <1>7, <1>8

LEMMA FindOK ==
  ASSUME Inv, NEW t \in Sender, pc[t] = "idle", Find(t),
         revents' \in [Conn -> SUBSET {"in", "out", "hup"}],
         \A c \in Conn : revents'[c] \subseteq revents[c],
         UNCHANGED <<state, connections, userConnMap, twice, queue, events, index, backlog>>
  PROVE  Inv'
<1>1. TypeOK /\ Queues /\ \A d \in Conn : Good(d)
  BY DEF Inv
<1>2. /\ mutex' \in Sender \cup {Nobody} /\ sends' \in Nat
      /\ pc' \in [Sender -> {"idle", "erase", "close", "send"}]
      /\ cur' \in [Sender -> Conn \cup {Nobody}]
      /\ Threads'
      /\ \A c \in Conn : ThreadKept(c)
  BY FindDoes
<1>3. Queues' /\ \A d \in Conn : QueuedKept(d)
  BY <1>1, QueueStays
<1>4. TypeOK'
  BY <1>1, <1>2 DEF TypeOK
<1>5. ASSUME NEW c \in Conn PROVE Good(c)'
  <2>1. Good(c) /\ References(c) /\ ThreadKept(c) /\ QueuedKept(c)
    BY <1>1, <1>2, <1>3 DEF Good
  <2>2. References(c)'
    BY <2>1, AccountsStay, EntriesStay, ReferencesKept
  <2> QED
    BY <2>1, <2>2, HandledIsGood
<1> QED
  BY <1>2, <1>3, <1>4, <1>5 DEF Inv

LEMMA ChatOK ==
  ASSUME Inv, NEW c \in Conn, Chat(c)
  PROVE  Inv'
<1>1. LoopOf(c) \in Sender /\ pc[LoopOf(c)] = "idle" /\ Find(LoopOf(c)) /\ Handled(c, "in")
      /\ UNCHANGED <<state, connections, userConnMap, twice, queue, events, index, backlog>>
  BY Loops DEF Chat, Due, Idle, accounts
<1>2. /\ revents' \in [Conn -> SUBSET {"in", "out", "hup"}]
      /\ revents'[c] = revents[c] \ {"in"}
      /\ \A d \in Conn \ {c} : revents'[d] = revents[d]
  BY <1>1, EventTaken DEF Inv
<1>3. \A d \in Conn : revents'[d] \subseteq revents[d]
  BY <1>2
<1> QED
  BY <1>1, <1>2, <1>3, FindOK

LEMMA ObserveOK ==
  ASSUME Inv, Observe
  PROVE  Inv'
<1>1. Observer \in Sender /\ pc[Observer] = "idle" /\ Find(Observer)
      /\ UNCHANGED <<state, connections, userConnMap, twice, queue, revents, events, index, backlog>>
  BY DEF Observe, Sender, accounts, channel
<1>2. /\ revents' \in [Conn -> SUBSET {"in", "out", "hup"}]
      /\ \A d \in Conn : revents'[d] \subseteq revents[d]
  BY <1>1 DEF Inv, TypeOK
<1> QED
  BY <1>1, <1>2, FindOK

\* What a thread about to send holds, and how it goes on.
LEMMA SendDoes ==
  ASSUME Inv, NEW t \in Sender, Send(t)
  PROVE  /\ cur[t] \in Conn
         /\ state[cur[t]] \in {"kConnected", "kDisconnected"} /\ cur[t] \in connections
         /\ ~Waiting("destroyed", cur[t])
         /\ mutex' = Nobody
         /\ pc' \in [Sender -> {"idle", "erase", "close", "send"}]
         /\ cur' \in [Sender -> Conn \cup {Nobody}]
         /\ Threads'
         /\ \A c \in Conn : ThreadKept(c)
         /\ UNCHANGED <<state, connections, userConnMap, twice, revents, sends>>
<1>1. TypeOK /\ Threads /\ \A c \in Conn : Good(c)
  BY DEF Inv
<1>2. /\ pc[t] = "send" /\ mutex' = Nobody
      /\ pc' = [pc EXCEPT ![t] = "idle"]
      /\ cur' = [cur EXCEPT ![t] = Nobody]
      /\ UNCHANGED <<state, connections, userConnMap, twice, revents, sends>>
  BY DEF Send, accounts
<1>3. mutex = t /\ cur[t] \in Conn /\ Open(cur[t])
  BY <1>1, <1>2 DEF Threads
<1>4. References(cur[t])
  BY <1>1, <1>3 DEF Good
<1>5. state[cur[t]] \in {"kConnected", "kDisconnected"} /\ cur[t] \in connections
  BY <1>3, <1>4 DEF References, Open
<1>6. ~Waiting("destroyed", cur[t])
  BY <1>4, <1>5 DEF References
<1>7. /\ pc' \in [Sender -> {"idle", "erase", "close", "send"}]
      /\ cur' \in [Sender -> Conn \cup {Nobody}]
      /\ pc'[t] = "idle"
      /\ \A u \in Sender \ {t} : pc'[u] = pc[u] /\ cur'[u] = cur[u]
  BY <1>1, <1>2 DEF TypeOK
<1>8. Threads'
  <2>1. ASSUME NEW l \in Sub, pc'[l] \in {"erase", "close"}
        PROVE  cur'[l] \in Conn /\ LoopOf(cur'[l]) = l
    <3>1. l \in Sender \ {t}
      BY <1>7, <2>1 DEF Sender
    <3> QED
      BY <1>1, <1>7, <2>1, <3>1 DEF Threads
  <2>2. \A u \in Sender : pc'[u] # "send"
    BY <1>1, <1>3, <1>7 DEF Threads
  <2> QED
    BY <2>1, <2>2 DEF Threads
<1>9. \A c \in Conn : ThreadKept(c)
  BY <1>1, <1>2, <1>7, IdleStays
<1> QED
  BY <1>2, <1>3, <1>5, <1>6, <1>7, <1>8, <1>9

LEMMA SendOK ==
  ASSUME Inv, NEW t \in Sender, Send(t)
  PROVE  Inv'
<1>0. PICK c \in Conn : c = cur[t]
  BY SendDoes
<1>1. TypeOK /\ Queues /\ \A d \in Conn : Good(d)
  BY DEF Inv
<1>2. /\ c \in Conn
      /\ state[c] \in {"kConnected", "kDisconnected"} /\ c \in connections
      /\ ~Waiting("destroyed", c)
      /\ mutex' = Nobody
      /\ pc' \in [Sender -> {"idle", "erase", "close", "send"}]
      /\ cur' \in [Sender -> Conn \cup {Nobody}]
      /\ Threads'
      /\ \A d \in Conn : ThreadKept(d)
      /\ UNCHANGED <<state, connections, userConnMap, twice, revents, sends>>
  BY <1>0, SendDoes
<1>3. \/ SendInLoop(c) /\ UNCHANGED queue
      \/ Queue(LoopOf(c), "sendInLoop", c) /\ UNCHANGED <<events, index, backlog>>
  BY <1>0 DEF Send
<1>4. CASE SendInLoop(c) /\ UNCHANGED queue
  <2>1. /\ events' \in [Conn -> SUBSET {"in", "out"}]
        /\ index' \in [Conn -> {"kNew", "kAdded", "kDelete"}]
        /\ backlog' \in [Conn -> BOOLEAN]
        /\ \A d \in Conn \ {c} : events'[d] = events[d] /\ index'[d] = index[d]
                                 /\ (backlog'[d] <=> backlog[d])
    BY <1>1, <1>2, <1>4, SendInLoopDoes
  <2>2. TypeOK'
    BY <1>1, <1>2, <1>4, <2>1 DEF TypeOK
  <2>3. Queues' /\ \A d : QueuedKept(d)
    BY <1>1, <1>4, QueueStays
  <2>4. Good(c)'
    <3>1. Good(c) /\ References(c)
      BY <1>1, <1>2 DEF Good
    <3>2. References(c)'
      BY <1>2, <2>3, <3>1, AccountsStay, EntriesStay, ReferencesKept
    <3>3. Waiting("destroyed", c)' <=> Waiting("destroyed", c)
      BY <2>3 DEF QueuedKept, Call
    <3> QED
      BY <1>1, <1>2, <1>4, <3>1, <3>2, <3>3, SentIsGood
  <2>5. ASSUME NEW d \in Conn \ {c} PROVE Good(d)'
    <3>1. Kept(d)
      BY <1>2, <2>1, <2>3, AccountsStay DEF Kept, ChannelKept, PlacesKept
    <3> QED
      BY <1>1, <3>1, KeptIsGood
  <2> QED
    BY <1>2, <2>2, <2>3, <2>4, <2>5 DEF Inv
<1>5. CASE Queue(LoopOf(c), "sendInLoop", c) /\ UNCHANGED <<events, index, backlog>>
  <2>1. /\ queue' \in QueueType /\ Queues'
        /\ \A j \in Call, d \in Conn :
             Waiting(j, d)' <=> Waiting(j, d) \/ (j = "sendInLoop" /\ d = c)
    <3>1. "sendInLoop" \in Call /\ LoopOf(c) = Home("sendInLoop", c)
      BY DEF Call, Home
    <3> QED
      BY <1>1, <1>2, <1>5, <3>1, QueueOK
  <2>2. TypeOK'
    BY <1>1, <1>2, <1>5, <2>1 DEF TypeOK, QueueType
  <2>3. Good(c)'
    <3>1. Good(c) /\ References(c) /\ ThreadKept(c)
      BY <1>1, <1>2 DEF Good
    <3>2. /\ Waiting("established", c)' <=> Waiting("established", c)
          /\ Waiting("destroyed", c)' <=> Waiting("destroyed", c)
          /\ Waiting("remove", c)' <=> Waiting("remove", c)
      BY <2>1 DEF Call
    <3>3. References(c)'
      <4>1. EntriesKept(c) /\ (Open(c)' <=> Open(c))
        BY <1>2, <3>1, AccountsStay DEF Open, ThreadKept
      <4> QED
        BY <1>2, <3>1, <3>2, <4>1 DEF References, ThreadKept, EntriesKept
    <3>4. Registered(c)'
      BY <1>2, <1>5, <3>1, <3>2 DEF Good, Registered
    <3>5. ClosedOut(c)' /\ Awaited(c)'
      BY <1>2, <1>5, <3>1 DEF Good, ClosedOut, Awaited
    <3> QED
      BY <3>3, <3>4, <3>5 DEF Good
  <2>4. ASSUME NEW d \in Conn \ {c} PROVE Good(d)'
    <3>1. QueuedKept(d)
      BY <2>1 DEF QueuedKept
    <3>2. Kept(d)
      BY <1>2, <1>5, <3>1, AccountsStay DEF Kept, ChannelKept, PlacesKept
    <3> QED
      BY <1>1, <3>2, KeptIsGood
  <2> QED
    BY <1>2, <2>1, <2>2, <2>3, <2>4 DEF Inv
<1> QED
  BY <1>3, <1>4, <1>5

-----------------------------------------------------------------------------
(* Closing.                                                                *)

LEMMA HandlerCloseOK ==
  ASSUME Inv, NEW c \in Conn, HandlerClose(c)
  PROVE  Inv'
<1> DEFINE l == LoopOf(c)
<1>1. TypeOK /\ Queues /\ Threads /\ \A d \in Conn : Good(d)
  BY DEF Inv
<1>2. PICK e \in {"in", "hup"} : e \in revents[c] /\ pc[l] = "idle" /\ Handled(c, e)
  BY DEF HandlerClose, accounts, ClosedBy, Due, Idle
<1>3. /\ state' = [state EXCEPT ![c] = "kDisconnected"]
      /\ SetEvents(c, {})
      /\ pc' = [pc EXCEPT ![l] = "erase"]
      /\ cur' = [cur EXCEPT ![l] = c]
      /\ UNCHANGED <<connections, userConnMap, twice, mutex, queue, backlog, sends>>
  BY DEF HandlerClose, accounts
<1>4. l \in Sub /\ l \in Sender
  BY Loops
<1> HIDE DEF l
<1>5. state[c] = "kConnected"
  BY <1>2, OpenWhenHeard
<1>6. /\ revents' \in [Conn -> SUBSET {"in", "out", "hup"}]
      /\ revents'[c] = revents[c] \ {e}
      /\ \A d \in Conn \ {c} : revents'[d] = revents[d]
  BY <1>1, <1>2, EventTaken
<1>7. /\ events' \in [Conn -> SUBSET {"in", "out"}]
      /\ index' \in [Conn -> {"kNew", "kAdded", "kDelete"}]
      /\ events'[c] = {} /\ index'[c] = IndexWith(c, {})
      /\ \A d \in Conn \ {c} : events'[d] = events[d] /\ index'[d] = index[d]
  BY <1>1, <1>3, EventsSet
<1>8. /\ pc' \in [Sender -> {"idle", "erase", "close", "send"}]
      /\ cur' \in [Sender -> Conn \cup {Nobody}]
      /\ pc'[l] = "erase" /\ cur'[l] = c
      /\ \A t \in Sender \ {l} : pc'[t] = pc[t] /\ cur'[t] = cur[t]
  BY <1>1, <1>3, <1>4 DEF TypeOK
<1>9. state' \in [Conn -> {"none", "kConnecting", "kConnected", "kDisconnected"}]
      /\ state'[c] = "kDisconnected" /\ \A d \in Conn \ {c} : state'[d] = state[d]
  BY <1>1, <1>3 DEF TypeOK
<1>10. TypeOK'
  BY <1>1, <1>3, <1>6, <1>7, <1>8, <1>9 DEF TypeOK
<1>11. Queues' /\ \A d \in Conn : QueuedKept(d)
  BY <1>1, <1>3, QueueStays
<1>12. \A d \in Conn \ {c} : ThreadKept(d)
  <2> TAKE d \in Conn \ {c}
  <2>1. LoopOf(d) \in Sender
    BY Loops
  <2>2. CASE LoopOf(d) = l
    BY <1>2, <1>8, <2>2 DEF ThreadKept, Closing
  <2>3. CASE LoopOf(d) # l
    BY <1>8, <2>1, <2>3 DEF ThreadKept, Closing
  <2> QED
    BY <2>2, <2>3
<1>13. Threads'
  <2>1. ASSUME NEW m \in Sub, pc'[m] \in {"erase", "close"}
        PROVE  cur'[m] \in Conn /\ LoopOf(cur'[m]) = m
    <3>1. m \in Sender
      BY DEF Sender
    <3>2. CASE m = l
      BY <1>8, <3>2 DEF l
    <3>3. CASE m # l
      BY <1>1, <1>8, <2>1, <3>1, <3>3 DEF Threads
    <3> QED
      BY <3>2, <3>3
  <2>2. ASSUME NEW t \in Sender, pc'[t] = "send"
        PROVE  mutex' = t /\ cur'[t] \in Conn /\ Open(cur[t])'
    <3>1. t # l /\ pc[t] = "send" /\ cur'[t] = cur[t]
      BY <1>8, <2>2
    <3>2. mutex' = t /\ cur[t] \in Conn /\ Open(cur[t])
      BY <1>1, <1>3, <3>1 DEF Threads
    <3>3. PICK d \in Conn : d = cur[t] /\ d = cur'[t]
      BY <3>1, <3>2
    <3>4. Open(d)'
      <4>1. CASE d = c
        BY <1>8, <4>1 DEF Open, Closing, l
      <4>2. CASE d # c
        BY <1>9, <1>12, <3>2, <3>3, <4>2, OpenStays
      <4> QED
        BY <4>1, <4>2
    <3> QED
      BY <3>2, <3>3, <3>4 DEF Open, Closing
  <2> QED
    BY <2>1, <2>2 DEF Threads
<1>14. Good(c)'
  <2>1. References(c) /\ Registered(c)
    BY <1>1 DEF Good
  <2>2. /\ ~Waiting("established", c)' /\ ~Waiting("remove", c)' /\ ~Waiting("destroyed", c)'
    BY <1>5, <1>11, <2>1 DEF References, QueuedKept, Call
  <2>3. c \in connections' /\ Closing(c)' /\ pc'[LoopOf(c)] = "erase"
    BY <1>3, <1>5, <1>8, <2>1 DEF References, Closing, l
  <2>4. References(c)'
    <3>1. EntriesKept(c) /\ Open(c)'
      BY <1>3, <2>3, AccountsStay DEF Open
    <3> QED
      BY <1>9, <2>1, <2>2, <2>3, <3>1 DEF References, EntriesKept
  <2>5. index[c] = "kAdded"
    BY <1>5, <2>1 DEF Registered
  <2>6. index'[c] = "kDelete"
    BY <1>7, <2>5 DEF IndexWith
  <2>7. revents'[c] \subseteq {"out"}
    <3>1. revents[c] \subseteq {"in", "out", "hup"}
      BY <1>1 DEF TypeOK
    <3>2. ~({"hup", "in"} \subseteq revents[c])
      BY <2>1 DEF Registered
    <3> QED
      BY <1>2, <1>6, <3>1, <3>2
  <2>8. Registered(c)'
    BY <1>9, <2>3, <2>6, <2>7 DEF Registered
  <2>9. ClosedOut(c)' /\ Awaited(c)'
    BY <1>7, <1>9, <2>6 DEF ClosedOut, Awaited
  <2> QED
    BY <2>4, <2>8, <2>9 DEF Good
<1>15. ASSUME NEW d \in Conn \ {c} PROVE Good(d)'
  <2>1. Kept(d)
    BY <1>3, <1>6, <1>7, <1>9, <1>11, <1>12, AccountsStay DEF Kept, ChannelKept, PlacesKept
  <2> QED
    BY <1>1, <2>1, KeptIsGood
<1> QED
  BY <1>10, <1>11, <1>13, <1>14, <1>15 DEF Inv

LEMMA ClientCloseExceptionOK ==
  ASSUME Inv, NEW l \in Sub, ClientCloseException(l)
  PROVE  Inv'
<1>1. TypeOK /\ Queues /\ Threads /\ \A d \in Conn : Good(d)
  BY DEF Inv
<1>2. /\ pc[l] = "erase" /\ mutex = Nobody
      /\ \/ \E u \in User : userConnMap[u] = cur[l] /\ userConnMap' = EraseEntry(u)
         \/ ~Entered(cur[l]) /\ UNCHANGED userConnMap
      /\ pc' = [pc EXCEPT ![l] = "close"]
      /\ UNCHANGED <<twice, state, connections, mutex, queue, cur, revents, events, index,
                     backlog, sends>>
  BY DEF ClientCloseException, MutexFree, channel
<1>3. PICK c \in Conn : c = cur[l] /\ LoopOf(c) = l
  BY <1>1, <1>2 DEF Threads
<1>4. l \in Sender
  BY DEF Sender
<1>5. /\ pc' \in [Sender -> {"idle", "erase", "close", "send"}]
      /\ pc'[l] = "close" /\ \A t \in Sender \ {l} : pc'[t] = pc[t]
  BY <1>1, <1>2, <1>4 DEF TypeOK
<1>6. /\ userConnMap' \in [User -> Conn \cup {Nobody}]
      /\ \A d \in Conn : EntriesFit(d)
      /\ c \notin twice => ~Entered(c)'
  <2>1. c \notin twice => EnteredOnce(c)
    BY <1>1 DEF Good, References
  <2>2. CASE \E u \in User : userConnMap[u] = c /\ userConnMap' = EraseEntry(u)
    <3>1. PICK u \in User : userConnMap[u] = c /\ userConnMap' = EraseEntry(u)
      BY <2>2
    <3>2. /\ userConnMap' \in [User -> Conn \cup {Nobody}] /\ \A d \in Conn : EntriesFit(d)
          /\ \A v \in User : userConnMap'[v] \in Conn => v # u /\ userConnMap'[v] = userConnMap[v]
      BY <1>1, <1>2, <3>1, EraseFits
    <3>3. c \notin twice => ~Entered(c)'
      BY <2>1, <3>1, <3>2 DEF Entered, EnteredOnce
    <3> QED
      BY <3>2, <3>3
  <2>3. CASE ~Entered(c) /\ UNCHANGED userConnMap
    <3>1. userConnMap' \in [User -> Conn \cup {Nobody}] /\ ~Entered(c)'
      BY <1>1, <2>3 DEF TypeOK, Entered
    <3>2. \A d \in Conn : EntriesFit(d)
      BY <1>1, <1>2, <2>3, AccountsStay, EntriesStay DEF Good
    <3> QED
      BY <3>1, <3>2
  <2> QED
    BY <1>2, <1>3, <2>2, <2>3
<1>12. TypeOK'
  BY <1>1, <1>2, <1>5, <1>6 DEF TypeOK
<1>7. Queues' /\ \A d \in Conn : QueuedKept(d)
  BY <1>1, <1>2, QueueStays
<1>8. Threads'
  <2>1. \A t \in Sender : pc[t] # "send"
    BY <1>1, <1>2, NetAssumption DEF Threads, Sender, Sub
  <2>2. \A t \in Sender : pc'[t] # "send"
    BY <1>5, <2>1
  <2>3. ASSUME NEW m \in Sub, pc'[m] \in {"erase", "close"}
        PROVE  cur'[m] \in Conn /\ LoopOf(cur'[m]) = m
    <3>1. pc[m] \in {"erase", "close"}
      BY <1>2, <1>5, <2>3 DEF Sender
    <3> QED
      BY <1>1, <1>2, <3>1 DEF Threads
  <2> QED
    BY <2>2, <2>3 DEF Threads
<1>9. \A d \in Conn : Closing(d)' <=> Closing(d)
  <2> TAKE d \in Conn
  <2>1. LoopOf(d) \in Sender
    BY Loops
  <2> QED
    BY <1>2, <1>5, <2>1 DEF Closing
<1>10. Good(c)'
  <2>1. Good(c) /\ References(c) /\ Closing(c)
    BY <1>1, <1>2, <1>3 DEF Good, Closing
  <2>2. /\ Entered(c)' => Entered(c) \/ state[c] = "kConnected"
        /\ c \notin twice' => ~Entered(c)' /\ EnteredOnce(c)'
    BY <1>2, <1>6 DEF EntriesFit
  <2>3. /\ Waiting("established", c)' <=> Waiting("established", c)
        /\ Waiting("sendInLoop", c)' <=> Waiting("sendInLoop", c)
        /\ Waiting("destroyed", c)' <=> Waiting("destroyed", c)
        /\ Waiting("remove", c)' <=> Waiting("remove", c)
    BY <1>7 DEF QueuedKept, Call
  <2>4. References(c)'
    BY <1>2, <1>9, <2>1, <2>2, <2>3 DEF References
  <2> QED
    BY <1>2, <1>7, <2>1, <2>4, HandledIsGood
<1>11. ASSUME NEW d \in Conn \ {c} PROVE Good(d)'
  <2>1. LoopOf(d) \in Sender
    BY Loops
  <2>2. Closing(d) => pc'[LoopOf(d)] = pc[LoopOf(d)]
    BY <1>3, <1>5, <2>1 DEF Closing
  <2>3. ThreadKept(d)
    BY <1>9, <2>2 DEF ThreadKept
  <2>4. Good(d) /\ References(d)
    BY <1>1 DEF Good
  <2>5. References(d)'
    BY <1>2, <1>6, <1>7, <2>3, <2>4, ReferencesKept
  <2> QED
    BY <1>2, <1>7, <2>4, <2>5, HandledIsGood
<1> QED
  BY <1>7, <1>8, <1>10, <1>11, <1>12 DEF Inv

LEMMA RemoveConnectionOK ==
  ASSUME Inv, NEW l \in Sub, RemoveConnection(l)
  PROVE  Inv'
<1>1. TypeOK /\ Queues /\ Threads /\ \A d \in Conn : Good(d)
  BY DEF Inv
<1>2. /\ pc[l] = "close"
      /\ Queue(Main, "remove", cur[l])
      /\ pc' = [pc EXCEPT ![l] = "idle"]
      /\ cur' = [cur EXCEPT ![l] = Nobody]
      /\ UNCHANGED <<state, connections, userConnMap, twice, mutex, revents, events, index,
                     backlog, sends>>
  BY DEF RemoveConnection, accounts, channel
<1>3. PICK c \in Conn : c = cur[l] /\ LoopOf(c) = l
  BY <1>1, <1>2 DEF Threads
<1>4. l \in Sender
  BY DEF Sender
<1>5. /\ pc' \in [Sender -> {"idle", "erase", "close", "send"}]
      /\ cur' \in [Sender -> Conn \cup {Nobody}]
      /\ pc'[l] = "idle"
      /\ \A t \in Sender \ {l} : pc'[t] = pc[t] /\ cur'[t] = cur[t]
  BY <1>1, <1>2, <1>4 DEF TypeOK
<1>0. \A d \in Conn \ {c} : ThreadKept(d)
  <2> TAKE d \in Conn \ {c}
  <2>1. LoopOf(d) \in Sender
    BY Loops
  <2>2. CASE LoopOf(d) = l
    BY <1>3, <1>5, <2>2 DEF ThreadKept, Closing
  <2>3. CASE LoopOf(d) # l
    BY <1>5, <2>1, <2>3 DEF ThreadKept, Closing
  <2> QED
    BY <2>2, <2>3
<1>6. References(c) /\ Registered(c) /\ ClosedOut(c) /\ Closing(c)
  BY <1>1, <1>2, <1>3 DEF Good, Closing
<1>7. /\ state[c] = "kDisconnected" /\ c \in connections /\ ~Open(c)
      /\ c \notin twice => ~Entered(c) /\ EnteredOnce(c)
      /\ ~Waiting("remove", c) /\ ~Waiting("destroyed", c) /\ ~Waiting("established", c)
  BY <1>2, <1>3, <1>6 DEF References, Open
<1>8. /\ queue' \in QueueType /\ Queues'
      /\ \A j \in Call, d \in Conn : Waiting(j, d)' <=> Waiting(j, d) \/ (j = "remove" /\ d = c)
  <2>1. "remove" \in Call /\ Main = Home("remove", c) /\ Queue(Main, "remove", c)
    BY <1>2, <1>3 DEF Call, Home
  <2> QED
    BY <1>1, <1>7, <2>1, QueueOK
<1>9. TypeOK'
  BY <1>1, <1>2, <1>5, <1>8 DEF TypeOK, QueueType
<1>10. Threads'
  <2>1. ASSUME NEW m \in Sub, pc'[m] \in {"erase", "close"}
        PROVE  cur'[m] \in Conn /\ LoopOf(cur'[m]) = m
    <3>1. m \in Sender \ {l}
      BY <1>5, <2>1 DEF Sender
    <3> QED
      BY <1>1, <1>5, <2>1, <3>1 DEF Threads
  <2>2. ASSUME NEW t \in Sender, pc'[t] = "send"
        PROVE  mutex' = t /\ cur'[t] \in Conn /\ Open(cur[t])'
    <3>1. pc[t] = "send" /\ cur'[t] = cur[t]
      BY <1>5, <2>2
    <3>2. mutex' = t /\ cur[t] \in Conn /\ Open(cur[t])
      BY <1>1, <1>2, <3>1 DEF Threads
    <3>3. PICK d \in Conn : d = cur[t] /\ d = cur'[t]
      BY <3>1, <3>2
    <3>4. d # c /\ state'[d] = state[d]
      BY <1>2, <1>7, <3>2, <3>3
    <3>5. Open(d)'
      BY <1>0, <3>2, <3>3, <3>4, OpenStays
    <3> QED
      BY <3>2, <3>3, <3>5 DEF Open, Closing
  <2> QED
    BY <2>1, <2>2 DEF Threads
<1>11. Good(c)'
  <2>1. ~Closing(c)'
    BY <1>3, <1>5 DEF Closing
  <2>2. /\ ~Waiting("established", c)' /\ ~Waiting("destroyed", c)' /\ Waiting("remove", c)'
        /\ Waiting("sendInLoop", c)' <=> Waiting("sendInLoop", c)
    BY <1>7, <1>8 DEF Call
  <2>3. References(c)'
    <3>1. EntriesKept(c)
      BY <1>2, AccountsStay
    <3> QED
      BY <1>2, <1>7, <2>1, <2>2, <3>1 DEF References, EntriesKept
  <2>4. Registered(c)'
    BY <1>2, <1>6, <1>7 DEF Registered
  <2>5. ClosedOut(c)' /\ Awaited(c)'
    BY <1>2, <1>6, <1>7 DEF ClosedOut, Awaited
  <2> QED
    BY <2>3, <2>4, <2>5 DEF Good
<1>12. ASSUME NEW d \in Conn \ {c} PROVE Good(d)'
  <2>1. QueuedKept(d)
    BY <1>8 DEF QueuedKept
  <2>3. Kept(d)
    BY <1>0, <1>2, <2>1, AccountsStay DEF Kept, ChannelKept, PlacesKept
  <2> QED
    BY <1>1, <2>3, KeptIsGood
<1> QED
  BY <1>8, <1>9, <1>10, <1>11, <1>12 DEF Inv

-----------------------------------------------------------------------------
(* The theorems.                                                           *)

LEMMA StutterOK ==
  ASSUME Inv, UNCHANGED vars
  PROVE  Inv'
<1>1. UNCHANGED <<state, connections, userConnMap, twice, mutex, queue, pc, cur, revents, events,
                  index, backlog, sends>>
  BY DEF vars, accounts, thread, channel
<1>2. TypeOK' /\ Threads'
  BY <1>1, ThreadsKept DEF Inv, TypeOK
<1>3. Queues' /\ \A d \in Conn : QueuedKept(d) /\ ThreadKept(d)
  BY <1>1, QueueStays, ThreadsStay DEF Inv
<1>4. ASSUME NEW d \in Conn PROVE Good(d)'
  <2>1. Kept(d)
    BY <1>1, <1>3, AccountsStay DEF Kept, ChannelKept, PlacesKept
  <2> QED
    BY <2>1, KeptIsGood DEF Inv
<1> QED
  BY <1>2, <1>3, <1>4 DEF Inv

LEMMA NextOK ==
  ASSUME Inv, [Next]_vars
  PROVE  Inv'
<1>1. CASE \E c \in Conn : NewConnection(c)
  BY <1>1, NewConnectionOK
<1>2. ASSUME NEW l \in Sub, Poll(l) PROVE Inv'
  BY <1>2, PollOK
<1>3. ASSUME NEW l \in Sub, FunctorStep(l) PROVE Inv'
  BY <1>3, ConnectionEstablishedOK, SendQueuedOK, ConnectionDestroyedOK DEF FunctorStep, OnLoop
<1>4. ASSUME NEW l \in Sub, EventStep(l) PROVE Inv'
  <2>1. ASSUME NEW c \in Conn, HandleEvent(c) PROVE Inv'
    BY <2>1, HandlerWriteOK, RequestsOK, ChatOK, HandlerCloseOK DEF HandleEvent
  <2>2. l \in Sender
    BY DEF Sender
  <2> QED
    BY <1>4, <2>1, <2>2, ClientCloseExceptionOK, RemoveConnectionOK, SendOK DEF EventStep, OnLoop
<1>5. CASE MainStep
  BY <1>5, RemoveConnectionInLoopOK DEF MainStep
<1>6. CASE Observe \/ Send(Observer)
  BY <1>6, ObserveOK, SendOK DEF Sender
<1>7. CASE UNCHANGED vars
  BY <1>7, StutterOK
<1> QED
  BY <1>1, <1>2, <1>3, <1>4, <1>5, <1>6, <1>7 DEF Next

\* The invariant of the connections, for every number of connections, loops
\* and sends: where each reference is, what its channel asks for, and the order
\* of the functors.
THEOREM NetInductive == Spec => []IndInv
<1>1. Init => IndInv
  BY InitOK, InvIs
<1>2. IndInv /\ [Next]_vars => IndInv'
  BY NextOK, InvIs, InvIsNext
<1> QED
  BY <1>1, <1>2, PTL DEF Spec

\* A functor in any queue is in the queue of its home.
LEMMA QueuedAtHome ==
  ASSUME Inv, NEW l \in Loop, NEW k \in Call, NEW c \in Conn, <<k, c>> \in Range(queue[l])
  PROVE  Waiting(k, c)
<1>1. l = Home(k, c)
  BY DEF Inv, Queues
<1> QED
  BY <1>1 DEF Waiting

LEMMA DeletedIsUnused ==
  ASSUME Inv, NEW c \in Conn, Deleted(c)
  PROVE  /\ \A l \in Loop : <<"sendInLoop", c>> \notin Range(queue[l])
         /\ \A t \in Sender : pc[t] = "send" => cur[t] # c
         /\ index[c] = "kNew" /\ revents[c] = {}
<1>1. state[c] # "none" /\ c \notin connections
  BY DEF Deleted, Held, HeldByServer
<1>2. ~Waiting("destroyed", c)
  <2>1. Home("destroyed", c) \in Loop /\ "destroyed" \in Call \ {"sendInLoop"}
    BY Homes DEF Call
  <2> QED
    BY <2>1 DEF Deleted, Held, HeldByServer, Waiting
<1>3. References(c) /\ Registered(c) /\ TypeOK /\ Threads
  BY DEF Inv, Good
<1>4. ~Waiting("sendInLoop", c)
  BY <1>1, <1>2, <1>3 DEF References
<1>5. \A l \in Loop : <<"sendInLoop", c>> \notin Range(queue[l])
  BY <1>4, QueuedAtHome DEF Call
<1>6. state[c] = "kDisconnected"
  <2>1. state[c] \in {"none", "kConnecting", "kConnected", "kDisconnected"}
    BY <1>3 DEF TypeOK
  <2> QED
    BY <1>1, <1>3, <2>1 DEF References
<1>7. index[c] = "kNew"
  <2>1. index[c] \in {"kNew", "kAdded", "kDelete"}
    BY <1>3 DEF TypeOK
  <2> QED
    BY <1>1, <1>2, <1>3, <1>6, <2>1 DEF Registered
<1>8. revents[c] = {}
  BY <1>3, <1>7 DEF Registered
<1>9. \A t \in Sender : pc[t] = "send" => cur[t] # c
  <2>1. ~Open(c)
    BY <1>1, <1>3 DEF Open, References
  <2> QED
    BY <1>3, <2>1 DEF Threads
<1> QED
  BY <1>5, <1>7, <1>8, <1>9

\* No bare pointer, no thread and no poller reaches a connection that has been
\* deleted: the functor with the last shared_ptr is behind every sendInLoop.
THEOREM NoDangling == Spec => []NoUseAfterDelete
<1>1. IndInv => NoUseAfterDelete
  BY InvIs, DeletedIsUnused DEF NoUseAfterDelete
<1> QED
  BY <1>1, NetInductive, PTL

\* A connection that closed is never put back into epoll.
THEOREM ClosedStaysOut == Spec => []ClosedForGood
<1>1. IndInv => ClosedForGood
  BY DEF IndInv
<1> QED
  BY <1>1, NetInductive, PTL

\* Output waits in the buffer of an open connection exactly while EPOLLOUT is
\* asked for.
THEOREM OutputWaits == Spec => []OutputIsAwaited
<1>1. IndInv => OutputIsAwaited
  BY DEF IndInv
<1> QED
  BY <1>1, NetInductive, PTL
=============================================================================
