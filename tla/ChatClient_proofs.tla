-------------------------- MODULE ChatClient_proofs --------------------------
(***************************************************************************)
(* The answer to a login or a registration always finds the main thread    *)
(* waiting for it, however TCP cuts the two streams, whatever is dropped,  *)
(* and whichever end stops.  And as long as no request was discarded, the  *)
(* two ends agree on the session: each request meets the session it is     *)
(* for, and each message from another thread the account it is for.        *)
(***************************************************************************)
EXTENDS ChatClient, TLAPS

\* Where the pieces of H are in the stream s.
At(s, H) == {i \in DOMAIN s : s[i] \in H}

AtMostOne(S) == \A i, j \in S : i = j

LEMMA IsSequence ==
  ASSUME NEW S, NEW m \in Nat, NEW f \in [1..m -> S]
  PROVE  f \in Seq(S)
OBVIOUS

\* What is left of a stream after a read of n pieces.
LEMMA RestOf ==
  ASSUME NEW S, NEW s \in Seq(S), NEW n \in 1..Len(s)
  PROVE  /\ Rest(s, n) \in Seq(S)
         /\ Len(Rest(s, n)) = Len(s) - n
         /\ \A i \in 1..(Len(s) - n) : Rest(s, n)[i] = s[i + n]
<1>1. Len(s) \in Nat /\ n \in Nat /\ n <= Len(s)
  OBVIOUS
<1>2. \A i \in (n + 1)..Len(s) : s[i] \in S
  <2>1. \A i \in 1..Len(s) : s[i] \in S
    OBVIOUS
  <2> QED
    BY <1>1, <2>1
<1> QED
  BY <1>1, <1>2 DEF Rest

\* A read leaves no piece of H that was not there, and none at all if the only
\* one was the first.
LEMMA AtRest ==
  ASSUME NEW S, NEW s \in Seq(S), NEW n \in 1..Len(s), NEW H
  PROVE  /\ Rest(s, n) \in Seq(S)
         /\ At(Rest(s, n), H) # {} => At(s, H) # {}
         /\ AtMostOne(At(s, H)) => AtMostOne(At(Rest(s, n), H))
         /\ AtMostOne(At(s, H)) /\ s[1] \in H => At(Rest(s, n), H) = {}
<1> DEFINE r == Rest(s, n)
<1>1. /\ r \in Seq(S) /\ Len(r) = Len(s) - n
      /\ \A i \in 1..(Len(s) - n) : r[i] = s[i + n]
  BY RestOf
<1> HIDE DEF r
<1>2. Len(s) \in Nat /\ n \in Nat /\ 1 <= n /\ n <= Len(s) /\ DOMAIN s = 1..Len(s)
  OBVIOUS
<1>3. DOMAIN r = 1..(Len(s) - n)
  BY <1>1
<1>4. ASSUME NEW i \in At(r, H) PROVE i \in Nat /\ i >= 1 /\ i + n \in At(s, H)
  <2>1. i \in 1..(Len(s) - n) /\ s[i + n] \in H
    BY <1>1, <1>3, <1>4 DEF At
  <2> QED
    BY <1>2, <2>1 DEF At
<1>5. At(r, H) # {} => At(s, H) # {}
  BY <1>4
<1>6. AtMostOne(At(s, H)) => AtMostOne(At(r, H))
  <2> SUFFICES ASSUME AtMostOne(At(s, H)), NEW i \in At(r, H), NEW j \in At(r, H)
               PROVE  i = j
    BY DEF AtMostOne
  <2>1. i \in Nat /\ j \in Nat /\ i + n \in At(s, H) /\ j + n \in At(s, H)
    BY <1>4
  <2>2. i + n = j + n
    BY <2>1 DEF AtMostOne
  <2> QED
    BY <1>2, <2>1, <2>2
<1>7. AtMostOne(At(s, H)) /\ s[1] \in H => At(r, H) = {}
  <2> SUFFICES ASSUME AtMostOne(At(s, H)), s[1] \in H, NEW i \in At(r, H)
               PROVE  FALSE
    OBVIOUS
  <2>1. i \in Nat /\ i >= 1 /\ i + n \in At(s, H)
    BY <1>4
  <2>2. 1 \in At(s, H)
    BY <1>2 DEF At
  <2>3. i + n = 1
    BY <2>1, <2>2 DEF AtMostOne
  <2> QED
    BY <1>2, <2>1, <2>3
<1> QED
  BY <1>1, <1>5, <1>6, <1>7 DEF r

\* Pieces appended after the stream s, of which only the first may be in H.
LEMMA AtAppend ==
  ASSUME NEW S, NEW s \in Seq(S), NEW t \in Seq(S), NEW H,
         \A i \in DOMAIN t : t[i] \in H => i = 1
  PROVE  /\ s \o t \in Seq(S)
         /\ At(s, H) = {} => AtMostOne(At(s \o t, H))
         /\ (\A i \in DOMAIN t : t[i] \notin H) => At(s \o t, H) = At(s, H)
<1> DEFINE r == s \o t
<1>1. /\ r \in Seq(S) /\ Len(r) = Len(s) + Len(t)
      /\ \A i \in 1..Len(s) : r[i] = s[i]
      /\ \A i \in (Len(s) + 1)..(Len(s) + Len(t)) : r[i] = t[i - Len(s)]
  OBVIOUS
<1>2. /\ Len(s) \in Nat /\ Len(t) \in Nat
      /\ DOMAIN s = 1..Len(s) /\ DOMAIN t = 1..Len(t)
  OBVIOUS
<1> HIDE DEF r
<1>3. DOMAIN r = 1..(Len(s) + Len(t))
  BY <1>1
<1>4. ASSUME NEW i \in At(r, H)
      PROVE  i \in At(s, H) \/ (i \in Nat /\ i - Len(s) \in DOMAIN t /\ t[i - Len(s)] \in H)
  <2>1. i \in 1..(Len(s) + Len(t)) /\ r[i] \in H
    BY <1>3, <1>4 DEF At
  <2>2. CASE i <= Len(s)
    BY <1>1, <1>2, <2>1, <2>2 DEF At
  <2>3. CASE i > Len(s)
    <3>1. i \in (Len(s) + 1)..(Len(s) + Len(t)) /\ i - Len(s) \in 1..Len(t)
      BY <1>2, <2>1, <2>3
    <3> QED
      BY <1>1, <1>2, <2>1, <3>1
  <2> QED
    BY <1>2, <2>1, <2>2, <2>3
<1>5. At(s, H) = {} => AtMostOne(At(r, H))
  <2> SUFFICES ASSUME At(s, H) = {}, NEW i \in At(r, H), NEW j \in At(r, H)
               PROVE  i = j
    BY DEF AtMostOne
  <2>1. i \in Nat /\ j \in Nat /\ i - Len(s) = 1 /\ j - Len(s) = 1
    BY <1>4
  <2> QED
    BY <1>2, <2>1
<1>6. ASSUME \A i \in DOMAIN t : t[i] \notin H PROVE At(r, H) = At(s, H)
  <2>1. At(r, H) \subseteq At(s, H)
    BY <1>4, <1>6
  <2>2. ASSUME NEW i \in At(s, H) PROVE i \in At(r, H)
    <3>1. i \in 1..Len(s) /\ s[i] \in H
      BY <1>2, <2>2 DEF At
    <3>2. i \in DOMAIN r /\ r[i] = s[i]
      BY <1>1, <1>2, <1>3, <3>1
    <3> QED
      BY <3>1, <3>2 DEF At
  <2> QED
    BY <2>1, <2>2
<1> QED
  BY <1>1, <1>5, <1>6 DEF r

-----------------------------------------------------------------------------
(* Where the answers are.                                                  *)

\* The first pieces of the requests that await an answer, and of the answers.
AskHead    == {x \in Pieces(Request, 3) : x[2] = 1 /\ Asks(x[1])}
AnswerHead == {x \in Pieces(Answer, 2) : x[2] = 1 /\ IsAnswer(x[1])}

LEMMA InUpAt ==
  ASSUME NEW s \in Seq(Pieces(Request, 3))
  PROVE  {i \in DOMAIN s : s[i][2] = 1 /\ Asks(s[i][1])} = At(s, AskHead)
<1>1. \A i \in DOMAIN s : s[i] \in Pieces(Request, 3)
  OBVIOUS
<1> QED
  BY <1>1 DEF At, AskHead

LEMMA InDownAt ==
  ASSUME NEW s \in Seq(Pieces(Answer, 2))
  PROVE  {i \in DOMAIN s : s[i][2] = 1 /\ IsAnswer(s[i][1])} = At(s, AnswerHead)
<1>1. \A i \in DOMAIN s : s[i] \in Pieces(Answer, 2)
  OBVIOUS
<1> QED
  BY <1>1 DEF At, AnswerHead

\* A read from the client, as far as answers are concerned.
LEMMA UpRead ==
  ASSUME up \in Seq(Pieces(Request, 3)), NEW n \in 1..Len(up), up' = Rest(up, n)
  PROVE  /\ up' \in Seq(Pieces(Request, 3))
         /\ InUp' # {} => InUp # {}
         /\ AtMostOne(InUp) => AtMostOne(InUp')
         /\ AtMostOne(InUp) /\ up[1][2] = 1 /\ Asks(up[1][1]) => InUp' = {} /\ InUp # {}
<1>1. /\ up' \in Seq(Pieces(Request, 3))
      /\ At(up', AskHead) # {} => At(up, AskHead) # {}
      /\ AtMostOne(At(up, AskHead)) => AtMostOne(At(up', AskHead))
      /\ AtMostOne(At(up, AskHead)) /\ up[1] \in AskHead => At(up', AskHead) = {}
  BY AtRest
<1>2. InUp = At(up, AskHead) /\ InUp' = At(up', AskHead)
  BY <1>1, InUpAt DEF InUp
<1>3. 1 \in DOMAIN up /\ up[1] \in Pieces(Request, 3)
  OBVIOUS
<1>4. up[1][2] = 1 /\ Asks(up[1][1]) => up[1] \in AskHead /\ 1 \in InUp
  BY <1>3 DEF AskHead, InUp
<1> QED
  BY <1>1, <1>2, <1>4

LEMMA DownRead ==
  ASSUME down \in Seq(Pieces(Answer, 2)), NEW n \in 1..Len(down), down' = Rest(down, n)
  PROVE  /\ down' \in Seq(Pieces(Answer, 2))
         /\ InDown' # {} => InDown # {}
         /\ AtMostOne(InDown) => AtMostOne(InDown')
         /\ AtMostOne(InDown) /\ down[1][2] = 1 /\ IsAnswer(down[1][1]) =>
              InDown' = {} /\ InDown # {}
<1>1. /\ down' \in Seq(Pieces(Answer, 2))
      /\ At(down', AnswerHead) # {} => At(down, AnswerHead) # {}
      /\ AtMostOne(At(down, AnswerHead)) => AtMostOne(At(down', AnswerHead))
      /\ AtMostOne(At(down, AnswerHead)) /\ down[1] \in AnswerHead => At(down', AnswerHead) = {}
  BY AtRest
<1>2. InDown = At(down, AnswerHead) /\ InDown' = At(down', AnswerHead)
  BY <1>1, InDownAt DEF InDown
<1>3. 1 \in DOMAIN down /\ down[1] \in Pieces(Answer, 2)
  OBVIOUS
<1>4. down[1][2] = 1 /\ IsAnswer(down[1][1]) => down[1] \in AnswerHead /\ 1 \in InDown
  BY <1>3 DEF AnswerHead, InDown
<1> QED
  BY <1>1, <1>2, <1>4

\* A request on its way to the server.
LEMMA UpSent ==
  ASSUME up \in Seq(Pieces(Request, 3)), NEW r \in Request, Transmit(r),
         asked \in 0..MaxRequests
  PROVE  /\ up' \in Seq(Pieces(Request, 3)) /\ asked' \in 0..MaxRequests
         /\ InUp = {} => AtMostOne(InUp')
         /\ ~Asks(r) => InUp' = InUp
<1> DEFINE t == << <<r, 1>>, <<r, 2>>, <<r, 3>> >>
<1>1. asked' \in 0..MaxRequests
  BY ClientAssumption DEF Transmit
<1>2. CASE up' = up
  BY <1>1, <1>2 DEF InUp, AtMostOne
<1>3. CASE up' = up \o t
  <2>1. t \in Seq(Pieces(Request, 3)) /\ DOMAIN t = 1..3
    BY DEF Pieces
  <2>2. /\ \A i \in DOMAIN t : t[i] \in AskHead => i = 1
        /\ ~Asks(r) => \A i \in DOMAIN t : t[i] \notin AskHead
    <3>1. t[1] = <<r, 1>> /\ t[2] = <<r, 2>> /\ t[3] = <<r, 3>>
      OBVIOUS
    <3>2. t[2] \notin AskHead /\ t[3] \notin AskHead /\ (~Asks(r) => t[1] \notin AskHead)
      BY <3>1 DEF AskHead
    <3>3. \A i \in DOMAIN t : i = 1 \/ i = 2 \/ i = 3
      BY <2>1
    <3> HIDE DEF t
    <3> QED
      BY <3>2, <3>3
  <2> HIDE DEF t
  <2>3. /\ up' \in Seq(Pieces(Request, 3))
        /\ At(up, AskHead) = {} => AtMostOne(At(up', AskHead))
        /\ ~Asks(r) => At(up', AskHead) = At(up, AskHead)
    <3>1. /\ up \o t \in Seq(Pieces(Request, 3))
          /\ At(up, AskHead) = {} => AtMostOne(At(up \o t, AskHead))
          /\ (\A i \in DOMAIN t : t[i] \notin AskHead) =>
               At(up \o t, AskHead) = At(up, AskHead)
      BY <2>1, <2>2, AtAppend
    <3> QED
      BY <1>3, <2>2, <3>1
  <2>4. InUp = At(up, AskHead) /\ InUp' = At(up', AskHead)
    BY <2>3, InUpAt DEF InUp
  <2> QED
    BY <1>1, <2>3, <2>4
<1> QED
  BY <1>2, <1>3 DEF Transmit

\* An answer, or a chat message, on its way to the client.
LEMMA DownSent ==
  ASSUME down \in Seq(Pieces(Answer, 2)), NEW a \in Answer, Reply(a)
  PROVE  /\ down' \in Seq(Pieces(Answer, 2))
         /\ InDown = {} => AtMostOne(InDown')
         /\ ~IsAnswer(a) => InDown' = InDown
<1> DEFINE t == << <<a, 1>>, <<a, 2>> >>
<1>1. down' = down \o t
  BY DEF Reply, Message
<1>2. t \in Seq(Pieces(Answer, 2)) /\ DOMAIN t = 1..2
  BY DEF Pieces
<1>3. /\ \A i \in DOMAIN t : t[i] \in AnswerHead => i = 1
      /\ ~IsAnswer(a) => \A i \in DOMAIN t : t[i] \notin AnswerHead
  <2>1. t[1] = <<a, 1>> /\ t[2] = <<a, 2>>
    OBVIOUS
  <2>2. t[2] \notin AnswerHead /\ (~IsAnswer(a) => t[1] \notin AnswerHead)
    BY <2>1 DEF AnswerHead
  <2>3. \A i \in DOMAIN t : i = 1 \/ i = 2
    BY <1>2
  <2> HIDE DEF t
  <2> QED
    BY <2>2, <2>3
<1> HIDE DEF t
<1>4. /\ down' \in Seq(Pieces(Answer, 2))
      /\ At(down, AnswerHead) = {} => AtMostOne(At(down', AnswerHead))
      /\ ~IsAnswer(a) => At(down', AnswerHead) = At(down, AnswerHead)
  <2>1. /\ down \o t \in Seq(Pieces(Answer, 2))
        /\ At(down, AnswerHead) = {} => AtMostOne(At(down \o t, AnswerHead))
        /\ (\A i \in DOMAIN t : t[i] \notin AnswerHead) =>
             At(down \o t, AnswerHead) = At(down, AnswerHead)
    BY <1>2, <1>3, AtAppend
  <2> QED
    BY <1>1, <1>3, <2>1
<1>5. InDown = At(down, AnswerHead) /\ InDown' = At(down', AnswerHead)
  BY <1>4, InDownAt DEF InDown
<1> QED
  BY <1>4, <1>5

LEMMA ChatIsNoAnswer ==
  ASSUME NEW u \in User
  PROVE  ChatTo(u) \in Answer /\ ~IsAnswer(ChatTo(u))
BY DEF ChatTo, Answer, IsAnswer

\* The messages other threads queued are chat messages.
LEMMA ChatsSent ==
  ASSUME down \in Seq(Pieces(Answer, 2)), NEW us \in Seq(User),
         down' = down \o MessagesTo(us)
  PROVE  down' \in Seq(Pieces(Answer, 2)) /\ InDown' = InDown
<1> DEFINE t == MessagesTo(us)
<1>1. Len(us) \in Nat /\ \A i \in 1..Len(us) : us[i] \in User
  OBVIOUS
<1>2. ASSUME NEW i \in 1..(2 * Len(us))
      PROVE  /\ us[(i + 1) \div 2] \in User /\ 2 - (i % 2) \in 1..2
  <2>1. (i + 1) \div 2 \in 1..Len(us) /\ i % 2 \in 0..1
    BY <1>1
  <2> QED
    BY <1>1, <2>1
<1>3. ASSUME NEW i \in 1..(2 * Len(us))
      PROVE  t[i] \in Pieces(Answer, 2) /\ t[i] \notin AnswerHead
  <2> DEFINE u == us[(i + 1) \div 2]
             k == 2 - (i % 2)
  <2>1. t[i] = <<ChatTo(u), k>>
    BY DEF MessagesTo
  <2>2. u \in User /\ k \in 1..2
    BY <1>2
  <2> HIDE DEF u, k
  <2>3. ChatTo(u) \in Answer /\ ~IsAnswer(ChatTo(u))
    BY <2>2, ChatIsNoAnswer
  <2> HIDE DEF t
  <2> QED
    BY <2>1, <2>2, <2>3 DEF Pieces, AnswerHead
<1>4. t \in Seq(Pieces(Answer, 2)) /\ DOMAIN t = 1..(2 * Len(us))
  <2>1. DOMAIN t = 1..(2 * Len(us)) /\ t = [i \in DOMAIN t |-> t[i]]
    BY DEF MessagesTo
  <2> HIDE DEF t
  <2>2. t \in [1..(2 * Len(us)) -> Pieces(Answer, 2)]
    BY <1>3, <2>1
  <2>3. 2 * Len(us) \in Nat
    BY <1>1
  <2>4. t \in Seq(Pieces(Answer, 2))
    BY <2>2, <2>3, IsSequence
  <2> QED
    BY <2>1, <2>4
<1> HIDE DEF t
<1>5. down' = down \o t
  BY DEF t
<1>6. down' \in Seq(Pieces(Answer, 2)) /\ At(down', AnswerHead) = At(down, AnswerHead)
  BY <1>3, <1>4, <1>5, AtAppend
<1> QED
  BY <1>6, InDownAt DEF InDown

-----------------------------------------------------------------------------
(* The steps of the client.                                                *)

LEMMA InitOK ==
  ASSUME Init
  PROVE  IndInv
<1>1. TypeOK
  <2>1. up \in Seq(Pieces(Request, 3)) /\ down \in Seq(Pieces(Answer, 2)) /\ functors \in Seq(User)
    BY DEF Init
  <2>2. lists \in [List -> User \cup {NoUser}] /\ userConnMap \in SUBSET User /\ crossed \in SUBSET User
    BY DEF Init
  <2>3. shown \in SUBSET ((User \cup {NoUser}) \X (User \cup {NoUser}))
    BY DEF Init
  <2>4. asked \in 0..MaxRequests /\ chats \in 0..MaxChats
    BY ClientAssumption DEF Init
  <2>5. /\ pc = "menu" /\ rwsem = 0 /\ isLoginSuccess = FALSE /\ currentUser = NoUser
        /\ reader = "recv" /\ answer = Nothing /\ loop = "poll" /\ request = Nothing
        /\ discarded = FALSE
    BY DEF Init
  <2> QED
    BY <2>1, <2>2, <2>3, <2>4, <2>5 DEF TypeOK
<1>2. InUp = {} /\ InDown = {} /\ ~InHand /\ ~InReader
  BY DEF Init, InUp, InDown, InHand, InReader
<1> QED
  BY <1>1, <1>2 DEF IndInv, OneAnswer, AnswerIsAwaited, Init

\* A step that touches neither the streams, nor the request and the answer in
\* hand, nor the semaphore, moves no answer.
LEMMA PlacesStay ==
  ASSUME UNCHANGED <<up, down, loop, request, reader>>
  PROVE  /\ InUp' = InUp /\ InDown' = InDown
         /\ InHand' = InHand /\ InReader' = InReader
BY DEF InUp, InDown, InHand, InReader

\* A request that asks for an answer leaves while none is on its way.
LEMMA AskOK ==
  ASSUME IndInv, NEW r \in Request, Transmit(r), pc = "menu", pc' \in Waits,
         isLoginSuccess' \in BOOLEAN,
         UNCHANGED <<rwsem, currentUser, lists, reader, answer>>
  PROVE  IndInv'
<1>1. TypeOK /\ OneAnswer /\ InUp = {} /\ ~InHand /\ InDown = {} /\ ~InReader /\ rwsem = 0
  BY DEF IndInv, AnswerIsAwaited
<1>2. UNCHANGED <<down, loop, request, functors, userConnMap, crossed, chats, discarded, shown>>
  BY DEF Transmit, service, entries
<1>3. /\ up' \in Seq(Pieces(Request, 3)) /\ asked' \in 0..MaxRequests
      /\ AtMostOne(InUp')
  BY <1>1, UpSent DEF TypeOK
<1>4. TypeOK'
  BY <1>1, <1>2, <1>3 DEF TypeOK
<1>5. InDown' = InDown /\ InHand' = InHand /\ InReader' = InReader
  BY <1>2 DEF InDown, InHand, InReader
<1>6. OneAnswer'
  BY <1>1, <1>2, <1>3, <1>5 DEF OneAnswer, AtMostOne
<1>7. AnswerIsAwaited'
  BY DEF AnswerIsAwaited, Waits
<1> QED
  BY <1>4, <1>6, <1>7 DEF IndInv

LEMMA LoginOK ==
  ASSUME IndInv, NEW u \in User, Login(u)
  PROVE  IndInv'
<1> DEFINE r == [kind |-> "login", user |-> u]
<1>1. r \in Request
  BY DEF Request
<1>2. Transmit(r) /\ pc = "menu" /\ pc' \in Waits /\ isLoginSuccess' \in BOOLEAN
      /\ UNCHANGED <<rwsem, currentUser, lists, reader, answer>>
  BY DEF Login, Waits
<1> QED
  BY <1>1, <1>2, AskOK

LEMMA RegisterOK ==
  ASSUME IndInv, Register
  PROVE  IndInv'
<1> DEFINE r == [kind |-> "reg", user |-> NoUser]
<1>1. r \in Request
  BY DEF Request
<1>2. Transmit(r) /\ pc = "menu" /\ pc' \in Waits
      /\ UNCHANGED <<rwsem, isLoginSuccess, currentUser, lists, reader, answer>>
  BY DEF Register, Waits, state
<1>3. isLoginSuccess' \in BOOLEAN
  BY <1>2 DEF IndInv, TypeOK
<1> QED
  BY <1>1, <1>2, <1>3, AskOK

\* Any other request is of no account here.
LEMMA TellOK ==
  ASSUME IndInv, NEW r \in Request, ~Asks(r), Transmit(r), pc = "main",
         pc' \in {"main", "menu"},
         UNCHANGED <<rwsem, isLoginSuccess, currentUser, lists, reader, answer>>
  PROVE  IndInv'
<1>1. TypeOK /\ OneAnswer /\ InUp = {} /\ ~InHand /\ InDown = {} /\ ~InReader /\ rwsem = 0
  BY DEF IndInv, AnswerIsAwaited
<1>2. UNCHANGED <<down, loop, request, functors, userConnMap, crossed, chats, discarded, shown>>
  BY DEF Transmit, service, entries
<1>3. /\ up' \in Seq(Pieces(Request, 3)) /\ asked' \in 0..MaxRequests
      /\ InUp' = InUp
  BY <1>1, UpSent DEF TypeOK
<1>4. TypeOK'
  BY <1>1, <1>2, <1>3 DEF TypeOK
<1>5. InDown' = InDown /\ InHand' = InHand /\ InReader' = InReader
  BY <1>2 DEF InDown, InHand, InReader
<1>6. OneAnswer' /\ AnswerIsAwaited'
  BY <1>1, <1>2, <1>3, <1>5 DEF OneAnswer, AnswerIsAwaited
<1> QED
  BY <1>4, <1>6 DEF IndInv

LEMMA CommandOK ==
  ASSUME IndInv, Command \/ Loginout
  PROVE  IndInv'
<1>0. currentUser \in User \cup {NoUser}
  BY DEF IndInv, TypeOK
<1>1. CASE Command
  <2> DEFINE r == [kind |-> "command", user |-> currentUser]
  <2>1. r \in Request /\ ~Asks(r)
    BY <1>0 DEF Request, Asks
  <2>2. Transmit(r) /\ pc = "main" /\ pc' \in {"main", "menu"}
        /\ UNCHANGED <<rwsem, isLoginSuccess, currentUser, lists, reader, answer>>
    BY <1>1 DEF Command, client
  <2> HIDE DEF r
  <2> QED
    BY <2>1, <2>2, TellOK
<1>2. CASE Loginout
  <2> DEFINE r == [kind |-> "loginout", user |-> currentUser]
  <2>1. r \in Request /\ ~Asks(r)
    BY <1>0 DEF Request, Asks
  <2>2. Transmit(r) /\ pc = "main" /\ pc' \in {"main", "menu"}
        /\ UNCHANGED <<rwsem, isLoginSuccess, currentUser, lists, reader, answer>>
    BY <1>2 DEF Loginout, state
  <2> HIDE DEF r
  <2> QED
    BY <2>1, <2>2, TellOK
<1> QED
  BY <1>1, <1>2

\* A semaphore that is posted is the only trace of an answer.
LEMMA WakeOK ==
  ASSUME IndInv, Wake
  PROVE  IndInv'
<1>1. TypeOK /\ OneAnswer /\ rwsem = 1
  BY DEF IndInv, Wake, OneAnswer, TypeOK
<1>2. rwsem' = 0 /\ pc' \in {"main", "menu"}
      /\ UNCHANGED <<state, reader, answer, up, down, service, bounds, discarded, shown>>
  BY <1>1 DEF Wake
<1>3. InUp' = InUp /\ InDown' = InDown /\ InHand' = InHand /\ InReader' = InReader
  BY <1>2, PlacesStay DEF service, entries
<1>4. InUp = {} /\ ~InHand /\ InDown = {} /\ ~InReader
  BY <1>1 DEF OneAnswer
<1>5. TypeOK'
  BY <1>1, <1>2 DEF TypeOK, state, service, entries, bounds
<1>6. OneAnswer'
  BY <1>1, <1>2, <1>3, <1>4 DEF OneAnswer, service, entries
<1>7. AnswerIsAwaited'
  BY <1>2, <1>3, <1>4 DEF AnswerIsAwaited
<1> QED
  BY <1>5, <1>6, <1>7 DEF IndInv

\* A client that exits awaits nothing.
LEMMA ExitOK ==
  ASSUME IndInv, Quit \/ RecvEnd
  PROVE  IndInv'
<1>1. TypeOK /\ OneAnswer
  BY DEF IndInv
<1>2. pc' = "exited"
      /\ UNCHANGED <<rwsem, state, reader, answer, up, down, service, bounds, discarded, shown>>
  BY DEF Quit, RecvEnd
<1>3. InUp' = InUp /\ InDown' = InDown /\ InHand' = InHand /\ InReader' = InReader
  BY <1>2, PlacesStay DEF service, entries
<1>4. TypeOK'
  BY <1>1, <1>2 DEF TypeOK, state, service, entries, bounds
<1>5. OneAnswer' /\ AnswerIsAwaited'
  BY <1>1, <1>2, <1>3 DEF OneAnswer, AnswerIsAwaited, service, entries
<1> QED
  BY <1>4, <1>5 DEF IndInv

LEMMA RecvOK ==
  ASSUME IndInv, NEW n \in 1..Len(down), Recv(n)
  PROVE  IndInv'
<1>1. TypeOK /\ OneAnswer /\ AnswerIsAwaited
  BY DEF IndInv
<1>2. /\ reader = "recv" /\ pc # "exited" /\ down' = Rest(down, n)
      /\ UNCHANGED <<rwsem, state, up, service, bounds, discarded>>
  BY DEF Recv
<1>3. /\ down' \in Seq(Pieces(Answer, 2))
      /\ InDown' # {} => InDown # {}
      /\ AtMostOne(InDown')
      /\ down[1][2] = 1 /\ IsAnswer(down[1][1]) => InDown' = {} /\ InDown # {}
  <2>1. AtMostOne(InDown) /\ down \in Seq(Pieces(Answer, 2))
    BY <1>1 DEF OneAnswer, AtMostOne, TypeOK
  <2> QED
    BY <1>2, <2>1, DownRead
<1>4. InUp' = InUp /\ InHand' = InHand
  BY <1>2 DEF InUp, InHand, service, entries
<1>5. SubSeq(down, 1, n)[1] = down[1] /\ down[1][1] \in Answer
  <2>1. down \in Seq(Pieces(Answer, 2)) /\ Len(down) \in Nat
    BY <1>1 DEF TypeOK
  <2>2. 1 \in 1..n /\ down[1] \in Pieces(Answer, 2)
    BY <2>1
  <2> QED
    BY <2>1, <2>2 DEF Pieces
<1>6. \/ /\ down[1][2] = 1 /\ IsAnswer(down[1][1])
         /\ reader' = "respond" /\ answer' = down[1][1]
         /\ UNCHANGED <<pc, shown>>
      \/ /\ shown' = shown \cup {<<currentUser, down[1][1].user>>}
         /\ UNCHANGED <<pc, reader, answer>>
      \/ pc' = "exited" /\ UNCHANGED <<reader, answer, shown>>
  BY <1>5 DEF Recv, OneText
<1>7. down[1][1].user \in User \cup {NoUser}
  BY <1>5 DEF Answer
<1>8. UNCHANGED <<rwsem, isLoginSuccess, currentUser, lists, up, loop, request, functors,
                  userConnMap, crossed, asked, chats, discarded>>
  BY <1>2 DEF state, service, entries, bounds
<1>9. TypeOK'
  <2>1. /\ pc' \in {"menu", "main", "exited"} \cup Waits
        /\ reader' \in {"recv", "respond", "post"}
        /\ answer' \in Answer \cup {Nothing}
    BY <1>1, <1>5, <1>6 DEF TypeOK
  <2>2. shown' \in SUBSET ((User \cup {NoUser}) \X (User \cup {NoUser}))
    BY <1>1, <1>6, <1>7 DEF TypeOK
  <2> QED
    BY <1>1, <1>3, <1>8, <2>1, <2>2 DEF TypeOK
<1>10. CASE /\ down[1][2] = 1 /\ IsAnswer(down[1][1])
            /\ reader' = "respond" /\ answer' = down[1][1]
            /\ UNCHANGED <<pc, shown>>
  <2>1. InDown' = {} /\ InDown # {} /\ InReader'
    BY <1>3, <1>10 DEF InReader
  <2>2. InUp = {} /\ ~InHand /\ rwsem = 0
    BY <1>1, <2>1 DEF OneAnswer
  <2>3. OneAnswer'
    BY <1>1, <1>4, <1>5, <1>8, <1>10, <2>1, <2>2 DEF OneAnswer
  <2>4. AnswerIsAwaited'
    BY <1>1, <1>10, <2>1 DEF AnswerIsAwaited
  <2> QED
    BY <1>9, <2>3, <2>4 DEF IndInv
<1>11. CASE reader' = reader /\ (pc' = pc \/ pc' = "exited")
  <2>1. InReader' = InReader /\ ~InReader
    BY <1>2, <1>11 DEF InReader
  <2>2. OneAnswer'
    BY <1>1, <1>3, <1>4, <1>8, <2>1 DEF OneAnswer, AtMostOne
  <2>3. AnswerIsAwaited'
    BY <1>1, <1>3, <1>4, <1>8, <1>11, <2>1 DEF AnswerIsAwaited
  <2> QED
    BY <1>9, <2>2, <2>3 DEF IndInv
<1> QED
  BY <1>6, <1>10, <1>11

LEMMA RespondOK ==
  ASSUME IndInv, Respond
  PROVE  IndInv'
<1>1. TypeOK /\ OneAnswer /\ AnswerIsAwaited
  BY DEF IndInv
<1>2. /\ reader = "respond" /\ reader' = "post"
      /\ UNCHANGED <<pc, rwsem, answer, up, down, loop, request, functors, userConnMap, crossed,
                     asked, chats, discarded, shown>>
  BY DEF Respond, service, entries, bounds
<1>3. InUp' = InUp /\ InDown' = InDown /\ InHand' = InHand /\ InReader' = InReader
  BY <1>2 DEF InUp, InDown, InHand, InReader
<1>4. answer \in Answer
  BY <1>1, <1>2 DEF OneAnswer, InReader
<1>5. /\ isLoginSuccess' \in BOOLEAN
      /\ currentUser' \in User \cup {NoUser}
      /\ lists' \in [List -> User \cup {NoUser}]
  <2>1. answer.ok \in BOOLEAN /\ answer.user \in User \cup {NoUser}
    BY <1>4 DEF Answer
  <2>2. CASE UNCHANGED state
    BY <1>1, <2>2 DEF state, TypeOK
  <2>3. CASE /\ isLoginSuccess' = SuccessOf(answer)
             /\ currentUser' = IF answer.ok THEN answer.user ELSE currentUser
             /\ lists' = [l \in List |-> IF l \in answer.lists THEN answer.user ELSE lists[l]]
    BY <1>1, <2>1, <2>3 DEF TypeOK, SuccessOf
  <2> QED
    BY <2>2, <2>3 DEF Respond
<1>6. TypeOK'
  BY <1>1, <1>2, <1>5 DEF TypeOK
<1>7. OneAnswer' /\ AnswerIsAwaited'
  BY <1>1, <1>2, <1>3 DEF OneAnswer, AnswerIsAwaited
<1> QED
  BY <1>6, <1>7 DEF IndInv

LEMMA PostOK ==
  ASSUME IndInv, Post
  PROVE  IndInv'
<1>1. TypeOK /\ OneAnswer /\ AnswerIsAwaited
  BY DEF IndInv
<1>2. /\ reader = "post" /\ reader' = "recv" /\ answer' = Nothing /\ rwsem' = rwsem + 1
      /\ UNCHANGED <<pc, isLoginSuccess, currentUser, lists, up, down, loop, request, functors,
                     userConnMap, crossed, asked, chats, discarded, shown>>
  BY DEF Post, service, entries, bounds, state
<1>3. InUp' = InUp /\ InDown' = InDown /\ InHand' = InHand /\ InReader /\ ~InReader'
  BY <1>2 DEF InUp, InDown, InHand, InReader
<1>4. rwsem = 0 /\ rwsem' = 1 /\ InUp = {} /\ ~InHand /\ InDown = {}
  BY <1>1, <1>2, <1>3 DEF OneAnswer
<1>5. TypeOK'
  BY <1>1, <1>2, <1>4 DEF TypeOK
<1>6. OneAnswer'
  BY <1>1, <1>2, <1>3, <1>4 DEF OneAnswer
<1>7. AnswerIsAwaited'
  BY <1>1, <1>2, <1>3 DEF AnswerIsAwaited
<1> QED
  BY <1>5, <1>6, <1>7 DEF IndInv

-----------------------------------------------------------------------------
(* The steps of the loop.                                                  *)

LEMMA OnMessageOK ==
  ASSUME IndInv, NEW n \in 1..Len(up), OnMessage(n)
  PROVE  IndInv'
<1>1. TypeOK /\ OneAnswer /\ AnswerIsAwaited
  BY DEF IndInv
<1>2. /\ loop = "poll" /\ up' = Rest(up, n)
      /\ UNCHANGED <<pc, rwsem, isLoginSuccess, currentUser, lists, reader, answer,
                     down, asked, chats, shown>>
  BY DEF OnMessage, client, bounds
<1>3. /\ up' \in Seq(Pieces(Request, 3))
      /\ InUp' # {} => InUp # {}
      /\ AtMostOne(InUp')
      /\ up[1][2] = 1 /\ Asks(up[1][1]) => InUp' = {} /\ InUp # {}
  <2>1. AtMostOne(InUp) /\ up \in Seq(Pieces(Request, 3))
    BY <1>1 DEF OneAnswer, AtMostOne, TypeOK
  <2> QED
    BY <1>2, <2>1, UpRead
<1>4. SubSeq(up, 1, n)[1] = up[1] /\ up[1][1] \in Request
  <2>1. up \in Seq(Pieces(Request, 3)) /\ Len(up) \in Nat
    BY <1>1 DEF TypeOK
  <2>2. 1 \in 1..n /\ up[1] \in Pieces(Request, 3)
    BY <2>1
  <2> QED
    BY <2>1, <2>2 DEF Pieces
<1>5. \/ /\ up[1][2] = 1 /\ request' = up[1][1] /\ loop' = "handle"
         /\ discarded' \in BOOLEAN
         /\ UNCHANGED <<functors, userConnMap, crossed>>
      \/ /\ loop' = "ended" /\ request' = Nothing /\ functors' = <<>>
         /\ userConnMap' = {} /\ crossed' = {}
         /\ UNCHANGED discarded
  BY <1>1, <1>4 DEF OnMessage, BeginsWithText, Ends, TypeOK, entries
<1>6. TypeOK'
  <2>1. /\ loop' \in {"poll", "handle", "ack", "functors", "closed", "ended"}
        /\ request' \in Request \cup {Nothing}
        /\ discarded' \in BOOLEAN
    BY <1>1, <1>4, <1>5 DEF TypeOK
  <2>2. functors' \in Seq(User) /\ userConnMap' \in SUBSET User /\ crossed' \in SUBSET User
    <3>1. functors \in Seq(User) /\ userConnMap \in SUBSET User /\ crossed \in SUBSET User
      BY <1>1 DEF TypeOK
    <3>2. CASE UNCHANGED <<functors, userConnMap, crossed>>
      BY <3>1, <3>2
    <3>3. CASE functors' = <<>> /\ userConnMap' = {} /\ crossed' = {}
      BY <3>3
    <3> QED
      BY <1>5, <3>2, <3>3
  <2> QED
    BY <1>1, <1>2, <1>3, <2>1, <2>2 DEF TypeOK
<1>7. InDown' = InDown /\ InReader' = InReader /\ ~InHand
  BY <1>2 DEF InDown, InReader, InHand
<1>8. CASE InHand'
  <2>1. up[1][2] = 1 /\ Asks(up[1][1]) /\ loop' = "handle" /\ request' = up[1][1]
    BY <1>5, <1>8 DEF InHand
  <2>2. InUp' = {} /\ InUp # {}
    BY <1>3, <2>1
  <2>3. InDown = {} /\ ~InReader /\ rwsem = 0
    BY <1>1, <2>2 DEF OneAnswer
  <2>4. OneAnswer'
    BY <1>1, <1>2, <1>4, <1>7, <2>1, <2>2, <2>3 DEF OneAnswer
  <2>5. AnswerIsAwaited'
    BY <1>1, <1>2, <2>2 DEF AnswerIsAwaited
  <2> QED
    BY <1>6, <2>4, <2>5 DEF IndInv
<1>9. CASE ~InHand'
  <2>1. OneAnswer'
    BY <1>1, <1>2, <1>3, <1>4, <1>5, <1>7, <1>9 DEF OneAnswer, AtMostOne
  <2>2. AnswerIsAwaited'
    BY <1>1, <1>2, <1>3, <1>7, <1>9 DEF AnswerIsAwaited
  <2> QED
    BY <1>6, <2>1, <2>2 DEF IndInv
<1> QED
  BY <1>8, <1>9

\* The answer takes the place of the request that was in hand.
LEMMA AnswerOK ==
  ASSUME IndInv, InHand, NEW a \in Answer, IsAnswer(a), Reply(a), Return,
         UNCHANGED <<client, up, functors, userConnMap, crossed, bounds, discarded, shown>>
  PROVE  IndInv'
<1>1. TypeOK /\ OneAnswer /\ AnswerIsAwaited
  BY DEF IndInv
<1>2. loop' = "functors" /\ request' = Nothing
  BY DEF Return, AfterHandler
<1>3. UNCHANGED <<pc, rwsem, isLoginSuccess, currentUser, lists, reader, answer, up,
                  functors, userConnMap, crossed, asked, chats, discarded, shown>>
  BY DEF client, bounds
<1>4. InUp = {} /\ InDown = {} /\ ~InReader /\ rwsem = 0
  BY <1>1 DEF OneAnswer
<1>5. down' \in Seq(Pieces(Answer, 2)) /\ AtMostOne(InDown')
  BY <1>1, <1>4, DownSent DEF TypeOK
<1>6. TypeOK'
  BY <1>1, <1>2, <1>3, <1>5 DEF TypeOK
<1>7. InUp' = InUp /\ InReader' = InReader /\ ~InHand'
  BY <1>2, <1>3 DEF InUp, InReader, InHand
<1>8. OneAnswer'
  BY <1>2, <1>3, <1>4, <1>5, <1>7 DEF OneAnswer, AtMostOne
<1>9. AnswerIsAwaited'
  BY <1>1, <1>3 DEF AnswerIsAwaited
<1> QED
  BY <1>6, <1>8, <1>9 DEF IndInv

LEMMA RepliesOK ==
  ASSUME IndInv, LoginRefused \/ LoginAck \/ RegAck
  PROVE  IndInv'
<1>1. TypeOK /\ OneAnswer
  BY DEF IndInv
<1>2. InHand /\ request \in Request
  BY <1>1 DEF LoginRefused, LoginAck, RegAck, Handles, InHand, Asks, OneAnswer
<1>3. request.user \in User \cup {NoUser}
  BY <1>2 DEF Request
<1>4. PICK a : /\ a \in Answer /\ IsAnswer(a) /\ Reply(a) /\ Return
               /\ UNCHANGED <<client, up, functors, userConnMap, crossed, bounds, discarded, shown>>
  <2>1. CASE LoginRefused
    <3> DEFINE b == [kind |-> "login", user |-> request.user, ok |-> FALSE, lists |-> {}]
    <3>1. b \in Answer /\ IsAnswer(b)
      BY <1>3 DEF Answer, IsAnswer
    <3>2. Reply(b)
      BY <2>1 DEF LoginRefused
    <3> HIDE DEF b
    <3> QED
      BY <2>1, <3>1, <3>2 DEF LoginRefused, entries
  <2>2. CASE LoginAck
    <3>1. PICK L \in SUBSET List :
            Reply([kind |-> "login", user |-> request.user, ok |-> TRUE, lists |-> L])
      BY <2>2 DEF LoginAck
    <3> DEFINE b == [kind |-> "login", user |-> request.user, ok |-> TRUE, lists |-> L]
    <3>2. b \in Answer /\ IsAnswer(b)
      BY <1>3 DEF Answer, IsAnswer
    <3>3. Reply(b)
      BY <3>1
    <3> HIDE DEF b
    <3> QED
      BY <2>2, <3>2, <3>3 DEF LoginAck, entries
  <2>3. CASE RegAck
    <3>1. PICK ok \in BOOLEAN :
            Reply([kind |-> "reg", user |-> NoUser, ok |-> ok, lists |-> {}])
      BY <2>3 DEF RegAck
    <3> DEFINE b == [kind |-> "reg", user |-> NoUser, ok |-> ok, lists |-> {}]
    <3>2. b \in Answer /\ IsAnswer(b)
      BY DEF Answer, IsAnswer
    <3>3. Reply(b)
      BY <3>1
    <3> HIDE DEF b
    <3> QED
      BY <2>3, <3>2, <3>3 DEF RegAck, entries
  <2> QED
    BY <2>1, <2>2, <2>3
<1> QED
  BY <1>2, <1>4, AnswerOK

LEMMA LoginInsertOK ==
  ASSUME IndInv, LoginInsert
  PROVE  IndInv'
<1>1. TypeOK /\ OneAnswer /\ AnswerIsAwaited
  BY DEF IndInv
<1>2. /\ loop = "handle" /\ request.kind = "login" /\ loop' = "ack"
      /\ userConnMap' \subseteq userConnMap \cup {request.user}
      /\ crossed' \subseteq crossed \cup {request.user}
      /\ UNCHANGED <<pc, rwsem, isLoginSuccess, currentUser, lists, reader, answer, up, down,
                     request, functors, asked, chats, discarded, shown>>
  BY DEF LoginInsert, Handles, client, bounds
<1>3. request \in Request /\ request.user \in User
  BY <1>1, <1>2 DEF OneAnswer, Request
<1>4. TypeOK'
  <2>1. userConnMap' \in SUBSET User /\ crossed' \in SUBSET User
    BY <1>1, <1>2, <1>3 DEF TypeOK
  <2> QED
    BY <1>1, <1>2, <2>1 DEF TypeOK
<1>5. InUp' = InUp /\ InDown' = InDown /\ InReader' = InReader /\ InHand /\ InHand'
  BY <1>2 DEF InUp, InDown, InReader, InHand, Asks
<1>6. OneAnswer' /\ AnswerIsAwaited'
  BY <1>1, <1>2, <1>3, <1>5 DEF OneAnswer, AnswerIsAwaited
<1> QED
  BY <1>4, <1>6 DEF IndInv

\* Nothing else the loop does moves an answer.
LEMMA ElsewhereOK ==
  ASSUME IndInv, ~InHand,
         loop' \in {"poll", "functors", "closed", "ended"}, request' \in {request, Nothing},
         functors' \in Seq(User), userConnMap' \in SUBSET User /\ crossed' \in SUBSET User,
         down' \in Seq(Pieces(Answer, 2)), InDown' = InDown,
         chats' \in 0..MaxChats, UNCHANGED <<client, up, asked, discarded, shown>>
  PROVE  IndInv'
<1>1. TypeOK /\ OneAnswer /\ AnswerIsAwaited
  BY DEF IndInv
<1>2. UNCHANGED <<pc, rwsem, isLoginSuccess, currentUser, lists, reader, answer>>
  BY DEF client
<1>3. TypeOK'
  BY <1>1, <1>2 DEF TypeOK
<1>4. InUp' = InUp /\ InReader' = InReader /\ ~InHand'
  BY <1>2 DEF InUp, InReader, InHand
<1>5. OneAnswer' /\ AnswerIsAwaited'
  BY <1>1, <1>2, <1>4 DEF OneAnswer, AnswerIsAwaited
<1> QED
  BY <1>3, <1>5 DEF IndInv

LEMMA HandleCommandOK ==
  ASSUME IndInv, HandleCommand
  PROVE  IndInv'
<1>1. TypeOK
  BY DEF IndInv
<1>2. ~InHand /\ loop' = "functors" /\ request' = Nothing
      /\ UNCHANGED <<client, up, functors, userConnMap, crossed, asked, discarded, shown>>
  BY DEF HandleCommand, Handles, Return, AfterHandler, InHand, Asks, entries
<1>3. down' \in Seq(Pieces(Answer, 2)) /\ InDown' = InDown /\ chats' \in 0..MaxChats
  <2>1. CASE UNCHANGED <<down, chats>>
    BY <1>1, <2>1 DEF TypeOK, InDown
  <2>2. CASE /\ chats < MaxChats /\ chats' = chats + 1
             /\ \E u \in userConnMap : Reply(ChatTo(u))
    <3>1. PICK u \in userConnMap : Reply(ChatTo(u))
      BY <2>2
    <3>2. u \in User
      BY <1>1 DEF TypeOK
    <3>3. ChatTo(u) \in Answer /\ ~IsAnswer(ChatTo(u))
      BY <3>2, ChatIsNoAnswer
    <3>4. down' \in Seq(Pieces(Answer, 2)) /\ InDown' = InDown
      BY <1>1, <3>1, <3>3, DownSent DEF TypeOK
    <3>5. chats' \in 0..MaxChats
      BY <1>1, <2>2, ClientAssumption DEF TypeOK
    <3> QED
      BY <3>4, <3>5
  <2> QED
    BY <2>1, <2>2 DEF HandleCommand
<1> QED
  BY <1>1, <1>2, <1>3, ElsewhereOK DEF TypeOK

LEMMA HandleLoginoutOK ==
  ASSUME IndInv, HandleLoginout
  PROVE  IndInv'
<1>1. TypeOK
  BY DEF IndInv
<1>2. /\ ~InHand /\ loop' = "functors" /\ request' = Nothing
      /\ userConnMap' \subseteq userConnMap /\ crossed' \subseteq crossed
      /\ UNCHANGED <<client, up, down, functors, asked, chats, discarded, shown>>
  BY DEF HandleLoginout, Handles, Return, AfterHandler, InHand, Asks, Erased, bounds
<1>3. down' \in Seq(Pieces(Answer, 2)) /\ InDown' = InDown
  BY <1>1, <1>2 DEF TypeOK, InDown
<1> QED
  BY <1>1, <1>2, <1>3, ElsewhereOK DEF TypeOK

LEMMA DoPendingFunctorsOK ==
  ASSUME IndInv, DoPendingFunctors
  PROVE  IndInv'
<1>1. TypeOK
  BY DEF IndInv
<1>2. /\ ~InHand /\ loop' = "poll" /\ functors' = <<>>
      /\ down' = down \o MessagesTo(functors)
      /\ UNCHANGED <<client, up, request, userConnMap, crossed, asked, chats, discarded, shown>>
  BY DEF DoPendingFunctors, InHand, bounds, entries
<1>3. down' \in Seq(Pieces(Answer, 2)) /\ InDown' = InDown
  BY <1>1, <1>2, ChatsSent DEF TypeOK
<1>4. functors' \in Seq(User)
  BY <1>2
<1> QED
  BY <1>1, <1>2, <1>3, <1>4, ElsewhereOK DEF TypeOK

LEMMA HandleCloseOK ==
  ASSUME IndInv, HandleClose
  PROVE  IndInv'
<1>1. TypeOK
  BY DEF IndInv
<1>2. /\ ~InHand /\ loop' = "closed" /\ functors' = <<>>
      /\ userConnMap' \subseteq userConnMap /\ crossed' \subseteq crossed
      /\ UNCHANGED <<client, up, down, request, asked, chats, discarded, shown>>
  BY DEF HandleClose, InHand, bounds, EntriesLeft
<1>3. /\ down' \in Seq(Pieces(Answer, 2)) /\ InDown' = InDown
      /\ functors' \in Seq(User)
  BY <1>1, <1>2 DEF TypeOK, InDown
<1> QED
  BY <1>1, <1>2, <1>3, ElsewhereOK DEF TypeOK

\* A message another thread queues is not on its way to the client yet.
LEMMA ChatFromElsewhereOK ==
  ASSUME IndInv, NEW u \in User, ChatFromElsewhere(u)
  PROVE  IndInv'
<1>1. TypeOK /\ OneAnswer /\ AnswerIsAwaited
  BY DEF IndInv
<1>2. /\ functors' = Append(functors, u) /\ chats < MaxChats /\ chats' = chats + 1
      /\ UNCHANGED <<pc, rwsem, isLoginSuccess, currentUser, lists, reader, answer, up, down,
                     loop, request, userConnMap, crossed, asked, discarded, shown>>
  BY DEF ChatFromElsewhere, client, entries
<1>3. functors' \in Seq(User) /\ chats' \in 0..MaxChats
  BY <1>1, <1>2, ClientAssumption DEF TypeOK
<1>4. TypeOK'
  BY <1>1, <1>2, <1>3 DEF TypeOK
<1>5. InUp' = InUp /\ InDown' = InDown /\ InHand' = InHand /\ InReader' = InReader
  BY <1>2, PlacesStay
<1>6. OneAnswer' /\ AnswerIsAwaited'
  BY <1>1, <1>2, <1>5 DEF OneAnswer, AnswerIsAwaited
<1> QED
  BY <1>4, <1>6 DEF IndInv

\* Nor is an answer where the loginout of another connection reaches.
LEMMA LoseEntryOK ==
  ASSUME IndInv, NEW u \in User, LoseEntry(u)
  PROVE  IndInv'
<1>1. TypeOK /\ OneAnswer /\ AnswerIsAwaited
  BY DEF IndInv
<1>2. /\ userConnMap' \subseteq userConnMap /\ crossed' = crossed \cup {u}
      /\ UNCHANGED <<pc, rwsem, isLoginSuccess, currentUser, lists, reader, answer, up, down,
                     loop, request, functors, asked, chats, discarded, shown>>
  BY DEF LoseEntry, client, bounds
<1>3. userConnMap' \in SUBSET User /\ crossed' \in SUBSET User
  BY <1>1, <1>2 DEF TypeOK
<1>4. TypeOK'
  BY <1>1, <1>2, <1>3 DEF TypeOK
<1>5. InUp' = InUp /\ InDown' = InDown /\ InHand' = InHand /\ InReader' = InReader
  BY <1>2, PlacesStay
<1>6. OneAnswer' /\ AnswerIsAwaited'
  BY <1>1, <1>2, <1>5 DEF OneAnswer, AnswerIsAwaited
<1> QED
  BY <1>4, <1>6 DEF IndInv

\* The end of the server takes what it had in hand with it.
LEMMA ServerEndsOK ==
  ASSUME IndInv, ServerEnds
  PROVE  IndInv'
<1>1. TypeOK /\ OneAnswer /\ AnswerIsAwaited
  BY DEF IndInv
<1>2. /\ loop' = "ended" /\ request' = Nothing /\ functors' = <<>>
      /\ userConnMap' = {} /\ crossed' = {}
      /\ UNCHANGED <<pc, rwsem, isLoginSuccess, currentUser, lists, reader, answer, up, down,
                     asked, chats, discarded, shown>>
  BY DEF ServerEnds, Ends, client, bounds
<1>3. functors' \in Seq(User) /\ userConnMap' \in SUBSET User /\ crossed' \in SUBSET User
  BY <1>2
<1>4. TypeOK'
  BY <1>1, <1>2, <1>3 DEF TypeOK
<1>5. InUp' = InUp /\ InDown' = InDown /\ InReader' = InReader /\ ~InHand'
  BY <1>2 DEF InUp, InDown, InReader, InHand
<1>6. OneAnswer' /\ AnswerIsAwaited'
  BY <1>1, <1>2, <1>5 DEF OneAnswer, AnswerIsAwaited
<1> QED
  BY <1>4, <1>6 DEF IndInv

LEMMA StutterOK ==
  ASSUME IndInv, UNCHANGED vars
  PROVE  IndInv'
<1>1. UNCHANGED <<pc, rwsem, isLoginSuccess, currentUser, lists, reader, answer, up, down,
                  loop, request, functors, userConnMap, crossed, asked, chats, discarded, shown>>
  BY DEF vars, client, service, entries, bounds
<1>2. InUp' = InUp /\ InDown' = InDown /\ InHand' = InHand /\ InReader' = InReader
  BY <1>1, PlacesStay
<1> QED
  BY <1>1, <1>2 DEF IndInv, TypeOK, OneAnswer, AnswerIsAwaited

-----------------------------------------------------------------------------
(* The theorems.                                                           *)

LEMMA NextOK ==
  ASSUME IndInv, [Next]_vars
  PROVE  IndInv'
<1>1. CASE MainStep
  BY <1>1, WakeOK, CommandOK, RegisterOK, ExitOK, LoginOK DEF MainStep
<1>2. CASE ReaderStep
  BY <1>2, ExitOK, RespondOK, PostOK, RecvOK DEF ReaderStep
<1>3. CASE LoopStep
  <2>1. CASE HandlerStep
    BY <2>1, RepliesOK, LoginInsertOK, HandleCommandOK, HandleLoginoutOK DEF HandlerStep
  <2>2. CASE \E n \in 1..Len(up) : OnMessage(n)
    BY <2>2, OnMessageOK
  <2> QED
    BY <1>3, <2>1, <2>2, DoPendingFunctorsOK, HandleCloseOK DEF LoopStep
<1>4. CASE ServerEnds
  BY <1>4, ServerEndsOK
<1>5. CASE \E u \in User : ChatFromElsewhere(u) \/ LoseEntry(u)
  BY <1>5, ChatFromElsewhereOK, LoseEntryOK
<1>6. CASE UNCHANGED vars
  BY <1>6, StutterOK
<1> QED
  BY <1>1, <1>2, <1>3, <1>4, <1>5, <1>6 DEF Next

\* In every run of client and server, for every number of requests, messages
\* and accounts, the answer to a login or a registration, or the request for
\* it, is in one place: in a stream, in the hands of a thread, or in rwsem.
THEOREM ClientInductive == Spec => []IndInv
<1>1. Init => IndInv
  BY InitOK
<1>2. IndInv /\ [Next]_vars => IndInv'
  BY NextOK
<1> QED
  BY <1>1, <1>2, PTL DEF Spec

\* No answer is on its way to a main thread that does not wait: what the
\* receiving thread writes of the session is not read meanwhile, and sem_wait
\* never returns for the answer to an earlier request.
THEOREM AnswersAreAwaited == Spec => []AnswerIsAwaited
<1>1. IndInv => AnswerIsAwaited
  BY DEF IndInv
<1> QED
  BY <1>1, ClientInductive, PTL

-----------------------------------------------------------------------------
(* What the server reads, and what the client sends, of whole requests.    *)

\* A whole request at the head of the stream is three pieces, and the next
\* follows it.
LEMMA WholeRead ==
  ASSUME NEW s \in Seq(Pieces(Request, 3)), s # <<>>, Whole(s), s[1][2] = 1
  PROVE  /\ Len(s) >= 3
         /\ Rest(s, 3) # <<>> =>
              /\ Rest(s, 3)[1][2] = 1 /\ Follows(s[1][1], Rest(s, 3)[1][1])
              /\ Rest(s, 3)[Len(Rest(s, 3))] = s[Len(s)]
         /\ Whole(Rest(s, 3))
         /\ Rest(s, 3) = <<>> => s[Len(s)][1] = s[1][1]
         /\ Rest(s, 2) # <<>> /\ Rest(s, 2)[1][2] = 3
<1>1. /\ s[Len(s)][2] = 3 /\ \A i \in 1..(Len(s) - 1) : Succeeds(s[i], s[i + 1])
      /\ Len(s) \in Nat /\ Len(s) >= 1
  BY DEF Whole
<1>2. Len(s) > 1 /\ s[2] = <<s[1][1], 2>>
  <2>1. Len(s) # 1
    BY <1>1
  <2>2. Succeeds(s[1], s[1 + 1])
    BY <1>1, <2>1
  <2> QED
    BY <1>1, <2>1, <2>2 DEF Succeeds
<1>3. Len(s) > 2 /\ s[3] = <<s[1][1], 3>>
  <2>1. Len(s) # 2
    BY <1>1, <1>2
  <2>2. Succeeds(s[2], s[2 + 1])
    BY <1>1, <1>2, <2>1
  <2> QED
    BY <1>1, <1>2, <2>1, <2>2 DEF Succeeds
<1>4. /\ Rest(s, 3) \in Seq(Pieces(Request, 3)) /\ Len(Rest(s, 3)) = Len(s) - 3
      /\ \A i \in 1..(Len(s) - 3) : Rest(s, 3)[i] = s[i + 3]
  <2>1. 3 \in 1..Len(s)
    BY <1>1, <1>3
  <2> QED
    BY <2>1, RestOf
<1>5. /\ Rest(s, 2) \in Seq(Pieces(Request, 3)) /\ Len(Rest(s, 2)) = Len(s) - 2
      /\ \A i \in 1..(Len(s) - 2) : Rest(s, 2)[i] = s[i + 2]
  <2>1. 2 \in 1..Len(s)
    BY <1>1, <1>3
  <2> QED
    BY <2>1, RestOf
<1>6. Rest(s, 2) # <<>> /\ Rest(s, 2)[1] = s[3]
  BY <1>1, <1>3, <1>5
<1> DEFINE r == Rest(s, 3)
<1> HIDE DEF r
<1>7. CASE r = <<>>
  <2>1. Len(s) = 3
    BY <1>1, <1>4, <1>7 DEF r
  <2>2. Whole(r) /\ s[Len(s)][1] = s[1][1]
    BY <1>3, <1>7, <2>1 DEF Whole
  <2> QED
    BY <1>3, <1>6, <1>7, <2>2 DEF r
<1>8. CASE r # <<>>
  <2>1. Len(s) > 3 /\ Len(r) = Len(s) - 3
    BY <1>1, <1>3, <1>4, <1>8 DEF r
  <2>2. r[1] = s[4] /\ r[Len(r)] = s[Len(s)]
    BY <1>1, <1>4, <2>1 DEF r
  <2>3. Succeeds(s[3], s[3 + 1])
    BY <1>1, <2>1
  <2>4. r[1][2] = 1 /\ Follows(s[1][1], r[1][1])
    BY <1>3, <2>2, <2>3 DEF Succeeds
  <2>5. ASSUME NEW i \in 1..(Len(r) - 1) PROVE Succeeds(r[i], r[i + 1])
    <3>1. i + 3 \in 1..(Len(s) - 1) /\ i \in 1..(Len(s) - 3) /\ i + 1 \in 1..(Len(s) - 3)
      BY <1>1, <2>1
    <3>2. Succeeds(s[i + 3], s[(i + 3) + 1])
      BY <1>1, <3>1
    <3>3. r[i] = s[i + 3] /\ r[i + 1] = s[(i + 3) + 1]
      BY <1>4, <3>1 DEF r
    <3> QED
      BY <3>2, <3>3
  <2>6. Whole(r)
    BY <1>1, <2>2, <2>5 DEF Whole
  <2> QED
    BY <1>3, <1>6, <1>8, <2>2, <2>4, <2>6 DEF r
<1> QED
  BY <1>7, <1>8

LEMMA WholeSent ==
  ASSUME NEW s \in Seq(Pieces(Request, 3)), NEW r \in Request,
         Whole(s), s # <<>> => Follows(s[Len(s)][1], r),
         NEW q, q = s \o << <<r, 1>>, <<r, 2>>, <<r, 3>> >>
  PROVE  Whole(q) /\ q # <<>> /\ q[Len(q)][1] = r
<1> DEFINE t == << <<r, 1>>, <<r, 2>>, <<r, 3>> >>
<1>1. /\ t \in Seq(Pieces(Request, 3)) /\ Len(t) = 3
      /\ t[1] = <<r, 1>> /\ t[2] = <<r, 2>> /\ t[3] = <<r, 3>>
  BY DEF Pieces
<1> HIDE DEF t
<1>2. /\ Len(s) \in Nat /\ Len(q) = Len(s) + 3
      /\ \A i \in 1..Len(s) : q[i] = s[i]
      /\ q[Len(s) + 1] = t[1] /\ q[Len(s) + 2] = t[2] /\ q[Len(s) + 3] = t[3]
      /\ q \in Seq(Pieces(Request, 3))
  BY <1>1 DEF t
<1>3. q[Len(q)] = <<r, 3>> /\ q # <<>>
  BY <1>1, <1>2
<1>4. ASSUME NEW i \in 1..(Len(q) - 1) PROVE Succeeds(q[i], q[i + 1])
  <2>1. CASE i < Len(s)
    <3>1. s # <<>> /\ Succeeds(s[i], s[i + 1]) /\ q[i] = s[i] /\ q[i + 1] = s[i + 1]
      BY <1>2, <2>1 DEF Whole
    <3> QED
      BY <3>1
  <2>2. CASE i = Len(s)
    <3>1. s # <<>> /\ s[i][2] = 3 /\ Follows(s[i][1], r) /\ q[i] = s[i]
      BY <1>2, <2>2 DEF Whole
    <3>2. q[i + 1] = <<r, 1>>
      BY <1>1, <1>2, <2>2
    <3>3. Succeeds(s[i], <<r, 1>>)
      BY <3>1 DEF Succeeds
    <3> QED
      BY <3>1, <3>2, <3>3
  <2>3. CASE i = Len(s) + 1 \/ i = Len(s) + 2
    <3>1. \/ q[i] = <<r, 1>> /\ q[i + 1] = <<r, 2>>
          \/ q[i] = <<r, 2>> /\ q[i + 1] = <<r, 3>>
      <4>1. i = Len(s) + 1 => i + 1 = Len(s) + 2
        BY <1>2
      <4>2. i = Len(s) + 2 => i + 1 = Len(s) + 3
        BY <1>2
      <4> QED
        BY <1>1, <1>2, <2>3, <4>1, <4>2
    <3>2. Succeeds(<<r, 1>>, <<r, 2>>) /\ Succeeds(<<r, 2>>, <<r, 3>>)
      BY DEF Succeeds
    <3> QED
      BY <3>1, <3>2
  <2> QED
    BY <1>2, <1>4, <2>1, <2>2, <2>3
<1>5. q[Len(q)][2] = 3 /\ q[Len(q)][1] = r
  BY <1>3
<1>6. Whole(q)
  BY <1>4, <1>5 DEF Whole
<1> QED
  BY <1>3, <1>5, <1>6

-----------------------------------------------------------------------------
(* Which account the client becomes as it handles what is on its way.      *)

LEMMA Concatenated ==
  ASSUME NEW s \in Seq(Pieces(Answer, 2)), NEW t \in Seq(Pieces(Answer, 2))
  PROVE  /\ Len(s \o t) = Len(s) + Len(t)
         /\ DOMAIN (s \o t) = 1..(Len(s) + Len(t))
         /\ \A i \in 1..Len(s) : (s \o t)[i] = s[i]
         /\ \A i \in 1..Len(t) : (s \o t)[Len(s) + i] = t[i]
OBVIOUS

\* Pieces appended after s say nothing of the places of s, and if there is no
\* accepted login among them, the client stays what s makes it.
LEMMA BecomesAppend ==
  ASSUME NEW s \in Seq(Pieces(Answer, 2)), NEW t \in Seq(Pieces(Answer, 2)), NEW u, NEW v
  PROVE  /\ \A i \in 1..Len(s) : Becomes(u, v, s \o t, i) <=> Becomes(u, v, s, i)
         /\ (\A i \in DOMAIN t : t[i][2] = 1 => ~Accepted(t[i][1])) =>
              \A i \in Len(s)..Len(s \o t) : Becomes(u, v, s \o t, i) <=> Becomes(u, v, s, Len(s))
<1>0. PICK q : q = s \o t
  OBVIOUS
<1>1. /\ Len(q) = Len(s) + Len(t)
      /\ Len(s) \in Nat /\ Len(t) \in Nat
      /\ \A i \in 1..Len(s) : q[i] = s[i]
      /\ \A i \in 1..Len(t) : q[Len(s) + i] = t[i]
      /\ DOMAIN s = 1..Len(s) /\ DOMAIN t = 1..Len(t)
  <2>1. /\ Len(s \o t) = Len(s) + Len(t)
        /\ \A i \in 1..Len(s) : (s \o t)[i] = s[i]
        /\ \A i \in 1..Len(t) : (s \o t)[Len(s) + i] = t[i]
    BY Concatenated
  <2>2. Len(s) \in Nat /\ Len(t) \in Nat /\ DOMAIN s = 1..Len(s) /\ DOMAIN t = 1..Len(t)
    OBVIOUS
  <2> QED
    BY <1>0, <2>1, <2>2
<1>2. DOMAIN q = 1..Len(q)
  <2>1. DOMAIN (s \o t) = 1..(Len(s) + Len(t))
    BY Concatenated
  <2> QED
    BY <1>0, <1>1, <2>1
<1>3. ASSUME NEW i \in 1..Len(s) PROVE Becomes(u, v, q, i) <=> Becomes(u, v, s, i)
  <2>1. Logins(q, i) = Logins(s, i)
    BY <1>1, <1>2 DEF Logins
  <2>2. \A k \in Logins(s, i) : q[k] = s[k]
    BY <1>1 DEF Logins
  <2> QED
    BY <2>1, <2>2 DEF Becomes
<1>4. ASSUME \A i \in DOMAIN t : t[i][2] = 1 => ~Accepted(t[i][1]), NEW i \in Len(s)..Len(q)
      PROVE  Becomes(u, v, q, i) <=> Becomes(u, v, s, Len(s))
  <2>1. ASSUME NEW k \in Logins(q, i) PROVE k \in Logins(s, Len(s))
    <3>1. k \in 1..Len(q) /\ q[k][2] = 1 /\ Accepted(q[k][1])
      BY <1>2 DEF Logins
    <3>2. CASE k <= Len(s)
      BY <1>1, <3>1, <3>2 DEF Logins
    <3>3. CASE k > Len(s)
      <4>1. k - Len(s) \in 1..Len(t) /\ Len(s) + (k - Len(s)) = k
        BY <1>1, <3>1, <3>3
      <4>2. q[k] = t[k - Len(s)]
        BY <1>1, <4>1
      <4> QED
        BY <1>1, <1>4, <3>1, <4>1, <4>2
    <3> QED
      BY <1>1, <3>1, <3>2, <3>3
  <2>2. ASSUME NEW k \in Logins(s, Len(s)) PROVE k \in Logins(q, i) /\ q[k] = s[k]
    BY <1>1, <1>2, <1>4 DEF Logins
  <2>3. Logins(q, i) = Logins(s, Len(s))
    BY <2>1, <2>2
  <2> QED
    BY <2>2, <2>3 DEF Becomes
<1> QED
  BY <1>0, <1>3, <1>4

\* The answer to a login that is accepted decides what the client becomes.
LEMMA BecomesAccepted ==
  ASSUME NEW s \in Seq(Pieces(Answer, 2)), NEW a \in Answer, Accepted(a),
         Logins(s, Len(s)) = {}, NEW t \in Seq(Pieces(Answer, 2)), Len(t) = 2,
         t[1] = <<a, 1>>, t[2] = <<a, 2>>, NEW q, q = s \o t, NEW v
  PROVE  Becomes(a.user, v, q, Len(q))
<1>1. /\ Len(q) = Len(s) + Len(t) /\ DOMAIN q = 1..Len(q)
      /\ \A i \in 1..Len(s) : q[i] = s[i]
      /\ \A i \in 1..Len(t) : q[Len(s) + i] = t[i]
  <2>1. /\ Len(s \o t) = Len(s) + Len(t)
        /\ DOMAIN (s \o t) = 1..(Len(s) + Len(t))
        /\ \A i \in 1..Len(s) : (s \o t)[i] = s[i]
        /\ \A i \in 1..Len(t) : (s \o t)[Len(s) + i] = t[i]
    BY Concatenated
  <2> QED
    BY <2>1
<1>2. /\ Len(q) = Len(s) + 2 /\ Len(s) \in Nat /\ DOMAIN q = 1..Len(q)
      /\ \A i \in 1..Len(s) : q[i] = s[i]
      /\ q[Len(s) + 1] = <<a, 1>> /\ q[Len(s) + 2] = <<a, 2>>
  BY <1>1
<1>3. ASSUME NEW k \in Logins(q, Len(q)) PROVE q[k][1] = a
  <2>1. k \in 1..Len(q) /\ q[k][2] = 1 /\ Accepted(q[k][1])
    BY <1>2 DEF Logins
  <2>2. ~(k <= Len(s))
    BY <1>2, <2>1 DEF Logins
  <2>3. k = Len(s) + 1 \/ k = Len(s) + 2
    BY <1>2, <2>1, <2>2
  <2> QED
    BY <1>2, <2>3
<1>4. Len(s) + 1 \in Logins(q, Len(q))
  BY <1>2 DEF Logins
<1> QED
  BY <1>3, <1>4 DEF Becomes

\* Once the head of the stream is handled, what is behind it makes the client
\* what it would have made it.
LEMMA BecomesRest ==
  ASSUME NEW s \in Seq(Pieces(Answer, 2)), 2 <= Len(s), s[2][2] = 2,
         NEW v, NEW w, NEW u,
         s[1][2] = 1 /\ Accepted(s[1][1]) =>
           w = s[1][1].user /\ \A k \in Logins(s, Len(s)) : k = 1,
         ~(s[1][2] = 1 /\ Accepted(s[1][1])) => w = v,
         NEW i \in 0..(Len(s) - 2), Becomes(u, v, s, i + 2)
  PROVE  Becomes(u, w, Rest(s, 2), i)
<1> DEFINE r == Rest(s, 2)
<1>1. /\ Len(s) \in Nat
      /\ r \in Seq(Pieces(Answer, 2)) /\ Len(r) = Len(s) - 2
      /\ \A j \in 1..(Len(s) - 2) : r[j] = s[j + 2]
  BY RestOf
<1> HIDE DEF r
<1>2. DOMAIN r = 1..(Len(s) - 2) /\ DOMAIN s = 1..Len(s)
  BY <1>1
<1>3. ASSUME NEW k \in Logins(r, i) PROVE k + 2 \in Logins(s, i + 2) /\ r[k] = s[k + 2]
  <2>1. k \in 1..(Len(s) - 2) /\ k <= i /\ r[k][2] = 1 /\ Accepted(r[k][1])
    BY <1>2 DEF Logins
  <2> QED
    BY <1>1, <1>2, <2>1 DEF Logins
<1>4. ASSUME NEW k \in Logins(s, i + 2), k # 1 PROVE k - 2 \in Logins(r, i)
  <2>1. k \in 1..Len(s) /\ k <= i + 2 /\ s[k][2] = 1 /\ Accepted(s[k][1])
    BY <1>2 DEF Logins
  <2>2. k # 2
    BY <2>1
  <2>3. k - 2 \in 1..(Len(s) - 2) /\ k - 2 <= i /\ (k - 2) + 2 = k
    BY <1>1, <1>4, <2>1, <2>2
  <2>4. r[k - 2] = s[k]
    BY <1>1, <2>3
  <2> QED
    BY <1>2, <2>1, <2>3, <2>4 DEF Logins
<1>5. CASE s[1][2] = 1 /\ Accepted(s[1][1])
  <2>1. ASSUME NEW k \in Logins(r, i) PROVE FALSE
    <3>1. k + 2 \in Logins(s, i + 2) /\ k \in 1..(Len(s) - 2)
      BY <1>2, <1>3 DEF Logins
    <3>2. k + 2 \in Logins(s, Len(s))
      BY <1>1, <1>2, <3>1 DEF Logins
    <3>3. k + 2 = 1
      BY <1>5, <3>2
    <3> QED
      BY <3>1, <3>3
  <2>2. 1 \in Logins(s, i + 2)
    BY <1>1, <1>2, <1>5 DEF Logins
  <2>3. u = s[1][1].user
    BY <2>2 DEF Becomes
  <2> QED
    BY <1>5, <2>1, <2>3 DEF Becomes, r
<1>6. CASE ~(s[1][2] = 1 /\ Accepted(s[1][1]))
  <2>1. 1 \notin Logins(s, i + 2)
    BY <1>6 DEF Logins
  <2>2. CASE Logins(s, i + 2) = {}
    <3>1. Logins(r, i) = {}
      BY <1>3, <2>2
    <3> QED
      BY <1>6, <2>2, <3>1 DEF Becomes, r
  <2>3. CASE Logins(s, i + 2) # {}
    <3>1. Logins(r, i) # {}
      BY <1>4, <2>1, <2>3
    <3>2. \A k \in Logins(r, i) : u = r[k][1].user
      BY <1>3, <2>3 DEF Becomes
    <3> QED
      BY <3>1, <3>2 DEF Becomes, r
  <2> QED
    BY <2>2, <2>3
<1> QED
  BY <1>5, <1>6

-----------------------------------------------------------------------------
(* What a step that leaves part of the state alone leaves true.            *)

LEMMA KindsStay ==
  ASSUME KindsAgree, pc' = pc \/ pc' \notin Waits,
         UNCHANGED <<up, down, loop, request, reader, answer>>
  PROVE  KindsAgree'
<1>1. InUp' = InUp /\ InDown' = InDown /\ InHand' = InHand
  BY DEF InUp, InDown, InHand
<1>2. CASE pc' \notin Waits
  BY <1>2 DEF KindsAgree
<1>3. CASE pc' = pc
  BY <1>1, <1>3 DEF KindsAgree, Awaited
<1> QED
  BY <1>2, <1>3

LEMMA ServerStays ==
  ASSUME ServerSession, UNCHANGED <<up, loop, request, Session>>
  PROVE  ServerSession' /\ (Reads' <=> Reads) /\ (Handling' <=> Handling)
BY DEF ServerSession, Reads, Handling

LEMMA ChatsStay ==
  ASSUME ChatsFit, pc = "exited" => pc' = "exited", UNCHANGED down, Now' = Now,
         Session' \subseteq Session, functors' = functors \/ functors' = <<>>,
         \/ UNCHANGED <<loop, request>>
         \/ loop # "ack" /\ loop' # "ack"
         \/ Session' = {} /\ functors' = <<>>
  PROVE  ChatsFit'
<1> SUFFICES ASSUME pc' # "exited"
             PROVE  ChatsFit'
  BY DEF ChatsFit
<1>1. \A u, i : IsCurrent(u, i)' <=> IsCurrent(u, i)
  BY DEF IsCurrent
<1>2. \A i \in Chats(down)' : IsCurrent(down[i][1].user, i)'
  BY <1>1 DEF ChatsFit, IsCurrent
<1>3. loop' # "ack" => \A u \in Session' : IsCurrent(u, Len(down))'
  BY <1>1 DEF ChatsFit, IsCurrent

<1>4. ASSUME NEW j \in DOMAIN functors'
      PROVE  IF loop' = "ack" THEN functors'[j] = request'.user
             ELSE IsCurrent(functors[j], Len(down))'
  <2>1. functors' = functors
    BY <1>4
  <2>2. IF loop = "ack" THEN functors[j] = request.user ELSE IsCurrent(functors[j], Len(down))
    BY <1>4, <2>1 DEF ChatsFit
  <2> QED
    BY <1>1, <1>4, <2>1, <2>2 DEF IsCurrent
<1> QED
  BY <1>2, <1>3, <1>4 DEF ChatsFit, IsCurrent

\* The parts of the invariant that say nothing of the streams.
LEMMA ShownStay ==
  ASSUME SessionInv, UNCHANGED <<shown, discarded>>,
         loop' = "closed" => loop = "closed" /\ userConnMap' \subseteq userConnMap
  PROVE  NoForeignChat' /\ NoEntryOutlives'
BY DEF SessionInv, NoForeignChat, NoEntryOutlives

\* The last piece of whole requests ends a request that is there from its
\* first piece on.
LEMMA WholeLast ==
  ASSUME NEW s \in Seq(Pieces(Request, 3)), s # <<>>, Whole(s), s[1][2] = 1
  PROVE  \E i \in DOMAIN s : s[i][2] = 1 /\ s[i][1] = s[Len(s)][1]
<1>1. /\ Len(s) \in Nat /\ Len(s) >= 3 /\ s[Len(s)][2] = 3
      /\ \A i \in 1..(Len(s) - 1) : Succeeds(s[i], s[i + 1])
  BY WholeRead DEF Whole
<1>2. \A i \in 1..Len(s) : s[i] \in Pieces(Request, 3)
  OBVIOUS
<1> DEFINE x == s[Len(s) - 2]
           y == s[Len(s) - 1]
           z == s[Len(s)]
<1>3. Succeeds(x, y) /\ Succeeds(y, z)
  <2>1. /\ Len(s) - 2 \in 1..(Len(s) - 1) /\ Len(s) - 1 \in 1..(Len(s) - 1)
        /\ (Len(s) - 2) + 1 = Len(s) - 1 /\ (Len(s) - 1) + 1 = Len(s)
    BY <1>1
  <2> QED
    BY <1>1, <2>1
<1>4. x \in Pieces(Request, 3) /\ y \in Pieces(Request, 3) /\ z[2] = 3
  <2>1. Len(s) - 2 \in 1..Len(s) /\ Len(s) - 1 \in 1..Len(s)
    BY <1>1
  <2> QED
    BY <1>1, <1>2, <2>1
<1>5. Len(s) - 2 \in DOMAIN s
  BY <1>1
<1> HIDE DEF x, y, z
<1>6. y[2] = 2 /\ y[1] = z[1]
  BY <1>3, <1>4 DEF Succeeds, Pieces
<1>7. x[2] = 1 /\ x[1] = y[1]
  BY <1>3, <1>4, <1>6 DEF Succeeds, Pieces
<1> QED
  BY <1>5, <1>6, <1>7 DEF x, z

-----------------------------------------------------------------------------
(* The steps of the client.                                                *)

LEMMA SessionInit ==
  ASSUME Init
  PROVE  SessionInv
<1>1. IndInv
  BY InitOK
<1>2. /\ pc = "menu" /\ loop = "poll" /\ up = <<>> /\ down = <<>> /\ functors = <<>>
      /\ userConnMap = {} /\ Session = {} /\ shown = {} /\ reader = "recv" /\ rwsem = 0
  BY DEF Init, Session
<1>3. KindsAgree /\ NothingQueued /\ NoForeignChat /\ NoEntryOutlives
  BY <1>2 DEF KindsAgree, Waits, NothingQueued, NoForeignChat, NoEntryOutlives
<1>4. ServerSession
  BY <1>2 DEF ServerSession, Whole
<1>5. ClientSession
  BY <1>2 DEF ClientSession, Handling, AllHandled, Waits
<1>6. ChatsFit
  BY <1>2 DEF ChatsFit, Chats
<1> QED
  BY <1>1, <1>3, <1>4, <1>5, <1>6 DEF SessionInv

\* The stream after a request is sent.
LEMMA StreamSent ==
  ASSUME up \in Seq(Pieces(Request, 3)), NEW r \in Request,
         up' = up \o << <<r, 1>>, <<r, 2>>, <<r, 3>> >>
  PROVE  /\ Len(up) \in Nat /\ Len(up') = Len(up) + 3 /\ DOMAIN up' = 1..(Len(up) + 3)
         /\ \A i \in 1..Len(up) : up'[i] = up[i]
         /\ up'[Len(up) + 1] = <<r, 1>>
         /\ \A i \in (Len(up) + 1)..(Len(up) + 3) : up'[i][1] = r
<1>1. PICK t : t = << <<r, 1>>, <<r, 2>>, <<r, 3>> >>
  OBVIOUS
<1>2. t \in Seq(Pieces(Request, 3))
  BY <1>1 DEF Pieces
<1>3. Len(t) = 3 /\ t[1] = <<r, 1>> /\ t[2] = <<r, 2>> /\ t[3] = <<r, 3>>
  BY <1>1
<1>4. /\ Len(up \o t) = Len(up) + Len(t)
      /\ DOMAIN (up \o t) = 1..(Len(up) + Len(t))
      /\ \A i \in 1..Len(up) : (up \o t)[i] = up[i]
      /\ \A i \in 1..Len(t) : (up \o t)[Len(up) + i] = t[i]
  BY <1>2
<1>5. Len(up) \in Nat /\ up' = up \o t
  BY <1>1
<1>6. /\ Len(up') = Len(up) + 3 /\ DOMAIN up' = 1..(Len(up) + 3)
      /\ \A i \in 1..Len(up) : up'[i] = up[i]
      /\ \A i \in 1..3 : up'[Len(up) + i] = t[i]
  BY <1>3, <1>4, <1>5
<1>7. up'[Len(up) + 1] = <<r, 1>>
  BY <1>3, <1>6
<1>8. ASSUME NEW i \in (Len(up) + 1)..(Len(up) + 3) PROVE up'[i][1] = r
  <2>1. i - Len(up) \in 1..3 /\ Len(up) + (i - Len(up)) = i
    BY <1>5
  <2>2. up'[i] = t[i - Len(up)]
    BY <1>6, <2>1
  <2>3. \A j \in 1..3 : t[j][1] = r
    BY <1>3
  <2> QED
    BY <2>1, <2>2, <2>3
<1> QED
  BY <1>5, <1>6, <1>7, <1>8

\* A request that is sent follows what was sent before, and fits what the
\* server has when all that is handled.
LEMMA SessionSent ==
  ASSUME IndInv, ServerSession, ClientSession, NEW r \in Request, Transmit(r), pc # "exited",
         SentLast(up[Len(up)][1]) => Follows(up[Len(up)][1], r),
         SentLast(request) => Follows(request, r),
         AllHandled => Fits(r, Session)
  PROVE  /\ ServerSession'
         /\ Reads' => up' # <<>> /\ up'[Len(up')][1] = r
<1>1. UNCHANGED <<down, loop, request, functors, userConnMap, Session, chats, discarded, shown>>
  BY DEF Transmit, service, entries, Session
<1>2. up \in Seq(Pieces(Request, 3))
  BY DEF IndInv, TypeOK
<1>3. CASE loop = "ended"
  BY <1>1, <1>3 DEF ServerSession, Reads
<1>4. CASE loop # "ended"
  <2>1. up' = up \o << <<r, 1>>, <<r, 2>>, <<r, 3>> >>
    BY <1>4 DEF Transmit
  <2>2. /\ Len(up') = Len(up) + 3 /\ Len(up) \in Nat
        /\ \A i \in 1..Len(up) : up'[i] = up[i]
        /\ up'[Len(up) + 1] = <<r, 1>>
    BY <1>2, <2>1, StreamSent
  <2>4. up' # <<>> /\ (up # <<>> => up'[1] = up[1]) /\ (up = <<>> => up'[1] = <<r, 1>>)
    <3>1. up # <<>> => 1 \in 1..Len(up)
      BY <1>2, <2>2
    <3> QED
      BY <1>2, <2>2, <3>1
  <2>5. Reads' <=> Reads
    BY <1>1, <2>4 DEF Reads
  <2>6. ASSUME Reads
        PROVE  Whole(up') /\ up'[Len(up')][1] = r
    <3>1. Whole(up) /\ (up # <<>> => Follows(up[Len(up)][1], r))
      BY <2>6 DEF ServerSession, ClientSession
    <3>2. \A q : q = up \o << <<r, 1>>, <<r, 2>>, <<r, 3>> >> => Whole(q) /\ q[Len(q)][1] = r
      BY <1>2, <3>1, WholeSent
    <3> QED
      BY <2>1, <3>2
  <2>7. ASSUME Reads
        PROVE  IF Handling THEN Follows(request, up'[1][1]) ELSE Fits(up'[1][1], Session)
    <3>1. CASE up = <<>>
      BY <2>4, <2>7, <3>1 DEF ClientSession
    <3>2. CASE up # <<>>
      BY <2>4, <2>7, <3>2 DEF ServerSession
    <3> QED
      BY <3>1, <3>2
  <2> QED
    BY <1>1, <2>4, <2>5, <2>6, <2>7 DEF ServerSession, Handling
<1> QED
  BY <1>3, <1>4

\* Of the heads in the stream only that of the request that is sent is new.
LEMMA HeadsSent ==
  ASSUME up \in Seq(Pieces(Request, 3)), NEW r \in Request, Transmit(r), InUp = {}
  PROVE  \A i \in InUp' : up'[i][1] = r
<1> SUFFICES ASSUME NEW i \in InUp'
             PROVE  up'[i][1] = r
  OBVIOUS
<1>1. i \in DOMAIN up' /\ up'[i][2] = 1 /\ Asks(up'[i][1])
  BY DEF InUp
<1>2. CASE up' = up
  BY <1>1, <1>2 DEF InUp
<1>3. CASE up' = up \o << <<r, 1>>, <<r, 2>>, <<r, 3>> >>
  <2>1. /\ DOMAIN up' = 1..(Len(up) + 3) /\ Len(up) \in Nat /\ DOMAIN up = 1..Len(up)
        /\ \A j \in 1..Len(up) : up'[j] = up[j]
        /\ \A j \in (Len(up) + 1)..(Len(up) + 3) : up'[j][1] = r
    BY <1>3, StreamSent
  <2>2. ~(i <= Len(up))
    BY <1>1, <2>1 DEF InUp
  <2> QED
    BY <1>1, <2>1, <2>2
<1> QED
  BY <1>2, <1>3 DEF Transmit

LEMMA SessionAsked ==
  ASSUME SessionInv, IndInv', NEW r \in Request, Asks(r), Transmit(r),
         pc = "menu", pc' \in Waits,
         r.kind = IF pc' = "wait_login" THEN "login" ELSE "reg",
         UNCHANGED <<rwsem, currentUser, lists, reader, answer>>
  PROVE  SessionInv'
<1>1. /\ IndInv /\ KindsAgree /\ NothingQueued
      /\ InUp = {} /\ ~InHand /\ InDown = {} /\ ~InReader /\ rwsem = 0
      /\ up \in Seq(Pieces(Request, 3))
  BY DEF SessionInv, IndInv, AnswerIsAwaited, TypeOK
<1>2. UNCHANGED <<down, loop, request, functors, userConnMap, Session, chats, discarded, shown>>
  BY DEF Transmit, service, entries, Session
<1>3. KindsAgree'
  <2>1. InHand' = InHand /\ InDown' = InDown /\ reader' # "respond"
    BY <1>1, <1>2 DEF InHand, InDown, InReader
  <2>2. \A i \in InUp' : up'[i][1] = r
    BY <1>1, HeadsSent
  <2> QED
    BY <1>1, <2>1, <2>2 DEF KindsAgree, Awaited
<1>4. NothingQueued'
  BY <1>1, <1>2 DEF NothingQueued
<1>5. ASSUME ~discarded PROVE ServerSession' /\ ClientSession' /\ ChatsFit'
  <2>1. ServerSession /\ ClientSession /\ ChatsFit
    BY <1>5 DEF SessionInv
  <2>2. /\ ServerSession'
        /\ Reads' => up' # <<>> /\ up'[Len(up')][1] = r
    <3>1. \A q : SentLast(q) => Follows(q, r)
      BY DEF SentLast, Follows
    <3>2. AllHandled => Fits(r, Session)
      BY DEF AllHandled, Fits
    <3> QED
      BY <1>1, <2>1, <3>1, <3>2, SessionSent
  <2>3. SentLast(r)'
    BY DEF SentLast, Waits
  <2>4. ClientSession'
    BY <2>2, <2>3 DEF ClientSession, SentLast
  <2>5. Now' = Now
    BY DEF Now
  <2>6. ChatsFit'
    BY <1>2, <2>1, <2>5, ChatsStay
  <2> QED
    BY <2>2, <2>4, <2>6
<1>6. NoForeignChat' /\ NoEntryOutlives'
  BY <1>2, ShownStay
<1> QED
  BY <1>2, <1>3, <1>4, <1>5, <1>6 DEF SessionInv

LEMMA SessionAsk ==
  ASSUME SessionInv, IndInv', Register \/ \E u \in User : Login(u)
  PROVE  SessionInv'
<1>1. CASE Register
  <2> DEFINE r == [kind |-> "reg", user |-> NoUser]
  <2>1. r \in Request /\ Asks(r) /\ r.kind = "reg"
    BY DEF Request, Asks
  <2>2. Transmit(r) /\ pc = "menu" /\ pc' = "wait_reg"
        /\ UNCHANGED <<rwsem, currentUser, lists, reader, answer>>
    BY <1>1 DEF Register, state
  <2> HIDE DEF r
  <2> QED
    BY <2>1, <2>2, SessionAsked DEF Waits
<1>2. CASE \E u \in User : Login(u)
  <2>0. PICK u \in User : Login(u)
    BY <1>2
  <2> DEFINE r == [kind |-> "login", user |-> u]
  <2>1. r \in Request /\ Asks(r) /\ r.kind = "login"
    BY DEF Request, Asks
  <2>2. Transmit(r) /\ pc = "menu" /\ pc' = "wait_login"
        /\ UNCHANGED <<rwsem, currentUser, lists, reader, answer>>
    BY <2>0 DEF Login
  <2> HIDE DEF r
  <2> QED
    BY <2>1, <2>2, SessionAsked DEF Waits
<1> QED
  BY <1>1, <1>2

LEMMA SessionTold ==
  ASSUME SessionInv, IndInv', NEW r \in Request, r.user = currentUser, Transmit(r), pc = "main",
         \/ r.kind = "command" /\ pc' = "main"
         \/ r.kind = "loginout" /\ (pc' = "menu" \/ (pc' = "main" /\ loop = "ended")),
         UNCHANGED <<rwsem, isLoginSuccess, currentUser, lists, reader, answer>>
  PROVE  SessionInv'
<1>1. IndInv /\ KindsAgree /\ NothingQueued
  BY DEF SessionInv
<1>2. UNCHANGED <<down, loop, request, functors, userConnMap, Session, chats, discarded, shown>>
  BY DEF Transmit, service, entries, Session
<1>3. KindsAgree'
  BY DEF KindsAgree, Waits
<1>4. NothingQueued'
  BY <1>1, <1>2 DEF NothingQueued
<1>5. ASSUME ~discarded PROVE ServerSession' /\ ClientSession' /\ ChatsFit'
  <2>1. ServerSession /\ ClientSession /\ ChatsFit
    BY <1>5 DEF SessionInv
  <2>2. ~Asks(r)
    BY DEF Asks
  <2>3. /\ ServerSession'
        /\ Reads' => up' # <<>> /\ up'[Len(up')][1] = r
    <3>1. \A q : SentLast(q) => Follows(q, r)
      BY <2>2 DEF SentLast, Follows
    <3>2. AllHandled => Fits(r, Session)
      BY <2>2 DEF AllHandled, Fits
    <3> QED
      BY <1>1, <2>1, <3>1, <3>2, SessionSent
  <2>4. Reads' => SentLast(r)'
    BY <1>2 DEF SentLast, Reads
  <2>5. ClientSession'
    BY <2>3, <2>4 DEF ClientSession, SentLast
  <2>6. Now' = Now
    BY DEF Now
  <2>7. ChatsFit'
    BY <1>2, <2>1, <2>6, ChatsStay
  <2> QED
    BY <2>3, <2>5, <2>7
<1>6. NoForeignChat' /\ NoEntryOutlives'
  BY <1>2, ShownStay
<1> QED
  BY <1>2, <1>3, <1>4, <1>5, <1>6 DEF SessionInv

LEMMA SessionTell ==
  ASSUME SessionInv, IndInv', Command \/ Loginout
  PROVE  SessionInv'
<1>0. currentUser \in User \cup {NoUser}
  BY DEF SessionInv, IndInv, TypeOK
<1>1. CASE Command
  <2> DEFINE r == [kind |-> "command", user |-> currentUser]
  <2>1. r \in Request /\ r.kind = "command" /\ r.user = currentUser
    BY <1>0 DEF Request
  <2>2. Transmit(r) /\ pc = "main" /\ pc' = "main"
        /\ UNCHANGED <<rwsem, isLoginSuccess, currentUser, lists, reader, answer>>
    BY <1>1 DEF Command, client
  <2> HIDE DEF r
  <2> QED
    BY <2>1, <2>2, SessionTold
<1>2. CASE Loginout
  <2> DEFINE r == [kind |-> "loginout", user |-> currentUser]
  <2>1. r \in Request /\ r.kind = "loginout" /\ r.user = currentUser
    BY <1>0 DEF Request
  <2>2. Transmit(r) /\ pc = "main" /\ (pc' = "menu" \/ (pc' = "main" /\ loop = "ended"))
        /\ UNCHANGED <<rwsem, isLoginSuccess, currentUser, lists, reader, answer>>
    BY <1>2 DEF Loginout, state
  <2> HIDE DEF r
  <2> QED
    BY <2>1, <2>2, SessionTold
<1> QED
  BY <1>1, <1>2

\* The main thread learns what the answer said once nothing is on its way.
LEMMA SessionWake ==
  ASSUME SessionInv, IndInv', Wake
  PROVE  SessionInv'
<1>1. /\ IndInv /\ NothingQueued
      /\ up \in Seq(Pieces(Request, 3))
      /\ InUp = {} /\ ~InHand /\ InDown = {} /\ ~InReader
  BY DEF SessionInv, IndInv, OneAnswer, TypeOK, Wake
<1>2. /\ pc \in Waits /\ rwsem > 0
      /\ pc' = IF pc = "wait_login" /\ isLoginSuccess THEN "main" ELSE "menu"
      /\ UNCHANGED <<isLoginSuccess, currentUser, lists, reader, answer, up, down, loop, request,
                     functors, userConnMap, Session, discarded, shown>>
  BY DEF Wake, state, service, entries, Session
<1>3. KindsAgree'
  BY <1>2 DEF KindsAgree, Waits
<1>4. NothingQueued'
  BY <1>1, <1>2 DEF NothingQueued
<1>5. ASSUME ~discarded PROVE ServerSession' /\ ClientSession' /\ ChatsFit'
  <2>1. ServerSession /\ ClientSession /\ ChatsFit
    BY <1>5 DEF SessionInv
  <2>2. ServerSession' /\ (Reads' <=> Reads) /\ (Handling' <=> Handling)
    BY <1>2, <2>1, ServerStays
  <2>3. ASSUME Reads PROVE up = <<>> /\ ~Handling /\ AllHandled
    <3>0. \A q : SentLast(q) => Asks(q)
      BY <1>2 DEF SentLast, Waits
    <3>1. CASE up # <<>>
      <4>1. Asks(up[Len(up)][1])
        BY <1>2, <2>1, <2>3, <3>0, <3>1 DEF ClientSession, Waits
      <4>2. PICK i \in DOMAIN up : up[i][2] = 1 /\ up[i][1] = up[Len(up)][1]
        BY <1>1, <2>1, <2>3, <3>1, WholeLast DEF ServerSession, Reads
      <4>3. i \in InUp
        BY <4>1, <4>2 DEF InUp
      <4> QED
        BY <1>1, <4>3
    <3>2. CASE up = <<>>
      <4>1. ~Handling
        BY <1>1, <1>2, <2>1, <2>3, <3>0, <3>2 DEF ClientSession, Handling, InHand, Waits
      <4> QED
        BY <1>2, <2>1, <2>3, <3>2, <4>1 DEF ClientSession, Waits
    <3> QED
      BY <3>1, <3>2
  <2>4. AllHandled => AllHandled'
    BY <1>2 DEF AllHandled, Waits
  <2>5. ClientSession'
    BY <1>2, <2>2, <2>3, <2>4 DEF ClientSession
  <2>6. Now' = Now
    BY <1>2 DEF Now
  <2>7. ChatsFit'
    BY <1>2, <2>1, <2>6, ChatsStay DEF Waits
  <2> QED
    BY <2>2, <2>5, <2>7
<1>6. NoForeignChat' /\ NoEntryOutlives'
  BY <1>2, ShownStay
<1> QED
  BY <1>2, <1>3, <1>4, <1>5, <1>6 DEF SessionInv

LEMMA SessionExit ==
  ASSUME SessionInv, IndInv', Quit \/ RecvEnd
  PROVE  SessionInv'
<1>1. /\ pc' = "exited"
      /\ UNCHANGED <<reader, answer, up, down, loop, request, functors,
                     userConnMap, Session, discarded, shown>>
  BY DEF Quit, RecvEnd, service, entries, Session
<1>2. KindsAgree' /\ NothingQueued'
  BY <1>1 DEF SessionInv, KindsAgree, Waits, NothingQueued
<1>3. ASSUME ~discarded PROVE ServerSession' /\ ClientSession' /\ ChatsFit'
  <2>1. ServerSession
    BY <1>3 DEF SessionInv
  <2>2. ServerSession'
    BY <1>1, <2>1, ServerStays
  <2> QED
    BY <1>1, <2>2 DEF ClientSession, ChatsFit
<1>4. NoForeignChat' /\ NoEntryOutlives'
  BY <1>1, ShownStay
<1> QED
  BY <1>1, <1>2, <1>3, <1>4 DEF SessionInv

\* What is left behind the pieces read was there before them.
LEMMA DownLeft ==
  ASSUME down \in Seq(Pieces(Answer, 2)), NEW n \in 1..Len(down), down' = Rest(down, n)
  PROVE  /\ \A i \in InDown' : i + n \in InDown /\ down'[i] = down[i + n]
         /\ \A i \in Chats(down)' : i + n \in Chats(down) /\ down'[i] = down[i + n]
         /\ Len(down') = Len(down) - n /\ DOMAIN down' = 1..(Len(down) - n)
<1>1. /\ Rest(down, n) \in Seq(Pieces(Answer, 2))
      /\ Len(Rest(down, n)) = Len(down) - n
      /\ \A i \in 1..(Len(down) - n) : Rest(down, n)[i] = down[i + n]
  BY RestOf
<1>2. Len(down) \in Nat /\ DOMAIN down = 1..Len(down)
  OBVIOUS
<1>3. Len(down') = Len(down) - n /\ DOMAIN down' = 1..(Len(down) - n)
  BY <1>1
<1>4. ASSUME NEW i \in DOMAIN down' PROVE i + n \in DOMAIN down /\ down'[i] = down[i + n]
  BY <1>1, <1>2, <1>3
<1> QED
  BY <1>3, <1>4 DEF InDown, Chats

\* After a text is read, what is behind it makes the client what it would have.
LEMMA ChatsRead ==
  ASSUME IndInv, ChatsFit, pc # "exited", 2 <= Len(down), down[2][2] = 2, down[1][2] = 1,
         down' = Rest(down, 2), UNCHANGED <<pc, Session, functors, loop, request>>,
         Now' = IF Accepted(down[1][1]) THEN down[1][1].user ELSE Now
  PROVE  ChatsFit'
<1>1. /\ down \in Seq(Pieces(Answer, 2)) /\ Len(down) \in Nat
      /\ \A i, j \in InDown : i = j
  BY DEF IndInv, TypeOK, OneAnswer
<1>2. 2 \in 1..Len(down)
  BY <1>1
<1>3. /\ \A i \in Chats(down)' : i + 2 \in Chats(down) /\ down'[i] = down[i + 2]
      /\ Len(down') = Len(down) - 2 /\ DOMAIN down' = 1..(Len(down) - 2)
  BY <1>1, <1>2, DownLeft
<1>4. ASSUME Accepted(down[1][1]) PROVE \A k \in Logins(down, Len(down)) : k = 1
  <2>1. \A k \in Logins(down, Len(down)) : k \in InDown
    BY DEF Logins, InDown, Accepted, IsAnswer
  <2>2. 1 \in InDown
    BY <1>1, <1>4 DEF InDown, Accepted, IsAnswer
  <2> QED
    BY <1>1, <2>1, <2>2
<1>5. ASSUME NEW u, NEW i \in 0..(Len(down) - 2), IsCurrent(u, i + 2)
      PROVE  Becomes(u, Now', down', i)
  <2>1. Becomes(u, Now, down, i + 2)
    BY <1>5 DEF IsCurrent
  <2>2. PICK w : w = Now'
    OBVIOUS
  <2>3. PICK v : v = Now
    OBVIOUS
  <2>4. w = IF Accepted(down[1][1]) THEN down[1][1].user ELSE v
    BY <2>2, <2>3
  <2>5. Becomes(u, w, Rest(down, 2), i)
    BY <1>1, <1>4, <2>1, <2>3, <2>4, BecomesRest
  <2> QED
    BY <2>2, <2>5
<1>6. ASSUME NEW i \in Chats(down)' PROVE Becomes(down'[i][1].user, Now', down', i)
  <2>1. i \in 0..(Len(down) - 2) /\ i + 2 \in Chats(down) /\ down'[i] = down[i + 2]
    BY <1>1, <1>3 DEF Chats
  <2>2. IsCurrent(down[i + 2][1].user, i + 2)
    BY <2>1 DEF ChatsFit
  <2> QED
    BY <1>5, <2>1, <2>2
<1>7. ASSUME NEW u, IsCurrent(u, Len(down)) PROVE Becomes(u, Now', down', Len(down'))
  <2>1. Len(down') \in 0..(Len(down) - 2) /\ Len(down') + 2 = Len(down)
    BY <1>1, <1>3
  <2> QED
    BY <1>5, <1>7, <2>1
<1> QED
  BY <1>6, <1>7 DEF ChatsFit, IsCurrent

LEMMA SessionRecv ==
  ASSUME SessionInv, IndInv', NEW n \in 1..Len(down), Recv(n)
  PROVE  SessionInv'
<1>1. /\ IndInv /\ KindsAgree /\ NothingQueued
      /\ down \in Seq(Pieces(Answer, 2)) /\ Len(down) \in Nat
  BY DEF SessionInv, IndInv, TypeOK
<1>2. /\ pc # "exited" /\ reader = "recv" /\ down' = Rest(down, n)
      /\ UNCHANGED <<rwsem, isLoginSuccess, currentUser, lists, up, loop, request, functors,
                     userConnMap, Session, discarded>>
  BY DEF Recv, state, service, entries, Session
<1>3. PICK a : a = down[1][1]
  OBVIOUS
<1>4. SubSeq(down, 1, n)[1] = down[1] /\ (n >= 2 => SubSeq(down, 1, n)[2] = down[2])
      /\ Len(SubSeq(down, 1, n)) = n
  BY <1>1
<1>5. \A i \in InDown' : i + n \in InDown /\ down'[i] = down[i + n]
  BY <1>1, <1>2, DownLeft
<1>6. NothingQueued'
  BY <1>1, <1>2 DEF NothingQueued
<1>7. InUp' = InUp /\ InHand' = InHand
  BY <1>2 DEF InUp, InHand
<1>8. ~discarded => ServerSession' /\ (Reads' <=> Reads) /\ (Handling' <=> Handling)
  BY <1>2, ServerStays DEF SessionInv
<1>9. NoEntryOutlives'
  BY <1>2 DEF SessionInv, NoEntryOutlives
<1>10. CASE pc' = "exited" /\ shown' = shown
  <2>1. KindsAgree' /\ NoForeignChat'
    BY <1>2, <1>10 DEF SessionInv, KindsAgree, Waits, NoForeignChat
  <2> QED
    BY <1>2, <1>6, <1>8, <1>9, <1>10, <2>1 DEF SessionInv, ClientSession, ChatsFit
<1>11. CASE n = 2 /\ down[1][2] = 1 /\ down[2][2] = 2 /\ IsAnswer(a)
            /\ reader' = "respond" /\ answer' = a /\ UNCHANGED <<pc, shown>>
  <2>1. 1 \in InDown /\ InUp = {} /\ ~InHand /\ rwsem = 0 /\ pc \notin {"menu", "main"}
    <3>1. 1 \in InDown
      BY <1>1, <1>3, <1>11 DEF InDown
    <3> QED
      BY <1>1, <3>1 DEF IndInv, OneAnswer, AnswerIsAwaited
  <2>2. InDown' = {}
    BY <1>11 DEF IndInv, OneAnswer, InReader
  <2>3. KindsAgree'
    BY <1>1, <1>3, <1>7, <1>11, <2>1, <2>2 DEF KindsAgree, Awaited
  <2>4. ASSUME ~discarded PROVE ClientSession' /\ ChatsFit'
    <3>1. ClientSession /\ ChatsFit
      BY <2>4 DEF SessionInv
    <3>2. AllHandled => AllHandled'
      BY <1>2, <1>3, <1>11, <2>1, <2>2 DEF AllHandled, Opened
    <3>3. ClientSession'
      BY <1>2, <1>8, <1>11, <2>4, <3>1, <3>2 DEF ClientSession, SentLast
    <3>4. Now' = IF Accepted(down[1][1]) THEN down[1][1].user ELSE Now
      BY <1>2, <1>3, <1>11 DEF Now
    <3>5. ChatsFit'
      BY <1>1, <1>2, <1>11, <3>1, <3>4, ChatsRead
    <3> QED
      BY <3>3, <3>5
  <2>5. NoForeignChat'
    BY <1>2, <1>11 DEF SessionInv, NoForeignChat
  <2> QED
    BY <1>2, <1>6, <1>8, <1>9, <2>3, <2>4, <2>5 DEF SessionInv
<1>12. CASE n = 2 /\ down[1][2] = 1 /\ down[2][2] = 2 /\ ~IsAnswer(a)
            /\ shown' = shown \cup {<<currentUser, a.user>>} /\ UNCHANGED <<pc, reader, answer>>
  <2>1. KindsAgree'
    BY <1>1, <1>2, <1>5, <1>7, <1>12 DEF KindsAgree, Awaited
  <2>2. ASSUME ~discarded PROVE ClientSession' /\ ChatsFit' /\ a.user = currentUser
    <3>1. ClientSession /\ ChatsFit
      BY <2>2 DEF SessionInv
    <3>2. AllHandled => AllHandled'
      BY <1>2, <1>5, <1>12 DEF AllHandled
    <3>3. ClientSession'
      BY <1>2, <1>8, <1>12, <2>2, <3>1, <3>2 DEF ClientSession, SentLast
    <3>4. Now = currentUser /\ Now' = currentUser
      BY <1>2, <1>12 DEF Now
    <3>5. ~Accepted(a)
      BY <1>12 DEF Accepted, IsAnswer
    <3>6. ChatsFit'
      BY <1>1, <1>2, <1>3, <1>12, <3>1, <3>4, <3>5, ChatsRead
    <3>7. 1 \in Chats(down) /\ Logins(down, 1) = {}
      <4>1. DOMAIN down = 1..Len(down) /\ 1 \in DOMAIN down
        BY <1>1, <1>12
      <4> QED
        BY <1>3, <1>12, <3>5, <4>1 DEF Chats, Logins
    <3>8. Becomes(a.user, Now, down, 1)
      BY <1>2, <1>3, <3>1, <3>7 DEF ChatsFit, IsCurrent
    <3> QED
      BY <3>3, <3>4, <3>6, <3>7, <3>8 DEF Becomes
  <2>3. NoForeignChat'
    BY <1>2, <1>12, <2>2 DEF SessionInv, NoForeignChat
  <2> QED
    BY <1>2, <1>6, <1>8, <1>9, <2>1, <2>2, <2>3 DEF SessionInv
<1>13. \/ pc' = "exited" /\ shown' = shown
       \/ /\ n = 2 /\ down[1][2] = 1 /\ down[2][2] = 2 /\ IsAnswer(a)
          /\ reader' = "respond" /\ answer' = a /\ UNCHANGED <<pc, shown>>
       \/ /\ n = 2 /\ down[1][2] = 1 /\ down[2][2] = 2 /\ ~IsAnswer(a)
          /\ shown' = shown \cup {<<currentUser, a.user>>} /\ UNCHANGED <<pc, reader, answer>>
  BY <1>3, <1>4 DEF Recv, OneText
<1> QED
  BY <1>10, <1>11, <1>12, <1>13

LEMMA SessionRespond ==
  ASSUME SessionInv, IndInv', Respond
  PROVE  SessionInv'
<1>1. /\ IndInv /\ KindsAgree /\ NothingQueued
  BY DEF SessionInv
<1>2. /\ pc # "exited" /\ reader = "respond" /\ reader' = "post"
      /\ UNCHANGED <<pc, rwsem, answer, up, down, loop, request, functors,
                     userConnMap, Session, discarded, shown>>
  BY DEF Respond, service, entries, Session
<1>3. InUp = {} /\ ~InHand /\ InDown = {} /\ rwsem = 0 /\ pc \notin {"menu", "main"}
  BY <1>1, <1>2 DEF IndInv, OneAnswer, InReader, AnswerIsAwaited
<1>4. pc \in Waits /\ answer \in Answer
  BY <1>1, <1>2, <1>3 DEF IndInv, TypeOK, OneAnswer, InReader
<1>5. InUp' = InUp /\ InHand' = InHand /\ InDown' = InDown
  BY <1>2 DEF InUp, InHand, InDown
<1>6. KindsAgree' /\ NothingQueued'
  BY <1>1, <1>2, <1>3, <1>5 DEF KindsAgree, NothingQueued
<1>7. \/ /\ answer.kind = "login" /\ isLoginSuccess' = answer.ok
         /\ currentUser' = IF answer.ok THEN answer.user ELSE currentUser
      \/ answer.kind # "login" /\ UNCHANGED <<isLoginSuccess, currentUser>>
  BY DEF Respond, SuccessOf, state
<1>8. ASSUME ~discarded PROVE ServerSession' /\ ClientSession' /\ ChatsFit'
  <2>1. ServerSession /\ ClientSession /\ ChatsFit
    BY <1>8 DEF SessionInv
  <2>2. ServerSession' /\ (Reads' <=> Reads) /\ (Handling' <=> Handling)
    BY <1>2, <2>1, ServerStays
  <2>3. \A q : SentLast(q) => SentLast(q)'
    BY <1>2, <1>4 DEF SentLast, Waits
  <2>4. AllHandled => AllHandled'
    <3>1. answer.kind = Awaited
      BY <1>1, <1>2, <1>4 DEF KindsAgree
    <3> QED
      BY <1>2, <1>3, <1>4, <1>5, <1>7, <3>1 DEF AllHandled, Opened, Accepted, Waits, Awaited
  <2>5. ClientSession'
    BY <1>2, <2>1, <2>2, <2>3, <2>4 DEF ClientSession
  <2>6. Now' = Now
    BY <1>2, <1>7 DEF Now, Accepted
  <2>7. ChatsFit'
    BY <1>2, <2>1, <2>6, ChatsStay
  <2> QED
    BY <2>2, <2>5, <2>7
<1>9. NoForeignChat' /\ NoEntryOutlives'
  BY <1>2, ShownStay
<1> QED
  BY <1>2, <1>6, <1>8, <1>9 DEF SessionInv

LEMMA SessionPost ==
  ASSUME SessionInv, IndInv', Post
  PROVE  SessionInv'
<1>1. /\ IndInv /\ KindsAgree /\ NothingQueued
  BY DEF SessionInv
<1>2. /\ pc # "exited" /\ reader = "post" /\ reader' = "recv" /\ rwsem' = rwsem + 1
      /\ UNCHANGED <<pc, isLoginSuccess, currentUser, up, down, loop, request, functors,
                     userConnMap, Session, discarded, shown>>
  BY DEF Post, service, entries, Session, state
<1>3. InUp = {} /\ ~InHand /\ InDown = {} /\ rwsem = 0
  BY <1>1, <1>2 DEF IndInv, OneAnswer, InReader, AnswerIsAwaited
<1>4. InUp' = InUp /\ InHand' = InHand /\ InDown' = InDown
  BY <1>2 DEF InUp, InHand, InDown
<1>5. KindsAgree' /\ NothingQueued'
  BY <1>1, <1>2, <1>3, <1>4 DEF KindsAgree, NothingQueued
<1>6. ASSUME ~discarded PROVE ServerSession' /\ ClientSession' /\ ChatsFit'
  <2>1. ServerSession /\ ClientSession /\ ChatsFit
    BY <1>6 DEF SessionInv
  <2>2. ServerSession' /\ (Reads' <=> Reads) /\ (Handling' <=> Handling)
    BY <1>2, <2>1, ServerStays
  <2>3. \A q : SentLast(q) => SentLast(q)'
    BY <1>2 DEF SentLast
  <2>4. AllHandled => AllHandled'
    BY <1>2, <1>3, <1>4 DEF AllHandled
  <2>5. ClientSession'
    BY <1>2, <2>1, <2>2, <2>3, <2>4 DEF ClientSession
  <2>6. Now' = Now
    BY <1>2 DEF Now
  <2>7. ChatsFit'
    BY <1>2, <2>1, <2>6, ChatsStay
  <2> QED
    BY <2>2, <2>5, <2>7
<1>7. NoForeignChat' /\ NoEntryOutlives'
  BY <1>2, ShownStay
<1> QED
  BY <1>2, <1>5, <1>6, <1>7 DEF SessionInv

-----------------------------------------------------------------------------
(* The session under the steps of the loop.                                *)

LEMMA HeadsLeft ==
  ASSUME up \in Seq(Pieces(Request, 3)), NEW n \in 1..Len(up), up' = Rest(up, n)
  PROVE  \A i \in InUp' : \E j \in InUp : up'[i] = up[j]
<1>1. /\ Rest(up, n) \in Seq(Pieces(Request, 3))
      /\ Len(Rest(up, n)) = Len(up) - n
      /\ \A i \in 1..(Len(up) - n) : Rest(up, n)[i] = up[i + n]
  BY RestOf
<1>2. Len(up) \in Nat /\ DOMAIN up = 1..Len(up)
  OBVIOUS
<1>3. DOMAIN up' = 1..(Len(up) - n)
  BY <1>1
<1>4. ASSUME NEW i \in DOMAIN up' PROVE i + n \in DOMAIN up /\ up'[i] = up[i + n]
  BY <1>1, <1>2, <1>3
<1> QED
  BY <1>4 DEF InUp

\* A server that is gone holds no session.
LEMMA SessionEnds ==
  ASSUME SessionInv, IndInv', Ends,
         up' = up \/ \E n \in 1..Len(up) : up' = Rest(up, n),
         UNCHANGED <<client, down, discarded, shown>>
  PROVE  SessionInv'
<1>1. /\ IndInv /\ KindsAgree
      /\ UNCHANGED <<pc, rwsem, isLoginSuccess, currentUser, lists, reader, answer>>
  BY DEF SessionInv, client
<1>2. loop' = "ended" /\ functors' = <<>> /\ Session' = {}
  BY DEF Ends, Session
<1>3. \A i \in InUp' : \E j \in InUp : up'[i] = up[j]
  <2>1. CASE up' = up
    BY <2>1 DEF InUp
  <2>2. CASE \E n \in 1..Len(up) : up' = Rest(up, n)
    BY <1>1, <2>2, HeadsLeft DEF IndInv, TypeOK
  <2> QED
    BY <2>1, <2>2
<1>4. KindsAgree'
  <2>1. InDown' = InDown /\ ~InHand'
    BY <1>2 DEF InDown, InHand
  <2> QED
    BY <1>1, <1>3, <2>1 DEF KindsAgree, Awaited
<1>5. ServerSession' /\ ClientSession' /\ NothingQueued'
  BY <1>2 DEF ServerSession, ClientSession, Reads, NothingQueued
<1>6. ASSUME ~discarded PROVE ChatsFit'
  <2>1. Now' = Now
    BY <1>1 DEF Now
  <2> QED
    BY <1>1, <1>2, <1>6, <2>1, ChatsStay DEF SessionInv
<1>7. NoForeignChat' /\ NoEntryOutlives'
  BY <1>2, ShownStay
<1> QED
  BY <1>4, <1>5, <1>6, <1>7 DEF SessionInv

LEMMA SessionMessage ==
  ASSUME SessionInv, IndInv', NEW n \in 1..Len(up), OnMessage(n)
  PROVE  SessionInv'
<1>1. /\ IndInv /\ KindsAgree /\ NothingQueued
      /\ up \in Seq(Pieces(Request, 3)) /\ Len(up) \in Nat /\ up # <<>>
  BY DEF SessionInv, IndInv, TypeOK
<1>2. /\ loop = "poll" /\ up' = Rest(up, n)
      /\ UNCHANGED <<client, pc, rwsem, isLoginSuccess, currentUser, reader, answer, down, shown>>
  BY DEF OnMessage, client
<1>3. PICK r : r = up[1][1]
  OBVIOUS
<1>4. SubSeq(up, 1, n)[1] = up[1] /\ Len(SubSeq(up, 1, n)) = n
  BY <1>1
<1>5. \/ Ends /\ UNCHANGED discarded
      \/ /\ n >= 2 /\ up[1][2] = 1 /\ request' = r /\ loop' = "handle"
         /\ discarded' = (discarded \/ n > 3)
         /\ UNCHANGED <<functors, Session>>
  BY <1>3, <1>4 DEF OnMessage, BeginsWithText, entries, Session
<1>6. CASE Ends /\ UNCHANGED discarded
  BY <1>2, <1>6, SessionEnds
<1>7. CASE /\ n >= 2 /\ up[1][2] = 1 /\ request' = r /\ loop' = "handle"
           /\ discarded' = (discarded \/ n > 3)
           /\ UNCHANGED <<functors, Session>>
  <2>1. KindsAgree'
    <3>1. InDown' = InDown
      BY <1>2 DEF InDown
    <3>2. \A i \in InUp' : \E j \in InUp : up'[i] = up[j]
      BY <1>1, <1>2, HeadsLeft
    <3>3. InHand' => 1 \in InUp
      BY <1>1, <1>3, <1>7 DEF InHand, InUp
    <3> QED
      BY <1>1, <1>2, <1>3, <1>7, <3>1, <3>2, <3>3 DEF KindsAgree, Awaited
  <2>2. NothingQueued'
    BY <1>1, <1>2, <1>7 DEF NothingQueued
  <2>3. NoForeignChat' /\ NoEntryOutlives'
    BY <1>2, <1>7 DEF SessionInv, NoForeignChat, NoEntryOutlives
  <2>4. ASSUME ~discarded' PROVE ServerSession' /\ ClientSession' /\ ChatsFit'
    <3>0. ~discarded /\ ~(n > 3)
      BY <1>7, <2>4
    <3>1. ~discarded /\ ServerSession /\ ClientSession /\ ChatsFit /\ (n = 2 \/ n = 3)
      BY <1>1, <1>7, <3>0 DEF SessionInv
    <3>2. Reads /\ ~Handling /\ Whole(up) /\ Fits(r, Session) /\ Handling'
      BY <1>1, <1>2, <1>3, <1>7, <3>1 DEF Reads, Handling, ServerSession
    <3>3. /\ Rest(up, 3) # <<>> =>
               /\ Rest(up, 3)[1][2] = 1 /\ Follows(up[1][1], Rest(up, 3)[1][1])
               /\ Rest(up, 3)[Len(Rest(up, 3))] = up[Len(up)]
          /\ Whole(Rest(up, 3))
          /\ Rest(up, 3) = <<>> => up[Len(up)][1] = up[1][1]
          /\ Rest(up, 2) # <<>> /\ Rest(up, 2)[1][2] = 3
      BY <1>1, <1>7, <3>2, WholeRead
    <3>4. Now' = Now
      BY <1>2 DEF Now
    <3>5. ChatsFit'
      BY <1>2, <1>7, <3>1, <3>4, ChatsStay
    <3>6. CASE n = 2
      <4>1. ~Reads'
        BY <1>2, <3>3, <3>6 DEF Reads
      <4>2. ServerSession'
        BY <1>7, <3>1, <3>2, <4>1 DEF ServerSession
      <4> QED
        BY <3>5, <4>1, <4>2 DEF ClientSession
    <3>7. CASE n = 3
      <4>1. ServerSession'
        BY <1>2, <1>3, <1>7, <3>1, <3>2, <3>3, <3>7 DEF ServerSession
      <4>2. pc # "exited" => SentLast(up[Len(up)][1])
        BY <1>1, <3>1, <3>2 DEF ClientSession
      <4>3. ClientSession'
        BY <1>2, <1>3, <1>7, <3>2, <3>3, <3>7, <4>2 DEF ClientSession, SentLast
      <4> QED
        BY <3>5, <4>1, <4>3
    <3> QED
      BY <3>1, <3>6, <3>7
  <2> QED
    BY <2>1, <2>2, <2>3, <2>4 DEF SessionInv
<1> QED
  BY <1>5, <1>6, <1>7

\* The answer to what is in hand says what the server has.
LEMMA SessionAnswered ==
  ASSUME SessionInv, IndInv', InHand, loop' = "functors",
         NEW a \in Answer, IsAnswer(a), a.kind = request.kind,
         down' = down \o Message(a),
         ~discarded => Session = Opened(a),
         Accepted(a) => loop = "ack" /\ a.user = request.user,
         ~Accepted(a) => loop = "handle",
         UNCHANGED <<client, up, functors, Session, discarded, shown>>
  PROVE  SessionInv'
<1>1. /\ IndInv /\ KindsAgree /\ NothingQueued
      /\ InUp = {} /\ InDown = {} /\ reader = "recv" /\ rwsem = 0
      /\ down \in Seq(Pieces(Answer, 2)) /\ pc \notin {"menu", "main"}
  BY DEF SessionInv, IndInv, OneAnswer, TypeOK, InReader, AnswerIsAwaited
<1>2. UNCHANGED <<pc, rwsem, isLoginSuccess, currentUser, reader, answer>>
  BY DEF client
<1>3. PICK t : t = Message(a)
  OBVIOUS
<1>4. t \in Seq(Pieces(Answer, 2))
  BY <1>3 DEF Message, Pieces
<1>5. Len(t) = 2 /\ t[1] = <<a, 1>> /\ t[2] = <<a, 2>>
  BY <1>3 DEF Message
<1>6. /\ Len(down \o t) = Len(down) + Len(t)
      /\ DOMAIN (down \o t) = 1..(Len(down) + Len(t))
      /\ \A i \in 1..Len(down) : (down \o t)[i] = down[i]
      /\ \A i \in 1..Len(t) : (down \o t)[Len(down) + i] = t[i]
  <2>1. down \in Seq(Pieces(Answer, 2))
    BY <1>1
  <2> QED
    BY <1>4, <2>1, Concatenated
<1>7. /\ Len(down) \in Nat /\ DOMAIN down = 1..Len(down) /\ Len(down') = Len(down) + 2
      /\ DOMAIN down' = 1..(Len(down) + 2)
      /\ \A i \in 1..Len(down) : down'[i] = down[i]
      /\ down'[Len(down) + 1] = <<a, 1>> /\ down'[Len(down) + 2] = <<a, 2>>
  <2>1. Len(down) \in Nat /\ DOMAIN down = 1..Len(down) /\ down' = down \o t
    BY <1>1, <1>3
  <2>2. \A i \in 1..2 : down'[Len(down) + i] = t[i]
    BY <1>5, <1>6, <2>1
  <2> QED
    BY <1>5, <1>6, <2>1, <2>2
<1>8. ASSUME NEW i \in DOMAIN down', i \notin DOMAIN down, down'[i][2] = 1
      PROVE  down'[i][1] = a
  <2>1. i = Len(down) + 1 \/ i = Len(down) + 2
    BY <1>7, <1>8
  <2> QED
    BY <1>7, <1>8, <2>1
<1>9. \A i \in InDown' : down'[i][1] = a
  <2> SUFFICES ASSUME NEW i \in InDown'
               PROVE  down'[i][1] = a
    OBVIOUS
  <2>1. i \in DOMAIN down' /\ down'[i][2] = 1 /\ IsAnswer(down'[i][1])
    BY DEF InDown
  <2>2. i \notin DOMAIN down
    BY <1>1, <1>7, <2>1 DEF InDown
  <2> QED
    BY <1>8, <2>1, <2>2
<1>10. KindsAgree' /\ NothingQueued'
  <2>1. InUp' = InUp /\ ~InHand'
    BY DEF InUp, InHand
  <2> QED
    BY <1>1, <1>2, <1>9, <2>1 DEF KindsAgree, Awaited, NothingQueued
<1>11. NoForeignChat' /\ NoEntryOutlives'
  BY ShownStay
<1>12. ASSUME ~discarded PROVE ServerSession' /\ ClientSession' /\ ChatsFit'
  <2>1. ServerSession /\ ClientSession /\ ChatsFit /\ Session = Opened(a)
    BY <1>12 DEF SessionInv
  <2>2. Handling /\ ~Handling' /\ (Reads' <=> Reads)
    BY DEF InHand, Handling, Reads
  <2>3. Reads => up = <<>>
    BY <2>1, <2>2 DEF ServerSession, Follows, InHand, Asks
  <2>4. ServerSession'
    BY <2>1, <2>2, <2>3 DEF ServerSession
  <2>5. ClientSession'
    <3>1. AllHandled'
      <4>1. ~(rwsem > 0)
        BY <1>1
      <4>2. \A i \in InDown' : Session' = Opened(down'[i][1])
        BY <1>9, <2>1
      <4> QED
        BY <1>1, <1>2, <4>1, <4>2 DEF AllHandled, Opened, Accepted
    <3> QED
      BY <2>2, <2>3, <3>1 DEF ClientSession
  <2>6. PICK v : v = Now
    OBVIOUS
  <2>7. Now' = v
    BY <1>2, <2>6 DEF Now
  <2>8. ASSUME pc # "exited", NEW i \in Chats(down)'
        PROVE  Becomes(down'[i][1].user, Now', down', i)
    <3>1. i \in DOMAIN down' /\ down'[i][2] = 1 /\ ~IsAnswer(down'[i][1])
      BY DEF Chats
    <3>2. i \in 1..Len(down) /\ down'[i] = down[i]
      BY <1>7, <1>8, <3>1
    <3>3. i \in Chats(down)
      BY <1>7, <3>1, <3>2 DEF Chats
    <3>4. Becomes(down[i][1].user, v, down, i)
      BY <2>1, <2>6, <2>8, <3>3 DEF ChatsFit, IsCurrent
    <3>5. Becomes(down[i][1].user, v, down \o t, i) <=> Becomes(down[i][1].user, v, down, i)
      <4>1. down \in Seq(Pieces(Answer, 2))
        BY <1>1
      <4> QED
        BY <1>4, <3>2, <4>1, BecomesAppend
    <3> QED
      BY <1>3, <2>7, <3>2, <3>4, <3>5
  <2>9. ASSUME pc # "exited", Accepted(a) PROVE Becomes(a.user, Now', down', Len(down'))
    <3>1. Logins(down, Len(down)) = {}
      BY <1>1 DEF Logins, InDown, Accepted, IsAnswer
    <3>2. Becomes(a.user, v, down \o t, Len(down \o t))
      BY <1>1, <1>4, <1>5, <2>9, <3>1, BecomesAccepted
    <3> QED
      BY <1>3, <2>7, <3>2
  <2>10. ASSUME pc # "exited", NEW u \in Session PROVE Becomes(u, Now', down', Len(down'))
    BY <2>1, <2>9, <2>10 DEF Opened
  <2>11. ASSUME pc # "exited", NEW j \in DOMAIN functors
         PROVE  Becomes(functors[j], Now', down', Len(down'))
    <3>1. Accepted(a)
      <4>1. ~Accepted(a) => functors = <<>>
        BY <1>1, <2>1 DEF NothingQueued, Opened
      <4> QED
        BY <2>11, <4>1
    <3>2. functors[j] = a.user
      BY <2>1, <2>11, <3>1 DEF ChatsFit
    <3> QED
      BY <2>9, <2>11, <3>1, <3>2
  <2>12. ChatsFit'
    BY <1>2, <2>8, <2>10, <2>11 DEF ChatsFit, IsCurrent
  <2> QED
    BY <2>4, <2>5, <2>12
<1> QED
  BY <1>10, <1>11, <1>12 DEF SessionInv

LEMMA SessionReplies ==
  ASSUME SessionInv, IndInv', LoginRefused \/ LoginAck \/ RegAck
  PROVE  SessionInv'
<1>1. IndInv /\ OneAnswer
  BY DEF SessionInv, IndInv
<1>2. InHand /\ request \in Request /\ (loop = "ack" => request.kind = "login")
  BY <1>1 DEF LoginRefused, LoginAck, RegAck, Handles, InHand, Asks, OneAnswer
<1>3. request.user \in User \cup {NoUser}
  BY <1>2 DEF Request
<1>4. /\ loop' = "functors"
      /\ UNCHANGED <<client, up, functors, Session, discarded, shown>>
  BY DEF LoginRefused, LoginAck, RegAck, Return, AfterHandler, entries, Session
<1>5. ASSUME ~discarded
      PROVE  /\ loop = "handle" => Fits(request, Session)
             /\ loop = "ack" => Session = {request.user}
  BY <1>5 DEF SessionInv, ServerSession
<1>6. PICK a : /\ a \in Answer /\ IsAnswer(a) /\ a.kind = request.kind
               /\ down' = down \o Message(a)
               /\ Accepted(a) => loop = "ack" /\ a.user = request.user
               /\ ~Accepted(a) => loop = "handle"
  <2>1. CASE LoginRefused
    <3>1. PICK a : a = [kind |-> "login", user |-> request.user, ok |-> FALSE, lists |-> {}]
      OBVIOUS
    <3>2. a \in Answer /\ IsAnswer(a) /\ ~Accepted(a) /\ a.kind = "login"
      BY <1>3, <3>1 DEF Answer, IsAnswer, Accepted
    <3>3. down' = down \o Message(a) /\ loop = "handle" /\ request.kind = "login"
      BY <2>1, <3>1 DEF LoginRefused, Handles, Reply
    <3> QED
      BY <3>2, <3>3
  <2>2. CASE LoginAck
    <3>1. PICK L \in SUBSET List :
            Reply([kind |-> "login", user |-> request.user, ok |-> TRUE, lists |-> L])
      BY <2>2 DEF LoginAck
    <3>2. PICK a : a = [kind |-> "login", user |-> request.user, ok |-> TRUE, lists |-> L]
      OBVIOUS
    <3>3. a \in Answer /\ IsAnswer(a) /\ Accepted(a) /\ a.kind = "login" /\ a.user = request.user
      BY <1>3, <3>2 DEF Answer, IsAnswer, Accepted
    <3>4. down' = down \o Message(a) /\ loop = "ack" /\ request.kind = "login"
      BY <1>2, <2>2, <3>1, <3>2 DEF LoginAck, Reply
    <3> QED
      BY <3>3, <3>4
  <2>3. CASE RegAck
    <3>1. PICK ok \in BOOLEAN :
            Reply([kind |-> "reg", user |-> NoUser, ok |-> ok, lists |-> {}])
      BY <2>3 DEF RegAck
    <3>2. PICK a : a = [kind |-> "reg", user |-> NoUser, ok |-> ok, lists |-> {}]
      OBVIOUS
    <3>3. a \in Answer /\ IsAnswer(a) /\ ~Accepted(a) /\ a.kind = "reg"
      BY <3>2 DEF Answer, IsAnswer, Accepted
    <3>4. down' = down \o Message(a) /\ loop = "handle" /\ request.kind = "reg"
      BY <2>3, <3>1, <3>2 DEF RegAck, Handles, Reply
    <3> QED
      BY <3>3, <3>4
  <2> QED
    BY <2>1, <2>2, <2>3
<1>7. ~discarded => Session = Opened(a)
  BY <1>2, <1>5, <1>6 DEF Opened, Fits, InHand
<1> QED
  BY <1>2, <1>4, <1>6, <1>7, SessionAnswered

LEMMA SessionInsert ==
  ASSUME SessionInv, IndInv', LoginInsert
  PROVE  SessionInv'
<1>1. /\ KindsAgree /\ NothingQueued
      /\ loop = "handle" /\ request.kind = "login" /\ loop' = "ack"
      /\ Session' = Session \cup {request.user}
      /\ UNCHANGED <<pc, rwsem, isLoginSuccess, currentUser, lists, reader, answer, up, down,
                     request, functors, discarded, shown>>
  BY DEF SessionInv, LoginInsert, Handles, client, Session
<1>2. KindsAgree'
  <2>1. InUp' = InUp /\ InDown' = InDown /\ InHand' = InHand
    BY <1>1 DEF InUp, InDown, InHand
  <2> QED
    BY <1>1, <2>1 DEF KindsAgree, Awaited
<1>3. NothingQueued' /\ NoForeignChat' /\ NoEntryOutlives'
  BY <1>1 DEF NothingQueued, SessionInv, NoForeignChat, NoEntryOutlives
<1>4. ASSUME ~discarded PROVE ServerSession' /\ ClientSession' /\ ChatsFit'
  <2>1. ServerSession /\ ClientSession /\ ChatsFit
    BY <1>4 DEF SessionInv
  <2>2. Session = {} /\ functors = <<>> /\ Session' = {request.user}
    BY <1>1, <2>1 DEF ServerSession, Fits, Asks, NothingQueued
  <2>3. Handling /\ Handling' /\ (Reads' <=> Reads)
    BY <1>1 DEF Handling, Reads
  <2>4. ServerSession'
    BY <1>1, <2>1, <2>2, <2>3 DEF ServerSession
  <2>5. ClientSession'
    BY <1>1, <2>1, <2>3 DEF ClientSession, SentLast
  <2>6. ChatsFit'
    <3>1. \A u, i : IsCurrent(u, i)' <=> IsCurrent(u, i)
      BY <1>1 DEF IsCurrent, Now
    <3>2. functors' = <<>>
      BY <1>1, <2>2
    <3> QED
      BY <1>1, <2>1, <3>1, <3>2 DEF ChatsFit
  <2> QED
    BY <2>4, <2>5, <2>6
<1> QED
  BY <1>1, <1>2, <1>3, <1>4 DEF SessionInv

\* Chat messages for the account the session is for come after what decides
\* which that is.
LEMMA ChatsGrow ==
  ASSUME IndInv, ChatsFit, NEW t \in Seq(Pieces(Answer, 2)), down' = down \o t,
         \A i \in DOMAIN t :
           t[i][2] = 1 => ~IsAnswer(t[i][1]) /\ (pc # "exited" => IsCurrent(t[i][1].user, Len(down))),
         UNCHANGED client, Session' \subseteq Session,
         functors' = functors \/ functors' = <<>>, loop # "ack", loop' # "ack"
  PROVE  /\ ChatsFit'
         /\ InDown' = InDown /\ \A i \in InDown : down'[i] = down[i]
<1>1. UNCHANGED <<pc, reader, answer, currentUser>> /\ down \in Seq(Pieces(Answer, 2))
  BY DEF client, IndInv, TypeOK
<1>2. /\ Len(down \o t) = Len(down) + Len(t)
      /\ DOMAIN (down \o t) = 1..(Len(down) + Len(t))
      /\ \A i \in 1..Len(down) : (down \o t)[i] = down[i]
      /\ \A i \in 1..Len(t) : (down \o t)[Len(down) + i] = t[i]
  <2>1. down \in Seq(Pieces(Answer, 2))
    BY <1>1
  <2> QED
    BY <2>1, Concatenated
<1>3. Len(down) \in Nat /\ DOMAIN down = 1..Len(down) /\ Len(t) \in Nat /\ DOMAIN t = 1..Len(t)
  BY <1>1
<1>4. /\ Len(down') = Len(down) + Len(t) /\ DOMAIN down' = 1..(Len(down) + Len(t))
      /\ \A i \in 1..Len(down) : down'[i] = down[i]
      /\ \A i \in 1..Len(t) : down'[Len(down) + i] = t[i]
  BY <1>2
<1>5. ASSUME NEW i \in DOMAIN down', i \notin DOMAIN down
      PROVE  i \in Len(down)..Len(down') /\ i - Len(down) \in DOMAIN t /\ down'[i] = t[i - Len(down)]
  <2>1. i \in (Len(down) + 1)..(Len(down) + Len(t))
    BY <1>3, <1>4, <1>5
  <2>2. i - Len(down) \in 1..Len(t) /\ Len(down) + (i - Len(down)) = i
    BY <1>3, <2>1
  <2> QED
    BY <1>3, <1>4, <2>1, <2>2
<1>6. InDown' = InDown /\ \A i \in InDown : down'[i] = down[i]
  <2>1. ASSUME NEW i \in InDown' PROVE i \in InDown
    BY <1>3, <1>4, <1>5 DEF InDown
  <2>2. ASSUME NEW i \in InDown PROVE i \in InDown' /\ down'[i] = down[i]
    BY <1>3, <1>4 DEF InDown
  <2> QED
    BY <2>1, <2>2
<1>7. PICK v : v = Now
  OBVIOUS
<1>8. Now' = v
  BY <1>1, <1>7 DEF Now
<1>9. ASSUME NEW u
      PROVE  /\ \A i \in 1..Len(down) : Becomes(u, v, down', i) <=> Becomes(u, v, down, i)
             /\ \A i \in Len(down)..Len(down') :
                  Becomes(u, v, down', i) <=> Becomes(u, v, down, Len(down))
  <2>1. \A i \in DOMAIN t : t[i][2] = 1 => ~Accepted(t[i][1])
    BY DEF Accepted, IsAnswer
  <2>2. /\ \A i \in 1..Len(down) : Becomes(u, v, down \o t, i) <=> Becomes(u, v, down, i)
        /\ \A i \in Len(down)..Len(down \o t) :
             Becomes(u, v, down \o t, i) <=> Becomes(u, v, down, Len(down))
    <3>1. down \in Seq(Pieces(Answer, 2))
      BY <1>1
    <3> QED
      BY <2>1, <3>1, BecomesAppend
  <2> QED
    BY <2>2
<1>10. ASSUME pc # "exited", NEW i \in Chats(down)' PROVE Becomes(down'[i][1].user, v, down', i)
  <2>1. i \in DOMAIN down' /\ down'[i][2] = 1 /\ ~IsAnswer(down'[i][1])
    BY DEF Chats
  <2>2. CASE i \in DOMAIN down
    <3>1. i \in Chats(down) /\ down'[i] = down[i] /\ i \in 1..Len(down)
      BY <1>3, <1>4, <2>1, <2>2 DEF Chats
    <3>2. Becomes(down[i][1].user, v, down, i)
      BY <1>7, <1>10, <3>1 DEF ChatsFit, IsCurrent
    <3> QED
      BY <1>9, <3>1, <3>2
  <2>3. CASE i \notin DOMAIN down
    <3>1. i \in Len(down)..Len(down') /\ i - Len(down) \in DOMAIN t /\ down'[i] = t[i - Len(down)]
      BY <1>5, <2>1, <2>3
    <3>2. Becomes(down'[i][1].user, v, down, Len(down))
      BY <1>7, <1>10, <2>1, <3>1 DEF IsCurrent
    <3> QED
      BY <1>9, <3>1, <3>2
  <2> QED
    BY <2>2, <2>3
<1>11. ASSUME pc # "exited", NEW u, IsCurrent(u, Len(down)) PROVE Becomes(u, v, down', Len(down'))
  <2>1. Len(down') \in Len(down)..Len(down')
    BY <1>3, <1>4
  <2> QED
    BY <1>7, <1>9, <1>11, <2>1 DEF IsCurrent
<1>12. ChatsFit'
  <2> SUFFICES ASSUME pc # "exited"
               PROVE  ChatsFit'
    BY <1>1 DEF ChatsFit
  <2>1. \A u \in Session' : Becomes(u, v, down', Len(down'))
    BY <1>11 DEF ChatsFit
  <2>2. ASSUME NEW j \in DOMAIN functors' PROVE Becomes(functors'[j], v, down', Len(down'))
    BY <1>11, <2>2 DEF ChatsFit
  <2> QED
    BY <1>8, <1>10, <2>1, <2>2 DEF ChatsFit, IsCurrent
<1> QED
  BY <1>6, <1>12

\* Chat messages behind what is on its way are no answers.
LEMMA AnswersStay ==
  ASSUME down \in Seq(Pieces(Answer, 2)), NEW t \in Seq(Pieces(Answer, 2)), down' = down \o t,
         \A i \in DOMAIN t : ~IsAnswer(t[i][1])
  PROVE  InDown' = InDown /\ \A i \in InDown : down'[i] = down[i]
<1>1. /\ DOMAIN (down \o t) = 1..(Len(down) + Len(t))
      /\ \A i \in 1..Len(down) : (down \o t)[i] = down[i]
      /\ \A i \in 1..Len(t) : (down \o t)[Len(down) + i] = t[i]
  BY Concatenated
<1>2. Len(down) \in Nat /\ DOMAIN down = 1..Len(down) /\ Len(t) \in Nat /\ DOMAIN t = 1..Len(t)
  OBVIOUS
<1>3. ASSUME NEW i \in InDown' PROVE i \in InDown
  <2>1. i \in 1..(Len(down) + Len(t)) /\ down'[i][2] = 1 /\ IsAnswer(down'[i][1])
    BY <1>1 DEF InDown
  <2>2. CASE i <= Len(down)
    BY <1>1, <1>2, <2>1, <2>2 DEF InDown
  <2>3. CASE i > Len(down)
    <3>1. i - Len(down) \in 1..Len(t) /\ Len(down) + (i - Len(down)) = i
      BY <1>2, <2>1, <2>3
    <3>2. down'[i] = t[i - Len(down)]
      BY <1>1, <3>1
    <3> QED
      BY <1>2, <2>1, <3>1, <3>2
  <2> QED
    BY <1>2, <2>1, <2>2, <2>3
<1>4. ASSUME NEW i \in InDown PROVE i \in InDown' /\ down'[i] = down[i]
  <2>1. i \in 1..Len(down)
    BY <1>2 DEF InDown
  <2>2. down'[i] = down[i] /\ i \in DOMAIN down'
    BY <1>1, <1>2, <2>1
  <2> QED
    BY <2>2 DEF InDown
<1> QED
  BY <1>3, <1>4

\* The messages written for the functors go to the accounts they are for.
LEMMA ChatsQueued ==
  ASSUME NEW us \in Seq(User), NEW t, t = MessagesTo(us)
  PROVE  /\ t \in Seq(Pieces(Answer, 2))
         /\ \A i \in DOMAIN t : ~IsAnswer(t[i][1]) /\ \E j \in DOMAIN us : t[i][1].user = us[j]
<1>1. Len(us) \in Nat /\ DOMAIN us = 1..Len(us) /\ \A i \in 1..Len(us) : us[i] \in User
  OBVIOUS
<1>2. DOMAIN t = 1..(2 * Len(us)) /\ t = [i \in DOMAIN t |-> t[i]]
  BY DEF MessagesTo
<1>3. ASSUME NEW i \in 1..(2 * Len(us))
      PROVE  /\ t[i] \in Pieces(Answer, 2) /\ ~IsAnswer(t[i][1])
             /\ \E j \in DOMAIN us : t[i][1].user = us[j]
  <2>1. (i + 1) \div 2 \in 1..Len(us) /\ 2 - (i % 2) \in 1..2
    BY <1>1
  <2>2. PICK j, k : j = (i + 1) \div 2 /\ k = 2 - (i % 2)
    OBVIOUS
  <2>3. t[i] = <<ChatTo(us[j]), k>>
    BY <2>2 DEF MessagesTo
  <2>4. us[j] \in User /\ j \in DOMAIN us /\ k \in 1..2
    BY <1>1, <2>1, <2>2
  <2>5. ChatTo(us[j]) \in Answer /\ ~IsAnswer(ChatTo(us[j])) /\ ChatTo(us[j]).user = us[j]
    BY <2>4, ChatIsNoAnswer DEF ChatTo
  <2> QED
    BY <2>3, <2>4, <2>5 DEF Pieces
<1>4. t \in Seq(Pieces(Answer, 2))
  <2>1. t \in [1..(2 * Len(us)) -> Pieces(Answer, 2)] /\ 2 * Len(us) \in Nat
    BY <1>1, <1>2, <1>3
  <2> QED
    BY <2>1, IsSequence
<1> QED
  BY <1>2, <1>3, <1>4

\* What is on its way stays, whatever comes after it.
LEMMA KindsGrow ==
  ASSUME KindsAgree, UNCHANGED <<client, up>>, InHand' => InHand, request' = request \/ ~InHand',
         InDown' = InDown, \A i \in InDown : down'[i] = down[i]
  PROVE  KindsAgree'
<1>1. UNCHANGED <<pc, reader, answer>>
  BY DEF client
<1>2. InUp' = InUp
  BY DEF InUp
<1> QED
  BY <1>1, <1>2 DEF KindsAgree, Awaited

\* Once a command or a loginout is handled, the session fits what comes next.
LEMMA SessionHandled ==
  ASSUME SessionInv, IndInv', loop = "handle", loop' = "functors",
         \/ request.kind = "command" /\ Session' = Session
         \/ request.kind = "loginout" /\ Session' = Session \ {request.user},
         InDown' = InDown, \A i \in InDown : down'[i] = down[i],
         ~discarded => ChatsFit',
         UNCHANGED <<client, up, discarded, shown>>
  PROVE  SessionInv'
<1>1. KindsAgree /\ UNCHANGED <<pc, rwsem, isLoginSuccess, currentUser, reader, answer>>
  BY DEF SessionInv, client
<1>2. KindsAgree' /\ NothingQueued'
  <2>1. ~InHand'
    BY DEF InHand
  <2> QED
    BY <1>1, <2>1, KindsGrow DEF NothingQueued
<1>3. NoForeignChat' /\ NoEntryOutlives'
  BY DEF SessionInv, NoForeignChat, NoEntryOutlives
<1>4. ASSUME ~discarded PROVE ServerSession' /\ ClientSession'
  <2>1. ServerSession /\ ClientSession /\ Handling /\ ~Handling' /\ (Reads' <=> Reads)
    BY <1>4 DEF SessionInv, Handling, Reads
  <2>2. Session = {request.user}
    BY <2>1 DEF ServerSession, Fits, Asks
  <2>3. /\ request.kind = "command" => Session' = {request.user}
        /\ request.kind = "loginout" => Session' = {}
    BY <2>2
  <2>4. ServerSession'
    <3>1. \A q : Follows(request, q) => Fits(q, Session')
      BY <2>3 DEF Follows, Fits
    <3>2. \A u, v \in Session' : u = v
      BY <2>2
    <3> QED
      BY <2>1, <3>1, <3>2 DEF ServerSession
  <2>5. ClientSession'
    <3>1. pc # "exited" /\ SentLast(request) => AllHandled'
      BY <1>1, <2>3 DEF SentLast, AllHandled, Asks, Waits
    <3> QED
      BY <1>1, <2>1, <3>1 DEF ClientSession, SentLast
  <2> QED
    BY <2>4, <2>5
<1> QED
  BY <1>2, <1>3, <1>4 DEF SessionInv

LEMMA SessionCommand ==
  ASSUME SessionInv, IndInv', HandleCommand
  PROVE  SessionInv'
<1>1. /\ IndInv /\ down \in Seq(Pieces(Answer, 2)) /\ Session \subseteq User
      /\ loop = "handle" /\ request.kind = "command" /\ loop' = "functors"
      /\ UNCHANGED <<client, up, functors, Session, discarded, shown>>
  BY DEF SessionInv, IndInv, TypeOK, HandleCommand, Handles, Return, AfterHandler, entries, Session
<1>2. /\ InDown' = InDown /\ \A i \in InDown : down'[i] = down[i]
      /\ ~discarded => ChatsFit'
  <2>1. CASE UNCHANGED down
    <3>1. Now' = Now /\ pc' = pc
      BY <1>1 DEF Now, client
    <3>2. ~discarded => ChatsFit'
      BY <1>1, <2>1, <3>1, ChatsStay DEF SessionInv
    <3> QED
      BY <2>1, <3>2 DEF InDown
  <2>2. CASE \E u \in Session : Reply(ChatTo(u))
    <3>1. PICK u \in Session : Reply(ChatTo(u))
      BY <2>2
    <3>2. PICK a : a = ChatTo(u)
      OBVIOUS
    <3>3. a \in Answer /\ ~IsAnswer(a) /\ a.user = u
      BY <1>1, <3>2 DEF ChatTo, Answer, IsAnswer
    <3>4. PICK t : t = << <<a, 1>>, <<a, 2>> >>
      OBVIOUS
    <3>5. t \in Seq(Pieces(Answer, 2)) /\ DOMAIN t = 1..2 /\ \A i \in 1..2 : t[i][1] = a
      BY <3>3, <3>4 DEF Pieces
    <3>6. down' = down \o t
      BY <3>1, <3>2, <3>4 DEF Reply, Message
    <3>7. InDown' = InDown /\ \A i \in InDown : down'[i] = down[i]
      BY <1>1, <3>3, <3>5, <3>6, AnswersStay
    <3>8. ASSUME ~discarded PROVE ChatsFit'
      <4>1. ChatsFit /\ (pc # "exited" => IsCurrent(u, Len(down)))
        BY <1>1, <3>1, <3>8 DEF SessionInv, ChatsFit
      <4>2. \A i \in DOMAIN t :
              t[i][2] = 1 => ~IsAnswer(t[i][1]) /\ (pc # "exited" => IsCurrent(t[i][1].user, Len(down)))
        BY <3>3, <3>5, <4>1
      <4> QED
        BY <1>1, <3>5, <3>6, <4>1, <4>2, ChatsGrow
    <3> QED
      BY <3>7, <3>8
  <2> QED
    BY <2>1, <2>2 DEF HandleCommand, Session
<1> QED
  BY <1>1, <1>2, SessionHandled

LEMMA SessionLoginout ==
  ASSUME SessionInv, IndInv', HandleLoginout
  PROVE  SessionInv'
<1>1. /\ loop = "handle" /\ request.kind = "loginout" /\ loop' = "functors"
      /\ Session' = Session \ {request.user}
      /\ UNCHANGED <<client, up, down, functors, discarded, shown>>
  BY DEF HandleLoginout, Handles, Return, AfterHandler, Erased, Session
<1>2. InDown' = InDown /\ \A i \in InDown : down'[i] = down[i]
  BY <1>1 DEF InDown
<1>3. Now' = Now /\ pc' = pc
  BY <1>1 DEF Now, client
<1>4. ~discarded => ChatsFit'
  BY <1>1, <1>3, ChatsStay DEF SessionInv
<1> QED
  BY <1>1, <1>2, <1>4, SessionHandled

LEMMA SessionFunctors ==
  ASSUME SessionInv, IndInv', DoPendingFunctors
  PROVE  SessionInv'
<1>1. /\ IndInv /\ KindsAgree /\ functors \in Seq(User)
      /\ loop \in {"functors", "poll"} /\ loop' = "poll" /\ functors' = <<>>
      /\ down' = down \o MessagesTo(functors)
      /\ UNCHANGED <<client, up, request, Session, discarded, shown>>
  BY DEF SessionInv, IndInv, TypeOK, DoPendingFunctors, entries, Session
<1>2. PICK t : t = MessagesTo(functors)
  OBVIOUS
<1>3. /\ t \in Seq(Pieces(Answer, 2))
      /\ \A i \in DOMAIN t : ~IsAnswer(t[i][1]) /\ \E j \in DOMAIN functors : t[i][1].user = functors[j]
  <2>1. functors \in Seq(User)
    BY <1>1
  <2> QED
    BY <1>2, <2>1, ChatsQueued
<1>4. InDown' = InDown /\ \A i \in InDown : down'[i] = down[i]
  BY <1>1, <1>2, <1>3, AnswersStay DEF IndInv, TypeOK
<1>5. ~InHand /\ ~InHand' /\ ~Handling /\ ~Handling' /\ (Reads' <=> Reads)
  BY <1>1 DEF InHand, Handling, Reads
<1>6. KindsAgree' /\ NothingQueued'
  BY <1>1, <1>4, <1>5, KindsGrow DEF NothingQueued
<1>7. NoForeignChat' /\ NoEntryOutlives'
  BY <1>1, ShownStay
<1>8. ASSUME ~discarded PROVE ServerSession' /\ ClientSession' /\ ChatsFit'
  <2>1. ServerSession /\ ClientSession /\ ChatsFit
    BY <1>8 DEF SessionInv
  <2>2. ServerSession'
    BY <1>1, <1>5, <2>1 DEF ServerSession
  <2>3. UNCHANGED <<pc, rwsem, isLoginSuccess, currentUser, reader, answer>>
    BY <1>1 DEF client
  <2>4. ClientSession'
    <3>1. AllHandled => AllHandled'
      BY <1>1, <1>4, <2>3 DEF AllHandled
    <3> QED
      BY <1>1, <1>5, <2>1, <2>3, <3>1 DEF ClientSession, SentLast
  <2>5. ChatsFit'
    <3>1. \A i \in DOMAIN t :
            t[i][2] = 1 => ~IsAnswer(t[i][1]) /\ (pc # "exited" => IsCurrent(t[i][1].user, Len(down)))
      BY <1>1, <1>3, <2>1 DEF ChatsFit
    <3> QED
      BY <1>1, <1>2, <1>3, <2>1, <3>1, ChatsGrow
  <2> QED
    BY <2>2, <2>4, <2>5
<1> QED
  BY <1>1, <1>6, <1>7, <1>8 DEF SessionInv

LEMMA SessionElsewhere ==
  ASSUME SessionInv, IndInv', NEW u \in User, ChatFromElsewhere(u)
  PROVE  SessionInv'
<1>1. /\ u \in Session /\ functors' = Append(functors, u) /\ functors \in Seq(User)
      /\ UNCHANGED <<pc, rwsem, isLoginSuccess, currentUser, lists, reader, answer, up, down,
                     loop, request, userConnMap, Session, discarded, shown>>
  BY DEF SessionInv, IndInv, TypeOK, ChatFromElsewhere, client, entries, Session
<1>2. KindsAgree' /\ NothingQueued' /\ NoForeignChat' /\ NoEntryOutlives'
  <2>1. KindsAgree'
    BY <1>1, KindsStay DEF SessionInv
  <2>2. NothingQueued'
    BY <1>1 DEF NothingQueued
  <2> QED
    BY <1>1, <2>1, <2>2, ShownStay
<1>3. ASSUME ~discarded PROVE ServerSession' /\ ClientSession' /\ ChatsFit'
  <2>1. ServerSession /\ ClientSession /\ ChatsFit
    BY <1>3 DEF SessionInv
  <2>2. ServerSession' /\ (Reads' <=> Reads) /\ (Handling' <=> Handling)
    BY <1>1, <2>1, ServerStays
  <2>3. ClientSession'
    <3>1. InDown' = InDown
      BY <1>1 DEF InDown
    <3>2. AllHandled => AllHandled'
      BY <1>1, <3>1 DEF AllHandled
    <3> QED
      BY <1>1, <2>1, <2>2, <3>2 DEF ClientSession, SentLast
  <2>4. ChatsFit'
    <3>1. \A v, i : IsCurrent(v, i)' <=> IsCurrent(v, i)
      BY <1>1 DEF IsCurrent, Now
    <3>2. ASSUME pc # "exited", NEW j \in DOMAIN functors'
          PROVE  IF loop = "ack" THEN functors'[j] = request.user
                 ELSE IsCurrent(functors'[j], Len(down))
      <4>1. (j \in DOMAIN functors /\ functors'[j] = functors[j]) \/ functors'[j] = u
        BY <1>1, <3>2
      <4>2. IF loop = "ack" THEN u = request.user ELSE IsCurrent(u, Len(down))
        BY <1>1, <2>1, <3>2 DEF ChatsFit, ServerSession
      <4> QED
        BY <2>1, <3>2, <4>1, <4>2 DEF ChatsFit
    <3>3. ASSUME pc # "exited", NEW j \in DOMAIN functors'
          PROVE  IF loop' = "ack" THEN functors'[j] = request'.user
                 ELSE Becomes(functors'[j], Now', down', Len(down'))
      <4>1. Now' = Now
        BY <1>1 DEF Now
      <4> QED
        BY <1>1, <3>2, <3>3, <4>1 DEF IsCurrent
    <3>4. pc # "exited" =>
            /\ \A i \in Chats(down)' : Becomes(down'[i][1].user, Now', down', i)
            /\ loop' # "ack" => \A v \in Session' : Becomes(v, Now', down', Len(down'))
      <4>1. Now' = Now /\ Chats(down)' = Chats(down)
        BY <1>1 DEF Now
      <4> QED
        BY <1>1, <2>1, <4>1 DEF ChatsFit, IsCurrent
    <3> QED
      BY <1>1, <3>3, <3>4 DEF ChatsFit, IsCurrent
  <2> QED
    BY <2>2, <2>3, <2>4
<1> QED
  BY <1>1, <1>2, <1>3 DEF SessionInv

\* An entry that another connection erases leaves the session as it is.
LEMMA SessionLose ==
  ASSUME SessionInv, IndInv', NEW u \in User, LoseEntry(u)
  PROVE  SessionInv'
<1>1. /\ userConnMap' \subseteq userConnMap /\ Session' = Session
      /\ UNCHANGED <<pc, rwsem, isLoginSuccess, currentUser, lists, reader, answer, up, down,
                     loop, request, functors, discarded, shown>>
  BY DEF LoseEntry, client, Session
<1>2. InDown' = InDown
  BY <1>1 DEF InDown
<1>3. KindsAgree' /\ NothingQueued' /\ NoForeignChat' /\ NoEntryOutlives'
  <2>1. KindsAgree'
    BY <1>1, KindsStay DEF SessionInv
  <2>2. NothingQueued'
    BY <1>1 DEF SessionInv, NothingQueued
  <2> QED
    BY <1>1, <2>1, <2>2, ShownStay
<1>4. ASSUME ~discarded PROVE ServerSession' /\ ClientSession' /\ ChatsFit'
  <2>1. ServerSession /\ ClientSession /\ ChatsFit
    BY <1>4 DEF SessionInv
  <2>2. ServerSession' /\ (Reads' <=> Reads) /\ (Handling' <=> Handling)
    BY <1>1, <2>1, ServerStays
  <2>3. (AllHandled' <=> AllHandled) /\ Now' = Now
    BY <1>1, <1>2 DEF AllHandled, Now
  <2>4. ClientSession'
    BY <1>1, <2>1, <2>2, <2>3 DEF ClientSession, SentLast
  <2>5. ChatsFit'
    BY <1>1, <2>1, <2>3, ChatsStay
  <2> QED
    BY <2>2, <2>4, <2>5
<1> QED
  BY <1>1, <1>3, <1>4 DEF SessionInv

\* A connection that closes takes the one entry with it.
LEMMA SessionClose ==
  ASSUME SessionInv, IndInv', HandleClose
  PROVE  SessionInv'
<1>1. /\ pc' = "exited" /\ loop' = "closed" /\ functors' = <<>>
      /\ userConnMap' = EntriesLeft /\ Session' = userConnMap'
      /\ UNCHANGED <<client, up, down, request, discarded, shown>>
  BY DEF HandleClose, client, Session
<1>2. ASSUME ~discarded PROVE userConnMap' = {} /\ Session' = {}
  <2>1. \A u, v \in userConnMap : u = v
    BY <1>2 DEF SessionInv, ServerSession, Session
  <2>2. CASE userConnMap = {}
    BY <1>1, <2>2 DEF EntriesLeft
  <2>3. CASE userConnMap # {}
    <3>1. (CHOOSE u \in userConnMap : TRUE) \in userConnMap
      BY <2>3
    <3> QED
      BY <1>1, <2>1, <2>3, <3>1 DEF EntriesLeft
  <2> QED
    BY <2>2, <2>3
<1>3. KindsAgree' /\ NothingQueued' /\ NoForeignChat' /\ NoEntryOutlives'
  BY <1>1, <1>2 DEF KindsAgree, Waits, NothingQueued, SessionInv, NoForeignChat, NoEntryOutlives
<1>4. ASSUME ~discarded PROVE ServerSession' /\ ClientSession' /\ ChatsFit'
  BY <1>1, <1>2, <1>4 DEF ServerSession, Reads, ClientSession, ChatsFit
<1> QED
  BY <1>1, <1>3, <1>4 DEF SessionInv

LEMMA SessionStutter ==
  ASSUME SessionInv, IndInv', UNCHANGED vars
  PROVE  SessionInv'
<1>1. UNCHANGED <<pc, rwsem, isLoginSuccess, currentUser, lists, reader, answer, up, down,
                  loop, request, functors, userConnMap, Session, asked, chats, discarded, shown>>
  BY DEF vars, client, service, entries, Session, bounds
<1>2. InUp' = InUp /\ InDown' = InDown /\ InHand' = InHand
  BY <1>1 DEF InUp, InDown, InHand
<1>3. KindsAgree' /\ NothingQueued' /\ NoForeignChat' /\ NoEntryOutlives'
  BY <1>1, <1>2 DEF SessionInv, KindsAgree, Awaited, NothingQueued, NoForeignChat, NoEntryOutlives
<1>4. ASSUME ~discarded PROVE ServerSession' /\ ClientSession' /\ ChatsFit'
  <2>1. ServerSession /\ ClientSession /\ ChatsFit
    BY <1>4 DEF SessionInv
  <2>2. ServerSession' /\ (Reads' <=> Reads) /\ (Handling' <=> Handling)
    BY <1>1, <2>1, ServerStays
  <2>3. (AllHandled' <=> AllHandled) /\ Now' = Now
    BY <1>1, <1>2 DEF AllHandled, Now
  <2>4. ClientSession'
    BY <1>1, <2>1, <2>2, <2>3 DEF ClientSession, SentLast
  <2>5. ChatsFit'
    BY <1>1, <2>1, <2>3, ChatsStay
  <2> QED
    BY <2>2, <2>4, <2>5
<1> QED
  BY <1>1, <1>3, <1>4 DEF SessionInv

LEMMA SessionNext ==
  ASSUME SessionInv, [Next]_vars
  PROVE  SessionInv'
<1>0. IndInv'
  BY NextOK DEF SessionInv
<1>1. CASE MainStep
  BY <1>0, <1>1, SessionWake, SessionTell, SessionAsk, SessionExit DEF MainStep
<1>2. CASE ReaderStep
  BY <1>0, <1>2, SessionExit, SessionRespond, SessionPost, SessionRecv DEF ReaderStep
<1>3. CASE LoopStep
  <2>1. CASE HandlerStep
    BY <1>0, <2>1, SessionReplies, SessionInsert, SessionCommand, SessionLoginout DEF HandlerStep
  <2>2. CASE \E n \in 1..Len(up) : OnMessage(n)
    BY <1>0, <2>2, SessionMessage
  <2> QED
    BY <1>0, <1>3, <2>1, <2>2, SessionFunctors, SessionClose DEF LoopStep
<1>4. CASE ServerEnds
  BY <1>0, <1>4, SessionEnds DEF ServerEnds
<1>5. CASE \E u \in User : ChatFromElsewhere(u) \/ LoseEntry(u)
  BY <1>0, <1>5, SessionElsewhere, SessionLose
<1>6. CASE UNCHANGED vars
  BY <1>0, <1>6, SessionStutter
<1> QED
  BY <1>1, <1>2, <1>3, <1>4, <1>5, <1>6 DEF Next

\* In every run in which no request was discarded, what is on its way up
\* continues the session the server has, ends it where the client is, and what
\* is on its way down is for the account the client has when it handles it.
THEOREM SessionInductive == Spec => []SessionInv
<1>1. Init => SessionInv
  BY SessionInit
<1>2. SessionInv /\ [Next]_vars => SessionInv'
  BY SessionNext
<1> QED
  BY <1>1, <1>2, PTL DEF Spec

\* A login is handled only without a session, a command or a logout only in
\* that of the account it names, if no request was discarded: that account has
\* its entry here, unless another connection under it holds or has erased it.
THEOREM RequestsFit == Spec => []RequestsFitSession
<1>1. SessionInv => RequestsFitSession
  BY DEF SessionInv, ServerSession, RequestsFitSession
<1> QED
  BY <1>1, SessionInductive, PTL

\* When nothing is on its way up and the loop polls, client and server agree on
\* who is logged in, if no request was discarded: the account in the main menu
\* has its entry, or lost it to another connection, and the menu has none.
THEOREM BothAgree == Spec => []SessionAgrees
<1>1. SessionInv => SessionAgrees
  <2> SUFFICES ASSUME SessionInv, ~discarded, up = <<>>, loop = "poll", pc # "exited"
               PROVE  /\ pc = "main" => Session = {currentUser}
                      /\ pc = "menu" => Session = {}
    BY DEF SessionAgrees
  <2>1. AllHandled
    BY DEF SessionInv, ClientSession, Reads, Handling
  <2> QED
    BY <2>1 DEF AllHandled
<1> QED
  BY <1>1, SessionInductive, PTL

\* A message is shown only to the account it is for, however it was interleaved
\* with the logouts and logins of the client, if no request was discarded.
THEOREM ChatsAreOwn == Spec => []NoForeignChat
<1>1. SessionInv => NoForeignChat
  BY DEF SessionInv
<1> QED
  BY <1>1, SessionInductive, PTL

\* clientCloseException, which erases one entry, leaves none, if no request was
\* discarded.
THEOREM EntriesAreErased == Spec => []NoEntryOutlives
<1>1. SessionInv => NoEntryOutlives
  BY DEF SessionInv
<1> QED
  BY <1>1, SessionInductive, PTL
=============================================================================
