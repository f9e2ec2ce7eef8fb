--------------------------- MODULE MCChatCluster ---------------------------
(* Instances of ChatCluster for TLC: two servers, the first with two      *)
(* connections, the second with one.                                      *)
EXTENDS ChatCluster, TLC

CONSTANTS s1, s2, c1, c2, c3, u1, u2, u3

MCServerOf == c1 :> s1 @@ c2 :> s1 @@ c3 :> s2

\* One server alone: its handlers and its observer contend for its _mutex.
OneServer == [c \in Conn |-> s1]

\* Messages for any of the accounts; and for u1 alone, or for a group of u2 and
\* of u3, which never logs in.
Anyone      == (SUBSET User) \ {{}}
OneAndGroup == {{u1}, {u2, u3}}

\* Budgets: two logins, and n faults of the kinds that may happen.
Two(n)   == [login |-> 2, fault |-> n]
Calm     == Two(0)
OneFault == Two(1)

\* Accounts are interchangeable, and so are the connections of one server.
Symmetry == Permutations(User) \cup Permutations({c1, c2})
=============================================================================
