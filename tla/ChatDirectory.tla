---------------------------- MODULE ChatDirectory ----------------------------
(***************************************************************************)
(* Accounts, friends and groups: the handlers of ChatService that do       *)
(* nothing but read and write the tables User, Friend, AllGroup and        *)
(* GroupUser of the database all servers share.                            *)
(*                                                                         *)
(* Each statement is one step, made on a MySQL connection of the handler's *)
(* own; handlers of all connections and servers interleave between them.   *)
(* The schema is not in the repository: ids are taken to count up, and     *)
(* names of accounts to be unique, as the client's message on a failed     *)
(* registration says; any other INSERT may be refused.                     *)
(***************************************************************************)
EXTENDS Naturals, Sequences, FiniteSets

CONSTANTS
  Handler,     \* threads that run handlers, on any server
  Name,        \* names of accounts
  MaxGroups,   \* bound: rows of AllGroup, and group ids clients type
  MaxFriends   \* bound: rows of Friend

ASSUME DirectoryAssumption == MaxGroups \in Nat /\ MaxFriends \in Nat

VARIABLES
  accounts,   \* table User: the name of each row
  friends,    \* table Friend
  groups,     \* table AllGroup: the account that asked for each row
  members,    \* table GroupUser
  pc,         \* where the handler is
  arg,        \* the account it works for, or the name to register
  lastId,     \* mysql_insert_id of its connection
  todo,       \* groups of its listing whose members are not read yet
  found,      \* <<group, member>> it has read
  told,       \* history: <<name, id>> answered to registrations
  orphans     \* history: groups whose creator's row a fault has cost

tables  == <<accounts, friends, groups, members>>
listing == <<todo, found>>
vars == <<tables, pc, arg, lastId, listing, told, orphans>>

Account == 1..Len(accounts)
Group   == 1..Len(groups)
Row     == [group : Nat, user : Nat, role : {"creator", "normal"}]

Init ==
  /\ accounts = <<>> /\ friends = {} /\ groups = <<>> /\ members = {}
  /\ pc = [h \in Handler |-> "idle"]
  /\ arg = [h \in Handler |-> 0]
  /\ lastId = [h \in Handler |-> 0]
  /\ todo = [h \in Handler |-> {}]
  /\ found = [h \in Handler |-> {}]
  /\ told = {} /\ orphans = {}

\* The handler goes on at l, for a, having inserted the row id.
Goes(h, l, a, id) ==
  /\ pc' = [pc EXCEPT ![h] = l]
  /\ arg' = [arg EXCEPT ![h] = a]
  /\ lastId' = [lastId EXCEPT ![h] = id]

\* Its locals, the MySQL object among them, go with it.
Returns(h) == Goes(h, "idle", 0, 0)

-----------------------------------------------------------------------------
(* Registration.                                                           *)

\* A refused INSERT is answered with errno 1 and changes nothing.
Reg(h, n) ==
  /\ pc[h] = "idle"
  /\ n \notin {accounts[i] : i \in Account}
  /\ accounts' = Append(accounts, n)
  /\ Goes(h, "reg_id", n, Len(accounts'))
  /\ UNCHANGED <<friends, groups, members, listing, told, orphans>>

LatestId(h) == Len(accounts)   \* mutant: the id is asked of the table

InsertId(h) == lastId[h]

RegAck(h) ==
  /\ pc[h] = "reg_id"
  /\ told' = told \cup {<<arg[h], InsertId(h)>>}
  /\ Returns(h)
  /\ UNCHANGED <<tables, listing, orphans>>

-----------------------------------------------------------------------------
(* Friends and groups.  Nothing of this is answered.                       *)

\* The id of the friend is whatever the client typed.
AddFriend(h, u, f) ==
  /\ pc[h] = "idle" /\ Cardinality(friends) < MaxFriends
  /\ friends' = friends \cup {<<u, f>>}
  /\ UNCHANGED <<accounts, groups, members, pc, arg, lastId, listing, told, orphans>>

\* The first INSERT; if it fails, createGroup returns false and that is all.
CreateGroup(h, u) ==
  /\ pc[h] = "idle" /\ Len(groups) < MaxGroups
  /\ groups' = Append(groups, u)
  /\ Goes(h, "creator_row", u, Len(groups'))
  /\ UNCHANGED <<accounts, friends, members, listing, told, orphans>>

\* mutant: the row is made for the newest group
NewestGroup(h) == Len(groups)

NewGroup(h) == lastId[h]

RowForgotten(h) == members   \* mutant: the creator gets no row

WithCreator(h) == members \cup {[group |-> NewGroup(h), user |-> arg[h], role |-> "creator"]}

\* The second INSERT, whose failure nobody notices.
AddCreator(h) ==
  /\ pc[h] = "creator_row"
  /\ \/ members' = WithCreator(h) /\ UNCHANGED orphans
     \/ orphans' = orphans \cup {NewGroup(h)} /\ UNCHANGED members
  /\ Returns(h)
  /\ UNCHANGED <<accounts, friends, groups, listing, told>>

\* The id of the group is whatever the client typed.
AddGroup(h, u, g) ==
  /\ pc[h] = "idle"
  /\ members' = members \cup {[group |-> g, user |-> u, role |-> "normal"]}
  /\ UNCHANGED <<accounts, friends, groups, pc, arg, lastId, listing, told, orphans>>

-----------------------------------------------------------------------------
(* What login lists.                                                       *)

GroupsOf(u) == {g \in Group : \E r \in members : r.group = g /\ r.user = u}

AnyMember(g) == {u \in Account : \E r \in members : r.user = u}   \* mutant: WHERE is forgotten

MembersOf(g) == {u \in Account : \E r \in members : r.group = g /\ r.user = u}

\* queryGroups first reads the groups of the account ...
QueryGroups(h, u) ==
  /\ pc[h] = "idle" /\ GroupsOf(u) # {}
  /\ todo' = [todo EXCEPT ![h] = GroupsOf(u)]
  /\ Goes(h, "members", u, 0)
  /\ UNCHANGED <<tables, found, told, orphans>>

\* ... and then, in a statement of its own, the members of each of them; a
\* statement that fails leaves the list of the group empty.
QueryMembers(h) ==
  /\ pc[h] = "members"
  /\ \E g \in todo[h] :
       /\ todo' = [todo EXCEPT ![h] = @ \ {g}]
       /\ \/ found' = [found EXCEPT ![h] = @ \cup ({g} \X MembersOf(g))]
          \/ UNCHANGED found
  /\ UNCHANGED <<tables, pc, arg, lastId, told, orphans>>

ListAck(h) ==
  /\ pc[h] = "members" /\ todo[h] = {}
  /\ found' = [found EXCEPT ![h] = {}]
  /\ Returns(h)
  /\ UNCHANGED <<tables, todo, told, orphans>>

\* The process of the handler ends between two statements.
Crash(h) ==
  /\ pc[h] # "idle"
  /\ orphans' = orphans \cup {g \in {NewGroup(h)} : pc[h] = "creator_row"}
  /\ todo' = [todo EXCEPT ![h] = {}]
  /\ found' = [found EXCEPT ![h] = {}]
  /\ Returns(h)
  /\ UNCHANGED <<tables, told>>

-----------------------------------------------------------------------------
\* An account a client is logged in with is registered.
Next ==
  \E h \in Handler :
    \/ RegAck(h) \/ AddCreator(h) \/ QueryMembers(h) \/ ListAck(h) \/ Crash(h)
    \/ \E n \in Name : Reg(h, n)
    \/ \E u \in Account :
         \/ CreateGroup(h, u) \/ QueryGroups(h, u)
         \/ \E g \in 1..MaxGroups : AddGroup(h, u, g)
         \/ \E f \in 1..(Len(accounts) + 1) : AddFriend(h, u, f)

Spec == Init /\ [][Next]_vars

-----------------------------------------------------------------------------
(* Properties.                                                             *)

TypeOK ==
  /\ accounts \in Seq(Name)
  /\ friends \in SUBSET (Nat \X Nat)
  /\ groups \in Seq(Nat)
  /\ members \in SUBSET Row
  /\ pc \in [Handler -> {"idle", "reg_id", "creator_row", "members"}]
  /\ arg \in [Handler -> Nat \cup Name]
  /\ lastId \in [Handler -> Nat]
  /\ todo \in [Handler -> SUBSET Nat]
  /\ found \in [Handler -> SUBSET (Nat \X Nat)]
  /\ told \in SUBSET (Name \X Nat)
  /\ orphans \in SUBSET Nat

\* The id a registration is answered is that of the row it made, however many
\* registrations come between its INSERT and its question for the id.
ToldIdIsOwn == \A t \in told : t[2] \in Account /\ accounts[t[2]] = t[1]

\* The creator of a group is the account that asked for it, and no group but
\* its own gets it: no other handler's INSERT comes in between.
CreatorIsAsker ==
  \A r \in members : r.role = "creator" => r.group \in Group /\ groups[r.group] = r.user

\* A group lacks its creator only while the second INSERT of createGroup is
\* still to come, or because it failed or its process ended before it.
CreatorIsEntered ==
  \A g \in Group :
    \/ \E r \in members : r.group = g /\ r.role = "creator"
    \/ \E h \in Handler : pc[h] = "creator_row" /\ lastId[h] = g
    \/ g \in orphans

\* Whoever is listed as a member of a group when a login lists it is one, and
\* the account that logs in is among them, unless the statement failed:
\* what the first statement found is still so when the later ones are made.
ListedTogether ==
  \A h \in Handler : \A p \in found[h] :
    /\ p[1] \in GroupsOf(p[2])
    /\ <<p[1], arg[h]>> \in found[h]

\* What a handler at work has inserted or read.
Locals ==
  \A h \in Handler :
    /\ pc[h] = "reg_id" => lastId[h] \in Account /\ accounts[lastId[h]] = arg[h]
    /\ pc[h] = "creator_row" => lastId[h] \in Group /\ groups[lastId[h]] = arg[h]
    /\ pc[h] = "members" => arg[h] \in Account /\ todo[h] \subseteq GroupsOf(arg[h])
    /\ pc[h] # "members" => found[h] = {} /\ todo[h] = {}

\* The inductive invariant.
IndInv ==
  /\ TypeOK /\ Locals
  /\ ToldIdIsOwn /\ CreatorIsAsker /\ CreatorIsEntered /\ ListedTogether
=============================================================================
