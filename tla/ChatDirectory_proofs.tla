------------------------ MODULE ChatDirectory_proofs ------------------------
(***************************************************************************)
(* For any number of handlers, names and rows: ids are told to their       *)
(* owners, creators are the askers, only faults cost a group its creator,  *)
(* and a listing agrees with itself.                                       *)
(***************************************************************************)
EXTENDS ChatDirectory, TLAPS

\* The parts of Locals and ListedTogether that are about one handler.
Local(h) ==
  /\ pc[h] = "reg_id" => lastId[h] \in Account /\ accounts[lastId[h]] = arg[h]
  /\ pc[h] = "creator_row" => lastId[h] \in Group /\ groups[lastId[h]] = arg[h]
  /\ pc[h] = "members" => arg[h] \in Account /\ todo[h] \subseteq GroupsOf(arg[h])
  /\ pc[h] # "members" => found[h] = {} /\ todo[h] = {}

Listed(h) ==
  \A p \in found[h] : p[1] \in GroupsOf(p[2]) /\ <<p[1], arg[h]>> \in found[h]

\* Rows are only ever added.
Keeps ==
  /\ \A i \in Account : i \in Account' /\ accounts'[i] = accounts[i]
  /\ \A i \in Group : i \in Group' /\ groups'[i] = groups[i]
  /\ members \subseteq members'

\* The handler k is not the one that acts.
Rests(k) ==
  /\ pc'[k] = pc[k] /\ arg'[k] = arg[k] /\ lastId'[k] = lastId[k]
  /\ todo'[k] = todo[k] /\ found'[k] = found[k]

LEMMA Appends ==
  ASSUME NEW S, NEW s \in Seq(S), NEW e \in S
  PROVE  /\ Append(s, e) \in Seq(S) /\ Len(Append(s, e)) = Len(s) + 1
         /\ Len(s) + 1 \in 1..Len(Append(s, e)) /\ Append(s, e)[Len(s) + 1] = e
         /\ \A i \in 1..Len(s) : i \in 1..Len(Append(s, e)) /\ Append(s, e)[i] = s[i]
         /\ \A i \in 1..Len(Append(s, e)) : i \in 1..Len(s) \/ i = Len(s) + 1
  OBVIOUS

LEMMA GoesOn ==
  ASSUME TypeOK, NEW h \in Handler, NEW l, NEW a, NEW id, Goes(h, l, a, id)
  PROVE  /\ pc'[h] = l /\ arg'[h] = a /\ lastId'[h] = id
         /\ \A k \in Handler \ {h} : pc'[k] = pc[k] /\ arg'[k] = arg[k] /\ lastId'[k] = lastId[k]
         /\ l \in {"idle", "reg_id", "creator_row", "members"}
              => pc' \in [Handler -> {"idle", "reg_id", "creator_row", "members"}]
         /\ a \in Nat \cup Name => arg' \in [Handler -> Nat \cup Name]
         /\ id \in Nat => lastId' \in [Handler -> Nat]
  BY DEF TypeOK, Goes

LEMMA GroupsGrow ==
  ASSUME Keeps, NEW u
  PROVE  GroupsOf(u) \subseteq GroupsOf(u)'
  BY DEF Keeps, GroupsOf

\* What is so of a handler that rests stays so.
LEMMA RestsKeeps ==
  ASSUME Keeps, NEW k, Rests(k), Local(k), Listed(k)
  PROVE  Local(k)' /\ Listed(k)'
<1>1. \A u : GroupsOf(u) \subseteq GroupsOf(u)'
  BY GroupsGrow
<1>2. Local(k)'
  BY <1>1 DEF Keeps, Rests, Local
<1>3. Listed(k)'
  BY <1>1 DEF Rests, Listed
<1> QED
  BY <1>2, <1>3

\* What holds of the rows already made goes on holding.
LEMMA RowsKeep ==
  ASSUME Keeps, ToldIdIsOwn, CreatorIsAsker
  PROVE  /\ told' = told => ToldIdIsOwn'
         /\ members' = members => CreatorIsAsker'
<1>1. told' = told => ToldIdIsOwn'
  BY DEF Keeps, ToldIdIsOwn
<1>2. members' = members => CreatorIsAsker'
  BY DEF Keeps, CreatorIsAsker
<1> QED
  BY <1>1, <1>2

Parts ==
  /\ TypeOK
  /\ \A h \in Handler : Local(h) /\ Listed(h)
  /\ ToldIdIsOwn /\ CreatorIsAsker /\ CreatorIsEntered

LEMMA PartsIsInv == IndInv <=> Parts
  BY DEF IndInv, Parts, Locals, ListedTogether, Local, Listed

LEMMA InitOK == Init => Parts
<1> SUFFICES ASSUME Init PROVE Parts
  OBVIOUS
<1>1. TypeOK
  BY DEF Init, TypeOK
<1>2. Group = {} /\ members = {} /\ told = {}
  BY DEF Init, Group
<1>3. \A h \in Handler : Local(h) /\ Listed(h)
  BY DEF Init, Local, Listed
<1> QED
  BY <1>1, <1>2, <1>3 DEF Parts, ToldIdIsOwn, CreatorIsAsker, CreatorIsEntered

\* A group whose creator is entered, or still to come, or lost, stays so when
\* no handler that has a creator to enter acts.
LEMMA EnteredKeeps ==
  ASSUME Keeps, CreatorIsEntered, orphans \subseteq orphans', NEW g \in Group,
         \A k \in Handler : pc[k] = "creator_row" => Rests(k)
  PROVE  \/ \E r \in members' : r.group = g /\ r.role = "creator"
         \/ \E k \in Handler : pc'[k] = "creator_row" /\ lastId'[k] = g
         \/ g \in orphans'
  BY DEF Keeps, CreatorIsEntered, Rests

LEMMA RegOK ==
  ASSUME Parts, NEW h \in Handler, NEW n \in Name, Reg(h, n)
  PROVE  Parts'
<1>1. /\ TypeOK /\ ToldIdIsOwn /\ CreatorIsAsker /\ CreatorIsEntered
      /\ \A k \in Handler : Local(k) /\ Listed(k)
  BY DEF Parts
<1>2. /\ pc[h] = "idle" /\ accounts' = Append(accounts, n)
      /\ Goes(h, "reg_id", n, Len(accounts'))
      /\ UNCHANGED <<friends, groups, members, todo, found, told, orphans>>
  BY DEF Reg, listing
<1>3. /\ accounts' \in Seq(Name) /\ Len(accounts') \in Nat
      /\ Len(accounts') \in Account' /\ accounts'[Len(accounts')] = n
      /\ \A i \in Account : i \in Account' /\ accounts'[i] = accounts[i]
  BY <1>1, <1>2, Appends DEF TypeOK, Account
<1>4. /\ pc'[h] = "reg_id" /\ arg'[h] = n /\ lastId'[h] = Len(accounts')
      /\ \A k \in Handler \ {h} : pc'[k] = pc[k] /\ arg'[k] = arg[k] /\ lastId'[k] = lastId[k]
      /\ pc' \in [Handler -> {"idle", "reg_id", "creator_row", "members"}]
      /\ arg' \in [Handler -> Nat \cup Name] /\ lastId' \in [Handler -> Nat]
  BY <1>1, <1>2, <1>3, GoesOn
<1>5. TypeOK'
  BY <1>1, <1>2, <1>3, <1>4 DEF TypeOK
<1>6. Keeps
  BY <1>2, <1>3 DEF Keeps, Group
<1>7. \A k \in Handler \ {h} : Rests(k)
  BY <1>2, <1>4 DEF Rests
<1>8. Local(h)' /\ Listed(h)'
  <2>1. found'[h] = {} /\ todo'[h] = {}
    BY <1>1, <1>2 DEF Local
  <2> QED
    BY <1>3, <1>4, <2>1 DEF Local, Listed
<1>9. \A k \in Handler : Local(k)' /\ Listed(k)'
  BY <1>1, <1>6, <1>7, <1>8, RestsKeeps
<1>10. ToldIdIsOwn' /\ CreatorIsAsker'
  BY <1>1, <1>2, <1>6, RowsKeep
<1>11. CreatorIsEntered'
  <2>1. \A k \in Handler : pc[k] = "creator_row" => Rests(k)
    BY <1>2, <1>7
  <2>2. Group' = Group /\ orphans' = orphans
    BY <1>2 DEF Group
  <2> QED
    BY <1>1, <1>6, <2>1, <2>2, EnteredKeeps DEF CreatorIsEntered
<1> QED
  BY <1>5, <1>9, <1>10, <1>11 DEF Parts

LEMMA RegAckOK ==
  ASSUME Parts, NEW h \in Handler, RegAck(h)
  PROVE  Parts'
<1>1. /\ TypeOK /\ ToldIdIsOwn /\ CreatorIsAsker /\ CreatorIsEntered
      /\ \A k \in Handler : Local(k) /\ Listed(k)
  BY DEF Parts
<1>2. /\ pc[h] = "reg_id" /\ told' = told \cup {<<arg[h], lastId[h]>>}
      /\ Goes(h, "idle", 0, 0)
      /\ UNCHANGED <<accounts, friends, groups, members, todo, found, orphans>>
  BY DEF RegAck, InsertId, Returns, tables, listing
<1>3. lastId[h] \in Account /\ accounts[lastId[h]] = arg[h]
  BY <1>1, <1>2 DEF Local
<1>4. /\ pc'[h] = "idle"
      /\ \A k \in Handler \ {h} : pc'[k] = pc[k] /\ arg'[k] = arg[k] /\ lastId'[k] = lastId[k]
      /\ pc' \in [Handler -> {"idle", "reg_id", "creator_row", "members"}]
      /\ arg' \in [Handler -> Nat \cup Name] /\ lastId' \in [Handler -> Nat]
  BY <1>1, <1>2, GoesOn
<1>5. TypeOK'
  <2>1. accounts[lastId[h]] \in Name /\ lastId[h] \in Nat
    BY <1>1, <1>3 DEF TypeOK, Account
  <2>2. told' \in SUBSET (Name \X Nat)
    BY <1>1, <1>2, <1>3, <2>1 DEF TypeOK
  <2> QED
    BY <1>1, <1>2, <1>4, <2>2 DEF TypeOK
<1>6. Keeps /\ Account' = Account /\ Group' = Group
  BY <1>2 DEF Keeps, Account, Group
<1>7. \A k \in Handler \ {h} : Rests(k)
  BY <1>2, <1>4 DEF Rests
<1>8. Local(h)' /\ Listed(h)'
  <2>1. found'[h] = {} /\ todo'[h] = {}
    BY <1>1, <1>2 DEF Local
  <2> QED
    BY <1>4, <2>1 DEF Local, Listed
<1>9. \A k \in Handler : Local(k)' /\ Listed(k)'
  BY <1>1, <1>6, <1>7, <1>8, RestsKeeps
<1>10. ToldIdIsOwn'
  BY <1>1, <1>2, <1>3, <1>6 DEF ToldIdIsOwn
<1>11. CreatorIsAsker'
  BY <1>1, <1>2, <1>6, RowsKeep
<1>12. CreatorIsEntered'
  <2>1. \A k \in Handler : pc[k] = "creator_row" => Rests(k)
    BY <1>2, <1>7
  <2> QED
    BY <1>1, <1>2, <1>6, <2>1, EnteredKeeps DEF CreatorIsEntered
<1> QED
  BY <1>5, <1>9, <1>10, <1>11, <1>12 DEF Parts

LEMMA AddFriendOK ==
  ASSUME Parts, NEW h \in Handler, NEW u \in Account, NEW f \in Nat, AddFriend(h, u, f)
  PROVE  Parts'
<1>1. /\ TypeOK /\ ToldIdIsOwn /\ CreatorIsAsker /\ CreatorIsEntered
      /\ \A k \in Handler : Local(k) /\ Listed(k)
  BY DEF Parts
<1>2. /\ friends' = friends \cup {<<u, f>>}
      /\ UNCHANGED <<accounts, groups, members, pc, arg, lastId, todo, found, told, orphans>>
  BY DEF AddFriend, listing
<1>3. TypeOK'
  <2>1. u \in Nat
    BY <1>1 DEF TypeOK, Account
  <2> QED
    BY <1>1, <1>2, <2>1 DEF TypeOK
<1>4. Keeps /\ Group' = Group /\ \A k \in Handler : Rests(k)
  BY <1>2 DEF Keeps, Rests, Account, Group
<1>5. \A k \in Handler : Local(k)' /\ Listed(k)'
  BY <1>1, <1>4, RestsKeeps
<1>6. ToldIdIsOwn' /\ CreatorIsAsker'
  BY <1>1, <1>2, <1>4, RowsKeep
<1>7. CreatorIsEntered'
  BY <1>1, <1>2, <1>4, EnteredKeeps DEF CreatorIsEntered
<1> QED
  BY <1>3, <1>5, <1>6, <1>7 DEF Parts

LEMMA CreateGroupOK ==
  ASSUME Parts, NEW h \in Handler, NEW u \in Account, CreateGroup(h, u)
  PROVE  Parts'
<1>1. /\ TypeOK /\ ToldIdIsOwn /\ CreatorIsAsker /\ CreatorIsEntered
      /\ \A k \in Handler : Local(k) /\ Listed(k)
  BY DEF Parts
<1>2. /\ pc[h] = "idle" /\ groups' = Append(groups, u)
      /\ Goes(h, "creator_row", u, Len(groups'))
      /\ UNCHANGED <<accounts, friends, members, todo, found, told, orphans>>
  BY DEF CreateGroup, listing
<1>3. /\ groups' \in Seq(Nat) /\ Len(groups') \in Nat /\ u \in Nat
      /\ Len(groups') \in Group' /\ groups'[Len(groups')] = u
      /\ \A i \in Group : i \in Group' /\ groups'[i] = groups[i]
      /\ \A i \in Group' : i \in Group \/ i = Len(groups')
  <2>1. u \in Nat /\ groups \in Seq(Nat)
    BY <1>1 DEF TypeOK, Account
  <2> QED
    BY <1>2, <2>1, Appends DEF Group
<1>4. /\ pc'[h] = "creator_row" /\ arg'[h] = u /\ lastId'[h] = Len(groups')
      /\ \A k \in Handler \ {h} : pc'[k] = pc[k] /\ arg'[k] = arg[k] /\ lastId'[k] = lastId[k]
      /\ pc' \in [Handler -> {"idle", "reg_id", "creator_row", "members"}]
      /\ arg' \in [Handler -> Nat \cup Name] /\ lastId' \in [Handler -> Nat]
  BY <1>1, <1>2, <1>3, GoesOn
<1>5. TypeOK'
  BY <1>1, <1>2, <1>3, <1>4 DEF TypeOK
<1>6. Keeps
  BY <1>2, <1>3 DEF Keeps, Account
<1>7. \A k \in Handler \ {h} : Rests(k)
  BY <1>2, <1>4 DEF Rests
<1>8. Local(h)' /\ Listed(h)'
  <2>1. found'[h] = {} /\ todo'[h] = {}
    BY <1>1, <1>2 DEF Local
  <2> QED
    BY <1>3, <1>4, <2>1 DEF Local, Listed
<1>9. \A k \in Handler : Local(k)' /\ Listed(k)'
  BY <1>1, <1>6, <1>7, <1>8, RestsKeeps
<1>10. ToldIdIsOwn' /\ CreatorIsAsker'
  BY <1>1, <1>2, <1>6, RowsKeep
<1>11. CreatorIsEntered'
  <2>1. \A k \in Handler : pc[k] = "creator_row" => Rests(k)
    BY <1>2, <1>7
  <2>2. ASSUME NEW g \in Group'
        PROVE  \/ \E r \in members' : r.group = g /\ r.role = "creator"
               \/ \E k \in Handler : pc'[k] = "creator_row" /\ lastId'[k] = g
               \/ g \in orphans'
    <3>1. CASE g \in Group
      BY <1>1, <1>2, <1>6, <2>1, <3>1, EnteredKeeps
    <3>2. CASE g = Len(groups')
      BY <1>4, <3>2
    <3> QED
      BY <1>3, <3>1, <3>2
  <2> QED
    BY <2>2 DEF CreatorIsEntered
<1> QED
  BY <1>5, <1>9, <1>10, <1>11 DEF Parts

\* What a step that ends a creator_row leaves of CreatorIsEntered to show:
\* the group of that handler has its row, or is counted as orphaned.
LEMMA EnteredBy ==
  ASSUME Keeps, CreatorIsEntered, Group' = Group, orphans \subseteq orphans',
         NEW h \in Handler, \A k \in Handler \ {h} : Rests(k),
         \/ \E r \in members' : r.group = lastId[h] /\ r.role = "creator"
         \/ lastId[h] \in orphans'
  PROVE  CreatorIsEntered'
<1> SUFFICES ASSUME NEW g \in Group
             PROVE  \/ \E r \in members' : r.group = g /\ r.role = "creator"
                    \/ \E k \in Handler : pc'[k] = "creator_row" /\ lastId'[k] = g
                    \/ g \in orphans'
  BY DEF CreatorIsEntered
<1>1. CASE \E r \in members : r.group = g /\ r.role = "creator"
  BY <1>1 DEF Keeps
<1>2. CASE g \in orphans
  BY <1>2
<1>3. ASSUME NEW k \in Handler, pc[k] = "creator_row", lastId[k] = g
      PROVE  \/ \E r \in members' : r.group = g /\ r.role = "creator"
             \/ \E j \in Handler : pc'[j] = "creator_row" /\ lastId'[j] = g
             \/ g \in orphans'
  <2>1. CASE k = h
    BY <1>3, <2>1
  <2>2. CASE k # h
    BY <1>3, <2>2 DEF Rests
  <2> QED
    BY <2>1, <2>2
<1> QED
  BY <1>1, <1>2, <1>3 DEF CreatorIsEntered

LEMMA AddCreatorOK ==
  ASSUME Parts, NEW h \in Handler, AddCreator(h)
  PROVE  Parts'
<1>1. /\ TypeOK /\ ToldIdIsOwn /\ CreatorIsAsker /\ CreatorIsEntered
      /\ \A k \in Handler : Local(k) /\ Listed(k)
  BY DEF Parts
<1> DEFINE row == [group |-> lastId[h], user |-> arg[h], role |-> "creator"]
<1>2. /\ pc[h] = "creator_row"
      /\ \/ members' = members \cup {row} /\ orphans' = orphans
         \/ orphans' = orphans \cup {lastId[h]} /\ members' = members
      /\ Goes(h, "idle", 0, 0)
      /\ UNCHANGED <<accounts, friends, groups, todo, found, told>>
  BY DEF AddCreator, WithCreator, NewGroup, Returns, listing
<1>3. /\ lastId[h] \in Group /\ groups[lastId[h]] = arg[h]
      /\ lastId[h] \in Nat /\ arg[h] \in Nat
  <2>1. lastId[h] \in Group /\ groups[lastId[h]] = arg[h]
    BY <1>1, <1>2 DEF Local
  <2> QED
    BY <1>1, <2>1 DEF TypeOK, Group
<1>4. row \in Row /\ row.group = lastId[h] /\ row.user = arg[h] /\ row.role = "creator"
  BY <1>3 DEF Row
<1> HIDE DEF row
<1>5. /\ pc'[h] = "idle"
      /\ \A k \in Handler \ {h} : pc'[k] = pc[k] /\ arg'[k] = arg[k] /\ lastId'[k] = lastId[k]
      /\ pc' \in [Handler -> {"idle", "reg_id", "creator_row", "members"}]
      /\ arg' \in [Handler -> Nat \cup Name] /\ lastId' \in [Handler -> Nat]
  BY <1>1, <1>2, GoesOn
<1>6. TypeOK'
  <2>1. members' \in SUBSET Row /\ orphans' \in SUBSET Nat
    BY <1>1, <1>2, <1>3, <1>4 DEF TypeOK
  <2> QED
    BY <1>1, <1>2, <1>5, <2>1 DEF TypeOK
<1>7. Keeps /\ Group' = Group
  BY <1>2 DEF Keeps, Account, Group
<1>8. \A k \in Handler \ {h} : Rests(k)
  BY <1>2, <1>5 DEF Rests
<1>9. Local(h)' /\ Listed(h)'
  <2>1. found'[h] = {} /\ todo'[h] = {}
    BY <1>1, <1>2 DEF Local
  <2> QED
    BY <1>5, <2>1 DEF Local, Listed
<1>10. \A k \in Handler : Local(k)' /\ Listed(k)'
  BY <1>1, <1>7, <1>8, <1>9, RestsKeeps
<1>11. ToldIdIsOwn'
  BY <1>1, <1>2, <1>7, RowsKeep
<1>12. CreatorIsAsker'
  <2>1. groups' = groups
    BY <1>2
  <2>2. ASSUME NEW r \in members', r.role = "creator"
        PROVE  r.group \in Group /\ groups[r.group] = r.user
    <3>1. CASE r \in members
      BY <1>1, <2>2, <3>1 DEF CreatorIsAsker
    <3>2. CASE r = row
      BY <1>3, <1>4, <3>2
    <3> QED
      BY <1>2, <3>1, <3>2
  <2> QED
    BY <1>7, <2>1, <2>2 DEF CreatorIsAsker
<1>13. CreatorIsEntered'
  <2>1. \/ \E r \in members' : r.group = lastId[h] /\ r.role = "creator"
        \/ lastId[h] \in orphans'
    BY <1>2, <1>4
  <2> QED
    BY <1>1, <1>2, <1>7, <1>8, <2>1, EnteredBy
<1> QED
  BY <1>6, <1>10, <1>11, <1>12, <1>13 DEF Parts

LEMMA AddGroupOK ==
  ASSUME Parts, NEW h \in Handler, NEW u \in Account, NEW g \in Nat, AddGroup(h, u, g)
  PROVE  Parts'
<1>1. /\ TypeOK /\ ToldIdIsOwn /\ CreatorIsAsker /\ CreatorIsEntered
      /\ \A k \in Handler : Local(k) /\ Listed(k)
  BY DEF Parts
<1> DEFINE row == [group |-> g, user |-> u, role |-> "normal"]
<1>2. /\ members' = members \cup {row}
      /\ UNCHANGED <<accounts, friends, groups, pc, arg, lastId, todo, found, told, orphans>>
  BY DEF AddGroup, listing
<1>3. row \in Row /\ row.role # "creator"
  BY <1>1 DEF Row, TypeOK, Account
<1> HIDE DEF row
<1>4. TypeOK'
  BY <1>1, <1>2, <1>3 DEF TypeOK
<1>5. Keeps /\ Group' = Group /\ \A k \in Handler : Rests(k)
  BY <1>2 DEF Keeps, Rests, Account, Group
<1>6. \A k \in Handler : Local(k)' /\ Listed(k)'
  BY <1>1, <1>5, RestsKeeps
<1>7. ToldIdIsOwn'
  BY <1>1, <1>2, <1>5, RowsKeep
<1>8. CreatorIsAsker'
  BY <1>1, <1>2, <1>3, <1>5 DEF CreatorIsAsker
<1>9. CreatorIsEntered'
  BY <1>1, <1>2, <1>5, EnteredKeeps DEF CreatorIsEntered
<1> QED
  BY <1>4, <1>6, <1>7, <1>8, <1>9 DEF Parts

LEMMA QueryGroupsOK ==
  ASSUME Parts, NEW h \in Handler, NEW u \in Account, QueryGroups(h, u)
  PROVE  Parts'
<1>1. /\ TypeOK /\ ToldIdIsOwn /\ CreatorIsAsker /\ CreatorIsEntered
      /\ \A k \in Handler : Local(k) /\ Listed(k)
  BY DEF Parts
<1>2. /\ pc[h] = "idle" /\ todo' = [todo EXCEPT ![h] = GroupsOf(u)]
      /\ Goes(h, "members", u, 0)
      /\ UNCHANGED <<accounts, friends, groups, members, found, told, orphans>>
  BY DEF QueryGroups, tables
<1>3. u \in Nat /\ GroupsOf(u) \subseteq Nat
  BY <1>1 DEF TypeOK, Account, Group, GroupsOf
<1>4. /\ pc'[h] = "members" /\ arg'[h] = u
      /\ \A k \in Handler \ {h} : pc'[k] = pc[k] /\ arg'[k] = arg[k] /\ lastId'[k] = lastId[k]
      /\ pc' \in [Handler -> {"idle", "reg_id", "creator_row", "members"}]
      /\ arg' \in [Handler -> Nat \cup Name] /\ lastId' \in [Handler -> Nat]
  BY <1>1, <1>2, <1>3, GoesOn
<1>5. /\ todo' \in [Handler -> SUBSET Nat] /\ todo'[h] = GroupsOf(u)
      /\ \A k \in Handler \ {h} : todo'[k] = todo[k]
  BY <1>1, <1>2, <1>3 DEF TypeOK
<1>6. TypeOK'
  BY <1>1, <1>2, <1>4, <1>5 DEF TypeOK
<1>7. Keeps /\ Group' = Group /\ Account' = Account /\ \A v : GroupsOf(v)' = GroupsOf(v)
  BY <1>2 DEF Keeps, Account, Group, GroupsOf
<1>8. \A k \in Handler \ {h} : Rests(k)
  BY <1>2, <1>4, <1>5 DEF Rests
<1>9. Local(h)' /\ Listed(h)'
  <2>1. found'[h] = {}
    BY <1>1, <1>2 DEF Local
  <2> QED
    BY <1>4, <1>5, <1>7, <2>1 DEF Local, Listed
<1>10. \A k \in Handler : Local(k)' /\ Listed(k)'
  BY <1>1, <1>7, <1>8, <1>9, RestsKeeps
<1>11. ToldIdIsOwn' /\ CreatorIsAsker'
  BY <1>1, <1>2, <1>7, RowsKeep
<1>12. CreatorIsEntered'
  <2>1. \A k \in Handler : pc[k] = "creator_row" => Rests(k)
    BY <1>2, <1>8
  <2> QED
    BY <1>1, <1>2, <1>7, <2>1, EnteredKeeps DEF CreatorIsEntered
<1> QED
  BY <1>6, <1>10, <1>11, <1>12 DEF Parts

LEMMA QueryMembersOK ==
  ASSUME Parts, NEW h \in Handler, QueryMembers(h)
  PROVE  Parts'
<1>1. /\ TypeOK /\ ToldIdIsOwn /\ CreatorIsAsker /\ CreatorIsEntered
      /\ \A k \in Handler : Local(k) /\ Listed(k)
  BY DEF Parts
<1>2. PICK g \in todo[h] :
        /\ todo' = [todo EXCEPT ![h] = @ \ {g}]
        /\ \/ found' = [found EXCEPT ![h] = @ \cup ({g} \X MembersOf(g))]
           \/ found' = found
  BY DEF QueryMembers
<1>3. /\ pc[h] = "members"
      /\ UNCHANGED <<accounts, friends, groups, members, pc, arg, lastId, told, orphans>>
  BY DEF QueryMembers, tables
<1>4. arg[h] \in Account /\ todo[h] \subseteq GroupsOf(arg[h])
  BY <1>1, <1>3 DEF Local
<1>5. /\ g \in Group /\ g \in Nat /\ arg[h] \in MembersOf(g)
      /\ MembersOf(g) \subseteq Nat
      /\ \A u \in MembersOf(g) : g \in GroupsOf(u)
  <2>1. g \in GroupsOf(arg[h])
    BY <1>2, <1>4
  <2> QED
    BY <1>1, <1>4, <2>1 DEF GroupsOf, MembersOf, TypeOK, Group, Account
<1>6. /\ todo' \in [Handler -> SUBSET Nat] /\ todo'[h] = todo[h] \ {g}
      /\ \A k \in Handler \ {h} : todo'[k] = todo[k]
  BY <1>1, <1>2 DEF TypeOK
<1>7. /\ found' \in [Handler -> SUBSET (Nat \X Nat)]
      /\ found'[h] = found[h] \cup ({g} \X MembersOf(g)) \/ found'[h] = found[h]
      /\ \A k \in Handler \ {h} : found'[k] = found[k]
  <2>1. {g} \X MembersOf(g) \in SUBSET (Nat \X Nat)
    BY <1>5
  <2>2. PICK S \in SUBSET (Nat \X Nat) : S = {g} \X MembersOf(g)
    BY <2>1
  <2>3. found \in [Handler -> SUBSET (Nat \X Nat)]
    BY <1>1 DEF TypeOK
  <2>4. CASE found' = [found EXCEPT ![h] = @ \cup ({g} \X MembersOf(g))]
    <3>1. found' = [found EXCEPT ![h] = found[h] \cup S]
      BY <2>2, <2>4
    <3>2. /\ found' \in [Handler -> SUBSET (Nat \X Nat)]
          /\ found'[h] = found[h] \cup S
          /\ \A k \in Handler \ {h} : found'[k] = found[k]
      BY <2>3, <3>1
    <3> QED
      BY <2>2, <3>2
  <2>5. CASE found' = found
    BY <2>3, <2>5
  <2> QED
    BY <1>2, <2>4, <2>5
<1>8. TypeOK'
  BY <1>1, <1>3, <1>6, <1>7 DEF TypeOK
<1>9. Keeps /\ Group' = Group /\ Account' = Account /\ \A v : GroupsOf(v)' = GroupsOf(v)
  BY <1>3 DEF Keeps, Account, Group, GroupsOf
<1>10. \A k \in Handler \ {h} : Rests(k)
  BY <1>3, <1>6, <1>7 DEF Rests
<1>11. Local(h)'
  BY <1>3, <1>4, <1>6, <1>9 DEF Local
<1>12. Listed(h)'
  <2>1. Listed(h) /\ arg'[h] = arg[h]
    BY <1>1, <1>3
  <2>2. ASSUME NEW p \in found'[h]
        PROVE  p[1] \in GroupsOf(p[2]) /\ <<p[1], arg[h]>> \in found'[h]
    <3>1. CASE p \in found[h]
      BY <1>7, <2>1, <3>1 DEF Listed
    <3>2. CASE p \in {g} \X MembersOf(g) /\ found'[h] = found[h] \cup ({g} \X MembersOf(g))
      <4>1. p[1] = g /\ p[2] \in MembersOf(g)
        BY <3>2
      <4>2. <<g, arg[h]>> \in {g} \X MembersOf(g)
        BY <1>5
      <4> QED
        BY <1>5, <3>2, <4>1, <4>2
    <3> QED
      BY <1>7, <3>1, <3>2
  <2> QED
    BY <1>9, <2>1, <2>2 DEF Listed
<1>13. \A k \in Handler : Local(k)' /\ Listed(k)'
  BY <1>1, <1>9, <1>10, <1>11, <1>12, RestsKeeps
<1>14. ToldIdIsOwn' /\ CreatorIsAsker'
  BY <1>1, <1>3, <1>9, RowsKeep
<1>15. CreatorIsEntered'
  <2>1. \A k \in Handler : pc[k] = "creator_row" => Rests(k)
    BY <1>3, <1>10
  <2> QED
    BY <1>1, <1>3, <1>9, <2>1, EnteredKeeps DEF CreatorIsEntered
<1> QED
  BY <1>8, <1>13, <1>14, <1>15 DEF Parts

\* A handler that returns, or whose process ends, leaves nothing behind.
LEMMA LeavesOK ==
  ASSUME Parts, NEW h \in Handler, Returns(h),
         todo' = [todo EXCEPT ![h] = {}], found' = [found EXCEPT ![h] = {}],
         UNCHANGED <<accounts, friends, groups, members, told>>,
         orphans' \in SUBSET Nat, orphans \subseteq orphans',
         pc[h] = "creator_row" => lastId[h] \in orphans'
  PROVE  Parts'
<1>1. /\ TypeOK /\ ToldIdIsOwn /\ CreatorIsAsker /\ CreatorIsEntered
      /\ \A k \in Handler : Local(k) /\ Listed(k)
  BY DEF Parts
<1>2. /\ pc'[h] = "idle"
      /\ \A k \in Handler \ {h} : pc'[k] = pc[k] /\ arg'[k] = arg[k] /\ lastId'[k] = lastId[k]
      /\ pc' \in [Handler -> {"idle", "reg_id", "creator_row", "members"}]
      /\ arg' \in [Handler -> Nat \cup Name] /\ lastId' \in [Handler -> Nat]
  BY <1>1, GoesOn DEF Returns
<1>3. /\ todo' \in [Handler -> SUBSET Nat] /\ found' \in [Handler -> SUBSET (Nat \X Nat)]
      /\ todo'[h] = {} /\ found'[h] = {}
      /\ \A k \in Handler \ {h} : todo'[k] = todo[k] /\ found'[k] = found[k]
  BY <1>1 DEF TypeOK
<1>4. TypeOK'
  BY <1>1, <1>2, <1>3 DEF TypeOK
<1>5. Keeps /\ Group' = Group
  BY DEF Keeps, Account, Group
<1>6. \A k \in Handler \ {h} : Rests(k)
  BY <1>2, <1>3 DEF Rests
<1>7. Local(h)' /\ Listed(h)'
  BY <1>2, <1>3 DEF Local, Listed
<1>8. \A k \in Handler : Local(k)' /\ Listed(k)'
  BY <1>1, <1>5, <1>6, <1>7, RestsKeeps
<1>9. ToldIdIsOwn' /\ CreatorIsAsker'
  BY <1>1, <1>5, RowsKeep
<1>10. CreatorIsEntered'
  <2>1. CASE pc[h] = "creator_row"
    BY <1>1, <1>5, <1>6, <2>1, EnteredBy
  <2>2. CASE pc[h] # "creator_row"
    <3>1. \A k \in Handler : pc[k] = "creator_row" => Rests(k)
      BY <1>6, <2>2
    <3> QED
      BY <1>1, <1>5, <3>1, EnteredKeeps DEF CreatorIsEntered
  <2> QED
    BY <2>1, <2>2
<1> QED
  BY <1>4, <1>8, <1>9, <1>10 DEF Parts

LEMMA ListAckOK ==
  ASSUME Parts, NEW h \in Handler, ListAck(h)
  PROVE  Parts'
<1>1. /\ pc[h] = "members" /\ todo[h] = {} /\ Returns(h)
      /\ found' = [found EXCEPT ![h] = {}]
      /\ UNCHANGED <<accounts, friends, groups, members, todo, told, orphans>>
  BY DEF ListAck, tables
<1>2. todo' = [todo EXCEPT ![h] = {}] /\ orphans' \in SUBSET Nat
  BY <1>1 DEF Parts, TypeOK
<1> QED
  BY <1>1, <1>2, LeavesOK

LEMMA CrashOK ==
  ASSUME Parts, NEW h \in Handler, Crash(h)
  PROVE  Parts'
<1>1. /\ Returns(h)
      /\ todo' = [todo EXCEPT ![h] = {}] /\ found' = [found EXCEPT ![h] = {}]
      /\ UNCHANGED <<accounts, friends, groups, members, told>>
      /\ orphans' = orphans \cup {g \in {lastId[h]} : pc[h] = "creator_row"}
  BY DEF Crash, NewGroup, tables
<1>2. orphans' \in SUBSET Nat
  BY <1>1 DEF Parts, TypeOK
<1>3. orphans \subseteq orphans' /\ (pc[h] = "creator_row" => lastId[h] \in orphans')
  BY <1>1
<1> QED
  BY <1>1, <1>2, <1>3, LeavesOK

LEMMA StutterOK == Parts /\ UNCHANGED vars => Parts'
<1> SUFFICES ASSUME Parts, UNCHANGED vars PROVE Parts'
  OBVIOUS
<1>1. UNCHANGED <<accounts, friends, groups, members, pc, arg, lastId, todo, found, told, orphans>>
  BY DEF vars, tables, listing
<1>2. /\ TypeOK /\ ToldIdIsOwn /\ CreatorIsAsker /\ CreatorIsEntered
      /\ \A k \in Handler : Local(k) /\ Listed(k)
  BY DEF Parts
<1>3. Keeps /\ Group' = Group /\ \A k \in Handler : Rests(k)
  BY <1>1 DEF Keeps, Rests, Account, Group
<1>4. \A k \in Handler : Local(k)' /\ Listed(k)'
  BY <1>2, <1>3, RestsKeeps
<1>5. ToldIdIsOwn' /\ CreatorIsAsker'
  BY <1>1, <1>2, <1>3, RowsKeep
<1>6. CreatorIsEntered'
  BY <1>1, <1>2, <1>3, EnteredKeeps DEF CreatorIsEntered
<1>7. TypeOK'
  BY <1>1, <1>2 DEF TypeOK
<1> QED
  BY <1>4, <1>5, <1>6, <1>7 DEF Parts

LEMMA StepOK == Parts /\ [Next]_vars => Parts'
<1> SUFFICES ASSUME Parts, [Next]_vars PROVE Parts'
  OBVIOUS
<1>1. CASE UNCHANGED vars
  BY <1>1, StutterOK
<1>2. ASSUME NEW h \in Handler, RegAck(h) PROVE Parts'
  BY <1>2, RegAckOK
<1>3. ASSUME NEW h \in Handler, AddCreator(h) PROVE Parts'
  BY <1>3, AddCreatorOK
<1>4. ASSUME NEW h \in Handler, QueryMembers(h) PROVE Parts'
  BY <1>4, QueryMembersOK
<1>5. ASSUME NEW h \in Handler, ListAck(h) PROVE Parts'
  BY <1>5, ListAckOK
<1>6. ASSUME NEW h \in Handler, Crash(h) PROVE Parts'
  BY <1>6, CrashOK
<1>7. ASSUME NEW h \in Handler, NEW n \in Name, Reg(h, n) PROVE Parts'
  BY <1>7, RegOK
<1>8. ASSUME NEW h \in Handler, NEW u \in Account, CreateGroup(h, u) PROVE Parts'
  BY <1>8, CreateGroupOK
<1>9. ASSUME NEW h \in Handler, NEW u \in Account, QueryGroups(h, u) PROVE Parts'
  BY <1>9, QueryGroupsOK
<1>10. ASSUME NEW h \in Handler, NEW u \in Account, NEW g \in 1..MaxGroups, AddGroup(h, u, g)
       PROVE  Parts'
  <2>1. g \in Nat
    BY DirectoryAssumption DEF DirectoryAssumption
  <2> QED
    BY <1>10, <2>1, AddGroupOK
<1>11. ASSUME NEW h \in Handler, NEW u \in Account, NEW f \in 1..(Len(accounts) + 1),
              AddFriend(h, u, f)
       PROVE  Parts'
  <2>1. f \in Nat
    BY DEF Parts, TypeOK
  <2> QED
    BY <1>11, <2>1, AddFriendOK
<1> QED
  BY <1>1, <1>2, <1>3, <1>4, <1>5, <1>6, <1>7, <1>8, <1>9, <1>10, <1>11 DEF Next

\* The invariant of the tables and of the handlers at work on them.
THEOREM DirectoryInductive == Spec => []IndInv
<1>1. Init => IndInv
  BY InitOK, PartsIsInv
<1>2. IndInv /\ [Next]_vars => IndInv'
  BY StepOK, PartsIsInv, PTL
<1> QED
  BY <1>1, <1>2, PTL DEF Spec

\* mysql_insert_id is asked on the connection that inserted: a registration
\* is told the id of its own row.
THEOREM IdsAreOwn == Spec => []ToldIdIsOwn
<1>1. IndInv => ToldIdIsOwn
  BY DEF IndInv
<1> QED
  BY <1>1, DirectoryInductive, PTL

\* createGroup enters its asker, and nobody else, as the creator of its group:
\* the id it enters is that of the group its own INSERT made.
THEOREM CreatorsAreAskers == Spec => []CreatorIsAsker
<1>1. IndInv => CreatorIsAsker
  BY DEF IndInv
<1> QED
  BY <1>1, DirectoryInductive, PTL

\* Once createGroup is through, its group has a creator, unless the second
\* INSERT failed or the process ended before it.
THEOREM CreatorsAreEntered == Spec => []CreatorIsEntered
<1>1. IndInv => CreatorIsEntered
  BY DEF IndInv
<1> QED
  BY <1>1, DirectoryInductive, PTL

\* The statements of queryGroups fit together, whatever comes in between.
THEOREM ListingsAgree == Spec => []ListedTogether
<1>1. IndInv => ListedTogether
  BY DEF IndInv
<1> QED
  BY <1>1, DirectoryInductive, PTL
=============================================================================
