---------------------------- MODULE GroupsProofs ----------------------------
(***************************************************************************)
(* Theorems about Groups and GroupGuard, for every set of users, groups,   *)
(* posts and handlers and every bound.                                     *)
(*                                                                         *)
(* Of the group store: type correctness, the nesting of roles, and, when   *)
(* no removal arrives late, the freshness of the grants that still admit.  *)
(*                                                                         *)
(* Of the guard: what clients are served is what the group store decides   *)
(* by, and the emit cache never hides a missing state event.  Both under   *)
(* the two conditions the guard relies on: an id is not created again      *)
(* while its purge is running, and a restart outlasts the emit clamp's     *)
(* lead over the clock.                                                    *)
(***************************************************************************)
EXTENDS GroupGuard, TLAPS

----------------------------------------------------------------------------
(* What each management event does to a well-typed group record.            *)

\* newGroup and applyMetadataTags yield a well-typed group.
LEMMA NewGroupType ==
    ASSUME NEW u \in User, NEW m
    PROVE  WithTags(NewGroup(u), m) \in Group
BY DEF WithTags, NewGroup, NeverKicked, Group

\* applyMetadataTags keeps a group well typed.
LEMMA TagsType ==
    ASSUME NEW r \in Group, NEW m
    PROVE  WithTags(r, m) \in Group
BY DEF WithTags, Group

\* A 9000 add-user event keeps a group well typed.
LEMMA WithUserType ==
    ASSUME NEW r \in Group, NEW u \in User, NEW role
    PROVE  WithUser(r, u, role) \in Group
BY DEF WithUser, Group

\* A removal or a leave keeps a group well typed.
LEMMA WithoutUserType ==
    ASSUME NEW r \in Group, NEW u \in User, NEW at \in Time
    PROVE  WithoutUser(r, u, at) \in Group
BY DEF WithoutUser, Group

\* A join request keeps a group well typed.
LEMMA WithJoinType ==
    ASSUME NEW r \in Group, NEW u \in User, NEW id, NEW g
    PROVE  WithJoin(id, r, u, g) \in Group
BY DEF WithJoin, Group

\* Setting a post's gates keeps a group well typed.
LEMMA GateType ==
    ASSUME NEW r \in Group, NEW p \in Post, NEW gate \in Gate
    PROVE  [r EXCEPT !.gates[p] = gate] \in Group
BY DEF Group

\* Apply's tail keeps the stores well typed.
LEMMA ApplyType ==
    ASSUME TypeOK, NEW id \in GroupId, NEW r \in Group \cup {NoGroup}, NEW ok, Apply(id, r, ok)
    PROVE  /\ groups' \in [GroupId -> Group \cup {NoGroup}]
           /\ disk' \in [GroupId -> Group \cup {NoGroup}]
           /\ grants' \in SUBSET Grant /\ now' \in Time /\ saveFails' \in 0..MaxSaveFail
<1>1. groups' \in [GroupId -> Group \cup {NoGroup}]
  BY DEF TypeOK, Apply
<1>2. saveFails' \in 0..MaxSaveFail
  BY GroupsAssumption DEF TypeOK, Apply, Save
<1> QED BY <1>1, <1>2 DEF TypeOK, Apply, Save

\* A removal's history entry is a time: the later of two.
LEMMA LaterType ==
    ASSUME NEW s \in Time \cup {NoTime}, NEW t \in Time
    PROVE  Later(s, t) \in Time
BY DEF Later

\* Apply of any management event keeps every variable's type.
LEMMA ManageType ==
    ASSUME TypeOK, NEW id \in GroupId, NEW ok \in BOOLEAN, Manage(id, ok)
    PROVE  TypeOK'
<1> DEFINE Kicks == [GroupId -> [User -> Time \cup {NoTime}]]
<1>0. groups[id] # NoGroup => groups[id] \in Group
  BY DEF TypeOK
<1>1. ASSUME NEW u \in User, NEW m \in MetaTags, CreateGroup(id, u, m, ok)
      PROVE  TypeOK'
  <2>1. kicked' \in Kicks
    BY <1>1 DEF CreateGroup, NeverKicked, TypeOK
  <2> QED BY <1>1, <2>1, NewGroupType, ApplyType DEF CreateGroup, TypeOK
<1>2. ASSUME NEW u \in User, NEW m \in MetaTags, EditMetadata(id, u, m, ok)
      PROVE  TypeOK'
  BY <1>0, <1>2, TagsType, ApplyType DEF EditMetadata, TypeOK
<1>3. ASSUME NEW u \in User, DeleteGroup(id, u, ok)
      PROVE  TypeOK'
  BY <1>3, ApplyType DEF DeleteGroup, TypeOK
<1>4. ASSUME NEW u \in User, NEW v \in User, NEW role \in Role, AddUser(id, u, v, role, ok)
      PROVE  TypeOK'
  BY <1>0, <1>4, WithUserType, ApplyType DEF AddUser, TypeOK
<1>5. ASSUME NEW u \in User, NEW v \in User, NEW at \in Signed,
             RemoveUser(id, u, v, at, ok)
      PROVE  TypeOK'
  <2>1. at \in Time
    BY DEF Signed
  <2>2. kicked' \in Kicks
    <3>1. Later(kicked[id][v], at) \in Time
      BY <2>1, LaterType DEF TypeOK
    <3> QED BY <1>5, <3>1 DEF RemoveUser, TypeOK
  <2> QED BY <1>0, <1>5, <2>1, <2>2, WithoutUserType, ApplyType DEF RemoveUser, TypeOK
<1>6. ASSUME NEW u \in User, NEW g \in BOOLEAN, JoinRequest(id, u, g, ok)
      PROVE  TypeOK'
  BY <1>0, <1>6, WithJoinType, ApplyType DEF JoinRequest, TypeOK
<1>7. ASSUME NEW u \in User, NEW at \in Signed, LeaveRequest(id, u, at, ok)
      PROVE  TypeOK'
  <2>1. at \in Time
    BY DEF Signed
  <2>2. kicked' \in Kicks
    <3>1. Later(kicked[id][u], at) \in Time
      BY <2>1, LaterType DEF TypeOK
    <3> QED BY <1>7, <3>1 DEF LeaveRequest, TypeOK
  <2> QED BY <1>0, <1>7, <2>1, <2>2, WithoutUserType, ApplyType DEF LeaveRequest, TypeOK
<1>8. ASSUME NEW u \in User, NEW p \in Post, NEW gate \in Gate,
             SetInteractions(id, u, p, gate, ok)
      PROVE  TypeOK'
  BY <1>0, <1>8, GateType, ApplyType DEF SetInteractions, TypeOK
<1> QED BY <1>1, <1>2, <1>3, <1>4, <1>5, <1>6, <1>7, <1>8 DEF Manage

\* Every variable keeps its type, whatever events are applied, refused or reloaded.
THEOREM TypeCorrect == Spec => []TypeOK
<1>1. Init => TypeOK
  BY GroupsAssumption DEF Init, TypeOK, NeverKicked, Time
<1>2. TypeOK /\ [Next]_vars => TypeOK'
  <2> SUFFICES ASSUME TypeOK, [Next]_vars
               PROVE  TypeOK'
    OBVIOUS
  <2>1. ASSUME NEW id \in GroupId, NEW ok \in BOOLEAN, Manage(id, ok)
        PROVE  TypeOK'
    BY <2>1, ManageType
  <2>2. ASSUME NEW id \in GroupId, NEW u \in User, NEW v \in User, MintGrant(id, u, v)
        PROVE  TypeOK'
    BY <2>2 DEF MintGrant, TypeOK, Grant
  <2>3. CASE Tick
    BY <2>3, GroupsAssumption DEF Tick, TypeOK, Time
  <2>4. CASE Reload
    BY <2>4 DEF Reload, TypeOK
  <2>5. CASE UNCHANGED vars
    BY <2>5 DEF vars, TypeOK
  <2> QED BY <2>1, <2>2, <2>3, <2>4, <2>5 DEF Next
<1> QED BY <1>1, <1>2, PTL DEF Spec

----------------------------------------------------------------------------
(* The nesting of roles.                                                    *)

\* One group's roles are nested.
Nested(r) == r.owner \in r.admins /\ r.admins \subseteq r.members

\* A change whose result is nested keeps every group nested, in memory and on disk.
LEMMA ApplyNested ==
    ASSUME TypeOK, RolesNested, NEW id \in GroupId, NEW r, NEW ok, Apply(id, r, ok),
           r # NoGroup => Nested(r)
    PROVE  RolesNested'
<1>1. \A i \in GroupId : groups'[i] # NoGroup => Nested(groups'[i])
  BY DEF Apply, TypeOK, RolesNested, Nested
<1>2. \A i \in GroupId : disk'[i] # NoGroup => Nested(disk'[i])
  BY <1>1 DEF Apply, Save, RolesNested, Nested
<1> QED BY <1>1, <1>2 DEF RolesNested, Nested

\* Every management event takes a nested group to a nested group: transfers promote, the
\* owner is neither demoted nor removed, and a removal leaves both sets.
LEMMA EventsNested ==
    ASSUME NEW r \in Group, Nested(r), NEW u \in User
    PROVE  /\ \A m : Nested(WithTags(r, m))
           /\ \A role \in Role : Nested(WithUser(r, u, role))
           /\ \A at : u # r.owner => Nested(WithoutUser(r, u, at))
           /\ \A id, g : Nested(WithJoin(id, r, u, g))
           /\ \A p, gate : Nested([r EXCEPT !.gates[p] = gate])
<1>1. \A m : Nested(WithTags(r, m))
  BY DEF Group, Nested, WithTags
<1>2. ASSUME NEW role \in Role PROVE Nested(WithUser(r, u, role))
  BY <1>2 DEF Group, Nested, WithUser, Role
<1>3. \A at : u # r.owner => Nested(WithoutUser(r, u, at))
  BY DEF Group, Nested, WithoutUser
<1>4. \A id, g : Nested(WithJoin(id, r, u, g))
  BY DEF Group, Nested, WithJoin
<1>5. \A p, gate : Nested([r EXCEPT !.gates[p] = gate])
  BY DEF Group, Nested
<1> QED BY <1>1, <1>2, <1>3, <1>4, <1>5

\* A new group's owner is its admin and member.
LEMMA NewGroupNested ==
    ASSUME NEW u \in User, NEW m
    PROVE  Nested(WithTags(NewGroup(u), m))
BY DEF Nested, WithTags, NewGroup

\* The owner is always an admin and every admin a member, in memory and on disk, for any
\* number of users, groups, failed saves and reloads.
THEOREM RolesAlwaysNested == Spec => []RolesNested
<1>1. Init => RolesNested
  BY DEF Init, RolesNested
<1>2. TypeOK /\ RolesNested /\ [Next]_vars => RolesNested'
  <2> SUFFICES ASSUME TypeOK, RolesNested, [Next]_vars
               PROVE  RolesNested'
    OBVIOUS
  <2>1. ASSUME NEW id \in GroupId, NEW ok \in BOOLEAN, Manage(id, ok)
        PROVE  RolesNested'
    <3>0. groups[id] # NoGroup => groups[id] \in Group /\ Nested(groups[id])
      BY DEF TypeOK, RolesNested, Nested
    <3>1. ASSUME NEW u \in User, NEW m \in MetaTags, CreateGroup(id, u, m, ok)
          PROVE  RolesNested'
      BY <3>1, NewGroupNested, ApplyNested DEF CreateGroup
    <3>2. ASSUME NEW u \in User, NEW m \in MetaTags, EditMetadata(id, u, m, ok)
          PROVE  RolesNested'
      BY <3>0, <3>2, EventsNested, ApplyNested DEF EditMetadata
    <3>3. ASSUME NEW u \in User, DeleteGroup(id, u, ok)
          PROVE  RolesNested'
      BY <3>3, ApplyNested DEF DeleteGroup
    <3>4. ASSUME NEW u \in User, NEW v \in User, NEW role \in Role, AddUser(id, u, v, role, ok)
          PROVE  RolesNested'
      BY <3>0, <3>4, EventsNested, ApplyNested DEF AddUser
    <3>5. ASSUME NEW u \in User, NEW v \in User, NEW at \in Signed,
                 RemoveUser(id, u, v, at, ok)
          PROVE  RolesNested'
      BY <3>0, <3>5, EventsNested, ApplyNested DEF RemoveUser
    <3>6. ASSUME NEW u \in User, NEW g \in BOOLEAN, JoinRequest(id, u, g, ok)
          PROVE  RolesNested'
      BY <3>0, <3>6, EventsNested, ApplyNested DEF JoinRequest
    <3>7. ASSUME NEW u \in User, NEW at \in Signed, LeaveRequest(id, u, at, ok)
          PROVE  RolesNested'
      BY <3>0, <3>7, EventsNested, ApplyNested DEF LeaveRequest
    <3>8. ASSUME NEW u \in User, NEW p \in Post, NEW gate \in Gate,
                 SetInteractions(id, u, p, gate, ok)
          PROVE  RolesNested'
      BY <3>0, <3>8, EventsNested, ApplyNested DEF SetInteractions
    <3> QED BY <2>1, <3>1, <3>2, <3>3, <3>4, <3>5, <3>6, <3>7, <3>8 DEF Manage
  <2>2. ASSUME NEW id \in GroupId, NEW u \in User, NEW v \in User, MintGrant(id, u, v)
        PROVE  RolesNested'
    BY <2>2 DEF MintGrant, RolesNested
  <2>3. CASE Tick
    BY <2>3 DEF Tick, RolesNested
  <2>4. CASE Reload
    BY <2>4 DEF Reload, RolesNested
  <2>5. CASE UNCHANGED vars
    BY <2>5 DEF vars, RolesNested
  <2> QED BY <2>1, <2>2, <2>3, <2>4, <2>5 DEF Next
<1> QED BY <1>1, <1>2, TypeCorrect, PTL DEF Spec

----------------------------------------------------------------------------
(* The freshness of grants when every removal arrives as it is signed.  The *)
(* invariant: an accepted removal lies in the past, and each copy of the    *)
(* group, in memory and on disk, records one at least as late.              *)

\* A group record's removal times cover the accepted removals k.
Covers(r, k) ==
    \A u \in User : k[u] # NoTime => r.removedAt[u] # NoTime /\ k[u] <= r.removedAt[u]

RemovalsPast == \A id \in GroupId, u \in User : kicked[id][u] # NoTime => kicked[id][u] <= now

RemovalsCovered ==
    \A s \in {groups, disk} : \A id \in GroupId : s[id] # NoGroup => Covers(s[id], kicked[id])

GrantInv == RemovalsPast /\ RemovalsCovered

\* Events that are not removals keep the recorded removal times.
LEMMA KeepsRemovals ==
    ASSUME NEW r \in Group, NEW u \in User
    PROVE  /\ \A m : WithTags(r, m).removedAt = r.removedAt
           /\ \A role : WithUser(r, u, role).removedAt = r.removedAt
           /\ \A id, g : WithJoin(id, r, u, g).removedAt = r.removedAt
<1>1. \A m : WithTags(r, m).removedAt = r.removedAt
  BY DEF Group, WithTags
<1>2. \A role : WithUser(r, u, role).removedAt = r.removedAt
  BY DEF Group, WithUser
<1>3. \A id, g : WithJoin(id, r, u, g).removedAt = r.removedAt
  BY DEF Group, WithJoin
<1> QED BY <1>1, <1>2, <1>3

\* A change that covers the accepted removals keeps the invariant, if no history entry of
\* another group changes, the saved copy is covered or replaced, and no entry is from the
\* future.
LEMMA ApplyCovered ==
    ASSUME TypeOK, GrantInv, NEW id \in GroupId, NEW r, NEW ok, Apply(id, r, ok),
           r # NoGroup => Covers(r, kicked'[id]),
           disk[id] # NoGroup => Covers(disk[id], kicked'[id]) \/ disk' = groups',
           \A i \in GroupId \ {id} : kicked'[i] = kicked[i],
           \A u \in User : kicked'[id][u] # NoTime => kicked'[id][u] <= now
    PROVE  GrantInv'
<1>1. RemovalsPast'
  <2> SUFFICES ASSUME NEW i \in GroupId, NEW u \in User, kicked'[i][u] # NoTime
               PROVE  kicked'[i][u] <= now
    BY DEF RemovalsPast, Apply
  <2>1. CASE i = id
    BY <2>1
  <2>2. CASE i # id
    BY <2>2 DEF GrantInv, RemovalsPast
  <2> QED BY <2>1, <2>2
<1>2. ASSUME NEW i \in GroupId, groups'[i] # NoGroup
      PROVE  Covers(groups'[i], kicked'[i])
  <2>1. CASE i = id
    BY <1>2, <2>1 DEF Apply, TypeOK
  <2>2. CASE i # id
    BY <1>2, <2>2 DEF Apply, TypeOK, GrantInv, RemovalsCovered
  <2> QED BY <2>1, <2>2
<1>3. ASSUME NEW i \in GroupId, disk'[i] # NoGroup
      PROVE  Covers(disk'[i], kicked'[i])
  <2>1. CASE disk' = groups'
    BY <1>2, <1>3, <2>1
  <2>2. CASE disk' # groups'
    <3>1. disk' = disk
      BY <2>2 DEF Apply, Save
    <3>2. CASE i = id
      BY <1>3, <2>2, <3>1, <3>2
    <3>3. CASE i # id
      BY <1>3, <3>1, <3>3 DEF GrantInv, RemovalsCovered
    <3> QED BY <3>2, <3>3
  <2> QED BY <2>1, <2>2
<1>4. RemovalsCovered'
  <2>1. \A i \in GroupId : groups'[i] # NoGroup => Covers(groups'[i], kicked'[i])
    BY <1>2
  <2>2. \A i \in GroupId : disk'[i] # NoGroup => Covers(disk'[i], kicked'[i])
    BY <1>3
  <2> QED BY <2>1, <2>2 DEF RemovalsCovered, Covers
<1> QED BY <1>1, <1>4 DEF GrantInv

\* An event that is no removal and keeps the recorded times keeps the invariant.
LEMMA KeepsCovered ==
    ASSUME TypeOK, GrantInv, NEW id \in GroupId, NEW r, NEW ok, Apply(id, r, ok),
           kicked' = kicked, groups[id] # NoGroup,
           r # NoGroup => r.removedAt = groups[id].removedAt
    PROVE  GrantInv'
<1>1. r # NoGroup => Covers(r, kicked'[id])
  BY DEF GrantInv, RemovalsCovered, Covers
<1>2. disk[id] # NoGroup => Covers(disk[id], kicked'[id])
  BY DEF GrantInv, RemovalsCovered
<1>3. \A u \in User : kicked'[id][u] # NoTime => kicked'[id][u] <= now
  BY DEF GrantInv, RemovalsPast
<1> QED BY <1>1, <1>2, <1>3, ApplyCovered

\* A removal signed now keeps the invariant.
LEMMA RemovalCovered ==
    ASSUME TypeOK, GrantInv, NEW id \in GroupId, NEW u \in User, NEW ok \in BOOLEAN,
           groups[id] # NoGroup, Apply(id, WithoutUser(groups[id], u, now), ok),
           kicked' = IF ok THEN [kicked EXCEPT ![id][u] = Later(@, now)] ELSE kicked
    PROVE  GrantInv'
<1> DEFINE r == WithoutUser(groups[id], u, now)
<1>0. now \in Nat /\ groups[id] \in Group /\ kicked[id] \in [User -> Time \cup {NoTime}]
  BY GroupsAssumption DEF TypeOK, Time
<1>1. r.removedAt = [groups[id].removedAt EXCEPT ![u] = now]
  BY <1>0 DEF WithoutUser, Group
<1>2. \A v \in User : r.removedAt[v] = IF v = u THEN now ELSE groups[id].removedAt[v]
  BY <1>0, <1>1 DEF Group
<1>3. kicked[id][u] # NoTime => kicked[id][u] <= now
  BY DEF GrantInv, RemovalsPast
<1>4. Later(kicked[id][u], now) = now
  BY <1>0, <1>3 DEF Later, Time
<1>5. \A v \in User : kicked'[id][v] = IF ok /\ v = u THEN now ELSE kicked[id][v]
  BY <1>4 DEF TypeOK
<1>6. Covers(r, kicked'[id])
  <2> SUFFICES ASSUME NEW v \in User, kicked'[id][v] # NoTime
               PROVE  r.removedAt[v] # NoTime /\ kicked'[id][v] <= r.removedAt[v]
    BY DEF Covers
  <2>1. CASE v = u
    BY <1>0, <1>2, <1>3, <1>5, <2>1, GroupsAssumption
  <2>2. CASE v # u
    BY <1>2, <1>5, <2>2 DEF GrantInv, RemovalsCovered, Covers
  <2> QED BY <2>1, <2>2
<1>7. disk[id] # NoGroup => Covers(disk[id], kicked'[id]) \/ disk' = groups'
  <2>1. CASE ok
    BY <2>1 DEF Apply, Save
  <2>2. CASE ~ok
    BY <2>2 DEF GrantInv, RemovalsCovered
  <2> QED BY <2>1, <2>2
<1>8. \A i \in GroupId \ {id} : kicked'[i] = kicked[i]
  BY DEF TypeOK
<1>9. \A v \in User : kicked'[id][v] # NoTime => kicked'[id][v] <= now
  BY <1>0, <1>5 DEF GrantInv, RemovalsPast
<1>10. r # NoGroup => Covers(r, kicked'[id])
  BY <1>6
<1> QED BY <1>7, <1>8, <1>9, <1>10, ApplyCovered

\* When removals arrive as they are signed (Skew = 0), every grant that inviteGrantAdmits
\* accepts was signed after the user's last accepted removal, across failed saves and
\* reloads, for any number of users, groups and grants.
THEOREM GrantsAlwaysFresh ==
    ASSUME Skew = 0
    PROVE  Spec => []GrantsFresh
<1>1. Init => GrantInv
  BY DEF Init, GrantInv, RemovalsPast, RemovalsCovered, NeverKicked
<1>2. TypeOK /\ GrantInv /\ [Next]_vars => GrantInv'
  <2> SUFFICES ASSUME TypeOK, GrantInv, [Next]_vars
               PROVE  GrantInv'
    OBVIOUS
  <2>1. ASSUME NEW id \in GroupId, NEW ok \in BOOLEAN, Manage(id, ok)
        PROVE  GrantInv'
    <3>0. groups[id] # NoGroup => groups[id] \in Group
      BY DEF TypeOK
    <3>1. ASSUME NEW u \in User, NEW m \in MetaTags, CreateGroup(id, u, m, ok)
          PROVE  GrantInv'
      <4>1. kicked'[id] = NeverKicked /\ \A i \in GroupId \ {id} : kicked'[i] = kicked[i]
        BY <3>1 DEF CreateGroup, TypeOK
      <4>2. \A r : Covers(r, kicked'[id])
        BY <4>1 DEF Covers, NeverKicked
      <4>3. \A v \in User : kicked'[id][v] = NoTime
        BY <4>1 DEF NeverKicked
      <4> QED BY <3>1, <4>1, <4>2, <4>3, ApplyCovered DEF CreateGroup
    <3>2. ASSUME NEW u \in User, NEW m \in MetaTags, EditMetadata(id, u, m, ok)
          PROVE  GrantInv'
      BY <3>0, <3>2, KeepsRemovals, KeepsCovered DEF EditMetadata
    <3>3. ASSUME NEW u \in User, DeleteGroup(id, u, ok)
          PROVE  GrantInv'
      BY <3>3, KeepsCovered DEF DeleteGroup
    <3>4. ASSUME NEW u \in User, NEW v \in User, NEW role \in Role, AddUser(id, u, v, role, ok)
          PROVE  GrantInv'
      BY <3>0, <3>4, KeepsRemovals, KeepsCovered DEF AddUser
    <3>5. ASSUME NEW u \in User, NEW v \in User, NEW at \in Signed,
                 RemoveUser(id, u, v, at, ok)
          PROVE  GrantInv'
      <4>1. at = now
        BY DEF Signed, TypeOK, Time
      <4> QED BY <3>5, <4>1, RemovalCovered DEF RemoveUser
    <3>6. ASSUME NEW u \in User, NEW g \in BOOLEAN, JoinRequest(id, u, g, ok)
          PROVE  GrantInv'
      BY <3>0, <3>6, KeepsRemovals, KeepsCovered DEF JoinRequest
    <3>7. ASSUME NEW u \in User, NEW at \in Signed, LeaveRequest(id, u, at, ok)
          PROVE  GrantInv'
      <4>1. at = now
        BY DEF Signed, TypeOK, Time
      <4> QED BY <3>7, <4>1, RemovalCovered DEF LeaveRequest
    <3>8. ASSUME NEW u \in User, NEW p \in Post, NEW gate \in Gate,
                 SetInteractions(id, u, p, gate, ok)
          PROVE  GrantInv'
      <4> DEFINE r == [groups[id] EXCEPT !.gates[p] = gate]
      <4>1. groups[id] # NoGroup /\ Apply(id, r, ok) /\ kicked' = kicked
        BY <3>8 DEF SetInteractions
      <4>2. r.removedAt = groups[id].removedAt
        BY <3>0, <4>1 DEF Group
      <4> HIDE DEF r
      <4> QED BY <4>1, <4>2, KeepsCovered
    <3> QED BY <2>1, <3>1, <3>2, <3>3, <3>4, <3>5, <3>6, <3>7, <3>8 DEF Manage
  <2>2. ASSUME NEW id \in GroupId, NEW u \in User, NEW v \in User, MintGrant(id, u, v)
        PROVE  GrantInv'
    BY <2>2 DEF MintGrant, GrantInv, RemovalsPast, RemovalsCovered, Covers
  <2>3. CASE Tick
    <3>1. RemovalsPast'
      BY <2>3 DEF Tick, TypeOK, GrantInv, RemovalsPast, Time
    <3>2. RemovalsCovered'
      BY <2>3 DEF Tick, GrantInv, RemovalsCovered, Covers
    <3> QED BY <3>1, <3>2 DEF GrantInv
  <2>4. CASE Reload
    BY <2>4 DEF Reload, GrantInv, RemovalsPast, RemovalsCovered, Covers
  <2>5. CASE UNCHANGED vars
    BY <2>5 DEF vars, GrantInv, RemovalsPast, RemovalsCovered, Covers
  <2> QED BY <2>1, <2>2, <2>3, <2>4, <2>5 DEF Next
<1>3. TypeOK /\ GrantInv => GrantsFresh
  <2> SUFFICES ASSUME TypeOK, GrantInv, NEW id \in GroupId, NEW u \in User,
                      groups[id] # NoGroup, GrantAdmits(id, groups[id], u, now)
               PROVE  \E c \in grants : Fresh(id, u, c)
    BY DEF GrantsFresh
  <2>1. PICK c \in grants : /\ c.group = id /\ c.to = u /\ c.by \in groups[id].admins
                            /\ now <= c.at + GrantTTL
                            /\ groups[id].removedAt[u] # NoTime => groups[id].removedAt[u] < c.at
    BY DEF GrantAdmits
  <2>2. kicked[id][u] # NoTime => /\ groups[id].removedAt[u] # NoTime
                                 /\ kicked[id][u] <= groups[id].removedAt[u]
    BY DEF GrantInv, RemovalsCovered, Covers
  <2>3. /\ kicked[id][u] \in Time \cup {NoTime}
        /\ groups[id].removedAt[u] \in Time \cup {NoTime}
        /\ c.at \in Time
    BY DEF TypeOK, Group, Grant
  <2>4. kicked[id][u] # NoTime => kicked[id][u] < c.at
    BY <2>1, <2>2, <2>3 DEF Time
  <2> QED BY <2>1, <2>4 DEF Fresh
<1> QED BY <1>1, <1>2, <1>3, TypeCorrect, PTL DEF Spec

----------------------------------------------------------------------------
(* The guard.                                                               *)

\* A handler's remaining work.
Job == [pc : {"emit", "purge", "sweep"}, id : GroupId]

\* The types of the guard's own variables.
GuardTypeOK ==
    /\ task \in [Handler -> {Idle} \cup Job]
    /\ lastEmit \in [GroupId -> Nat \cup {NoTime}]
    /\ \A id \in GroupId : DOMAIN lastState[id] = Addr /\ DOMAIN stored[id] = Addr
    /\ DOMAIN lastState = GroupId /\ DOMAIN stored = GroupId
    /\ \A id \in GroupId, a \in Addr :
          stored[id][a] \in {NoState} \cup [fp : Fingerprint(a), ts : Nat]

\* A group being purged is gone.
PurgedIsGone == \A id \in GroupId : Purging(id) => groups[id] = NoGroup

\* Some handler still has this group's stored events to delete.
Sweeping(id) == \E h \in Handler : task[h].pc = "sweep" /\ task[h].id = id

\* While the sweep is due, the cache is empty.
SweptCache == \A id \in GroupId : Sweeping(id) => lastState[id] = NoStates

\* The event served at an address says c.
Serves(id, a, c) == stored[id][a] # NoState /\ stored[id][a].fp = c

\* A cached fingerprint is that of the event served, handlers in flight or not.
CacheServed ==
    \A id \in GroupId, a \in Addr :
        lastState[id][a] # NoState => Serves(id, a, lastState[id][a])

\* The next emission is newer than every stored event of its group.
EmitNewer ==
    \A id \in GroupId, a \in Addr : stored[id][a] # NoState =>
        \/ stored[id][a].ts < now
        \/ lastEmit[id] # NoTime /\ stored[id][a].ts <= lastEmit[id]
        \/ Sweeping(id)

\* Some handler is about to publish this group's state.
Emitting(id) == \E h \in Handler : task[h].pc = "emit" /\ task[h].id = id

\* A group that no crash or failed save left behind is published, or about to be; a deleted
\* one is swept, or about to be.
Published ==
    \A id \in GroupId : id \notin behind =>
        IF groups[id] = NoGroup THEN Purging(id) \/ stored[id] = NoStates
        ELSE \/ Emitting(id)
             \/ \A a \in Addr : Content(groups[id], a) # NoState
                                    => Serves(id, a, Content(groups[id], a))

\* A group that was never left without its purge has no stored event about a post it does
\* not gate.
NoLeftovers ==
    \A id \in GroupId : id \notin orphaned =>
        IF groups[id] = NoGroup THEN Purging(id) \/ stored[id] = NoStates
        ELSE \A a \in Addr : Content(groups[id], a) = NoState => stored[id][a] = NoState

\* The inductive invariant.
GuardInv ==
    /\ TypeOK
    /\ GuardTypeOK
    /\ PurgedIsGone
    /\ SweptCache
    /\ CacheServed
    /\ EmitNewer
    /\ Published
    /\ NoLeftovers

----------------------------------------------------------------------------
(* The operators.                                                           *)

\* A state event says nothing exactly when it is about a post without gates.
LEMMA ContentType ==
    ASSUME NEW r \in Group, NEW a \in Addr
    PROVE  /\ Content(r, a) \in Fingerprint(a) \cup {NoState}
           /\ Content(r, a) = NoState <=> a \in Post /\ r.gates[a] = NoGate
<1>1. CASE a \in Post
  <2>1. a \notin {"meta", "admins", "members", "pending"}
    BY <1>1, GuardAssumption
  <2>2. Content(r, a) = IF r.gates[a] = NoGate THEN NoState ELSE r.gates[a]
    BY <1>1, <2>1 DEF Content
  <2>3. r.gates[a] \in Gate \cup {NoGate} /\ Fingerprint(a) = Gate
    BY <1>1, <2>1 DEF Group, Fingerprint
  <2> QED
    BY <1>1, <2>2, <2>3, GuardAssumption
<1>2. CASE a = "meta"
  <2>1. Content(r, a) \in Fingerprint(a)
    BY <1>2, GuardAssumption DEF Content, Fingerprint, Group
  <2> QED
    BY <1>2, <2>1, GuardAssumption
<1>3. CASE a \in {"admins", "members", "pending"}
  <2>1. Content(r, a) \in Fingerprint(a)
    BY <1>3, GuardAssumption DEF Content, Fingerprint, Group
  <2> QED
    BY <1>3, <2>1, GuardAssumption
<1> QED
  BY <1>1, <1>2, <1>3 DEF Addr

\* A state event is not the absence of one.
LEMMA StoredEvent ==
    ASSUME NEW a \in Addr, NEW c \in Fingerprint(a), NEW t \in Nat
    PROVE  [fp |-> c, ts |-> t] # NoState
BY GuardAssumption

\* What a working handler holds.
LEMMA JobType ==
    ASSUME GuardTypeOK, NEW h \in Handler, task[h].pc # "idle"
    PROVE  task[h] \in Job /\ task[h].id \in GroupId
<1>1. task[h] \in {Idle} \cup Job /\ Idle.pc = "idle"
  BY DEF GuardTypeOK, Idle
<1> QED
  BY <1>1 DEF Job

\* Apply changes one group; it keeps the gates of a group that stays, and saves when it can.
LEMMA ManageShape ==
    ASSUME TypeOK, NEW id \in GroupId, NEW ok \in BOOLEAN, Manage(id, ok)
    PROVE  /\ \A i \in GroupId \ {id} : groups'[i] = groups[i]
           /\ groups'[id] = NoGroup => groups[id] # NoGroup
           /\ groups[id] # NoGroup /\ groups'[id] # NoGroup =>
                 \A p \in Post : groups'[id].gates[p] = NoGate => groups[id].gates[p] = NoGate
           /\ now' = now
<1> DEFINE Kept(r) == \A p \in Post : r.gates[p] = NoGate => groups[id].gates[p] = NoGate
           Shape == \/ /\ groups[id] = NoGroup
                       /\ \E r \in Group : Apply(id, r, ok)
                    \/ /\ groups[id] # NoGroup
                       /\ Apply(id, NoGroup, ok)
                    \/ /\ groups[id] \in Group
                       /\ \E r \in Group : Kept(r) /\ Apply(id, r, ok)
<1>0. groups[id] # NoGroup => groups[id] \in Group
  BY DEF TypeOK
<1>1. Shape
  <2>1. ASSUME NEW u \in User, NEW m \in MetaTags, CreateGroup(id, u, m, ok) PROVE Shape
    BY <2>1, NewGroupType DEF CreateGroup
  <2>2. ASSUME NEW u \in User, NEW m \in MetaTags, EditMetadata(id, u, m, ok) PROVE Shape
    <3>1. groups[id] \in Group /\ Apply(id, WithTags(groups[id], m), ok)
      BY <1>0, <2>2 DEF EditMetadata
    <3>2. WithTags(groups[id], m).gates = groups[id].gates
      BY <3>1 DEF WithTags, Group
    <3> QED BY <3>1, <3>2, TagsType
  <2>3. ASSUME NEW u \in User, DeleteGroup(id, u, ok) PROVE Shape
    BY <2>3 DEF DeleteGroup
  <2>4. ASSUME NEW u \in User, NEW v \in User, NEW role \in Role, AddUser(id, u, v, role, ok)
        PROVE  Shape
    <3>1. groups[id] \in Group /\ Apply(id, WithUser(groups[id], v, role), ok)
      BY <1>0, <2>4 DEF AddUser
    <3>2. WithUser(groups[id], v, role).gates = groups[id].gates
      BY <3>1 DEF WithUser, Group
    <3> QED BY <3>1, <3>2, WithUserType
  <2>5. ASSUME NEW u \in User, NEW at \in Signed, groups[id] # NoGroup,
               Apply(id, WithoutUser(groups[id], u, at), ok)
        PROVE  Shape
    <3>1. at \in Time /\ groups[id] \in Group
      BY <1>0, <2>5 DEF Signed
    <3>2. WithoutUser(groups[id], u, at) \in Group /\ Kept(WithoutUser(groups[id], u, at))
      BY <3>1, WithoutUserType DEF WithoutUser, Group
    <3> QED BY <2>5, <3>1, <3>2
  <2>6. ASSUME NEW u \in User, NEW g \in BOOLEAN, JoinRequest(id, u, g, ok) PROVE Shape
    <3>1. groups[id] \in Group /\ Apply(id, WithJoin(id, groups[id], u, g), ok)
      BY <1>0, <2>6 DEF JoinRequest
    <3>2. WithJoin(id, groups[id], u, g) \in Group /\ Kept(WithJoin(id, groups[id], u, g))
      BY <3>1, WithJoinType DEF WithJoin, Group
    <3> QED BY <3>1, <3>2
  <2>7. ASSUME NEW u \in User, NEW p \in Post, NEW gate \in Gate,
               SetInteractions(id, u, p, gate, ok)
        PROVE  Shape
    <3> DEFINE r == [groups[id] EXCEPT !.gates[p] = gate]
    <3>1. groups[id] \in Group /\ Apply(id, r, ok)
      BY <1>0, <2>7 DEF SetInteractions
    <3>2. r \in Group
      BY <3>1, GateType
    <3>3. \A q \in Post : r.gates[q] = IF q = p THEN gate ELSE groups[id].gates[q]
      BY <3>1 DEF Group
    <3>4. Kept(r)
      BY <3>3, GuardAssumption
    <3> HIDE DEF r
    <3> QED BY <3>1, <3>2, <3>4
  <2> HIDE DEF Shape
  <2> QED
    BY <2>1, <2>2, <2>3, <2>4, <2>5, <2>6, <2>7 DEF Manage, RemoveUser, LeaveRequest
<1>2. ASSUME NEW r, Apply(id, r, ok)
      PROVE  groups'[id] = r /\ now' = now /\ \A i \in GroupId \ {id} : groups'[i] = groups[i]
  BY <1>2 DEF Apply, TypeOK
<1> QED
  BY <1>1, <1>2, NoGroupAssumption

----------------------------------------------------------------------------
(* Each step keeps the invariant.                                           *)

\* The invariant holds when the relay starts on an empty data directory.
LEMMA GuardStart == GuardInit => GuardInv
<1> SUFFICES ASSUME GuardInit PROVE GuardInv
  OBVIOUS
<1>1. TypeOK
  BY GroupsAssumption DEF GuardInit, Init, TypeOK, NeverKicked, Time
<1>2. GuardTypeOK
  BY DEF GuardInit, GuardTypeOK, NoStates
<1>3. \A h \in Handler : task[h].pc = "idle"
  BY DEF GuardInit, Idle
<1>4. \A id \in GroupId : ~Purging(id) /\ ~Sweeping(id) /\ ~Emitting(id)
  BY <1>3 DEF Purging, Sweeping, Emitting
<1>5. \A id \in GroupId : /\ groups[id] = NoGroup
                         /\ stored[id] = NoStates /\ lastState[id] = NoStates
                         /\ \A a \in Addr : stored[id][a] = NoState /\ lastState[id][a] = NoState
  BY DEF GuardInit, Init, NoStates
<1> QED
  BY <1>1, <1>2, <1>4, <1>5
     DEF GuardInv, PurgedIsGone, SweptCache, CacheServed, EmitNewer, Published, NoLeftovers

\* A handler that takes on a job adds it and removes none.
LEMMA TakesJob ==
    ASSUME GuardTypeOK, NEW h \in Handler, task[h] = Idle, NEW j \in Job, j.pc # "sweep",
           task' = [task EXCEPT ![h] = j]
    PROVE  /\ \A i \in GroupId : Purging(i)' <=> Purging(i) \/ (j.pc = "purge" /\ j.id = i)
           /\ \A i \in GroupId : Emitting(i)' <=> Emitting(i) \/ (j.pc = "emit" /\ j.id = i)
           /\ \A i \in GroupId : Sweeping(i)' <=> Sweeping(i)
<1>1. task[h].pc = "idle"
  BY DEF Idle
<1>2. \A k \in Handler : task'[k] = IF k = h THEN j ELSE task[k]
  BY DEF GuardTypeOK
<1>3. j.pc \in {"emit", "purge"} /\ j.id \in GroupId
  BY DEF Job
<1>4. \A i \in GroupId : Purging(i)' <=> Purging(i) \/ (j.pc = "purge" /\ j.id = i)
  BY <1>1, <1>2, <1>3 DEF Purging
<1>5. \A i \in GroupId : Emitting(i)' <=> Emitting(i) \/ (j.pc = "emit" /\ j.id = i)
  BY <1>1, <1>2, <1>3 DEF Emitting
<1>6. \A i \in GroupId : Sweeping(i)' <=> Sweeping(i)
  BY <1>1, <1>2, <1>3 DEF Sweeping
<1> QED
  BY <1>4, <1>5, <1>6

\* A group that is created, changed or deleted while no purge of it is running has no stored
\* event about a post it does not gate, unless it had one.
LEMMA ChangeNoLeftovers ==
    ASSUME GuardInv, ~RacyRecreate, NEW id \in GroupId, NEW ok \in BOOLEAN, Manage(id, ok),
           RacyRecreate \/ groups[id] # NoGroup \/ ~Purging(id),
           id \notin orphaned, groups'[id] # NoGroup, NEW a \in Addr,
           Content(groups'[id], a) = NoState
    PROVE  stored[id][a] = NoState
<1>1. TypeOK'
  BY ManageType DEF GuardInv
<1>2. groups'[id] \in Group /\ a \in Post /\ groups'[id].gates[a] = NoGate
  BY <1>1, ContentType DEF TypeOK
<1>3. CASE groups[id] = NoGroup
  BY <1>3 DEF GuardInv, NoLeftovers, NoStates
<1>4. CASE groups[id] # NoGroup
  <2>1. groups[id] \in Group /\ groups[id].gates[a] = NoGate
    BY <1>2, <1>4, ManageShape DEF GuardInv, TypeOK
  <2> QED
    BY <1>2, <1>4, <2>1, ContentType DEF GuardInv, NoLeftovers
<1> QED
  BY <1>3, <1>4

\* An accepted event leaves its handler to publish or to purge.
LEMMA AcceptKeeps ==
    ASSUME GuardInv, ~RacyRecreate, NEW h \in Handler, NEW id \in GroupId, Accept(h, id)
    PROVE  GuardInv'
<1> DEFINE j == [pc |-> IF groups'[id] = NoGroup THEN "purge" ELSE "emit", id |-> id]
<1>0. /\ Manage(id, TRUE) /\ task[h] = Idle /\ task' = [task EXCEPT ![h] = j]
      /\ groups[id] # NoGroup \/ ~Purging(id)
      /\ UNCHANGED <<lastState, lastEmit, stored, behind, orphaned>>
  BY DEF Accept
<1>1. j \in Job /\ j.pc # "sweep" /\ j.id = id
      /\ (j.pc = "purge" <=> groups'[id] = NoGroup) /\ (j.pc = "emit" <=> groups'[id] # NoGroup)
  BY DEF Job
<1> HIDE DEF j
<1>2. TypeOK'
  BY <1>0, ManageType DEF GuardInv
<1>3. GuardTypeOK'
  BY <1>0, <1>1 DEF GuardInv, GuardTypeOK
<1>4. /\ \A i \in GroupId : Purging(i)' <=> Purging(i) \/ (j.pc = "purge" /\ j.id = i)
      /\ \A i \in GroupId : Emitting(i)' <=> Emitting(i) \/ (j.pc = "emit" /\ j.id = i)
      /\ \A i \in GroupId : Sweeping(i)' <=> Sweeping(i)
  BY <1>0, <1>1, TakesJob DEF GuardInv
<1>5. (\A i \in GroupId \ {id} : groups'[i] = groups[i]) /\ now' = now
  BY <1>0, ManageShape DEF GuardInv
<1>6. ~Purging(id)
  BY <1>0 DEF GuardInv, PurgedIsGone
<1>7. PurgedIsGone'
  BY <1>1, <1>4, <1>5, <1>6 DEF GuardInv, PurgedIsGone
<1>8. SweptCache'
  BY <1>0, <1>4 DEF GuardInv, SweptCache
<1>9. CacheServed'
  BY <1>0 DEF GuardInv, CacheServed, Serves
<1>10. EmitNewer'
  BY <1>0, <1>4, <1>5 DEF GuardInv, EmitNewer
<1>11. Published'
  BY <1>0, <1>1, <1>4, <1>5 DEF GuardInv, Published, Serves
<1>12. NoLeftovers'
  <2> SUFFICES ASSUME NEW i \in GroupId, i \notin orphaned
               PROVE  IF groups'[i] = NoGroup THEN Purging(i)' \/ stored[i] = NoStates
                      ELSE \A a \in Addr : Content(groups'[i], a) = NoState => stored[i][a] = NoState
    BY <1>0 DEF NoLeftovers
  <2>1. CASE i = id
    BY <1>0, <1>1, <1>4, <2>1, ChangeNoLeftovers
  <2>2. CASE i # id
    BY <1>4, <1>5, <2>2 DEF GuardInv, NoLeftovers
  <2> QED
    BY <2>1, <2>2
<1> QED
  BY <1>2, <1>3, <1>7, <1>8, <1>9, <1>10, <1>11, <1>12 DEF GuardInv

\* An event refused by its failed save leaves the group behind, and orphaned if deleted.
LEMMA RefuseKeeps ==
    ASSUME GuardInv, ~RacyRecreate, NEW id \in GroupId, Refuse(id)
    PROVE  GuardInv'
<1>0. /\ Manage(id, FALSE)
      /\ groups[id] # NoGroup \/ ~Purging(id)
      /\ behind' = behind \cup {id}
      /\ orphaned' = orphaned \cup {i \in {id} : groups'[i] = NoGroup}
      /\ UNCHANGED <<task, lastState, lastEmit, stored>>
  BY DEF Refuse
<1>2. TypeOK'
  BY <1>0, ManageType DEF GuardInv
<1>3. GuardTypeOK'
  BY <1>0 DEF GuardInv, GuardTypeOK
<1>4. \A i \in GroupId : /\ Purging(i)' <=> Purging(i)
                         /\ Emitting(i)' <=> Emitting(i)
                         /\ Sweeping(i)' <=> Sweeping(i)
  BY <1>0 DEF Purging, Emitting, Sweeping
<1>5. (\A i \in GroupId \ {id} : groups'[i] = groups[i]) /\ now' = now
  BY <1>0, ManageShape DEF GuardInv
<1>6. ~Purging(id)
  BY <1>0 DEF GuardInv, PurgedIsGone
<1>7. PurgedIsGone'
  BY <1>4, <1>5, <1>6 DEF GuardInv, PurgedIsGone
<1>8. SweptCache'
  BY <1>0, <1>4 DEF GuardInv, SweptCache
<1>9. CacheServed'
  BY <1>0 DEF GuardInv, CacheServed, Serves
<1>10. EmitNewer'
  BY <1>0, <1>4, <1>5 DEF GuardInv, EmitNewer
<1>11. Published'
  BY <1>0, <1>4, <1>5 DEF GuardInv, Published, Serves
<1>12. NoLeftovers'
  <2> SUFFICES ASSUME NEW i \in GroupId, i \notin orphaned'
               PROVE  IF groups'[i] = NoGroup THEN Purging(i)' \/ stored[i] = NoStates
                      ELSE \A a \in Addr : Content(groups'[i], a) = NoState => stored[i][a] = NoState
    BY <1>0 DEF NoLeftovers
  <2>1. CASE i = id
    BY <1>0, <2>1, ChangeNoLeftovers
  <2>2. CASE i # id
    BY <1>0, <1>4, <1>5, <2>2 DEF GuardInv, NoLeftovers
  <2> QED
    BY <2>1, <2>2
<1> QED
  BY <1>2, <1>3, <1>7, <1>8, <1>9, <1>10, <1>11, <1>12 DEF GuardInv

\* A handler that is done drops its job.
LEMMA DropsJob ==
    ASSUME GuardTypeOK, NEW h \in Handler, task[h].pc # "idle",
           task' = [task EXCEPT ![h] = Idle]
    PROVE  /\ task' \in [Handler -> {Idle} \cup Job]
           /\ \A i \in GroupId : /\ Purging(i)' => Purging(i)
                                 /\ Emitting(i)' => Emitting(i)
                                 /\ Sweeping(i)' => Sweeping(i)
           /\ \A i \in GroupId \ {task[h].id} : /\ Purging(i)' <=> Purging(i)
                                                /\ Emitting(i)' <=> Emitting(i)
                                                /\ Sweeping(i)' <=> Sweeping(i)
           /\ task[h].pc = "emit" =>
                 \A i \in GroupId : (Purging(i)' <=> Purging(i)) /\ (Sweeping(i)' <=> Sweeping(i))
<1>1. task' \in [Handler -> {Idle} \cup Job]
  BY DEF GuardTypeOK
<1>2. Idle.pc = "idle"
  BY DEF Idle
<1>3. \A k \in Handler : task'[k] = IF k = h THEN Idle ELSE task[k]
  BY DEF GuardTypeOK
<1> QED
  BY <1>1, <1>2, <1>3 DEF Purging, Emitting, Sweeping

\* emitState's clamp puts an emission after every stored event of a group not being swept.
LEMMA EmitTimeNewer ==
    ASSUME GuardInv, NEW id \in GroupId, ~Sweeping(id)
    PROVE  /\ EmitTime(id) \in Nat
           /\ now <= EmitTime(id)
           /\ lastEmit[id] # NoTime => lastEmit[id] < EmitTime(id)
           /\ \A a \in Addr : stored[id][a] # NoState => stored[id][a].ts < EmitTime(id)
<1>1. now \in Nat /\ lastEmit[id] \in Nat \cup {NoTime}
  BY GroupsAssumption DEF GuardInv, TypeOK, GuardTypeOK, Time
<1>2. /\ EmitTime(id) \in Nat /\ now <= EmitTime(id)
      /\ lastEmit[id] # NoTime => lastEmit[id] < EmitTime(id)
  BY <1>1 DEF EmitTime
<1>3. ASSUME NEW a \in Addr, stored[id][a] # NoState
      PROVE  stored[id][a].ts < EmitTime(id)
  <2>1. stored[id][a].ts \in Nat
    BY <1>3 DEF GuardInv, GuardTypeOK
  <2>2. \/ stored[id][a].ts < now
        \/ lastEmit[id] # NoTime /\ stored[id][a].ts <= lastEmit[id]
    BY <1>3 DEF GuardInv, EmitNewer
  <2> QED
    BY <1>1, <1>2, <2>1, <2>2
<1> QED
  BY <1>2, <1>3

\* What emitState stores for a group that exists: its whole state, each changed event newer
\* than the one it replaces.
LEMMA EmitStores ==
    ASSUME GuardInv, NEW h \in Handler, Emit(h), groups[task[h].id] # NoGroup
    PROVE  LET id == task[h].id IN
           /\ id \in GroupId /\ ~Purging(id) /\ ~Sweeping(id)
           /\ DOMAIN stored' = GroupId /\ DOMAIN stored'[id] = Addr
           /\ \A i \in GroupId \ {id} : stored'[i] = stored[i]
           /\ \A a \in Addr : stored'[id][a] =
                 IF a \in Changed(id) THEN [fp |-> Content(groups[id], a), ts |-> EmitTime(id)]
                                      ELSE stored[id][a]
<1> DEFINE id == task[h].id
           ts == EmitTime(id)
<1>1. id \in GroupId /\ task[h].pc = "emit"
  BY JobType DEF Emit, GuardInv
<1>2. ~Purging(id) /\ ~Sweeping(id)
  BY <1>1 DEF GuardInv, PurgedIsGone, Purging, Sweeping
<1>3. PICK wins \in SUBSET Tied(id, ts) :
         stored' = [stored EXCEPT ![id] = [a \in Addr |->
             IF a \in Changed(id) THEN Replace(stored[id][a], Content(groups[id], a), ts, a \in wins)
             ELSE stored[id][a]]]
  BY DEF Emit
<1>4. DOMAIN stored = GroupId
  BY DEF GuardInv, GuardTypeOK
<1>5. stored'[id] = [a \in Addr |->
             IF a \in Changed(id) THEN Replace(stored[id][a], Content(groups[id], a), ts, a \in wins)
             ELSE stored[id][a]]
  BY <1>1, <1>3, <1>4
<1>6. \A i \in GroupId \ {id} : stored'[i] = stored[i]
  BY <1>1, <1>3, <1>4
<1>7. ASSUME NEW a \in Addr
      PROVE  Replace(stored[id][a], Content(groups[id], a), ts, a \in wins)
                 = [fp |-> Content(groups[id], a), ts |-> ts]
  <2>1. stored[id][a] = NoState \/ stored[id][a].ts < ts
    BY <1>1, <1>2, EmitTimeNewer
  <2> QED
    BY <2>1 DEF Replace
<1>8. DOMAIN stored' = GroupId
  BY <1>3, <1>4
<1> QED
  BY <1>1, <1>2, <1>5, <1>6, <1>7, <1>8

\* Publishing a group's state keeps the invariant.
LEMMA EmitKeeps ==
    ASSUME GuardInv, NEW h \in Handler, Emit(h), groups[task[h].id] # NoGroup
    PROVE  GuardInv'
<1> DEFINE id == task[h].id
           ts == EmitTime(id)
<1>1. /\ id \in GroupId /\ ~Purging(id) /\ ~Sweeping(id)
      /\ DOMAIN stored' = GroupId /\ DOMAIN stored'[id] = Addr
      /\ \A i \in GroupId \ {id} : stored'[i] = stored[i]
      /\ \A a \in Addr : stored'[id][a] =
            IF a \in Changed(id) THEN [fp |-> Content(groups[id], a), ts |-> ts]
                                 ELSE stored[id][a]
  BY EmitStores
<1>2. /\ task[h].pc = "emit" /\ task' = [task EXCEPT ![h] = Idle]
      /\ lastState' = [lastState EXCEPT ![id] = [a \in Addr |-> Content(groups[id], a)]]
      /\ lastEmit' = IF Changed(id) = {} THEN lastEmit ELSE [lastEmit EXCEPT ![id] = ts]
      /\ behind' = behind \ {id}
      /\ UNCHANGED <<vars, orphaned>>
  BY DEF Emit
<1>3. UNCHANGED <<groups, disk, grants, now, saveFails, kicked, orphaned>>
  BY <1>2 DEF vars
<1>4. groups[id] \in Group
  BY <1>1 DEF GuardInv, TypeOK
<1>5. /\ task' \in [Handler -> {Idle} \cup Job]
      /\ \A i \in GroupId : /\ Purging(i)' <=> Purging(i)
                            /\ Emitting(i)' => Emitting(i)
                            /\ Sweeping(i)' <=> Sweeping(i)
      /\ \A i \in GroupId \ {id} : Emitting(i)' <=> Emitting(i)
  BY <1>2, DropsJob DEF GuardInv
<1>6. /\ ts \in Nat /\ now <= ts
      /\ lastEmit[id] # NoTime => lastEmit[id] < ts
      /\ \A a \in Addr : stored[id][a] # NoState => stored[id][a].ts < ts
  BY <1>1, EmitTimeNewer
<1>7. \A a \in Addr : a \in Changed(id) <=> /\ Content(groups[id], a) # NoState
                                           /\ Content(groups[id], a) # lastState[id][a]
  BY DEF Changed
<1>8. \A a \in Changed(id) : [fp |-> Content(groups[id], a), ts |-> ts]
                                 \in [fp : Fingerprint(a), ts : Nat]
  BY <1>4, <1>6, <1>7, ContentType DEF Changed
<1> HIDE DEF ts
<1>9. TypeOK'
  BY <1>3 DEF GuardInv, TypeOK
<1>10. DOMAIN lastState' = GroupId /\ lastState'[id] = [a \in Addr |-> Content(groups[id], a)]
       /\ \A i \in GroupId \ {id} : lastState'[i] = lastState[i]
  BY <1>1, <1>2 DEF GuardInv, GuardTypeOK
<1>11. /\ lastEmit' \in [GroupId -> Nat \cup {NoTime}]
       /\ \A i \in GroupId \ {id} : lastEmit'[i] = lastEmit[i]
       /\ lastEmit'[id] = IF Changed(id) = {} THEN lastEmit[id] ELSE ts
  BY <1>1, <1>2, <1>6 DEF GuardInv, GuardTypeOK
<1>12. GuardTypeOK'
  <2>1. \A i \in GroupId : DOMAIN lastState'[i] = Addr /\ DOMAIN stored'[i] = Addr
    BY <1>1, <1>10 DEF GuardInv, GuardTypeOK
  <2>2. ASSUME NEW i \in GroupId, NEW a \in Addr
        PROVE  stored'[i][a] \in {NoState} \cup [fp : Fingerprint(a), ts : Nat]
    <3>1. stored[i][a] \in {NoState} \cup [fp : Fingerprint(a), ts : Nat]
      BY DEF GuardInv, GuardTypeOK
    <3> QED
      BY <1>1, <1>8, <3>1
  <2> QED
    BY <1>1, <1>5, <1>10, <1>11, <2>1, <2>2 DEF GuardTypeOK
<1>13. PurgedIsGone'
  BY <1>3, <1>5 DEF GuardInv, PurgedIsGone
<1>14. SweptCache'
  BY <1>1, <1>5, <1>10 DEF GuardInv, SweptCache
<1>15. ASSUME NEW a \in Addr, Content(groups[id], a) # NoState
       PROVE  stored'[id][a] # NoState /\ stored'[id][a].fp = Content(groups[id], a)
  <2>1. CASE a \in Changed(id)
    <3>1. stored'[id][a] = [fp |-> Content(groups[id], a), ts |-> ts]
      BY <1>1, <2>1
    <3>2. stored'[id][a] # NoState
      BY <1>4, <1>6, <1>15, <3>1, ContentType, StoredEvent
    <3> QED
      BY <3>1, <3>2
  <2>2. CASE a \notin Changed(id)
    <3>1. stored'[id][a] = stored[id][a] /\ Content(groups[id], a) = lastState[id][a]
      BY <1>1, <1>7, <1>15, <2>2
    <3> QED
      BY <1>1, <1>15, <3>1 DEF GuardInv, CacheServed, Serves
  <2> QED
    BY <2>1, <2>2
<1>16. CacheServed'
  <2> SUFFICES ASSUME NEW i \in GroupId, NEW a \in Addr, lastState'[i][a] # NoState
               PROVE  stored'[i][a] # NoState /\ stored'[i][a].fp = lastState'[i][a]
    BY DEF CacheServed, Serves
  <2>1. CASE i = id
    BY <1>10, <1>15, <2>1
  <2>2. CASE i # id
    BY <1>1, <1>10, <2>2 DEF GuardInv, CacheServed, Serves
  <2> QED
    BY <2>1, <2>2
<1>17. EmitNewer'
  <2> SUFFICES ASSUME NEW i \in GroupId, NEW a \in Addr, stored'[i][a] # NoState
               PROVE  \/ stored'[i][a].ts < now
                      \/ lastEmit'[i] # NoTime /\ stored'[i][a].ts <= lastEmit'[i]
                      \/ Sweeping(i)'
    BY <1>3 DEF EmitNewer
  <2>1. CASE i # id
    BY <1>1, <1>5, <1>11, <2>1 DEF GuardInv, EmitNewer
  <2>2. CASE i = id /\ a \in Changed(id)
    <3>1. stored'[i][a] = [fp |-> Content(groups[id], a), ts |-> ts]
      BY <1>1, <2>2
    <3>2. lastEmit'[i] = ts
      BY <1>11, <2>2
    <3>3. ts # NoTime /\ ts <= ts
      BY <1>6, GroupsAssumption
    <3> QED
      BY <3>1, <3>2, <3>3
  <2>3. CASE i = id /\ a \notin Changed(id)
    <3>1. stored'[i][a] = stored[id][a] /\ stored[id][a] # NoState
      BY <1>1, <2>3
    <3>2. stored[id][a].ts \in Nat /\ stored[id][a].ts < ts
      BY <1>1, <1>6, <3>1 DEF GuardInv, GuardTypeOK
    <3>3. \/ stored[id][a].ts < now
          \/ lastEmit[id] # NoTime /\ stored[id][a].ts <= lastEmit[id]
      BY <1>1, <3>1 DEF GuardInv, EmitNewer
    <3>4. ts # NoTime
      BY <1>6, GroupsAssumption
    <3> QED
      BY <1>6, <1>11, <2>3, <3>1, <3>2, <3>3, <3>4
  <2> QED
    BY <2>1, <2>2, <2>3
<1>18. Published'
  <2> SUFFICES ASSUME NEW i \in GroupId, i \notin behind'
               PROVE  IF groups[i] = NoGroup THEN Purging(i)' \/ stored'[i] = NoStates
                      ELSE \/ Emitting(i)'
                           \/ \A a \in Addr : Content(groups[i], a) # NoState =>
                                 /\ stored'[i][a] # NoState
                                 /\ stored'[i][a].fp = Content(groups[i], a)
    BY <1>3 DEF Published, Serves
  <2>1. CASE i = id
    BY <1>15, <2>1
  <2>2. CASE i # id
    <3>1. i \notin behind /\ stored'[i] = stored[i]
      BY <1>1, <1>2, <2>2
    <3> QED
      BY <1>3, <1>5, <2>2, <3>1 DEF GuardInv, Published, Serves
  <2> QED
    BY <2>1, <2>2
<1>19. NoLeftovers'
  <2> SUFFICES ASSUME NEW i \in GroupId, i \notin orphaned
               PROVE  IF groups[i] = NoGroup THEN Purging(i)' \/ stored'[i] = NoStates
                      ELSE \A a \in Addr : Content(groups[i], a) = NoState
                                              => stored'[i][a] = NoState
    BY <1>3 DEF NoLeftovers
  <2>1. CASE i = id
    BY <1>1, <1>7, <2>1 DEF GuardInv, NoLeftovers
  <2>2. CASE i # id
    BY <1>1, <1>5, <2>2 DEF GuardInv, NoLeftovers
  <2> QED
    BY <2>1, <2>2
<1> QED
  BY <1>9, <1>12, <1>13, <1>14, <1>16, <1>17, <1>18, <1>19 DEF GuardInv

\* Publishing the state of a group that is gone does nothing.
LEMMA EmitNothingKeeps ==
    ASSUME GuardInv, NEW h \in Handler, Emit(h), groups[task[h].id] = NoGroup
    PROVE  GuardInv'
<1>1. /\ task[h].pc = "emit" /\ task' = [task EXCEPT ![h] = Idle] /\ task[h].id \in GroupId
      /\ UNCHANGED <<vars, lastState, lastEmit, stored, behind, orphaned>>
  BY JobType DEF Emit, GuardInv
<1>2. UNCHANGED <<groups, disk, grants, now, saveFails, kicked>>
  BY <1>1 DEF vars
<1>3. /\ task' \in [Handler -> {Idle} \cup Job]
      /\ \A i \in GroupId : (Purging(i)' <=> Purging(i)) /\ (Sweeping(i)' <=> Sweeping(i))
      /\ \A i \in GroupId : groups[i] # NoGroup => (Emitting(i)' <=> Emitting(i))
  BY <1>1, DropsJob DEF GuardInv
<1>4. TypeOK'
  BY <1>2 DEF GuardInv, TypeOK
<1>5. GuardTypeOK'
  BY <1>1, <1>3 DEF GuardInv, GuardTypeOK
<1>6. PurgedIsGone' /\ SweptCache'
  BY <1>1, <1>2, <1>3 DEF GuardInv, PurgedIsGone, SweptCache
<1>7. CacheServed' /\ EmitNewer'
  BY <1>1, <1>2, <1>3 DEF GuardInv, CacheServed, EmitNewer, Serves
<1>8. Published' /\ NoLeftovers'
  BY <1>1, <1>2, <1>3 DEF GuardInv, Published, NoLeftovers, Serves
<1> QED
  BY <1>4, <1>5, <1>6, <1>7, <1>8 DEF GuardInv

\* Dropping a deleted group's caches keeps the invariant.
LEMMA PurgeCacheKeeps ==
    ASSUME GuardInv, NEW h \in Handler, PurgeCache(h)
    PROVE  GuardInv'
<1>0. PICK id \in GroupId : task[h].id = id /\ task[h] \in Job
  BY JobType DEF PurgeCache, GuardInv
<1>1. /\ task[h].pc = "purge" /\ task' = [task EXCEPT ![h].pc = "sweep"]
      /\ lastState' = [lastState EXCEPT ![id] = NoStates]
      /\ lastEmit' = [lastEmit EXCEPT ![id] = NoTime]
      /\ UNCHANGED <<vars, stored, behind, orphaned>>
  BY <1>0 DEF PurgeCache
<1>2. UNCHANGED <<groups, disk, grants, now, saveFails, kicked>>
  BY <1>1 DEF vars
<1>3. [task[h] EXCEPT !.pc = "sweep"] \in Job
      /\ [task[h] EXCEPT !.pc = "sweep"].pc = "sweep"
      /\ [task[h] EXCEPT !.pc = "sweep"].id = id
  BY <1>0 DEF Job
<1>4. /\ task' \in [Handler -> {Idle} \cup Job]
      /\ \A k \in Handler \ {h} : task'[k] = task[k]
      /\ task'[h].pc = "sweep" /\ task'[h].id = id
  BY <1>1, <1>3 DEF GuardInv, GuardTypeOK
<1>5. \A i \in GroupId : /\ Purging(i)' <=> Purging(i)
                         /\ Emitting(i)' <=> Emitting(i)
                         /\ Sweeping(i)' <=> Sweeping(i) \/ i = id
  BY <1>0, <1>1, <1>4 DEF Purging, Emitting, Sweeping
<1>6. /\ lastState'[id] = NoStates /\ DOMAIN lastState' = GroupId
      /\ \A i \in GroupId \ {id} : lastState'[i] = lastState[i] /\ lastEmit'[i] = lastEmit[i]
      /\ lastEmit' \in [GroupId -> Nat \cup {NoTime}]
      /\ DOMAIN NoStates = Addr /\ \A a \in Addr : NoStates[a] = NoState
  BY <1>1 DEF GuardInv, GuardTypeOK, NoStates
<1>7. TypeOK'
  BY <1>2 DEF GuardInv, TypeOK
<1>8. GuardTypeOK'
  BY <1>1, <1>4, <1>6 DEF GuardInv, GuardTypeOK
<1>9. PurgedIsGone'
  BY <1>2, <1>5 DEF GuardInv, PurgedIsGone
<1>10. SweptCache'
  BY <1>5, <1>6 DEF GuardInv, SweptCache
<1>11. CacheServed'
  BY <1>1, <1>6 DEF GuardInv, CacheServed, Serves
<1>12. EmitNewer'
  BY <1>1, <1>2, <1>5, <1>6 DEF GuardInv, EmitNewer
<1>13. Published' /\ NoLeftovers'
  BY <1>1, <1>2, <1>5 DEF GuardInv, Published, NoLeftovers, Serves
<1> QED
  BY <1>7, <1>8, <1>9, <1>10, <1>11, <1>12, <1>13 DEF GuardInv

\* Deleting a deleted group's stored events keeps the invariant.
LEMMA SweepKeeps ==
    ASSUME GuardInv, NEW h \in Handler, Sweep(h)
    PROVE  GuardInv'
<1>0. PICK id \in GroupId : task[h].id = id
  BY JobType DEF Sweep, GuardInv
<1>1. /\ task[h].pc = "sweep" /\ task' = [task EXCEPT ![h] = Idle]
      /\ stored' = [stored EXCEPT ![id] = NoStates]
      /\ behind' = behind \ {id} /\ orphaned' = orphaned \ {id}
      /\ UNCHANGED <<vars, lastState, lastEmit>>
  BY <1>0 DEF Sweep
<1>2. UNCHANGED <<groups, disk, grants, now, saveFails, kicked>>
  BY <1>1 DEF vars
<1>3. /\ task' \in [Handler -> {Idle} \cup Job]
      /\ \A i \in GroupId : (Purging(i)' => Purging(i)) /\ (Sweeping(i)' => Sweeping(i))
      /\ \A i \in GroupId \ {id} : /\ Purging(i)' <=> Purging(i)
                                   /\ Emitting(i)' <=> Emitting(i)
                                   /\ Sweeping(i)' <=> Sweeping(i)
  BY <1>0, <1>1, DropsJob DEF GuardInv
<1>4. groups[id] = NoGroup /\ lastState[id] = NoStates
  BY <1>0, <1>1 DEF GuardInv, PurgedIsGone, SweptCache, Purging, Sweeping
<1>5. /\ stored'[id] = NoStates /\ DOMAIN stored' = GroupId
      /\ \A i \in GroupId \ {id} : stored'[i] = stored[i]
      /\ DOMAIN NoStates = Addr /\ \A a \in Addr : NoStates[a] = NoState
  BY <1>1 DEF GuardInv, GuardTypeOK, NoStates
<1>6. TypeOK'
  BY <1>2 DEF GuardInv, TypeOK
<1>7. GuardTypeOK'
  <2>1. \A i \in GroupId : DOMAIN lastState'[i] = Addr /\ DOMAIN stored'[i] = Addr
    BY <1>1, <1>5 DEF GuardInv, GuardTypeOK
  <2>2. \A i \in GroupId, a \in Addr :
           stored'[i][a] \in {NoState} \cup [fp : Fingerprint(a), ts : Nat]
    BY <1>5 DEF GuardInv, GuardTypeOK
  <2> QED
    BY <1>1, <1>3, <1>5, <2>1, <2>2 DEF GuardInv, GuardTypeOK
<1>8. PurgedIsGone' /\ SweptCache'
  BY <1>1, <1>2, <1>3 DEF GuardInv, PurgedIsGone, SweptCache
<1>9. CacheServed'
  BY <1>1, <1>4, <1>5 DEF GuardInv, CacheServed, Serves
<1>10. EmitNewer'
  BY <1>1, <1>2, <1>3, <1>5 DEF GuardInv, EmitNewer
<1>11. Published'
  BY <1>1, <1>2, <1>3, <1>4, <1>5 DEF GuardInv, Published, Serves
<1>12. NoLeftovers'
  BY <1>1, <1>2, <1>3, <1>4, <1>5 DEF GuardInv, NoLeftovers
<1> QED
  BY <1>6, <1>7, <1>8, <1>9, <1>10, <1>11, <1>12 DEF GuardInv

\* A restart that outlasts the clamp's lead over the clock keeps the invariant.
LEMMA RestartKeeps ==
    ASSUME GuardInv, ~FastRestart, Restart
    PROVE  GuardInv'
<1>1. /\ now < MaxTime /\ now' = now + 1 /\ Overtaken(now + 1)
      /\ groups' = disk /\ UNCHANGED <<disk, grants, saveFails, kicked, stored>>
      /\ task' = [h \in Handler |-> Idle]
      /\ lastState' = [id \in GroupId |-> NoStates]
      /\ lastEmit' = [id \in GroupId |-> NoTime]
      /\ behind' = behind \cup Unsaved \cup {id \in GroupId : ~Quiet(id)}
      /\ orphaned' = orphaned \cup Unsaved \cup {id \in GroupId : Purging(id)}
  BY DEF Restart
<1>2. \A i \in GroupId : ~Purging(i)' /\ ~Emitting(i)' /\ ~Sweeping(i)'
  BY <1>1 DEF Purging, Emitting, Sweeping, Idle
<1>3. DOMAIN NoStates = Addr /\ \A a \in Addr : NoStates[a] = NoState
  BY DEF NoStates
<1>4. TypeOK'
  BY <1>1, GroupsAssumption DEF GuardInv, TypeOK, Time
<1>5. GuardTypeOK'
  BY <1>1, <1>3 DEF GuardInv, GuardTypeOK
<1>6. PurgedIsGone' /\ SweptCache'
  BY <1>2 DEF PurgedIsGone, SweptCache
<1>7. CacheServed'
  BY <1>1, <1>3 DEF CacheServed
<1>8. EmitNewer'
  BY <1>1 DEF EmitNewer, Overtaken
<1>9. \A i \in GroupId : i \notin Unsaved => groups'[i] = groups[i]
  BY <1>1 DEF Unsaved
<1>10. Published'
  <2> SUFFICES ASSUME NEW i \in GroupId, i \notin behind'
               PROVE  IF groups[i] = NoGroup THEN stored[i] = NoStates
                      ELSE \A a \in Addr : Content(groups[i], a) # NoState
                                              => Serves(i, a, Content(groups[i], a))
    BY <1>1, <1>9 DEF Published, Serves
  <2>1. i \notin behind /\ Quiet(i)
    BY <1>1
  <2>2. ~Purging(i) /\ ~Emitting(i)
    <3>1. ASSUME NEW h \in Handler, task[h].pc # "idle" PROVE task[h].id # i
      BY <2>1, <3>1 DEF Quiet, Idle
    <3> QED
      BY <3>1 DEF Purging, Emitting
  <2> QED
    BY <2>1, <2>2 DEF GuardInv, Published
<1>11. NoLeftovers'
  <2> SUFFICES ASSUME NEW i \in GroupId, i \notin orphaned'
               PROVE  IF groups[i] = NoGroup THEN stored[i] = NoStates
                      ELSE \A a \in Addr : Content(groups[i], a) = NoState
                                              => stored[i][a] = NoState
    BY <1>1, <1>9 DEF NoLeftovers
  <2>1. i \notin orphaned /\ ~Purging(i)
    BY <1>1
  <2> QED
    BY <2>1 DEF GuardInv, NoLeftovers
<1> QED
  BY <1>4, <1>5, <1>6, <1>7, <1>8, <1>10, <1>11 DEF GuardInv

\* Time passing, and steps of nobody, keep the invariant.
LEMMA IdleKeeps ==
    ASSUME GuardInv, GuardTick \/ UNCHANGED allVars
    PROVE  GuardInv'
<1>1. UNCHANGED <<groups, disk, grants, saveFails, kicked>> /\ UNCHANGED guardVars
  BY DEF GuardTick, Tick, allVars, vars
<1>2. UNCHANGED <<task, lastState, lastEmit, stored, behind, orphaned>>
  BY <1>1 DEF guardVars
<1>3. now' \in Time /\ now \in Nat /\ now <= now' /\ now' \in Nat
  BY GroupsAssumption DEF GuardTick, Tick, allVars, vars, GuardInv, TypeOK, Time
<1>4. \A i \in GroupId : /\ Purging(i)' <=> Purging(i)
                         /\ Emitting(i)' <=> Emitting(i)
                         /\ Sweeping(i)' <=> Sweeping(i)
  BY <1>2 DEF Purging, Emitting, Sweeping
<1>5. TypeOK' /\ GuardTypeOK'
  BY <1>1, <1>2, <1>3 DEF GuardInv, TypeOK, GuardTypeOK
<1>6. PurgedIsGone' /\ SweptCache' /\ CacheServed'
  BY <1>1, <1>2, <1>4 DEF GuardInv, PurgedIsGone, SweptCache, CacheServed, Serves
<1>7. EmitNewer'
  <2> SUFFICES ASSUME NEW i \in GroupId, NEW a \in Addr, stored[i][a] # NoState
               PROVE  \/ stored[i][a].ts < now'
                      \/ lastEmit[i] # NoTime /\ stored[i][a].ts <= lastEmit[i]
                      \/ Sweeping(i)
    BY <1>2, <1>4 DEF EmitNewer
  <2>1. stored[i][a].ts \in Nat
    BY DEF GuardInv, GuardTypeOK
  <2> QED
    BY <1>3, <2>1 DEF GuardInv, EmitNewer
<1>8. Published' /\ NoLeftovers'
  BY <1>1, <1>2, <1>4 DEF GuardInv, Published, NoLeftovers, Serves
<1> QED
  BY <1>5, <1>6, <1>7, <1>8 DEF GuardInv

\* The invariant holds in every reachable state.
LEMMA GuardInvariant ==
    ASSUME ~RacyRecreate, ~FastRestart
    PROVE  GuardSpec => []GuardInv
<1>1. GuardInv /\ [GuardNext]_allVars => GuardInv'
  <2> SUFFICES ASSUME GuardInv, [GuardNext]_allVars PROVE GuardInv'
    OBVIOUS
  <2>1. ASSUME NEW h \in Handler, Work(h) PROVE GuardInv'
    BY <2>1, EmitKeeps, EmitNothingKeeps, PurgeCacheKeeps, SweepKeeps DEF Work
  <2> QED
    BY <2>1, AcceptKeeps, RefuseKeeps, RestartKeeps, IdleKeeps DEF GuardNext
<1> QED
  BY <1>1, GuardStart, PTL DEF GuardSpec

----------------------------------------------------------------------------
(* The theorems.                                                            *)

\* emitState and purgeState: once a group's handlers are done, the stored state events are
\* exactly those of the group, none if it is gone, for any number of groups, handlers,
\* failed saves and restarts, when no id is created again during its purge and no restart
\* is shorter than the clamp's lead.
THEOREM StateAlwaysConverges ==
    ASSUME ~RacyRecreate, ~FastRestart
    PROVE  GuardSpec => []StateConverges
<1>1. GuardInv => StateConverges
  <2> SUFFICES ASSUME GuardInv, NEW id \in GroupId, Quiet(id), id \notin behind
               PROVE  IF groups[id] = NoGroup THEN stored[id] = NoStates
                      ELSE \A a \in Addr :
                              LET c == Content(groups[id], a) IN
                              IF c = NoState THEN stored[id][a] = NoState \/ id \in orphaned
                              ELSE stored[id][a] # NoState /\ stored[id][a].fp = c
    BY DEF StateConverges
  <2>1. ~Purging(id) /\ ~Emitting(id)
    <3>1. ASSUME NEW h \in Handler, task[h].pc # "idle" PROVE task[h].id # id
      BY <3>1 DEF Quiet, Idle
    <3> QED
      BY <3>1 DEF Purging, Emitting
  <2> QED
    BY <2>1 DEF GuardInv, Published, NoLeftovers, Serves
<1> QED
  BY <1>1, GuardInvariant, PTL

\* purgeState: a cached fingerprint, which makes emitState skip the address, is always the
\* one of the event clients are served, under the same two conditions.
THEOREM CacheAlwaysMatchesStore ==
    ASSUME ~RacyRecreate, ~FastRestart
    PROVE  GuardSpec => []CacheMatchesStore
<1>1. GuardInv => CacheMatchesStore
  BY DEF GuardInv, CacheServed, CacheMatchesStore, Serves
<1> QED
  BY <1>1, GuardInvariant, PTL
=============================================================================
