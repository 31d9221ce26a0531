------------------------------- MODULE Groups -------------------------------
(***************************************************************************)
(* The relay's NIP-29 group store (relay/internal/groups/groups.go).       *)
(*                                                                         *)
(* Store.Apply is the single entry point: it checks a management event     *)
(* against the sender's role, changes the group in memory and saves the    *)
(* whole store to one JSON file.  Events carry the time their sender       *)
(* signed them, which is not the time they arrive; a closed group also     *)
(* admits the bearer of an invite grant signed by a current admin.         *)
(***************************************************************************)
EXTENDS Naturals, FiniteSets

CONSTANTS
    User,       \* hex pubkeys
    GroupId,    \* group ids (the h tag)
    Post,       \* posts whose interaction gates can be set
    MetaTags,   \* the sets of access tags a metadata event may carry
    NoGroup,    \* no group with this id
    NoGate,     \* no gate set for the post
    NoTime,     \* never removed
    GrantTTL,   \* how long a grant is valid
    Skew,       \* how late a signed event may arrive
    MaxTime,    \* bound on the clock
    MaxGrants,  \* bound on the grants minted
    MaxSaveFail \* bound on failed saves

Tag == {"open", "closed", "public", "private", "broadcast"}

ASSUME GroupsAssumption ==
    /\ \A m \in MetaTags : /\ m \subseteq Tag
                          /\ ~ {"open", "closed"} \subseteq m
                          /\ ~ {"public", "private"} \subseteq m
    /\ GrantTTL \in Nat /\ Skew \in Nat
    /\ MaxTime \in Nat /\ MaxGrants \in Nat /\ MaxSaveFail \in Nat
    /\ NoTime \notin Nat

Time == 0..MaxTime
Role == {"member", "admin", "owner"}
Gate == SUBSET {"comments", "reactions"}

\* A grant names the group, its signer, the invitee and when it was signed.
Grant == [group : GroupId, by : User, to : User, at : Time]

Group == [owner : User, admins : SUBSET User, members : SUBSET User, pending : SUBSET User,
          closed : BOOLEAN, private : BOOLEAN, broadcast : BOOLEAN,
          gates : [Post -> Gate \cup {NoGate}], removedAt : [User -> Time \cup {NoTime}]]

ASSUME NoGroupAssumption == NoGroup \notin Group

VARIABLES
    groups,     \* s.groups, in memory
    disk,       \* the saved groups.json
    grants,     \* invite grants signed so far, held by their invitees
    now,        \* the relay's clock
    saveFails,  \* failed saves so far
    kicked      \* history: the latest signing time among a user's accepted removals

vars == <<groups, disk, grants, now, saveFails, kicked>>

NeverKicked == [u \in User |-> NoTime]

----------------------------------------------------------------------------
(* What each management event does to a group record.                       *)

NewGroup(u) ==
    [owner |-> u, admins |-> {u}, members |-> {u}, pending |-> {},
     closed |-> FALSE, private |-> FALSE, broadcast |-> FALSE,
     gates |-> [p \in Post |-> NoGate], removedAt |-> NeverKicked]

\* applyMetadataTags: an absent tag keeps the flag; nothing clears broadcast.  Clients send
\* one tag of each pair, so the order of the tags does not matter.
WithTags(r, m) ==
    [r EXCEPT !.closed = ("closed" \in m) \/ (@ /\ "open" \notin m),
              !.private = ("private" \in m) \/ (@ /\ "public" \notin m),
              !.broadcast = @ \/ "broadcast" \in m]

\* Mutated form: a member re-added without the admin role is demoted, owner or not.
WithUserDemoted(r, u, role) ==
    [r EXCEPT !.owner = IF role = "owner" THEN u ELSE @,
              !.members = @ \cup {u},
              !.pending = @ \ {u},
              !.admins = IF role = "member" THEN @ \ {u} ELSE @ \cup {u}]

\* 9000 add user: transfer of ownership, promotion, or a plain (re-)add, which demotes an
\* admin other than the owner.
WithUser(r, u, role) ==
    [r EXCEPT !.owner = IF role = "owner" THEN u ELSE @,
              !.members = @ \cup {u},
              !.pending = @ \ {u},
              !.admins = IF role = "member" /\ u # r.owner THEN @ \ {u}
                         ELSE IF role = "member" THEN @ ELSE @ \cup {u}]

\* Mutated forms: the removal time is not recorded, or in milliseconds.
WithoutUserUnstamped(r, u, at) ==
    [r EXCEPT !.members = @ \ {u}, !.admins = @ \ {u}, !.pending = @ \ {u}]
WithoutUserMillis(r, u, at) ==
    [r EXCEPT !.members = @ \ {u}, !.admins = @ \ {u}, !.pending = @ \ {u},
              !.removedAt[u] = 1000 * at]

\* 9001 remove user and 9022 leave: out of every set, and the removal time recorded
\* (recordRemoval), so that older grants go stale.
WithoutUser(r, u, at) ==
    [r EXCEPT !.members = @ \ {u}, !.admins = @ \ {u}, !.pending = @ \ {u},
              !.removedAt[u] = at]

\* inviteGrantAdmits: signed by a current admin, for this group and this requester,
\* unexpired, and newer than the requester's recorded removal.
GrantAdmits(id, r, u, t) ==
    \E c \in grants : /\ c.group = id /\ c.to = u
                      /\ c.by \in r.admins
                      /\ t <= c.at + GrantTTL
                      /\ r.removedAt[u] # NoTime => r.removedAt[u] < c.at

\* 9021 join request: into an open group at once, into a closed one with a grant, else queued.
\* `withGrant` says whether the request carries the user's best grant.
WithJoin(id, r, u, withGrant) ==
    IF ~r.closed THEN [r EXCEPT !.members = @ \cup {u}]
    ELSE IF withGrant /\ GrantAdmits(id, r, u, now)
         THEN [r EXCEPT !.members = @ \cup {u}, !.pending = @ \ {u}]
         ELSE [r EXCEPT !.pending = @ \cup {u}]

----------------------------------------------------------------------------
Init ==
    /\ groups = [id \in GroupId |-> NoGroup]
    /\ disk = groups
    /\ grants = {}
    /\ now = 0
    /\ saveFails = 0
    /\ kicked = [id \in GroupId |-> NeverKicked]

\* Apply's tail: the mutated store is saved, or the save fails and the event is rejected
\* while the mutation stays in memory.
Save(ok) ==
    \/ ok /\ disk' = groups' /\ UNCHANGED saveFails
    \/ ~ok /\ saveFails < MaxSaveFail /\ saveFails' = saveFails + 1 /\ UNCHANGED disk

\* Apply of an admissible event to one group.
Apply(id, r, ok) ==
    /\ groups' = [groups EXCEPT ![id] = r]
    /\ Save(ok)
    /\ UNCHANGED <<grants, now>>

CreateGroup(id, u, m, ok) ==
    /\ groups[id] = NoGroup
    /\ Apply(id, WithTags(NewGroup(u), m), ok)
    /\ kicked' = [kicked EXCEPT ![id] = NeverKicked]

DeleteGroup(id, u, ok) ==
    /\ groups[id] # NoGroup
    /\ u = groups[id].owner
    /\ Apply(id, NoGroup, ok)
    /\ UNCHANGED kicked

EditMetadata(id, u, m, ok) ==
    /\ groups[id] # NoGroup
    /\ u \in groups[id].admins
    /\ Apply(id, WithTags(groups[id], m), ok)
    /\ UNCHANGED kicked

AddUser(id, u, target, role, ok) ==
    /\ groups[id] # NoGroup
    /\ u \in groups[id].admins
    /\ role = "owner" => u = groups[id].owner
    /\ Apply(id, WithUser(groups[id], target, role), ok)
    /\ UNCHANGED kicked

\* The latest of the removals' signing times.
Later(s, t) == IF s = NoTime \/ s < t THEN t ELSE s

RemoveUser(id, u, target, at, ok) ==
    /\ groups[id] # NoGroup
    /\ u \in groups[id].admins
    /\ target # groups[id].owner
    /\ Apply(id, WithoutUser(groups[id], target, at), ok)
    /\ kicked' = IF ok THEN [kicked EXCEPT ![id][target] = Later(@, at)] ELSE kicked

JoinRequest(id, u, withGrant, ok) ==
    /\ groups[id] # NoGroup
    /\ Apply(id, WithJoin(id, groups[id], u, withGrant), ok)
    /\ UNCHANGED kicked

LeaveRequest(id, u, at, ok) ==
    /\ groups[id] # NoGroup
    /\ u # groups[id].owner
    /\ Apply(id, WithoutUser(groups[id], u, at), ok)
    /\ kicked' = IF ok THEN [kicked EXCEPT ![id][u] = Later(@, at)] ELSE kicked

SetInteractions(id, u, p, gate, ok) ==
    /\ groups[id] # NoGroup
    /\ u \in groups[id].admins
    /\ Apply(id, [groups[id] EXCEPT !.gates[p] = gate], ok)
    /\ UNCHANGED kicked

\* The signing times an event that arrives now may carry.
Signed == {t \in Time : t <= now /\ now <= t + Skew}

\* The accepted (ok) and the refused-by-save forms of one group's management events.
Manage(id, ok) ==
    \E u \in User :
        \/ \E m \in MetaTags : CreateGroup(id, u, m, ok) \/ EditMetadata(id, u, m, ok)
        \/ DeleteGroup(id, u, ok)
        \/ \E v \in User, role \in Role : AddUser(id, u, v, role, ok)
        \/ \E v \in User, at \in Signed : RemoveUser(id, u, v, at, ok)
        \/ \E g \in BOOLEAN : JoinRequest(id, u, g, ok)
        \/ \E at \in Signed : LeaveRequest(id, u, at, ok)
        \/ \E p \in Post, gate \in Gate : SetInteractions(id, u, p, gate, ok)

----------------------------------------------------------------------------
(* The environment: anyone signs grants, time passes, the relay restarts.   *)

MintGrant(id, u, v) ==
    /\ Cardinality(grants) < MaxGrants
    /\ grants' = grants \cup {[group |-> id, by |-> u, to |-> v, at |-> now]}
    /\ UNCHANGED <<groups, disk, now, saveFails, kicked>>

Tick == now < MaxTime /\ now' = now + 1 /\ UNCHANGED <<groups, disk, grants, saveFails, kicked>>

\* LoadStore: the groups as last saved.
Reload == groups' = disk /\ UNCHANGED <<disk, grants, now, saveFails, kicked>>

Next ==
    \/ \E id \in GroupId, ok \in BOOLEAN : Manage(id, ok)
    \/ \E id \in GroupId, u, v \in User : MintGrant(id, u, v)
    \/ Tick
    \/ Reload

Spec == Init /\ [][Next]_vars

----------------------------------------------------------------------------
(* Properties.                                                              *)

\* Every variable keeps its type (groups.go's Group and Store).
TypeOK ==
    /\ groups \in [GroupId -> Group \cup {NoGroup}]
    /\ disk \in [GroupId -> Group \cup {NoGroup}]
    /\ grants \in SUBSET Grant
    /\ now \in Time
    /\ saveFails \in 0..MaxSaveFail
    /\ kicked \in [GroupId -> [User -> Time \cup {NoTime}]]

\* Group's comment, "The owner is always in both" sets, and every admin is a member: no
\* sequence of transfers, demotions, removals and leaves, in memory or reloaded from disk,
\* leaves a group that nobody can manage or an admin who cannot post.
RolesNested ==
    \A s \in {groups, disk} : \A id \in GroupId :
        s[id] # NoGroup => /\ s[id].owner \in s[id].admins
                           /\ s[id].admins \subseteq s[id].members

\* A grant that may still admit u: signed for u by a current admin, unexpired, and signed
\* after every accepted removal of u from this group.
Fresh(id, u, c) ==
    /\ c \in grants /\ c.group = id /\ c.to = u
    /\ c.by \in groups[id].admins
    /\ now <= c.at + GrantTTL
    /\ kicked[id][u] # NoTime => kicked[id][u] < c.at

\* RemovedAt's comment: a grant minted at or before a removal "is STALE and must not re-admit
\* the pubkey".  Whatever removals, leaves, role changes and re-invitations came before, and
\* in whatever order they arrived, a grant that inviteGrantAdmits accepts is fresh.
GrantsFresh ==
    \A id \in GroupId, u \in User :
        groups[id] # NoGroup /\ GrantAdmits(id, groups[id], u, now)
            => \E c \in grants : Fresh(id, u, c)
=============================================================================
