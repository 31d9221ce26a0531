----------------------------- MODULE GroupGuard -----------------------------
(***************************************************************************)
(* The group guard (relay/internal/policy/groups.go) over the group store: *)
(* after each accepted management event its handler publishes the group's  *)
(* relay-signed state events (39000-39005), or purges them when the group  *)
(* was deleted.  Handlers run concurrently; emitState and the cache half   *)
(* of purgeState hold emitMu, Apply and the sweep of purgeState do not.    *)
(*                                                                         *)
(* The stored state is what clients read; the guard never re-reads it, it  *)
(* re-signs only what differs from its cache of fingerprints.              *)
(***************************************************************************)
EXTENDS Groups

CONSTANTS
    Handler,        \* concurrent management-event handlers
    NoState,        \* no state event at an address
    RacyRecreate,   \* may an id be created again while its purge is still running?
    FastRestart,    \* may a restart be shorter than the emit clamp's lead over the clock?
    MaxEvents       \* bound on accepted management events


VARIABLES
    task,       \* per handler: what is left to do after Apply, and for which group
    lastState,  \* per group and address: fingerprint last emitted
    lastEmit,   \* per group: CreatedAt of the last emission
    stored,     \* per group and address: the state event in the event store
    served,     \* accepted management events so far
    behind,     \* history: groups whose state a crash or a failed save left unpublished
    orphaned    \* history: groups deleted, or rolled back by a restart, without a purge

guardVars == <<task, lastState, lastEmit, stored, served, behind, orphaned>>
allVars == <<vars, guardVars>>

\* The addressable coordinates of a group's state: metadata, admins, members, pending
\* requests, and one per gated post.  (The roles event is constant.)
Addr == {"meta", "admins", "members", "pending"} \cup Post

\* What a state event of each address says.
Fingerprint(a) ==
    CASE a = "meta" -> [owner : User, closed : BOOLEAN, private : BOOLEAN, broadcast : BOOLEAN]
      [] a \in {"admins", "members", "pending"} -> SUBSET User
      [] a \in Post -> Gate

ASSUME GuardAssumption ==
    /\ RacyRecreate \in BOOLEAN /\ FastRestart \in BOOLEAN /\ MaxEvents \in Nat
    /\ {"meta", "admins", "members", "pending"} \cap Post = {}
    /\ \A c \in Gate : c # NoGate
    /\ \A a \in Addr : /\ \A c \in Fingerprint(a) : c # NoState
                       /\ NoState \notin [fp : Fingerprint(a), ts : Nat]

NoStates == [a \in Addr |-> NoState]
Idle == [pc |-> "idle"]

\* StateEvents and stateFingerprint: what each state event says about the group.
Content(r, a) ==
    CASE a = "meta" -> [owner |-> r.owner, closed |-> r.closed, private |-> r.private,
                        broadcast |-> r.broadcast]
      [] a = "admins" -> r.admins
      [] a = "members" -> r.members
      [] a = "pending" -> r.pending
      [] a \in Post -> IF r.gates[a] = NoGate THEN NoState ELSE r.gates[a]

GuardInit ==
    /\ Init
    /\ task = [h \in Handler |-> Idle]
    /\ lastState = [id \in GroupId |-> NoStates]
    /\ lastEmit = [id \in GroupId |-> NoTime]
    /\ stored = [id \in GroupId |-> NoStates]
    /\ served = 0
    /\ behind = {}
    /\ orphaned = {}

\* Some handler still has this group to purge.
Purging(id) == \E h \in Handler : task[h].pc \in {"purge", "sweep"} /\ task[h].id = id

\* No handler has work left for this group.
Quiet(id) == \A h \in Handler : task[h] = Idle \/ task[h].id # id

\* Groups whose memory is ahead of groups.json after a failed save.
Unsaved == {id \in GroupId : groups[id] # disk[id]}

----------------------------------------------------------------------------
(* RejectEvent of a management event.                                       *)

\* Apply accepted it: the handler goes on to publish or to purge.
Accept(h, id) ==
    /\ task[h] = Idle
    /\ served < MaxEvents
    /\ RacyRecreate \/ groups[id] # NoGroup \/ ~Purging(id)
    /\ Manage(id, TRUE)
    /\ task' = [task EXCEPT ![h] =
                   [pc |-> IF groups'[id] = NoGroup THEN "purge" ELSE "emit", id |-> id]]
    /\ served' = served + 1
    /\ UNCHANGED <<lastState, lastEmit, stored, behind, orphaned>>

\* Apply changed the group but could not save it: the event is rejected, nothing is emitted.
Refuse(id) ==
    /\ RacyRecreate \/ groups[id] # NoGroup \/ ~Purging(id)
    /\ Manage(id, FALSE)
    /\ behind' = behind \cup {id}
    /\ orphaned' = orphaned \cup {i \in {id} : groups'[i] = NoGroup}
    /\ UNCHANGED <<task, lastState, lastEmit, stored, served>>

\* emitState's clamp: strictly after the group's last emission.
EmitTime(id) ==
    IF lastEmit[id] # NoTime /\ now <= lastEmit[id] THEN lastEmit[id] + 1 ELSE now

\* ReplaceEvent keeps the newer event of an address; equal times are decided by event id,
\* here by `win`.
Replace(old, fp, ts, win) ==
    IF old = NoState \/ old.ts < ts \/ (old.ts = ts /\ win) THEN [fp |-> fp, ts |-> ts] ELSE old

\* The addresses whose stored event carries the same time.
Tied(id, ts) == {a \in Addr : stored[id][a] # NoState /\ stored[id][a].ts = ts}

\* The addresses emitState re-signs: those whose fingerprint is not the cached one.
Changed(id) ==
    {a \in Addr : Content(groups[id], a) \notin {NoState, lastState[id][a]}}

\* emitState, under emitMu: snapshot, diff against the cache, store what changed.
Emit(h) ==
    LET id == task[h].id
        ts == EmitTime(id) IN
    /\ task[h].pc = "emit"
    /\ task' = [task EXCEPT ![h] = Idle]
    /\ \/ /\ groups[id] = NoGroup
          /\ UNCHANGED <<lastState, lastEmit, stored, behind>>
       \/ /\ groups[id] # NoGroup
          /\ \E wins \in SUBSET Tied(id, ts) :
                stored' = [stored EXCEPT ![id] = [a \in Addr |->
                    IF a \in Changed(id)
                    THEN Replace(@[a], Content(groups[id], a), ts, a \in wins)
                    ELSE @[a]]]
          /\ lastState' = [lastState EXCEPT ![id] = [a \in Addr |-> Content(groups[id], a)]]
          /\ lastEmit' = IF Changed(id) = {} THEN lastEmit ELSE [lastEmit EXCEPT ![id] = ts]
          /\ behind' = behind \ {id}
    /\ UNCHANGED <<vars, served, orphaned>>

\* Mutated form of PurgeCache: the emit caches survive the group.
PurgeCacheKept(h) ==
    /\ task[h].pc = "purge"
    /\ task' = [task EXCEPT ![h].pc = "sweep"]
    /\ UNCHANGED <<vars, lastState, lastEmit, stored, served, behind, orphaned>>

\* purgeState, under emitMu: drop the group's caches.
PurgeCache(h) ==
    /\ task[h].pc = "purge"
    /\ task' = [task EXCEPT ![h].pc = "sweep"]
    /\ lastState' = [lastState EXCEPT ![task[h].id] = NoStates]
    /\ lastEmit' = [lastEmit EXCEPT ![task[h].id] = NoTime]
    /\ UNCHANGED <<vars, stored, served, behind, orphaned>>

\* Mutated form of Sweep: the second filter, for the per-post events, is missing.
SweepNoPosts(h) ==
    /\ task[h].pc = "sweep"
    /\ task' = [task EXCEPT ![h] = Idle]
    /\ stored' = [stored EXCEPT ![task[h].id] =
                     [a \in Addr |-> IF a \in Post THEN @[a] ELSE NoState]]
    /\ behind' = behind \ {task[h].id}
    /\ orphaned' = orphaned \ {task[h].id}
    /\ UNCHANGED <<vars, lastState, lastEmit, served>>

\* purgeState, emitMu released: query the group's state events and delete them.
Sweep(h) ==
    /\ task[h].pc = "sweep"
    /\ task' = [task EXCEPT ![h] = Idle]
    /\ stored' = [stored EXCEPT ![task[h].id] = NoStates]
    /\ behind' = behind \ {task[h].id}
    /\ orphaned' = orphaned \ {task[h].id}
    /\ UNCHANGED <<vars, lastState, lastEmit, served>>

\* The clock will have passed every stored state event at time t.
Overtaken(t) == \A id \in GroupId, a \in Addr : stored[id][a] # NoState => stored[id][a].ts < t

\* The relay restarts, which takes a clock unit at least: groups.json is reloaded, the
\* emit caches and the handlers in flight are gone.
Restart ==
    /\ now < MaxTime
    /\ FastRestart \/ Overtaken(now + 1)
    /\ now' = now + 1
    /\ groups' = disk
    /\ UNCHANGED <<disk, grants, saveFails, kicked>>
    /\ task' = [h \in Handler |-> Idle]
    /\ lastState' = [id \in GroupId |-> NoStates]
    /\ lastEmit' = [id \in GroupId |-> NoTime]
    /\ behind' = behind \cup Unsaved \cup {id \in GroupId : ~Quiet(id)}
    /\ orphaned' = orphaned \cup Unsaved \cup {id \in GroupId : Purging(id)}
    /\ UNCHANGED <<stored, served>>

GuardTick == Tick /\ UNCHANGED guardVars

Work(h) == Emit(h) \/ PurgeCache(h) \/ Sweep(h)

GuardNext ==
    \/ \E h \in Handler, id \in GroupId : Accept(h, id)
    \/ \E id \in GroupId : Refuse(id)
    \/ \E h \in Handler : Work(h)
    \/ Restart
    \/ GuardTick

GuardSpec == GuardInit /\ [][GuardNext]_allVars

----------------------------------------------------------------------------
(* Properties.                                                              *)

\* What clients read is what the store decides by: once the handlers of a group are done,
\* its stored state events are exactly those of the group, none if it is gone, whatever the
\* order in which applies, emissions and purges interleaved.  A change lost to a crash, or
\* refused by a failed save, is made good by the group's next accepted event (`behind`);
\* gates of a group deleted or rolled back without a purge may linger (`orphaned`).
StateConverges ==
    \A id \in GroupId : Quiet(id) /\ id \notin behind =>
        IF groups[id] = NoGroup THEN stored[id] = NoStates
        ELSE \A a \in Addr :
                LET c == Content(groups[id], a) IN
                IF c = NoState THEN stored[id][a] = NoState \/ id \in orphaned
                ELSE stored[id][a] # NoState /\ stored[id][a].fp = c

\* purgeState's comment: "a later recreate with the same id must re-emit all its state events
\* from scratch": a cached fingerprint, which makes emitState skip the address, is always
\* the one of the event clients are served.
CacheMatchesStore ==
    \A id \in GroupId, a \in Addr : Quiet(id) /\ lastState[id][a] # NoState =>
        stored[id][a] # NoState /\ stored[id][a].fp = lastState[id][a]
=============================================================================
