---------------------------- MODULE Communities ----------------------------
(***************************************************************************)
(* The list of joined communities: CommunityStore of                       *)
(* client/src/communities/communityStore.ts, and the writers of            *)
(* client/src/app/AppRuntime.ts that read a record, change it and write    *)
(* the list back: an organizer document, a mirror seen to be good, the     *)
(* member's own relay choices, and the switch of community.                *)
(*                                                                         *)
(* Storage is one native thread: requests take effect, and are answered,   *)
(* in the order they were made.  Every writer suspends at each of them.    *)
(* list() and activeId() answer from a memo that a write drops only when   *)
(* it has been answered.                                                   *)
(***************************************************************************)
EXTENDS Integers, Sequences, FiniteSets

CONSTANTS
    Community,
    Kinds,          \* the writers that occur: field names of Field
    MaxWrite,       \* bound on writes
    MaxAtOnce,      \* bound on writes under way at once
    MidSwitch,      \* whether the member changes relays while a switch is under way
    MaxSwitch, MaxKill \* bounds

Field == {"labels", "rules", "org", "known", "user", "blocked"}

CommunitiesAssumption ==
    /\ Kinds \subseteq Field /\ MaxWrite \in Nat /\ MaxAtOnce \in Nat \ {0}
    /\ MidSwitch \in BOOLEAN /\ MaxSwitch \in Nat /\ MaxKill \in Nat

VARIABLES
    stored,         \* the stored list: the record of each community
    active,         \* the stored id of the active community
    slot,           \* the stored active account, by the community it belongs to
    listMemo, idMemo, \* _listCache and _activeIdCache, each empty or one value
    queue,          \* requests to storage, by the writer that waits for the answer
    procs,          \* writers under way
    cid, mem,       \* activeCommunity of the runtime: its id and its record
    made,           \* history: the community each write was made for
    switches, kills

vars == <<stored, active, slot, listMemo, idMemo, queue, procs, cid, mem, made, switches, kills>>

Absent == {0}
Blank == [f \in Field |-> Absent]
None == {}
Some(x) == {x}

Init ==
    /\ stored = [c \in Community |-> Blank] /\ active \in Community /\ slot = active
    /\ listMemo = None /\ idMemo = None /\ queue = <<>> /\ procs = {}
    /\ cid = active /\ mem = Blank /\ made = <<>> /\ switches = 0 /\ kills = 0

Switcher == 0
Switching == \E p \in procs : p.id = Switcher
\* What a request of p to storage is, by the point p has reached.
Requests == {"getId", "getRecord", "getList", "setList", "setId", "saveDMs", "setSlot", "getMap"}

\* An answer or a tap is handled once every writer that can run has run up to its
\* next request.
Settled == \A q \in procs : q.pc \in Requests \cup {"load"}

\* The process moves on; at a request it queues up.
Go(p, q) ==
    /\ procs' = (procs \ {p}) \cup {q}
    /\ queue' = IF q.pc \in Requests THEN Append(queue, q.id) ELSE queue
End(p) == procs' = procs \ {p} /\ queue' = queue

\* The member's tiers are written whole, as the runtime holds them; a document
\* replaces its field; a good mirror joins the ones already in the record.
Plus(v, j) == (v \ Absent) \cup {j}
Changed(p, record) ==
    CASE p.field \in {"user", "blocked"} -> [record EXCEPT !["user"] = p.user, !["blocked"] = p.blocked]
      [] p.field = "known" -> [record EXCEPT !["known"] = Plus(@, p.id)]
      [] OTHER -> [record EXCEPT ![p.field] = {p.id}]

\* The tiers a writer deletes from its copy before upsert().
Omitted(f) ==
    CASE f \in {"user", "blocked"} -> {"org", "known"}
      [] f = "known" -> {"org", "user"}
      [] OTHER -> {"known", "user"}

\* Only what the writer asserts is kept.
MergeUnguarded(existing, p) ==
    LET next == Changed(p, p.snap)
    IN  [f \in Field |-> IF f \in Omitted(p.field) THEN Absent ELSE next[f]]

\* upsert(): {...existing, ...community}, and an absent tier never erases a held one.
Merge(existing, p) ==
    LET next == Changed(p, p.snap)
    IN  [f \in Field |->
           IF f \in Omitted(p.field) \/ (next[f] = Absent /\ f \notin {"labels", "rules"})
           THEN existing[f] ELSE next[f]]
----------------------------------------------------------------------------
(* The writers.                                                            *)

\* handleIncomingEvent() with an organizer document, recordKnownGoodMirror() and
\* addUserMirror()/muteMirror(): the runtime's copy changes at once.
Start(f) ==
    /\ Len(made) < MaxWrite /\ Cardinality({p \in procs : p.id # Switcher}) < MaxAtOnce
    /\ ~Switching \/ (MidSwitch /\ f \in {"user", "blocked"})
    /\ LET j == Len(made) + 1
           new == [mem EXCEPT ![f] = IF f \in {"known", "user", "blocked"} THEN Plus(@, j) ELSE {j}]
           p == [id |-> j, field |-> f, base |-> cid, at |-> cid, snap |-> Blank, out |-> stored,
                 user |-> new["user"] \ Absent, blocked |-> new["blocked"] \ Absent, pc |-> "id"]
       IN  /\ mem' = IF f \in {"user", "blocked"} THEN [new EXCEPT !["user"] = p.user, !["blocked"] = p.blocked]
                     ELSE new
           /\ procs' = procs \cup {p}
    /\ made' = Append(made, cid)
    /\ UNCHANGED <<stored, active, slot, listMemo, idMemo, queue, cid, switches, kills>>

\* active(), first half: the id.
WithId(p, id) == [p EXCEPT !.at = id, !.pc = "record"]
ReadId(p) ==
    /\ p.pc = "id"
    /\ IF idMemo = None THEN Go(p, [p EXCEPT !.pc = "getId"]) ELSE \E id \in idMemo : Go(p, WithId(p, id))
    /\ UNCHANGED <<stored, active, slot, listMemo, idMemo, cid, mem, made, switches, kills>>

\* active(), second half: the record.  A relay choice or a good mirror of a
\* community the member has left is dropped; a document is not checked.
WithRecord(p, list) == [p EXCEPT !.snap = list[p.at], !.pc = "upsert"]
Unwanted(p, list) ==
    p.id # Switcher /\ p.field \in {"known", "user", "blocked"}
    /\ (p.at # p.base \/ (p.field = "known" /\ p.id \in list[p.at]["known"]))
ReadRecord(p) ==
    /\ p.pc = "record"
    /\ IF listMemo = None THEN Go(p, [p EXCEPT !.pc = "getRecord"]) /\ mem' = mem /\ cid' = cid
       ELSE \E list \in listMemo :
              IF p.id = Switcher THEN End(p) /\ mem' = list[p.at] /\ cid' = p.at
              ELSE /\ mem' = mem /\ cid' = cid
                   /\ IF Unwanted(p, list) THEN End(p) ELSE Go(p, WithRecord(p, list))
    /\ UNCHANGED <<stored, active, slot, listMemo, idMemo, made, switches, kills>>

\* upsert() reads the list once more and writes all of it.
WithList(p, list) == [p EXCEPT !.out = [list EXCEPT ![p.at] = Merge(@, p)], !.pc = "setList"]
Upsert(p) ==
    /\ p.pc = "upsert"
    /\ IF listMemo = None THEN Go(p, [p EXCEPT !.pc = "getList"]) ELSE \E list \in listMemo : Go(p, WithList(p, list))
    /\ UNCHANGED <<stored, active, slot, listMemo, idMemo, cid, mem, made, switches, kills>>

----------------------------------------------------------------------------
(* Storage answers the request at the head of the queue.                   *)

Answered(p, q) ==
    /\ procs' = (procs \ {p}) \cup {q}
    /\ queue' = IF q.pc \in Requests THEN Append(Tail(queue), q.id) ELSE Tail(queue)
Finished(p) == procs' = procs \ {p} /\ queue' = Tail(queue)
AtHead(p, pc) == queue # <<>> /\ Head(queue) = p.id /\ p.pc = pc /\ Settled

GotId(p) ==
    /\ AtHead(p, "getId")
    /\ idMemo' = Some(active) /\ Answered(p, WithId(p, active))
    /\ UNCHANGED <<stored, active, slot, listMemo, cid, mem, made, switches, kills>>

GotRecord(p) ==
    /\ AtHead(p, "getRecord")
    /\ listMemo' = Some(stored)
    /\ IF p.id = Switcher THEN Finished(p) /\ mem' = stored[p.at] /\ cid' = p.at
       ELSE /\ mem' = mem /\ cid' = cid
            /\ IF Unwanted(p, stored) THEN Finished(p) ELSE Answered(p, WithRecord(p, stored))
    /\ UNCHANGED <<stored, active, slot, idMemo, made, switches, kills>>

GotList(p) ==
    /\ AtHead(p, "getList")
    /\ listMemo' = Some(stored) /\ Answered(p, WithList(p, stored))
    /\ UNCHANGED <<stored, active, slot, idMemo, cid, mem, made, switches, kills>>

ListWrittenKeepingMemo(p) ==
    /\ AtHead(p, "setList")
    /\ stored' = p.out /\ listMemo' = listMemo /\ Answered(p, [p EXCEPT !.pc = "setId"])
    /\ UNCHANGED <<active, slot, idMemo, cid, mem, made, switches, kills>>

\* The list is written, the memo dropped; then upsert() makes the community active.
ListWritten(p) ==
    /\ AtHead(p, "setList")
    /\ stored' = p.out /\ listMemo' = None /\ Answered(p, [p EXCEPT !.pc = "setId"])
    /\ UNCHANGED <<active, slot, idMemo, cid, mem, made, switches, kills>>

\* setActive(), at the end of upsert() or in a switch, which goes on to swap the
\* event store before it loads the community's record.
IdWritten(p) ==
    /\ AtHead(p, "setId")
    /\ active' = p.at /\ idMemo' = None
    /\ IF p.id = Switcher THEN Answered(p, [p EXCEPT !.pc = "load"]) ELSE Finished(p)
    /\ UNCHANGED <<stored, slot, listMemo, cid, mem, made, switches, kills>>

----------------------------------------------------------------------------
(* activateWorkspace().                                                    *)

\* The pointers first, the flush of the outgoing state after them.
SwitchUnflushed(c) ==
    /\ switches < MaxSwitch /\ ~Switching /\ c # cid /\ Settled
    /\ LET p == [id |-> Switcher, field |-> "org", base |-> c, at |-> c, snap |-> Blank, out |-> stored,
                 user |-> {}, blocked |-> {}, pc |-> "setId"]
       IN  procs' = procs \cup {p} /\ queue' = Append(queue, Switcher)
    /\ slot' = c /\ switches' = switches + 1
    /\ UNCHANGED <<stored, active, listMemo, idMemo, cid, mem, made, kills>>
\* The relay is torn down, then the outgoing account's messages are saved.
Switch(c) ==
    /\ switches < MaxSwitch /\ ~Switching /\ c # cid /\ Settled
    /\ LET p == [id |-> Switcher, field |-> "org", base |-> c, at |-> c, snap |-> Blank, out |-> stored,
                 user |-> {}, blocked |-> {}, pc |-> "saveDMs"]
       IN  procs' = procs \cup {p} /\ queue' = Append(queue, Switcher)
    /\ switches' = switches + 1
    /\ UNCHANGED <<stored, active, slot, listMemo, idMemo, cid, mem, made, kills>>

\* The account pointer, the map of last accounts, then the community pointer.
SwitchStep(p) ==
    /\ p.id = Switcher
    /\ \/ AtHead(p, "saveDMs") /\ slot' = slot /\ Answered(p, [p EXCEPT !.pc = "setSlot"])
       \/ AtHead(p, "setSlot") /\ slot' = p.at /\ Answered(p, [p EXCEPT !.pc = "getMap"])
       \/ AtHead(p, "getMap") /\ slot' = slot /\ Answered(p, [p EXCEPT !.pc = "setId"])
    /\ UNCHANGED <<stored, active, listMemo, idMemo, cid, mem, made, switches, kills>>

\* The store is swapped; loadWorkspaceState() gets to loadActiveCommunityPolicy().
Load(p) ==
    /\ p.pc = "load" /\ Go(p, [p EXCEPT !.pc = "id"])
    /\ UNCHANGED <<stored, active, slot, listMemo, idMemo, cid, mem, made, switches, kills>>

\* A new process: resolveActiveNamespace() and loadActiveCommunityPolicy().
Kill ==
    /\ kills < MaxKill /\ kills' = kills + 1
    /\ procs' = {} /\ queue' = <<>> /\ listMemo' = None /\ idMemo' = None
    /\ cid' = active /\ mem' = stored[active]
    /\ UNCHANGED <<stored, active, slot, made, switches>>

Next ==
    \/ \E f \in Kinds : Start(f)
    \/ \E p \in procs :
         \/ ReadId(p) \/ ReadRecord(p) \/ Upsert(p)
         \/ GotId(p) \/ GotRecord(p) \/ GotList(p) \/ ListWritten(p) \/ IdWritten(p) \/ SwitchStep(p) \/ Load(p)
    \/ \E c \in Community : Switch(c)
    \/ Kill

Spec == Init /\ [][Next]_vars

----------------------------------------------------------------------------
(* Properties.                                                             *)

Value == SUBSET (0..MaxWrite)
Record == [Field -> Value]
Proc == [id : 0..MaxWrite, field : Field, base : Community, at : Community, snap : Record, out : [Community -> Record],
         user : Value, blocked : Value, pc : Requests \cup {"id", "record", "upsert", "load"}]

\* Types, and a waiting writer is one under way: nothing is answered to a
\* writer that has ended.
TypeOK ==
    /\ stored \in [Community -> Record] /\ active \in Community /\ slot \in Community /\ cid \in Community
    /\ Cardinality(listMemo) <= 1 /\ listMemo \subseteq [Community -> Record]
    /\ Cardinality(idMemo) <= 1 /\ idMemo \subseteq Community
    /\ procs \subseteq Proc /\ mem \in Record /\ made \in Seq(Community)
    /\ \A i \in 1..Len(queue) : \E p \in procs : p.id = queue[i] /\ p.pc \in Requests

\* "a write is always visible on the very next read": the memo of list() is
\* empty or what is stored, whatever writes and reads overlap.
MemoCurrent == listMemo \subseteq {stored} /\ idMemo \subseteq {active}

\* Once nothing is under way, everything the runtime holds of its community
\* (documents, mirrors, the member's choices) is stored, and so survives a restart.
Durable == procs = {} => stored[cid] = mem

\* The record of a community holds only what was written for it: a document or a
\* choice under way when the member switches never lands in the other community.
WrittenHome == \A c \in Community, f \in Field : \A j \in stored[c][f] \ Absent : made[j] = c

\* Once nothing is under way, the stored account belongs to the stored community:
\* the two pointers move together.
PointersAgree == procs = {} => slot = active
=============================================================================
