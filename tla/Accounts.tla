------------------------------ MODULE Accounts ------------------------------
(***************************************************************************)
(* The accounts on one device: the key ring (client/src/keys/keyRing.ts),  *)
(* the joined communities, and the operations of AppRuntime that change    *)
(* both: completeEnrollment, switchCommunity and switchIdentity,           *)
(* removeIdentity, removeCommunity, and the binding event that a fresh     *)
(* account still owes its relay (client/src/onboarding/pendingBind.ts).    *)
(*                                                                         *)
(* Each operation is a list of writes to secure storage with an await      *)
(* between any two, so a kill may fall anywhere in it.  It is modelled as  *)
(* such a list: what it will write is decided when it starts, from what it *)
(* then reads, and each write is a step.                                   *)
(***************************************************************************)
EXTENDS Integers, Sequences, FiniteSets

CONSTANTS
    Slot, Community,
    Home,           \* the community each slot is an account of
    None,
    Patient,        \* whether nobody joins while a binding event is still owed
    Overlap,        \* whether a switch may be under way when an account is left
    MaxSwitch, MaxKill

AccountsAssumption ==
    /\ Home \in [Slot -> Community] /\ None \notin Slot \cup Community
    /\ Patient \in BOOLEAN /\ Overlap \in BOOLEAN /\ {MaxSwitch, MaxKill} \subseteq Nat

VARIABLES
    disk,       \* secure storage
    mem,        \* the runtime's active slot and community, and whether it is enrolled
    op, sw,     \* the writes left of the join or leave, and of the switch, under way
    conn,       \* the community whose relay is connected
    sending,    \* the binding event whose answer onRelayConnected awaits
    bound,      \* slots the relay of their community has bound
    joined, ready, left,    \* history: slots whose enrolment began; came to its end; whose
                            \* removal was asked for
    switches, kills

vars == <<disk, mem, op, sw, conn, sending, bound, joined, ready, left, switches, kills>>
hist == <<joined, ready, left, switches, kills>>

Init ==
    /\ disk = [list |-> {}, key |-> {}, data |-> {}, active |-> None, comms |-> {}, cid |-> None,
               last |-> [c \in Community |-> None], bind |-> None]
    /\ mem = [slot |-> None, cid |-> None, enrolled |-> FALSE]
    /\ op = <<>> /\ sw = <<>> /\ conn = None /\ sending = None
    /\ bound = {} /\ joined = {} /\ ready = {} /\ left = {} /\ switches = 0 /\ kills = 0

Quiet == op = <<>> /\ sw = <<>>

----------------------------------------------------------------------------
(* The steps.  A step names the write and the slot or community it is for.  *)

Step(do, x) == [do |-> do, of |-> x]
In(c) == {s \in Slot : Home[s] = c}

\* KeyRing.removeSlot falls back to the first remaining slot, CommunityStore.remove to the
\* first remaining community; the order of the lists is left open.
Fallback(was, gone, rest) ==
    IF was # gone THEN {was} ELSE IF rest = {} THEN {None} ELSE rest

\* The disks a write may leave.
Written(d, t) ==
    LET x == t.of
    IN  CASE t.do = "bind"    -> {[d EXCEPT !.bind = x]}
          [] t.do = "key"     -> {[d EXCEPT !.key = @ \cup {x}]}
          [] t.do = "list"    -> {[d EXCEPT !.list = @ \cup {x}]}
          [] t.do = "active"  -> {[d EXCEPT !.active = x]}
          [] t.do = "last"    -> {[d EXCEPT !.last[Home[x]] = x]}
          [] t.do = "comm"    -> {[d EXCEPT !.comms = @ \cup {x}]}
          [] t.do = "cid"     -> {[d EXCEPT !.cid = x]}
          [] t.do = "data"    -> {[d EXCEPT !.data = @ \cup {x}]}
          [] t.do = "unlist"  -> {[d EXCEPT !.list = @ \ {x}]}
          [] t.do = "unkey"   -> {[d EXCEPT !.key = @ \ {x}]}
          [] t.do = "repoint" -> {[d EXCEPT !.active = a] : a \in Fallback(d.active, x, d.list)}
          [] t.do = "undata"  -> {[d EXCEPT !.data = @ \ {x}]}
          [] t.do = "unlast"  -> {[d EXCEPT !.last = [c \in Community |-> IF @[c] = x THEN None ELSE @[c]]]}
          [] t.do = "uncomm"  -> {[d EXCEPT !.comms = @ \ {x}]}
          [] t.do = "uncid"   -> {[d EXCEPT !.cid = c] : c \in Fallback(d.cid, x, d.comms)}
          [] t.do = "unlastc" -> {[d EXCEPT !.last[x] = None]}
          [] OTHER -> {d}

\* completeEnrollment; the host then reconnects.
Joining(s) ==
    <<Step("bind", s), Step("teardown", s), Step("key", s), Step("list", s), Step("active", s),
      Step("last", s), Step("comm", Home[s]), Step("cid", Home[s]), Step("data", s),
      Step("enrolled", s), Step("publish", s), Step("reconnect", s)>>

\* activateWorkspace with a slot.
Switching(s) ==
    <<Step("freeze", s), Step("active", s), Step("last", s), Step("cid", Home[s]), Step("repointed", s)>>

RemoveSlotKeyKept(s) ==
    <<Step("unlist", s), Step("repoint", s), Step("undata", s), Step("unlast", s)>>

\* KeyRing.removeSlot, wipePerSlotState, forgetSlotEverywhere and the account's event store.
RemoveSlot(s) ==
    <<Step("unlist", s), Step("unkey", s), Step("repoint", s), Step("undata", s), Step("unlast", s)>>

RemoveComm(c) == <<Step("uncomm", c), Step("uncid", c), Step("unlastc", c)>>

\* Switching away first: to the slot given, or to no account at all.
Away(s) == IF s = None THEN <<Step("drop", None)>> ELSE <<Step("away", s)>>

LeavingWithCommunity(s, next) ==
    (IF disk.active = s THEN Away(next) ELSE <<>>) \o RemoveSlot(s) \o RemoveComm(Home[s])

\* removeIdentity: the community goes with its last account.
Leaving(s, next) ==
    (IF disk.active = s THEN Away(next) ELSE <<>>) \o RemoveSlot(s)
        \o (IF disk.list \cap In(Home[s]) = {s} THEN RemoveComm(Home[s]) ELSE <<>>)

\* The orders in which the key ring may hold the slots of S, each at one place.
Orders(S) ==
    {f \in [1..Cardinality(S) -> S] : \A x \in S : \E i \in DOMAIN f : \A k \in DOMAIN f : f[k] = x <=> k = i}

\* RemoveSlot for each slot of a list, one after the other.
RemoveSlots(mine) ==
    LET n == Len(RemoveSlot(None))
    IN  [i \in 1..(n * Len(mine)) |-> RemoveSlot(mine[((i - 1) \div n) + 1])[((i - 1) % n) + 1]]

QuittingAll(c, next, mine) ==
    (IF disk.cid = c THEN Away(next) ELSE <<>>) \o RemoveComm(c)
        \o RemoveSlots(CHOOSE all \in Orders(disk.list) : TRUE)

\* removeCommunity: every account of the community goes with it.
Quitting(c, next, mine) ==
    (IF disk.cid = c THEN Away(next) ELSE <<>>) \o RemoveComm(c) \o RemoveSlots(mine)

----------------------------------------------------------------------------
(* Starting an operation.                                                   *)

Join(s) ==
    /\ Quiet /\ s \notin joined
    /\ Patient => disk.bind = None /\ sending = None
    /\ op' = Joining(s) /\ joined' = joined \cup {s}
    /\ UNCHANGED <<disk, mem, sw, conn, sending, bound, ready, left, switches, kills>>

Switch(s) ==
    /\ Quiet /\ s \in disk.list \ {disk.active} /\ switches < MaxSwitch
    /\ sw' = Switching(s) /\ switches' = switches + 1
    /\ UNCHANGED <<disk, mem, op, conn, sending, bound, joined, ready, left, kills>>

MayLeave == op = <<>> /\ (Overlap \/ sw = <<>>)

\* The next account, preferably of the same community.
Next1(s) ==
    LET others == disk.list \ {s}
        siblings == others \cap In(Home[s])
    IN  IF siblings # {} THEN siblings ELSE IF others # {} THEN others ELSE {None}

Leave(s) ==
    /\ MayLeave /\ s \in disk.list
    /\ \E next \in Next1(s) : op' = Leaving(s, next)
    /\ left' = left \cup {s}
    /\ UNCHANGED <<disk, mem, sw, conn, sending, bound, joined, ready, switches, kills>>

\* resolveSlotForCid: the account last active in the community, else any.
resolveSlot(c) ==
    LET here == disk.list \cap In(c)
    IN  IF disk.last[c] \in here THEN {disk.last[c]} ELSE here

Quit(c) ==
    /\ MayLeave /\ c \in disk.comms
    /\ LET others == UNION {resolveSlot(d) : d \in disk.comms \ {c}}
       IN  \E next \in IF others = {} THEN {None} ELSE others, mine \in Orders(disk.list \cap In(c)) :
               op' = Quitting(c, next, mine)
    /\ left' = left \cup (disk.list \cap In(c))
    /\ UNCHANGED <<disk, mem, sw, conn, sending, bound, joined, ready, switches, kills>>

----------------------------------------------------------------------------
(* Taking a step.                                                           *)

Closed == conn' = None /\ sending' = None
Tied == UNCHANGED <<conn, sending>>

Named(s) == [slot |-> s, cid |-> Home[s], enrolled |-> s \in disk.key]

\* A write and nothing else.
Pure(t) == t.do \notin {"teardown", "enrolled", "publish", "freeze", "repointed", "drop", "away", "settle", "unbind",
                            "reconnect"}

OpWrite ==
    /\ op # <<>> /\ Pure(Head(op))
    /\ disk' \in Written(disk, Head(op)) /\ op' = Tail(op)
    /\ Tied /\ UNCHANGED <<mem, sw, bound, hist>>

\* The relay is closed, then the runtime is pointed at the new slot.
Teardown ==
    /\ op # <<>> /\ Head(op).do = "teardown"
    /\ mem' = [mem EXCEPT !.slot = Head(op).of, !.cid = Home[Head(op).of]]
    /\ op' = Tail(op) /\ Closed
    /\ UNCHANGED <<disk, sw, bound, hist>>

Enrolled ==
    /\ op # <<>> /\ Head(op).do = "enrolled"
    /\ mem' = [mem EXCEPT !.enrolled = TRUE] /\ op' = Tail(op)
    /\ ready' = ready \cup {Head(op).of}
    /\ Tied /\ UNCHANGED <<disk, sw, bound, joined, left, switches, kills>>

\* completeEnrollment's own publish; accepted only by the relay of the slot's community.
Publish ==
    /\ op # <<>> /\ Head(op).do = "publish"
    /\ LET s == Head(op).of
       IN  \/ conn = Home[s] /\ bound' = bound \cup {s} /\ op' = <<Step("unbind", s)>> \o Tail(op)
           \/ bound' = bound /\ op' = Tail(op)
    /\ Tied /\ UNCHANGED <<disk, mem, sw, hist>>

Unbind ==
    /\ op # <<>> /\ Head(op).do = "unbind"
    /\ disk' = [disk EXCEPT !.bind = None] /\ op' = Tail(op)
    /\ Tied /\ UNCHANGED <<mem, sw, bound, hist>>

Reconnect ==
    /\ op # <<>> /\ Head(op).do = "reconnect"
    /\ op' = Tail(op) /\ Closed
    /\ UNCHANGED <<disk, mem, sw, bound, hist>>

\* The last account is leaving: the runtime drops to the un-enrolled state.
Drop ==
    /\ op # <<>> /\ Head(op).do = "drop"
    /\ mem' = [slot |-> None, cid |-> None, enrolled |-> FALSE]
    /\ op' = Tail(op) /\ Closed
    /\ UNCHANGED <<disk, sw, bound, hist>>

\* The switch a removal starts with; activateWorkspace returns at once when one is under way.
GoAway ==
    /\ op # <<>> /\ Head(op).do = "away"
    /\ \/ sw = <<>> /\ sw' = Switching(Head(op).of) /\ op' = <<Step("settle", Head(op).of)>> \o Tail(op)
       \/ sw # <<>> /\ sw' = sw /\ op' = Tail(op)
    /\ Tied /\ UNCHANGED <<disk, mem, bound, hist>>

Settle ==
    /\ op # <<>> /\ Head(op).do = "settle" /\ sw = <<>>
    /\ op' = Tail(op)
    /\ Tied /\ UNCHANGED <<disk, mem, sw, bound, hist>>

Freeze ==
    /\ sw # <<>> /\ Head(sw).do = "freeze"
    /\ sw' = Tail(sw) /\ Closed
    /\ UNCHANGED <<disk, mem, op, bound, hist>>

SwWrite ==
    /\ sw # <<>> /\ Pure(Head(sw))
    /\ disk' \in Written(disk, Head(sw)) /\ sw' = Tail(sw)
    /\ Tied /\ UNCHANGED <<mem, op, bound, hist>>

Repointed ==
    /\ sw # <<>> /\ Head(sw).do = "repointed"
    /\ mem' = Named(Head(sw).of) /\ sw' = Tail(sw)
    /\ Tied /\ UNCHANGED <<disk, op, bound, hist>>

----------------------------------------------------------------------------
(* The relay.                                                               *)

\* The host connects to the active community's relay; onRelayConnected then publishes the
\* binding event still owed.
Connect ==
    /\ conn = None /\ disk.cid # None /\ sw = <<>>
    /\ conn' = disk.cid
    /\ sending' = IF mem.enrolled THEN disk.bind ELSE None
    /\ UNCHANGED <<disk, mem, op, sw, bound, hist>>

\* The relay takes a binding event that its own issuer signed.
RelayBinds ==
    /\ sending # None /\ Home[sending] = conn
    /\ bound' = bound \cup {sending}
    /\ UNCHANGED <<disk, mem, op, sw, conn, sending, hist>>

AnswerClearing ==
    /\ sending # None /\ (sending \in bound \/ Home[sending] # conn)
    /\ disk' = [disk EXCEPT !.bind = None]
    /\ sending' = None
    /\ UNCHANGED <<mem, op, sw, conn, bound, hist>>

\* Accepted: the stored event is cleared, whichever it is by now.  Refused: it stays.
Answer ==
    /\ sending # None /\ (sending \in bound \/ Home[sending] # conn)
    /\ disk' = [disk EXCEPT !.bind = IF Home[sending] = conn THEN None ELSE @]
    /\ sending' = None
    /\ UNCHANGED <<mem, op, sw, conn, bound, hist>>

Disconnect ==
    /\ conn # None /\ Closed
    /\ UNCHANGED <<disk, mem, op, sw, bound, hist>>

\* The app is killed and started again: resolveActiveNamespace, then isEnrolled.
Kill ==
    /\ kills < MaxKill /\ kills' = kills + 1
    /\ op' = <<>> /\ sw' = <<>> /\ Closed
    /\ mem' = [slot |-> disk.active, cid |-> disk.cid, enrolled |-> disk.active \in disk.key]
    /\ UNCHANGED <<disk, bound, joined, ready, left, switches>>

----------------------------------------------------------------------------

Work == OpWrite \/ Teardown \/ Enrolled \/ Publish \/ Unbind \/ Reconnect \/ Drop \/ GoAway \/ Settle
            \/ Freeze \/ SwWrite \/ Repointed

Next ==
    \/ \E s \in Slot : Join(s) \/ Switch(s) \/ Leave(s)
    \/ \E c \in Community : Quit(c)
    \/ Work \/ Connect \/ RelayBinds \/ Answer \/ Disconnect \/ Kill

Spec == Init /\ [][Next]_vars

----------------------------------------------------------------------------

TypeOK ==
    /\ disk.list \subseteq Slot /\ disk.key \subseteq Slot /\ disk.data \subseteq Slot
    /\ disk.active \in Slot \cup {None} /\ disk.bind \in Slot \cup {None}
    /\ disk.comms \subseteq Community /\ disk.cid \in Community \cup {None}
    /\ disk.last \in [Community -> Slot \cup {None}]
    /\ mem \in [slot : Slot \cup {None}, cid : Community \cup {None}, enrolled : BOOLEAN]
    /\ conn \in Community \cup {None} /\ sending \in Slot \cup {None}
    /\ bound \subseteq joined

\* After any sequence of joins, switches and removals the four records of who is who agree: the
\* key ring, the communities, the two active pointers and the runtime.
Consistent ==
    Quiet =>
        /\ disk.comms = {Home[s] : s \in disk.list}
        /\ IF disk.list = {} THEN disk.active = None /\ disk.cid = None
           ELSE disk.active \in disk.list /\ disk.cid = Home[disk.active]
        /\ mem = [slot |-> disk.active, cid |-> disk.cid, enrolled |-> disk.list # {}]
        /\ \A c \in Community : disk.last[c] \in disk.list \cup {None}

\* Leaving one account never costs another, wherever a kill cuts it off: every account that was
\* enrolled and not left has its key, its place in the key ring and its data.
OwnedKept == \A s \in ready \ left : s \in disk.key \cap disk.list \cap disk.data

\* AppRuntime.ts:10870-10871: removal never orphans an account, "its key left behind while its
\* community + DB are gone".
NothingLeftBehind == Quiet => \A s \in left \ disk.list : s \notin disk.key \cup disk.data

\* AppRuntime.ts:10880 and 10958: the runtime is never left on a deleted workspace.
NotOnDeleted == Quiet => disk.active \in disk.list \cup {None} /\ mem.slot \in disk.list \cup {None}

\* AppRuntime.ts:11110-11111, "Persist the binding event before touching secure storage so that a
\* crash between here and publish can be retried automatically on reconnect": an account not yet
\* bound still has its binding event stored, and is one the runtime can be enrolled as.
BindRetriable ==
    Quiet => \A s \in joined \ (left \cup bound) : disk.bind = s /\ s \in disk.list

=============================================================================
