------------------------------- MODULE Client -------------------------------
(***************************************************************************)
(* The member's app: the outbox, the writes that wait for tokens, the      *)
(* accounts and communities of the device, and the Tor transport.          *)
(*                                                                         *)
(* The components share no state: part names the one that runs in a        *)
(* behaviour, and the variables of the others stay "off", so that the      *)
(* states are the sum of theirs.  Variables of one name in two components  *)
(* are one variable here.  A component runs in one of the environments     *)
(* given for it: a record with a value for each of its constants.          *)
(***************************************************************************)
EXTENDS Integers, Sequences

CONSTANTS
    Boxes, Queues, Rings, Lists, Managers, Ladders  \* the environments of each component

VARIABLES
    part,    \* the component that runs
    env,     \* its environment
    entry, disk, added, flight, timer, linger, relay, announce, announced, cancelled,
    resent, fresh, kills, account, loading, pending, jobs, composed, kept, closed,
    published, switches, mem, op, sw, conn, sending, bound, joined, ready, left, stored,
    active, slot, listMemo, idMemo, queue, procs, cid, made, st, socks, gen, subs, own,
    inflight, maybe, conf, want, result, last, ops, booting, live, ev, calls, installs, tor,
    rung, stopping, quick, cascade, desired, dormant, rerun, retry, dead, startTier,
    activeTier, warm, legacy, pend, probed, proven, acts

\* The queue of signed events.
Box(e) == INSTANCE Outbox WITH
    Event <- e.Event, DependsOn <- e.DependsOn, MaxResend <- e.MaxResend,
    MaxKill <- e.MaxKill, MemberActs <- e.MemberActs, EarlyFlush <- e.EarlyFlush,
    RelayVerdicts <- e.RelayVerdicts

\* The writes that wait for tokens.
Pending(e) == INSTANCE PendingWrites WITH
    Write <- e.Write, Account <- e.Account, Owner <- e.Owner, HasBlobs <- e.HasBlobs,
    MaxRun <- e.MaxRun, MaxKill <- e.MaxKill, MaxSwitch <- e.MaxSwitch

\* The accounts of the device.
Ring(e) == INSTANCE Accounts WITH
    Slot <- e.Slot, Community <- e.Community, Home <- e.Home, None <- e.None,
    Patient <- e.Patient, Overlap <- e.Overlap, MaxSwitch <- e.MaxSwitch,
    MaxKill <- e.MaxKill

\* The stored list of communities.
Joined(e) == INSTANCE Communities WITH
    Community <- e.Community, Kinds <- e.Kinds, MaxWrite <- e.MaxWrite,
    MaxAtOnce <- e.MaxAtOnce, MidSwitch <- e.MidSwitch, MaxSwitch <- e.MaxSwitch,
    MaxKill <- e.MaxKill

\* The transport manager.
Tor(e) == INSTANCE TorManager WITH
    Cred <- e.Cred, MaxCall <- e.MaxCall, MaxBoot <- e.MaxBoot, MaxInstall <- e.MaxInstall,
    Overlap <- e.Overlap

\* The ladder of transports.
Ladder(e) == INSTANCE TorLadder WITH
    Fails <- e.Fails, Condemnable <- e.Condemnable, Good <- e.Good, Acts <- e.Acts,
    MaxAct <- e.MaxAct, QuickConnect <- e.QuickConnect

ASSUME ClientAssumption ==
    /\ \A e \in Boxes : Box(e)!OutboxAssumption
    /\ \A e \in Queues : Pending(e)!PendingWritesAssumption
    /\ \A e \in Rings : Ring(e)!AccountsAssumption
    /\ \A e \in Lists : Joined(e)!CommunitiesAssumption
    /\ \A e \in Managers : Tor(e)!TorAssumption
    /\ \A e \in Ladders : Ladder(e)!LadderAssumption

Off == "off"
Runs(name, e) == part = name /\ env = e

FrozenOutbox ==
    /\ account = Off /\ loading = Off /\ pending = Off /\ jobs = Off /\ composed = Off
    /\ kept = Off /\ closed = Off /\ published = Off /\ switches = Off /\ mem = Off
    /\ op = Off /\ sw = Off /\ conn = Off /\ sending = Off /\ bound = Off /\ joined = Off
    /\ ready = Off /\ left = Off /\ stored = Off /\ active = Off /\ slot = Off
    /\ listMemo = Off /\ idMemo = Off /\ queue = Off /\ procs = Off /\ cid = Off
    /\ made = Off /\ st = Off /\ socks = Off /\ gen = Off /\ subs = Off /\ own = Off
    /\ inflight = Off /\ maybe = Off /\ conf = Off /\ want = Off /\ result = Off
    /\ last = Off /\ ops = Off /\ booting = Off /\ live = Off /\ ev = Off /\ calls = Off
    /\ installs = Off /\ tor = Off /\ rung = Off /\ stopping = Off /\ quick = Off
    /\ cascade = Off /\ desired = Off /\ dormant = Off /\ rerun = Off /\ retry = Off
    /\ dead = Off /\ startTier = Off /\ activeTier = Off /\ warm = Off /\ legacy = Off
    /\ pend = Off /\ probed = Off /\ proven = Off /\ acts = Off
FrozenPendingWrites ==
    /\ entry = Off /\ added = Off /\ flight = Off /\ timer = Off /\ linger = Off
    /\ relay = Off /\ announce = Off /\ announced = Off /\ cancelled = Off /\ resent = Off
    /\ fresh = Off /\ mem = Off /\ op = Off /\ sw = Off /\ conn = Off /\ sending = Off
    /\ bound = Off /\ joined = Off /\ ready = Off /\ left = Off /\ stored = Off
    /\ active = Off /\ slot = Off /\ listMemo = Off /\ idMemo = Off /\ queue = Off
    /\ procs = Off /\ cid = Off /\ made = Off /\ st = Off /\ socks = Off /\ gen = Off
    /\ subs = Off /\ own = Off /\ inflight = Off /\ maybe = Off /\ conf = Off /\ want = Off
    /\ result = Off /\ last = Off /\ ops = Off /\ booting = Off /\ live = Off /\ ev = Off
    /\ calls = Off /\ installs = Off /\ tor = Off /\ rung = Off /\ stopping = Off
    /\ quick = Off /\ cascade = Off /\ desired = Off /\ dormant = Off /\ rerun = Off
    /\ retry = Off /\ dead = Off /\ startTier = Off /\ activeTier = Off /\ warm = Off
    /\ legacy = Off /\ pend = Off /\ probed = Off /\ proven = Off /\ acts = Off
FrozenAccounts ==
    /\ entry = Off /\ added = Off /\ flight = Off /\ timer = Off /\ linger = Off
    /\ relay = Off /\ announce = Off /\ announced = Off /\ cancelled = Off /\ resent = Off
    /\ fresh = Off /\ account = Off /\ loading = Off /\ pending = Off /\ jobs = Off
    /\ composed = Off /\ kept = Off /\ closed = Off /\ published = Off /\ stored = Off
    /\ active = Off /\ slot = Off /\ listMemo = Off /\ idMemo = Off /\ queue = Off
    /\ procs = Off /\ cid = Off /\ made = Off /\ st = Off /\ socks = Off /\ gen = Off
    /\ subs = Off /\ own = Off /\ inflight = Off /\ maybe = Off /\ conf = Off /\ want = Off
    /\ result = Off /\ last = Off /\ ops = Off /\ booting = Off /\ live = Off /\ ev = Off
    /\ calls = Off /\ installs = Off /\ tor = Off /\ rung = Off /\ stopping = Off
    /\ quick = Off /\ cascade = Off /\ desired = Off /\ dormant = Off /\ rerun = Off
    /\ retry = Off /\ dead = Off /\ startTier = Off /\ activeTier = Off /\ warm = Off
    /\ legacy = Off /\ pend = Off /\ probed = Off /\ proven = Off /\ acts = Off
FrozenCommunities ==
    /\ entry = Off /\ disk = Off /\ added = Off /\ flight = Off /\ timer = Off
    /\ linger = Off /\ relay = Off /\ announce = Off /\ announced = Off /\ cancelled = Off
    /\ resent = Off /\ fresh = Off /\ account = Off /\ loading = Off /\ pending = Off
    /\ jobs = Off /\ composed = Off /\ kept = Off /\ closed = Off /\ published = Off
    /\ op = Off /\ sw = Off /\ conn = Off /\ sending = Off /\ bound = Off /\ joined = Off
    /\ ready = Off /\ left = Off /\ st = Off /\ socks = Off /\ gen = Off /\ subs = Off
    /\ own = Off /\ inflight = Off /\ maybe = Off /\ conf = Off /\ want = Off
    /\ result = Off /\ last = Off /\ ops = Off /\ booting = Off /\ live = Off /\ ev = Off
    /\ calls = Off /\ installs = Off /\ tor = Off /\ rung = Off /\ stopping = Off
    /\ quick = Off /\ cascade = Off /\ desired = Off /\ dormant = Off /\ rerun = Off
    /\ retry = Off /\ dead = Off /\ startTier = Off /\ activeTier = Off /\ warm = Off
    /\ legacy = Off /\ pend = Off /\ probed = Off /\ proven = Off /\ acts = Off
FrozenTorManager ==
    /\ entry = Off /\ disk = Off /\ added = Off /\ flight = Off /\ linger = Off
    /\ relay = Off /\ announce = Off /\ announced = Off /\ cancelled = Off /\ resent = Off
    /\ fresh = Off /\ kills = Off /\ account = Off /\ loading = Off /\ pending = Off
    /\ jobs = Off /\ composed = Off /\ kept = Off /\ closed = Off /\ published = Off
    /\ switches = Off /\ mem = Off /\ op = Off /\ sw = Off /\ conn = Off /\ sending = Off
    /\ bound = Off /\ joined = Off /\ ready = Off /\ left = Off /\ stored = Off
    /\ active = Off /\ slot = Off /\ listMemo = Off /\ idMemo = Off /\ queue = Off
    /\ procs = Off /\ cid = Off /\ made = Off /\ tor = Off /\ rung = Off /\ stopping = Off
    /\ quick = Off /\ cascade = Off /\ desired = Off /\ dormant = Off /\ rerun = Off
    /\ retry = Off /\ dead = Off /\ startTier = Off /\ activeTier = Off /\ warm = Off
    /\ legacy = Off /\ pend = Off /\ probed = Off /\ proven = Off /\ acts = Off
FrozenTorLadder ==
    /\ entry = Off /\ disk = Off /\ added = Off /\ flight = Off /\ timer = Off
    /\ linger = Off /\ relay = Off /\ announce = Off /\ announced = Off /\ cancelled = Off
    /\ resent = Off /\ fresh = Off /\ kills = Off /\ account = Off /\ loading = Off
    /\ pending = Off /\ jobs = Off /\ composed = Off /\ kept = Off /\ closed = Off
    /\ published = Off /\ switches = Off /\ mem = Off /\ op = Off /\ sw = Off /\ conn = Off
    /\ sending = Off /\ bound = Off /\ joined = Off /\ ready = Off /\ stored = Off
    /\ active = Off /\ slot = Off /\ listMemo = Off /\ idMemo = Off /\ queue = Off
    /\ procs = Off /\ cid = Off /\ made = Off /\ st = Off /\ socks = Off /\ gen = Off
    /\ subs = Off /\ own = Off /\ inflight = Off /\ conf = Off /\ want = Off /\ result = Off
    /\ last = Off /\ ops = Off /\ booting = Off /\ ev = Off /\ calls = Off /\ installs = Off

Init ==
    \/ \E e \in Boxes : Runs("outbox", e) /\ Box(e)!Init /\ FrozenOutbox
    \/ \E e \in Queues : Runs("pending", e) /\ Pending(e)!Init /\ FrozenPendingWrites
    \/ \E e \in Rings : Runs("accounts", e) /\ Ring(e)!Init /\ FrozenAccounts
    \/ \E e \in Lists : Runs("communities", e) /\ Joined(e)!Init /\ FrozenCommunities
    \/ \E e \in Managers : Runs("tor", e) /\ Tor(e)!Init /\ FrozenTorManager
    \/ \E e \in Ladders : Runs("ladder", e) /\ Ladder(e)!Init /\ FrozenTorLadder

BesideOutbox == UNCHANGED <<
    part, env, account, loading, pending, jobs, composed, kept, closed, published, switches, mem,
    op, sw, conn, sending, bound, joined, ready, left, stored, active, slot, listMemo,
    idMemo, queue, procs, cid, made, st, socks, gen, subs, own, inflight, maybe, conf, want,
    result, last, ops, booting, live, ev, calls, installs, tor, rung, stopping, quick,
    cascade, desired, dormant, rerun, retry, dead, startTier, activeTier, warm, legacy,
    pend, probed, proven, acts>>
BesidePendingWrites == UNCHANGED <<
    part, env, entry, added, flight, timer, linger, relay, announce, announced, cancelled,
    resent, fresh, mem, op, sw, conn, sending, bound, joined, ready, left, stored, active,
    slot, listMemo, idMemo, queue, procs, cid, made, st, socks, gen, subs, own, inflight,
    maybe, conf, want, result, last, ops, booting, live, ev, calls, installs, tor, rung,
    stopping, quick, cascade, desired, dormant, rerun, retry, dead, startTier, activeTier,
    warm, legacy, pend, probed, proven, acts>>
BesideAccounts == UNCHANGED <<
    part, env, entry, added, flight, timer, linger, relay, announce, announced, cancelled,
    resent, fresh, account, loading, pending, jobs, composed, kept, closed, published,
    stored, active, slot, listMemo, idMemo, queue, procs, cid, made, st, socks, gen, subs,
    own, inflight, maybe, conf, want, result, last, ops, booting, live, ev, calls, installs,
    tor, rung, stopping, quick, cascade, desired, dormant, rerun, retry, dead, startTier,
    activeTier, warm, legacy, pend, probed, proven, acts>>
BesideCommunities == UNCHANGED <<
    part, env, entry, disk, added, flight, timer, linger, relay, announce, announced, cancelled,
    resent, fresh, account, loading, pending, jobs, composed, kept, closed, published, op,
    sw, conn, sending, bound, joined, ready, left, st, socks, gen, subs, own, inflight,
    maybe, conf, want, result, last, ops, booting, live, ev, calls, installs, tor, rung,
    stopping, quick, cascade, desired, dormant, rerun, retry, dead, startTier, activeTier,
    warm, legacy, pend, probed, proven, acts>>
BesideTorManager == UNCHANGED <<
    part, env, entry, disk, added, flight, linger, relay, announce, announced, cancelled, resent,
    fresh, kills, account, loading, pending, jobs, composed, kept, closed, published,
    switches, mem, op, sw, conn, sending, bound, joined, ready, left, stored, active, slot,
    listMemo, idMemo, queue, procs, cid, made, tor, rung, stopping, quick, cascade, desired,
    dormant, rerun, retry, dead, startTier, activeTier, warm, legacy, pend, probed, proven,
    acts>>
BesideTorLadder == UNCHANGED <<
    part, env, entry, disk, added, flight, timer, linger, relay, announce, announced, cancelled,
    resent, fresh, kills, account, loading, pending, jobs, composed, kept, closed,
    published, switches, mem, op, sw, conn, sending, bound, joined, ready, stored, active,
    slot, listMemo, idMemo, queue, procs, cid, made, st, socks, gen, subs, own, inflight,
    conf, want, result, last, ops, booting, ev, calls, installs>>

OutboxStep == \E e \in Boxes : Runs("outbox", e) /\ Box(e)!Next /\ BesideOutbox
PendingStep == \E e \in Queues : Runs("pending", e) /\ Pending(e)!Next /\ BesidePendingWrites
AccountsStep == \E e \in Rings : Runs("accounts", e) /\ Ring(e)!Next /\ BesideAccounts
CommunitiesStep == \E e \in Lists : Runs("communities", e) /\ Joined(e)!Next /\ BesideCommunities
TorStep == \E e \in Managers : Runs("tor", e) /\ Tor(e)!Next /\ BesideTorManager
LadderStep == \E e \in Ladders : Runs("ladder", e) /\ Ladder(e)!Next /\ BesideTorLadder

Next == OutboxStep \/ PendingStep \/ AccountsStep \/ CommunitiesStep \/ TorStep \/ LadderStep

vars == <<
    part, env, entry, disk, added, flight, timer, linger, relay, announce, announced, cancelled,
    resent, fresh, kills, account, loading, pending, jobs, composed, kept, closed,
    published, switches, mem, op, sw, conn, sending, bound, joined, ready, left, stored,
    active, slot, listMemo, idMemo, queue, procs, cid, made, st, socks, gen, subs, own,
    inflight, maybe, conf, want, result, last, ops, booting, live, ev, calls, installs, tor,
    rung, stopping, quick, cascade, desired, dormant, rerun, retry, dead, startTier,
    activeTier, warm, legacy, pend, probed, proven, acts>>

Spec == Init /\ [][Next]_vars

-----------------------------------------------------------------------------
\* The variables of the component that runs are of their types.
TypeOK ==
    /\ \A e \in Boxes : Runs("outbox", e) => Box(e)!TypeOK
    /\ \A e \in Queues : Runs("pending", e) => Pending(e)!TypeOK
    /\ \A e \in Rings : Runs("accounts", e) => Ring(e)!TypeOK
    /\ \A e \in Lists : Runs("communities", e) => Joined(e)!TypeOK
    /\ \A e \in Managers : Runs("tor", e) => Tor(e)!TypeOK
    /\ \A e \in Ladders : Runs("ladder", e) => Ladder(e)!TypeOK

\* A reader never meets a post whose picture does not exist (AppRuntime.ts:5190-5206).
BlobsFirst == \A e \in Boxes : Runs("outbox", e) => Box(e)!BlobsFirst

\* A write that was queued is at the relay, still queued or cancelled, "posted" is said only of
\* what the relay has, and, when connections come up between calls, what shows as on its way is
\* on its way (outbox.ts:9-12, AppRuntime.ts:5294-5313).
NothingLost ==
    \A e \in Boxes : Runs("outbox", e) =>
        /\ Box(e)!NothingLost
        /\ Box(e)!PostedMeansPosted
        /\ ~e.EarlyFlush => Box(e)!NeverSilentlyStuck

\* A write without media is never published from another account, whenever the member switches
\* while it is being signed; within one account and process a write is published once, whoever
\* signs it; and one shown as failed and queued is not lost, kills included
\* (AppRuntime.ts:5418-5423, 12561-12567, 12705-12707).
WritesKept ==
    \A e \in Queues : Runs("pending", e) =>
        /\ ~e.HasBlobs => Pending(e)!PublishedHome
        /\ e.MaxSwitch = 0 /\ e.MaxKill = 0 => Pending(e)!PublishedOnce
        /\ e.MaxSwitch = 0 /\ (\E w \in e.Write : e.Write = {w}) => Pending(e)!NeverLost

\* Leaving one account never costs another, wherever a kill cuts it off or a switch overlaps it;
\* and with one call at a time and no kill the key ring, the communities, the pointers and the
\* runtime agree, nothing of a left account remains, and an unbound account is the one bound next
\* (keyRing.ts:95-125, AppRuntime.ts:10860-11000, 11203).
AccountsKept ==
    \A e \in Rings : Runs("accounts", e) =>
        /\ Ring(e)!OwnedKept
        /\ e.Patient /\ ~e.Overlap /\ e.MaxKill = 0 =>
              Ring(e)!Consistent /\ Ring(e)!NothingLeftBehind /\ Ring(e)!BindRetriable

\* Whatever writes, reads and switches overlap, the memo of the stored list is empty or what is
\* stored; and with one call at a time every change is stored, under its own community, and the
\* stored account belongs to the stored community (communityStore.ts:480-530).
CommunitiesTrue ==
    \A e \in Lists : Runs("communities", e) =>
        /\ Joined(e)!MemoCurrent
        /\ e.MaxAtOnce = 1 /\ ~e.MidSwitch /\ e.MaxKill = 0 =>
              Joined(e)!Durable /\ Joined(e)!WrittenHome /\ Joined(e)!PointersAgree

\* A stop is skipped only when no client is running, and "connected" means a proxy, whatever
\* calls overlap; with one call at a time an attempt has its deadline and a disconnect is final;
\* and with no credential installed meanwhile the one reported is the one in use
\* (TorManager.ts:205-235, 295-330).
TransportTrue ==
    \A e \in Managers : Runs("tor", e) =>
        /\ Tor(e)!SkippedStopSafe
        /\ Tor(e)!ConnectedHasProxy
        /\ ~e.Overlap => Tor(e)!DeadlineArmed /\ Tor(e)!DisconnectSticks
        /\ ~e.Overlap /\ e.MaxInstall = 0 => Tor(e)!AuthTruth

\* While a connection is wanted and there is none, something will try again, and what escalation
\* and the ladder believe of the transport in use is true: with the app in the foreground, no new
\* settings, a last rung that is never condemned, and no connection quicker than the retry timer
\* (App.tsx:1220-1380, 3190-3240).
RetryOwed ==
    \A e \in Ladders :
        /\ Runs("ladder", e)
        /\ e.Acts \cap {"background", "restart"} = {} /\ ~e.QuickConnect
        /\ Ladder(e)!Snowflake \notin e.Condemnable
        => Ladder(e)!RetryOwed /\ Ladder(e)!TierTrue /\ Ladder(e)!NotOnCondemned
=============================================================================
