----------------------------- MODULE TorLadder ------------------------------
(***************************************************************************)
(* The guided transport ladder of client/App.tsx: runCascade() and         *)
(* connectGuided() over AUTO_LADDER (client/src/tor/ladder.ts), the        *)
(* automatic retry, the deferred verdicts on a transport, escalation when  *)
(* the relay stays unreachable, dormancy, and restarts for new settings or *)
(* another community.                                                      *)
(*                                                                         *)
(* The manager is reduced to what the ladder sees of it: connect() ends    *)
(* connected or not, disconnect() reports "disconnected" a while later.    *)
(***************************************************************************)
EXTENDS Integers, Sequences

CONSTANTS
    Fails,          \* rungs that never connect on this network
    Condemnable,    \* rungs whose probe may find no circuit
    Good,           \* rungs that connect and are verified
    Acts,           \* disturbances: "drop", "escalate", "background", "restart", "network"
    MaxAct,         \* bound on disturbances
    QuickConnect    \* whether a connect may end before the 1.5 s retry timer fires

Direct == 1         \* AUTO_LADDER: direct, obfs4, fetched webtunnel, snowflake
Obfs4 == 2
WebTunnel == 3
Snowflake == 4
Rung == Direct..Snowflake

LadderAssumption ==
    /\ Fails \subseteq Rung /\ Condemnable \subseteq Rung /\ Good \subseteq Rung
    /\ Good \intersect (Fails \union Condemnable) = {}
    /\ Acts \subseteq {"drop", "escalate", "background", "restart", "network"}
    /\ MaxAct \in Nat /\ QuickConnect \in BOOLEAN

\* BRIDGE_LADDER, which orders the bridges another way.
tierOf(r) == CASE r = Direct -> -1 [] r = WebTunnel -> 0 [] r = Obfs4 -> 1 [] OTHER -> 2

VARIABLES
    tor,            \* the manager's state
    live,           \* whether it holds a proxy
    rung,           \* the transport of its last connect
    maybe,          \* backendMaybeRunning: a disconnect() has something to stop
    stopping,       \* who awaits the native stops under way, in their order
    quick,          \* whose disconnect() has nothing to wait for
    cascade,        \* where connectGuided() is: the rung (0: the warm entry) and the step
    desired,        \* desiredConnected
    dormant,
    rerun,          \* rerunRequested
    retry,          \* retryTimer is set
    dead,           \* deadRungs
    startTier,      \* bridgeStartTier
    activeTier,
    warm,           \* the cached rung of this network class, 0 for none
    legacy,         \* the cached rung without a class
    pend,           \* the rung pendingWarmSave would record
    probed,         \* the connected transport has its verdict
    proven,         \* history: rungs a verdict confirmed
    left,           \* history: the rung the last escalation gave up, 0 for none
    acts

conn == <<tor, live, rung, maybe, stopping, quick>>
stops == <<maybe, stopping, quick>>
memory == <<dead, startTier, activeTier, warm, legacy, pend>>
vars == <<conn, cascade, desired, dormant, rerun, retry, memory, probed, proven, left, acts>>

Idle == [at |-> 0, step |-> "idle"]
At(i, step) == [at |-> i, step |-> step]
Running == cascade.step # "idle"

\* These steps follow the previous one without giving way to timers, events or the member.
\* A disconnect() with nothing to wait for reports before anything else happens.
Yields == cascade.step \notin {"walk", "failed", "exhausted"} /\ quick = {}
Turn(step) == cascade.step = step /\ quick = {}

Init ==
    /\ tor = "disconnected" /\ live = FALSE /\ rung = Direct /\ maybe = TRUE
    /\ stopping = <<>> /\ quick = {}
    /\ cascade = At(0, "begin") /\ desired = TRUE /\ dormant = FALSE /\ rerun = FALSE
    /\ retry = FALSE /\ dead = {} /\ startTier = -1 /\ activeTier = -1
    /\ warm = 0 /\ legacy \in {0} \union (Rung \ Fails) /\ pend = 0
    /\ probed = FALSE /\ proven = {} /\ left = 0 /\ acts = 0

-----------------------------------------------------------------------------
\* manager.onChange: a drop while a connection is wanted arms the retry.
WillRetryOfflineOnly(state) ==
    retry \/ (state = "offline" /\ state # tor /\ desired /\ ~dormant)
WillRetry(state) ==
    retry \/ (state \in {"offline", "disconnected"} /\ state # tor /\ desired /\ ~dormant)

\* manager.disconnect(): the proxy goes at once, the report when the stop has answered.
Disconnect(who) ==
    /\ live' = FALSE /\ maybe' = FALSE
    /\ stopping' = IF maybe THEN Append(stopping, who) ELSE stopping
    /\ quick' = IF maybe THEN quick ELSE quick \union {who}

\* It releases the attempt under way.
Released == IF cascade.step = "await" THEN At(cascade.at, "failed") ELSE cascade

\* The next rung of the walk, or the end of the ladder.
nextRung(i) == IF i + 1 \in Rung THEN At(i + 1, "walk") ELSE At(i, "exhausted")
bridgeStartTierToRung == IF startTier < 0 THEN Direct ELSE Obfs4

\* runCascade(): dropped while one runs, or while no connection is wanted.
RunCascade == IF Running \/ ~desired \/ dormant THEN cascade ELSE At(0, "begin")

\* connectGuided() returns; runCascade() loops once more when new settings came in meanwhile.
Finish ==
    IF rerun /\ desired
    THEN IF tor = "connected"
         THEN cascade' = At(0, "redo") /\ Disconnect("cascade")
         ELSE cascade' = At(0, "begin") /\ UNCHANGED <<live, stops>>
    ELSE cascade' = Idle /\ UNCHANGED <<live, stops>>

\* The warm entry, unless direct was given up or its rung condemned.
WarmRung ==
    LET w == IF warm # 0 THEN warm ELSE legacy
    IN  IF (startTier >= 0 /\ w = Direct) \/ w \in dead THEN 0 ELSE w

\* The rung is connected: remember it, and have it recorded once verified.  The warm entry
\* records nothing.
ConnectedTierKept(r, i) ==
    /\ pend' = IF i = 0 THEN pend ELSE r
    /\ UNCHANGED <<dead, startTier, activeTier, warm, legacy>>
Connected(r, i) ==
    /\ activeTier' = tierOf(r)
    /\ pend' = IF i = 0 THEN pend ELSE r
    /\ UNCHANGED <<dead, startTier, warm, legacy>>

\* Dial rung r as entry i; manager.connect() returns at once when the state says connected.
Dial(r, i) ==
    IF tor = "connected"
    THEN Connected(r, i) /\ Finish /\ UNCHANGED <<tor, rung, probed>>
    ELSE /\ tor' = "trying" /\ live' = FALSE /\ rung' = r /\ probed' = FALSE
         /\ maybe' = TRUE
         /\ cascade' = At(i, "await") /\ UNCHANGED <<stopping, quick, memory>>

Begin ==
    /\ Turn("begin") /\ rerun' = FALSE
    /\ IF desired /\ WarmRung # 0
       THEN Dial(WarmRung, 0)
       ELSE /\ cascade' = IF desired THEN At(bridgeStartTierToRung, "walk") ELSE Idle
            /\ UNCHANGED <<conn, memory, probed>>
    /\ UNCHANGED <<desired, dormant, retry, proven, left, acts>>

\* A rung of the cold walk: condemned ones are passed by, bridges may have to be fetched first.
WalkAll ==
    /\ Turn("walk") /\ desired /\ Dial(cascade.at, cascade.at)
    /\ UNCHANGED <<desired, dormant, rerun, retry, proven, left, acts>>
Walk ==
    /\ Turn("walk")
    /\ \/ ~desired /\ Finish /\ UNCHANGED <<tor, rung, memory, probed>>
       \/ /\ desired /\ cascade.at \in dead \union {WebTunnel}
          /\ cascade' = IF cascade.at \in dead THEN nextRung(cascade.at) ELSE At(WebTunnel, "fetch")
          /\ UNCHANGED <<conn, memory, probed>>
       \/ desired /\ cascade.at \notin dead \union {WebTunnel} /\ Dial(cascade.at, cascade.at)
    /\ UNCHANGED <<desired, dormant, rerun, retry, proven, left, acts>>

\* The fetch ends, with bridges or without.
Fetch ==
    /\ Turn("fetch")
    /\ \/ ~desired /\ Finish /\ UNCHANGED <<tor, rung, memory, probed>>
       \/ desired /\ cascade' = nextRung(WebTunnel) /\ UNCHANGED <<conn, memory, probed>>
       \/ desired /\ Dial(WebTunnel, WebTunnel)
    /\ UNCHANGED <<desired, dormant, rerun, retry, proven, left, acts>>

\* The native side starts what was asked for once the stops before it are done, long before the
\* attempt's deadline.
Heard == Turn("await") /\ stopping = <<>>

ConnectSucceeds ==
    /\ Heard /\ rung \notin Fails /\ (QuickConnect \/ ~retry)
    /\ tor' = "connected" /\ Connected(rung, cascade.at)
    /\ IF rerun /\ desired
       THEN cascade' = At(0, "redo") /\ Disconnect("cascade")
       ELSE cascade' = Idle /\ live' = TRUE /\ UNCHANGED stops
    /\ UNCHANGED <<rung, desired, dormant, rerun, retry, probed, proven, left, acts>>

\* The attempt reports an error, runs into its deadline (and is stopped), or, in the cold walk,
\* its ceiling fires while it goes on.
ConnectFails ==
    /\ Heard /\ rung \notin Good
    /\ \/ tor' = "offline" /\ retry' = WillRetry("offline") /\ UNCHANGED stops
       \/ /\ tor' = "offline" /\ retry' = WillRetry("offline") /\ UNCHANGED quick
          /\ maybe' = FALSE /\ stopping' = Append(stopping, "nobody")
       \/ cascade.at # 0 /\ UNCHANGED <<tor, retry, stops>>
    /\ cascade' = At(cascade.at, "failed")
    /\ UNCHANGED <<live, rung, desired, dormant, rerun, memory, probed, proven, left, acts>>

\* The rung is torn down before the next; a warm entry that failed is forgotten.
Failed ==
    /\ Turn("failed")
    /\ IF ~desired
       THEN Finish /\ UNCHANGED warm
       ELSE /\ cascade' = At(cascade.at, "teardown") /\ Disconnect("cascade")
            /\ warm' = IF cascade.at = 0 THEN 0 ELSE warm
    /\ UNCHANGED <<tor, rung, desired, dormant, rerun, retry, dead, startTier, activeTier, legacy,
                   pend, probed, proven, left, acts>>

\* Past the last rung the condemned ones are forgiven.
Exhausted ==
    /\ Turn("exhausted") /\ dead' = {} /\ Finish
    /\ UNCHANGED <<tor, rung, desired, dormant, rerun, retry, startTier, activeTier, warm, legacy,
                   pend, probed, proven, left, acts>>

\* A disconnect() completes.
StopDone(who) ==
    /\ \/ who \in quick /\ quick' = quick \ {who} /\ UNCHANGED stopping
       \/ /\ Yields /\ stopping # <<>> /\ Head(stopping) = who
          /\ stopping' = Tail(stopping) /\ UNCHANGED quick
    /\ tor' = "disconnected" /\ live' = FALSE /\ retry' = WillRetry("disconnected")
    /\ cascade' = CASE who = "member" -> RunCascade
                    [] who = "cascade" /\ cascade.step = "redo" -> At(0, "begin")
                    [] who = "cascade" /\ cascade.step = "teardown" ->
                         IF ~desired THEN Idle
                         ELSE IF cascade.at = 0 THEN At(bridgeStartTierToRung, "walk")
                         ELSE nextRung(cascade.at)
                    [] OTHER -> cascade
    /\ UNCHANGED <<rung, maybe, desired, dormant, rerun, memory, probed, proven, left, acts>>

\* A stop nobody awaits.
StopUnheard ==
    /\ Yields /\ stopping # <<>> /\ Head(stopping) = "nobody" /\ stopping' = Tail(stopping)
    /\ UNCHANGED <<tor, live, rung, maybe, quick, cascade, desired, dormant, rerun, retry, memory,
                   probed, proven, left, acts>>

RetryFires ==
    /\ Yields /\ retry /\ retry' = FALSE /\ cascade' = RunCascade
    /\ UNCHANGED <<conn, desired, dormant, rerun, memory, probed, proven, left, acts>>

Act(kind) == Yields /\ kind \in Acts /\ acts < MaxAct /\ acts' = acts + 1

-----------------------------------------------------------------------------
(* Verdicts on the connected transport. *)

\* onReach(true): the pending entry is recorded.
Verified ==
    /\ Yields /\ tor = "connected" /\ live /\ ~probed /\ probed' = TRUE
    /\ warm' = IF pend # 0 THEN pend ELSE warm
    /\ pend' = 0 /\ proven' = proven \union {rung}
    /\ UNCHANGED <<conn, cascade, desired, dormant, rerun, retry, dead, startTier, activeTier,
                   legacy, left, acts>>

\* onReach(false): the rung is condemned before the state goes offline.
Condemned ==
    /\ Yields /\ tor = "connected" /\ live /\ ~probed /\ rung \in Condemnable
    /\ probed' = TRUE /\ pend' = 0 /\ dead' = dead \union {rung}
    /\ startTier' = IF rung = Direct /\ startTier < 0 THEN 0 ELSE startTier
    /\ warm' = 0 /\ legacy' = IF legacy = rung THEN 0 ELSE legacy
    /\ tor' = "offline" /\ live' = FALSE /\ retry' = WillRetry("offline")
    /\ maybe' = FALSE /\ stopping' = IF maybe THEN Append(stopping, "nobody") ELSE stopping
    /\ UNCHANGED <<rung, quick, cascade, desired, dormant, rerun, activeTier, proven, left, acts>>

\* onRelayDown: the relay stayed unreachable over this transport; climb to the next tier.
Escalate ==
    LET next == activeTier + 1 IN
    /\ Act("escalate") /\ tor = "connected" /\ live /\ ~dormant
    /\ next <= tierOf(Snowflake) /\ next > startTier
    /\ startTier' = next /\ legacy' = 0 /\ left' = rung
    /\ Disconnect("member") /\ cascade' = Released
    /\ UNCHANGED <<tor, rung, desired, dormant, rerun, retry, dead, activeTier, warm, pend, probed,
                   proven>>

-----------------------------------------------------------------------------
(* The system and the member. *)

\* The transport dies under the manager.
DropLink ==
    /\ Act("drop") /\ tor = "connected" /\ live
    /\ tor' = "offline" /\ live' = FALSE /\ retry' = WillRetry("offline")
    /\ UNCHANGED <<rung, stops, cascade, desired, dormant, rerun, memory, probed, proven, left>>

\* enter(): idle a live daemon, tear down anything else.
Background ==
    /\ Act("background") /\ desired /\ ~dormant
    /\ IF live
       THEN dormant' = TRUE /\ UNCHANGED <<desired, retry, live, stops, cascade>>
       ELSE /\ desired' = FALSE /\ retry' = FALSE /\ UNCHANGED dormant
            /\ Disconnect("teardown") /\ cascade' = Released
    /\ UNCHANGED <<tor, rung, rerun, memory, probed, proven, left>>

\* The AppState handler and exit().
ForegroundRelayOnly ==
    /\ Yields /\ (~desired \/ dormant)
    /\ desired' = TRUE /\ dormant' = FALSE
    /\ UNCHANGED <<conn, cascade, rerun, retry, memory, probed, proven, left, acts>>
Foreground ==
    /\ Yields /\ (~desired \/ dormant)
    /\ desired' = TRUE /\ dormant' = FALSE
    /\ cascade' = IF live \/ Running THEN cascade ELSE At(0, "begin")
    /\ UNCHANGED <<conn, rerun, retry, memory, probed, proven, left, acts>>

\* applyTorPrefs, or a restart for another credential (which keeps the session's memory).
Restart ==
    /\ Act("restart") /\ rerun' = Running /\ Disconnect("member") /\ cascade' = Released
    /\ \/ startTier' = -1 /\ dead' = {} /\ activeTier' = -1 /\ desired' = TRUE
       \/ UNCHANGED <<startTier, dead, activeTier, desired>>
    /\ UNCHANGED <<tor, rung, dormant, retry, warm, legacy, pend, probed, proven, left>>

\* A new default network lifts the session's verdicts; it starts no cascade.
NetworkChange ==
    /\ Act("network") /\ startTier' = -1 /\ dead' = {} /\ left' = 0
    /\ UNCHANGED <<conn, cascade, desired, dormant, rerun, retry, activeTier, warm, legacy, pend,
                   probed, proven>>

Step ==
    \/ Begin \/ Walk \/ Fetch \/ Failed \/ Exhausted
Stopped == StopUnheard \/ \E who \in {"cascade", "member", "teardown"} : StopDone(who)
Outcome == ConnectSucceeds \/ ConnectFails
Judged == Verified \/ Condemned
Next ==
    \/ Begin \/ Walk \/ Fetch \/ ConnectSucceeds \/ ConnectFails \/ Failed \/ Exhausted
    \/ \E who \in {"cascade", "member", "teardown"} : StopDone(who)
    \/ StopUnheard \/ RetryFires \/ Verified \/ Condemned \/ Escalate
    \/ DropLink \/ Background \/ Foreground \/ Restart \/ NetworkChange

Spec == Init /\ [][Next]_vars

-----------------------------------------------------------------------------
(* Values the ladder's state can take. *)
TypeOK ==
    /\ tor \in {"disconnected", "offline", "trying", "connected"} /\ live \in BOOLEAN
    /\ rung \in Rung /\ quick \subseteq {"cascade", "member", "teardown"}
    /\ cascade.at \in {0} \union Rung
    /\ {desired, dormant, rerun, retry, probed} \subseteq BOOLEAN
    /\ dead \subseteq Condemnable /\ startTier \in -1..2 /\ activeTier \in -1..2
    /\ {warm, legacy, pend} \subseteq {0} \union Rung /\ proven \subseteq Rung

Down == tor \in {"offline", "disconnected"}

(* While a connection is wanted and there is none, something will try again: a cascade runs, a *)
(* disconnect is about to report, or the retry timer is set. *)
RetryOwed == desired /\ ~dormant /\ Down => Running \/ stopping # <<>> \/ quick # {} \/ retry

(* The ladder position that escalation starts from is that of the transport in use. *)
TierTrue == tor = "connected" /\ live /\ ~Running => activeTier = tierOf(rung)

(* A transport condemned for the session is not used again in it. *)
NotOnCondemned == tor = "connected" /\ live => rung \notin dead

(* The cache names only transports that a verdict confirmed. *)
WarmProven == warm # 0 => warm \in proven

(* Escalation moves on: the connection that follows is over another transport. *)
EscalationMoves == left # 0 /\ tor = "connected" /\ live => rung # left

(* Connected whenever a connection is wanted; with one working transport, disturbances that *)
(* end and a member who keeps the app open, this comes to hold and stays. *)
UpWhenWanted == desired /\ ~dormant => tor = "connected" /\ live
=============================================================================
