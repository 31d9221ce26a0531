----------------------------- MODULE TorManager -----------------------------
(***************************************************************************)
(* The transport authority: client/src/tor/TorManager.ts over the native   *)
(* module (StiqArtiModule.kt and arti-ffi/src/lib.rs).                     *)
(*                                                                         *)
(* connect(), disconnect() and installReach() may be called at any time.   *)
(* The native side runs start, install and stop one after another on one   *)
(* thread, a start holding the thread until bootstrap ends; its status     *)
(* events and the answers to the calls reach JavaScript in order and later,*)
(* and carry no attempt id.                                                *)
(***************************************************************************)
EXTENDS Integers, Sequences

CONSTANTS
    Cred,           \* reach credentials of the communities
    MaxCall,        \* bound on calls of connect() and disconnect()
    MaxBoot,        \* bound on progress lines of one start
    MaxInstall,     \* bound on calls of installReach()
    Overlap         \* whether connect() may be called while another is unresolved

TorAssumption ==
    /\ Cred # {} /\ MaxCall \in Nat /\ MaxBoot \in Nat /\ MaxInstall \in Nat /\ Overlap \in BOOLEAN

VARIABLES
    st,             \* TorManager.state
    socks,          \* the start whose proxy the manager holds, 0 for null
    gen,            \* generation
    subs,           \* attempts with a backend subscription
    own,            \* the attempt unsubscribeBackend belongs to
    timer,          \* the attempt timeoutHandle belongs to, 0 for none
    inflight,       \* the attempt releaseInFlight belongs to, 0 for none
    maybe,          \* backendMaybeRunning
    conf,           \* configuredOnionAuth
    want,           \* what resolveOnionAuth() answers: the active community's credential
    result,         \* what each connect() resolved to
    last,           \* the last call made
    ops,            \* the lifecycle executor's queue
    booting,        \* the start that holds the executor, with its progress lines, 0 for none
    live,           \* the client in handle_slot: its start and its credential
    ev,             \* events and answers on their way to JavaScript
    calls, installs

manager == <<st, socks, gen, subs, own, timer, inflight, maybe, conf, result>>
native == <<ops, booting, live>>
vars == <<manager, want, last, native, ev, calls, installs>>

Attempt == 1..MaxCall
NoClient == [by |-> 0, cred |-> CHOOSE c \in Cred : TRUE, probe |-> FALSE]
Idle == [by |-> 0, cred |-> CHOOSE c \in Cred : TRUE, lines |-> 0]

Init ==
    /\ st = "disconnected" /\ socks = 0 /\ gen = 0 /\ subs = {} /\ own = 0 /\ timer = 0
    /\ inflight = 0 /\ maybe = TRUE /\ result = [g \in Attempt |-> "none"]
    /\ want \in Cred /\ conf = want /\ last = "none"
    /\ ops = <<>> /\ booting = Idle /\ live = NoClient /\ ev = <<>> /\ calls = 0 /\ installs = 0

-----------------------------------------------------------------------------
(* The native module. *)

\* Calls wait for the one thread, in the order they were made.
Queue(call) == ops' = Append(ops, call)
Event(kind, by) == [kind |-> kind, by |-> by, then |-> 0]
Answer(kind, then) == [kind |-> kind, by |-> 0, then |-> then]
Emit(es) == ev' = ev \o es

\* arti_start(): refused while a client is live, else it holds the thread.
BeginStart ==
    /\ booting.by = 0 /\ ops # <<>> /\ Head(ops).op = "start" /\ ops' = Tail(ops)
    /\ IF live.by # 0
       THEN Emit(<<Event("error", Head(ops).by)>>) /\ UNCHANGED booting
       ELSE booting' = [by |-> Head(ops).by, cred |-> Head(ops).cred, lines |-> 0] /\ UNCHANGED ev
    /\ UNCHANGED <<manager, want, last, live, calls, installs>>

Progress ==
    /\ booting.by # 0 /\ booting.lines < MaxBoot
    /\ booting' = [booting EXCEPT !.lines = @ + 1]
    /\ Emit(<<Event("bootstrapping", booting.by)>>)
    /\ UNCHANGED <<manager, want, last, ops, live, calls, installs>>

\* Bootstrap ends: a client that announces itself and is probed, or an error.
EndStart ==
    /\ booting.by # 0 /\ booting' = Idle
    /\ \/ /\ live' = [by |-> booting.by, cred |-> booting.cred, probe |-> TRUE]
          /\ Emit(<<Event("connected", booting.by)>>)
       \/ Emit(<<Event("error", booting.by)>>) /\ UNCHANGED live
    /\ UNCHANGED <<manager, want, last, ops, calls, installs>>

\* The background probe of a live client, once.
Verdict ==
    /\ live.by # 0 /\ live.probe /\ live' = [live EXCEPT !.probe = FALSE]
    /\ \E kind \in {"verified", "transport-dead"} : Emit(<<Event(kind, live.by)>>)
    /\ UNCHANGED <<manager, want, last, ops, booting, calls, installs>>

\* arti_install_auth(): the credential goes into the live client, or it fails aloud.  In the
\* answer, "by" is the credential.
RunInstall ==
    /\ booting.by = 0 /\ ops # <<>> /\ Head(ops).op = "install" /\ ops' = Tail(ops)
    /\ \/ /\ live.by # 0 /\ live' = [live EXCEPT !.cred = Head(ops).cred]
          /\ Emit(<<[Answer("installed", 0) EXCEPT !.by = Head(ops).cred]>>)
       \/ Emit(<<Event("error", live.by)>>) /\ UNCHANGED live
    /\ UNCHANGED <<manager, want, last, booting, calls, installs>>

\* arti_stop() drops the client and its probe, then answers.
RunStop ==
    /\ booting.by = 0 /\ ops # <<>> /\ Head(ops).op = "stop" /\ ops' = Tail(ops)
    /\ live' = NoClient
    /\ Emit(<<Event("stopped", live.by), Answer("stopResolved", Head(ops).then)>>)
    /\ UNCHANGED <<manager, want, last, booting, calls, installs>>

-----------------------------------------------------------------------------
(* The manager.  A stop's continuation: -1 nobody waits, 0 a disconnect(), *)
(* g > 0 the connect() of attempt g.                                       *)

StopBackendIfRunning(then) ==
    /\ maybe' = FALSE
    /\ IF maybe THEN Queue([op |-> "stop", by |-> 0, cred |-> conf, then |-> then])
                ELSE UNCHANGED ops

\* supersede() as seen by what follows it: the subscription dropped, the promise released.
Kept == subs \ {own}
Released == IF inflight = 0 THEN result ELSE [result EXCEPT ![inflight] = "disconnected"]

LaunchFlagKept(g, ss, res) ==
    /\ conf' = want /\ inflight' = g /\ subs' = ss \union {g} /\ own' = g /\ timer' = g
    /\ result' = [res EXCEPT ![g] = "pending"]
    /\ st' = "starting-tor" /\ UNCHANGED <<socks, maybe>>
    /\ Queue([op |-> "start", by |-> g, cred |-> want, then |-> -1])
LaunchUnarmed(g, ss, res) ==
    /\ conf' = want /\ inflight' = g /\ subs' = ss \union {g} /\ own' = g /\ timer' = 0
    /\ result' = [res EXCEPT ![g] = "pending"]
    /\ st' = "starting-tor" /\ maybe' = TRUE /\ UNCHANGED socks
    /\ Queue([op |-> "start", by |-> g, cred |-> want, then |-> -1])
LaunchStaleAuth(g, ss, res) ==
    /\ inflight' = g /\ subs' = ss \union {g} /\ own' = g /\ timer' = g
    /\ result' = [res EXCEPT ![g] = "pending"]
    /\ st' = "starting-tor" /\ maybe' = TRUE /\ UNCHANGED <<socks, conf>>
    /\ Queue([op |-> "start", by |-> g, cred |-> want, then |-> -1])
\* connect() from the resolving of its options on; it does not look at the generation again.
Launch(g, ss, res) ==
    /\ conf' = want
    /\ inflight' = g /\ subs' = ss \union {g} /\ own' = g /\ timer' = g
    /\ result' = [res EXCEPT ![g] = "pending"]
    /\ st' = "starting-tor" /\ maybe' = TRUE
    /\ Queue([op |-> "start", by |-> g, cred |-> want, then |-> -1])
    /\ UNCHANGED socks

Connect ==
    /\ calls < MaxCall /\ calls' = calls + 1
    /\ Overlap \/ \A g \in Attempt : result[g] # "pending"
    /\ last' = "connect"
    /\ \/ st = "connected" /\ UNCHANGED <<manager, ops>>
       \/ /\ st # "connected" /\ gen' = gen + 1
          /\ IF inflight # 0 /\ maybe
             THEN /\ StopBackendIfRunning(gen + 1)
                  /\ subs' = Kept /\ own' = 0 /\ timer' = 0 /\ inflight' = 0
                  /\ result' = [Released EXCEPT ![gen + 1] = "pending"]
                  /\ UNCHANGED <<st, socks, conf>>
             ELSE Launch(gen + 1, Kept, Released)
    /\ UNCHANGED <<want, booting, live, ev, installs>>

DisconnectSilent ==
    /\ calls < MaxCall /\ calls' = calls + 1 /\ last' = "disconnect"
    /\ gen' = gen + 1 /\ subs' = Kept /\ own' = 0 /\ timer' = 0 /\ inflight' = 0
    /\ result' = Released
    /\ StopBackendIfRunning(-1)
    /\ socks' = 0 /\ UNCHANGED <<st, conf, want, booting, live, ev, installs>>
DisconnectUnfenced ==
    /\ calls < MaxCall /\ calls' = calls + 1 /\ last' = "disconnect"
    /\ socks' = 0 /\ StopBackendIfRunning(0)
    /\ st' = IF maybe THEN st ELSE "disconnected"
    /\ UNCHANGED <<gen, subs, own, timer, inflight, result, conf, want, booting, live, ev, installs>>
\* The state becomes "disconnected" when the stop has answered, or at once.
Disconnect ==
    /\ calls < MaxCall /\ calls' = calls + 1 /\ last' = "disconnect"
    /\ gen' = gen + 1 /\ subs' = Kept /\ own' = 0 /\ timer' = 0 /\ inflight' = 0
    /\ result' = Released /\ socks' = 0
    /\ StopBackendIfRunning(0)
    /\ st' = IF maybe THEN st ELSE "disconnected"
    /\ UNCHANGED <<conf, want, booting, live, ev, installs>>

\* installReach(): the answer is applied whatever happened meanwhile.
InstallReach ==
    /\ installs < MaxInstall /\ installs' = installs + 1 /\ st = "connected"
    /\ Queue([op |-> "install", by |-> 0, cred |-> want, then |-> -1])
    /\ UNCHANGED <<manager, want, last, booting, live, ev, calls>>

\* The member opens another community, whose credential the resolver then answers.
Switch ==
    /\ want' \in Cred \ {want}
    /\ UNCHANGED <<manager, last, native, ev, calls, installs>>

\* settle() of the current attempt.
Settle(final) ==
    /\ timer' = 0 /\ inflight' = 0
    /\ result' = IF inflight = gen THEN [result EXCEPT ![gen] = final] ELSE result

\* The no-progress deadline.
Timeout ==
    /\ timer # 0
    /\ IF timer = gen
       THEN /\ st' = "offline" /\ socks' = 0 /\ Settle("offline") /\ StopBackendIfRunning(-1)
       ELSE timer' = 0 /\ UNCHANGED <<st, socks, inflight, result, maybe, ops>>
    /\ UNCHANGED <<gen, subs, own, conf, want, last, booting, live, ev, calls, installs>>

eventToState(kind) ==
    CASE kind = "bootstrapping" -> "connecting-bridge"
      [] kind = "connected" -> "connected"
      [] kind = "stopped" -> "disconnected"
      [] OTHER -> "offline"

\* What the subscription of the current attempt does with an event.
OnEvent(e) ==
    \/ e.kind = "verified" /\ UNCHANGED <<st, socks, timer, inflight, maybe, result, ops>>
    \/ /\ e.kind = "transport-dead" /\ socks' = 0 /\ st' = "offline" /\ StopBackendIfRunning(-1)
       /\ UNCHANGED <<timer, inflight, result>>
    \/ /\ e.kind = "bootstrapping"
       /\ IF st = "connected" THEN UNCHANGED <<st, timer>>
                              ELSE st' = eventToState(e.kind) /\ timer' = gen
       /\ UNCHANGED <<socks, inflight, maybe, result, ops>>
    \/ /\ e.kind = "connected" /\ socks' = e.by /\ st' = eventToState(e.kind)
       /\ Settle("connected") /\ UNCHANGED <<maybe, ops>>
    \/ /\ e.kind = "stopped" /\ st' = eventToState(e.kind)
       /\ UNCHANGED <<socks, timer, inflight, maybe, result, ops>>
    \/ /\ e.kind = "error" /\ socks' = 0 /\ st' = eventToState(e.kind)
       /\ Settle("offline") /\ UNCHANGED <<maybe, ops>>

\* Every subscription receives the event; that of a superseded attempt ignores it.
DeliverEvent ==
    /\ ev # <<>> /\ Head(ev).kind \notin {"stopResolved", "installed"} /\ ev' = Tail(ev)
    /\ IF gen \in subs THEN OnEvent(Head(ev))
                       ELSE UNCHANGED <<st, socks, timer, inflight, maybe, result, ops>>
    /\ UNCHANGED <<gen, subs, own, conf, want, last, booting, live, calls, installs>>

DeliverStop ==
    /\ ev # <<>> /\ Head(ev).kind = "stopResolved" /\ ev' = Tail(ev)
    /\ LET then == Head(ev).then IN
       CASE then = -1 -> UNCHANGED <<manager, ops>>
         [] then = 0 -> st' = "disconnected"
                        /\ UNCHANGED <<socks, gen, subs, own, timer, inflight, maybe, conf, result, ops>>
         [] OTHER -> Launch(then, subs, result) /\ UNCHANGED gen
    /\ UNCHANGED <<want, last, booting, live, calls, installs>>

DeliverInstall ==
    /\ ev # <<>> /\ Head(ev).kind = "installed" /\ ev' = Tail(ev)
    /\ conf' = Head(ev).by
    /\ UNCHANGED <<st, socks, gen, subs, own, timer, inflight, maybe, result, want, last, native,
                   calls, installs>>

Deliver == DeliverEvent \/ DeliverStop \/ DeliverInstall
Executor == BeginStart \/ RunInstall \/ RunStop
Next ==
    \/ Connect \/ Disconnect \/ InstallReach \/ Switch
    \/ Timeout \/ DeliverEvent \/ DeliverStop \/ DeliverInstall
    \/ BeginStart \/ RunInstall \/ RunStop \/ Progress \/ EndStart \/ Verdict

Spec == Init /\ [][Next]_vars

\* JavaScript timers fire, the bridge delivers, the executor takes its next call; nothing
\* bounds how long a bootstrap may take.
LiveSpec == Spec /\ WF_vars(Timeout) /\ WF_vars(Deliver) /\ WF_vars(Executor)

\* The same with bootstraps that end.
FairSpec == LiveSpec /\ WF_vars(EndStart)

-----------------------------------------------------------------------------
State == {"disconnected", "starting-tor", "connecting-bridge", "connected", "offline"}
Resolution == {"none", "pending", "connected", "offline", "disconnected"}

(* Values the manager's state can take. *)
TypeOK ==
    /\ st \in State /\ socks \in 0..MaxCall /\ gen \in 0..MaxCall /\ subs \subseteq Attempt
    /\ {own, timer, inflight} \subseteq 0..MaxCall /\ maybe \in BOOLEAN
    /\ conf \in Cred /\ want \in Cred /\ result \in [Attempt -> Resolution]
    /\ live.by \in 0..MaxCall /\ booting.by \in 0..MaxCall

Await(then) ==
    \/ \E i \in DOMAIN ops : ops[i].op = "stop" /\ ops[i].then = then
    \/ \E i \in DOMAIN ev : ev[i].kind = "stopResolved" /\ ev[i].then = then

(* The state says connected without a proxy only while a disconnect() waits for its stop: the *)
(* window the comment on isLive() describes is the only one. *)
ConnectedHasProxy == st = "connected" /\ socks = 0 => Await(0)

(* A stop is skipped only when it is not needed: once the flag is down and the native thread has *)
(* nothing left to do, no client is running. *)
SkippedStopSafe == ~maybe /\ ops = <<>> /\ booting.by = 0 => live.by = 0

(* An attempt whose promise is unresolved has its deadline armed, so a bootstrap that stalls *)
(* cannot leave the caller waiting. *)
DeadlineArmed == \A g \in Attempt : result[g] = "pending" => timer = g /\ inflight = g

(* A disconnect() that nothing followed leaves the manager disconnected once its stop answered: *)
(* an attempt that was under way does not undo it. *)
DisconnectSticks == last = "disconnect" /\ ~Await(0) => st = "disconnected"

(* The manager never takes the client of an abandoned attempt for that of the current one. *)
ConnectedByOwn == st = "connected" /\ socks # 0 => socks = gen

(* The credential the manager reports as configured is the one the client it is connected *)
(* through holds. *)
AuthTruth == st = "connected" /\ socks = gen /\ live.by = gen => conf = live.cred

(* Every connect() resolves, however long the native side takes. *)
EveryConnectResolves == \A g \in Attempt : result[g] = "pending" ~> result[g] # "pending"

(* Every disconnect() completes, however long a bootstrap takes. *)
DisconnectCompletes == Await(0) ~> ~Await(0)
=============================================================================
