------------------------------- MODULE Outbox -------------------------------
(***************************************************************************)
(* Delivery of optimistic writes: client/src/nostr/outbox.ts and, in       *)
(* client/src/app/AppRuntime.ts, publishOptimistic(), deliver() with its   *)
(* resend ladder, advanceBlobDependents(), confirmDelivery(), the flush of *)
(* onRelayConnected(), Retry and Cancel.                                   *)
(*                                                                         *)
(* A signed event is queued, persisted and sent in the background until    *)
(* the relay answers.  A post names the media blobs its body shows; it is  *)
(* not sent before they have landed.  Answers may be lost, the relay may   *)
(* say no, and the process may be killed at any point.                     *)
(***************************************************************************)
EXTENDS Integers, FiniteSets

CONSTANTS
    Event,
    DependsOn,      \* DependsOn[p]: the blobs post p names
    MaxResend,      \* length of RESEND_BACKOFF_MS
    MaxKill,        \* bound on kills
    MemberActs,     \* whether the member may tap Retry and Cancel
    EarlyFlush,     \* whether a connection may come up while add() still writes
    RelayVerdicts   \* what the relay may answer besides OK: "no" (for good), "later"

Post == {e \in Event : DependsOn[e] # {} \/ \A p \in Event : e \notin DependsOn[p]}

OutboxAssumption ==
    /\ DependsOn \in [Event -> SUBSET Event]
    /\ \A p \in Event : \A b \in DependsOn[p] : DependsOn[b] = {}
    /\ MaxResend \in Nat /\ MaxKill \in Nat /\ MemberActs \in BOOLEAN
    /\ EarlyFlush \in BOOLEAN /\ RelayVerdicts \subseteq {"no", "later"}

VARIABLES
    entry,          \* Outbox.entries
    disk,           \* what Outbox.persist() last wrote
    added,          \* events whose add() returned
    flight,         \* inFlightDeliveries: the attempt under way, or None
    timer,          \* resendTimers: the attempt to follow, or None
    linger,         \* confirmTimers
    relay,          \* events the relay stores
    announce,       \* announceOnConfirm
    announced,      \* posts counted in _postsDelivered
    cancelled,      \* events the member cancelled
    resent,         \* history: rejected events sent again without the member's Retry
    fresh,          \* no flush since the process started
    kills

vars == <<entry, disk, added, flight, timer, linger, relay, announce, announced, cancelled,
          resent, fresh, kills>>

None == -1
NoEntry == [status |-> "none", offline |-> FALSE]
In(status) == [status |-> status, offline |-> FALSE]
Known(ent, e) == ent[e].status # "none"

Init ==
    /\ entry = [e \in Event |-> NoEntry] /\ disk = entry
    /\ added = {} /\ relay = {} /\ announce = {} /\ announced = {} /\ cancelled = {} /\ resent = {}
    /\ flight = [e \in Event |-> None] /\ timer = flight
    /\ linger = {} /\ fresh = FALSE /\ kills = 0

----------------------------------------------------------------------------
(* deliver().                                                               *)

\* blobsBlocking(): a blob no longer queued was delivered and swept.
BlockingUntilFailed(ent, e) ==
    {b \in DependsOn[e] : Known(ent, e) /\ ent[b].status \in {"sending", "rejected"}}

BlockingUnlessSome(ent, e) ==
    LET held == {b \in DependsOn[e] : Known(ent, e) /\ ent[b].status \in {"sending", "failed", "rejected"}}
    IN  IF held = DependsOn[e] THEN held ELSE {}

Blocking(ent, e) ==
    {b \in DependsOn[e] : Known(ent, e) /\ ent[b].status \in {"sending", "failed", "rejected"}}

\* The events that deliver(), called for each of E, puts in flight: an event that nothing
\* blocks, or else the blobs that block it.
Launched(ent, E) ==
    {e \in E : Blocking(ent, e) = {}} \cup UNION {Blocking(ent, e) : e \in E}

Deliver(ent, fl, E, attempt) ==
    [e \in Event |-> IF e \in Launched(ent, E) /\ fl[e] = None
                     THEN IF e \in E THEN attempt ELSE 0
                     ELSE fl[e]]

Resent(ent, fl, E) == {e \in Launched(ent, E) : fl[e] = None /\ ent[e].status = "rejected"}

\* advanceBlobDependents(), after an attempt for b left the queue as ent: what b's outcome
\* means for the posts that wait for it.
Waiting(ent, b) == {p \in Event : Known(ent, p) /\ b \in DependsOn[p]}

AfterBlob(ent, b) ==
    [p \in Event |->
        IF p \notin Waiting(ent, b) THEN ent[p]
        ELSE IF ent[b].status \in {"rejected", "failed"} THEN [ent[p] EXCEPT !.status = ent[b].status]
        ELSE IF Blocking(ent, p) # {} /\ ent[b] = [status |-> "sending", offline |-> TRUE]
             THEN [status |-> "sending", offline |-> TRUE]
        ELSE ent[p]]

AdvancedNever(ent, b) == {}

Advanced(ent, b) ==
    {p \in Waiting(ent, b) : ent[b].status \notin {"rejected", "failed"} /\ Blocking(ent, p) = {}}

\* An attempt for e ends with the queue as ent and e's resend timer as t.
Ends(e, ent, t) ==
    LET landed == [flight EXCEPT ![e] = None]
        after == AfterBlob(ent, e)
    IN  /\ entry' = after
        /\ flight' = Deliver(after, landed, Advanced(ent, e), 0)
        /\ resent' = resent \cup Resent(after, landed, Advanced(ent, e))
        /\ timer' = [timer EXCEPT ![e] = t]
        /\ UNCHANGED <<disk, added, relay, cancelled, fresh, kills>>

\* Outbox.setStatus() and its kin touch only an entry that is still there.
Marked(e, new) == IF Known(entry, e) THEN [entry EXCEPT ![e] = new] ELSE entry

\* confirmDelivery(): confirmed, announced once if it is a post still queued, swept later.
Confirmed(e) ==
    /\ linger' = linger \cup {e}
    /\ LET told == Known(entry, e) /\ e \in announce
       IN  /\ announced' = IF told THEN announced \cup {e} ELSE announced
           /\ announce' = IF told THEN announce \ {e} ELSE announce

\* scheduleResend().
ResendForever(attempt) == attempt

Resend(attempt) == IF attempt < MaxResend THEN attempt ELSE None

Accepted(e) ==
    /\ flight[e] # None /\ e \in relay
    /\ Confirmed(e)
    /\ Ends(e, Marked(e, In("confirmed")), None)

\* The relay is not connected.
Offline(e) ==
    /\ flight[e] # None
    /\ Ends(e, Marked(e, [status |-> "sending", offline |-> TRUE]), Resend(flight[e]))
    /\ UNCHANGED <<linger, announce, announced>>

\* The relay says no: for good, or not now.
Refused(e, verdict) ==
    /\ flight[e] # None /\ e \notin relay
    /\ Ends(e, Marked(e, In(IF verdict = "no" THEN "rejected" ELSE "failed")), timer[e])
    /\ UNCHANGED <<linger, announce, announced>>

\* No answer: the event may or may not be at the relay.
TimedOutAsDelivered(e) ==
    /\ flight[e] # None
    /\ IF flight[e] < MaxResend
       THEN Ends(e, Marked(e, In("sending")), flight[e]) /\ UNCHANGED <<linger, announce, announced>>
       ELSE Ends(e, Marked(e, In("confirmed")), None) /\ Confirmed(e)

TimedOut(e) ==
    /\ flight[e] # None
    /\ IF flight[e] < MaxResend THEN Ends(e, Marked(e, In("sending")), flight[e])
       ELSE Ends(e, Marked(e, In("failed")), timer[e])
    /\ UNCHANGED <<linger, announce, announced>>

----------------------------------------------------------------------------
(* Who calls it.                                                            *)

Calls(E, attempt, byMember) ==
    /\ flight' = Deliver(entry, flight, E, attempt)
    /\ resent' = IF byMember THEN resent ELSE resent \cup Resent(entry, flight, E)

\* publishOptimistic(), the blobs of a post before the post itself: queue, ...
Settled == \A e \in Event : Known(entry, e) => e \in added

Add(e) ==
    /\ ~Known(entry, e) /\ e \notin added \cup cancelled /\ DependsOn[e] \subseteq added /\ Settled
    /\ entry' = [entry EXCEPT ![e] = In("sending")]
    /\ announce' = IF e \in Post THEN announce \cup {e} ELSE announce
    /\ UNCHANGED <<disk, added, flight, timer, linger, relay, announced, cancelled, resent, fresh, kills>>

\* ... wait for the write, and send.
SentUnwritten(e) ==
    /\ e \notin added /\ Known(entry, e)
    /\ added' = added \cup {e}
    /\ Calls({e}, 0, FALSE)
    /\ UNCHANGED <<entry, disk, timer, linger, relay, announce, announced, cancelled, fresh, kills>>

Sent(e) ==
    /\ e \notin added /\ Known(disk, e)
    /\ added' = added \cup {e}
    /\ Calls({e}, 0, FALSE)
    /\ UNCHANGED <<entry, disk, timer, linger, relay, announce, announced, cancelled, fresh, kills>>

\* Outbox.persist() completes.
Persist ==
    /\ disk # entry
    /\ disk' = entry
    /\ UNCHANGED <<entry, added, flight, timer, linger, relay, announce, announced, cancelled, resent, fresh, kills>>

\* The resend timer of e: nothing, once the event left "sending".
Fire(e) ==
    /\ timer[e] # None
    /\ timer' = [timer EXCEPT ![e] = None]
    /\ IF entry[e].status = "sending" THEN Calls({e}, timer[e] + 1, FALSE) ELSE UNCHANGED <<flight, resent>>
    /\ UNCHANGED <<entry, disk, added, linger, relay, announce, announced, cancelled, fresh, kills>>

\* Outbox.unsent().
Unsent == {e \in Event : entry[e].status \in {"sending", "accepted", "failed"}}

\* onRelayConnected(): the flush.
Flush ==
    /\ EarlyFlush \/ Settled
    /\ fresh' = FALSE
    /\ Calls(Unsent, 0, FALSE)
    /\ UNCHANGED <<entry, disk, added, timer, linger, relay, announce, announced, cancelled, kills>>

\* markEchoed(): the relay hands a post of ours back.
Echo(e) ==
    /\ e \in Post /\ e \in relay /\ Known(entry, e) /\ e \notin linger
    /\ entry' = [entry EXCEPT ![e] = In("confirmed")]
    /\ timer' = [timer EXCEPT ![e] = None]
    /\ Confirmed(e)
    /\ UNCHANGED <<disk, added, flight, relay, cancelled, resent, fresh, kills>>

\* The confirmed ring has lingered: the entry is removed.
Sweep(e) ==
    /\ e \in linger
    /\ linger' = linger \ {e}
    /\ entry' = [entry EXCEPT ![e] = NoEntry]
    /\ UNCHANGED <<disk, added, flight, timer, relay, announce, announced, cancelled, resent, fresh, kills>>

\* retry(), by the member; offered for a failed write only (SendProgress).
Retry(e) ==
    /\ e \in Post /\ e \in added /\ MemberActs
    /\ entry[e].status = "failed"
    /\ Calls({e}, 0, TRUE)
    /\ UNCHANGED <<entry, disk, added, timer, linger, relay, announce, announced, cancelled, fresh, kills>>

\* cancelSend(), offered for a failed or rejected write.
Cancel(e) ==
    /\ e \in Post /\ e \in added /\ MemberActs
    /\ entry[e].status \in {"failed", "rejected"}
    /\ timer' = [timer EXCEPT ![e] = None]
    /\ entry' = [entry EXCEPT ![e] = NoEntry]
    /\ announce' = announce \ {e}
    /\ cancelled' = cancelled \cup {e}
    /\ UNCHANGED <<disk, added, flight, linger, relay, announced, resent, fresh, kills>>

\* The relay stores an event in flight.
RelayStores(e) ==
    /\ flight[e] # None /\ e \notin relay
    /\ relay' = relay \cup {e}
    /\ UNCHANGED <<entry, disk, added, flight, timer, linger, announce, announced, cancelled, resent, fresh, kills>>

\* The process is killed; Outbox.load() restores what was written.
Kill ==
    /\ kills < MaxKill
    /\ kills' = kills + 1 /\ fresh' = TRUE
    /\ entry' = disk
    /\ added' = added \cup {e \in Event : Known(disk, e)}
    /\ flight' = [e \in Event |-> None] /\ timer' = [e \in Event |-> None]
    /\ linger' = {} /\ announce' = {}
    /\ UNCHANGED <<disk, relay, announced, cancelled, resent>>

Next ==
    \/ Persist \/ Flush \/ Kill
    \/ \E e \in Event :
        \/ Add(e) \/ Sent(e) \/ Fire(e) \/ Echo(e) \/ Sweep(e) \/ Retry(e) \/ Cancel(e)
        \/ RelayStores(e) \/ Accepted(e) \/ Offline(e) \/ TimedOut(e)
        \/ \E verdict \in RelayVerdicts : Refused(e, verdict)

Spec == Init /\ [][Next]_vars

----------------------------------------------------------------------------
Status == {"none", "sending", "confirmed", "failed", "rejected"}

TypeOK ==
    /\ entry \in [Event -> [status : Status, offline : BOOLEAN]] /\ disk \in [Event -> [status : Status, offline : BOOLEAN]]
    /\ flight \in [Event -> -1..MaxResend] /\ timer \in [Event -> -1..MaxResend]
    /\ announced \subseteq Post

\* A reader never meets a post whose picture does not exist: whatever is at the relay, the
\* blobs it names are there too (AppRuntime.ts:5190-5206).
BlobsFirst == \A p \in relay : DependsOn[p] \subseteq relay

\* A write that was queued is at the relay, still queued, or cancelled (outbox.ts:9-12).
NothingLost == \A e \in added : e \in relay \/ Known(entry, e) \/ e \in cancelled

\* "Posted" is said only of posts the relay has (AppRuntime.ts:5294-5313).
PostedMeansPosted == announced \subseteq relay

\* A write shown as on its way is on its way: in flight, to be resent, or waiting for a blob that
\* is, or, connectionless, for the next connection (AppRuntime.ts:5129-5138).
Moving(e) ==
    flight[e] # None \/ (entry[e].status = "sending" /\ (timer[e] # None \/ entry[e].offline \/ e \notin added))
NeverSilentlyStuck ==
    \A e \in Event : entry[e].status = "sending" /\ ~fresh =>
        Moving(e) \/ \E b \in DependsOn[e] : Moving(b)

\* outbox.ts:24-26: a rejected event is not sent again unless the member asks.
RejectedNotResent == resent = {}
=============================================================================
