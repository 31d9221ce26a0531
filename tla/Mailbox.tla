------------------------------ MODULE Mailbox ------------------------------
(***************************************************************************)
(* The organizer's mailbox, issuer/mailbox.mjs: how member requests kept   *)
(* by the relay are picked up, served and remembered as served.            *)
(*                                                                         *)
(* A request is claimed (its id enters seen) before its handler runs.  The *)
(* handler works over several awaits, sends the response and waits for the *)
(* relay's OK.  Only the OK (or a deliberate silence) notes the request as *)
(* processed; a lost socket, a refusal or a missing OK releases the claim. *)
(* The notes reach disk in a sidecar written by a debounced timer.  The    *)
(* socket may close, and the process be killed, at any moment.             *)
(*                                                                         *)
(* The relay is external: it keeps requests, replays to a new subscription *)
(* those its since covers, sends a new request to the live one, and        *)
(* acknowledges a request it already has without sending it again.         *)
(***************************************************************************)
EXTENDS Integers, FiniteSets

CONSTANTS
    Request, Junk,      \* requests; those the policy answers with silence
    Drift,              \* a member's clock minus the organizer's, in ticks
    Window,             \* SEEN_WINDOW_SECONDS
    Overlap,            \* SINCE_OVERLAP_SECONDS
    Skew,               \* HIGHWATER_SKEW_SECONDS
    MaxConc,            \* maxConcurrent(); 0: unlimited
    Drops,              \* whether the socket may close
    Track,              \* whether the histories of resends are kept
    MaxNow, MaxCrash    \* bounds on time and on kills

MailboxAssumption ==
    /\ Junk \subseteq Request /\ Drift \subseteq Int
    /\ {Window, Overlap, Skew, MaxConc, MaxNow, MaxCrash} \subseteq Nat
    /\ {Drops, Track} \subseteq BOOLEAN

VARIABLES
    now,
    created,    \* created_at of each request the relay keeps
    answered,   \* requests whose response the relay keeps
    sub,        \* the organizer's subscription: open, its since, events on their way
    seen, seenAt, highWater, inFlight, handler, \* the organizer's memory
    timer,      \* whether the sidecar write is scheduled
    disk,       \* the sidecar
    done,       \* history: requests noted as processed, as far as a kill leaves them known
    flushed,    \* history: done as of the last write
    shed,       \* history: requests turned away at the concurrency cap, not claimed since
    freed,      \* history: requests whose claim was released, not claimed since
    resent,     \* history: of those, the ones resent when a handler was free
    crashes

memory == <<seen, seenAt, highWater, inFlight, handler, timer>>
hist == <<done, flushed, shed, freed, resent, crashes>>
vars == <<now, created, answered, sub, memory, disk, hist>>

Without(f, S) == [x \in DOMAIN f \ S |-> f[x]]
Joined(f, x, v) == [y \in DOMAIN f \cup {x} |-> IF y = x THEN v ELSE f[y]]

Tracked(S) == IF Track THEN S ELSE {}

Stored == DOMAIN created
Closed == [open |-> FALSE, since |-> 0, wire |-> {}]
NoHandlers == [r \in Request |-> "idle"]

Init ==
    /\ now = 0 /\ created = <<>> /\ answered = {} /\ sub = Closed
    /\ seen = {} /\ seenAt = <<>> /\ highWater = 0 /\ inFlight = 0
    /\ handler = NoHandlers /\ timer = FALSE
    /\ disk = [high |-> 0, seen |-> <<>>]
    /\ done = {} /\ flushed = {} /\ shed = {} /\ freed = {} /\ resent = {} /\ crashes = 0

----------------------------------------------------------------------------
(* The relay and the members.                                               *)

Matches(t) == sub.open /\ t >= sub.since

\* A member posts a request, stamped by its own clock.
Post(r, d) ==
    /\ r \notin Stored /\ now + d >= 0
    /\ created' = Joined(created, r, now + d)
    /\ sub' = IF Matches(now + d) THEN [sub EXCEPT !.wire = @ \cup {r}] ELSE sub
    /\ UNCHANGED <<now, answered, memory, disk, hist>>

HasRoom == MaxConc = 0 \/ inFlight < MaxConc

\* A member sends the same event again: the relay has it, says OK, and sends it to nobody.
Resend(r) ==
    /\ r \in Stored \ answered
    /\ HasRoom /\ sub.open
    /\ resent' = resent \cup ({r} \cap (shed \cup freed))
    /\ UNCHANGED <<now, created, answered, sub, memory, disk, done, flushed, shed, freed, crashes>>

Tick ==
    /\ now < MaxNow
    /\ now' = now + 1
    /\ UNCHANGED <<created, answered, sub, memory, disk, hist>>

----------------------------------------------------------------------------
(* Subscribing.                                                             *)

SinceUnfloored == IF highWater > 0 THEN highWater - Overlap ELSE 0

\* 0: no since at all, before anything was processed.
Since == IF highWater > Overlap THEN highWater - Overlap ELSE 0

\* connect(), once the socket opens.
Connect ==
    /\ ~sub.open
    /\ sub' = [open |-> TRUE, since |-> Since,
               wire |-> {r \in Stored : created[r] >= Since}]
    /\ UNCHANGED <<now, created, answered, memory, disk, hist>>

Waiting(h) == h \in {"sent", "stored"}

\* The claims given up, together with their handlers' slots.
Release(S) ==
    /\ handler' = [r \in Request |-> IF r \in S THEN "idle" ELSE handler[r]]
    /\ seen' = seen \ S /\ seenAt' = Without(seenAt, S)
    /\ inFlight' = inFlight - Cardinality(S)
    /\ freed' = freed \cup Tracked(S)

\* The socket closes: failSocket() fails every response waiting for its OK; a handler
\* still at work keeps the dead socket.
Close ==
    LET failing == {r \in Request : Waiting(handler[r])}
    IN  /\ Drops /\ sub.open
        /\ sub' = Closed
        /\ seen' = seen \ failing /\ seenAt' = Without(seenAt, failing)
        /\ inFlight' = inFlight - Cardinality(failing)
        /\ freed' = freed \cup Tracked(failing)
        /\ handler' = [r \in Request |-> CASE r \in failing -> "idle"
                                           [] handler[r] = "work" -> "orphan"
                                           [] OTHER -> handler[r]]
        /\ UNCHANGED <<now, created, answered, highWater, timer, disk, done, flushed, shed,
                       resent, crashes>>

----------------------------------------------------------------------------
(* Receiving.                                                               *)

Expired(t) == t < now - Window

shouldProcess(r) == r \notin seen /\ ~Expired(created[r])

\* The message handler on an EVENT: shed at the cap, else deduplicate and claim.
Receive(r) ==
    /\ r \in sub.wire
    /\ sub' = [sub EXCEPT !.wire = @ \ {r}]
    /\ \/ /\ ~HasRoom
          /\ shed' = shed \cup Tracked({r} \ seen)
          /\ UNCHANGED <<seen, inFlight, handler, freed, resent>>
       \/ /\ HasRoom /\ ~shouldProcess(r)
          /\ UNCHANGED <<seen, inFlight, handler, shed, freed, resent>>
       \/ /\ HasRoom /\ shouldProcess(r)
          /\ seen' = seen \cup {r}
          /\ inFlight' = inFlight + 1
          /\ handler' = [handler EXCEPT ![r] = "work"]
          /\ shed' = shed \ {r} /\ freed' = freed \ {r} /\ resent' = resent \ {r}
    /\ UNCHANGED <<now, created, answered, seenAt, highWater, timer, disk, done, flushed,
                   crashes>>

----------------------------------------------------------------------------
(* Serving.                                                                 *)

clampHighWaterRaw(t, at) == t

clampHighWater(t, at) == IF t > at + Skew THEN at ELSE t

\* noteProcessed(), and the handler's slot given back.
NoteProcessed(r) ==
    LET t == clampHighWater(created[r], now)
    IN  /\ seenAt' = Joined(seenAt, r, t)
        /\ highWater' = IF t > highWater THEN t ELSE highWater
        /\ timer' = TRUE
        /\ handler' = [handler EXCEPT ![r] = "idle"]
        /\ inFlight' = inFlight - 1
        /\ done' = done \cup {r}
        /\ UNCHANGED <<now, created, sub, seen, disk, flushed, shed, freed, resent, crashes>>

\* The handler decides to say nothing: {drop}.
Drop(r) ==
    /\ handler[r] \in {"work", "orphan"} /\ r \in Junk
    /\ NoteProcessed(r)
    /\ UNCHANGED answered

\* sendResponse(): the response, or an error, is mined, signed and sent on the socket the
\* request came by.
Send(r) ==
    /\ handler[r] = "work" /\ r \notin Junk
    /\ handler' = [handler EXCEPT ![r] = "sent"]
    /\ UNCHANGED <<now, created, answered, sub, seen, seenAt, highWater, inFlight, timer,
                   disk, hist>>

\* ... which may have closed meanwhile.
SendFails(r) ==
    /\ handler[r] = "orphan" /\ r \notin Junk
    /\ Release({r})
    /\ UNCHANGED <<now, created, answered, sub, highWater, timer, disk, done, flushed, shed,
                   resent, crashes>>

\* The relay keeps the response; its OK is on the way.
RelayStores(r) ==
    /\ handler[r] = "sent"
    /\ handler' = [handler EXCEPT ![r] = "stored"]
    /\ answered' = answered \cup {r}
    /\ UNCHANGED <<now, created, sub, seen, seenAt, highWater, inFlight, timer, disk, hist>>

\* handleMessage(): OK true.
AckEarly(r) ==
    /\ Waiting(handler[r])
    /\ NoteProcessed(r)
    /\ UNCHANGED answered

Ack(r) ==
    /\ handler[r] = "stored"
    /\ NoteProcessed(r)
    /\ UNCHANGED answered

\* OK false, or no OK in RESPONSE_ACK_TIMEOUT_MS.
AckFails(r) ==
    /\ Waiting(handler[r])
    /\ Release({r})
    /\ UNCHANGED <<now, created, answered, sub, highWater, timer, disk, done, flushed, shed,
                   resent, crashes>>

----------------------------------------------------------------------------
(* Remembering.                                                             *)

LiveShort == {r \in DOMAIN seenAt : seenAt[r] > now - Window}

Live == {r \in DOMAIN seenAt : ~Expired(seenAt[r])}

\* flushSeen(): memory is pruned whether or not the write succeeds.
Flush ==
    /\ timer
    /\ timer' = FALSE
    /\ seenAt' = Without(seenAt, DOMAIN seenAt \ Live)
    /\ seen' = seen \ (DOMAIN seenAt \ Live)
    /\ \/ /\ disk' = [high |-> highWater, seen |-> seenAt']
          /\ flushed' = done
       \/ UNCHANGED <<disk, flushed>>
    /\ UNCHANGED <<now, created, answered, sub, highWater, inFlight, handler, done, shed, freed,
                   resent, crashes>>

\* The process is killed, or stopped between two writes, and starts again from the sidecar.
Crash ==
    LET kept == {r \in DOMAIN disk.seen : ~Expired(disk.seen[r])}
    IN  /\ crashes < MaxCrash
        /\ crashes' = crashes + 1
        /\ sub' = Closed
        /\ highWater' = IF disk.high > 0 THEN clampHighWater(disk.high, now) ELSE 0
        /\ seen' = kept /\ seenAt' = [r \in kept |-> disk.seen[r]]
        /\ inFlight' = 0 /\ handler' = NoHandlers /\ timer' = FALSE
        /\ done' = flushed
        /\ UNCHANGED <<now, created, answered, disk, flushed, shed, freed, resent>>

----------------------------------------------------------------------------
Serve(r) == Receive(r) \/ Drop(r) \/ Send(r) \/ SendFails(r) \/ RelayStores(r) \/ Ack(r)

Next ==
    \/ Tick \/ Connect \/ Close \/ Flush \/ Crash
    \/ \E r \in Request :
          (\E d \in Drift : Post(r, d)) \/ Resend(r) \/ Serve(r) \/ AckFails(r)

Spec == Init /\ [][Next]_vars

\* The organizer reconnects and works off what it received; members retry; a response is,
\* some time, sent and stored on a socket that lives long enough to bring the OK.
FairSpec ==
    /\ Spec /\ WF_vars(Connect)
    /\ \A r \in Request :
          /\ WF_vars(Resend(r)) /\ WF_vars(Drop(r)) /\ WF_vars(SendFails(r))
          /\ SF_vars(Receive(r)) /\ SF_vars(Send(r)) /\ SF_vars(RelayStores(r)) /\ SF_vars(Ack(r))

----------------------------------------------------------------------------
\* A set of requests, each with a time.
Times(f) == DOMAIN f \subseteq Request /\ \A r \in DOMAIN f : f[r] \in Nat

TypeOK ==
    /\ now \in 0..MaxNow
    /\ Times(created) /\ answered \subseteq Stored
    /\ sub.open \in BOOLEAN /\ sub.since \in Nat /\ sub.wire \subseteq Stored
    /\ seen \subseteq Stored /\ Times(seenAt) /\ DOMAIN seenAt \subseteq seen
    /\ highWater \in Nat /\ inFlight \in 0..Cardinality(Request)
    /\ handler \in [Request -> {"idle", "work", "orphan", "sent", "stored"}]
    /\ timer \in BOOLEAN
    /\ disk.high \in Nat /\ Times(disk.seen)
    /\ flushed \subseteq Stored /\ done \subseteq Stored

\* A request the mailbox would skip as already handled, now or after a restart, has its
\* response at the relay, was meant to get none, or is in a handler's hands
\* (noteProcessed() and the release of the claim, mailbox.mjs:473-486).
SkippedOnlyIfServed ==
    \A r \in seen \cup DOMAIN disk.seen :
        r \in answered \cup Junk \/ (r \in seen /\ handler[r] # "idle")

\* While its note is remembered, no request is worked on twice: what flushSeen() prunes is
\* exactly what shouldProcess() refuses for its age (mailbox.mjs:140, 265-266).
ServedOnce == \A r \in done : handler[r] = "idle"

\* If the mailbox keeps re-subscribing, every request kept by the relay is in the end
\* answered, dropped on purpose or too old, whatever sockets, acknowledgements and
\* restarts do, and with handlers at their cap (mailbox.mjs:442, 465-486).
EveryRequestServed ==
    []<>(~sub.open) => \A r \in Request \ Junk :
        (r \in Stored) ~> (r \in answered \/ (r \in Stored /\ Expired(created[r])))

\* mailbox.mjs:463-464: a request shed at the cap is served by a later resend once a
\* handler is free.
ShedResendServed ==
    \A r \in Request \ Junk : (r \in shed /\ r \in resent) ~> (r \in answered \/ ~sub.open)

\* mailbox.mjs:481-482: once a claim is released, the client's retry of the same event recovers.
ReleasedRetryServed ==
    \A r \in Request \ Junk : (r \in freed /\ r \in resent) ~> (r \in answered \/ ~sub.open)

\* mailbox.mjs:484: a request whose response was not delivered remains retryable: the next
\* subscription asks for it.
ReleasedStaysAskedFor ==
    \A r \in freed \ answered : Expired(created[r]) \/ created[r] >= Since
=============================================================================
