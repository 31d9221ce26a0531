---------------------------- MODULE ClientProofs ----------------------------
(***************************************************************************)
(* What the device keeps, for any environments of its six components: the  *)
(* types; that a post never precedes its blobs and no queued write is      *)
(* lost; that a write waiting for tokens is published at home and once;    *)
(* that leaving an account costs no other and leaves the records agreeing; *)
(* that the memo of the communities is the stored list; that a transport   *)
(* is stopped when it runs and only then; and that a wanted connection is  *)
(* tried again.  Each component has its inductive invariant, and the last  *)
(* section puts them together.                                             *)
(***************************************************************************)
EXTENDS Client, TLAPS, FiniteSetTheorems

----------------------------------------------------------------------------
(* Lists.                                                                   *)

\* The members of a list.
Elems(s) == {s[i] : i \in DOMAIN s}

----------------------------------------------------------------------------
(* The queue of signed events.                                              *)

Blob(B) == B.Event \ Box(B)!Post

Entry(B) == [status : Box(B)!Status, offline : BOOLEAN]

\* The remaining types.  A timer is set only for an attempt that has another after it.
Typed(B) ==
    /\ Box(B)!TypeOK
    /\ \A e \in B.Event : timer[e] # Box(B)!None => timer[e] < B.MaxResend
    /\ added \subseteq B.Event /\ linger \subseteq B.Event /\ relay \subseteq B.Event
    /\ fresh \in BOOLEAN

\* What a queue, in memory or on disk, tells truly: a confirmed event is at the relay; an
\* event whose add() returned and that is not in it is at the relay or cancelled; and the
\* blobs of a post in it were added.
Sound(B, q) ==
    /\ \A e \in B.Event : q[e].status = "confirmed" => e \in relay
    /\ \A e \in added : e \in relay \/ Box(B)!Known(q, e) \/ e \in cancelled
    /\ \A p \in B.Event : Box(B)!Known(q, p) => B.DependsOn[p] \subseteq added

\* A post in flight has its blobs at the relay.
FlightReady(B, fl) == \A p \in B.Event : fl[p] # Box(B)!None => B.DependsOn[p] \subseteq relay

\* The inductive invariant of delivery.
BoxInv(B) ==
    /\ Typed(B)
    /\ Sound(B, entry) /\ Sound(B, disk)
    /\ \A p \in added : B.DependsOn[p] \subseteq added
    /\ \A e \in B.Event : e \notin added /\ Box(B)!Known(disk, e) => Box(B)!Known(entry, e) \/ e \in relay
    /\ cancelled \subseteq Box(B)!Post /\ announce \subseteq Box(B)!Post
    /\ linger \subseteq relay /\ announced \subseteq relay
    /\ FlightReady(B, flight) /\ Box(B)!BlobsFirst

\* Without early connections: a blob is sent once its add() has returned, is owed while it is
\* in flight, and has landed when it lingers.
Orderly(B) ==
    \A b \in Blob(B) :
        /\ flight[b] # Box(B)!None \/ timer[b] # Box(B)!None \/ b \in linger => b \in added
        /\ flight[b] # Box(B)!None => entry[b].status \in {"sending", "failed", "rejected"}
        /\ b \in linger => entry[b].status \in {"confirmed", "none"}
        /\ b \notin added /\ Box(B)!Known(disk, b) => Box(B)!Known(entry, b)
        /\ b \notin added /\ Box(B)!Known(entry, b) => entry[b].status = "sending"

\* A write shown as on its way moves, or every blob it waits for does, and it waits for one.
Carried(B) ==
    \A e \in B.Event : entry[e].status = "sending" /\ ~fresh /\ ~Box(B)!Moving(e) =>
        /\ Box(B)!Blocking(entry, e) # {}
        /\ \A b \in Box(B)!Blocking(entry, e) : Box(B)!Moving(b)

LiveInv(B) == BoxInv(B) /\ Orderly(B) /\ Carried(B)
----------------------------------------------------------------------------
(* Blobs, and what deliver() puts in flight.                                *)

\* A blob names no blobs, and is not a post.
LEMMA BlobFacts ==
    ASSUME NEW B, Box(B)!OutboxAssumption, NEW p \in B.Event, NEW b \in B.DependsOn[p]
    PROVE  b \in B.Event /\ b \in Blob(B) /\ b \notin Box(B)!Post /\ B.DependsOn[b] = {}
<1>1. b \in B.Event /\ B.DependsOn[b] = {}
  BY DEF Box!OutboxAssumption
<1> QED BY <1>1 DEF Box!Post, Blob

\* What blocks a post are blobs of it that are known to the queue.
LEMMA BlockingFacts ==
    ASSUME NEW B, Box(B)!OutboxAssumption, NEW q, NEW p \in B.Event
    PROVE  /\ Box(B)!Blocking(q, p) \subseteq B.DependsOn[p]
           /\ \A b \in Box(B)!Blocking(q, p) : /\ b \in B.Event /\ b \in Blob(B) /\ B.DependsOn[b] = {}
                                               /\ q[b].status \in {"sending", "failed", "rejected"}
           /\ p \in Blob(B) => Box(B)!Blocking(q, p) = {}
<1>1. Box(B)!Blocking(q, p) \subseteq B.DependsOn[p]
  BY DEF Box!Blocking
<1>2. \A b \in Box(B)!Blocking(q, p) : /\ b \in B.Event /\ b \in Blob(B) /\ B.DependsOn[b] = {}
                                       /\ q[b].status \in {"sending", "failed", "rejected"}
  BY <1>1, BlobFacts DEF Box!Blocking
<1>3. p \in Blob(B) => Box(B)!Blocking(q, p) = {}
  BY <1>1 DEF Blob, Box!Post
<1> QED BY <1>1, <1>2, <1>3

\* A post in the queue that nothing blocks has its blobs at the relay: each was confirmed, or
\* has left the queue, which a blob does only by landing.
LEMMA UnblockedReady ==
    ASSUME NEW B, Box(B)!OutboxAssumption, NEW q \in [B.Event -> Entry(B)], Sound(B, q), cancelled \subseteq Box(B)!Post,
           NEW p \in B.Event, Box(B)!Known(q, p), Box(B)!Blocking(q, p) = {}
    PROVE  B.DependsOn[p] \subseteq relay
<1> SUFFICES ASSUME NEW b \in B.DependsOn[p] PROVE b \in relay
  OBVIOUS
<1>1. b \in B.Event /\ b \notin cancelled /\ b \in added
  BY BlobFacts DEF Sound
<1>2. q[b].status \in {"none", "confirmed"}
  BY <1>1 DEF Box!Blocking, Entry, Box!Status
<1> QED BY <1>1, <1>2 DEF Sound, Box!Known

Flights(B) == [B.Event -> -1..B.MaxResend]

\* What a call of deliver() for each of E does to the attempts in flight: it ends none; what it
\* is called for flies, or what blocks it does; and nothing else starts.
DeliversWell(B, q, fl, E, attempt) ==
    /\ Box(B)!Deliver(q, fl, E, attempt) \in Flights(B)
    /\ \A e \in B.Event : fl[e] # Box(B)!None => Box(B)!Deliver(q, fl, E, attempt)[e] # Box(B)!None
    /\ \A e \in E : \/ Box(B)!Deliver(q, fl, E, attempt)[e] # Box(B)!None
                    \/ /\ Box(B)!Blocking(q, e) # {}
                       /\ \A b \in Box(B)!Blocking(q, e) : Box(B)!Deliver(q, fl, E, attempt)[b] # Box(B)!None
    /\ \A e \in B.Event : Box(B)!Deliver(q, fl, E, attempt)[e] # Box(B)!None =>
         \/ fl[e] # Box(B)!None
         \/ e \in E /\ Box(B)!Blocking(q, e) = {}
         \/ \E o \in E : e \in Box(B)!Blocking(q, o)

LEMMA DeliverFacts ==
    ASSUME NEW B, Box(B)!OutboxAssumption, NEW q, NEW E \in SUBSET B.Event, NEW attempt \in 0..B.MaxResend,
           NEW fl \in Flights(B)
    PROVE  DeliversWell(B, q, fl, E, attempt)
<1> DEFINE D == Box(B)!Deliver(q, fl, E, attempt)
<1>1. /\ B.MaxResend \in Nat /\ 0 \in 0..B.MaxResend /\ 0..B.MaxResend \subseteq -1..B.MaxResend
      /\ \A n \in 0..B.MaxResend : n # Box(B)!None
  BY DEF Box!OutboxAssumption, Box!None
<1>2. \A e \in B.Event : D[e] = IF e \in Box(B)!Launched(q, E) /\ fl[e] = Box(B)!None
                              THEN IF e \in E THEN attempt ELSE 0 ELSE fl[e]
  BY DEF Box!Deliver
<1>3. D \in Flights(B)
  <2>1. \A e \in B.Event : (IF e \in Box(B)!Launched(q, E) /\ fl[e] = Box(B)!None
                          THEN IF e \in E THEN attempt ELSE 0 ELSE fl[e]) \in -1..B.MaxResend
    BY <1>1 DEF Flights
  <2> QED BY <2>1 DEF Box!Deliver, Flights
<1>4. \A e \in Box(B)!Launched(q, E) : e \in B.Event => D[e] # Box(B)!None
  BY <1>1, <1>2
<1>5. \A e \in E : Box(B)!Blocking(q, e) = {} \/ \A b \in Box(B)!Blocking(q, e) : b \in Box(B)!Launched(q, E) /\ b \in B.Event
  BY BlockingFacts DEF Box!Launched
<1>6. \A e \in E : Box(B)!Blocking(q, e) = {} => e \in Box(B)!Launched(q, E)
  BY DEF Box!Launched
<1>7. \A e \in Box(B)!Launched(q, E) : (e \in E /\ Box(B)!Blocking(q, e) = {}) \/ \E o \in E : e \in Box(B)!Blocking(q, o)
  BY DEF Box!Launched
<1> QED BY <1>2, <1>3, <1>4, <1>5, <1>6, <1>7 DEF DeliversWell

\* deliver() keeps posts behind their blobs.
LEMMA DeliverReady ==
    ASSUME NEW B, Box(B)!OutboxAssumption, NEW q \in [B.Event -> Entry(B)], Sound(B, q), cancelled \subseteq Box(B)!Post,
           Box(B)!BlobsFirst, NEW E \in SUBSET B.Event, \A e \in E : Box(B)!Known(q, e) \/ e \in relay,
           NEW attempt \in 0..B.MaxResend, NEW fl \in [B.Event -> -1..B.MaxResend], FlightReady(B, fl)
    PROVE  FlightReady(B, Box(B)!Deliver(q, fl, E, attempt))
<1> SUFFICES ASSUME NEW p \in B.Event, Box(B)!Deliver(q, fl, E, attempt)[p] # Box(B)!None
             PROVE  B.DependsOn[p] \subseteq relay
  BY DEF FlightReady
<1>1. CASE fl[p] # Box(B)!None
  BY <1>1 DEF FlightReady
<1>2. CASE p \in E /\ Box(B)!Blocking(q, p) = {}
  BY <1>2, UnblockedReady DEF Box!BlobsFirst
<1>3. CASE \E o \in E : p \in Box(B)!Blocking(q, o)
  BY <1>3, BlockingFacts
<1>4. \A e \in B.Event : Box(B)!Deliver(q, fl, E, attempt)[e] # Box(B)!None =>
          \/ fl[e] # Box(B)!None
          \/ e \in E /\ Box(B)!Blocking(q, e) = {}
          \/ \E o \in E : e \in Box(B)!Blocking(q, o)
  BY DEF Box!Deliver, Box!Launched
<1> QED BY <1>1, <1>2, <1>3, <1>4

\* advanceBlobDependents() changes only the marks of posts in the queue.
LEMMA AfterBlobFacts ==
    ASSUME NEW B, Box(B)!OutboxAssumption, NEW q \in [B.Event -> Entry(B)], NEW b \in B.Event
    PROVE  /\ Box(B)!AfterBlob(q, b) \in [B.Event -> Entry(B)]
           /\ \A e \in B.Event : Box(B)!Known(Box(B)!AfterBlob(q, b), e) <=> Box(B)!Known(q, e)
           /\ \A e \in B.Event : Box(B)!AfterBlob(q, b)[e].status = "confirmed" => q[e].status = "confirmed"
           /\ \A e \in B.Event : e \notin Box(B)!Waiting(q, b) => Box(B)!AfterBlob(q, b)[e] = q[e]
           /\ \A e \in Blob(B) : e \notin Box(B)!Waiting(q, b)
<1> DEFINE A == Box(B)!AfterBlob(q, b)
<1>1. ASSUME NEW e \in B.Event
      PROVE  /\ A[e] \in Entry(B) /\ (Box(B)!Known(A, e) <=> Box(B)!Known(q, e))
             /\ A[e].status = "confirmed" => q[e].status = "confirmed"
             /\ e \notin Box(B)!Waiting(q, b) => A[e] = q[e]
  <2>1. A[e] = IF e \notin Box(B)!Waiting(q, b) THEN q[e]
               ELSE IF q[b].status \in {"rejected", "failed"} THEN [q[e] EXCEPT !.status = q[b].status]
               ELSE IF Box(B)!Blocking(q, e) # {} /\ q[b] = [status |-> "sending", offline |-> TRUE]
                    THEN [status |-> "sending", offline |-> TRUE]
               ELSE q[e]
    BY DEF Box!AfterBlob
  <2>2. CASE e \notin Box(B)!Waiting(q, b)
    BY <2>1, <2>2 DEF Box!Known
  <2>3. CASE e \in Box(B)!Waiting(q, b) /\ q[b].status \in {"rejected", "failed"}
    <3>1. A[e] = [q[e] EXCEPT !.status = q[b].status]
      BY <2>1, <2>3
    <3>2. q[e] \in Entry(B) /\ q[b] \in Entry(B)
      OBVIOUS
    <3>3. A[e] \in Entry(B) /\ A[e].status = q[b].status
      BY <3>1, <3>2 DEF Entry
    <3> QED BY <2>3, <3>3 DEF Box!Known, Box!Waiting
  <2>4. CASE e \in Box(B)!Waiting(q, b) /\ q[b].status \notin {"rejected", "failed"}
    <3>1. CASE A[e] = q[e]
      BY <2>4, <3>1 DEF Box!Known
    <3>2. CASE A[e] = [status |-> "sending", offline |-> TRUE]
      <4>1. A[e] \in Entry(B) /\ A[e].status = "sending"
        BY <3>2 DEF Entry, Box!Status
      <4> QED BY <2>4, <4>1 DEF Box!Known, Box!Waiting
    <3> QED BY <2>1, <2>4, <3>1, <3>2
  <2> QED BY <2>2, <2>3, <2>4
<1>2. A \in [B.Event -> Entry(B)]
  <2>1. A = [e \in B.Event |-> A[e]]
    BY DEF Box!AfterBlob
  <2> QED BY <1>1, <2>1
<1>3. \A e \in Blob(B) : e \notin Box(B)!Waiting(q, b)
  BY DEF Blob, Box!Post, Box!Waiting
<1> QED BY <1>1, <1>2, <1>3

----------------------------------------------------------------------------
(* Posts and their blobs.                                                   *)

LEMMA InitBox ==
    ASSUME NEW B, Box(B)!OutboxAssumption, Box(B)!Init
    PROVE  BoxInv(B)
<1>1. Box(B)!NoEntry \in Entry(B) /\ Box(B)!NoEntry.status = "none"
  BY DEF Box!NoEntry, Entry, Box!Status
<1>2. entry \in [B.Event -> Entry(B)] /\ disk \in [B.Event -> Entry(B)]
      /\ \A e \in B.Event : ~Box(B)!Known(entry, e) /\ ~Box(B)!Known(disk, e)
                          /\ entry[e].status # "confirmed" /\ disk[e].status # "confirmed"
  BY <1>1 DEF Box!Init, Box!Known
<1>3. Box(B)!None \in -1..B.MaxResend
  BY DEF Box!None, Box!OutboxAssumption
<1>4. Typed(B)
  BY <1>2, <1>3 DEF Box!Init, Typed, Box!TypeOK, Entry
<1> QED BY <1>2, <1>4 DEF Box!Init, BoxInv, Sound, FlightReady, Box!BlobsFirst

\* An attempt ends with the queue as q, which is as sound as the one before.
LEMMA EndsBox ==
    ASSUME NEW B, Box(B)!OutboxAssumption, BoxInv(B), NEW e \in B.Event, NEW q \in [B.Event -> Entry(B)], NEW t,
           t \in -1..B.MaxResend, t # Box(B)!None => t < B.MaxResend,
           Sound(B, q), \A x \in B.Event : Box(B)!Known(entry, x) => Box(B)!Known(q, x),
           Box(B)!Ends(e, q, t),
           linger' \subseteq relay, announce' \subseteq Box(B)!Post,
           announced' \subseteq relay, announced' \subseteq Box(B)!Post
    PROVE  BoxInv(B)'
<1> DEFINE after == Box(B)!AfterBlob(q, e)
           landed == [flight EXCEPT ![e] = Box(B)!None]
           E == Box(B)!Advanced(q, e)
<1>1. /\ entry' = after /\ flight' = Box(B)!Deliver(after, landed, E, 0)
      /\ timer' = [timer EXCEPT ![e] = t]
      /\ UNCHANGED <<disk, added, relay, cancelled, fresh, kills>>
  BY DEF Box!Ends
<1>2. /\ after \in [B.Event -> Entry(B)]
      /\ \A x \in B.Event : Box(B)!Known(after, x) <=> Box(B)!Known(q, x)
      /\ \A x \in B.Event : after[x].status = "confirmed" => q[x].status = "confirmed"
  BY AfterBlobFacts
<1>3. Sound(B, after)
  BY <1>2 DEF Sound, BoxInv, Typed
<1>4. landed \in [B.Event -> -1..B.MaxResend] /\ FlightReady(B, landed)
  BY DEF BoxInv, Typed, Box!TypeOK, FlightReady, Box!None, Box!OutboxAssumption
<1>5. E \in SUBSET B.Event /\ \A x \in E : Box(B)!Known(after, x) \/ x \in relay
  BY <1>2 DEF Box!Advanced, Box!Waiting
<1>6. 0 \in 0..B.MaxResend
  BY DEF Box!OutboxAssumption
<1>7. flight' \in [B.Event -> -1..B.MaxResend] /\ FlightReady(B, flight')
  <2>1. flight' \in [B.Event -> -1..B.MaxResend]
    <3> HIDE DEF after, landed, E
    <3>1. landed \in Flights(B)
      BY <1>4 DEF Flights
    <3>2. DeliversWell(B, after, landed, E, 0)
      BY <1>5, <1>6, <3>1, DeliverFacts
    <3> QED BY <1>1, <3>2 DEF DeliversWell, Flights
  <2>2. FlightReady(B, Box(B)!Deliver(after, landed, E, 0))
    BY <1>2, <1>3, <1>4, <1>5, <1>6, DeliverReady DEF BoxInv
  <2> QED BY <1>1, <2>1, <2>2
<1>8. timer' \in [B.Event -> -1..B.MaxResend] /\ \A x \in B.Event : timer'[x] # Box(B)!None => timer'[x] < B.MaxResend
  BY <1>1 DEF BoxInv, Typed, Box!TypeOK
<1>9. Typed(B)'
  BY <1>1, <1>2, <1>7, <1>8 DEF BoxInv, Typed, Box!TypeOK, Entry
<1>10. Sound(B, entry)' /\ Sound(B, disk)'
  BY <1>1, <1>3 DEF Sound, BoxInv, Box!Known
<1>11. \A x \in B.Event : x \notin added' /\ Box(B)!Known(disk', x) => Box(B)!Known(entry', x) \/ x \in relay'
  BY <1>1, <1>2 DEF BoxInv, Box!Known
<1>12. FlightReady(B, flight)' /\ Box(B)!BlobsFirst'
  BY <1>1, <1>7 DEF FlightReady, Box!BlobsFirst, BoxInv
<1> QED BY <1>1, <1>9, <1>10, <1>11, <1>12 DEF BoxInv

\* The queue with the mark of e changed.
LEMMA MarkedSound ==
    ASSUME NEW B, Box(B)!OutboxAssumption, BoxInv(B), NEW e \in B.Event, NEW new \in Entry(B), new.status # "none",
           new.status = "confirmed" => e \in relay
    PROVE  /\ Box(B)!Marked(e, new) \in [B.Event -> Entry(B)] /\ Sound(B, Box(B)!Marked(e, new))
           /\ \A x \in B.Event : Box(B)!Known(entry, x) <=> Box(B)!Known(Box(B)!Marked(e, new), x)
           /\ \A x \in B.Event : x # e => Box(B)!Marked(e, new)[x] = entry[x]
<1>1. entry \in [B.Event -> Entry(B)]
  BY DEF BoxInv, Typed, Box!TypeOK, Entry
<1>2. CASE ~Box(B)!Known(entry, e)
  BY <1>1, <1>2 DEF Box!Marked, BoxInv
<1>3. CASE Box(B)!Known(entry, e)
  <2>1. Box(B)!Marked(e, new) = [entry EXCEPT ![e] = new]
    BY <1>3 DEF Box!Marked
  <2>2. /\ Box(B)!Marked(e, new) \in [B.Event -> Entry(B)]
        /\ \A x \in B.Event : x # e => Box(B)!Marked(e, new)[x] = entry[x]
        /\ Box(B)!Marked(e, new)[e] = new
    BY <1>1, <2>1
  <2>3. \A x \in B.Event : Box(B)!Known(entry, x) <=> Box(B)!Known(Box(B)!Marked(e, new), x)
    BY <1>3, <2>2 DEF Box!Known
  <2>4. Sound(B, Box(B)!Marked(e, new))
    BY <2>2, <2>3 DEF Sound, BoxInv, Typed
  <2> QED BY <2>2, <2>3, <2>4
<1> QED BY <1>2, <1>3

\* deliver() is called for events in the queue, or at the relay already.
LEMMA CallsBox ==
    ASSUME NEW B, Box(B)!OutboxAssumption, BoxInv(B), NEW E \in SUBSET B.Event, NEW attempt \in 0..B.MaxResend,
           \A x \in E : Box(B)!Known(entry, x) \/ x \in relay,
           flight' = Box(B)!Deliver(entry, flight, E, attempt)
    PROVE  flight' \in [B.Event -> -1..B.MaxResend] /\ FlightReady(B, flight')
<1>1. entry \in [B.Event -> Entry(B)] /\ flight \in [B.Event -> -1..B.MaxResend]
  BY DEF BoxInv, Typed, Box!TypeOK, Entry
<1>2. FlightReady(B, Box(B)!Deliver(entry, flight, E, attempt))
  BY <1>1, DeliverReady DEF BoxInv
<1>3. flight \in Flights(B)
  BY <1>1 DEF Flights
<1>4. DeliversWell(B, entry, flight, E, attempt)
  BY <1>3, DeliverFacts
<1>5. flight' \in [B.Event -> -1..B.MaxResend]
  BY <1>4 DEF DeliversWell, Flights
<1> QED BY <1>2, <1>5

\* How the attempts end.
LEMMA OutcomeBox ==
    ASSUME NEW B, Box(B)!OutboxAssumption, BoxInv(B), NEW e \in B.Event
    PROVE  /\ Box(B)!Accepted(e) => BoxInv(B)'
           /\ Box(B)!Offline(e) => BoxInv(B)'
           /\ Box(B)!TimedOut(e) => BoxInv(B)'
           /\ \A verdict \in B.RelayVerdicts : Box(B)!Refused(e, verdict) => BoxInv(B)'
<1>1. /\ \A mark \in Box(B)!Status : Box(B)!In(mark) \in Entry(B) /\ Box(B)!In(mark).status = mark
      /\ [status |-> "sending", offline |-> TRUE] \in Entry(B)
  BY DEF Box!In, Entry, Box!Status
<1>2. /\ B.MaxResend \in Nat /\ Box(B)!None \in -1..B.MaxResend
      /\ timer[e] \in -1..B.MaxResend /\ (timer[e] # Box(B)!None => timer[e] < B.MaxResend)
      /\ flight[e] \in -1..B.MaxResend
  BY DEF Box!None, BoxInv, Typed, Box!TypeOK, Box!OutboxAssumption
<1>3. /\ linger \subseteq relay /\ announce \subseteq Box(B)!Post
      /\ announced \subseteq relay /\ announced \subseteq Box(B)!Post
  BY DEF BoxInv, Typed, Box!TypeOK
<1>4. ASSUME Box(B)!Accepted(e) PROVE BoxInv(B)'
  <2>1. e \in relay /\ Box(B)!Ends(e, Box(B)!Marked(e, Box(B)!In("confirmed")), Box(B)!None) /\ Box(B)!Confirmed(e)
    BY <1>4 DEF Box!Accepted
  <2>2. /\ linger' \subseteq relay /\ announce' \subseteq Box(B)!Post /\ announced' \subseteq relay
        /\ announced' \subseteq Box(B)!Post
    <3>1. e \in announce => e \in Box(B)!Post
      BY DEF BoxInv
    <3> QED BY <1>3, <2>1, <3>1 DEF Box!Confirmed
  <2>3. /\ Box(B)!Marked(e, Box(B)!In("confirmed")) \in [B.Event -> Entry(B)] /\ Sound(B, Box(B)!Marked(e, Box(B)!In("confirmed")))
        /\ \A x \in B.Event : Box(B)!Known(entry, x) => Box(B)!Known(Box(B)!Marked(e, Box(B)!In("confirmed")), x)
    BY <1>1, <2>1, MarkedSound DEF Box!Status
  <2> QED BY <1>2, <2>1, <2>2, <2>3, EndsBox
<1>5. ASSUME Box(B)!Offline(e) PROVE BoxInv(B)'
  <2> DEFINE q == Box(B)!Marked(e, [status |-> "sending", offline |-> TRUE])
  <2>1. Box(B)!Ends(e, q, Box(B)!Resend(flight[e])) /\ UNCHANGED <<linger, announce, announced>>
    BY <1>5 DEF Box!Offline
  <2>2. q \in [B.Event -> Entry(B)] /\ Sound(B, q) /\ \A x \in B.Event : Box(B)!Known(entry, x) => Box(B)!Known(q, x)
    BY <1>1, MarkedSound
  <2>3. /\ Box(B)!Resend(flight[e]) \in -1..B.MaxResend
        /\ Box(B)!Resend(flight[e]) # Box(B)!None => Box(B)!Resend(flight[e]) < B.MaxResend
    BY <1>2 DEF Box!Resend
  <2> QED BY <1>3, <2>1, <2>2, <2>3, EndsBox
<1>6. ASSUME Box(B)!TimedOut(e) PROVE BoxInv(B)'
  <2>1. UNCHANGED <<linger, announce, announced>>
    BY <1>6 DEF Box!TimedOut
  <2>2. CASE flight[e] < B.MaxResend
    <3>1. Box(B)!Ends(e, Box(B)!Marked(e, Box(B)!In("sending")), flight[e])
      BY <1>6, <2>2 DEF Box!TimedOut
    <3>2. /\ Box(B)!Marked(e, Box(B)!In("sending")) \in [B.Event -> Entry(B)] /\ Sound(B, Box(B)!Marked(e, Box(B)!In("sending")))
          /\ \A x \in B.Event : Box(B)!Known(entry, x) => Box(B)!Known(Box(B)!Marked(e, Box(B)!In("sending")), x)
      BY <1>1, MarkedSound DEF Box!Status
    <3> QED BY <1>2, <1>3, <2>1, <2>2, <3>1, <3>2, EndsBox
  <2>3. CASE ~(flight[e] < B.MaxResend)
    <3>1. Box(B)!Ends(e, Box(B)!Marked(e, Box(B)!In("failed")), timer[e])
      BY <1>6, <2>3 DEF Box!TimedOut
    <3>2. /\ Box(B)!Marked(e, Box(B)!In("failed")) \in [B.Event -> Entry(B)] /\ Sound(B, Box(B)!Marked(e, Box(B)!In("failed")))
          /\ \A x \in B.Event : Box(B)!Known(entry, x) => Box(B)!Known(Box(B)!Marked(e, Box(B)!In("failed")), x)
      BY <1>1, MarkedSound DEF Box!Status
    <3> QED BY <1>2, <1>3, <2>1, <3>1, <3>2, EndsBox
  <2> QED BY <2>2, <2>3
<1>7. ASSUME NEW verdict \in B.RelayVerdicts, Box(B)!Refused(e, verdict) PROVE BoxInv(B)'
  <2>1. PICK mark \in {"rejected", "failed"} :
            Box(B)!Ends(e, Box(B)!Marked(e, Box(B)!In(mark)), timer[e]) /\ UNCHANGED <<linger, announce, announced>>
    BY <1>7 DEF Box!Refused
  <2>2. /\ Box(B)!Marked(e, Box(B)!In(mark)) \in [B.Event -> Entry(B)] /\ Sound(B, Box(B)!Marked(e, Box(B)!In(mark)))
        /\ \A x \in B.Event : Box(B)!Known(entry, x) => Box(B)!Known(Box(B)!Marked(e, Box(B)!In(mark)), x)
    BY <1>1, MarkedSound DEF Box!Status
  <2> QED BY <1>2, <1>3, <2>1, <2>2, EndsBox
<1> QED BY <1>4, <1>5, <1>6, <1>7

\* Every step keeps the invariant.
LEMMA StepBox ==
    ASSUME NEW B, Box(B)!OutboxAssumption, BoxInv(B), Box(B)!Next \/ UNCHANGED Box(B)!vars
    PROVE  BoxInv(B)'
<1>0. /\ entry \in [B.Event -> Entry(B)] /\ disk \in [B.Event -> Entry(B)]
      /\ flight \in [B.Event -> -1..B.MaxResend] /\ timer \in [B.Event -> -1..B.MaxResend]
      /\ \A e \in B.Event : timer[e] # Box(B)!None => timer[e] < B.MaxResend
      /\ B.MaxResend \in Nat /\ Box(B)!None \in -1..B.MaxResend /\ 0 \in 0..B.MaxResend
      /\ Box(B)!NoEntry \in Entry(B) /\ Box(B)!NoEntry.status = "none"
      /\ \A mark \in Box(B)!Status : Box(B)!In(mark) \in Entry(B) /\ Box(B)!In(mark).status = mark
  BY DEF BoxInv, Typed, Box!TypeOK, Entry, Box!None, Box!OutboxAssumption, Box!NoEntry, Box!In, Box!Status
<1>1. CASE UNCHANGED Box(B)!vars
  BY <1>1 DEF Box!vars, BoxInv, Typed, Box!TypeOK, Sound, Box!Known, FlightReady, Box!BlobsFirst
<1>2. CASE Box(B)!Persist
  <2>1. disk' = entry /\ UNCHANGED <<entry, added, flight, timer, linger, relay, announce, announced, cancelled, fresh>>
    BY <1>2 DEF Box!Persist
  <2> QED BY <2>1 DEF BoxInv, Typed, Box!TypeOK, Sound, Box!Known, FlightReady, Box!BlobsFirst
<1>3. ASSUME NEW E \in SUBSET B.Event, NEW attempt \in 0..B.MaxResend,
             \A x \in E : Box(B)!Known(entry, x) \/ x \in relay,
             flight' = Box(B)!Deliver(entry, flight, E, attempt),
             UNCHANGED <<entry, disk, linger, relay, announce, announced, cancelled>>,
             timer' \in [B.Event -> -1..B.MaxResend], fresh' \in BOOLEAN,
             \A e \in B.Event : timer'[e] # Box(B)!None => timer'[e] < B.MaxResend,
             UNCHANGED added \/ \E e \in B.Event : added' = added \cup {e} /\ Box(B)!Known(disk, e)
      PROVE  BoxInv(B)'
  <2>1. flight' \in [B.Event -> -1..B.MaxResend] /\ FlightReady(B, flight')
    BY <1>3, CallsBox
  <2>2. Typed(B)'
    BY <1>3, <2>1 DEF BoxInv, Typed, Box!TypeOK
  <2>3. added \subseteq added' /\ \A x \in added' : x \in added \/ (x \in B.Event /\ Box(B)!Known(disk, x))
    BY <1>3
  <2>4. Sound(B, entry)' /\ Sound(B, disk)'
    BY <1>3, <2>3 DEF Sound, BoxInv, Box!Known
  <2>5. /\ \A p \in added' : B.DependsOn[p] \subseteq added'
        /\ \A e \in B.Event : e \notin added' /\ Box(B)!Known(disk', e) => Box(B)!Known(entry', e) \/ e \in relay'
    BY <1>3, <2>3 DEF Sound, BoxInv, Box!Known
  <2> QED BY <1>3, <2>1, <2>2, <2>4, <2>5 DEF BoxInv, FlightReady, Box!BlobsFirst
<1>4. CASE Box(B)!Flush
  <2>1. Box(B)!Unsent \in SUBSET B.Event /\ \A x \in Box(B)!Unsent : Box(B)!Known(entry, x)
    BY DEF Box!Unsent, Box!Known
  <2> QED BY <1>0, <1>3, <1>4, <2>1 DEF Box!Flush, Box!Calls
<1>5. ASSUME NEW e \in B.Event, Box(B)!Sent(e) PROVE BoxInv(B)'
  <2>1. {e} \in SUBSET B.Event /\ \A x \in {e} : Box(B)!Known(entry, x) \/ x \in relay
    BY <1>5 DEF Box!Sent, BoxInv
  <2>2. /\ flight' = Box(B)!Deliver(entry, flight, {e}, 0) /\ added' = added \cup {e} /\ Box(B)!Known(disk, e)
        /\ UNCHANGED <<entry, disk, linger, relay, announce, announced, cancelled, timer, fresh>>
    BY <1>5 DEF Box!Sent, Box!Calls
  <2>3. fresh' \in BOOLEAN
    BY <2>2 DEF BoxInv, Typed
  <2> QED BY <1>0, <1>3, <2>1, <2>2, <2>3
<1>6. ASSUME NEW e \in B.Event, Box(B)!Retry(e) PROVE BoxInv(B)'
  <2>1. {e} \in SUBSET B.Event /\ \A x \in {e} : Box(B)!Known(entry, x) \/ x \in relay
    BY <1>6 DEF Box!Retry, Box!Known
  <2>2. /\ flight' = Box(B)!Deliver(entry, flight, {e}, 0) /\ UNCHANGED added
        /\ UNCHANGED <<entry, disk, linger, relay, announce, announced, cancelled, timer, fresh>>
    BY <1>6 DEF Box!Retry, Box!Calls
  <2>3. fresh' \in BOOLEAN
    BY <2>2 DEF BoxInv, Typed
  <2> QED BY <1>0, <1>3, <2>1, <2>2, <2>3
<1>7. ASSUME NEW e \in B.Event, Box(B)!Fire(e) PROVE BoxInv(B)'
  <2>1. /\ timer' = [timer EXCEPT ![e] = Box(B)!None] /\ timer[e] # Box(B)!None
        /\ UNCHANGED <<entry, disk, added, linger, relay, announce, announced, cancelled, fresh>>
    BY <1>7 DEF Box!Fire
  <2>2. timer' \in [B.Event -> -1..B.MaxResend] /\ fresh' \in BOOLEAN
        /\ \A x \in B.Event : timer'[x] # Box(B)!None => timer'[x] < B.MaxResend
    BY <1>0, <2>1 DEF BoxInv, Typed
  <2>3. CASE entry[e].status = "sending"
    <3>1. {e} \in SUBSET B.Event /\ \A x \in {e} : Box(B)!Known(entry, x) \/ x \in relay
      BY <2>3 DEF Box!Known
    <3>2. timer[e] + 1 \in 0..B.MaxResend
      BY <1>0, <2>1 DEF Box!None
    <3>3. flight' = Box(B)!Deliver(entry, flight, {e}, timer[e] + 1)
      BY <1>7, <2>3 DEF Box!Fire, Box!Calls
    <3> QED BY <1>3, <2>1, <2>2, <3>1, <3>2, <3>3
  <2>4. CASE entry[e].status # "sending"
    <3>1. UNCHANGED flight
      BY <1>7, <2>4 DEF Box!Fire
    <3> QED BY <2>1, <2>2, <3>1 DEF BoxInv, Typed, Box!TypeOK, Sound, Box!Known, FlightReady, Box!BlobsFirst
  <2> QED BY <2>3, <2>4
<1>8. ASSUME NEW e \in B.Event, Box(B)!Add(e) PROVE BoxInv(B)'
  <2>1. /\ ~Box(B)!Known(entry, e) /\ e \notin added /\ B.DependsOn[e] \subseteq added
        /\ entry' = [entry EXCEPT ![e] = Box(B)!In("sending")]
        /\ announce' \subseteq Box(B)!Post
        /\ UNCHANGED <<disk, added, flight, timer, linger, relay, announced, cancelled, fresh>>
    BY <1>8 DEF Box!Add, BoxInv
  <2>2. /\ entry' \in [B.Event -> Entry(B)] /\ entry'[e].status = "sending"
        /\ \A x \in B.Event : x # e => entry'[x] = entry[x]
    BY <1>0, <2>1 DEF Box!Status
  <2>3. Typed(B)'
    BY <2>1, <2>2 DEF BoxInv, Typed, Box!TypeOK, Entry
  <2>4. Sound(B, entry)' /\ Sound(B, disk)'
    BY <2>1, <2>2 DEF BoxInv, Sound, Box!Known, Typed
  <2>5. \A x \in B.Event : x \notin added' /\ Box(B)!Known(disk', x) => Box(B)!Known(entry', x) \/ x \in relay'
    BY <2>1, <2>2 DEF BoxInv, Box!Known
  <2> QED BY <2>1, <2>3, <2>4, <2>5 DEF BoxInv, FlightReady, Box!BlobsFirst
<1>9. ASSUME NEW e \in B.Event, Box(B)!Echo(e) PROVE BoxInv(B)'
  <2>1. /\ e \in Box(B)!Post /\ e \in relay /\ Box(B)!Known(entry, e)
        /\ entry' = [entry EXCEPT ![e] = Box(B)!In("confirmed")] /\ timer' = [timer EXCEPT ![e] = Box(B)!None]
        /\ linger' = linger \cup {e} /\ announce' \subseteq announce
        /\ announced' \subseteq announced \cup {e}
        /\ UNCHANGED <<disk, added, flight, relay, cancelled, fresh>>
    BY <1>9 DEF Box!Echo, Box!Confirmed
  <2>2. /\ entry' \in [B.Event -> Entry(B)] /\ entry'[e].status = "confirmed"
        /\ \A x \in B.Event : x # e => entry'[x] = entry[x]
    BY <1>0, <2>1 DEF Box!Status
  <2>3. timer' \in [B.Event -> -1..B.MaxResend] /\ \A x \in B.Event : timer'[x] # Box(B)!None => timer'[x] < B.MaxResend
    BY <1>0, <2>1
  <2>4. Typed(B)'
    BY <2>1, <2>2, <2>3 DEF BoxInv, Typed, Box!TypeOK, Entry
  <2>5. Sound(B, entry)' /\ Sound(B, disk)'
    BY <2>1, <2>2 DEF BoxInv, Sound, Box!Known, Typed
  <2>6. \A x \in B.Event : x \notin added' /\ Box(B)!Known(disk', x) => Box(B)!Known(entry', x) \/ x \in relay'
    BY <2>1, <2>2 DEF BoxInv, Box!Known
  <2> QED BY <2>1, <2>4, <2>5, <2>6 DEF BoxInv, FlightReady, Box!BlobsFirst
<1>10. ASSUME NEW e \in B.Event, Box(B)!Sweep(e) \/ Box(B)!Cancel(e) PROVE BoxInv(B)'
  <2>1. /\ entry' = [entry EXCEPT ![e] = Box(B)!NoEntry]
        /\ timer' = timer \/ timer' = [timer EXCEPT ![e] = Box(B)!None]
        /\ linger' \subseteq linger /\ announce' \subseteq announce
        /\ cancelled \subseteq cancelled' /\ cancelled' \subseteq Box(B)!Post
        /\ e \in relay \/ e \in cancelled'
        /\ e \in relay \/ e \in added
        /\ UNCHANGED <<disk, added, flight, relay, announced, fresh>>
    BY <1>10 DEF Box!Sweep, Box!Cancel, BoxInv
  <2>2. /\ entry' \in [B.Event -> Entry(B)] /\ entry'[e].status = "none"
        /\ \A x \in B.Event : x # e => entry'[x] = entry[x]
    BY <1>0, <2>1
  <2>3. timer' \in [B.Event -> -1..B.MaxResend] /\ \A x \in B.Event : timer'[x] # Box(B)!None => timer'[x] < B.MaxResend
    BY <1>0, <2>1
  <2>4. Typed(B)'
    BY <2>1, <2>2, <2>3 DEF BoxInv, Typed, Box!TypeOK, Entry
  <2>5. Sound(B, entry)' /\ Sound(B, disk)'
    BY <2>1, <2>2 DEF BoxInv, Sound, Box!Known, Typed
  <2>6. \A x \in B.Event : x \notin added' /\ Box(B)!Known(disk', x) => Box(B)!Known(entry', x) \/ x \in relay'
    BY <2>1, <2>2 DEF BoxInv, Box!Known
  <2> QED BY <2>1, <2>4, <2>5, <2>6 DEF BoxInv, FlightReady, Box!BlobsFirst
<1>11. ASSUME NEW e \in B.Event, Box(B)!RelayStores(e) PROVE BoxInv(B)'
  <2>1. /\ relay' = relay \cup {e} /\ flight[e] # Box(B)!None
        /\ UNCHANGED <<entry, disk, added, flight, timer, linger, announce, announced, cancelled, fresh>>
    BY <1>11 DEF Box!RelayStores
  <2>2. Box(B)!BlobsFirst'
    BY <2>1 DEF BoxInv, FlightReady, Box!BlobsFirst
  <2>3. Sound(B, entry)' /\ Sound(B, disk)'
    BY <2>1 DEF BoxInv, Sound, Box!Known
  <2> QED BY <2>1, <2>2, <2>3 DEF BoxInv, Typed, Box!TypeOK, Box!Known, FlightReady
<1>12. CASE Box(B)!Kill
  <2>1. /\ entry' = disk /\ added' = added \cup {e \in B.Event : Box(B)!Known(disk, e)}
        /\ flight' = [e \in B.Event |-> Box(B)!None] /\ timer' = [e \in B.Event |-> Box(B)!None]
        /\ linger' = {} /\ announce' = {} /\ fresh' = TRUE
        /\ UNCHANGED <<disk, relay, announced, cancelled>>
    BY <1>12 DEF Box!Kill
  <2>2. Typed(B)'
    BY <1>0, <2>1 DEF BoxInv, Typed, Box!TypeOK
  <2>3. Sound(B, entry)' /\ Sound(B, disk)'
    BY <2>1 DEF BoxInv, Sound, Box!Known
  <2>4. \A p \in added' : B.DependsOn[p] \subseteq added'
    BY <2>1 DEF BoxInv, Sound
  <2> QED BY <2>1, <2>2, <2>3, <2>4 DEF BoxInv, FlightReady, Box!BlobsFirst, Box!Known
<1>13. ASSUME NEW e \in B.Event, Box(B)!Accepted(e) \/ Box(B)!Offline(e) \/ Box(B)!TimedOut(e)
                               \/ \E verdict \in B.RelayVerdicts : Box(B)!Refused(e, verdict)
       PROVE  BoxInv(B)'
  BY <1>13, OutcomeBox
<1> QED BY <1>1, <1>2, <1>4, <1>5, <1>6, <1>7, <1>8, <1>9, <1>10, <1>11, <1>12, <1>13 DEF Box!Next

----------------------------------------------------------------------------
(* Nothing stops unseen, when connections come up between writes.           *)

\* What blocks a post depends on its blobs' marks, and on its being in the queue, only.
LEMMA BlockingSame ==
    ASSUME NEW B, NEW q, NEW r, NEW p, Box(B)!Known(q, p) <=> Box(B)!Known(r, p), \A b \in B.DependsOn[p] : q[b] = r[b]
    PROVE  Box(B)!Blocking(q, p) = Box(B)!Blocking(r, p)
  BY DEF Box!Blocking

\* A call of deliver() stops nothing: what it is called for flies, or the blobs it waits for do.
LEMMA CallsLive ==
    ASSUME NEW B, Box(B)!OutboxAssumption, LiveInv(B), NEW E \in SUBSET B.Event, NEW attempt \in 0..B.MaxResend,
           flight' = Box(B)!Deliver(entry, flight, E, attempt),
           UNCHANGED <<entry, disk, linger>>, added \subseteq added',
           \A x \in B.Event \ E : timer'[x] = timer[x] /\ (x \in added' => x \in added),
           \A x \in E : timer'[x] = Box(B)!None \/ timer'[x] = timer[x],
           \A b \in E \cap Blob(B) : /\ b \in added'
                                     /\ entry[b].status \in {"sending", "failed", "rejected"},
           \A x \in E : Box(B)!Known(entry, x) => B.DependsOn[x] \subseteq added,
           \A x \in B.Event \ E : entry[x].status = "sending" /\ fresh => fresh'
    PROVE  Orderly(B)' /\ Carried(B)'
<1>1. /\ flight \in [B.Event -> -1..B.MaxResend] /\ Orderly(B) /\ Carried(B)
  BY DEF LiveInv, BoxInv, Typed, Box!TypeOK
<1>0. DeliversWell(B, entry, flight, E, attempt)
  <2>1. flight \in Flights(B)
    BY <1>1 DEF Flights
  <2> QED BY <2>1, DeliverFacts
<1>2. \A e \in B.Event : flight[e] # Box(B)!None => flight'[e] # Box(B)!None
  BY <1>0 DEF DeliversWell
<1>3. \A e \in E : \/ flight'[e] # Box(B)!None
                   \/ /\ Box(B)!Blocking(entry, e) # {}
                      /\ \A b \in Box(B)!Blocking(entry, e) : flight'[b] # Box(B)!None
  BY <1>0 DEF DeliversWell
<1>4. \A e \in B.Event : flight'[e] # Box(B)!None =>
          \/ flight[e] # Box(B)!None
          \/ e \in E /\ Box(B)!Blocking(entry, e) = {}
          \/ \E o \in E : e \in Box(B)!Blocking(entry, o)
  BY DEF Box!Deliver, Box!Launched
<1>5. Orderly(B)'
  <2> SUFFICES ASSUME NEW b \in Blob(B)
               PROVE  /\ flight'[b] # Box(B)!None \/ timer'[b] # Box(B)!None \/ b \in linger' => b \in added'
                      /\ flight'[b] # Box(B)!None => entry'[b].status \in {"sending", "failed", "rejected"}
                      /\ b \in linger' => entry'[b].status \in {"confirmed", "none"}
                      /\ b \notin added' /\ Box(B)!Known(disk', b) => Box(B)!Known(entry', b)
                      /\ b \notin added' /\ Box(B)!Known(entry', b) => entry'[b].status = "sending"
    BY DEF Orderly
  <2>1. b \in B.Event
    BY DEF Blob
  <2>2. ASSUME flight'[b] # Box(B)!None
        PROVE  b \in added' /\ entry'[b].status \in {"sending", "failed", "rejected"}
    <3>1. CASE flight[b] # Box(B)!None
      BY <1>1, <3>1 DEF Orderly
    <3>2. CASE b \in E
      BY <3>2
    <3>3. CASE \E o \in E : b \in Box(B)!Blocking(entry, o)
      <4>1. PICK o \in E : b \in Box(B)!Blocking(entry, o)
        BY <3>3
      <4>2. Box(B)!Known(entry, o) /\ b \in B.DependsOn[o]
        BY <4>1 DEF Box!Blocking
      <4> QED BY <4>1, <4>2, BlockingFacts
    <3> QED BY <1>4, <2>1, <2>2, <3>1, <3>2, <3>3
  <2>3. timer'[b] # Box(B)!None => b \in added'
    BY <1>1, <2>1 DEF Orderly
  <2> QED BY <1>1, <2>2, <2>3 DEF Orderly, Box!Known
<1>6. \A x \in B.Event \ E : Box(B)!Moving(x) => Box(B)!Moving(x)'
  BY <1>2 DEF Box!Moving
<1>7. \A b \in Blob(B) : Box(B)!Moving(b) => Box(B)!Moving(b)'
  <2> SUFFICES ASSUME NEW b \in Blob(B), Box(B)!Moving(b) PROVE Box(B)!Moving(b)'
    OBVIOUS
  <2>1. b \in B.Event /\ Box(B)!Blocking(entry, b) = {}
    BY BlockingFacts DEF Blob
  <2>2. CASE b \in E
    BY <1>3, <2>1, <2>2 DEF Box!Moving
  <2> QED BY <1>6, <2>1, <2>2
<1>8. Carried(B)'
  <2> SUFFICES ASSUME NEW x \in B.Event, entry'[x].status = "sending", ~fresh', ~Box(B)!Moving(x)'
               PROVE  Box(B)!Blocking(entry', x) # {} /\ \A b \in Box(B)!Blocking(entry', x) : Box(B)!Moving(b)'
    BY DEF Carried
  <2>1. Box(B)!Blocking(entry', x) = Box(B)!Blocking(entry, x)
    OBVIOUS
  <2>2. CASE x \in E
    BY <1>3, <2>1, <2>2 DEF Box!Moving
  <2>3. CASE x \notin E
    <3>1. ~Box(B)!Moving(x) /\ ~fresh
      BY <1>6, <2>3
    <3>2. Box(B)!Blocking(entry, x) # {} /\ \A b \in Box(B)!Blocking(entry, x) : Box(B)!Moving(b)
      BY <1>1, <3>1 DEF Carried
    <3> QED BY <1>7, <2>1, <3>2, BlockingFacts
  <2> QED BY <2>2, <2>3
<1> QED BY <1>5, <1>8

\* The end of an attempt stops nothing: the event is settled, or will be tried again, and the
\* posts that waited for it are sent, marked like it, or wait for other blobs.
LEMMA EndsLive ==
    ASSUME NEW B, Box(B)!OutboxAssumption, LiveInv(B), NEW e \in B.Event, flight[e] # Box(B)!None,
           NEW new \in Entry(B), NEW t, Box(B)!Ends(e, Box(B)!Marked(e, new), t),
           new.status # "none", new.status = "confirmed" => e \in relay,
           new.status = "sending" => t # Box(B)!None \/ new.offline,
           \A x \in linger' : x \in linger \/ (x = e /\ new.status = "confirmed")
    PROVE  Orderly(B)' /\ Carried(B)'
<1> DEFINE q == Box(B)!Marked(e, new)
           after == Box(B)!AfterBlob(q, e)
           landed == [flight EXCEPT ![e] = Box(B)!None]
           E == Box(B)!Advanced(q, e)
<1>1. /\ entry' = after /\ flight' = Box(B)!Deliver(after, landed, E, 0)
      /\ timer' = [timer EXCEPT ![e] = t]
      /\ UNCHANGED <<disk, added, fresh>>
  BY DEF Box!Ends
<1>2. /\ flight \in [B.Event -> -1..B.MaxResend] /\ timer \in [B.Event -> -1..B.MaxResend]
      /\ entry \in [B.Event -> Entry(B)] /\ 0 \in 0..B.MaxResend /\ BoxInv(B) /\ Orderly(B) /\ Carried(B)
  BY DEF LiveInv, BoxInv, Typed, Box!TypeOK, Entry, Box!OutboxAssumption
<1>3. /\ q \in [B.Event -> Entry(B)]
      /\ \A x \in B.Event : Box(B)!Known(entry, x) <=> Box(B)!Known(q, x)
      /\ \A x \in B.Event : x # e => q[x] = entry[x]
  BY <1>2, MarkedSound
<1>4. q[e] = IF Box(B)!Known(entry, e) THEN new ELSE entry[e]
  BY <1>2 DEF Box!Marked
<1>5. /\ after \in [B.Event -> Entry(B)]
      /\ \A x \in B.Event : Box(B)!Known(after, x) <=> Box(B)!Known(q, x)
      /\ \A x \in B.Event : x \notin Box(B)!Waiting(q, e) => after[x] = q[x]
      /\ \A x \in Blob(B) : x \notin Box(B)!Waiting(q, e)
  BY <1>3, AfterBlobFacts
<1>6. /\ landed \in [B.Event -> -1..B.MaxResend] /\ landed[e] = Box(B)!None
      /\ \A x \in B.Event : x # e => landed[x] = flight[x]
  BY <1>2 DEF Box!None, Box!OutboxAssumption
<1>7. E \in SUBSET B.Event /\ E \subseteq Box(B)!Waiting(q, e)
  BY DEF Box!Advanced, Box!Waiting
<1>8. e \notin Box(B)!Waiting(q, e)
  BY BlobFacts DEF Box!Waiting, Box!OutboxAssumption
<1>9. after[e] = q[e] /\ \A b \in Blob(B) : b # e => after[b] = entry[b]
  BY <1>3, <1>5, <1>8 DEF Blob
<1>10. \A x \in B.Event : Box(B)!Blocking(after, x) = Box(B)!Blocking(q, x)
  <2> SUFFICES ASSUME NEW x \in B.Event PROVE Box(B)!Blocking(after, x) = Box(B)!Blocking(q, x)
    OBVIOUS
  <2>1. \A b \in B.DependsOn[x] : after[b] = q[b]
    BY <1>5, BlobFacts
  <2> QED BY <1>5, <2>1, BlockingSame
<1>11. \A x \in B.Event : landed[x] # Box(B)!None => flight'[x] # Box(B)!None
  BY <1>1 DEF Box!Deliver
<1>12. \A x \in E : flight'[x] # Box(B)!None
  <2> HIDE DEF after, landed, E
  <2>1. \A x \in E : \/ Box(B)!Deliver(after, landed, E, 0)[x] # Box(B)!None
                     \/ /\ Box(B)!Blocking(after, x) # {}
                        /\ \A b \in Box(B)!Blocking(after, x) : Box(B)!Deliver(after, landed, E, 0)[b] # Box(B)!None
    <3>1. landed \in Flights(B)
      BY <1>6 DEF Flights
    <3>2. DeliversWell(B, after, landed, E, 0)
      BY <1>2, <1>7, <3>1, DeliverFacts
    <3> QED BY <3>2 DEF DeliversWell
  <2>2. \A x \in E : Box(B)!Blocking(after, x) = {}
    BY <1>7, <1>10 DEF Box!Advanced, E
  <2> QED BY <1>1, <2>1, <2>2
<1>13. \A b \in Blob(B) : flight'[b] # Box(B)!None => b # e /\ flight[b] # Box(B)!None
  <2> SUFFICES ASSUME NEW b \in Blob(B), flight'[b] # Box(B)!None PROVE b # e /\ flight[b] # Box(B)!None
    OBVIOUS
  <2>1. b \in B.Event /\ b \notin E
    BY <1>5, <1>7 DEF Blob
  <2>2. b \notin Box(B)!Launched(after, E)
    <3>1. \A x \in E : Box(B)!Blocking(after, x) = {}
      BY <1>7, <1>10 DEF Box!Advanced
    <3> QED BY <2>1, <3>1 DEF Box!Launched
  <2>3. flight'[b] = landed[b]
    BY <1>1, <2>1, <2>2 DEF Box!Deliver
  <2> QED BY <1>6, <2>1, <2>3
<1>14. Orderly(B)'
  <2> SUFFICES ASSUME NEW b \in Blob(B)
               PROVE  /\ flight'[b] # Box(B)!None \/ timer'[b] # Box(B)!None \/ b \in linger' => b \in added'
                      /\ flight'[b] # Box(B)!None => entry'[b].status \in {"sending", "failed", "rejected"}
                      /\ b \in linger' => entry'[b].status \in {"confirmed", "none"}
                      /\ b \notin added' /\ Box(B)!Known(disk', b) => Box(B)!Known(entry', b)
                      /\ b \notin added' /\ Box(B)!Known(entry', b) => entry'[b].status = "sending"
    BY DEF Orderly
  <2>1. b \in B.Event
    BY DEF Blob
  <2>2. CASE b = e
    <3>1. b \in added' /\ flight'[b] = Box(B)!None
      BY <1>1, <1>2, <1>13, <2>2 DEF Orderly
    <3>2. b \in linger' => entry'[b].status \in {"confirmed", "none"}
      BY <1>1, <1>2, <1>4, <1>9, <2>2 DEF Orderly, Box!Known
    <3> QED BY <3>1, <3>2
  <2>3. CASE b # e
    <3>1. entry'[b] = entry[b] /\ timer'[b] = timer[b] /\ (b \in linger' => b \in linger)
      BY <1>1, <1>2, <1>9, <2>1, <2>3
    <3> QED BY <1>1, <1>2, <1>13, <3>1 DEF Orderly, Box!Known
  <2> QED BY <2>2, <2>3
<1>15. \A x \in B.Event : x # e /\ entry'[x] = entry[x] /\ Box(B)!Moving(x) => Box(B)!Moving(x)'
  BY <1>1, <1>2, <1>6, <1>11 DEF Box!Moving
<1>16. entry'[e].status = "sending" => Box(B)!Moving(e)'
  <2> SUFFICES ASSUME entry'[e].status = "sending" PROVE Box(B)!Moving(e)'
    OBVIOUS
  <2>1. entry'[e] = q[e] /\ Box(B)!Known(entry, e)
    BY <1>1, <1>4, <1>9 DEF Box!Known
  <2>2. entry'[e] = new /\ timer'[e] = t
    BY <1>1, <1>2, <1>4, <2>1
  <2> QED BY <2>2 DEF Box!Moving
<1>17. Carried(B)'
  <2> SUFFICES ASSUME NEW x \in B.Event, entry'[x].status = "sending", ~fresh', ~Box(B)!Moving(x)'
               PROVE  Box(B)!Blocking(entry', x) # {} /\ \A b \in Box(B)!Blocking(entry', x) : Box(B)!Moving(b)'
    BY DEF Carried
  <2>1. x # e
    BY <1>16
  <2>2. Box(B)!Blocking(entry', x) = Box(B)!Blocking(q, x)
    BY <1>1, <1>10
  <2>3. CASE x \in Box(B)!Waiting(q, e)
    <3>1. after[x] = IF q[e].status \in {"rejected", "failed"} THEN [q[x] EXCEPT !.status = q[e].status]
                     ELSE IF Box(B)!Blocking(q, x) # {} /\ q[e] = [status |-> "sending", offline |-> TRUE]
                          THEN [status |-> "sending", offline |-> TRUE]
                     ELSE q[x]
      BY <2>3 DEF Box!AfterBlob
    <3>2. q[e].status \notin {"rejected", "failed"}
      <4>1. ASSUME q[e].status \in {"rejected", "failed"} PROVE after[x].status = q[e].status
        BY <1>3, <3>1, <4>1 DEF Entry
      <4> QED BY <1>1, <4>1
    <3>3. after[x] = q[x]
      <4>1. ASSUME after[x] = [status |-> "sending", offline |-> TRUE] PROVE FALSE
        <5>1. entry'[x].offline
          BY <1>1, <4>1
        <5> QED BY <5>1 DEF Box!Moving
      <4> QED BY <3>1, <3>2, <4>1
    <3>4. Box(B)!Blocking(q, x) # {}
      <4>1. x \notin E
        BY <1>12 DEF Box!Moving
      <4> QED BY <2>3, <3>2, <4>1 DEF Box!Advanced
    <3>5. entry'[x] = entry[x] /\ ~Box(B)!Moving(x) /\ ~fresh
      BY <1>1, <1>3, <1>15, <2>1, <3>3
    <3>6. \A b \in Box(B)!Blocking(entry, x) : Box(B)!Moving(b)
      BY <1>2, <3>5 DEF Carried
    <3>7. \A b \in Box(B)!Blocking(q, x) : Box(B)!Moving(b)'
      <4> SUFFICES ASSUME NEW b \in Box(B)!Blocking(q, x) PROVE Box(B)!Moving(b)'
        OBVIOUS
      <4>1. b \in B.Event /\ b \in Blob(B) /\ q[b].status \in {"sending", "failed", "rejected"}
        BY BlockingFacts
      <4>2. CASE b = e
        BY <1>1, <1>9, <1>16, <3>2, <4>1, <4>2
      <4>3. CASE b # e
        <5>1. b \in Box(B)!Blocking(entry, x) /\ entry'[b] = entry[b]
          BY <1>1, <1>3, <1>9, <4>1, <4>3 DEF Box!Blocking
        <5> QED BY <1>15, <3>6, <4>1, <4>3, <5>1
      <4> QED BY <4>2, <4>3
    <3> QED BY <2>2, <3>4, <3>7
  <2>4. CASE x \notin Box(B)!Waiting(q, e)
    <3>1. entry'[x] = entry[x] /\ ~Box(B)!Moving(x) /\ ~fresh
      BY <1>1, <1>3, <1>5, <1>15, <2>1, <2>4
    <3>2. e \notin B.DependsOn[x]
      BY <1>3, <2>4, <3>1 DEF Box!Waiting, Box!Known
    <3>3. Box(B)!Blocking(q, x) = Box(B)!Blocking(entry, x)
      <4>1. \A b \in B.DependsOn[x] : q[b] = entry[b]
        BY <1>3, <3>2, BlobFacts
      <4> QED BY <1>3, <4>1, BlockingSame
    <3>4. Box(B)!Blocking(entry, x) # {} /\ \A b \in Box(B)!Blocking(entry, x) : Box(B)!Moving(b)
      BY <1>2, <3>1 DEF Carried
    <3>5. \A b \in Box(B)!Blocking(entry, x) : b \in B.Event /\ b # e /\ entry'[b] = entry[b]
      BY <1>1, <1>9, <3>2, BlockingFacts
    <3> QED BY <1>15, <2>2, <3>3, <3>4, <3>5
  <2> QED BY <2>3, <2>4
<1> QED BY <1>14, <1>17

\* A post, or a blob that has landed, leaves "sending": nothing else changes.
LEMMA SettledLive ==
    ASSUME NEW B, Box(B)!OutboxAssumption, LiveInv(B), NEW e \in B.Event, entry'[e].status # "sending",
           \A x \in B.Event : x # e => entry'[x] = entry[x] /\ timer'[x] = timer[x],
           \/ e \in Box(B)!Post
           \/ {entry[e].status, entry'[e].status} \subseteq {"confirmed", "none"}
              /\ e \in added /\ timer' = timer,
           UNCHANGED <<flight, disk, added, fresh>>,
           \A x \in linger' : x \in linger \/ x \in Box(B)!Post
    PROVE  Orderly(B)' /\ Carried(B)'
<1>1. Orderly(B) /\ Carried(B)
  BY DEF LiveInv
<1>2. \A b \in Blob(B) : b \in B.Event /\ b \notin Box(B)!Post
  BY DEF Blob
<1>3. Orderly(B)'
  <2> SUFFICES ASSUME NEW b \in Blob(B)
               PROVE  /\ flight'[b] # Box(B)!None \/ timer'[b] # Box(B)!None \/ b \in linger' => b \in added'
                      /\ flight'[b] # Box(B)!None => entry'[b].status \in {"sending", "failed", "rejected"}
                      /\ b \in linger' => entry'[b].status \in {"confirmed", "none"}
                      /\ b \notin added' /\ Box(B)!Known(disk', b) => Box(B)!Known(entry', b)
                      /\ b \notin added' /\ Box(B)!Known(entry', b) => entry'[b].status = "sending"
    BY DEF Orderly
  <2>1. CASE b = e
    BY <1>1, <1>2, <2>1 DEF Orderly, Box!Known
  <2>2. CASE b # e
    BY <1>1, <1>2, <2>2 DEF Orderly, Box!Known
  <2> QED BY <2>1, <2>2
<1>4. ASSUME NEW x \in B.Event, x # e PROVE Box(B)!Moving(x) <=> Box(B)!Moving(x)'
  BY <1>4 DEF Box!Moving
<1>5. Carried(B)'
  <2> SUFFICES ASSUME NEW x \in B.Event, entry'[x].status = "sending", ~fresh', ~Box(B)!Moving(x)'
               PROVE  Box(B)!Blocking(entry', x) # {} /\ \A b \in Box(B)!Blocking(entry', x) : Box(B)!Moving(b)'
    BY DEF Carried
  <2>1. x # e /\ entry'[x] = entry[x] /\ ~Box(B)!Moving(x) /\ ~fresh
    BY <1>4
  <2>2. Box(B)!Blocking(entry, x) # {} /\ \A b \in Box(B)!Blocking(entry, x) : Box(B)!Moving(b)
    BY <1>1, <2>1 DEF Carried
  <2>3. \A b \in B.DependsOn[x] : b \in B.Event /\ b \notin Box(B)!Post
    BY BlobFacts
  <2>4. Box(B)!Blocking(entry', x) = Box(B)!Blocking(entry, x)
    BY <2>1, <2>3 DEF Box!Blocking, Box!Known
  <2>5. \A b \in Box(B)!Blocking(entry', x) : b \in B.Event /\ b # e
    BY <2>3 DEF Box!Blocking
  <2> QED BY <1>4, <2>2, <2>4, <2>5
<1> QED BY <1>3, <1>5

LEMMA InitLive ==
    ASSUME NEW B, Box(B)!OutboxAssumption, Box(B)!Init
    PROVE  LiveInv(B)
<1>1. BoxInv(B)
  BY InitBox
<1>2. \A e \in B.Event : flight[e] = Box(B)!None /\ timer[e] = Box(B)!None /\ entry[e] = Box(B)!NoEntry /\ disk[e] = Box(B)!NoEntry
  BY DEF Box!Init
<1>3. Orderly(B) /\ Carried(B)
  BY <1>2 DEF Box!Init, Orderly, Carried, Box!NoEntry, Box!Known, Blob
<1> QED BY <1>1, <1>3 DEF LiveInv

LEMMA StepLive ==
    ASSUME NEW B, Box(B)!OutboxAssumption, ~B.EarlyFlush, LiveInv(B), Box(B)!Next \/ UNCHANGED Box(B)!vars
    PROVE  LiveInv(B)'
<1>0. /\ BoxInv(B) /\ Orderly(B) /\ Carried(B)
      /\ entry \in [B.Event -> Entry(B)] /\ timer \in [B.Event -> -1..B.MaxResend]
      /\ flight \in [B.Event -> -1..B.MaxResend]
      /\ B.MaxResend \in Nat /\ 0 \in 0..B.MaxResend
      /\ \A x \in B.Event : Box(B)!Known(entry, x) => B.DependsOn[x] \subseteq added
      /\ \A x \in B.Event : timer[x] # Box(B)!None => timer[x] < B.MaxResend
  BY DEF LiveInv, BoxInv, Typed, Box!TypeOK, Entry, Box!OutboxAssumption, Sound
<1>1. BoxInv(B)'
  BY <1>0, StepBox
<1>2. CASE UNCHANGED Box(B)!vars
  <2>1. Orderly(B)' /\ Carried(B)'
    BY <1>0, <1>2 DEF Box!vars, Orderly, Carried, Box!Known, Box!Moving, Box!Blocking
  <2> QED BY <1>1, <2>1 DEF LiveInv
<1>3. CASE Box(B)!Persist
  <2>1. disk' = entry /\ UNCHANGED <<entry, added, flight, timer, linger, fresh>>
    BY <1>3 DEF Box!Persist
  <2>2. Orderly(B)'
    BY <1>0, <2>1 DEF Orderly, Box!Known
  <2>3. Carried(B)'
    BY <1>0, <2>1 DEF Carried, Box!Moving, Box!Blocking, Box!Known
  <2> QED BY <1>1, <2>2, <2>3 DEF LiveInv
<1>4. CASE Box(B)!Flush
  <2>1. /\ flight' = Box(B)!Deliver(entry, flight, Box(B)!Unsent, 0) /\ Box(B)!Settled
        /\ UNCHANGED <<entry, disk, linger, added, timer>>
    BY <1>4 DEF Box!Flush, Box!Calls
  <2>2. /\ Box(B)!Unsent \in SUBSET B.Event
        /\ \A x \in Box(B)!Unsent : Box(B)!Known(entry, x) /\ entry[x].status \in {"sending", "failed"}
        /\ \A x \in B.Event : entry[x].status = "sending" => x \in Box(B)!Unsent
    BY <1>0 DEF Box!Unsent, Box!Known, Entry, Box!Status
  <2>3. \A x \in Box(B)!Unsent : x \in added /\ B.DependsOn[x] \subseteq added
    BY <1>0, <2>1, <2>2 DEF Box!Settled
  <2>4. Orderly(B)' /\ Carried(B)'
    BY <1>0, <2>1, <2>2, <2>3, CallsLive
  <2> QED BY <1>1, <2>4 DEF LiveInv
<1>5. ASSUME NEW e \in B.Event, Box(B)!Sent(e) PROVE LiveInv(B)'
  <2>1. /\ flight' = Box(B)!Deliver(entry, flight, {e}, 0) /\ added' = added \cup {e}
        /\ e \notin added /\ Box(B)!Known(disk, e)
        /\ UNCHANGED <<entry, disk, linger, timer, fresh>>
    BY <1>5 DEF Box!Sent, Box!Calls
  <2>2. e \in Blob(B) => entry[e].status = "sending"
    BY <1>0, <2>1 DEF Orderly
  <2>3. {e} \in SUBSET B.Event
    OBVIOUS
  <2>4. Orderly(B)' /\ Carried(B)'
    BY <1>0, <2>1, <2>2, <2>3, CallsLive
  <2> QED BY <1>1, <2>4 DEF LiveInv
<1>6. ASSUME NEW e \in B.Event, Box(B)!Retry(e) PROVE LiveInv(B)'
  <2>1. /\ flight' = Box(B)!Deliver(entry, flight, {e}, 0) /\ e \in Box(B)!Post
        /\ UNCHANGED <<entry, disk, linger, timer, added, fresh>>
    BY <1>6 DEF Box!Retry, Box!Calls
  <2>2. {e} \in SUBSET B.Event /\ {e} \cap Blob(B) = {}
    BY <2>1 DEF Blob
  <2>3. Orderly(B)' /\ Carried(B)'
    BY <1>0, <2>1, <2>2, CallsLive
  <2> QED BY <1>1, <2>3 DEF LiveInv
<1>7. ASSUME NEW e \in B.Event, Box(B)!Fire(e) PROVE LiveInv(B)'
  <2>1. /\ timer' = [timer EXCEPT ![e] = Box(B)!None] /\ timer[e] # Box(B)!None
        /\ UNCHANGED <<entry, disk, added, linger, fresh>>
    BY <1>7 DEF Box!Fire
  <2>2. timer'[e] = Box(B)!None /\ \A x \in B.Event : x # e => timer'[x] = timer[x]
    BY <1>0, <2>1
  <2>3. CASE entry[e].status = "sending"
    <3>1. flight' = Box(B)!Deliver(entry, flight, {e}, timer[e] + 1)
      BY <1>7, <2>3 DEF Box!Fire, Box!Calls
    <3>2. timer[e] + 1 \in 0..B.MaxResend
      BY <1>0, <2>1 DEF Box!None
    <3>3. {e} \in SUBSET B.Event /\ (e \in Blob(B) => e \in added)
      BY <1>0, <2>1 DEF Orderly
    <3>4. Orderly(B)' /\ Carried(B)'
      BY <1>0, <2>1, <2>2, <2>3, <3>1, <3>2, <3>3, CallsLive
    <3> QED BY <1>1, <3>4 DEF LiveInv
  <2>4. CASE entry[e].status # "sending"
    <3>1. UNCHANGED flight
      BY <1>7, <2>4 DEF Box!Fire
    <3>2. \A x \in B.Event : Box(B)!Moving(x) <=> Box(B)!Moving(x)'
      BY <2>1, <2>2, <2>4, <3>1 DEF Box!Moving
    <3>3. Orderly(B)'
      BY <1>0, <2>1, <2>2, <3>1 DEF Orderly, Box!Known, Blob
    <3>4. Carried(B)'
      <4>1. \A x \in B.Event : Box(B)!Blocking(entry', x) = Box(B)!Blocking(entry, x)
                             /\ \A b \in Box(B)!Blocking(entry, x) : b \in B.Event
        BY <2>1, BlockingFacts
      <4> QED BY <1>0, <2>1, <3>2, <4>1 DEF Carried
    <3> QED BY <1>1, <3>3, <3>4 DEF LiveInv
  <2> QED BY <2>3, <2>4
<1>8. ASSUME NEW e \in B.Event, Box(B)!Add(e) PROVE LiveInv(B)'
  <2>1. /\ ~Box(B)!Known(entry, e) /\ e \notin added
        /\ entry' = [entry EXCEPT ![e] = Box(B)!In("sending")]
        /\ UNCHANGED <<disk, added, flight, timer, linger, fresh>>
    BY <1>8 DEF Box!Add
  <2>2. /\ entry'[e].status = "sending" /\ Box(B)!Known(entry', e)
        /\ \A x \in B.Event : x # e => entry'[x] = entry[x]
    BY <1>0, <2>1 DEF Box!In, Box!Known
  <2>3. Box(B)!Moving(e)' /\ \A x \in B.Event : x # e => (Box(B)!Moving(x) <=> Box(B)!Moving(x)')
    BY <2>1, <2>2 DEF Box!Moving
  <2>4. Orderly(B)'
    <3> SUFFICES ASSUME NEW b \in Blob(B)
                 PROVE  /\ flight'[b] # Box(B)!None \/ timer'[b] # Box(B)!None \/ b \in linger' => b \in added'
                        /\ flight'[b] # Box(B)!None => entry'[b].status \in {"sending", "failed", "rejected"}
                        /\ b \in linger' => entry'[b].status \in {"confirmed", "none"}
                        /\ b \notin added' /\ Box(B)!Known(disk', b) => Box(B)!Known(entry', b)
                        /\ b \notin added' /\ Box(B)!Known(entry', b) => entry'[b].status = "sending"
      BY DEF Orderly
    <3>1. b \in B.Event
      BY DEF Blob
    <3>2. CASE b = e
      BY <1>0, <2>1, <2>2, <3>2 DEF Orderly
    <3>3. CASE b # e
      BY <1>0, <2>1, <2>2, <3>1, <3>3 DEF Orderly, Box!Known
    <3> QED BY <3>2, <3>3
  <2>5. Carried(B)'
    <3> SUFFICES ASSUME NEW x \in B.Event, entry'[x].status = "sending", ~fresh', ~Box(B)!Moving(x)'
                 PROVE  Box(B)!Blocking(entry', x) # {} /\ \A b \in Box(B)!Blocking(entry', x) : Box(B)!Moving(b)'
      BY DEF Carried
    <3>1. x # e /\ entry'[x] = entry[x] /\ ~Box(B)!Moving(x) /\ ~fresh
      BY <2>1, <2>2, <2>3
    <3>2. Box(B)!Blocking(entry, x) # {} /\ \A b \in Box(B)!Blocking(entry, x) : Box(B)!Moving(b)
      BY <1>0, <3>1 DEF Carried
    <3>3. B.DependsOn[x] \subseteq added
      BY <1>0, <3>1 DEF Box!Known
    <3>4. \A b \in B.DependsOn[x] : b \in B.Event /\ b # e /\ entry'[b] = entry[b]
      BY <2>1, <2>2, <3>3, BlobFacts
    <3>5. Box(B)!Blocking(entry', x) = Box(B)!Blocking(entry, x)
      BY <3>1, <3>4 DEF Box!Blocking, Box!Known
    <3>6. \A b \in Box(B)!Blocking(entry', x) : b \in B.Event /\ b # e
      BY <3>4 DEF Box!Blocking
    <3> QED BY <2>3, <3>2, <3>5, <3>6
  <2> QED BY <1>1, <2>4, <2>5 DEF LiveInv
<1>9. ASSUME NEW e \in B.Event, Box(B)!Echo(e) PROVE LiveInv(B)'
  <2>1. /\ e \in Box(B)!Post
        /\ entry' = [entry EXCEPT ![e] = Box(B)!In("confirmed")] /\ timer' = [timer EXCEPT ![e] = Box(B)!None]
        /\ linger' = linger \cup {e}
        /\ UNCHANGED <<disk, added, flight, fresh>>
    BY <1>9 DEF Box!Echo, Box!Confirmed
  <2>2. /\ entry'[e].status = "confirmed"
        /\ \A x \in B.Event : x # e => entry'[x] = entry[x] /\ timer'[x] = timer[x]
    BY <1>0, <2>1 DEF Box!In
  <2>3. Orderly(B)' /\ Carried(B)'
    BY <2>1, <2>2, SettledLive
  <2> QED BY <1>1, <2>3 DEF LiveInv
<1>10. ASSUME NEW e \in B.Event, Box(B)!Sweep(e) PROVE LiveInv(B)'
  <2>1. /\ e \in linger /\ linger' = linger \ {e}
        /\ entry' = [entry EXCEPT ![e] = Box(B)!NoEntry]
        /\ UNCHANGED <<disk, added, flight, timer, fresh>>
    BY <1>10 DEF Box!Sweep
  <2>2. /\ entry'[e].status = "none"
        /\ \A x \in B.Event : x # e => entry'[x] = entry[x] /\ timer'[x] = timer[x]
    BY <1>0, <2>1 DEF Box!NoEntry
  <2>3. e \in Box(B)!Post \/ (entry[e].status \in {"confirmed", "none"} /\ e \in added)
    BY <1>0, <2>1 DEF Orderly, Blob
  <2>4. Orderly(B)' /\ Carried(B)'
    BY <2>1, <2>2, <2>3, SettledLive
  <2> QED BY <1>1, <2>4 DEF LiveInv
<1>11. ASSUME NEW e \in B.Event, Box(B)!Cancel(e) PROVE LiveInv(B)'
  <2>1. /\ e \in Box(B)!Post
        /\ entry' = [entry EXCEPT ![e] = Box(B)!NoEntry] /\ timer' = [timer EXCEPT ![e] = Box(B)!None]
        /\ UNCHANGED <<disk, added, flight, fresh, linger>>
    BY <1>11 DEF Box!Cancel
  <2>2. /\ entry'[e].status = "none"
        /\ \A x \in B.Event : x # e => entry'[x] = entry[x] /\ timer'[x] = timer[x]
    BY <1>0, <2>1 DEF Box!NoEntry
  <2>3. Orderly(B)' /\ Carried(B)'
    BY <2>1, <2>2, SettledLive
  <2> QED BY <1>1, <2>3 DEF LiveInv
<1>12. ASSUME NEW e \in B.Event, Box(B)!RelayStores(e) PROVE LiveInv(B)'
  <2>1. UNCHANGED <<entry, disk, added, flight, timer, linger, fresh>>
    BY <1>12 DEF Box!RelayStores
  <2>2. Orderly(B)' /\ Carried(B)'
    BY <1>0, <2>1 DEF Orderly, Carried, Box!Moving, Box!Blocking, Box!Known
  <2> QED BY <1>1, <2>2 DEF LiveInv
<1>13. CASE Box(B)!Kill
  <2>1. /\ entry' = disk /\ added' = added \cup {e \in B.Event : Box(B)!Known(disk, e)} /\ disk' = disk
        /\ flight' = [e \in B.Event |-> Box(B)!None] /\ timer' = [e \in B.Event |-> Box(B)!None]
        /\ linger' = {} /\ fresh' = TRUE
    BY <1>13 DEF Box!Kill
  <2>2. Orderly(B)'
    BY <2>1 DEF Orderly, Blob, Box!Known
  <2>3. Carried(B)'
    BY <2>1 DEF Carried
  <2> QED BY <1>1, <2>2, <2>3 DEF LiveInv
<1>14. ASSUME NEW e \in B.Event, Box(B)!Accepted(e) \/ Box(B)!Offline(e) \/ Box(B)!TimedOut(e)
                               \/ \E verdict \in B.RelayVerdicts : Box(B)!Refused(e, verdict)
       PROVE  LiveInv(B)'
  <2>1. PICK new \in Entry(B), t \in {Box(B)!None, timer[e], flight[e]} :
          /\ flight[e] # Box(B)!None /\ Box(B)!Ends(e, Box(B)!Marked(e, new), t)
          /\ new.status # "none" /\ (new.status = "confirmed" => e \in relay)
          /\ new.status = "sending" => t # Box(B)!None \/ new.offline
          /\ \A x \in linger' : x \in linger \/ (x = e /\ new.status = "confirmed")
    <3>0. /\ \A mark \in Box(B)!Status : Box(B)!In(mark) \in Entry(B) /\ Box(B)!In(mark).status = mark
          /\ [status |-> "sending", offline |-> TRUE] \in Entry(B)
      BY DEF Box!In, Entry, Box!Status
    <3>1. CASE Box(B)!Accepted(e)
      <4> Box(B)!In("confirmed") \in Entry(B)
        BY <3>0 DEF Box!Status
      <4> WITNESS Box(B)!In("confirmed") \in Entry(B), Box(B)!None \in {Box(B)!None, timer[e], flight[e]}
      <4> QED BY <3>0, <3>1 DEF Box!Accepted, Box!Confirmed, Box!Status
    <3>2. CASE Box(B)!Offline(e)
      <4> Box(B)!Resend(flight[e]) \in {Box(B)!None, timer[e], flight[e]}
        BY DEF Box!Resend
      <4> [status |-> "sending", offline |-> TRUE] \in Entry(B)
        BY <3>0
      <4> WITNESS [status |-> "sending", offline |-> TRUE] \in Entry(B),
                  Box(B)!Resend(flight[e]) \in {Box(B)!None, timer[e], flight[e]}
      <4> QED BY <3>0, <3>2 DEF Box!Offline
    <3>3. CASE Box(B)!TimedOut(e) /\ flight[e] < B.MaxResend
      <4> Box(B)!In("sending") \in Entry(B)
        BY <3>0 DEF Box!Status
      <4> WITNESS Box(B)!In("sending") \in Entry(B), flight[e] \in {Box(B)!None, timer[e], flight[e]}
      <4> QED BY <3>0, <3>3 DEF Box!TimedOut, Box!Status
    <3>4. CASE Box(B)!TimedOut(e) /\ ~(flight[e] < B.MaxResend)
      <4> Box(B)!In("failed") \in Entry(B)
        BY <3>0 DEF Box!Status
      <4> WITNESS Box(B)!In("failed") \in Entry(B), timer[e] \in {Box(B)!None, timer[e], flight[e]}
      <4> QED BY <3>0, <3>4 DEF Box!TimedOut, Box!Status
    <3>5. CASE \E verdict \in B.RelayVerdicts : Box(B)!Refused(e, verdict)
      <4>1. PICK mark \in {"rejected", "failed"} :
                Box(B)!Ends(e, Box(B)!Marked(e, Box(B)!In(mark)), timer[e]) /\ flight[e] # Box(B)!None /\ UNCHANGED linger
        BY <3>5 DEF Box!Refused
      <4> Box(B)!In(mark) \in Entry(B)
        BY <3>0 DEF Box!Status
      <4> WITNESS Box(B)!In(mark) \in Entry(B), timer[e] \in {Box(B)!None, timer[e], flight[e]}
      <4> QED BY <3>0, <4>1 DEF Box!Status
    <3> QED BY <1>14, <3>1, <3>2, <3>3, <3>4, <3>5
  <2>2. Orderly(B)' /\ Carried(B)'
    BY <2>1, EndsLive
  <2> QED BY <1>1, <2>2 DEF LiveInv
<1> QED BY <1>2, <1>3, <1>4, <1>5, <1>6, <1>7, <1>8, <1>9, <1>10, <1>11, <1>12, <1>13, <1>14 DEF Box!Next

----------------------------------------------------------------------------
(* The writes that wait for tokens.                                         *)

\* The types, and that what is queued, stored, signed or given up was composed.
QueueTyped(Q) ==
    /\ Pending(Q)!TypeOK
    /\ account \in Q.Account /\ loading \in BOOLEAN /\ composed \subseteq Q.Write /\ closed \subseteq composed
    /\ \A a \in Q.Account : disk[a] \subseteq composed
    /\ published \in [Q.Write -> Seq(Q.Account)] /\ kills \in Nat /\ switches \in Nat

\* Without media nothing is between signing and publishing, so the silo guard's answer holds.
HomeInv(Q) == ~Q.HasBlobs => (\A j \in jobs : j.st # "blobs") /\ Pending(Q)!PublishedHome

\* In one account and process a write is in one place: queued, with one caller, or published.
OneInv(Q) ==
    /\ ~loading
    /\ \A w \in Q.Write \ composed : published[w] = <<>>
    /\ \A w \in pending : published[w] = <<>> /\ \A j \in jobs : j.write # w
    /\ \A j, k \in jobs : j.write = k.write => j = k
    /\ \A j \in jobs : j.st # "saving" => published[j.write] = <<>>
    /\ Pending(Q)!PublishedOnce

\* In one account the stored queue keeps a failed write until it is published or given up: a
\* write that is being saved is published, so the queue that is then stored may lack it.
KeptInv(Q) ==
    /\ \A w \in composed : Q.Owner[w] = account
    /\ \A j \in jobs : j.st = "saving" => published[j.write] # <<>>
    /\ \A w \in kept : published[w] # <<>> \/ w \in closed \/ w \in disk[Q.Owner[w]]

LEMMA QueueInit ==
    ASSUME NEW Q, Pending(Q)!PendingWritesAssumption, Pending(Q)!Init
    PROVE  QueueTyped(Q) /\ HomeInv(Q) /\ OneInv(Q) /\ KeptInv(Q)
<1>1. published = [w \in Q.Write |-> <<>>] /\ <<>> \in Seq(Q.Account)
  BY DEF Pending!Init
<1>2. \A w \in Q.Write : published[w] = <<>> /\ Len(published[w]) <= 1 /\ DOMAIN published[w] = {}
  BY <1>1
<1>3. QueueTyped(Q)
  BY <1>1 DEF Pending!Init, QueueTyped, Pending!TypeOK
<1> QED BY <1>2, <1>3 DEF Pending!Init, HomeInv, OneInv, KeptInv, Pending!PublishedHome, Pending!PublishedOnce

\* The caller a job is given is free.
LEMMA FreshRun ==
    ASSUME NEW Q, Pending(Q)!FreeRun # {}
    PROVE  Pending(Q)!NewRun \in 1..Q.MaxRun /\ \A j \in jobs : j.run # Pending(Q)!NewRun
  BY DEF Pending!NewRun, Pending!FreeRun

\* A caller that moves on is still the only one at work in its run.
LEMMA MovedFacts ==
    ASSUME NEW Q, QueueTyped(Q), NEW j \in jobs, NEW step \in {"signing", "blobs", "saving"},
           j.st # "waiting" \/ \A k \in jobs : k.run = j.run => k.st = "waiting"
    PROVE  /\ Pending(Q)!Moved(j, step) \subseteq [write : composed, run : 1..Q.MaxRun, st : {"waiting", "signing", "blobs", "saving"}]
           /\ \A i, k \in Pending(Q)!Moved(j, step) : i.run = k.run /\ i # k => "waiting" \in {i.st, k.st}
           /\ \A k \in Pending(Q)!Moved(j, step) : k \in jobs \ {j} \/ (k.write = j.write /\ k.st = step)
<1> DEFINE q == [write |-> j.write, run |-> j.run, st |-> step]
<1>1. j \in [write : composed, run : 1..Q.MaxRun, st : {"waiting", "signing", "blobs", "saving"}]
  BY DEF QueueTyped, Pending!TypeOK
<1>2. [j EXCEPT !.st = step] = q /\ Pending(Q)!Moved(j, step) = (jobs \ {j}) \cup {q}
  BY <1>1 DEF Pending!Moved
<1>3. q \in [write : composed, run : 1..Q.MaxRun, st : {"waiting", "signing", "blobs", "saving"}]
  BY <1>1
<1>4. \A k \in jobs \ {j} : k.run = q.run => k.st = "waiting"
  BY DEF QueueTyped, Pending!TypeOK
<1> HIDE DEF q
<1>5. \A i, k \in Pending(Q)!Moved(j, step) : i.run = k.run /\ i # k => "waiting" \in {i.st, k.st}
  BY <1>2, <1>4 DEF QueueTyped, Pending!TypeOK
<1>6. q.write = j.write /\ q.st = step
  BY DEF q
<1> QED BY <1>2, <1>3, <1>5, <1>6 DEF QueueTyped, Pending!TypeOK

LEMMA QueueTypedStep ==
    ASSUME NEW Q, Pending(Q)!PendingWritesAssumption, QueueTyped(Q), Pending(Q)!Next
    PROVE  QueueTyped(Q)'
<1>2. \A w \in Q.Write : Append(published[w], account) \in Seq(Q.Account)
  <2> DEFINE S == Seq(Q.Account)
  <2>1. account \in Q.Account /\ published \in [Q.Write -> S]
    BY DEF QueueTyped
  <2> HIDE DEF S
  <2>2. \A w \in Q.Write : published[w] \in S
    BY <2>1
  <2>3. account \in Q.Account
    BY <2>1
  <2>4. \A s \in Seq(Q.Account) : Append(s, account) \in Seq(Q.Account)
    BY <2>3
  <2> QED BY <2>2, <2>4 DEF S
<1> USE DEF QueueTyped, Pending!TypeOK
<1>3. \A w \in Q.Write : Pending(Q)!Publish(w) => published' \in [Q.Write -> Seq(Q.Account)]
  BY <1>2 DEF Pending!Publish
<1>4. CASE Pending(Q)!Drain
  BY <1>4, FreshRun DEF Pending!Drain, Pending!Job
<1>5. CASE Pending(Q)!Load
  BY <1>5 DEF Pending!Load
<1>6. CASE Pending(Q)!Kill
  BY <1>6 DEF Pending!Kill
<1>7. ASSUME NEW w \in Q.Write, Pending(Q)!Compose(w) PROVE QueueTyped(Q)'
  BY <1>7, FreshRun DEF Pending!Compose, Pending!Job
<1>8. ASSUME NEW w \in Q.Write, Pending(Q)!Retry(w) PROVE QueueTyped(Q)'
  BY <1>8, FreshRun DEF Pending!Retry, Pending!Job
<1>9. ASSUME NEW w \in Q.Write, Pending(Q)!Cancel(w) PROVE QueueTyped(Q)'
  BY <1>9 DEF Pending!Cancel, Pending!Persisted
<1>10. ASSUME NEW j \in jobs, Pending(Q)!Turn(j) PROVE QueueTyped(Q)'
  <2>1. (jobs' = Pending(Q)!Moved(j, "signing") /\ disk' = disk) \/ jobs' = jobs \ {j}
    BY <1>10 DEF Pending!Turn
  <2>2. CASE jobs' = Pending(Q)!Moved(j, "signing") /\ disk' = disk
    BY <1>10, <2>2, MovedFacts DEF Pending!Turn
  <2>3. CASE jobs' = jobs \ {j}
    BY <1>10, <2>3 DEF Pending!Turn, Pending!Persisted
  <2> QED BY <2>1, <2>2, <2>3
<1>11. ASSUME NEW j \in jobs, Pending(Q)!Exhausted(j) PROVE QueueTyped(Q)'
  BY <1>11 DEF Pending!Exhausted, Pending!Persisted
<1>12. ASSUME NEW j \in jobs, Pending(Q)!Refused(j) PROVE QueueTyped(Q)'
  BY <1>12 DEF Pending!Refused, Pending!Persisted
<1>13. ASSUME NEW j \in jobs, Pending(Q)!Abandoned(j) PROVE QueueTyped(Q)'
  BY <1>13 DEF Pending!Abandoned, Pending!Persisted
<1>14. ASSUME NEW j \in jobs, Pending(Q)!Signed(j) PROVE QueueTyped(Q)'
  <2>1. /\ \E step \in {"blobs", "saving"} : jobs' = Pending(Q)!Moved(j, step)
        /\ j.write \in Q.Write /\ published' \in [Q.Write -> Seq(Q.Account)]
    BY <1>3, <1>14 DEF Pending!Signed
  <2> QED BY <1>14, <2>1, MovedFacts DEF Pending!Signed
<1>15. ASSUME NEW j \in jobs, Pending(Q)!AfterBlobs(j) PROVE QueueTyped(Q)'
  <2>1. j.write \in Q.Write /\ published' \in [Q.Write -> Seq(Q.Account)]
    BY <1>3, <1>15 DEF Pending!AfterBlobs
  <2> QED BY <1>15, <2>1, MovedFacts DEF Pending!AfterBlobs
<1>16. ASSUME NEW j \in jobs, Pending(Q)!Saved(j) PROVE QueueTyped(Q)'
  BY <1>16 DEF Pending!Saved, Pending!Persisted
<1>17. ASSUME NEW a \in Q.Account, Pending(Q)!Switch(a) PROVE QueueTyped(Q)'
  BY <1>17 DEF Pending!Switch
<1> QED
  BY <1>4, <1>5, <1>6, <1>7, <1>8, <1>9, <1>10, <1>11, <1>12, <1>13, <1>14, <1>15, <1>16, <1>17 DEF Pending!Next

\* What publishing w does to what was published.
LEMMA PublishFacts ==
    ASSUME NEW Q, QueueTyped(Q), NEW w \in Q.Write, Pending(Q)!Publish(w)
    PROVE  /\ \A v \in Q.Write : v # w => published'[v] = published[v]
           /\ published'[w] # <<>> /\ Len(published'[w]) = Len(published[w]) + 1
           /\ published[w] = <<>> => Len(published'[w]) = 1
           /\ \A i \in DOMAIN published'[w] : published'[w][i] = account
                                              \/ (i \in DOMAIN published[w] /\ published'[w][i] = published[w][i])
<1>1. published[w] \in Seq(Q.Account) /\ account \in Q.Account /\ published'[w] = Append(published[w], account)
      /\ \A v \in Q.Write : v # w => published'[v] = published[v]
  BY DEF QueueTyped, Pending!Publish
<1> QED BY <1>1

LEMMA HomeStep ==
    ASSUME NEW Q, Pending(Q)!PendingWritesAssumption, QueueTyped(Q), HomeInv(Q), Pending(Q)!Next
    PROVE  HomeInv(Q)'
<1> SUFFICES ASSUME ~Q.HasBlobs PROVE (\A j \in jobs' : j.st # "blobs") /\ Pending(Q)!PublishedHome'
  BY DEF HomeInv
<1>1. \A j \in jobs : j.st # "blobs" /\ j.write \in Q.Write
  BY DEF HomeInv, QueueTyped, Pending!TypeOK
<1>2. \A j \in jobs' : j.st # "blobs"
  <2>1. ASSUME NEW j \in jobs, Pending(Q)!Turn(j) PROVE \A k \in jobs' : k.st # "blobs"
    <3>1. jobs' = Pending(Q)!Moved(j, "signing") \/ jobs' = jobs \ {j}
      BY <2>1 DEF Pending!Turn
    <3> QED BY <1>1, <2>1, <3>1, MovedFacts DEF Pending!Turn
  <2>2. ASSUME NEW j \in jobs, Pending(Q)!Signed(j) PROVE \A k \in jobs' : k.st # "blobs"
    BY <1>1, <2>2, MovedFacts DEF Pending!Signed
  <2> QED
    BY <1>1, <2>1, <2>2 DEF Pending!Next, Pending!Drain, Pending!Load, Pending!Kill, Pending!Compose, Pending!Retry, Pending!Cancel, Pending!Exhausted, Pending!Refused, Pending!Abandoned,
              Pending!AfterBlobs, Pending!Saved, Pending!Switch, Pending!Job
<1>3. published' = published \/ \E w \in Q.Write : Pending(Q)!Publish(w) /\ Q.Owner[w] = account
  BY <1>1 DEF Pending!Next, Pending!Drain, Pending!Load, Pending!Kill, Pending!Compose, Pending!Retry, Pending!Cancel, Pending!Turn, Pending!Exhausted, Pending!Refused, Pending!Abandoned, Pending!Signed, Pending!AfterBlobs,
              Pending!Saved, Pending!Switch
<1>4. Pending(Q)!PublishedHome'
  <2>1. CASE published' = published
    BY <2>1 DEF HomeInv, Pending!PublishedHome
  <2>2. CASE \E w \in Q.Write : Pending(Q)!Publish(w) /\ Q.Owner[w] = account
    <3>1. PICK w \in Q.Write : Pending(Q)!Publish(w) /\ Q.Owner[w] = account
      BY <2>2
    <3>2. \A i \in DOMAIN published'[w] : published'[w][i] = Q.Owner[w]
      BY <3>1, PublishFacts DEF HomeInv, Pending!PublishedHome
    <3>3. \A v \in Q.Write : v # w => published'[v] = published[v]
      BY <3>1, PublishFacts
    <3> QED BY <3>2, <3>3 DEF HomeInv, Pending!PublishedHome
  <2> QED BY <1>3, <2>1, <2>2
<1> QED BY <1>2, <1>4

LEMMA OneStep ==
    ASSUME NEW Q, Pending(Q)!PendingWritesAssumption, QueueTyped(Q), OneInv(Q), Q.MaxSwitch = 0, Q.MaxKill = 0, Pending(Q)!Next
    PROVE  OneInv(Q)'
<1> USE DEF OneInv
<1>1. /\ ~(kills < Q.MaxKill) /\ ~(switches < Q.MaxSwitch) /\ pending \subseteq composed /\ composed \subseteq Q.Write
      /\ \A j \in jobs : j.write \in composed /\ j.write \in Q.Write
  BY DEF QueueTyped, Pending!TypeOK
<1>2. ~Pending(Q)!Load /\ ~Pending(Q)!Kill /\ \A a \in Q.Account : ~Pending(Q)!Switch(a)
  BY <1>1 DEF Pending!Load, Pending!Kill, Pending!Switch
<1>3. CASE Pending(Q)!Drain
  BY <1>1, <1>3 DEF Pending!Drain, Pending!Job, Pending!PublishedOnce
<1>4. ASSUME NEW w \in Q.Write, Pending(Q)!Compose(w) PROVE OneInv(Q)'
  BY <1>1, <1>4 DEF Pending!Compose, Pending!Job, Pending!PublishedOnce
<1>5. ASSUME NEW w \in Q.Write, Pending(Q)!Retry(w) PROVE OneInv(Q)'
  BY <1>1, <1>5 DEF Pending!Retry, Pending!Job, Pending!PublishedOnce
<1>6. ASSUME NEW w \in Q.Write, Pending(Q)!Cancel(w) PROVE OneInv(Q)'
  BY <1>1, <1>6 DEF Pending!Cancel, Pending!PublishedOnce
<1>7. ASSUME NEW j \in jobs, Pending(Q)!Turn(j) PROVE OneInv(Q)'
  BY <1>1, <1>7 DEF Pending!Turn, Pending!Moved, Pending!PublishedOnce, QueueTyped, Pending!TypeOK
<1>8. ASSUME NEW j \in jobs, Pending(Q)!Exhausted(j) PROVE OneInv(Q)'
  BY <1>1, <1>8 DEF Pending!Exhausted, Pending!PublishedOnce
<1>9. ASSUME NEW j \in jobs, Pending(Q)!Refused(j) \/ Pending(Q)!Abandoned(j) \/ Pending(Q)!Saved(j) PROVE OneInv(Q)'
  BY <1>1, <1>9 DEF Pending!Refused, Pending!Abandoned, Pending!Saved, Pending!PublishedOnce
<1>10. ASSUME NEW j \in jobs, Pending(Q)!Signed(j) \/ Pending(Q)!AfterBlobs(j) PROVE OneInv(Q)'
  <2>0. j.write \in Q.Write /\ j.st # "saving" /\ published[j.write] = <<>>
        /\ [j EXCEPT !.st = "saving"].write = j.write /\ [j EXCEPT !.st = "saving"].st = "saving"
        /\ [j EXCEPT !.st = "blobs"].write = j.write /\ [j EXCEPT !.st = "blobs"].st = "blobs"
    BY <1>1, <1>10 DEF Pending!Signed, Pending!AfterBlobs, QueueTyped, Pending!TypeOK
  <2>1. CASE Pending(Q)!Publish(j.write)
    <3>1. /\ \A v \in Q.Write : v # j.write => published'[v] = published[v]
          /\ Len(published'[j.write]) = 1 /\ published'[j.write] # published[j.write]
      BY <2>0, <2>1, PublishFacts
    <3>2. Pending(Q)!PublishedOnce'
      <4> SUFFICES ASSUME NEW v \in Q.Write PROVE Len(published'[v]) <= 1
        BY DEF Pending!PublishedOnce
      <4>1. CASE v = j.write
        <5>1. \A n : n = 1 => n <= 1
          OBVIOUS
        <5> QED BY <3>1, <4>1, <5>1
      <4>2. CASE v # j.write
        <5>1. published'[v] = published[v]
          BY <3>1, <4>2
        <5>2. Len(published[v]) <= 1
          BY DEF Pending!PublishedOnce
        <5> QED BY <5>1, <5>2
      <4> QED BY <4>1, <4>2
    <3>3. jobs' = Pending(Q)!Moved(j, "saving") /\ pending' \subseteq pending \ {j.write} /\ ~loading' /\ composed' = composed
      BY <1>10, <2>0, <3>1 DEF Pending!Signed, Pending!AfterBlobs
    <3>4. /\ \A w \in Q.Write \ composed' : published'[w] = <<>>
          /\ \A w \in pending' : published'[w] = <<>>
      BY <1>1, <2>0, <3>1, <3>3
    <3>5. \A k \in jobs' : k \in jobs \ {j} \/ (k.write = j.write /\ k.st = "saving")
      BY <2>0, <3>3 DEF Pending!Moved
    <3>6. \A w \in pending' : \A k \in jobs' : k.write # w
      BY <3>3, <3>5
    <3>7. \A i, k \in jobs' : i.write = k.write => i = k
      <4>1. \A i \in jobs \ {j} : i.write # j.write
        OBVIOUS
      <4>2. PICK q : jobs' = (jobs \ {j}) \cup {q} /\ q.write = j.write
        BY <2>0, <3>3 DEF Pending!Moved
      <4> QED BY <4>1, <4>2
    <3>8. \A k \in jobs' : k.st # "saving" => published'[k.write] = <<>>
      BY <1>1, <3>1, <3>5
    <3> QED BY <3>2, <3>3, <3>4, <3>6, <3>7, <3>8
  <2>2. CASE published' = published
    <3>1. \/ jobs' = Pending(Q)!Moved(j, "blobs") /\ pending' \subseteq pending \ {j.write} /\ ~loading' /\ composed' = composed
          \/ Pending(Q)!Publish(j.write)
      BY <1>10 DEF Pending!Signed, Pending!AfterBlobs
    <3>2. CASE jobs' = Pending(Q)!Moved(j, "blobs") /\ pending' \subseteq pending \ {j.write} /\ ~loading' /\ composed' = composed
      <4>1. PICK q : jobs' = (jobs \ {j}) \cup {q} /\ q.write = j.write /\ q.st = "blobs"
        BY <2>0, <3>2 DEF Pending!Moved
      <4> QED BY <1>1, <2>0, <2>2, <3>2, <4>1 DEF Pending!PublishedOnce
    <3> QED BY <2>1, <3>1, <3>2
  <2> QED BY <1>10, <2>1, <2>2 DEF Pending!Signed, Pending!AfterBlobs
<1> QED BY <1>2, <1>3, <1>4, <1>5, <1>6, <1>7, <1>8, <1>9, <1>10 DEF Pending!Next

LEMMA KeptStep ==
    ASSUME NEW Q, Pending(Q)!PendingWritesAssumption, QueueTyped(Q), KeptInv(Q), Q.MaxSwitch = 0, NEW only, Q.Write = {only}, Pending(Q)!Next
    PROVE  KeptInv(Q)'
<1> USE DEF KeptInv
<1>1. /\ ~(switches < Q.MaxSwitch) /\ pending \subseteq composed /\ composed \subseteq Q.Write /\ account \in Q.Account
      /\ \A j \in jobs : j.write \in composed /\ j.write \in Q.Write /\ Q.Owner[j.write] = account
      /\ disk \in [Q.Account -> SUBSET Q.Write] /\ kept \subseteq composed
  BY DEF QueueTyped, Pending!TypeOK
<1>2. \A a \in Q.Account : ~Pending(Q)!Switch(a)
  BY <1>1 DEF Pending!Switch
<1>3. CASE Pending(Q)!Drain \/ Pending(Q)!Load \/ Pending(Q)!Kill
  BY <1>3 DEF Pending!Drain, Pending!Load, Pending!Kill, Pending!Job
<1>4. ASSUME NEW w \in Q.Write, Pending(Q)!Compose(w) \/ Pending(Q)!Retry(w) PROVE KeptInv(Q)'
  BY <1>1, <1>4 DEF Pending!Compose, Pending!Retry, Pending!Job
<1>5. ASSUME NEW w \in Q.Write, Pending(Q)!Cancel(w) PROVE KeptInv(Q)'
  BY <1>1, <1>5 DEF Pending!Cancel, Pending!Persisted
<1>6. ASSUME NEW j \in jobs, Pending(Q)!Turn(j) PROVE KeptInv(Q)'
  BY <1>1, <1>6 DEF Pending!Turn, Pending!Moved, QueueTyped, Pending!TypeOK
<1>7. ASSUME NEW j \in jobs, Pending(Q)!Exhausted(j) \/ Pending(Q)!Refused(j) PROVE KeptInv(Q)'
  BY <1>1, <1>7 DEF Pending!Exhausted, Pending!Refused, Pending!Persisted
<1>8. ASSUME NEW j \in jobs, Pending(Q)!Saved(j) PROVE KeptInv(Q)'
  BY <1>1, <1>8 DEF Pending!Saved, Pending!Persisted
<1>9. ASSUME NEW j \in jobs, Pending(Q)!Signed(j) \/ Pending(Q)!AfterBlobs(j) PROVE KeptInv(Q)'
  <2>0. j.write \in Q.Write
        /\ [j EXCEPT !.st = "saving"].write = j.write
        /\ [j EXCEPT !.st = "blobs"].write = j.write /\ [j EXCEPT !.st = "blobs"].st = "blobs"
    BY <1>1, <1>9 DEF QueueTyped, Pending!TypeOK
  <2>1. published' = published \/ Pending(Q)!Publish(j.write)
    BY <1>9 DEF Pending!Signed, Pending!AfterBlobs
  <2>2. Pending(Q)!Publish(j.write) => \A v \in Q.Write : published[v] # <<>> => published'[v] # <<>>
    BY <2>0, PublishFacts
  <2>3. Pending(Q)!Publish(j.write) => published'[j.write] # <<>>
    BY <2>0, PublishFacts
  <2>4. UNCHANGED <<account, composed, kept, closed, disk>>
        /\ (jobs' = Pending(Q)!Moved(j, "blobs") \/ (jobs' = Pending(Q)!Moved(j, "saving") /\ Pending(Q)!Publish(j.write)))
    BY <1>9 DEF Pending!Signed, Pending!AfterBlobs
  <2>5. \A k \in jobs' : k.st = "saving" => published'[k.write] # <<>>
    BY <1>1, <2>0, <2>1, <2>2, <2>3, <2>4 DEF Pending!Moved
  <2>6. \A w \in kept' : published'[w] # <<>> \/ w \in closed' \/ w \in disk'[Q.Owner[w]]
    BY <1>1, <2>1, <2>2, <2>4
  <2> QED BY <2>4, <2>5, <2>6
<1>10. ASSUME NEW j \in jobs PROVE ~Pending(Q)!Abandoned(j)
  BY <1>1 DEF Pending!Abandoned
<1> QED BY <1>2, <1>3, <1>4, <1>5, <1>6, <1>7, <1>8, <1>9, <1>10 DEF Pending!Next

----------------------------------------------------------------------------
(* The transport manager.                                                   *)

\* The calls and the events that may be on their way once g attempts have been made.
StartCalls(M, g) == [op : {"start"}, by : 1..g, cred : M.Cred, then : {-1}]
StopCalls(M, g) == [op : {"stop"}, by : {0}, cred : M.Cred, then : -1..g]
CallOf(M, g) == StartCalls(M, g) \cup StopCalls(M, g) \cup [op : {"install"}, by : {0}, cred : M.Cred, then : {-1}]

EventOf(M, g) ==
    [kind : {"bootstrapping", "stopped", "error", "verified", "transport-dead"}, by : 0..g, then : {0}]
        \cup [kind : {"connected"}, by : 1..g, then : {0}] \cup [kind : {"stopResolved"}, by : {0}, then : -1..g]
        \cup [kind : {"installed"}, by : M.Cred, then : {0}]

\* What is on its way in the native module: none of it of an attempt that has not been made.
NativeTyped(M) ==
    /\ calls \in 0..M.MaxCall /\ gen <= calls /\ subs \subseteq 1..gen
    /\ ops \in Seq(CallOf(M, gen)) /\ ev \in Seq(EventOf(M, gen))
    /\ booting \in [by : 0..gen, cred : M.Cred, lines : Nat]
    /\ live \in [by : 0..gen, cred : M.Cred, probe : BOOLEAN]

ManTyped(M) == Tor(M)!TypeOK /\ NativeTyped(M)

\* With the flag down, a stop is on its way with no start behind it, or there is nothing to stop.
EndsStopped(s) == \E i \in DOMAIN s : s[i].op = "stop" /\ \A k \in DOMAIN s : i < k => s[k].op # "start"
StopInv(M) ==
    ~maybe => \/ EndsStopped(ops)
              \/ booting.by = 0 /\ live.by = 0 /\ \A x \in Elems(ops) : x.op # "start"

\* With one connect() at a time no stop has an attempt waiting for it, the unresolved attempt is
\* the current one, and a disconnect() leaves no subscription and no deadline.
SoloInv(M) ==
    /\ \A x \in Elems(ops) : x.op = "stop" => x.then <= 0
    /\ \A x \in Elems(ev) : x.kind = "stopResolved" => x.then <= 0
    /\ inflight # 0 => inflight = gen /\ result[inflight] = "pending"
    /\ \A g \in Tor(M)!Attempt : result[g] = "pending" => g = gen /\ timer = g /\ inflight = g
    /\ last = "disconnect" => gen \notin subs /\ timer = 0 /\ (Tor(M)!Await(0) \/ st = "disconnected")

\* With no credential installed, whatever the current attempt started holds the configured one.
AuthInv(M) ==
    /\ installs = 0
    /\ st = "connected" => gen # 0
    /\ \A x \in Elems(ops) : x.op # "install" /\ (x.op = "start" /\ x.by = gen => x.cred = conf)
    /\ \A x \in Elems(ev) : x.kind # "installed"
    /\ gen # 0 /\ booting.by = gen => booting.cred = conf
    /\ gen # 0 /\ live.by = gen => live.cred = conf

\* The members of a list that grows at its end or shrinks at its head.
GrowsWell(S, s) ==
    /\ \A x \in S : Append(s, x) \in Seq(S) /\ Elems(Append(s, x)) = Elems(s) \cup {x}
    /\ \A x \in S : (s \o <<x>>) \in Seq(S) /\ Elems(s \o <<x>>) = Elems(s) \cup {x}
    /\ \A x, y \in S : (s \o <<x, y>>) \in Seq(S) /\ Elems(s \o <<x, y>>) = Elems(s) \cup {x, y}
    /\ s # <<>> => /\ Tail(s) \in Seq(S) /\ Head(s) \in S /\ Head(s) \in Elems(s)
                   /\ Elems(s) = {Head(s)} \cup Elems(Tail(s))
    /\ Elems(s) \subseteq S

LEMMA ElemsFacts ==
    ASSUME NEW S, NEW s \in Seq(S)
    PROVE  GrowsWell(S, s)
<1>1. ASSUME NEW x \in S
      PROVE  /\ Append(s, x) \in Seq(S) /\ DOMAIN Append(s, x) = 1..(Len(s) + 1)
             /\ \A i \in 1..Len(s) : Append(s, x)[i] = s[i]
             /\ Append(s, x)[Len(s) + 1] = x
  OBVIOUS
<1>2. ASSUME NEW x \in S PROVE Elems(Append(s, x)) = Elems(s) \cup {x}
  <2>1. DOMAIN s = 1..Len(s) /\ Len(s) \in Nat /\ 1..(Len(s) + 1) = 1..Len(s) \cup {Len(s) + 1}
    OBVIOUS
  <2> QED BY <1>1, <2>1 DEF Elems
<1>3. \A x \in S : s \o <<x>> = Append(s, x)
  OBVIOUS
<1>4. \A x, y \in S : s \o <<x, y>> = Append(Append(s, x), y)
  OBVIOUS
<1>5. ASSUME NEW x \in S, NEW y \in S
      PROVE  (s \o <<x, y>>) \in Seq(S) /\ Elems(s \o <<x, y>>) = Elems(s) \cup {x, y}
  <2> DEFINE t == Append(s, x)
  <2>1. t \in Seq(S) /\ Elems(t) = Elems(s) \cup {x}
    BY <1>1, <1>2
  <2> HIDE DEF t
  <2>2. Append(t, y) \in Seq(S) /\ Elems(Append(t, y)) = Elems(t) \cup {y}
    <3>1. /\ Append(t, y) \in Seq(S) /\ DOMAIN Append(t, y) = 1..(Len(t) + 1)
          /\ \A i \in 1..Len(t) : Append(t, y)[i] = t[i]
          /\ Append(t, y)[Len(t) + 1] = y
      BY <2>1
    <3>2. DOMAIN t = 1..Len(t) /\ Len(t) \in Nat /\ 1..(Len(t) + 1) = 1..Len(t) \cup {Len(t) + 1}
      BY <2>1
    <3> QED BY <3>1, <3>2 DEF Elems
  <2> QED BY <1>4, <2>1, <2>2 DEF t
<1>6. ASSUME s # <<>>
      PROVE  /\ Tail(s) \in Seq(S) /\ Head(s) \in S /\ Head(s) \in Elems(s)
             /\ Elems(s) = {Head(s)} \cup Elems(Tail(s))
  <2>1. /\ Len(s) \in Nat \ {0} /\ DOMAIN s = 1..Len(s) /\ Head(s) = s[1] /\ Tail(s) \in Seq(S)
        /\ DOMAIN Tail(s) = 1..(Len(s) - 1) /\ \A i \in 1..(Len(s) - 1) : Tail(s)[i] = s[i + 1]
    BY <1>6
  <2>2. \A i \in 2..Len(s) : s[i] = Tail(s)[i - 1] /\ i - 1 \in DOMAIN Tail(s)
    BY <2>1
  <2>3. 1..Len(s) = {1} \cup 2..Len(s)
    BY <2>1
  <2> QED
    <3>1. Head(s) \in S /\ Head(s) \in Elems(s)
      BY <2>1 DEF Elems
    <3>2. \A i \in DOMAIN s : s[i] = Head(s) \/ s[i] \in Elems(Tail(s))
      BY <2>1, <2>2, <2>3 DEF Elems
    <3>3. \A i \in DOMAIN Tail(s) : Tail(s)[i] \in Elems(s)
      BY <2>1 DEF Elems
    <3>4. Elems(Tail(s)) \subseteq Elems(s)
      BY <3>3 DEF Elems
    <3>5. Elems(s) \subseteq {Head(s)} \cup Elems(Tail(s))
      BY <3>2 DEF Elems
    <3> QED BY <2>1, <3>1, <3>4, <3>5
<1>7. Elems(s) \subseteq S
  BY DEF Elems
<1> QED BY <1>1, <1>2, <1>3, <1>5, <1>6, <1>7 DEF GrowsWell

\* What the queues hold, and what may join them.
LEMMA NativeFacts ==
    ASSUME NEW M, Tor(M)!TorAssumption, ManTyped(M)
    PROVE  /\ \A x \in CallOf(M, gen) : Append(ops, x) \in Seq(CallOf(M, gen)) /\ Elems(Append(ops, x)) = Elems(ops) \cup {x}
           /\ ops # <<>> => /\ Tail(ops) \in Seq(CallOf(M, gen)) /\ Head(ops) \in CallOf(M, gen) /\ Head(ops) \in Elems(ops)
                            /\ Elems(ops) = {Head(ops)} \cup Elems(Tail(ops))
           /\ \A x \in EventOf(M, gen) : ev \o <<x>> \in Seq(EventOf(M, gen)) /\ Elems(ev \o <<x>>) = Elems(ev) \cup {x}
           /\ \A x, y \in EventOf(M, gen) : ev \o <<x, y>> \in Seq(EventOf(M, gen)) /\ Elems(ev \o <<x, y>>) = Elems(ev) \cup {x, y}
           /\ ev # <<>> => /\ Tail(ev) \in Seq(EventOf(M, gen)) /\ Head(ev) \in EventOf(M, gen) /\ Head(ev) \in Elems(ev)
                           /\ Elems(ev) = {Head(ev)} \cup Elems(Tail(ev))
           /\ Elems(ops) \subseteq CallOf(M, gen) /\ Elems(ev) \subseteq EventOf(M, gen)
<1>1. ops \in Seq(CallOf(M, gen)) /\ ev \in Seq(EventOf(M, gen))
  BY DEF ManTyped, NativeTyped
<1>2. GrowsWell(CallOf(M, gen), ops) /\ GrowsWell(EventOf(M, gen), ev)
  BY <1>1, ElemsFacts
<1> QED BY <1>2 DEF GrowsWell

\* The same once another attempt has been made.
LEMMA NextAttempt ==
    ASSUME NEW M, Tor(M)!TorAssumption, ManTyped(M)
    PROVE  /\ ops \in Seq(CallOf(M, gen + 1)) /\ ev \in Seq(EventOf(M, gen + 1))
           /\ \A x \in CallOf(M, gen + 1) : Append(ops, x) \in Seq(CallOf(M, gen + 1)) /\ Elems(Append(ops, x)) = Elems(ops) \cup {x}
<1>1. ops \in Seq(CallOf(M, gen)) /\ ev \in Seq(EventOf(M, gen)) /\ gen \in Nat
  BY DEF ManTyped, NativeTyped, Tor!TypeOK
<1>2. 1..gen \subseteq 1..(gen + 1) /\ 0..gen \subseteq 0..(gen + 1) /\ -1..gen \subseteq -1..(gen + 1)
  BY <1>1
<1>3. CallOf(M, gen) \subseteq CallOf(M, gen + 1) /\ EventOf(M, gen) \subseteq EventOf(M, gen + 1)
  BY <1>2 DEF CallOf, EventOf, StartCalls, StopCalls
<1>4. ops \in Seq(CallOf(M, gen + 1)) /\ ev \in Seq(EventOf(M, gen + 1))
  BY <1>1, <1>3
<1>5. GrowsWell(CallOf(M, gen + 1), ops)
  BY <1>4, ElemsFacts
<1> QED BY <1>4, <1>5 DEF GrowsWell

\* The fields of calls and events.
LEMMA CallFields ==
    ASSUME NEW M, Tor(M)!TorAssumption, NEW g \in Nat, NEW x \in CallOf(M, g)
    PROVE  /\ x.op \in {"start", "stop", "install"} /\ x.cred \in M.Cred
           /\ x.op = "start" => x.by \in 1..g
           /\ x.op = "stop" => x.then \in -1..g
  BY DEF CallOf, StartCalls, StopCalls

LEMMA EventFields ==
    ASSUME NEW M, Tor(M)!TorAssumption, NEW g \in Nat, NEW x \in EventOf(M, g)
    PROVE  /\ x.kind = "connected" => x.by \in 1..g
           /\ x.kind = "stopResolved" => x.then \in -1..g
           /\ x.kind = "installed" => x.by \in M.Cred
  BY DEF EventOf

\* The calls and events that the steps make.
Makes(M, g) ==
    /\ \A c \in M.Cred, t \in -1..g : [op |-> "stop", by |-> 0, cred |-> c, then |-> t] \in CallOf(M, g)
    /\ \A c \in M.Cred, b \in 1..g : [op |-> "start", by |-> b, cred |-> c, then |-> -1] \in CallOf(M, g)
    /\ \A c \in M.Cred : [op |-> "install", by |-> 0, cred |-> c, then |-> -1] \in CallOf(M, g)
    /\ \A b \in 0..g, k \in {"bootstrapping", "stopped", "error", "verified", "transport-dead"} :
           Tor(M)!Event(k, b) \in EventOf(M, g) /\ Tor(M)!Event(k, b).kind = k
    /\ \A b \in 1..g : Tor(M)!Event("connected", b) \in EventOf(M, g) /\ Tor(M)!Event("connected", b).kind = "connected"
    /\ \A t \in -1..g : Tor(M)!Answer("stopResolved", t) \in EventOf(M, g) /\ Tor(M)!Answer("stopResolved", t).kind = "stopResolved"
                        /\ Tor(M)!Answer("stopResolved", t).then = t
    /\ \A c \in M.Cred : [Tor(M)!Answer("installed", 0) EXCEPT !.by = c] \in EventOf(M, g)
    /\ Tor(M)!NoClient \in [by : {0}, cred : M.Cred, probe : {FALSE}] /\ Tor(M)!Idle \in [by : {0}, cred : M.Cred, lines : {0}]

LEMMA Making ==
    ASSUME NEW M, Tor(M)!TorAssumption, NEW g \in Nat
    PROVE  Makes(M, g)
<1>1. /\ \A c \in M.Cred, t \in -1..g : [op |-> "stop", by |-> 0, cred |-> c, then |-> t] \in StopCalls(M, g)
      /\ \A c \in M.Cred, b \in 1..g : [op |-> "start", by |-> b, cred |-> c, then |-> -1] \in StartCalls(M, g)
  BY DEF StopCalls, StartCalls
<1>2. \A c \in M.Cred : [op |-> "install", by |-> 0, cred |-> c, then |-> -1] \in CallOf(M, g)
  BY DEF CallOf
<1>3. \A b \in 0..g, k \in {"bootstrapping", "stopped", "error", "verified", "transport-dead"} :
          Tor(M)!Event(k, b) \in EventOf(M, g) /\ Tor(M)!Event(k, b).kind = k
  BY DEF Tor!Event, EventOf
<1>4. \A b \in 1..g : Tor(M)!Event("connected", b) \in EventOf(M, g) /\ Tor(M)!Event("connected", b).kind = "connected"
  BY DEF Tor!Event, EventOf
<1>5. \A t \in -1..g : Tor(M)!Answer("stopResolved", t) \in EventOf(M, g) /\ Tor(M)!Answer("stopResolved", t).kind = "stopResolved"
                       /\ Tor(M)!Answer("stopResolved", t).then = t
  BY DEF Tor!Answer, EventOf
<1>6. \A c \in M.Cred : [Tor(M)!Answer("installed", 0) EXCEPT !.by = c] \in EventOf(M, g)
  BY DEF Tor!Answer, EventOf
<1>7. (CHOOSE c \in M.Cred : TRUE) \in M.Cred
  BY DEF Tor!TorAssumption
<1>8. Tor(M)!NoClient \in [by : {0}, cred : M.Cred, probe : {FALSE}] /\ Tor(M)!Idle \in [by : {0}, cred : M.Cred, lines : {0}]
  BY <1>7 DEF Tor!NoClient, Tor!Idle
<1> QED BY <1>1, <1>2, <1>3, <1>4, <1>5, <1>6, <1>8 DEF CallOf, Makes

LEMMA ManInit ==
    ASSUME NEW M, Tor(M)!TorAssumption, Tor(M)!Init
    PROVE  /\ ManTyped(M) /\ StopInv(M) /\ Tor(M)!ConnectedHasProxy /\ SoloInv(M) /\ AuthInv(M)
<1>1. ops = <<>> /\ ev = <<>> /\ Elems(ops) = {} /\ Elems(ev) = {}
  BY DEF Tor!Init, Elems
<1>2. (CHOOSE c \in M.Cred : TRUE) \in M.Cred
  BY DEF Tor!TorAssumption
<1>3. ops \in Seq(CallOf(M, gen)) /\ ev \in Seq(EventOf(M, gen))
  BY <1>1
<1>4. booting = [by |-> 0, cred |-> CHOOSE c \in M.Cred : TRUE, lines |-> 0]
      /\ live = [by |-> 0, cred |-> CHOOSE c \in M.Cred : TRUE, probe |-> FALSE]
  BY DEF Tor!Init, Tor!Idle, Tor!NoClient
<1>5. Tor(M)!TypeOK
  BY <1>4 DEF Tor!Init, Tor!TypeOK, Tor!State, Tor!Resolution, Tor!TorAssumption
<1>6. ManTyped(M)
  BY <1>1, <1>2, <1>3, <1>4, <1>5 DEF Tor!Init, ManTyped, NativeTyped, Tor!TorAssumption
<1>7. SoloInv(M)
  BY <1>1 DEF Tor!Init, SoloInv
<1>8. AuthInv(M)
  BY <1>1 DEF Tor!Init, AuthInv
<1> QED BY <1>6, <1>7, <1>8 DEF Tor!Init, StopInv, Tor!ConnectedHasProxy

\* The numbers and sets the types are about.
LEMMA ManNumbers ==
    ASSUME NEW M, Tor(M)!TorAssumption, ManTyped(M)
    PROVE  /\ M.MaxCall \in Nat /\ gen \in Nat /\ gen \in 0..M.MaxCall /\ calls \in 0..M.MaxCall /\ gen <= calls
           /\ subs \subseteq 1..gen /\ subs \subseteq Tor(M)!Attempt /\ Tor(M)!Kept \subseteq 1..gen /\ Tor(M)!Kept \in SUBSET Tor(M)!Attempt
           /\ Tor(M)!Released \in [Tor(M)!Attempt -> Tor(M)!Resolution] /\ result \in [Tor(M)!Attempt -> Tor(M)!Resolution]
           /\ conf \in M.Cred /\ want \in M.Cred /\ 1..gen \subseteq Tor(M)!Attempt /\ 0 \in -1..gen /\ -1 \in -1..gen
           /\ booting.by \in 0..gen /\ live.by \in 0..gen /\ booting.cred \in M.Cred /\ live.cred \in M.Cred
<1>1. /\ M.MaxCall \in Nat /\ gen \in Nat /\ gen \in 0..M.MaxCall /\ calls \in 0..M.MaxCall /\ gen <= calls
      /\ subs \subseteq 1..gen /\ subs \subseteq Tor(M)!Attempt /\ inflight \in 0..M.MaxCall
      /\ result \in [Tor(M)!Attempt -> Tor(M)!Resolution] /\ conf \in M.Cred /\ want \in M.Cred
      /\ booting.by \in 0..gen /\ live.by \in 0..gen /\ booting.cred \in M.Cred /\ live.cred \in M.Cred
  BY DEF Tor!TorAssumption, ManTyped, NativeTyped, Tor!TypeOK
<1>2. Tor(M)!Released \in [Tor(M)!Attempt -> Tor(M)!Resolution]
  BY <1>1 DEF Tor!Released, Tor!Resolution, Tor!Attempt
<1>3. 1..gen \subseteq Tor(M)!Attempt /\ 0 \in -1..gen /\ -1 \in -1..gen
  BY <1>1 DEF Tor!Attempt
<1> QED BY <1>1, <1>2, <1>3 DEF Tor!Kept

\* A stop that may be queued, now or with another attempt.
LEMMA StopTyped ==
    ASSUME NEW M, Tor(M)!TorAssumption, ManTyped(M), NEW g \in {gen, gen + 1}, NEW t \in -1..g, Tor(M)!StopBackendIfRunning(t)
    PROVE  /\ maybe' = FALSE /\ ops' \in Seq(CallOf(M, g))
           /\ maybe => /\ ops' = Append(ops, [op |-> "stop", by |-> 0, cred |-> conf, then |-> t])
                       /\ Elems(ops') = Elems(ops) \cup {[op |-> "stop", by |-> 0, cred |-> conf, then |-> t]}
           /\ ~maybe => ops' = ops
<1>1. g \in Nat /\ conf \in M.Cred
  BY ManNumbers
<1>2. [op |-> "stop", by |-> 0, cred |-> conf, then |-> t] \in CallOf(M, g)
  BY <1>1, Making DEF Makes
<1>3. ops \in Seq(CallOf(M, g))
  BY NextAttempt DEF ManTyped, NativeTyped
<1>4. \A x \in CallOf(M, g) : Append(ops, x) \in Seq(CallOf(M, g)) /\ Elems(Append(ops, x)) = Elems(ops) \cup {x}
  BY NextAttempt, NativeFacts
<1> QED BY <1>2, <1>3, <1>4 DEF Tor!StopBackendIfRunning, Tor!Queue

\* A start that is queued.
LEMMA LaunchTyped ==
    ASSUME NEW M, Tor(M)!TorAssumption, ManTyped(M), NEW h \in {gen, gen + 1}, NEW g \in 1..h, g \in Tor(M)!Attempt,
           NEW ss \in SUBSET Tor(M)!Attempt, NEW res \in [Tor(M)!Attempt -> Tor(M)!Resolution], Tor(M)!Launch(g, ss, res)
    PROVE  /\ ops' = Append(ops, [op |-> "start", by |-> g, cred |-> want, then |-> -1]) /\ ops' \in Seq(CallOf(M, h))
           /\ Elems(ops') = Elems(ops) \cup {[op |-> "start", by |-> g, cred |-> want, then |-> -1]}
           /\ conf' \in M.Cred /\ inflight' = g /\ subs' = ss \cup {g} /\ own' = g /\ timer' = g
           /\ result' = [res EXCEPT ![g] = "pending"] /\ result' \in [Tor(M)!Attempt -> Tor(M)!Resolution]
           /\ st' = "starting-tor" /\ maybe' = TRUE /\ socks' = socks /\ conf' = want
<1>1. h \in Nat /\ want \in M.Cred
  BY ManNumbers
<1>2. [op |-> "start", by |-> g, cred |-> want, then |-> -1] \in CallOf(M, h)
  BY <1>1, Making DEF Makes
<1>3. \A x \in CallOf(M, h) : Append(ops, x) \in Seq(CallOf(M, h)) /\ Elems(Append(ops, x)) = Elems(ops) \cup {x}
  BY NextAttempt, NativeFacts
<1>4. [res EXCEPT ![g] = "pending"] \in [Tor(M)!Attempt -> Tor(M)!Resolution]
  BY DEF Tor!Resolution
<1> QED BY <1>1, <1>2, <1>3, <1>4 DEF Tor!Launch, Tor!Queue

\* What the two ways of queueing a call put into the queue.
LEMMA StopAdds ==
    ASSUME NEW M, Tor(M)!TorAssumption, ManTyped(M), NEW t \in {-1, 0}, Tor(M)!StopBackendIfRunning(t)
    PROVE  \A x \in Elems(ops') : x \in Elems(ops) \/ x = [op |-> "stop", by |-> 0, cred |-> conf, then |-> t]
<1>1. gen \in {gen, gen + 1} /\ t \in -1..gen
  BY ManNumbers
<1>2. CASE maybe
  <2>1. Elems(ops') = Elems(ops) \cup {[op |-> "stop", by |-> 0, cred |-> conf, then |-> t]}
    BY <1>1, <1>2, StopTyped
  <2> QED BY <2>1
<1>3. CASE ~maybe
  <2>1. ops' = ops
    BY <1>3 DEF Tor!StopBackendIfRunning
  <2> QED BY <2>1
<1> QED BY <1>2, <1>3

LEMMA LaunchAdds ==
    ASSUME NEW M, Tor(M)!TorAssumption, ManTyped(M), gen + 1 \in Tor(M)!Attempt, Tor(M)!Launch(gen + 1, Tor(M)!Kept, result)
    PROVE  /\ \A x \in Elems(ops') : x \in Elems(ops) \/ x = [op |-> "start", by |-> gen + 1, cred |-> want, then |-> -1]
           /\ conf' = want /\ st' = "starting-tor"
<1>1. gen + 1 \in {gen, gen + 1} /\ gen + 1 \in 1..(gen + 1)
  BY ManNumbers
<1>2. Tor(M)!Kept \in SUBSET Tor(M)!Attempt /\ result \in [Tor(M)!Attempt -> Tor(M)!Resolution]
  BY DEF ManTyped, Tor!TypeOK, Tor!Kept
<1>3. ops' = Append(ops, [op |-> "start", by |-> gen + 1, cred |-> want, then |-> -1])
      /\ Elems(ops') = Elems(ops) \cup {[op |-> "start", by |-> gen + 1, cred |-> want, then |-> -1]}
  <2> DEFINE n == gen + 1
             K == Tor(M)!Kept
             r == result
  <2>1. n \in {gen, gen + 1} /\ n \in 1..n /\ n \in Tor(M)!Attempt /\ K \in SUBSET Tor(M)!Attempt
        /\ r \in [Tor(M)!Attempt -> Tor(M)!Resolution] /\ Tor(M)!Launch(n, K, r)
    BY <1>1, <1>2
  <2> QED BY <2>1, LaunchTyped
<1>4. Elems(ops') = Elems(ops) \cup {[op |-> "start", by |-> gen + 1, cred |-> want, then |-> -1]}
  BY <1>3
<1>5. conf' = want /\ st' = "starting-tor"
  BY DEF Tor!Launch
<1>6. \A x \in Elems(ops') : x \in Elems(ops) \/ x = [op |-> "start", by |-> gen + 1, cred |-> want, then |-> -1]
  BY <1>4
<1> QED BY <1>5, <1>6

\* The types, once what a step did to each queue is known.
LEMMA TypedAgain ==
    ASSUME NEW M, Tor(M)!TorAssumption, ManTyped(M), gen' \in {gen, gen + 1}, calls' \in 0..M.MaxCall, gen' <= calls', subs' \subseteq 1..gen',
           ops' \in Seq(CallOf(M, gen')), ev' \in Seq(EventOf(M, gen')),
           booting' \in [by : 0..gen', cred : M.Cred, lines : Nat], live' \in [by : 0..gen', cred : M.Cred, probe : BOOLEAN],
           st' \in Tor(M)!State, socks' \in 0..M.MaxCall, own' \in 0..M.MaxCall, timer' \in 0..M.MaxCall, inflight' \in 0..M.MaxCall,
           maybe' \in BOOLEAN, conf' \in M.Cred, want' \in M.Cred, result' \in [Tor(M)!Attempt -> Tor(M)!Resolution]
    PROVE  ManTyped(M)'
<1>1. gen' \in 0..M.MaxCall /\ M.MaxCall \in Nat
  <2>1. gen \in Nat /\ M.MaxCall \in Nat
    BY ManNumbers
  <2> QED BY <2>1
<1>2. booting'.by \in 0..M.MaxCall /\ live'.by \in 0..M.MaxCall /\ subs' \subseteq Tor(M)!Attempt
  BY <1>1 DEF Tor!Attempt
<1> QED BY <1>1, <1>2 DEF ManTyped, NativeTyped, Tor!TypeOK

\* What the manager's variables are when a step leaves them alone.
LEMMA ManagerSame ==
    ASSUME NEW M, Tor(M)!TorAssumption, ManTyped(M)
    PROVE  /\ gen \in {gen, gen + 1} /\ calls \in 0..M.MaxCall /\ gen <= calls /\ subs \subseteq 1..gen
           /\ ops \in Seq(CallOf(M, gen)) /\ ev \in Seq(EventOf(M, gen))
           /\ booting \in [by : 0..gen, cred : M.Cred, lines : Nat] /\ live \in [by : 0..gen, cred : M.Cred, probe : BOOLEAN]
           /\ booting \in [by : 0..(gen + 1), cred : M.Cred, lines : Nat]
           /\ live \in [by : 0..(gen + 1), cred : M.Cred, probe : BOOLEAN]
           /\ st \in Tor(M)!State /\ socks \in 0..M.MaxCall /\ own \in 0..M.MaxCall /\ timer \in 0..M.MaxCall /\ inflight \in 0..M.MaxCall
           /\ maybe \in BOOLEAN /\ conf \in M.Cred /\ want \in M.Cred /\ result \in [Tor(M)!Attempt -> Tor(M)!Resolution]
<1>1. 0..gen \subseteq 0..(gen + 1)
  BY ManNumbers
<1> QED BY <1>1 DEF ManTyped, NativeTyped, Tor!TypeOK

LEMMA ConnectTyped ==
    ASSUME NEW M, Tor(M)!TorAssumption, ManTyped(M), Tor(M)!Connect
    PROVE  ManTyped(M)'
<1>0. calls' = calls + 1 /\ calls' \in 0..M.MaxCall /\ gen + 1 \in Tor(M)!Attempt /\ gen + 1 <= calls' /\ gen <= calls'
      /\ gen + 1 \in 1..(gen + 1) /\ 1..gen \subseteq 1..(gen + 1) /\ gen + 1 \in -1..(gen + 1) /\ gen + 1 \in 0..M.MaxCall
  BY ManNumbers DEF Tor!Connect, Tor!Attempt
<1>a. UNCHANGED <<want, booting, live, ev, installs>>
  BY DEF Tor!Connect
<1>1. CASE UNCHANGED <<Tor(M)!manager, ops>>
  <2>1. UNCHANGED <<gen, subs, st, socks, own, timer, inflight, maybe, conf, result>>
    BY <1>1 DEF Tor!manager
  <2> QED BY <1>0, <1>1, <1>a, <2>1, ManagerSame, TypedAgain
<1>2. CASE gen' = gen + 1 /\ Tor(M)!StopBackendIfRunning(gen + 1) /\ subs' = Tor(M)!Kept /\ own' = 0 /\ timer' = 0
           /\ inflight' = 0 /\ result' = [Tor(M)!Released EXCEPT ![gen + 1] = "pending"]
           /\ UNCHANGED <<st, socks, conf>>
  <2>1. maybe' \in BOOLEAN /\ ops' \in Seq(CallOf(M, gen + 1))
    BY <1>0, <1>2, StopTyped
  <2>2. result' \in [Tor(M)!Attempt -> Tor(M)!Resolution] /\ 0 \in 0..M.MaxCall /\ subs' \subseteq 1..(gen + 1)
    BY <1>0, <1>2, ManNumbers DEF Tor!Resolution
  <2> QED BY <1>0, <1>2, <1>a, <2>1, <2>2, NextAttempt, ManagerSame, TypedAgain
<1>3. CASE gen' = gen + 1 /\ Tor(M)!Launch(gen + 1, Tor(M)!Kept, Tor(M)!Released)
  <2>1. /\ ops' \in Seq(CallOf(M, gen + 1)) /\ conf' \in M.Cred /\ inflight' = gen + 1 /\ subs' = Tor(M)!Kept \cup {gen + 1}
        /\ own' = gen + 1 /\ timer' = gen + 1 /\ result' \in [Tor(M)!Attempt -> Tor(M)!Resolution]
        /\ st' = "starting-tor" /\ maybe' = TRUE /\ socks' = socks
    BY <1>0, <1>3, ManNumbers, LaunchTyped
  <2>2. subs' \subseteq 1..(gen + 1) /\ st' \in Tor(M)!State /\ maybe' \in BOOLEAN
    BY <1>0, <2>1, ManNumbers DEF Tor!State
  <2> QED BY <1>0, <1>3, <1>a, <2>1, <2>2, NextAttempt, ManagerSame, TypedAgain
<1> QED BY <1>1, <1>2, <1>3 DEF Tor!Connect

LEMMA DisconnectTyped ==
    ASSUME NEW M, Tor(M)!TorAssumption, ManTyped(M), Tor(M)!Disconnect
    PROVE  ManTyped(M)'
<1>0. calls' = calls + 1 /\ calls' \in 0..M.MaxCall /\ gen + 1 <= calls' /\ 1..gen \subseteq 1..(gen + 1) /\ 0 \in -1..(gen + 1)
      /\ 0 \in 0..M.MaxCall
  BY ManNumbers DEF Tor!Disconnect
<1>1. gen' = gen + 1 /\ subs' = Tor(M)!Kept /\ own' = 0 /\ timer' = 0 /\ inflight' = 0 /\ result' = Tor(M)!Released /\ socks' = 0
      /\ UNCHANGED <<conf, want, booting, live, ev>> /\ Tor(M)!StopBackendIfRunning(0) /\ st' \in {st, "disconnected"}
  BY DEF Tor!Disconnect
<1>2. maybe' \in BOOLEAN /\ ops' \in Seq(CallOf(M, gen + 1))
  BY <1>0, <1>1, StopTyped
<1>3. subs' \subseteq 1..(gen + 1) /\ result' \in [Tor(M)!Attempt -> Tor(M)!Resolution] /\ st' \in Tor(M)!State
  BY <1>0, <1>1, ManNumbers, ManagerSame DEF Tor!State
<1> QED BY <1>0, <1>1, <1>2, <1>3, NextAttempt, ManagerSame, TypedAgain

LEMMA MemberTyped ==
    ASSUME NEW M, Tor(M)!TorAssumption, ManTyped(M), Tor(M)!InstallReach \/ Tor(M)!Switch
    PROVE  ManTyped(M)'
<1>1. CASE Tor(M)!InstallReach
  <2>1. [op |-> "install", by |-> 0, cred |-> want, then |-> -1] \in CallOf(M, gen)
    BY ManNumbers, Making DEF Makes
  <2>2. ops' \in Seq(CallOf(M, gen))
    BY <1>1, <2>1, NativeFacts DEF Tor!InstallReach, Tor!Queue
  <2>3. UNCHANGED <<st, socks, gen, subs, own, timer, inflight, maybe, conf, result, want, booting, live, ev, calls>>
    BY <1>1 DEF Tor!InstallReach, Tor!manager
  <2> QED BY <2>2, <2>3, ManagerSame, TypedAgain
<1>2. CASE Tor(M)!Switch
  <2>1. /\ UNCHANGED <<st, socks, gen, subs, own, timer, inflight, maybe, conf, result, ops, booting, live, ev, calls>>
        /\ want' \in M.Cred
    BY <1>2 DEF Tor!Switch, Tor!manager, Tor!native
  <2> QED BY <2>1, ManagerSame, TypedAgain
<1> QED BY <1>1, <1>2

LEMMA SettleTyped ==
    ASSUME NEW M, Tor(M)!TorAssumption, ManTyped(M), NEW final \in Tor(M)!Resolution, Tor(M)!Settle(final)
    PROVE  timer' \in 0..M.MaxCall /\ inflight' \in 0..M.MaxCall /\ result' \in [Tor(M)!Attempt -> Tor(M)!Resolution]
<1>1. result \in [Tor(M)!Attempt -> Tor(M)!Resolution] /\ 0 \in 0..M.MaxCall
  BY ManNumbers
<1>2. [result EXCEPT ![gen] = final] \in [Tor(M)!Attempt -> Tor(M)!Resolution]
  BY <1>1
<1> QED BY <1>1, <1>2 DEF Tor!Settle

LEMMA TimeoutTyped ==
    ASSUME NEW M, Tor(M)!TorAssumption, ManTyped(M), Tor(M)!Timeout
    PROVE  ManTyped(M)'
<1>0. UNCHANGED <<gen, subs, own, conf, want, booting, live, ev, calls>>
  BY DEF Tor!Timeout
<1>1. CASE st' = "offline" /\ socks' = 0 /\ Tor(M)!Settle("offline") /\ Tor(M)!StopBackendIfRunning(-1)
  <2>1. ops' \in Seq(CallOf(M, gen)) /\ maybe' \in BOOLEAN
    BY <1>1, ManNumbers, StopTyped
  <2>2. timer' \in 0..M.MaxCall /\ inflight' \in 0..M.MaxCall /\ result' \in [Tor(M)!Attempt -> Tor(M)!Resolution]
    BY <1>1, SettleTyped DEF Tor!Resolution
  <2>3. st' \in Tor(M)!State /\ socks' \in 0..M.MaxCall
    BY <1>1, ManNumbers DEF Tor!State
  <2> QED BY <1>0, <2>1, <2>2, <2>3, ManagerSame, TypedAgain
<1>2. CASE timer' = 0 /\ UNCHANGED <<st, socks, inflight, result, maybe, ops>>
  <2>1. timer' \in 0..M.MaxCall
    BY <1>2, ManNumbers
  <2> QED BY <1>0, <1>2, <2>1, ManagerSame, TypedAgain
<1> QED BY <1>1, <1>2 DEF Tor!Timeout

LEMMA EventTyped ==
    ASSUME NEW M, Tor(M)!TorAssumption, ManTyped(M), Tor(M)!DeliverEvent
    PROVE  ManTyped(M)'
<1>0. UNCHANGED <<gen, subs, own, conf, want, booting, live, calls>> /\ ev # <<>> /\ ev' = Tail(ev)
  BY DEF Tor!DeliverEvent
<1>1. ev' \in Seq(EventOf(M, gen)) /\ Head(ev) \in EventOf(M, gen)
  BY <1>0, NativeFacts
<1>2. CASE UNCHANGED <<st, socks, timer, inflight, maybe, result, ops>>
  BY <1>0, <1>1, <1>2, ManagerSame, TypedAgain
<1>3. CASE Tor(M)!OnEvent(Head(ev))
  <2>1. CASE Head(ev).kind = "verified" /\ UNCHANGED <<st, socks, timer, inflight, maybe, result, ops>>
    BY <1>2, <2>1
  <2>2. CASE socks' = 0 /\ st' = "offline" /\ Tor(M)!StopBackendIfRunning(-1) /\ UNCHANGED <<timer, inflight, result>>
    <3>0. ops' \in Seq(CallOf(M, gen)) /\ maybe' \in BOOLEAN
      BY <2>2, ManNumbers, StopTyped
    <3>1. ops' \in Seq(CallOf(M, gen)) /\ maybe' \in BOOLEAN /\ st' \in Tor(M)!State /\ socks' \in 0..M.MaxCall
      BY <2>2, <3>0, ManNumbers DEF Tor!State
    <3> QED BY <1>0, <1>1, <2>2, <3>1, ManagerSame, TypedAgain
  <2>3. CASE st' \in {st, "connecting-bridge"} /\ timer' \in {timer, gen} /\ UNCHANGED <<socks, inflight, maybe, result, ops>>
    <3>1. st' \in Tor(M)!State /\ timer' \in 0..M.MaxCall
      BY <2>3, ManNumbers, ManagerSame DEF Tor!State
    <3> QED BY <1>0, <1>1, <2>3, <3>1, ManagerSame, TypedAgain
  <2>4. CASE Head(ev).kind = "connected" /\ socks' = Head(ev).by /\ st' = "connected" /\ Tor(M)!Settle("connected") /\ UNCHANGED <<maybe, ops>>
    <3>1. st' \in Tor(M)!State /\ socks' \in 0..M.MaxCall
      BY <1>1, <2>4, ManNumbers, EventFields DEF Tor!State
    <3>2. timer' \in 0..M.MaxCall /\ inflight' \in 0..M.MaxCall /\ result' \in [Tor(M)!Attempt -> Tor(M)!Resolution]
      BY <2>4, SettleTyped DEF Tor!Resolution
    <3> QED BY <1>0, <1>1, <2>4, <3>1, <3>2, ManagerSame, TypedAgain
  <2>5. CASE st' = "disconnected" /\ UNCHANGED <<socks, timer, inflight, maybe, result, ops>>
    <3>1. st' \in Tor(M)!State
      BY <2>5 DEF Tor!State
    <3> QED BY <1>0, <1>1, <2>5, <3>1, ManagerSame, TypedAgain
  <2>6. CASE socks' = 0 /\ st' = "offline" /\ Tor(M)!Settle("offline") /\ UNCHANGED <<maybe, ops>>
    <3>1. st' \in Tor(M)!State /\ socks' \in 0..M.MaxCall
      BY <2>6, ManNumbers DEF Tor!State
    <3>2. timer' \in 0..M.MaxCall /\ inflight' \in 0..M.MaxCall /\ result' \in [Tor(M)!Attempt -> Tor(M)!Resolution]
      BY <2>6, SettleTyped DEF Tor!Resolution
    <3> QED BY <1>0, <1>1, <2>6, <3>1, <3>2, ManagerSame, TypedAgain
  <2> QED BY <1>3, <2>1, <2>2, <2>3, <2>4, <2>5, <2>6 DEF Tor!OnEvent, Tor!eventToState
<1> QED BY <1>2, <1>3 DEF Tor!DeliverEvent

LEMMA AnswerTyped ==
    ASSUME NEW M, Tor(M)!TorAssumption, ManTyped(M), Tor(M)!DeliverStop \/ Tor(M)!DeliverInstall
    PROVE  ManTyped(M)'
<1>0. ev # <<>> /\ ev' = Tail(ev) /\ UNCHANGED <<want, booting, live, calls>>
  BY DEF Tor!DeliverStop, Tor!DeliverInstall, Tor!native
<1>1. ev' \in Seq(EventOf(M, gen)) /\ Head(ev) \in EventOf(M, gen)
  BY <1>0, NativeFacts
<1>2. CASE Tor(M)!DeliverInstall
  <2>1. /\ conf' \in M.Cred
        /\ UNCHANGED <<st, socks, gen, subs, own, timer, inflight, maybe, result, ops>>
    BY <1>1, <1>2, ManNumbers, EventFields DEF Tor!DeliverInstall, Tor!native
  <2> QED BY <1>0, <1>1, <2>1, ManagerSame, TypedAgain
<1>3. CASE Tor(M)!DeliverStop
  <2>0. Head(ev).then \in -1..gen
    BY <1>1, <1>3, ManNumbers, EventFields DEF Tor!DeliverStop
  <2>1. CASE Head(ev).then = -1
    <3>1. UNCHANGED <<st, socks, gen, subs, own, timer, inflight, maybe, conf, result, ops>>
      BY <1>3, <2>1 DEF Tor!DeliverStop, Tor!manager
    <3> QED BY <1>0, <1>1, <3>1, ManagerSame, TypedAgain
  <2>2. CASE Head(ev).then = 0
    <3>1. st' \in Tor(M)!State /\ UNCHANGED <<socks, gen, subs, own, timer, inflight, maybe, conf, result, ops>>
      BY <1>3, <2>2 DEF Tor!DeliverStop, Tor!State
    <3> QED BY <1>0, <1>1, <3>1, ManagerSame, TypedAgain
  <2>3. CASE Head(ev).then # -1 /\ Head(ev).then # 0
    <3>0. Head(ev).then \in Tor(M)!Attempt /\ Head(ev).then \in 1..gen /\ Tor(M)!Launch(Head(ev).then, subs, result) /\ gen' = gen
          /\ Head(ev).then \in 0..M.MaxCall
      BY <1>3, <2>0, <2>3, ManNumbers DEF Tor!DeliverStop, Tor!Attempt
    <3>1. PICK g \in 1..gen : g \in Tor(M)!Attempt /\ Tor(M)!Launch(g, subs, result) /\ g \in 0..M.MaxCall
      BY <3>0
    <3>2. /\ ops' \in Seq(CallOf(M, gen)) /\ conf' \in M.Cred /\ inflight' = g /\ subs' = subs \cup {g}
          /\ own' = g /\ timer' = g /\ result' \in [Tor(M)!Attempt -> Tor(M)!Resolution]
          /\ st' = "starting-tor" /\ maybe' = TRUE /\ socks' = socks
      BY <3>1, ManNumbers, LaunchTyped
    <3>3. subs' \subseteq 1..gen /\ st' \in Tor(M)!State /\ maybe' \in BOOLEAN
      BY <3>1, <3>2, ManNumbers DEF Tor!State
    <3> QED BY <1>0, <1>1, <3>0, <3>1, <3>2, <3>3, ManagerSame, TypedAgain
  <2> QED BY <2>1, <2>2, <2>3
<1> QED BY <1>2, <1>3

\* The steps of the native module, and what each does to the queues and the client.
LEMMA NativeStep ==
    ASSUME NEW M, Tor(M)!TorAssumption, ManTyped(M)
    PROVE  /\ Tor(M)!BeginStart => /\ ops # <<>> /\ ops' = Tail(ops) /\ ops' \in Seq(CallOf(M, gen)) /\ Head(ops).by \in 1..gen
                                   /\ Head(ops).op = "start" /\ booting.by = 0 /\ live' = live
                                   /\ booting' \in [by : 0..gen, cred : M.Cred, lines : Nat] /\ ev' \in Seq(EventOf(M, gen))
                                   /\ \/ booting' = booting
                                      \/ booting'.by = Head(ops).by /\ booting'.cred = Head(ops).cred
                                   /\ \A x \in Elems(ev') : x \in Elems(ev) \/ x.kind = "error"
                                   /\ Elems(ev) \subseteq Elems(ev')
           /\ Tor(M)!Progress => /\ ops' = ops /\ live' = live /\ booting' \in [by : 0..gen, cred : M.Cred, lines : Nat]
                                 /\ booting'.by = booting.by /\ booting'.cred = booting.cred /\ ev' \in Seq(EventOf(M, gen))
                                 /\ \A x \in Elems(ev') : x \in Elems(ev) \/ x.kind = "bootstrapping"
                                 /\ Elems(ev) \subseteq Elems(ev')
           /\ Tor(M)!EndStart => /\ ops' = ops /\ booting' \in [by : 0..gen, cred : M.Cred, lines : Nat] /\ booting'.by = 0 /\ booting.by # 0
                                 /\ live' \in [by : 0..gen, cred : M.Cred, probe : BOOLEAN] /\ ev' \in Seq(EventOf(M, gen))
                                 /\ live' = live \/ (live'.by = booting.by /\ live'.cred = booting.cred)
                                 /\ \A x \in Elems(ev') : x \in Elems(ev) \/ x.kind \in {"connected", "error"}
                                 /\ Elems(ev) \subseteq Elems(ev')
           /\ Tor(M)!Verdict => /\ ops' = ops /\ booting' = booting /\ live' \in [by : 0..gen, cred : M.Cred, probe : BOOLEAN]
                                /\ live'.by = live.by /\ live'.cred = live.cred /\ ev' \in Seq(EventOf(M, gen))
                                /\ \A x \in Elems(ev') : x \in Elems(ev) \/ x.kind \in {"verified", "transport-dead"}
                                /\ Elems(ev) \subseteq Elems(ev')
           /\ Tor(M)!RunInstall => /\ ops # <<>> /\ ops' = Tail(ops) /\ ops' \in Seq(CallOf(M, gen)) /\ Head(ops).op = "install"
                                   /\ booting' = booting /\ live' \in [by : 0..gen, cred : M.Cred, probe : BOOLEAN] /\ live'.by = live.by
                                   /\ ev' \in Seq(EventOf(M, gen))
                                   /\ \A x \in Elems(ev') : x \in Elems(ev) \/ x.kind \in {"error", "installed"}
                                   /\ Elems(ev) \subseteq Elems(ev')
           /\ Tor(M)!RunStop => /\ ops # <<>> /\ ops' = Tail(ops) /\ ops' \in Seq(CallOf(M, gen)) /\ Head(ops).op = "stop"
                                /\ booting' = booting /\ booting.by = 0
                                /\ live' \in [by : 0..gen, cred : M.Cred, probe : BOOLEAN] /\ live'.by = 0
                                /\ ev' \in Seq(EventOf(M, gen)) /\ Elems(ev) \subseteq Elems(ev')
                                /\ \A x \in Elems(ev') : x \in Elems(ev) \/ x.kind = "stopped"
                                                         \/ (x.kind = "stopResolved" /\ x.then = Head(ops).then)
                                /\ \E x \in Elems(ev') : x.kind = "stopResolved" /\ x.then = Head(ops).then
<1>0. /\ gen \in Nat /\ booting \in [by : 0..gen, cred : M.Cred, lines : Nat] /\ live \in [by : 0..gen, cred : M.Cred, probe : BOOLEAN]
      /\ booting.by \in 0..gen /\ live.by \in 0..gen /\ ev \in Seq(EventOf(M, gen)) /\ booting.cred \in M.Cred
  BY ManNumbers DEF ManTyped, NativeTyped
<1>m. Makes(M, gen)
  BY <1>0, Making
<1>1. ASSUME Tor(M)!BeginStart
      PROVE  /\ ops # <<>> /\ ops' = Tail(ops) /\ ops' \in Seq(CallOf(M, gen)) /\ Head(ops).by \in 1..gen
             /\ Head(ops).op = "start" /\ booting.by = 0 /\ live' = live
             /\ booting' \in [by : 0..gen, cred : M.Cred, lines : Nat] /\ ev' \in Seq(EventOf(M, gen))
             /\ \/ booting' = booting
                \/ booting'.by = Head(ops).by /\ booting'.cred = Head(ops).cred
             /\ \A x \in Elems(ev') : x \in Elems(ev) \/ x.kind = "error"
             /\ Elems(ev) \subseteq Elems(ev')
  <2>1. /\ ops # <<>> /\ ops' = Tail(ops) /\ ops' \in Seq(CallOf(M, gen)) /\ Head(ops).op = "start" /\ booting.by = 0 /\ live' = live
        /\ Head(ops).by \in 1..gen /\ Head(ops).by \in 0..gen /\ Head(ops).cred \in M.Cred
    BY <1>0, <1>1, NativeFacts, CallFields DEF Tor!BeginStart
  <2>2. CASE Tor(M)!Emit(<<Tor(M)!Event("error", Head(ops).by)>>) /\ UNCHANGED booting
    <3>1. Tor(M)!Event("error", Head(ops).by) \in EventOf(M, gen) /\ Tor(M)!Event("error", Head(ops).by).kind = "error"
      BY <1>m, <2>1 DEF Makes
    <3>2. ev' \in Seq(EventOf(M, gen)) /\ Elems(ev') = Elems(ev) \cup {Tor(M)!Event("error", Head(ops).by)}
      BY <2>2, <3>1, NativeFacts DEF Tor!Emit
    <3> QED BY <1>0, <2>1, <2>2, <3>1, <3>2
  <2>3. CASE booting' = [by |-> Head(ops).by, cred |-> Head(ops).cred, lines |-> 0] /\ UNCHANGED ev
    BY <1>0, <2>1, <2>3
  <2> QED BY <1>1, <2>2, <2>3 DEF Tor!BeginStart
<1>2. ASSUME Tor(M)!Progress
      PROVE  /\ ops' = ops /\ live' = live /\ booting' \in [by : 0..gen, cred : M.Cred, lines : Nat]
             /\ booting'.by = booting.by /\ booting'.cred = booting.cred /\ ev' \in Seq(EventOf(M, gen))
             /\ \A x \in Elems(ev') : x \in Elems(ev) \/ x.kind = "bootstrapping"
             /\ Elems(ev) \subseteq Elems(ev')
  <2>1. Tor(M)!Event("bootstrapping", booting.by) \in EventOf(M, gen) /\ Tor(M)!Event("bootstrapping", booting.by).kind = "bootstrapping"
    BY <1>0, <1>m DEF Makes
  <2>2. ev' \in Seq(EventOf(M, gen)) /\ Elems(ev') = Elems(ev) \cup {Tor(M)!Event("bootstrapping", booting.by)}
    BY <1>2, <2>1, NativeFacts DEF Tor!Progress, Tor!Emit
  <2>3. ops' = ops /\ live' = live /\ booting' \in [by : 0..gen, cred : M.Cred, lines : Nat]
        /\ booting'.by = booting.by /\ booting'.cred = booting.cred
    BY <1>0, <1>2 DEF Tor!Progress
  <2> QED BY <2>1, <2>2, <2>3
<1>3. ASSUME Tor(M)!EndStart
      PROVE  /\ ops' = ops /\ booting' \in [by : 0..gen, cred : M.Cred, lines : Nat] /\ booting'.by = 0 /\ booting.by # 0
             /\ live' \in [by : 0..gen, cred : M.Cred, probe : BOOLEAN] /\ ev' \in Seq(EventOf(M, gen))
             /\ live' = live \/ (live'.by = booting.by /\ live'.cred = booting.cred)
             /\ \A x \in Elems(ev') : x \in Elems(ev) \/ x.kind \in {"connected", "error"}
             /\ Elems(ev) \subseteq Elems(ev')
  <2>1. booting.by \in 1..gen /\ ops' = ops /\ booting' = Tor(M)!Idle /\ booting.by # 0
    BY <1>0, <1>3 DEF Tor!EndStart
  <2>2. \A k \in {"connected", "error"} : Tor(M)!Event(k, booting.by) \in EventOf(M, gen) /\ Tor(M)!Event(k, booting.by).kind = k
    BY <1>m, <2>1 DEF Makes
  <2>3. PICK k \in {"connected", "error"} : ev' = ev \o <<Tor(M)!Event(k, booting.by)>>
    BY <1>3 DEF Tor!EndStart, Tor!Emit
  <2>4. ev' \in Seq(EventOf(M, gen)) /\ Elems(ev') = Elems(ev) \cup {Tor(M)!Event(k, booting.by)} /\ Tor(M)!Event(k, booting.by).kind = k
    BY <2>2, <2>3, NativeFacts
  <2>5. booting' \in [by : 0..gen, cred : M.Cred, lines : Nat] /\ booting'.by = 0
    <3>1. booting' \in [by : {0}, cred : M.Cred, lines : {0}] /\ 0 \in 0..gen
      BY <1>0, <1>m, <2>1 DEF Makes
    <3> QED BY <3>1
  <2>6. /\ live' \in [by : 0..gen, cred : M.Cred, probe : BOOLEAN]
        /\ live' = live \/ (live'.by = booting.by /\ live'.cred = booting.cred)
    <3>1. CASE live' = [by |-> booting.by, cred |-> booting.cred, probe |-> TRUE]
      BY <1>0, <3>1
    <3>2. CASE live' = live
      BY <1>0, <3>2
    <3> QED BY <1>3, <3>1, <3>2 DEF Tor!EndStart
  <2> QED BY <2>1, <2>4, <2>5, <2>6
<1>4. ASSUME Tor(M)!Verdict
      PROVE  /\ ops' = ops /\ booting' = booting /\ live' \in [by : 0..gen, cred : M.Cred, probe : BOOLEAN]
             /\ live'.by = live.by /\ live'.cred = live.cred /\ ev' \in Seq(EventOf(M, gen))
             /\ \A x \in Elems(ev') : x \in Elems(ev) \/ x.kind \in {"verified", "transport-dead"}
             /\ Elems(ev) \subseteq Elems(ev')
  <2>1. PICK k \in {"verified", "transport-dead"} : ev' = ev \o <<Tor(M)!Event(k, live.by)>>
    BY <1>4 DEF Tor!Verdict, Tor!Emit
  <2>2. Tor(M)!Event(k, live.by) \in EventOf(M, gen) /\ Tor(M)!Event(k, live.by).kind = k
    BY <1>0, <1>m DEF Makes
  <2>3. ev' \in Seq(EventOf(M, gen)) /\ Elems(ev') = Elems(ev) \cup {Tor(M)!Event(k, live.by)}
    BY <2>1, <2>2, NativeFacts
  <2>4. ops' = ops /\ booting' = booting /\ live' \in [by : 0..gen, cred : M.Cred, probe : BOOLEAN]
        /\ live'.by = live.by /\ live'.cred = live.cred
    BY <1>0, <1>4 DEF Tor!Verdict
  <2> QED BY <2>2, <2>3, <2>4
<1>5. ASSUME Tor(M)!RunInstall
      PROVE  /\ ops # <<>> /\ ops' = Tail(ops) /\ ops' \in Seq(CallOf(M, gen)) /\ Head(ops).op = "install"
             /\ booting' = booting /\ live' \in [by : 0..gen, cred : M.Cred, probe : BOOLEAN] /\ live'.by = live.by
             /\ ev' \in Seq(EventOf(M, gen))
             /\ \A x \in Elems(ev') : x \in Elems(ev) \/ x.kind \in {"error", "installed"}
             /\ Elems(ev) \subseteq Elems(ev')
  <2>1. ops # <<>> /\ ops' = Tail(ops) /\ ops' \in Seq(CallOf(M, gen)) /\ Head(ops).op = "install" /\ Head(ops).cred \in M.Cred
        /\ booting' = booting
    BY <1>0, <1>5, NativeFacts, CallFields DEF Tor!RunInstall
  <2>2. Tor(M)!Event("error", live.by) \in EventOf(M, gen) /\ Tor(M)!Event("error", live.by).kind = "error"
    BY <1>0, <1>m DEF Makes
  <2>3. [Tor(M)!Answer("installed", 0) EXCEPT !.by = Head(ops).cred] \in EventOf(M, gen)
    BY <1>m, <2>1 DEF Makes
  <2>4. [Tor(M)!Answer("installed", 0) EXCEPT !.by = Head(ops).cred].kind = "installed"
    BY DEF Tor!Answer
  <2>5. PICK x \in EventOf(M, gen) : ev' = ev \o <<x>> /\ x.kind \in {"error", "installed"}
    BY <1>5, <2>2, <2>3, <2>4 DEF Tor!RunInstall, Tor!Emit
  <2>6. ev' \in Seq(EventOf(M, gen)) /\ Elems(ev') = Elems(ev) \cup {x}
    BY <2>5, NativeFacts
  <2>7. live' \in [by : 0..gen, cred : M.Cred, probe : BOOLEAN] /\ live'.by = live.by
    BY <1>0, <1>5, <2>1 DEF Tor!RunInstall
  <2> QED BY <2>1, <2>5, <2>6, <2>7
<1>6. ASSUME Tor(M)!RunStop
      PROVE  /\ ops # <<>> /\ ops' = Tail(ops) /\ ops' \in Seq(CallOf(M, gen)) /\ Head(ops).op = "stop"
             /\ booting' = booting /\ booting.by = 0
             /\ live' \in [by : 0..gen, cred : M.Cred, probe : BOOLEAN] /\ live'.by = 0
             /\ ev' \in Seq(EventOf(M, gen)) /\ Elems(ev) \subseteq Elems(ev')
             /\ \A x \in Elems(ev') : x \in Elems(ev) \/ x.kind = "stopped"
                                      \/ (x.kind = "stopResolved" /\ x.then = Head(ops).then)
             /\ \E x \in Elems(ev') : x.kind = "stopResolved" /\ x.then = Head(ops).then
  <2>1. ops # <<>> /\ ops' = Tail(ops) /\ ops' \in Seq(CallOf(M, gen)) /\ Head(ops).op = "stop" /\ Head(ops).then \in -1..gen
        /\ booting' = booting /\ booting.by = 0 /\ live' = Tor(M)!NoClient
    BY <1>0, <1>6, NativeFacts, CallFields DEF Tor!RunStop
  <2>2. Tor(M)!Event("stopped", live.by) \in EventOf(M, gen) /\ Tor(M)!Event("stopped", live.by).kind = "stopped"
    BY <1>0, <1>m DEF Makes
  <2>3. /\ Tor(M)!Answer("stopResolved", Head(ops).then) \in EventOf(M, gen)
        /\ Tor(M)!Answer("stopResolved", Head(ops).then).kind = "stopResolved"
        /\ Tor(M)!Answer("stopResolved", Head(ops).then).then = Head(ops).then
    BY <1>m, <2>1 DEF Makes
  <2>4. PICK x, y \in EventOf(M, gen) : /\ ev' = ev \o <<x, y>> /\ x.kind = "stopped"
                                        /\ y.kind = "stopResolved" /\ y.then = Head(ops).then
    BY <1>6, <2>2, <2>3 DEF Tor!RunStop, Tor!Emit
  <2>5. ev' \in Seq(EventOf(M, gen)) /\ Elems(ev') = Elems(ev) \cup {x, y}
    BY <2>4, NativeFacts
  <2>6. live' \in [by : 0..gen, cred : M.Cred, probe : BOOLEAN] /\ live'.by = 0
    <3>1. live' \in [by : {0}, cred : M.Cred, probe : {FALSE}] /\ 0 \in 0..gen
      BY <1>0, <1>m, <2>1 DEF Makes
    <3> QED BY <3>1
  <2> QED BY <2>1, <2>4, <2>5, <2>6
<1> QED BY <1>1, <1>2, <1>3, <1>4, <1>5, <1>6

Native(M) == Tor(M)!BeginStart \/ Tor(M)!Progress \/ Tor(M)!EndStart \/ Tor(M)!Verdict \/ Tor(M)!RunInstall \/ Tor(M)!RunStop

LEMMA NativeTypedStep ==
    ASSUME NEW M, Tor(M)!TorAssumption, ManTyped(M), Native(M)
    PROVE  ManTyped(M)'
<1>1. UNCHANGED <<st, socks, gen, subs, own, timer, inflight, maybe, conf, result, want, calls>>
  BY DEF Native, Tor!BeginStart, Tor!Progress, Tor!EndStart, Tor!Verdict, Tor!RunInstall, Tor!RunStop, Tor!manager
<1>2. ops' \in Seq(CallOf(M, gen)) /\ ev' \in Seq(EventOf(M, gen)) /\ booting' \in [by : 0..gen, cred : M.Cred, lines : Nat]
      /\ live' \in [by : 0..gen, cred : M.Cred, probe : BOOLEAN]
  BY NativeStep, ManagerSame DEF Native
<1> QED BY <1>1, <1>2, ManagerSame, TypedAgain

LEMMA ManTypedStep ==
    ASSUME NEW M, Tor(M)!TorAssumption, ManTyped(M), Tor(M)!Next
    PROVE  ManTyped(M)'
  BY ConnectTyped, DisconnectTyped, MemberTyped, TimeoutTyped, EventTyped, AnswerTyped, NativeTypedStep DEF Tor!Next, Native

----------------------------------------------------------------------------
\* The last stop of the native queue, as it grows and shrinks.
LEMMA LastStopFacts ==
    ASSUME NEW S, NEW s \in Seq(S)
    PROVE  /\ \A x \in S : x.op = "stop" => EndsStopped(Append(s, x))
           /\ \A x \in S : x.op # "start" /\ EndsStopped(s) => EndsStopped(Append(s, x))
           /\ s # <<>> /\ EndsStopped(s) =>
                  EndsStopped(Tail(s)) \/ (Head(s).op = "stop" /\ \A x \in Elems(Tail(s)) : x.op # "start")
<1>1. ASSUME NEW x \in S
      PROVE  /\ DOMAIN Append(s, x) = 1..(Len(s) + 1) /\ Len(s) \in Nat /\ DOMAIN s = 1..Len(s)
             /\ \A i \in 1..Len(s) : Append(s, x)[i] = s[i]
             /\ Append(s, x)[Len(s) + 1] = x
  OBVIOUS
<1>2. ASSUME NEW x \in S, x.op = "stop" PROVE EndsStopped(Append(s, x))
  <2>1. Len(s) + 1 \in DOMAIN Append(s, x) /\ Append(s, x)[Len(s) + 1] = x
        /\ \A k \in DOMAIN Append(s, x) : ~(Len(s) + 1 < k)
    BY <1>1
  <2> QED BY <1>2, <2>1 DEF EndsStopped
<1>3. ASSUME NEW x \in S, x.op # "start", EndsStopped(s) PROVE EndsStopped(Append(s, x))
  <2>1. PICK i \in DOMAIN s : s[i].op = "stop" /\ \A k \in DOMAIN s : i < k => s[k].op # "start"
    BY <1>3 DEF EndsStopped
  <2>2. i \in DOMAIN Append(s, x) /\ Append(s, x)[i].op = "stop"
    BY <1>1, <2>1
  <2>3. \A k \in DOMAIN Append(s, x) : i < k => Append(s, x)[k].op # "start"
    BY <1>1, <1>3, <2>1
  <2> QED BY <2>2, <2>3 DEF EndsStopped
<1>4. ASSUME s # <<>>, EndsStopped(s)
      PROVE  EndsStopped(Tail(s)) \/ (Head(s).op = "stop" /\ \A x \in Elems(Tail(s)) : x.op # "start")
  <2>1. PICK i \in DOMAIN s : s[i].op = "stop" /\ \A k \in DOMAIN s : i < k => s[k].op # "start"
    BY <1>4 DEF EndsStopped
  <2>2. /\ Len(s) \in Nat \ {0} /\ DOMAIN s = 1..Len(s) /\ Head(s) = s[1]
        /\ DOMAIN Tail(s) = 1..(Len(s) - 1) /\ \A k \in 1..(Len(s) - 1) : Tail(s)[k] = s[k + 1]
    BY <1>4
  <2>3. CASE i = 1
    <3>1. \A k \in DOMAIN Tail(s) : Tail(s)[k].op # "start"
      BY <2>1, <2>2, <2>3
    <3> QED BY <2>1, <2>2, <2>3, <3>1 DEF Elems
  <2>4. CASE i # 1
    <3>1. i - 1 \in DOMAIN Tail(s) /\ Tail(s)[i - 1].op = "stop"
      BY <2>1, <2>2, <2>4
    <3>2. \A k \in DOMAIN Tail(s) : i - 1 < k => Tail(s)[k].op # "start"
      BY <2>1, <2>2, <2>4
    <3> QED BY <3>1, <3>2 DEF EndsStopped
  <2> QED BY <2>3, <2>4
<1> QED BY <1>2, <1>3, <1>4

\* A stop is skipped only with one on its way, or with nothing to stop.
LEMMA StopInvStep ==
    ASSUME NEW M, Tor(M)!TorAssumption, ManTyped(M), StopInv(M), Tor(M)!Next
    PROVE  StopInv(M)'
<1>0. ops \in Seq(CallOf(M, gen)) /\ ops \in Seq(CallOf(M, gen + 1)) /\ gen \in Nat
  BY NextAttempt, ManNumbers DEF ManTyped, NativeTyped
<1>1. ASSUME NEW t \in -1..(gen + 1), Tor(M)!StopBackendIfRunning(t), UNCHANGED <<booting, live>> PROVE StopInv(M)'
  <2>1. CASE maybe
    <3>1. ops' = Append(ops, [op |-> "stop", by |-> 0, cred |-> conf, then |-> t])
      BY <1>1, <2>1 DEF Tor!StopBackendIfRunning, Tor!Queue
    <3>2. [op |-> "stop", by |-> 0, cred |-> conf, then |-> t] \in CallOf(M, gen + 1)
      <4>1. gen + 1 \in Nat /\ conf \in M.Cred
        BY ManNumbers
      <4>2. Makes(M, gen + 1)
        BY <4>1, Making
      <4> QED BY <1>1, <4>1, <4>2 DEF Makes
    <3>3. EndsStopped(ops')
      BY <1>0, <3>1, <3>2, LastStopFacts
    <3> QED BY <3>3 DEF StopInv
  <2>2. CASE ~maybe
    BY <1>1, <2>2 DEF StopInv, Tor!StopBackendIfRunning
  <2> QED BY <2>1, <2>2
<1>2. ASSUME maybe' = TRUE PROVE StopInv(M)'
  BY <1>2 DEF StopInv
<1>3. ASSUME UNCHANGED <<maybe, ops, booting, live>> PROVE StopInv(M)'
  BY <1>3 DEF StopInv
<1>4. CASE Tor(M)!Connect
  <2>1. \/ UNCHANGED <<maybe, ops, booting, live>>
        \/ Tor(M)!StopBackendIfRunning(gen + 1) /\ UNCHANGED <<booting, live>>
        \/ maybe' = TRUE
    BY <1>4 DEF Tor!Connect, Tor!manager, Tor!Launch
  <2>2. gen + 1 \in -1..(gen + 1)
    BY <1>0
  <2> QED BY <1>1, <1>2, <1>3, <2>1, <2>2
<1>5. CASE Tor(M)!Disconnect
  <2>1. Tor(M)!StopBackendIfRunning(0) /\ UNCHANGED <<booting, live>> /\ 0 \in -1..(gen + 1)
    BY <1>0, <1>5 DEF Tor!Disconnect
  <2> QED BY <1>1, <2>1
<1>6. CASE Tor(M)!InstallReach
  <2>1. [op |-> "install", by |-> 0, cred |-> want, then |-> -1] \in CallOf(M, gen)
    BY ManNumbers, Making DEF Makes
  <2>2. /\ ops' = Append(ops, [op |-> "install", by |-> 0, cred |-> want, then |-> -1]) /\ UNCHANGED <<maybe, booting, live>>
        /\ Elems(ops') = Elems(ops) \cup {[op |-> "install", by |-> 0, cred |-> want, then |-> -1]}
    BY <1>6, <2>1, NativeFacts DEF Tor!InstallReach, Tor!Queue, Tor!manager
  <2>3. EndsStopped(ops) => EndsStopped(ops')
    BY <1>0, <2>1, <2>2, LastStopFacts
  <2> QED BY <2>2, <2>3 DEF StopInv
<1>7. CASE Tor(M)!Switch
  BY <1>3, <1>7 DEF Tor!Switch, Tor!manager, Tor!native
<1>8. CASE Tor(M)!Timeout
  <2>1. \/ UNCHANGED <<maybe, ops, booting, live>>
        \/ Tor(M)!StopBackendIfRunning(-1) /\ UNCHANGED <<booting, live>>
    BY <1>8 DEF Tor!Timeout
  <2>2. -1 \in -1..(gen + 1)
    BY <1>0
  <2> QED BY <1>1, <1>3, <2>1, <2>2
<1>9. CASE Tor(M)!DeliverEvent
  <2>1. \/ UNCHANGED <<maybe, ops, booting, live>>
        \/ Tor(M)!StopBackendIfRunning(-1) /\ UNCHANGED <<booting, live>>
    BY <1>9 DEF Tor!DeliverEvent, Tor!OnEvent
  <2>2. -1 \in -1..(gen + 1)
    BY <1>0
  <2> QED BY <1>1, <1>3, <2>1, <2>2
<1>10. CASE Tor(M)!DeliverStop
  <2>1. UNCHANGED <<maybe, ops, booting, live>> \/ maybe' = TRUE
    BY <1>10 DEF Tor!DeliverStop, Tor!Launch, Tor!manager
  <2> QED BY <1>2, <1>3, <2>1
<1>11. CASE Tor(M)!DeliverInstall
  BY <1>3, <1>11 DEF Tor!DeliverInstall, Tor!native
<1>12. CASE Tor(M)!BeginStart
  <2>1. /\ ops # <<>> /\ ops' = Tail(ops) /\ Head(ops).op = "start" /\ Head(ops) \in Elems(ops) /\ live' = live /\ maybe' = maybe
    BY <1>12, NativeStep, NativeFacts DEF Tor!BeginStart, Tor!manager
  <2>2. EndsStopped(ops) => EndsStopped(ops')
    BY <1>0, <2>1, LastStopFacts
  <2> QED BY <2>1, <2>2 DEF StopInv
<1>13. CASE Tor(M)!Progress
  <2>1. ops' = ops /\ live' = live /\ booting'.by = booting.by /\ maybe' = maybe
    BY <1>13, NativeStep DEF Tor!Progress, Tor!manager
  <2> QED BY <2>1 DEF StopInv
<1>14. CASE Tor(M)!EndStart
  <2>1. ops' = ops /\ booting.by # 0 /\ maybe' = maybe
    BY <1>14, NativeStep DEF Tor!EndStart, Tor!manager
  <2> QED BY <2>1 DEF StopInv
<1>15. CASE Tor(M)!Verdict
  <2>1. ops' = ops /\ booting' = booting /\ live'.by = live.by /\ maybe' = maybe
    BY <1>15, NativeStep DEF Tor!Verdict, Tor!manager
  <2> QED BY <2>1 DEF StopInv
<1>16. CASE Tor(M)!RunInstall
  <2>1. /\ ops # <<>> /\ ops' = Tail(ops) /\ Head(ops).op = "install" /\ Elems(ops') \subseteq Elems(ops)
        /\ booting' = booting /\ live'.by = live.by /\ maybe' = maybe
    BY <1>16, NativeStep, NativeFacts DEF Tor!RunInstall, Tor!manager
  <2>2. EndsStopped(ops) => EndsStopped(ops')
    BY <1>0, <2>1, LastStopFacts
  <2> QED BY <2>1, <2>2 DEF StopInv
<1>17. CASE Tor(M)!RunStop
  <2>1. /\ ops # <<>> /\ ops' = Tail(ops) /\ Elems(ops') \subseteq Elems(ops)
        /\ booting' = booting /\ booting.by = 0 /\ live'.by = 0 /\ maybe' = maybe
    BY <1>17, NativeStep, NativeFacts DEF Tor!RunStop, Tor!manager
  <2>2. EndsStopped(ops) => EndsStopped(ops') \/ \A x \in Elems(ops') : x.op # "start"
    BY <1>0, <2>1, LastStopFacts
  <2> QED BY <2>1, <2>2 DEF StopInv
<1> QED
  BY <1>4, <1>5, <1>6, <1>7, <1>8, <1>9, <1>10, <1>11, <1>12, <1>13, <1>14, <1>15, <1>16, <1>17 DEF Tor!Next

\* A stop that somebody waits for, among the calls and the answers on their way.
LEMMA AwaitElems ==
    ASSUME NEW M, NEW t
    PROVE  /\ Tor(M)!Await(t) <=> \/ \E x \in Elems(ops) : x.op = "stop" /\ x.then = t
                                  \/ \E x \in Elems(ev) : x.kind = "stopResolved" /\ x.then = t
           /\ Tor(M)!Await(t)' <=> \/ \E x \in Elems(ops') : x.op = "stop" /\ x.then = t
                                   \/ \E x \in Elems(ev') : x.kind = "stopResolved" /\ x.then = t
<1>1. Tor(M)!Await(t) <=> \/ \E x \in Elems(ops) : x.op = "stop" /\ x.then = t
                          \/ \E x \in Elems(ev) : x.kind = "stopResolved" /\ x.then = t
  BY DEF Tor!Await, Elems
<1>2. Tor(M)!Await(t)' <=> \/ \E x \in Elems(ops') : x.op = "stop" /\ x.then = t
                           \/ \E x \in Elems(ev') : x.kind = "stopResolved" /\ x.then = t
  BY DEF Tor!Await, Elems
<1> QED BY <1>1, <1>2

\* Nothing but the answer to it ends the wait for a disconnect()'s stop.
LEMMA AwaitKept ==
    ASSUME NEW M, Tor(M)!TorAssumption, ManTyped(M), Tor(M)!Next, Tor(M)!Await(0)
    PROVE  Tor(M)!Await(0)' \/ (Tor(M)!DeliverStop /\ Head(ev).then = 0)
<1> SUFFICES ASSUME ~(Tor(M)!DeliverStop /\ Head(ev).then = 0) PROVE Tor(M)!Await(0)'
  OBVIOUS
<1>0. \A g \in {gen, gen + 1} : \A x \in CallOf(M, g) : Elems(Append(ops, x)) = Elems(ops) \cup {x}
  BY NativeFacts, NextAttempt
<1>1. Elems(ops) \subseteq Elems(ops') /\ Elems(ev) \subseteq Elems(ev') => Tor(M)!Await(0)'
  BY AwaitElems
<1>2. ASSUME NEW t \in -1..(gen + 1), Tor(M)!StopBackendIfRunning(t) PROVE Elems(ops) \subseteq Elems(ops')
  BY <1>2, StopTyped
<1>3. 0 \in -1..(gen + 1) /\ -1 \in -1..(gen + 1) /\ gen + 1 \in -1..(gen + 1) /\ gen + 1 \in 1..(gen + 1)
  BY ManNumbers
<1>a. \A h \in {gen, gen + 1} : \A g \in 1..h : \A ss \in SUBSET Tor(M)!Attempt, res \in [Tor(M)!Attempt -> Tor(M)!Resolution] :
         g \in Tor(M)!Attempt /\ Tor(M)!Launch(g, ss, res) => Elems(ops) \subseteq Elems(ops')
  BY LaunchTyped
<1>b. /\ subs \in SUBSET Tor(M)!Attempt /\ Tor(M)!Kept \in SUBSET Tor(M)!Attempt
      /\ Tor(M)!Released \in [Tor(M)!Attempt -> Tor(M)!Resolution] /\ result \in [Tor(M)!Attempt -> Tor(M)!Resolution]
  BY ManNumbers
<1>4. CASE Tor(M)!Connect
  <2>1. \/ UNCHANGED ops \/ Tor(M)!StopBackendIfRunning(gen + 1) \/ Tor(M)!Launch(gen + 1, Tor(M)!Kept, Tor(M)!Released)
    BY <1>4 DEF Tor!Connect, Tor!manager
  <2>2. gen + 1 \in Tor(M)!Attempt
    BY <1>4, ManNumbers DEF Tor!Connect, Tor!Attempt
  <2>3. Tor(M)!Launch(gen + 1, Tor(M)!Kept, Tor(M)!Released) => Elems(ops) \subseteq Elems(ops')
    BY <1>3, <1>a, <1>b, <2>2
  <2>4. ev' = ev /\ (UNCHANGED ops => Elems(ops) \subseteq Elems(ops'))
    BY <1>4 DEF Tor!Connect
  <2>5. Elems(ops) \subseteq Elems(ops')
    BY <1>2, <1>3, <2>1, <2>3, <2>4
  <2> QED BY <1>1, <2>4, <2>5
<1>5. CASE Tor(M)!Disconnect
  BY <1>1, <1>2, <1>3, <1>5 DEF Tor!Disconnect
<1>6. CASE Tor(M)!InstallReach
  <2>1. [op |-> "install", by |-> 0, cred |-> want, then |-> -1] \in CallOf(M, gen)
    BY ManNumbers, Making DEF Makes
  <2> QED BY <1>0, <1>1, <1>6, <2>1 DEF Tor!InstallReach, Tor!Queue
<1>7. CASE Tor(M)!Switch
  BY <1>1, <1>7 DEF Tor!Switch, Tor!native
<1>8. CASE Tor(M)!Timeout
  BY <1>1, <1>2, <1>3, <1>8 DEF Tor!Timeout
<1>9. CASE Tor(M)!DeliverEvent
  <2>1. Elems(ops) \subseteq Elems(ops')
    BY <1>2, <1>3, <1>9 DEF Tor!DeliverEvent, Tor!OnEvent
  <2>2. Elems(ev) = {Head(ev)} \cup Elems(ev') /\ Head(ev).kind # "stopResolved"
    BY <1>9, NativeFacts DEF Tor!DeliverEvent
  <2> QED BY <2>1, <2>2, AwaitElems
<1>10. CASE Tor(M)!DeliverStop
  <2>1. Elems(ev) = {Head(ev)} \cup Elems(ev') /\ Head(ev).then # 0 /\ Head(ev) \in EventOf(M, gen) /\ Head(ev).kind = "stopResolved"
    BY <1>10, NativeFacts DEF Tor!DeliverStop
  <2>2. ASSUME Head(ev).then # -1 PROVE Elems(ops) \subseteq Elems(ops')
    <3>1. Head(ev).then \in 1..gen /\ Head(ev).then \in Tor(M)!Attempt /\ Tor(M)!Launch(Head(ev).then, subs, result)
      <4>1. Head(ev).then \in -1..gen
        BY <2>1, ManNumbers, EventFields
      <4> QED BY <1>10, <2>1, <2>2, <4>1, ManNumbers DEF Tor!DeliverStop
    <3>2. PICK g \in 1..gen : g \in Tor(M)!Attempt /\ Tor(M)!Launch(g, subs, result)
      BY <3>1
    <3> QED BY <1>a, <1>b, <3>2
  <2>3. Head(ev).then = -1 => ops' = ops
    BY <1>10 DEF Tor!DeliverStop
  <2> QED BY <2>1, <2>2, <2>3, AwaitElems
<1>11. CASE Tor(M)!DeliverInstall
  <2>1. Elems(ev) = {Head(ev)} \cup Elems(ev') /\ Head(ev).kind # "stopResolved" /\ ops' = ops
    BY <1>11, NativeFacts DEF Tor!DeliverInstall, Tor!native
  <2> QED BY <2>1, AwaitElems
<1>12. CASE Tor(M)!BeginStart \/ Tor(M)!RunInstall
  <2>1. Elems(ev) \subseteq Elems(ev') /\ Elems(ops) = {Head(ops)} \cup Elems(ops') /\ Head(ops).op # "stop"
    BY <1>12, NativeStep, NativeFacts
  <2> QED BY <2>1, AwaitElems
<1>13. CASE Tor(M)!Progress \/ Tor(M)!EndStart \/ Tor(M)!Verdict
  <2>1. Elems(ev) \subseteq Elems(ev') /\ ops' = ops
    BY <1>13, NativeStep
  <2> QED BY <1>1, <2>1
<1>14. CASE Tor(M)!RunStop
  <2>1. Elems(ev) \subseteq Elems(ev') /\ Elems(ops) = {Head(ops)} \cup Elems(ops')
        /\ \E x \in Elems(ev') : x.kind = "stopResolved" /\ x.then = Head(ops).then
    BY <1>14, NativeStep, NativeFacts
  <2> QED BY <2>1, AwaitElems
<1> QED BY <1>4, <1>5, <1>6, <1>7, <1>8, <1>9, <1>10, <1>11, <1>12, <1>13, <1>14 DEF Tor!Next

\* The proxy and the state change together, but for a disconnect() that awaits its stop.
LEMMA ProxyStep ==
    ASSUME NEW M, Tor(M)!TorAssumption, ManTyped(M), Tor(M)!ConnectedHasProxy, Tor(M)!Next
    PROVE  Tor(M)!ConnectedHasProxy'
<1> SUFFICES ASSUME st' = "connected", socks' = 0 PROVE Tor(M)!Await(0)'
  BY DEF Tor!ConnectedHasProxy
<1>1. ASSUME st = "connected", socks = 0, ~(Tor(M)!DeliverStop /\ Head(ev).then = 0) PROVE Tor(M)!Await(0)'
  BY <1>1, AwaitKept DEF Tor!ConnectedHasProxy
<1>2. CASE Tor(M)!DeliverStop
  <2>1. UNCHANGED <<st, socks>> \/ st' = "starting-tor" \/ st' = "disconnected"
    BY <1>2 DEF Tor!DeliverStop, Tor!manager, Tor!Launch
  <2>2. Head(ev).then = 0 => st' = "disconnected"
    BY <1>2 DEF Tor!DeliverStop
  <2> QED BY <1>1, <2>1, <2>2
<1>3. CASE Tor(M)!Disconnect
  <2>1. maybe
    BY <1>3 DEF Tor!Disconnect
  <2>2. Elems(ops') = Elems(ops) \cup {[op |-> "stop", by |-> 0, cred |-> conf, then |-> 0]}
    BY <1>3, <2>1, ManNumbers, StopTyped DEF Tor!Disconnect
  <2>3. \E x \in Elems(ops') : x.op = "stop" /\ x.then = 0
    <3>1. [op |-> "stop", by |-> 0, cred |-> conf, then |-> 0] \in Elems(ops')
      BY <2>2
    <3> WITNESS [op |-> "stop", by |-> 0, cred |-> conf, then |-> 0] \in Elems(ops')
    <3> QED OBVIOUS
  <2> QED BY <2>3, AwaitElems
<1>4. CASE Tor(M)!DeliverEvent
  <2>1. \/ UNCHANGED <<st, socks>> \/ st' \in {"offline", "disconnected", "connecting-bridge"}
        \/ (Head(ev).kind = "connected" /\ socks' = Head(ev).by)
    BY <1>4 DEF Tor!DeliverEvent, Tor!OnEvent, Tor!eventToState
  <2>2. Head(ev).kind = "connected" => Head(ev).by \in 1..gen
    <3>1. Head(ev) \in EventOf(M, gen)
      BY <1>4, NativeFacts DEF Tor!DeliverEvent
    <3> QED BY <3>1, ManNumbers, EventFields
  <2>3. ~(Head(ev).kind = "connected" /\ socks' = Head(ev).by) /\ ~Tor(M)!DeliverStop
    BY <1>4, <2>2, ManNumbers DEF Tor!DeliverEvent, Tor!DeliverStop
  <2>4. UNCHANGED <<st, socks>>
    BY <2>1, <2>3
  <2> QED BY <1>1, <2>3, <2>4
<1>5. CASE Tor(M)!Connect \/ Tor(M)!Timeout
  <2>1. UNCHANGED <<st, socks>> \/ st' \in {"offline", "starting-tor"}
    BY <1>5 DEF Tor!Connect, Tor!Timeout, Tor!Launch, Tor!manager
  <2>2. ~Tor(M)!DeliverStop
    BY <1>5, ManNumbers DEF Tor!Connect, Tor!Timeout, Tor!DeliverStop
  <2> QED BY <1>1, <2>1, <2>2
<1>6. CASE Tor(M)!InstallReach \/ Tor(M)!Switch \/ Tor(M)!DeliverInstall \/ Tor(M)!BeginStart \/ Tor(M)!RunInstall \/ Tor(M)!RunStop \/ Tor(M)!Progress \/ Tor(M)!EndStart \/ Tor(M)!Verdict
  <2>1. UNCHANGED <<st, socks>>
    BY <1>6 DEF Tor!InstallReach, Tor!Switch, Tor!DeliverInstall, Tor!BeginStart, Tor!RunInstall, Tor!RunStop, Tor!Progress, Tor!EndStart, Tor!Verdict, Tor!manager
  <2> QED BY <1>2, <1>1, <2>1
<1> QED BY <1>2, <1>3, <1>4, <1>5, <1>6 DEF Tor!Next

----------------------------------------------------------------------------
\* One connect() at a time: a connect() that does not return at once launches the next attempt,
\* and no stop resolves into one.
LEMMA SoloCases ==
    ASSUME NEW M, Tor(M)!TorAssumption, ManTyped(M), SoloInv(M), ~M.Overlap
    PROVE  /\ Tor(M)!Connect => \/ UNCHANGED <<Tor(M)!manager, ops>>
                                \/ /\ gen' = gen + 1 /\ gen + 1 \in Tor(M)!Attempt /\ Tor(M)!Released = result
                                   /\ \A g \in Tor(M)!Attempt : result[g] # "pending"
                                   /\ Tor(M)!Launch(gen + 1, Tor(M)!Kept, result)
           /\ Tor(M)!DeliverStop => \/ UNCHANGED <<Tor(M)!manager, ops>> /\ Head(ev).then = -1
                                    \/ st' = "disconnected" /\ Head(ev).then = 0
                                       /\ UNCHANGED <<socks, gen, subs, own, timer, inflight, maybe, conf, result, ops>>
<1>1. ASSUME Tor(M)!Connect
      PROVE  \/ UNCHANGED <<Tor(M)!manager, ops>>
             \/ /\ gen' = gen + 1 /\ gen + 1 \in Tor(M)!Attempt /\ Tor(M)!Released = result
                /\ \A g \in Tor(M)!Attempt : result[g] # "pending"
                /\ Tor(M)!Launch(gen + 1, Tor(M)!Kept, result)
  <2>1. (\A g \in Tor(M)!Attempt : result[g] # "pending") /\ gen + 1 \in Tor(M)!Attempt
    BY <1>1, ManNumbers DEF Tor!Connect, Tor!Attempt
  <2>2. inflight = 0
    <3>1. inflight # 0 => inflight \in Tor(M)!Attempt
      BY ManagerSame DEF Tor!Attempt
    <3> QED BY <2>1, <3>1 DEF SoloInv
  <2> QED BY <1>1, <2>1, <2>2 DEF Tor!Connect, Tor!Released
<1>2. ASSUME Tor(M)!DeliverStop
      PROVE  \/ UNCHANGED <<Tor(M)!manager, ops>> /\ Head(ev).then = -1
             \/ st' = "disconnected" /\ Head(ev).then = 0
                /\ UNCHANGED <<socks, gen, subs, own, timer, inflight, maybe, conf, result, ops>>
  <2>1. Head(ev) \in Elems(ev) /\ Head(ev) \in EventOf(M, gen) /\ Head(ev).kind = "stopResolved"
    BY <1>2, NativeFacts DEF Tor!DeliverStop
  <2>2. Head(ev).then \in -1..gen /\ Head(ev).then <= 0
    BY <2>1, ManNumbers, EventFields DEF SoloInv
  <2>3. Head(ev).then = -1 \/ Head(ev).then = 0
    BY <2>2, ManNumbers
  <2> QED BY <1>2, <2>3 DEF Tor!DeliverStop
<1> QED BY <1>1, <1>2

\* What happens to the calls and answers: new ones have nobody, or a disconnect(), waiting.
LEMMA SoloQueues ==
    ASSUME NEW M, Tor(M)!TorAssumption, ManTyped(M), SoloInv(M), ~M.Overlap, Tor(M)!Next
    PROVE  /\ \A x \in Elems(ops') : x.op = "stop" => x.then <= 0
           /\ \A x \in Elems(ev') : x.kind = "stopResolved" => x.then <= 0
<1>0. /\ \A x \in Elems(ops) : x.op = "stop" => x.then <= 0
      /\ \A x \in Elems(ev) : x.kind = "stopResolved" => x.then <= 0
  BY DEF SoloInv
<1>1. ASSUME NEW t \in {-1, 0}, Tor(M)!StopBackendIfRunning(t) PROVE \A x \in Elems(ops') : x.op = "stop" => x.then <= 0
  <2>1. t \in -1..gen
    BY ManNumbers
  <2>2. \A x \in Elems(ops') : x \in Elems(ops) \/ x = [op |-> "stop", by |-> 0, cred |-> conf, then |-> t]
    BY <1>1, StopAdds
  <2> QED BY <1>0, <2>2
<1>2. CASE Tor(M)!Connect
  <2>1. ASSUME gen + 1 \in Tor(M)!Attempt, Tor(M)!Launch(gen + 1, Tor(M)!Kept, result) PROVE \A x \in Elems(ops') : x.op = "stop" => x.then <= 0
    <3>1. gen + 1 \in 1..(gen + 1)
      BY ManNumbers
    <3>2. \A x \in Elems(ops') : x \in Elems(ops) \/ x = [op |-> "start", by |-> gen + 1, cred |-> want, then |-> -1]
      BY <2>1, LaunchAdds
    <3> QED BY <1>0, <3>2
  <2> QED BY <1>0, <1>2, <2>1, SoloCases DEF Tor!Connect
<1>3. CASE Tor(M)!Disconnect
  BY <1>0, <1>1, <1>3 DEF Tor!Disconnect
<1>4. CASE Tor(M)!InstallReach
  <2>1. [op |-> "install", by |-> 0, cred |-> want, then |-> -1] \in CallOf(M, gen)
    BY ManNumbers, Making DEF Makes
  <2>2. \A x \in Elems(ops') : x \in Elems(ops) \/ x = [op |-> "install", by |-> 0, cred |-> want, then |-> -1]
    BY <1>4, <2>1, NativeFacts DEF Tor!InstallReach, Tor!Queue
  <2>3. ev' = ev
    BY <1>4 DEF Tor!InstallReach
  <2> QED BY <1>0, <2>2, <2>3
<1>5. CASE Tor(M)!Switch
  BY <1>0, <1>5 DEF Tor!Switch, Tor!native
<1>6. CASE Tor(M)!Timeout
  BY <1>0, <1>1, <1>6 DEF Tor!Timeout
<1>7. CASE Tor(M)!DeliverEvent
  <2>1. Elems(ev') \subseteq Elems(ev)
    BY <1>7, NativeFacts DEF Tor!DeliverEvent
  <2>2. ops' = ops \/ Tor(M)!StopBackendIfRunning(-1)
    BY <1>7 DEF Tor!DeliverEvent, Tor!OnEvent
  <2> QED BY <1>0, <1>1, <2>1, <2>2
<1>8. CASE Tor(M)!DeliverStop
  <2>1. Elems(ev') \subseteq Elems(ev)
    BY <1>8, NativeFacts DEF Tor!DeliverStop
  <2> QED BY <1>0, <1>8, <2>1, SoloCases
<1>9. CASE Tor(M)!DeliverInstall
  <2>1. Elems(ev') \subseteq Elems(ev) /\ ops' = ops
    BY <1>9, NativeFacts DEF Tor!DeliverInstall, Tor!native
  <2> QED BY <1>0, <2>1
<1>10. CASE Tor(M)!BeginStart \/ Tor(M)!RunInstall
  <2>1. Elems(ops') \subseteq Elems(ops) /\ \A x \in Elems(ev') : x \in Elems(ev) \/ x.kind # "stopResolved"
    BY <1>10, NativeStep, NativeFacts
  <2> QED BY <1>0, <2>1
<1>11. CASE Tor(M)!Progress \/ Tor(M)!EndStart \/ Tor(M)!Verdict
  <2>1. ops' = ops /\ \A x \in Elems(ev') : x \in Elems(ev) \/ x.kind # "stopResolved"
    BY <1>11, NativeStep
  <2> QED BY <1>0, <2>1
<1>12. CASE Tor(M)!RunStop
  <2>1. Elems(ops') \subseteq Elems(ops) /\ Head(ops) \in Elems(ops) /\ Head(ops).op = "stop"
        /\ \A x \in Elems(ev') : x \in Elems(ev) \/ x.kind # "stopResolved" \/ x.then = Head(ops).then
    BY <1>12, NativeStep, NativeFacts
  <2> QED BY <1>0, <2>1
<1> QED BY <1>2, <1>3, <1>4, <1>5, <1>6, <1>7, <1>8, <1>9, <1>10, <1>11, <1>12 DEF Tor!Next

\* The unresolved attempt is the current one, with its deadline; settling it resolves it.
LEMMA SoloStep ==
    ASSUME NEW M, Tor(M)!TorAssumption, ManTyped(M), SoloInv(M), ~M.Overlap, Tor(M)!Next
    PROVE  SoloInv(M)'
<1>0. /\ inflight # 0 => inflight = gen /\ result[inflight] = "pending"
      /\ \A g \in Tor(M)!Attempt : result[g] = "pending" => g = gen /\ timer = g /\ inflight = g
      /\ last = "disconnect" => gen \notin subs /\ timer = 0 /\ (Tor(M)!Await(0) \/ st = "disconnected")
      /\ result \in [Tor(M)!Attempt -> Tor(M)!Resolution] /\ gen \in Nat /\ 0 \notin Tor(M)!Attempt
  BY ManNumbers DEF SoloInv, Tor!Attempt
<1>1. /\ \A x \in Elems(ops') : x.op = "stop" => x.then <= 0
      /\ \A x \in Elems(ev') : x.kind = "stopResolved" => x.then <= 0
  BY SoloQueues
<1>2. ASSUME inflight' # 0 => inflight' = gen' /\ result'[inflight'] = "pending",
             \A g \in Tor(M)!Attempt : result'[g] = "pending" => g = gen' /\ timer' = g /\ inflight' = g,
             last' = "disconnect" => gen' \notin subs' /\ timer' = 0 /\ (Tor(M)!Await(0)' \/ st' = "disconnected")
      PROVE  SoloInv(M)'
  BY <1>1, <1>2 DEF SoloInv
<1>3. ASSUME UNCHANGED <<inflight, result, gen, timer, last, subs, st>>, ~(Tor(M)!DeliverStop /\ Head(ev).then = 0) PROVE SoloInv(M)'
  BY <1>0, <1>2, <1>3, AwaitKept
<1>4. ASSUME NEW final \in {"offline", "connected"}, Tor(M)!Settle(final), gen' = gen
      PROVE  /\ timer' = 0 /\ inflight' = 0 /\ \A g \in Tor(M)!Attempt : result'[g] # "pending"
  <2>1. timer' = 0 /\ inflight' = 0 /\ result' = IF inflight = gen THEN [result EXCEPT ![gen] = final] ELSE result
    BY <1>4 DEF Tor!Settle
  <2>2. CASE inflight = gen
    BY <1>0, <2>1, <2>2
  <2>3. CASE inflight # gen
    BY <1>0, <2>1, <2>3
  <2> QED BY <2>1, <2>2, <2>3
<1>5. CASE Tor(M)!Connect
  <2>1. CASE UNCHANGED <<Tor(M)!manager, ops>>
    <3>1. UNCHANGED <<inflight, result, gen, timer>> /\ last' = "connect"
      BY <1>5, <2>1 DEF Tor!Connect, Tor!manager
    <3> QED BY <1>0, <1>2, <3>1
  <2>2. CASE /\ gen' = gen + 1 /\ gen + 1 \in Tor(M)!Attempt /\ \A g \in Tor(M)!Attempt : result[g] # "pending"
             /\ Tor(M)!Launch(gen + 1, Tor(M)!Kept, result)
    <3>1. inflight' = gen + 1 /\ timer' = gen + 1 /\ result' = [result EXCEPT ![gen + 1] = "pending"] /\ last' = "connect"
      BY <1>5, <2>2 DEF Tor!Launch, Tor!Connect
    <3>2. result'[gen + 1] = "pending" /\ \A g \in Tor(M)!Attempt : g # gen + 1 => result'[g] # "pending"
      BY <1>0, <2>2, <3>1
    <3> QED BY <1>2, <2>2, <3>1, <3>2
  <2> QED BY <1>5, <2>1, <2>2, SoloCases
<1>6. CASE Tor(M)!Disconnect
  <2>1. gen' = gen + 1 /\ subs' = Tor(M)!Kept /\ timer' = 0 /\ inflight' = 0 /\ result' = Tor(M)!Released /\ last' = "disconnect"
        /\ Tor(M)!StopBackendIfRunning(0) /\ st' = IF maybe THEN st ELSE "disconnected"
    BY <1>6 DEF Tor!Disconnect
  <2>2. gen' \notin subs'
    BY <2>1, ManNumbers
  <2>3. \A g \in Tor(M)!Attempt : result'[g] # "pending"
    <3>1. CASE inflight = 0
      BY <1>0, <2>1, <3>1 DEF Tor!Released
    <3>2. CASE inflight # 0
      <4>1. inflight \in Tor(M)!Attempt
        BY <3>2, ManagerSame DEF Tor!Attempt
      <4> QED BY <1>0, <2>1, <3>2, <4>1 DEF Tor!Released
    <3> QED BY <3>1, <3>2
  <2>4. Tor(M)!Await(0)' \/ st' = "disconnected"
    <3>1. CASE maybe
      <4>1. Elems(ops') = Elems(ops) \cup {[op |-> "stop", by |-> 0, cred |-> conf, then |-> 0]}
        BY <2>1, <3>1, ManNumbers, StopTyped
      <4>2. [op |-> "stop", by |-> 0, cred |-> conf, then |-> 0] \in Elems(ops')
        BY <4>1
      <4>3. \E x \in Elems(ops') : x.op = "stop" /\ x.then = 0
        <5> WITNESS [op |-> "stop", by |-> 0, cred |-> conf, then |-> 0] \in Elems(ops')
        <5> QED OBVIOUS
      <4> QED BY <4>3, AwaitElems
    <3> QED BY <2>1, <3>1
  <2> QED BY <1>2, <2>1, <2>2, <2>3, <2>4
<1>7. CASE Tor(M)!Timeout
  <2>0. UNCHANGED <<gen, last, subs>> /\ timer # 0
    BY <1>7 DEF Tor!Timeout
  <2>1. CASE timer = gen
    BY <1>0, <1>2, <1>4, <1>7, <2>0, <2>1 DEF Tor!Timeout
  <2>2. CASE timer # gen
    <3>1. timer' = 0 /\ UNCHANGED <<inflight, result>>
      BY <1>7, <2>2 DEF Tor!Timeout
    <3> QED BY <1>0, <1>2, <2>0, <2>2, <3>1
  <2> QED BY <2>1, <2>2
<1>8. CASE Tor(M)!DeliverEvent
  <2>0. UNCHANGED <<gen, last, subs>> /\ ~Tor(M)!DeliverStop
    BY <1>8 DEF Tor!DeliverEvent, Tor!DeliverStop
  <2>1. CASE gen \notin subs
    <3>1. UNCHANGED <<st, timer, inflight, result>>
      BY <1>8, <2>1 DEF Tor!DeliverEvent
    <3> QED BY <1>3, <2>0, <3>1
  <2>2. CASE gen \in subs
    <3>0. last # "disconnect"
      BY <1>0, <2>2
    <3>1. \/ UNCHANGED <<timer, inflight, result>>
          \/ timer' = gen /\ UNCHANGED <<inflight, result>>
          \/ Tor(M)!Settle("connected") \/ Tor(M)!Settle("offline")
      BY <1>8, <2>2 DEF Tor!DeliverEvent, Tor!OnEvent
    <3> QED BY <1>0, <1>2, <1>4, <2>0, <3>0, <3>1
  <2> QED BY <2>1, <2>2
<1>9. CASE Tor(M)!DeliverStop
  <2>0. UNCHANGED <<gen, last, subs, timer, inflight, result>>
    BY <1>9, SoloCases DEF Tor!DeliverStop, Tor!manager
  <2>1. CASE Head(ev).then = 0
    <3>1. st' = "disconnected"
      BY <1>9, <2>1 DEF Tor!DeliverStop
    <3> QED BY <1>0, <1>2, <2>0, <3>1
  <2>2. CASE Head(ev).then # 0
    <3>1. st' = st
      BY <1>9, <2>2, SoloCases DEF Tor!manager
    <3> QED BY <1>3, <2>0, <2>2, <3>1
  <2> QED BY <2>1, <2>2
<1>10. CASE Tor(M)!InstallReach \/ Tor(M)!Switch \/ Tor(M)!DeliverInstall \/ Native(M)
  <2>1. UNCHANGED <<inflight, result, gen, timer, last, subs, st>>
    BY <1>10 DEF Native, Tor!InstallReach, Tor!Switch, Tor!DeliverInstall, Tor!BeginStart, Tor!RunInstall, Tor!RunStop, Tor!Progress, Tor!EndStart, Tor!Verdict, Tor!manager
  <2> QED BY <1>3, <1>9, <2>1
<1> QED BY <1>5, <1>6, <1>7, <1>8, <1>9, <1>10 DEF Tor!Next, Native

\* Whatever the current attempt starts holds the credential that is configured.
LEMMA AuthStep ==
    ASSUME NEW M, Tor(M)!TorAssumption, ManTyped(M), SoloInv(M), AuthInv(M), ~M.Overlap, M.MaxInstall = 0, Tor(M)!Next
    PROVE  AuthInv(M)'
<1>0. /\ installs = 0 /\ (st = "connected" => gen # 0)
      /\ \A x \in Elems(ops) : x.op # "install" /\ (x.op = "start" /\ x.by = gen => x.cred = conf)
      /\ \A x \in Elems(ev) : x.kind # "installed"
      /\ gen # 0 /\ booting.by = gen => booting.cred = conf
      /\ gen # 0 /\ live.by = gen => live.cred = conf
      /\ gen \in Nat /\ booting.by \in 0..gen /\ live.by \in 0..gen
  BY ManNumbers DEF AuthInv
<1>1. \A x \in Elems(ops) : x.op = "start" => x.by \in 1..gen
  BY <1>0, NativeFacts, CallFields
<1>2. ~Tor(M)!InstallReach /\ ~Tor(M)!RunInstall /\ ~Tor(M)!DeliverInstall
  <2>1. ~Tor(M)!InstallReach
    BY <1>0 DEF Tor!InstallReach
  <2>2. ~Tor(M)!RunInstall
    BY <1>0, NativeStep, NativeFacts
  <2>3. ~Tor(M)!DeliverInstall
    BY <1>0, NativeFacts DEF Tor!DeliverInstall
  <2> QED BY <2>1, <2>2, <2>3
<1>3. ASSUME UNCHANGED <<installs, gen, conf, booting, live>>, Elems(ev') \subseteq Elems(ev), st' = "connected" => gen # 0,
             \A x \in Elems(ops') : x \in Elems(ops) \/ x.op = "stop"
      PROVE  AuthInv(M)'
  BY <1>0, <1>3 DEF AuthInv
<1>4. ASSUME NEW t \in {-1, 0}, Tor(M)!StopBackendIfRunning(t) PROVE \A x \in Elems(ops') : x \in Elems(ops) \/ x.op = "stop"
  <2>1. t \in -1..gen
    BY ManNumbers
  <2>2. \A x \in Elems(ops') : x \in Elems(ops) \/ x = [op |-> "stop", by |-> 0, cred |-> conf, then |-> t]
    BY <1>4, StopAdds
  <2> QED BY <2>2
<1>5. CASE Tor(M)!Connect
  <2>0. UNCHANGED <<installs, booting, live, ev>>
    BY <1>5 DEF Tor!Connect
  <2>1. CASE UNCHANGED <<Tor(M)!manager, ops>>
    BY <1>0, <1>3, <2>0, <2>1 DEF Tor!manager
  <2>2. CASE gen' = gen + 1 /\ gen + 1 \in Tor(M)!Attempt /\ Tor(M)!Launch(gen + 1, Tor(M)!Kept, result)
    <3>1. gen + 1 \in 1..(gen + 1)
      BY <1>0
    <3>2. /\ \A x \in Elems(ops') : x \in Elems(ops) \/ x = [op |-> "start", by |-> gen + 1, cred |-> want, then |-> -1]
          /\ conf' = want /\ st' = "starting-tor"
      BY <2>2, LaunchAdds
    <3>3. \A x \in Elems(ops') : x.op # "install" /\ (x.op = "start" /\ x.by = gen + 1 => x.cred = want)
      BY <1>0, <1>1, <3>2
    <3>4. booting.by # gen + 1 /\ live.by # gen + 1
      BY <1>0
    <3> QED BY <1>0, <2>0, <2>2, <3>2, <3>3, <3>4 DEF AuthInv
  <2> QED BY <1>5, <2>1, <2>2, SoloCases
<1>6. CASE Tor(M)!Disconnect
  <2>1. gen' = gen + 1 /\ UNCHANGED <<installs, conf, booting, live, ev>> /\ Tor(M)!StopBackendIfRunning(0)
    BY <1>6 DEF Tor!Disconnect
  <2>2. \A x \in Elems(ops') : x.op # "install" /\ (x.op = "start" => x.by \in 1..gen)
    BY <1>0, <1>1, <1>4, <2>1
  <2>3. gen + 1 # 0 /\ booting.by # gen + 1 /\ live.by # gen + 1 /\ gen + 1 \notin 1..gen
    BY <1>0
  <2> QED BY <1>0, <2>1, <2>2, <2>3 DEF AuthInv
<1>7. CASE Tor(M)!Switch
  BY <1>0, <1>3, <1>7 DEF Tor!Switch, Tor!manager, Tor!native
<1>8. CASE Tor(M)!Timeout
  <2>1. UNCHANGED <<installs, gen, conf, booting, live, ev>> /\ (st' = st \/ st' = "offline")
        /\ (ops' = ops \/ Tor(M)!StopBackendIfRunning(-1))
    BY <1>8 DEF Tor!Timeout
  <2> QED BY <1>0, <1>3, <1>4, <2>1
<1>9. CASE Tor(M)!DeliverEvent
  <2>1. UNCHANGED <<installs, gen, conf, booting, live>> /\ (st' = st \/ gen \in subs)
        /\ (ops' = ops \/ Tor(M)!StopBackendIfRunning(-1)) /\ Elems(ev') \subseteq Elems(ev)
    BY <1>9, NativeFacts DEF Tor!DeliverEvent, Tor!OnEvent
  <2>2. gen \in subs => gen # 0
    BY ManNumbers
  <2> QED BY <1>0, <1>3, <1>4, <2>1, <2>2
<1>10. CASE Tor(M)!DeliverStop
  <2>1. UNCHANGED <<installs, gen, conf, booting, live, ops>> /\ (st' = st \/ st' = "disconnected") /\ Elems(ev') \subseteq Elems(ev)
    BY <1>10, SoloCases, NativeFacts DEF Tor!DeliverStop, Tor!manager
  <2> QED BY <1>0, <1>3, <2>1
<1>11. CASE Tor(M)!BeginStart
  <2>1. /\ Head(ops) \in Elems(ops) /\ Head(ops).op = "start" /\ Elems(ops') \subseteq Elems(ops)
        /\ booting' = booting \/ (booting'.by = Head(ops).by /\ booting'.cred = Head(ops).cred)
        /\ live' = live /\ \A x \in Elems(ev') : x \in Elems(ev) \/ x.kind # "installed"
    BY <1>11, NativeStep, NativeFacts
  <2>2. UNCHANGED <<installs, gen, conf, st>>
    BY <1>11 DEF Tor!BeginStart, Tor!manager
  <2> QED BY <1>0, <2>1, <2>2 DEF AuthInv
<1>12. CASE Tor(M)!Progress \/ Tor(M)!Verdict
  <2>1. /\ ops' = ops /\ booting'.by = booting.by /\ booting'.cred = booting.cred /\ live'.by = live.by /\ live'.cred = live.cred
        /\ \A x \in Elems(ev') : x \in Elems(ev) \/ x.kind # "installed"
    BY <1>12, NativeStep
  <2>2. UNCHANGED <<installs, gen, conf, st>>
    BY <1>12 DEF Tor!Progress, Tor!Verdict, Tor!manager
  <2> QED BY <1>0, <2>1, <2>2 DEF AuthInv
<1>13. CASE Tor(M)!EndStart
  <2>1. /\ ops' = ops /\ booting'.by = 0
        /\ live' = live \/ (live'.by = booting.by /\ live'.cred = booting.cred)
        /\ \A x \in Elems(ev') : x \in Elems(ev) \/ x.kind # "installed"
    BY <1>13, NativeStep
  <2>2. UNCHANGED <<installs, gen, conf, st>>
    BY <1>13 DEF Tor!EndStart, Tor!manager
  <2> QED BY <1>0, <2>1, <2>2 DEF AuthInv
<1>14. CASE Tor(M)!RunStop
  <2>1. /\ Elems(ops') \subseteq Elems(ops) /\ booting' = booting /\ live'.by = 0
        /\ \A x \in Elems(ev') : x \in Elems(ev) \/ x.kind # "installed"
    BY <1>14, NativeStep, NativeFacts
  <2>2. UNCHANGED <<installs, gen, conf, st>>
    BY <1>14 DEF Tor!RunStop, Tor!manager
  <2> QED BY <1>0, <2>1, <2>2 DEF AuthInv
<1> QED BY <1>2, <1>5, <1>6, <1>7, <1>8, <1>9, <1>10, <1>11, <1>12, <1>13, <1>14 DEF Tor!Next

\* The properties of the manager follow.
LEMMA ManSound ==
    ASSUME NEW M, Tor(M)!TorAssumption, ManTyped(M)
    PROVE  /\ StopInv(M) => Tor(M)!SkippedStopSafe
           /\ SoloInv(M) => Tor(M)!DeadlineArmed /\ Tor(M)!DisconnectSticks
           /\ AuthInv(M) => Tor(M)!AuthTruth
<1>1. StopInv(M) => Tor(M)!SkippedStopSafe
  BY DEF StopInv, Tor!SkippedStopSafe, EndsStopped
<1>2. SoloInv(M) => Tor(M)!DeadlineArmed /\ Tor(M)!DisconnectSticks
  BY DEF SoloInv, Tor!DeadlineArmed, Tor!DisconnectSticks
<1>3. AuthInv(M) => Tor(M)!AuthTruth
  BY DEF AuthInv, Tor!AuthTruth
<1> QED BY <1>1, <1>2, <1>3

Distinct(s) == \A i, k \in DOMAIN s : s[i] = s[k] => i = k
----------------------------------------------------------------------------
(* The stored list of communities.                                          *)

\* One entry of the queue for each writer that waits, and no writer twice.
Waiting(L) == {p.id : p \in {r \in procs : r.pc \in Joined(L)!Requests}}
QueueInv(L) ==
    /\ procs \subseteq Joined(L)!Proc /\ IsFiniteSet(procs) /\ made \in Seq(L.Community) /\ Len(made) <= L.MaxWrite
    /\ \A p \in procs : p.id <= Len(made)
    /\ \A p, q \in procs : p.id = q.id => p = q
    /\ queue \in Seq(Nat) /\ Distinct(queue) /\ Elems(queue) = Waiting(L)

ListTyped(L) ==
    /\ stored \in [L.Community -> Joined(L)!Record] /\ active \in L.Community /\ slot \in L.Community /\ cid \in L.Community
    /\ mem \in Joined(L)!Record /\ Joined(L)!MemoCurrent /\ switches \in Nat /\ kills \in Nat

\* A writer on its own: its community stays the active one until it is done, and what it will
\* store is what the runtime holds.
WriterTrue(L, w) ==
    /\ w.pc \in {"id", "getId", "record", "getRecord", "upsert", "setList", "setId"}
    /\ w.at = cid /\ w.base = cid /\ active = cid /\ w.id \in 1..Len(made) /\ made[w.id] = cid
    /\ w.field \in {"user", "blocked"} => 0 \notin w.user /\ 0 \notin w.blocked
    /\ w.pc = "setId" => stored[cid] = mem
    /\ w.pc # "setId" => mem = Joined(L)!Changed(w, stored[cid]) /\ \A c \in L.Community, f \in Joined(L)!Field : w.id \notin stored[c][f]
    /\ w.pc \in {"upsert", "setList"} => w.snap = stored[cid]
    /\ w.pc = "upsert" => listMemo # Joined(L)!None
    /\ w.pc = "setList" => w.out = [stored EXCEPT ![cid] = mem]

\* A switch moves the account's pointer, then the community's, then the runtime.
SwitchTrue(L, s) ==
    /\ s.pc \in {"saveDMs", "setSlot", "getMap", "setId", "load", "id", "getId", "record", "getRecord"}
    /\ slot = IF s.pc \in {"saveDMs", "setSlot"} THEN active ELSE s.at
    /\ active = IF s.pc \in {"saveDMs", "setSlot", "getMap", "setId"} THEN cid ELSE s.at

\* The requests a writer, or a switch up to its community pointer, still has to make.
Ahead(p) ==
    CASE p.pc \in {"id", "getId", "saveDMs"} -> 4 [] p.pc \in {"record", "getRecord", "setSlot"} -> 3
      [] p.pc \in {"upsert", "setList", "getMap"} -> 2 [] OTHER -> 1

CalmInv(L) ==
    /\ kills = 0
    /\ \A p, q \in procs : p.id # Joined(L)!Switcher /\ q.id # Joined(L)!Switcher => p = q
    /\ \A w \in procs : w.id # Joined(L)!Switcher => WriterTrue(L, w)
    /\ \A s \in procs : s.id = Joined(L)!Switcher => SwitchTrue(L, s)
    /\ (\A p \in procs : p.id = Joined(L)!Switcher) => stored[cid] = mem
    /\ (\A p \in procs : p.id # Joined(L)!Switcher) => slot = active /\ active = cid
    /\ \A w, s \in procs : w.id # Joined(L)!Switcher /\ s.id = Joined(L)!Switcher =>
          /\ s.pc \in {"saveDMs", "setSlot", "getMap", "setId"}
          /\ Ahead(w) < Ahead(s) \/ (Ahead(w) = Ahead(s) /\ queue # <<>> /\ Head(queue) = w.id)
    /\ \A c \in L.Community, f \in Joined(L)!Field : \A k \in stored[c][f] \ Joined(L)!Absent : k \in 1..Len(made) /\ made[k] = c
    /\ \A f \in Joined(L)!Field : \A k \in mem[f] \ Joined(L)!Absent : k \in 1..Len(made) /\ made[k] = cid

LEMMA DistinctFacts ==
    ASSUME NEW S, NEW s \in Seq(S), Distinct(s)
    PROVE  /\ \A x \in S : x \notin Elems(s) => Distinct(Append(s, x))
           /\ \A x \in S : Append(s, x) \in Seq(S) /\ Elems(Append(s, x)) = Elems(s) \cup {x}
           /\ \A x \in S : s # <<>> => Head(Append(s, x)) = Head(s)
           /\ s # <<>> => /\ Tail(s) \in Seq(S) /\ Distinct(Tail(s)) /\ Head(s) \in Elems(s) /\ Head(s) \in S
                          /\ Elems(Tail(s)) = Elems(s) \ {Head(s)}
<1>1. ASSUME NEW x \in S PROVE Append(s, x) \in Seq(S) /\ Elems(Append(s, x)) = Elems(s) \cup {x}
                              /\ (s # <<>> => Head(Append(s, x)) = Head(s))
  <2>1. /\ Append(s, x) \in Seq(S) /\ DOMAIN Append(s, x) = DOMAIN s \cup {Len(s) + 1}
        /\ \A i \in DOMAIN s : Append(s, x)[i] = s[i]
        /\ Append(s, x)[Len(s) + 1] = x
    OBVIOUS
  <2> QED BY <2>1 DEF Elems
<1>2. ASSUME NEW x \in S, x \notin Elems(s) PROVE Distinct(Append(s, x))
  <2>1. /\ DOMAIN Append(s, x) = DOMAIN s \cup {Len(s) + 1}
        /\ \A i \in DOMAIN s : Append(s, x)[i] = s[i]
        /\ Append(s, x)[Len(s) + 1] = x
    OBVIOUS
  <2>2. \A i \in DOMAIN s : s[i] # x
    BY <1>2 DEF Elems
  <2> QED BY <2>1, <2>2 DEF Distinct
<1>3. ASSUME s # <<>>
      PROVE  /\ Tail(s) \in Seq(S) /\ Distinct(Tail(s)) /\ Head(s) \in Elems(s) /\ Head(s) \in S
             /\ Elems(Tail(s)) = Elems(s) \ {Head(s)}
  <2>1. /\ Tail(s) \in Seq(S) /\ Head(s) = s[1] /\ 1 \in DOMAIN s /\ DOMAIN s = 1..Len(s) /\ Len(s) \in Nat
        /\ DOMAIN Tail(s) = 1..(Len(s) - 1) /\ \A i \in DOMAIN Tail(s) : Tail(s)[i] = s[i + 1]
    BY <1>3
  <2>2. Distinct(Tail(s))
    <3> SUFFICES ASSUME NEW i \in DOMAIN Tail(s), NEW k \in DOMAIN Tail(s), Tail(s)[i] = Tail(s)[k] PROVE i = k
      BY DEF Distinct
    <3>1. i + 1 \in DOMAIN s /\ k + 1 \in DOMAIN s /\ s[i + 1] = s[k + 1]
      BY <2>1
    <3>2. i + 1 = k + 1
      BY <3>1 DEF Distinct
    <3> QED BY <2>1, <3>2
  <2>3. Elems(Tail(s)) \subseteq Elems(s) \ {Head(s)}
    <3> SUFFICES ASSUME NEW i \in DOMAIN Tail(s) PROVE Tail(s)[i] \in Elems(s) \ {Head(s)}
      BY DEF Elems
    <3>1. i + 1 \in DOMAIN s /\ i + 1 # 1
      BY <2>1
    <3> QED BY <2>1, <3>1 DEF Elems, Distinct
  <2>4. Elems(s) \ {Head(s)} \subseteq Elems(Tail(s))
    <3> SUFFICES ASSUME NEW i \in DOMAIN s, s[i] # Head(s) PROVE s[i] \in Elems(Tail(s))
      BY DEF Elems
    <3>1. i - 1 \in DOMAIN Tail(s) /\ Tail(s)[i - 1] = s[i]
      BY <2>1
    <3> QED BY <3>1 DEF Elems
  <2>5. Head(s) \in Elems(s) /\ Head(s) \in S
    BY <2>1 DEF Elems
  <2>6. Elems(Tail(s)) = Elems(s) \ {Head(s)}
    BY <2>3, <2>4
  <2> QED BY <2>1, <2>2, <2>5, <2>6
<1> QED BY <1>1, <1>2, <1>3

LEMMA AppendSome ==
    ASSUME NEW S, NEW s \in Seq(S), NEW x \in S
    PROVE  Append(s, x) # <<>>
<1>1. Len(Append(s, x)) = Len(s) + 1 /\ Len(s) \in Nat
  OBVIOUS
<1>2. Len(<<>>) = 0
  OBVIOUS
<1> QED BY <1>1, <1>2

\* A list without repetitions whose members are a and b, or only a.
LEMMA DistinctPair ==
    ASSUME NEW S, NEW s \in Seq(S), Distinct(s), NEW a, NEW b, a \in Elems(s), Elems(s) \subseteq {a, b}
    PROVE  /\ s # <<>> /\ (Head(s) = a \/ Head(s) = b)
           /\ a # b /\ Head(s) = b => Tail(s) # <<>> /\ Head(Tail(s)) = a
<1>1. PICK i \in DOMAIN s : s[i] = a
  BY DEF Elems
<1>2. s # <<>> /\ 1 \in DOMAIN s /\ Head(s) = s[1] /\ s[1] \in Elems(s) /\ DOMAIN s = 1..Len(s) /\ Len(s) \in Nat
  BY <1>1 DEF Elems
<1>3. ASSUME a # b, Head(s) = b PROVE Tail(s) # <<>> /\ Head(Tail(s)) = a
  <2>1. i # 1 /\ i \in 1..Len(s) /\ 2 \in DOMAIN s /\ Len(s) >= 2
    BY <1>1, <1>2, <1>3
  <2>2. s[2] \in {a, b} /\ s[2] # s[1]
    BY <2>1, <1>2 DEF Elems, Distinct
  <2>3. Tail(s) # <<>> /\ Head(Tail(s)) = s[2]
    <3>1. Tail(s) \in Seq(S) /\ Len(Tail(s)) = Len(s) - 1 /\ Len(Tail(s)) >= 1
      BY <1>2, <2>1
    <3>2. Tail(s) # <<>> /\ Head(Tail(s)) = Tail(s)[1]
      <4>1. \A z \in Seq(S) : Len(z) >= 1 => z # <<>> /\ Head(z) = z[1]
        OBVIOUS
      <4> QED BY <3>1, <4>1
    <3>3. Tail(s)[1] = s[1 + 1]
      BY <1>2, <3>1
    <3> QED BY <3>2, <3>3
  <2> QED BY <1>2, <1>3, <2>2, <2>3
<1> QED BY <1>2, <1>3

\* What storage and the writers do to the queue: a writer takes its place with one request at a
\* time, and leaves the head of it when answered.
LEMMA MovesOn ==
    ASSUME NEW L, QueueInv(L), NEW p \in procs, NEW q \in Joined(L)!Proc, q.id = p.id, made' = made,
           (p.pc \notin Joined(L)!Requests /\ Joined(L)!Go(p, q)) \/ (queue # <<>> /\ Head(queue) = p.id /\ p.pc \in Joined(L)!Requests /\ Joined(L)!Answered(p, q))
    PROVE  QueueInv(L)'
<1>0. /\ procs' = (procs \ {p}) \cup {q} /\ procs' \subseteq Joined(L)!Proc /\ \A r \in Joined(L)!Proc : r.id \in Nat
      /\ procs \subseteq Joined(L)!Proc /\ IsFiniteSet(procs) /\ queue \in Seq(Nat) /\ Distinct(queue) /\ Elems(queue) = Waiting(L)
  BY DEF QueueInv, Joined!Go, Joined!Answered, Joined!Proc
<1>1. IsFiniteSet(procs')
  <2>1. IsFiniteSet(procs \ {p})
    BY <1>0, FS_Subset
  <2> QED BY <1>0, <2>1, FS_AddElement
<1>2. /\ \A r \in procs' : r.id <= Len(made)
      /\ \A r, x \in procs' : r.id = x.id => r = x
      /\ \A r \in procs \ {p} : r.id # p.id
  BY <1>0 DEF QueueInv
<1> DEFINE rest == {r.id : r \in {x \in procs \ {p} : x.pc \in Joined(L)!Requests}}
<1>3. Waiting(L)' = IF q.pc \in Joined(L)!Requests THEN rest \cup {p.id} ELSE rest
  BY <1>0 DEF Waiting
<1>4. p.id \notin rest /\ Waiting(L) = IF p.pc \in Joined(L)!Requests THEN rest \cup {p.id} ELSE rest
  BY <1>2 DEF Waiting
<1>5. queue' \in Seq(Nat) /\ Distinct(queue') /\ Elems(queue') = Waiting(L)'
  <2>1. CASE p.pc \notin Joined(L)!Requests /\ Joined(L)!Go(p, q)
    <3>1. Elems(queue) = rest
      BY <1>0, <1>4, <2>1
    <3>2. /\ \A x \in Nat : x \notin Elems(queue) => Distinct(Append(queue, x))
          /\ \A x \in Nat : Append(queue, x) \in Seq(Nat) /\ Elems(Append(queue, x)) = Elems(queue) \cup {x}
      BY <1>0, DistinctFacts
    <3>3. queue' = IF q.pc \in Joined(L)!Requests THEN Append(queue, p.id) ELSE queue
      BY <2>1 DEF Joined!Go
    <3> QED BY <1>0, <1>3, <1>4, <3>1, <3>2, <3>3
  <2>2. CASE queue # <<>> /\ Head(queue) = p.id /\ p.pc \in Joined(L)!Requests /\ Joined(L)!Answered(p, q)
    <3>1. Tail(queue) \in Seq(Nat) /\ Distinct(Tail(queue)) /\ Elems(Tail(queue)) = rest
      BY <1>0, <1>4, <2>2, DistinctFacts
    <3>2. /\ \A x \in Nat : x \notin Elems(Tail(queue)) => Distinct(Append(Tail(queue), x))
          /\ \A x \in Nat : Append(Tail(queue), x) \in Seq(Nat) /\ Elems(Append(Tail(queue), x)) = Elems(Tail(queue)) \cup {x}
      BY <3>1, DistinctFacts
    <3>3. queue' = IF q.pc \in Joined(L)!Requests THEN Append(Tail(queue), p.id) ELSE Tail(queue)
      BY <2>2 DEF Joined!Answered
    <3> QED BY <1>0, <1>3, <1>4, <3>1, <3>2, <3>3
  <2> QED BY <2>1, <2>2
<1> QED BY <1>0, <1>1, <1>2, <1>5 DEF QueueInv

LEMMA MovesOut ==
    ASSUME NEW L, QueueInv(L), NEW p \in procs, made' = made,
           (p.pc \notin Joined(L)!Requests /\ Joined(L)!End(p)) \/ (queue # <<>> /\ Head(queue) = p.id /\ p.pc \in Joined(L)!Requests /\ Joined(L)!Finished(p))
    PROVE  QueueInv(L)'
<1>0. /\ procs' = procs \ {p} /\ procs' \subseteq Joined(L)!Proc
      /\ procs \subseteq Joined(L)!Proc /\ IsFiniteSet(procs) /\ queue \in Seq(Nat) /\ Distinct(queue) /\ Elems(queue) = Waiting(L)
  BY DEF QueueInv, Joined!End, Joined!Finished
<1>1. IsFiniteSet(procs')
  BY <1>0, FS_Subset
<1>2. /\ \A r \in procs' : r.id <= Len(made)
      /\ \A r, x \in procs' : r.id = x.id => r = x
      /\ \A r \in procs \ {p} : r.id # p.id
  BY <1>0 DEF QueueInv
<1>4. p.id \notin Waiting(L)' /\ Waiting(L) = IF p.pc \in Joined(L)!Requests THEN Waiting(L)' \cup {p.id} ELSE Waiting(L)'
  BY <1>0, <1>2 DEF Waiting
<1>5. queue' \in Seq(Nat) /\ Distinct(queue') /\ Elems(queue') = Waiting(L)'
  <2>1. CASE p.pc \notin Joined(L)!Requests /\ Joined(L)!End(p)
    BY <1>0, <1>4, <2>1 DEF Joined!End
  <2>2. CASE queue # <<>> /\ Head(queue) = p.id /\ p.pc \in Joined(L)!Requests /\ Joined(L)!Finished(p)
    <3>1. Tail(queue) \in Seq(Nat) /\ Distinct(Tail(queue)) /\ Elems(Tail(queue)) = Waiting(L)'
      <4>1. Tail(queue) \in Seq(Nat) /\ Distinct(Tail(queue)) /\ Elems(Tail(queue)) = Elems(queue) \ {Head(queue)}
        BY <1>0, <2>2, DistinctFacts
      <4> QED BY <1>0, <1>4, <2>2, <4>1
    <3> QED BY <2>2, <3>1 DEF Joined!Finished
  <2> QED BY <2>1, <2>2
<1> QED BY <1>0, <1>1, <1>2, <1>5 DEF QueueInv

\* A writer whose point, community, record or list changes.
Like(L, p, q) ==
    /\ q \in Joined(L)!Proc /\ q.id = p.id /\ q.field = p.field /\ q.base = p.base
    /\ q.user = p.user /\ q.blocked = p.blocked

LEMMA ValueFacts ==
    ASSUME NEW L, Joined(L)!CommunitiesAssumption, NEW v \in Joined(L)!Value, NEW j \in 0..L.MaxWrite
    PROVE  Joined(L)!Plus(v, j) \in Joined(L)!Value /\ {j} \in Joined(L)!Value /\ v \ Joined(L)!Absent \in Joined(L)!Value /\ {} \in Joined(L)!Value
  BY DEF Joined!Value, Joined!Plus, Joined!Absent, Joined!CommunitiesAssumption

LEMMA MergeTyped ==
    ASSUME NEW L, Joined(L)!CommunitiesAssumption, NEW p \in Joined(L)!Proc, NEW r \in Joined(L)!Record
    PROVE  Joined(L)!Changed(p, r) \in Joined(L)!Record /\ Joined(L)!Merge(r, p) \in Joined(L)!Record
<1>1. p.id \in 0..L.MaxWrite /\ p.field \in Joined(L)!Field /\ p.user \in Joined(L)!Value /\ p.blocked \in Joined(L)!Value /\ p.snap \in Joined(L)!Record
  BY DEF Joined!Proc
<1>2. ASSUME NEW x \in Joined(L)!Record PROVE Joined(L)!Changed(p, x) \in Joined(L)!Record
  <2>1. {p.id} \in Joined(L)!Value /\ Joined(L)!Plus(x["known"], p.id) \in Joined(L)!Value /\ "known" \in Joined(L)!Field /\ "user" \in Joined(L)!Field /\ "blocked" \in Joined(L)!Field
    BY <1>1, ValueFacts DEF Joined!Record, Joined!Field
  <2>2. \A f \in Joined(L)!Field, v \in Joined(L)!Value : [x EXCEPT ![f] = v] \in Joined(L)!Record
    BY DEF Joined!Record
  <2>3. \A v, w \in Joined(L)!Value : [x EXCEPT !["user"] = v, !["blocked"] = w] \in Joined(L)!Record
    BY <2>1 DEF Joined!Record
  <2> QED BY <1>1, <2>1, <2>2, <2>3 DEF Joined!Changed
<1>3. Joined(L)!Changed(p, p.snap) \in Joined(L)!Record /\ r \in Joined(L)!Record
  BY <1>1, <1>2
<1>4. Joined(L)!Merge(r, p) \in Joined(L)!Record
  BY <1>3 DEF Joined!Merge, Joined!Record
<1> QED BY <1>2, <1>4

FormsWell(L, p) ==
    /\ \A x \in Joined(L)!Requests \cup {"id", "record", "upsert", "load"} :
         LET q == [p EXCEPT !.pc = x] IN
         Like(L, p, q) /\ q.pc = x /\ q.at = p.at /\ q.snap = p.snap /\ q.out = p.out
    /\ \A x \in L.Community : Like(L, p, Joined(L)!WithId(p, x)) /\ Joined(L)!WithId(p, x).pc = "record" /\ Joined(L)!WithId(p, x).at = x
    /\ \A l \in [L.Community -> Joined(L)!Record] :
         /\ Like(L, p, Joined(L)!WithRecord(p, l)) /\ Joined(L)!WithRecord(p, l).pc = "upsert" /\ Joined(L)!WithRecord(p, l).at = p.at
         /\ Joined(L)!WithRecord(p, l).snap = l[p.at]
         /\ Like(L, p, Joined(L)!WithList(p, l)) /\ Joined(L)!WithList(p, l).pc = "setList" /\ Joined(L)!WithList(p, l).at = p.at
         /\ Joined(L)!WithList(p, l).snap = p.snap /\ Joined(L)!WithList(p, l).out = [l EXCEPT ![p.at] = Joined(L)!Merge(l[p.at], p)]

LEMMA ProcForms ==
    ASSUME NEW L, Joined(L)!CommunitiesAssumption, NEW p \in Joined(L)!Proc
    PROVE  FormsWell(L, p)
<1>0. p.at \in L.Community
  BY DEF Joined!Proc
<1>1. ASSUME NEW x \in Joined(L)!Requests \cup {"id", "record", "upsert", "load"}
      PROVE  LET q == [p EXCEPT !.pc = x] IN
             Like(L, p, q) /\ q.pc = x /\ q.at = p.at /\ q.snap = p.snap /\ q.out = p.out
  BY DEF Joined!Proc, Like
<1>2. ASSUME NEW x \in L.Community PROVE Like(L, p, Joined(L)!WithId(p, x)) /\ Joined(L)!WithId(p, x).pc = "record" /\ Joined(L)!WithId(p, x).at = x
  BY DEF Joined!Proc, Like, Joined!WithId
<1>3. ASSUME NEW l \in [L.Community -> Joined(L)!Record]
      PROVE  /\ Like(L, p, Joined(L)!WithRecord(p, l)) /\ Joined(L)!WithRecord(p, l).pc = "upsert" /\ Joined(L)!WithRecord(p, l).at = p.at
             /\ Joined(L)!WithRecord(p, l).snap = l[p.at]
  <2>1. l[p.at] \in Joined(L)!Record
    BY <1>0
  <2> QED BY <2>1 DEF Joined!Proc, Like, Joined!WithRecord
<1>4. ASSUME NEW l \in [L.Community -> Joined(L)!Record]
      PROVE  /\ Like(L, p, Joined(L)!WithList(p, l)) /\ Joined(L)!WithList(p, l).pc = "setList" /\ Joined(L)!WithList(p, l).at = p.at
             /\ Joined(L)!WithList(p, l).snap = p.snap /\ Joined(L)!WithList(p, l).out = [l EXCEPT ![p.at] = Joined(L)!Merge(l[p.at], p)]
  <2>1. Joined(L)!Merge(l[p.at], p) \in Joined(L)!Record
    BY <1>0, MergeTyped
  <2>2. [l EXCEPT ![p.at] = Joined(L)!Merge(l[p.at], p)] \in [L.Community -> Joined(L)!Record]
    BY <1>0, <2>1
  <2> DEFINE o == [l EXCEPT ![p.at] = Joined(L)!Merge(l[p.at], p)]
  <2>3. Joined(L)!WithList(p, l) = [p EXCEPT !.out = o, !.pc = "setList"] /\ o \in [L.Community -> Joined(L)!Record]
    BY <2>2 DEF Joined!WithList
  <2> HIDE DEF o
  <2>4. "setList" \in Joined(L)!Requests
    BY DEF Joined!Requests
  <2>5. LET q == [p EXCEPT !.out = o, !.pc = "setList"] IN
        Like(L, p, q) /\ q.pc = "setList" /\ q.at = p.at /\ q.snap = p.snap /\ q.out = o
    BY <2>3, <2>4 DEF Joined!Proc, Like
  <2> QED BY <2>3, <2>5 DEF o
<1> QED BY <1>1, <1>2, <1>3, <1>4 DEF FormsWell

LEMMA Joins ==
    ASSUME NEW L, QueueInv(L), NEW p \in Joined(L)!Proc, \A r \in procs : r.id # p.id, procs' = procs \cup {p},
           made' \in Seq(L.Community), Len(made) <= Len(made'), Len(made') <= L.MaxWrite, p.id <= Len(made'),
           queue' = IF p.pc \in Joined(L)!Requests THEN Append(queue, p.id) ELSE queue
    PROVE  QueueInv(L)'
<1>0. /\ procs \subseteq Joined(L)!Proc /\ IsFiniteSet(procs) /\ queue \in Seq(Nat) /\ Distinct(queue) /\ Elems(queue) = Waiting(L)
      /\ \A r \in Joined(L)!Proc : r.id \in Nat /\ Len(made) \in Nat /\ Len(made') \in Nat
  BY DEF QueueInv, Joined!Proc
<1>1. IsFiniteSet(procs') /\ procs' \subseteq Joined(L)!Proc
  BY <1>0, FS_AddElement
<1>2. /\ \A r \in procs' : r.id <= Len(made')
      /\ \A r, x \in procs' : r.id = x.id => r = x
  BY <1>0 DEF QueueInv
<1>3. Waiting(L)' = (IF p.pc \in Joined(L)!Requests THEN Waiting(L) \cup {p.id} ELSE Waiting(L)) /\ p.id \notin Waiting(L)
  BY DEF Waiting
<1>4. /\ \A x \in Nat : x \notin Elems(queue) => Distinct(Append(queue, x))
      /\ \A x \in Nat : Append(queue, x) \in Seq(Nat) /\ Elems(Append(queue, x)) = Elems(queue) \cup {x}
  BY <1>0, DistinctFacts
<1>5. queue' \in Seq(Nat) /\ Distinct(queue') /\ Elems(queue') = Waiting(L)'
  BY <1>0, <1>3, <1>4
<1> QED BY <1>1, <1>2, <1>5 DEF QueueInv

\* A write as it starts: the runtime's copy changes as the stored one will.
LEMMA Begins ==
    ASSUME NEW L, Joined(L)!CommunitiesAssumption, QueueInv(L), ListTyped(L), NEW f \in Joined(L)!Field, Joined(L)!Start(f)
    PROVE  \E p \in Joined(L)!Proc :
              /\ procs' = procs \cup {p} /\ p.id = Len(made) + 1 /\ p.field = f /\ p.base = cid /\ p.at = cid
              /\ p.pc = "id" /\ 0 \notin p.user /\ 0 \notin p.blocked /\ mem' = Joined(L)!Changed(p, mem)
              /\ p.user \subseteq mem["user"] \cup {p.id} /\ p.blocked \subseteq mem["blocked"] \cup {p.id}
<1> DEFINE j == Len(made) + 1
           new == [mem EXCEPT ![f] = IF f \in {"known", "user", "blocked"} THEN Joined(L)!Plus(@, j) ELSE {j}]
           p == [id |-> j, field |-> f, base |-> cid, at |-> cid, snap |-> Joined(L)!Blank, out |-> stored,
                 user |-> new["user"] \ Joined(L)!Absent, blocked |-> new["blocked"] \ Joined(L)!Absent, pc |-> "id"]
<1>0. Len(made) \in Nat /\ Len(made) < L.MaxWrite /\ L.MaxWrite \in Nat /\ j \in 1..L.MaxWrite /\ j \in 0..L.MaxWrite
  BY DEF QueueInv, Joined!Start, Joined!CommunitiesAssumption
<1>1. mem \in Joined(L)!Record /\ cid \in L.Community /\ stored \in [L.Community -> Joined(L)!Record]
  BY DEF ListTyped
<1>2. Joined(L)!Blank \in Joined(L)!Record
  BY <1>0 DEF Joined!Blank, Joined!Record, Joined!Value, Joined!Absent
<1>3. new \in Joined(L)!Record /\ new["user"] \in Joined(L)!Value /\ new["blocked"] \in Joined(L)!Value
  <2>1. \A g \in Joined(L)!Field : mem[g] \in Joined(L)!Value /\ Joined(L)!Plus(mem[g], j) \in Joined(L)!Value /\ {j} \in Joined(L)!Value
    BY <1>0, <1>1, ValueFacts DEF Joined!Record
  <2>2. (IF f \in {"known", "user", "blocked"} THEN Joined(L)!Plus(mem[f], j) ELSE {j}) \in Joined(L)!Value
    BY <2>1
  <2> QED BY <1>1, <2>2 DEF Joined!Record, Joined!Field
<1>4. new["user"] \ Joined(L)!Absent \in Joined(L)!Value /\ new["blocked"] \ Joined(L)!Absent \in Joined(L)!Value
  BY <1>0, <1>3, ValueFacts
<1>5. procs' = procs \cup {p} /\ mem' = IF f \in {"user", "blocked"} THEN [new EXCEPT !["user"] = p.user, !["blocked"] = p.blocked] ELSE new
  BY DEF Joined!Start
<1>6. p \in Joined(L)!Proc
  BY <1>0, <1>1, <1>2, <1>4 DEF Joined!Proc
<1>7. 0 \notin p.user /\ 0 \notin p.blocked
  BY DEF Joined!Absent
<1>8. mem' = Joined(L)!Changed(p, mem)
  <2>1. CASE f \in {"user", "blocked"}
    <3>1. [new EXCEPT !["user"] = p.user, !["blocked"] = p.blocked] = [mem EXCEPT !["user"] = p.user, !["blocked"] = p.blocked]
      <4> DEFINE v == p.user
                 w == p.blocked
      <4> HIDE DEF v, w
      <4>1. [new EXCEPT !["user"] = v, !["blocked"] = w] = [mem EXCEPT !["user"] = v, !["blocked"] = w]
        BY <1>1, <1>3, <2>1 DEF Joined!Record, Joined!Field
      <4> QED BY <4>1 DEF v, w
    <3> QED BY <1>5, <2>1, <3>1 DEF Joined!Changed
  <2>2. CASE f = "known"
    BY <1>1, <1>5, <2>2 DEF Joined!Changed
  <2>3. CASE f \notin {"user", "blocked", "known"}
    BY <1>1, <1>5, <2>3 DEF Joined!Changed
  <2> QED BY <2>1, <2>2, <2>3
<1>9. p.id = Len(made) + 1 /\ p.field = f /\ p.base = cid /\ p.at = cid /\ p.pc = "id"
  OBVIOUS
<1>10. p.user \subseteq mem["user"] \cup {j} /\ p.blocked \subseteq mem["blocked"] \cup {j}
  <2>1. \A g \in Joined(L)!Field : new[g] \subseteq mem[g] \cup {j}
    BY <1>1 DEF Joined!Record, Joined!Plus
  <2> QED BY <2>1 DEF Joined!Field
<1> HIDE DEF p
<1> WITNESS p \in Joined(L)!Proc
<1> QED BY <1>5, <1>7, <1>8, <1>9, <1>10

LEMMA SwitchBegins ==
    ASSUME NEW L, Joined(L)!CommunitiesAssumption, QueueInv(L), ListTyped(L), NEW c \in L.Community, Joined(L)!Switch(c)
    PROVE  \E s \in Joined(L)!Proc : /\ procs' = procs \cup {s} /\ s.id = Joined(L)!Switcher /\ s.pc = "saveDMs" /\ s.at = c
                                     /\ queue' = Append(queue, s.id)
<1> DEFINE s == [id |-> Joined(L)!Switcher, field |-> "org", base |-> c, at |-> c, snap |-> Joined(L)!Blank, out |-> stored,
                 user |-> {}, blocked |-> {}, pc |-> "saveDMs"]
<1>1. s \in Joined(L)!Proc
  BY DEF Joined!Proc, Joined!Switcher, Joined!Field, Joined!Requests, Joined!Blank, Joined!Record, Joined!Value, Joined!Absent, ListTyped, Joined!CommunitiesAssumption
<1>2. procs' = procs \cup {s} /\ queue' = Append(queue, s.id)
  BY DEF Joined!Switch
<1>3. s.id = Joined(L)!Switcher /\ s.pc = "saveDMs" /\ s.at = c
  OBVIOUS
<1> HIDE DEF s
<1> WITNESS s \in Joined(L)!Proc
<1> QED BY <1>2, <1>3

LEMMA ListInit ==
    ASSUME NEW L, Joined(L)!CommunitiesAssumption, Joined(L)!Init
    PROVE  QueueInv(L) /\ ListTyped(L)
<1>1. Joined(L)!Blank \in Joined(L)!Record
  BY DEF Joined!Blank, Joined!Record, Joined!Value, Joined!Absent, Joined!CommunitiesAssumption
<1>2. ListTyped(L)
  BY <1>1 DEF Joined!Init, ListTyped, Joined!MemoCurrent, Joined!None
<1>3. IsFiniteSet(procs) /\ procs = {} /\ queue = <<>> /\ made = <<>>
  BY FS_EmptySet DEF Joined!Init
<1>4. Elems(queue) = {} /\ Waiting(L) = {} /\ Distinct(queue) /\ queue \in Seq(Nat)
  BY <1>3 DEF Elems, Waiting, Distinct
<1>5. made \in Seq(L.Community) /\ Len(made) = 0 /\ 0 <= L.MaxWrite
  BY <1>3 DEF Joined!CommunitiesAssumption
<1> QED BY <1>2, <1>3, <1>4, <1>5 DEF QueueInv

\* Where each step of a writer leads.
ReadIdForm(L, p) ==
    Joined(L)!ReadId(p) => \E q \in Joined(L)!Proc :
         /\ p.pc = "id" /\ Like(L, p, q) /\ Joined(L)!Go(p, q)
         /\ (idMemo = Joined(L)!None /\ q.pc = "getId" /\ q.at = p.at) \/ (q.pc = "record" /\ q.at = active)
ReadRecordForm(L, p) ==
    Joined(L)!ReadRecord(p) =>
         /\ p.pc = "record"
         /\ \/ /\ listMemo = Joined(L)!None /\ mem' = mem /\ cid' = cid
               /\ \E q \in Joined(L)!Proc : Like(L, p, q) /\ Joined(L)!Go(p, q) /\ q.pc = "getRecord" /\ q.at = p.at
            \/ listMemo # Joined(L)!None /\ p.id = Joined(L)!Switcher /\ Joined(L)!End(p) /\ mem' = stored[p.at] /\ cid' = p.at
            \/ listMemo # Joined(L)!None /\ p.id # Joined(L)!Switcher /\ Joined(L)!End(p) /\ Joined(L)!Unwanted(p, stored) /\ mem' = mem /\ cid' = cid
            \/ /\ listMemo # Joined(L)!None /\ p.id # Joined(L)!Switcher /\ mem' = mem /\ cid' = cid
               /\ \E q \in Joined(L)!Proc : Like(L, p, q) /\ Joined(L)!Go(p, q) /\ q.pc = "upsert" /\ q.at = p.at /\ q.snap = stored[p.at]
UpsertForm(L, p) ==
    Joined(L)!Upsert(p) => \E q \in Joined(L)!Proc :
         /\ p.pc = "upsert" /\ Like(L, p, q) /\ Joined(L)!Go(p, q) /\ q.at = p.at /\ q.snap = p.snap
         /\ \/ listMemo = Joined(L)!None /\ q.pc = "getList"
            \/ listMemo # Joined(L)!None /\ q.pc = "setList" /\ q.out = [stored EXCEPT ![p.at] = Joined(L)!Merge(stored[p.at], p)]
GotIdForm(L, p) ==
    Joined(L)!GotId(p) => \E q \in Joined(L)!Proc : Like(L, p, q) /\ Joined(L)!Answered(p, q) /\ q.pc = "record" /\ q.at = active
GotRecordForm(L, p) ==
    Joined(L)!GotRecord(p) =>
         \/ p.id = Joined(L)!Switcher /\ Joined(L)!Finished(p) /\ mem' = stored[p.at] /\ cid' = p.at
         \/ p.id # Joined(L)!Switcher /\ Joined(L)!Finished(p) /\ Joined(L)!Unwanted(p, stored) /\ mem' = mem /\ cid' = cid
         \/ /\ p.id # Joined(L)!Switcher /\ mem' = mem /\ cid' = cid
            /\ \E q \in Joined(L)!Proc : Like(L, p, q) /\ Joined(L)!Answered(p, q) /\ q.pc = "upsert" /\ q.at = p.at /\ q.snap = stored[p.at]
GotListForm(L, p) ==
    Joined(L)!GotList(p) => \E q \in Joined(L)!Proc : Like(L, p, q) /\ Joined(L)!Answered(p, q) /\ q.pc = "setList" /\ q.at = p.at
ListWrittenForm(L, p) ==
    Joined(L)!ListWritten(p) => \E q \in Joined(L)!Proc : Like(L, p, q) /\ Joined(L)!Answered(p, q) /\ q.pc = "setId" /\ q.at = p.at
IdWrittenForm(L, p) ==
    Joined(L)!IdWritten(p) =>
         \/ p.id = Joined(L)!Switcher /\ \E q \in Joined(L)!Proc : Like(L, p, q) /\ Joined(L)!Answered(p, q) /\ q.pc = "load" /\ q.at = p.at
         \/ p.id # Joined(L)!Switcher /\ Joined(L)!Finished(p)
SwitchStepForm(L, p) ==
    Joined(L)!SwitchStep(p) => \E q \in Joined(L)!Proc :
         /\ Like(L, p, q) /\ Joined(L)!Answered(p, q) /\ q.at = p.at
         /\ \/ Joined(L)!AtHead(p, "saveDMs") /\ q.pc = "setSlot" /\ slot' = slot
            \/ Joined(L)!AtHead(p, "setSlot") /\ q.pc = "getMap" /\ slot' = p.at
            \/ Joined(L)!AtHead(p, "getMap") /\ q.pc = "setId" /\ slot' = slot
LoadForm(L, p) ==
    Joined(L)!Load(p) => \E q \in Joined(L)!Proc : p.pc = "load" /\ Like(L, p, q) /\ Joined(L)!Go(p, q) /\ q.pc = "id" /\ q.at = p.at

LEMMA StepForms ==
    ASSUME NEW L, Joined(L)!CommunitiesAssumption, QueueInv(L), ListTyped(L), NEW p \in procs
    PROVE  /\ ReadIdForm(L, p) /\ ReadRecordForm(L, p) /\ UpsertForm(L, p) /\ GotIdForm(L, p) /\ GotRecordForm(L, p)
           /\ GotListForm(L, p) /\ ListWrittenForm(L, p) /\ IdWrittenForm(L, p) /\ SwitchStepForm(L, p) /\ LoadForm(L, p)
<1>0. /\ p \in Joined(L)!Proc /\ p.at \in L.Community /\ stored \in [L.Community -> Joined(L)!Record] /\ active \in L.Community
      /\ listMemo \subseteq {stored} /\ idMemo \subseteq {active}
  BY DEF QueueInv, ListTyped, Joined!Proc, Joined!MemoCurrent
<1>1. FormsWell(L, p)
  BY <1>0, ProcForms
<1>a. {"getId", "getRecord", "getList", "setList", "setId", "saveDMs", "setSlot", "getMap"} \subseteq Joined(L)!Requests
  BY DEF Joined!Requests
<1>b. \A x \in Joined(L)!Requests \cup {"id", "record", "upsert", "load"} :
         LET q == [p EXCEPT !.pc = x] IN
         q \in Joined(L)!Proc /\ Like(L, p, q) /\ q.pc = x /\ q.at = p.at /\ q.snap = p.snap
  BY <1>0, <1>1 DEF FormsWell, Like
<1>c. LET q == Joined(L)!WithId(p, active) IN q \in Joined(L)!Proc /\ Like(L, p, q) /\ q.pc = "record" /\ q.at = active
  BY <1>0, <1>1 DEF FormsWell, Like
<1>d. LET q == Joined(L)!WithRecord(p, stored) IN
      q \in Joined(L)!Proc /\ Like(L, p, q) /\ q.pc = "upsert" /\ q.at = p.at /\ q.snap = stored[p.at]
  BY <1>0, <1>1 DEF FormsWell, Like
<1>e. LET q == Joined(L)!WithList(p, stored) IN
      /\ q \in Joined(L)!Proc /\ Like(L, p, q) /\ q.pc = "setList" /\ q.at = p.at
      /\ q.snap = p.snap /\ q.out = [stored EXCEPT ![p.at] = Joined(L)!Merge(stored[p.at], p)]
  BY <1>0, <1>1 DEF FormsWell, Like
<1>2. ReadIdForm(L, p)
  BY <1>0, <1>a, <1>b, <1>c DEF ReadIdForm, Joined!ReadId, Joined!None
<1>3. ReadRecordForm(L, p)
  BY <1>0, <1>a, <1>b, <1>d DEF ReadRecordForm, Joined!ReadRecord, Joined!None
<1>4. UpsertForm(L, p)
  BY <1>0, <1>a, <1>b, <1>e DEF UpsertForm, Joined!Upsert, Joined!None
<1>5. GotIdForm(L, p)
  BY <1>c DEF GotIdForm, Joined!GotId
<1>6. GotRecordForm(L, p)
  BY <1>d DEF GotRecordForm, Joined!GotRecord
<1>7. GotListForm(L, p)
  BY <1>e DEF GotListForm, Joined!GotList
<1>8. ListWrittenForm(L, p)
  BY <1>a, <1>b DEF ListWrittenForm, Joined!ListWritten
<1>9. IdWrittenForm(L, p)
  BY <1>a, <1>b DEF IdWrittenForm, Joined!IdWritten
<1>10. SwitchStepForm(L, p)
  BY <1>a, <1>b DEF SwitchStepForm, Joined!SwitchStep
<1>11. LoadForm(L, p)
  BY <1>b DEF LoadForm, Joined!Load
<1> QED BY <1>2, <1>3, <1>4, <1>5, <1>6, <1>7, <1>8, <1>9, <1>10, <1>11

LEMMA ListTypedStep ==
    ASSUME NEW L, Joined(L)!CommunitiesAssumption, QueueInv(L), ListTyped(L), Joined(L)!Next
    PROVE  ListTyped(L)'
<1>0. /\ stored \in [L.Community -> Joined(L)!Record] /\ active \in L.Community /\ slot \in L.Community /\ cid \in L.Community
      /\ mem \in Joined(L)!Record /\ listMemo \subseteq {stored} /\ idMemo \subseteq {active} /\ switches \in Nat /\ kills \in Nat
  BY DEF ListTyped, Joined!MemoCurrent
<1>1. ASSUME NEW p \in procs
      PROVE  p.at \in L.Community /\ p.out \in [L.Community -> Joined(L)!Record] /\ stored[p.at] \in Joined(L)!Record /\ stored[active] \in Joined(L)!Record
  BY <1>0 DEF QueueInv, Joined!Proc
<1>2. ASSUME NEW f \in L.Kinds, Joined(L)!Start(f) PROVE ListTyped(L)'
  <2>0. f \in Joined(L)!Field
    BY DEF Joined!CommunitiesAssumption
  <2>1. PICK p \in Joined(L)!Proc : mem' = Joined(L)!Changed(p, mem)
    BY <1>2, <2>0, Begins
  <2>2. mem' \in Joined(L)!Record
    BY <1>0, <2>1, MergeTyped
  <2> QED BY <1>0, <1>2, <2>2 DEF Joined!Start, ListTyped, Joined!MemoCurrent
<1>3. ASSUME NEW p \in procs, Joined(L)!ReadId(p) \/ Joined(L)!Upsert(p) \/ Joined(L)!Load(p) \/ Joined(L)!SwitchStep(p) PROVE ListTyped(L)'
  BY <1>0, <1>1, <1>3 DEF Joined!ReadId, Joined!Upsert, Joined!Load, Joined!SwitchStep, ListTyped, Joined!MemoCurrent
<1>4. ASSUME NEW p \in procs, Joined(L)!ReadRecord(p) PROVE ListTyped(L)'
  <2>1. (mem' = mem /\ cid' = cid) \/ (mem' = stored[p.at] /\ cid' = p.at)
    BY <1>4, StepForms DEF ReadRecordForm
  <2> QED BY <1>0, <1>1, <1>4, <2>1 DEF Joined!ReadRecord, ListTyped, Joined!MemoCurrent
<1>5. ASSUME NEW p \in procs, Joined(L)!GotId(p) \/ Joined(L)!GotRecord(p) \/ Joined(L)!GotList(p) PROVE ListTyped(L)'
  BY <1>0, <1>1, <1>5 DEF Joined!GotId, Joined!GotRecord, Joined!GotList, ListTyped, Joined!MemoCurrent, Joined!Some
<1>6. ASSUME NEW p \in procs, Joined(L)!ListWritten(p) \/ Joined(L)!IdWritten(p) PROVE ListTyped(L)'
  BY <1>0, <1>1, <1>6 DEF Joined!ListWritten, Joined!IdWritten, ListTyped, Joined!MemoCurrent, Joined!None
<1>7. ASSUME NEW c \in L.Community, Joined(L)!Switch(c) PROVE ListTyped(L)'
  BY <1>0, <1>7 DEF Joined!Switch, ListTyped, Joined!MemoCurrent
<1>8. CASE Joined(L)!Kill
  BY <1>0, <1>8 DEF Joined!Kill, ListTyped, Joined!MemoCurrent, Joined!None
<1> QED BY <1>2, <1>3, <1>4, <1>5, <1>6, <1>7, <1>8 DEF Joined!Next

LEMMA QueueStep ==
    ASSUME NEW L, Joined(L)!CommunitiesAssumption, QueueInv(L), ListTyped(L), Joined(L)!Next
    PROVE  QueueInv(L)'
<1>0. /\ made \in Seq(L.Community) /\ Len(made) \in Nat /\ Len(made) <= L.MaxWrite /\ L.MaxWrite \in Nat /\ cid \in L.Community
      /\ \A p \in procs : p \in Joined(L)!Proc /\ p.id \in Nat /\ p.id <= Len(made)
  BY DEF QueueInv, ListTyped, Joined!CommunitiesAssumption, Joined!Proc
<1>1. "id" \notin Joined(L)!Requests /\ "record" \notin Joined(L)!Requests /\ "upsert" \notin Joined(L)!Requests /\ "load" \notin Joined(L)!Requests
  BY DEF Joined!Requests
<1>2. ASSUME NEW p \in procs, NEW x, Joined(L)!AtHead(p, x), x \in Joined(L)!Requests
      PROVE  queue # <<>> /\ Head(queue) = p.id /\ p.pc \in Joined(L)!Requests
  BY <1>2 DEF Joined!AtHead
<1>a. {"getId", "getRecord", "getList", "setList", "setId", "saveDMs", "setSlot", "getMap"} \subseteq Joined(L)!Requests
  BY DEF Joined!Requests
<1>3. ASSUME NEW f \in L.Kinds, Joined(L)!Start(f) PROVE QueueInv(L)'
  <2>0. f \in Joined(L)!Field
    BY DEF Joined!CommunitiesAssumption
  <2>1. PICK p \in Joined(L)!Proc : procs' = procs \cup {p} /\ p.id = Len(made) + 1 /\ p.pc = "id"
    BY <1>3, <2>0, Begins
  <2>2. Len(made) < L.MaxWrite /\ made' = Append(made, cid) /\ queue' = queue
    BY <1>3 DEF Joined!Start
  <2>3. made' \in Seq(L.Community) /\ Len(made') = Len(made) + 1
    BY <1>0, <2>2
  <2>4. /\ \A r \in procs : r.id # p.id
        /\ Len(made) <= Len(made') /\ Len(made') <= L.MaxWrite /\ p.id <= Len(made')
        /\ queue' = IF p.pc \in Joined(L)!Requests THEN Append(queue, p.id) ELSE queue
    BY <1>0, <1>1, <2>1, <2>2, <2>3
  <2> QED BY <2>1, <2>3, <2>4, Joins
<1>4. ASSUME NEW p \in procs, Joined(L)!ReadId(p) \/ Joined(L)!Upsert(p) \/ Joined(L)!Load(p) PROVE QueueInv(L)'
  <2>0. made' = made /\ p.pc \notin Joined(L)!Requests
    BY <1>1, <1>4 DEF Joined!ReadId, Joined!Upsert, Joined!Load
  <2>1. PICK q \in Joined(L)!Proc : Like(L, p, q) /\ Joined(L)!Go(p, q)
    BY <1>4, StepForms DEF ReadIdForm, UpsertForm, LoadForm
  <2> QED BY <2>0, <2>1, MovesOn DEF Like
<1>5. ASSUME NEW p \in procs, Joined(L)!ReadRecord(p) PROVE QueueInv(L)'
  <2>0. made' = made /\ p.pc \notin Joined(L)!Requests
    BY <1>1, <1>5 DEF Joined!ReadRecord
  <2>1. Joined(L)!End(p) \/ \E q \in Joined(L)!Proc : Like(L, p, q) /\ Joined(L)!Go(p, q)
    BY <1>5, StepForms DEF ReadRecordForm
  <2>2. CASE Joined(L)!End(p)
    BY <2>0, <2>2, MovesOut
  <2>3. ASSUME NEW q \in Joined(L)!Proc, Like(L, p, q), Joined(L)!Go(p, q) PROVE QueueInv(L)'
    BY <2>0, <2>3, MovesOn DEF Like
  <2> QED BY <2>1, <2>2, <2>3
<1>6. ASSUME NEW p \in procs, Joined(L)!GotId(p) \/ Joined(L)!GotList(p) \/ Joined(L)!ListWritten(p) \/ Joined(L)!SwitchStep(p) PROVE QueueInv(L)'
  <2>0. made' = made /\ queue # <<>> /\ Head(queue) = p.id /\ p.pc \in Joined(L)!Requests
    BY <1>a, <1>6, <1>2 DEF Joined!GotId, Joined!GotList, Joined!ListWritten, Joined!SwitchStep
  <2>1. PICK q \in Joined(L)!Proc : Like(L, p, q) /\ Joined(L)!Answered(p, q)
    BY <1>6, StepForms DEF GotIdForm, GotListForm, ListWrittenForm, SwitchStepForm
  <2> QED BY <2>0, <2>1, MovesOn DEF Like
<1>7. ASSUME NEW p \in procs, Joined(L)!GotRecord(p) \/ Joined(L)!IdWritten(p) PROVE QueueInv(L)'
  <2>0. made' = made /\ queue # <<>> /\ Head(queue) = p.id /\ p.pc \in Joined(L)!Requests
    BY <1>a, <1>7, <1>2 DEF Joined!GotRecord, Joined!IdWritten
  <2>1. Joined(L)!Finished(p) \/ \E q \in Joined(L)!Proc : Like(L, p, q) /\ Joined(L)!Answered(p, q)
    BY <1>7, StepForms DEF GotRecordForm, IdWrittenForm
  <2>2. CASE Joined(L)!Finished(p)
    BY <2>0, <2>2, MovesOut
  <2>3. ASSUME NEW q \in Joined(L)!Proc, Like(L, p, q), Joined(L)!Answered(p, q) PROVE QueueInv(L)'
    BY <2>0, <2>3, MovesOn DEF Like
  <2> QED BY <2>1, <2>2, <2>3
<1>8. ASSUME NEW c \in L.Community, Joined(L)!Switch(c) PROVE QueueInv(L)'
  <2>1. PICK s \in Joined(L)!Proc : procs' = procs \cup {s} /\ s.id = Joined(L)!Switcher /\ s.pc = "saveDMs" /\ queue' = Append(queue, s.id)
    BY <1>8, SwitchBegins
  <2>2. made' = made /\ \A r \in procs : r.id # Joined(L)!Switcher
    BY <1>8 DEF Joined!Switch, Joined!Switching
  <2>3. /\ \A r \in procs : r.id # s.id
        /\ Len(made) <= Len(made') /\ Len(made') <= L.MaxWrite /\ s.id <= Len(made') /\ made' \in Seq(L.Community)
        /\ queue' = IF s.pc \in Joined(L)!Requests THEN Append(queue, s.id) ELSE queue
    BY <1>0, <1>a, <2>1, <2>2 DEF Joined!Switcher
  <2> QED BY <1>0, <2>1, <2>2, <2>3, Joins
<1>9. CASE Joined(L)!Kill
  <2>1. procs' = {} /\ queue' = <<>> /\ made' = made
    BY <1>9 DEF Joined!Kill
  <2>2. IsFiniteSet({}) /\ Elems(<<>>) = {} /\ Distinct(<<>>) /\ <<>> \in Seq(Nat)
    BY FS_EmptySet DEF Elems, Distinct
  <2> QED BY <1>0, <2>1, <2>2 DEF QueueInv, Waiting
<1> QED BY <1>3, <1>4, <1>5, <1>6, <1>7, <1>8, <1>9 DEF Joined!Next

\* The component counts as the library does.
LEMMA SameCount ==
    ASSUME NEW L, NEW S
    PROVE  Joined(L)!Cardinality(S) = Cardinality(S)
  BY DEF Joined!Cardinality, Cardinality

LEMMA ListSound ==
    ASSUME NEW L, Joined(L)!CommunitiesAssumption, QueueInv(L), ListTyped(L)
    PROVE  Joined(L)!TypeOK /\ Joined(L)!MemoCurrent
<1>1. /\ listMemo \subseteq {stored} /\ idMemo \subseteq {active} /\ stored \in [L.Community -> Joined(L)!Record] /\ active \in L.Community
  BY DEF ListTyped, Joined!MemoCurrent
<1>2. \A x : IsFiniteSet({x}) /\ Cardinality({x}) = 1
  BY FS_Singleton
<1>3. Cardinality(listMemo) <= 1 /\ Cardinality(idMemo) <= 1
  <2>1. Cardinality({}) = 0
    BY FS_EmptySet
  <2>2. (listMemo = {} \/ listMemo = {stored}) /\ (idMemo = {} \/ idMemo = {active})
    BY <1>1
  <2>3. (Cardinality(listMemo) = 0 \/ Cardinality(listMemo) = 1) /\ (Cardinality(idMemo) = 0 \/ Cardinality(idMemo) = 1)
    BY <1>2, <2>1, <2>2, Zenon
  <2>4. 0 <= 1 /\ 1 <= 1
    OBVIOUS
  <2> QED BY <2>3, <2>4
<1>4. \A i \in 1..Len(queue) : \E p \in procs : p.id = queue[i] /\ p.pc \in Joined(L)!Requests
  <2> SUFFICES ASSUME NEW i \in 1..Len(queue) PROVE \E p \in procs : p.id = queue[i] /\ p.pc \in Joined(L)!Requests
    OBVIOUS
  <2>1. queue[i] \in Elems(queue)
    BY DEF QueueInv, Elems
  <2>2. queue[i] \in Waiting(L)
    BY <2>1 DEF QueueInv
  <2> QED BY <2>2 DEF Waiting
<1> QED BY <1>1, <1>3, <1>4, SameCount DEF QueueInv, ListTyped, Joined!TypeOK

----------------------------------------------------------------------------
(* One write at a time.                                                     *)

\* What upsert() stores of a record nobody else changes is what the runtime holds.
LEMMA MergeHome ==
    ASSUME NEW L, NEW p \in Joined(L)!Proc, p.id # 0, NEW r \in Joined(L)!Record, p.snap = r,
           p.field \in {"user", "blocked"} => 0 \notin p.user /\ 0 \notin p.blocked
    PROVE  Joined(L)!Merge(r, p) = Joined(L)!Changed(p, r)
<1>1. p.field \in Joined(L)!Field
  BY DEF Joined!Proc
<1>2. Joined(L)!Plus(r["known"], p.id) # Joined(L)!Absent /\ {p.id} # Joined(L)!Absent
  BY DEF Joined!Plus, Joined!Absent
<1>3. p.field \in {"user", "blocked"} => p.user # Joined(L)!Absent /\ p.blocked # Joined(L)!Absent
  BY DEF Joined!Absent
<1>4. CASE p.field \in {"user", "blocked"}
  <2> DEFINE n == [r EXCEPT !["user"] = p.user, !["blocked"] = p.blocked]
  <2>1. Joined(L)!Changed(p, r) = n /\ Joined(L)!Omitted(p.field) = {"org", "known"}
    BY <1>4 DEF Joined!Changed, Joined!Omitted
  <2>2. Joined(L)!Merge(r, p) = [f \in Joined(L)!Field |-> IF f \in {"org", "known"} \/ (n[f] = Joined(L)!Absent /\ f \notin {"labels", "rules"})
                                       THEN r[f] ELSE n[f]]
    BY <2>1 DEF Joined!Merge
  <2>3. \A f \in Joined(L)!Field : (f \in {"org", "known"} \/ (n[f] = Joined(L)!Absent /\ f \notin {"labels", "rules"})) => n[f] = r[f]
    BY <1>3, <1>4 DEF Joined!Record, Joined!Field
  <2>4. n = [f \in Joined(L)!Field |-> n[f]]
    BY DEF Joined!Record
  <2> HIDE DEF n
  <2> QED BY <2>1, <2>2, <2>3, <2>4
<1>5. CASE p.field = "known"
  <2> DEFINE n == [r EXCEPT !["known"] = Joined(L)!Plus(r["known"], p.id)]
  <2>1. Joined(L)!Changed(p, r) = n /\ Joined(L)!Omitted(p.field) = {"org", "user"}
    BY <1>5 DEF Joined!Changed, Joined!Omitted
  <2>2. Joined(L)!Merge(r, p) = [f \in Joined(L)!Field |-> IF f \in {"org", "user"} \/ (n[f] = Joined(L)!Absent /\ f \notin {"labels", "rules"})
                                       THEN r[f] ELSE n[f]]
    BY <2>1 DEF Joined!Merge
  <2>3. \A f \in Joined(L)!Field : (f \in {"org", "user"} \/ (n[f] = Joined(L)!Absent /\ f \notin {"labels", "rules"})) => n[f] = r[f]
    BY <1>2 DEF Joined!Record, Joined!Field
  <2>4. n = [f \in Joined(L)!Field |-> n[f]]
    BY DEF Joined!Record
  <2> HIDE DEF n
  <2> QED BY <2>1, <2>2, <2>3, <2>4
<1>6. CASE p.field \in {"labels", "rules", "org"}
  <2> DEFINE n == [r EXCEPT ![p.field] = {p.id}]
  <2>1. Joined(L)!Changed(p, r) = n /\ Joined(L)!Omitted(p.field) = {"known", "user"}
    BY <1>6 DEF Joined!Changed, Joined!Omitted
  <2>2. Joined(L)!Merge(r, p) = [f \in Joined(L)!Field |-> IF f \in {"known", "user"} \/ (n[f] = Joined(L)!Absent /\ f \notin {"labels", "rules"})
                                       THEN r[f] ELSE n[f]]
    BY <2>1 DEF Joined!Merge
  <2>3. \A f \in Joined(L)!Field : (f \in {"known", "user"} \/ (n[f] = Joined(L)!Absent /\ f \notin {"labels", "rules"})) => n[f] = r[f]
    BY <1>1, <1>2, <1>6 DEF Joined!Record, Joined!Field
  <2>4. n = [f \in Joined(L)!Field |-> n[f]]
    BY DEF Joined!Record
  <2> HIDE DEF n
  <2> QED BY <2>1, <2>2, <2>3, <2>4
<1> QED BY <1>1, <1>4, <1>5, <1>6 DEF Joined!Field

LEMMA LikeChanged ==
    ASSUME NEW L, NEW p, NEW q, Like(L, p, q), NEW r
    PROVE  Joined(L)!Changed(q, r) = Joined(L)!Changed(p, r)
  BY DEF Like, Joined!Changed

LEMMA CalmInit ==
    ASSUME NEW L, Joined(L)!CommunitiesAssumption, Joined(L)!Init
    PROVE  CalmInv(L)
<1>1. \A f \in Joined(L)!Field : mem[f] \ Joined(L)!Absent = {} /\ \A c \in L.Community : stored[c][f] \ Joined(L)!Absent = {}
  BY DEF Joined!Init, Joined!Blank
<1> QED BY <1>1 DEF Joined!Init, CalmInv

LEMMA WriterMoves ==
    ASSUME NEW L, QueueInv(L), CalmInv(L), NEW w \in procs, w.id # Joined(L)!Switcher, NEW q, q.id = w.id,
           procs' = (procs \ {w}) \cup {q}, UNCHANGED <<slot, active, cid, mem, made, kills>>, WriterTrue(L, q)',
           \A c \in L.Community, f \in Joined(L)!Field : \A k \in stored'[c][f] \ Joined(L)!Absent : k \in 1..Len(made) /\ made[k] = c,
           \A s \in procs : s.id = Joined(L)!Switcher =>
               Ahead(q) < Ahead(s) \/ (Ahead(q) = Ahead(s) /\ queue' # <<>> /\ Head(queue') = w.id)
    PROVE  CalmInv(L)'
<1>1. \A s : SwitchTrue(L, s)' = SwitchTrue(L, s)
  BY DEF SwitchTrue
<1>2. \A r \in procs' : r = q \/ (r \in procs /\ r.id = Joined(L)!Switcher)
  BY DEF CalmInv
<1>3. q \in procs' /\ q.id # Joined(L)!Switcher /\ (\A s \in procs : s.id = Joined(L)!Switcher => s \in procs')
  OBVIOUS
<1> QED BY <1>1, <1>2, <1>3 DEF CalmInv, Ahead

LEMMA WriterLeaves ==
    ASSUME NEW L, QueueInv(L), CalmInv(L), NEW w \in procs, w.id # Joined(L)!Switcher, stored[cid] = mem,
           procs' = procs \ {w}, UNCHANGED <<stored, slot, active, cid, mem, made, kills>>
    PROVE  CalmInv(L)'
<1>1. \A s : SwitchTrue(L, s)' = SwitchTrue(L, s)
  BY DEF SwitchTrue
<1>2. \A r \in procs' : r \in procs /\ r.id = Joined(L)!Switcher
  BY DEF CalmInv
<1>3. \A s \in procs : s.id = Joined(L)!Switcher => s \in procs'
  OBVIOUS
<1> QED BY <1>1, <1>2, <1>3 DEF CalmInv

LEMMA SwitchMoves ==
    ASSUME NEW L, QueueInv(L), CalmInv(L), NEW s \in procs, s.id = Joined(L)!Switcher, NEW q, q.id = Joined(L)!Switcher,
           procs' = (procs \ {s}) \cup {q}, UNCHANGED <<stored, cid, mem, made, kills>>, SwitchTrue(L, q)',
           \A w \in procs : w.id # Joined(L)!Switcher =>
               /\ q.pc \in {"saveDMs", "setSlot", "getMap", "setId"} /\ active' = active /\ listMemo' = listMemo
               /\ Ahead(w) < Ahead(q) \/ (Ahead(w) = Ahead(q) /\ queue' # <<>> /\ Head(queue') = w.id)
    PROVE  CalmInv(L)'
<1>1. \A w \in procs : w.id # Joined(L)!Switcher => WriterTrue(L, w)'
  BY DEF CalmInv, WriterTrue
<1>2. \A r \in procs' : r = q \/ (r \in procs /\ r.id # Joined(L)!Switcher)
  BY DEF QueueInv
<1>3. q \in procs' /\ (\A w \in procs : w.id # Joined(L)!Switcher => w \in procs')
  OBVIOUS
<1> QED BY <1>1, <1>2, <1>3 DEF CalmInv, Ahead

LEMMA SwitchLeaves ==
    ASSUME NEW L, QueueInv(L), CalmInv(L), NEW s \in procs, s.id = Joined(L)!Switcher, s.pc \in {"record", "getRecord"}, s.at \in L.Community,
           procs' = procs \ {s}, UNCHANGED <<stored, slot, active, made, kills>>, cid' = s.at, mem' = stored[s.at]
    PROVE  CalmInv(L)'
<1>1. \A r \in procs : r = s
  BY DEF CalmInv, QueueInv
<1>2. procs' = {}
  BY <1>1
<1>3. slot = s.at /\ active = s.at
  BY DEF CalmInv, SwitchTrue
<1> QED BY <1>2, <1>3 DEF CalmInv

\* The places in the queue: a writer that computes has none, and before storage answers the
\* switch a writer has one, behind it.
LEMMA Places ==
    ASSUME NEW L, QueueInv(L), CalmInv(L), NEW w \in procs, w.id # Joined(L)!Switcher, NEW s \in procs, s.id = Joined(L)!Switcher
    PROVE  /\ s.pc \in {"saveDMs", "setSlot", "getMap", "setId"} /\ Ahead(w) \in 1..4 /\ Ahead(s) \in 1..4 /\ Ahead(w) <= Ahead(s)
           /\ w.pc \notin Joined(L)!Requests => Ahead(w) < Ahead(s)
           /\ queue # <<>> /\ Head(queue) = s.id => Ahead(w) < Ahead(s)
           /\ queue # <<>> /\ Head(queue) = s.id /\ Joined(L)!Settled =>
                Tail(queue) # <<>> /\ Head(Tail(queue)) = w.id /\ Head(Append(Tail(queue), s.id)) = w.id /\ Append(Tail(queue), s.id) # <<>>
<1>0. /\ Ahead(w) \in 1..4 /\ Ahead(s) \in 1..4
      /\ Ahead(w) < Ahead(s) \/ (Ahead(w) = Ahead(s) /\ queue # <<>> /\ Head(queue) = w.id)
      /\ s.pc \in {"saveDMs", "setSlot", "getMap", "setId"}
  BY DEF CalmInv, Ahead
<1>1. queue \in Seq(Nat) /\ Distinct(queue) /\ Elems(queue) = Waiting(L) /\ w.id # s.id
  BY DEF QueueInv
<1>2. w.pc \notin Joined(L)!Requests => w.id \notin Waiting(L)
  BY DEF Waiting, QueueInv
<1>3. queue # <<>> => Head(queue) \in Elems(queue)
  BY <1>1, DistinctFacts
<1>4. ASSUME queue # <<>>, Head(queue) = s.id, Joined(L)!Settled
      PROVE  Tail(queue) # <<>> /\ Head(Tail(queue)) = w.id /\ Head(Append(Tail(queue), s.id)) = w.id /\ Append(Tail(queue), s.id) # <<>>
  <2>1. w.pc \in Joined(L)!Requests
    BY <1>4 DEF Joined!Settled, CalmInv, WriterTrue
  <2>2. w.id \in Elems(queue) /\ Elems(queue) \subseteq {w.id, s.id}
    BY <1>1, <2>1 DEF Waiting, CalmInv, QueueInv
  <2>3. Tail(queue) # <<>> /\ Head(Tail(queue)) = w.id
    BY <1>1, <1>4, <2>2, DistinctPair
  <2>4. Tail(queue) \in Seq(Nat) /\ Distinct(Tail(queue)) /\ s.id \in Nat
    BY <1>1, <1>4, DistinctFacts DEF Joined!Switcher
  <2>5. Head(Append(Tail(queue), s.id)) = Head(Tail(queue))
    BY <2>3, <2>4, DistinctFacts
  <2>6. Append(Tail(queue), s.id) # <<>>
    BY <2>4, AppendSome
  <2> QED BY <2>3, <2>5, <2>6
<1> QED BY <1>0, <1>1, <1>2, <1>3, <1>4

\* The steps of the writer.
LEMMA CalmWriter ==
    ASSUME NEW L, Joined(L)!CommunitiesAssumption, QueueInv(L), ListTyped(L), CalmInv(L), NEW p \in procs, p.id # Joined(L)!Switcher,
           \/ Joined(L)!ReadId(p) \/ Joined(L)!ReadRecord(p) \/ Joined(L)!Upsert(p) \/ Joined(L)!GotId(p) \/ Joined(L)!GotRecord(p) \/ Joined(L)!GotList(p)
           \/ Joined(L)!ListWritten(p) \/ Joined(L)!IdWritten(p) \/ Joined(L)!SwitchStep(p) \/ Joined(L)!Load(p)
    PROVE  CalmInv(L)'
<1>0. WriterTrue(L, p) /\ p \in Joined(L)!Proc /\ p.at = cid /\ cid \in L.Community /\ stored \in [L.Community -> Joined(L)!Record] /\ mem \in Joined(L)!Record
  BY DEF CalmInv, QueueInv, ListTyped, WriterTrue
<1>1. /\ \A s \in procs : s.id = Joined(L)!Switcher => Ahead(s) \in 1..4 /\ Ahead(p) \in 1..4 /\ Ahead(p) <= Ahead(s)
      /\ p.pc \notin Joined(L)!Requests => \A s \in procs : s.id = Joined(L)!Switcher => Ahead(p) < Ahead(s)
  BY Places
<1>2. \A c \in L.Community, f \in Joined(L)!Field : \A k \in stored[c][f] \ Joined(L)!Absent : k \in 1..Len(made) /\ made[k] = c
  BY DEF CalmInv
<1>3. "id" \notin Joined(L)!Requests /\ "record" \notin Joined(L)!Requests /\ "upsert" \notin Joined(L)!Requests
  BY DEF Joined!Requests
<1>4. ASSUME NEW q, Like(L, p, q), procs' = (procs \ {p}) \cup {q}, q.at = cid, UNCHANGED <<stored, slot, active, cid, mem, made, kills>>,
             Ahead(q) < Ahead(p) \/ (Ahead(q) = Ahead(p) /\ p.pc \notin Joined(L)!Requests),
             p.pc # "setId", q.pc \in {"getId", "record", "getRecord", "upsert", "setList"},
             q.pc \in {"upsert", "setList"} => q.snap = stored[cid],
             q.pc = "upsert" => listMemo' # Joined(L)!None,
             q.pc = "setList" => q.out = [stored EXCEPT ![cid] = mem]
      PROVE  CalmInv(L)'
  <2>1. Joined(L)!Changed(q, stored[cid]) = Joined(L)!Changed(p, stored[cid])
    BY <1>4, LikeChanged
  <2>2. WriterTrue(L, q)'
    BY <1>0, <1>4, <2>1 DEF WriterTrue, Like, Joined!Changed
  <2>3. Ahead(q) \in 1..4
    BY DEF Ahead
  <2>4. \A s \in procs : s.id = Joined(L)!Switcher => Ahead(q) < Ahead(s)
    BY <1>1, <1>4, <2>3
  <2> QED BY <1>2, <1>4, <2>2, <2>4, WriterMoves DEF Like
<1>5. CASE Joined(L)!ReadId(p)
  <2>0. UNCHANGED <<stored, slot, active, cid, mem, made, kills>>
    BY <1>5 DEF Joined!ReadId
  <2>1. PICK q \in Joined(L)!Proc : /\ p.pc = "id" /\ Like(L, p, q) /\ Joined(L)!Go(p, q)
                                    /\ (idMemo = Joined(L)!None /\ q.pc = "getId" /\ q.at = p.at) \/ (q.pc = "record" /\ q.at = active)
    BY <1>5, StepForms DEF ReadIdForm
  <2>2. q.at = cid /\ (Ahead(q) < Ahead(p) \/ Ahead(q) = Ahead(p))
    BY <1>0, <2>1 DEF WriterTrue, Ahead
  <2> QED BY <1>3, <1>4, <2>0, <2>1, <2>2 DEF Joined!Go
<1>6. CASE Joined(L)!GotId(p)
  <2>0. UNCHANGED <<stored, slot, active, cid, mem, made, kills>> /\ p.pc = "getId"
    BY <1>6 DEF Joined!GotId, Joined!AtHead
  <2>1. PICK q \in Joined(L)!Proc : Like(L, p, q) /\ Joined(L)!Answered(p, q) /\ q.pc = "record" /\ q.at = active
    BY <1>6, StepForms DEF GotIdForm
  <2>2. q.at = cid /\ Ahead(q) < Ahead(p)
    BY <1>0, <2>0, <2>1 DEF WriterTrue, Ahead
  <2> QED BY <1>4, <2>0, <2>1, <2>2 DEF Joined!Answered
<1>7. p.pc # "setId" => ~Joined(L)!Unwanted(p, stored)
  BY <1>0 DEF WriterTrue, Joined!Unwanted, Joined!Field
<1>8. CASE Joined(L)!ReadRecord(p)
  <2>0. UNCHANGED <<stored, slot, active, listMemo, made, kills>> /\ p.pc = "record"
    BY <1>8 DEF Joined!ReadRecord
  <2>1. /\ mem' = mem /\ cid' = cid
        /\ \/ \E q \in Joined(L)!Proc : Like(L, p, q) /\ Joined(L)!Go(p, q) /\ q.pc = "getRecord" /\ q.at = p.at
           \/ /\ listMemo # Joined(L)!None
              /\ \E q \in Joined(L)!Proc : Like(L, p, q) /\ Joined(L)!Go(p, q) /\ q.pc = "upsert" /\ q.at = p.at /\ q.snap = stored[p.at]
    BY <1>7, <1>8, <2>0, StepForms DEF ReadRecordForm
  <2>2. CASE \E q \in Joined(L)!Proc : Like(L, p, q) /\ Joined(L)!Go(p, q) /\ q.pc = "getRecord" /\ q.at = p.at
    <3>1. PICK q \in Joined(L)!Proc : Like(L, p, q) /\ Joined(L)!Go(p, q) /\ q.pc = "getRecord" /\ q.at = p.at
      BY <2>2
    <3>2. Ahead(q) = Ahead(p)
      BY <2>0, <3>1 DEF Ahead
    <3> QED BY <1>0, <1>3, <1>4, <2>0, <2>1, <3>1, <3>2 DEF Joined!Go
  <2>3. CASE listMemo # Joined(L)!None /\ \E q \in Joined(L)!Proc : Like(L, p, q) /\ Joined(L)!Go(p, q) /\ q.pc = "upsert" /\ q.at = p.at /\ q.snap = stored[p.at]
    <3>1. PICK q \in Joined(L)!Proc : Like(L, p, q) /\ Joined(L)!Go(p, q) /\ q.pc = "upsert" /\ q.at = p.at /\ q.snap = stored[p.at]
      BY <2>3
    <3>2. Ahead(q) < Ahead(p)
      BY <2>0, <3>1 DEF Ahead
    <3> QED BY <1>0, <1>4, <2>0, <2>1, <2>3, <3>1, <3>2 DEF Joined!Go
  <2> QED BY <2>1, <2>2, <2>3
<1>9. CASE Joined(L)!GotRecord(p)
  <2>0. UNCHANGED <<stored, slot, active, made, kills>> /\ p.pc = "getRecord" /\ listMemo' # Joined(L)!None
    BY <1>9 DEF Joined!GotRecord, Joined!AtHead, Joined!Some, Joined!None
  <2>1. /\ mem' = mem /\ cid' = cid
        /\ \E q \in Joined(L)!Proc : Like(L, p, q) /\ Joined(L)!Answered(p, q) /\ q.pc = "upsert" /\ q.at = p.at /\ q.snap = stored[p.at]
    BY <1>7, <1>9, <2>0, StepForms DEF GotRecordForm
  <2>2. PICK q \in Joined(L)!Proc : Like(L, p, q) /\ Joined(L)!Answered(p, q) /\ q.pc = "upsert" /\ q.at = p.at /\ q.snap = stored[p.at]
    BY <2>1
  <2>3. Ahead(q) < Ahead(p)
    BY <2>0, <2>2 DEF Ahead
  <2> QED BY <1>0, <1>4, <2>0, <2>1, <2>2, <2>3 DEF Joined!Answered
<1>10. CASE Joined(L)!Upsert(p)
  <2>0. UNCHANGED <<stored, slot, active, cid, mem, made, kills>> /\ p.pc = "upsert" /\ listMemo # Joined(L)!None
    BY <1>0, <1>10 DEF Joined!Upsert, WriterTrue
  <2>1. PICK q \in Joined(L)!Proc : /\ Like(L, p, q) /\ Joined(L)!Go(p, q) /\ q.at = p.at /\ q.snap = p.snap
                                    /\ q.pc = "setList" /\ q.out = [stored EXCEPT ![p.at] = Joined(L)!Merge(stored[p.at], p)]
    BY <1>10, <2>0, StepForms DEF UpsertForm
  <2>2. p.snap = stored[cid] /\ stored[cid] \in Joined(L)!Record /\ mem = Joined(L)!Changed(p, stored[cid])
    BY <1>0, <2>0 DEF WriterTrue
  <2>3. Joined(L)!Merge(stored[cid], p) = mem
    BY <1>0, <2>2, MergeHome DEF WriterTrue, Joined!Switcher
  <2>4. Ahead(q) = Ahead(p)
    BY <2>0, <2>1 DEF Ahead
  <2> QED BY <1>0, <1>3, <1>4, <2>0, <2>1, <2>2, <2>3, <2>4 DEF Joined!Go
<1>11. CASE Joined(L)!ListWritten(p)
  <2>0. /\ UNCHANGED <<slot, active, cid, mem, made, kills>> /\ p.pc = "setList" /\ stored' = p.out
        /\ p.out = [stored EXCEPT ![cid] = mem]
    BY <1>0, <1>11 DEF Joined!ListWritten, Joined!AtHead, WriterTrue
  <2>1. PICK q \in Joined(L)!Proc : Like(L, p, q) /\ Joined(L)!Answered(p, q) /\ q.pc = "setId" /\ q.at = p.at
    BY <1>11, StepForms DEF ListWrittenForm
  <2>2. stored'[cid] = mem /\ \A c \in L.Community : c # cid => stored'[c] = stored[c]
    BY <1>0, <2>0
  <2>3. WriterTrue(L, q)'
    BY <1>0, <2>0, <2>1, <2>2 DEF WriterTrue, Like
  <2>4. \A c \in L.Community, f \in Joined(L)!Field : \A k \in stored'[c][f] \ Joined(L)!Absent : k \in 1..Len(made) /\ made[k] = c
    BY <1>2, <2>2 DEF CalmInv
  <2>5. \A s \in procs : s.id = Joined(L)!Switcher => Ahead(q) < Ahead(s)
    <3>1. Ahead(q) = 1 /\ Ahead(p) = 2
      BY <2>0, <2>1 DEF Ahead
    <3> QED BY <1>1, <3>1
  <2> QED BY <2>0, <2>1, <2>3, <2>4, <2>5, WriterMoves DEF Joined!Answered, Like
<1>12. CASE Joined(L)!IdWritten(p)
  <2>0. /\ UNCHANGED <<stored, slot, cid, mem, made, kills>> /\ p.pc = "setId" /\ active' = active /\ procs' = procs \ {p}
        /\ stored[cid] = mem
    BY <1>0, <1>12 DEF Joined!IdWritten, Joined!AtHead, WriterTrue, Joined!Finished
  <2> QED BY <2>0, WriterLeaves
<1>13. ~Joined(L)!GotList(p) /\ ~Joined(L)!SwitchStep(p) /\ ~Joined(L)!Load(p)
  BY <1>0 DEF Joined!GotList, Joined!SwitchStep, Joined!Load, Joined!AtHead, WriterTrue
<1> QED BY <1>5, <1>6, <1>8, <1>9, <1>10, <1>11, <1>12, <1>13

\* The steps of the switch.
LEMMA CalmSwitch ==
    ASSUME NEW L, Joined(L)!CommunitiesAssumption, QueueInv(L), ListTyped(L), CalmInv(L), NEW p \in procs, p.id = Joined(L)!Switcher,
           \/ Joined(L)!ReadId(p) \/ Joined(L)!ReadRecord(p) \/ Joined(L)!Upsert(p) \/ Joined(L)!GotId(p) \/ Joined(L)!GotRecord(p) \/ Joined(L)!GotList(p)
           \/ Joined(L)!ListWritten(p) \/ Joined(L)!IdWritten(p) \/ Joined(L)!SwitchStep(p) \/ Joined(L)!Load(p)
    PROVE  CalmInv(L)'
<1>0. SwitchTrue(L, p) /\ p \in Joined(L)!Proc /\ p.at \in L.Community
  BY DEF CalmInv, QueueInv, Joined!Proc
<1>1. p.pc \notin {"saveDMs", "setSlot", "getMap", "setId"} => \A w \in procs : w.id = Joined(L)!Switcher
  BY DEF CalmInv
<1>2. ASSUME NEW q, Like(L, p, q), procs' = (procs \ {p}) \cup {q}, UNCHANGED <<stored, slot, active, cid, mem, made, kills>>,
             p.pc \notin {"saveDMs", "setSlot", "getMap", "setId"},
             q.pc \in {"id", "getId", "record", "getRecord"}, q.at = p.at
      PROVE  CalmInv(L)'
  <2>1. SwitchTrue(L, q)'
    BY <1>0, <1>2 DEF SwitchTrue
  <2> QED BY <1>1, <1>2, <2>1, SwitchMoves DEF Like
<1>3. CASE Joined(L)!ReadId(p)
  <2>0. UNCHANGED <<stored, slot, active, cid, mem, made, kills>> /\ p.pc = "id" /\ active = p.at
    BY <1>0, <1>3 DEF Joined!ReadId, SwitchTrue
  <2>1. PICK q \in Joined(L)!Proc : /\ Like(L, p, q) /\ Joined(L)!Go(p, q)
                                    /\ (idMemo = Joined(L)!None /\ q.pc = "getId" /\ q.at = p.at) \/ (q.pc = "record" /\ q.at = active)
    BY <1>3, StepForms DEF ReadIdForm
  <2> QED BY <1>2, <2>0, <2>1 DEF Joined!Go
<1>4. CASE Joined(L)!GotId(p)
  <2>0. UNCHANGED <<stored, slot, active, cid, mem, made, kills>> /\ p.pc = "getId" /\ active = p.at
    BY <1>0, <1>4 DEF Joined!GotId, Joined!AtHead, SwitchTrue
  <2>1. PICK q \in Joined(L)!Proc : Like(L, p, q) /\ Joined(L)!Answered(p, q) /\ q.pc = "record" /\ q.at = active
    BY <1>4, StepForms DEF GotIdForm
  <2> QED BY <1>2, <2>0, <2>1 DEF Joined!Answered
<1>5. CASE Joined(L)!ReadRecord(p)
  <2>0. UNCHANGED <<stored, slot, active, made, kills>> /\ p.pc = "record"
    BY <1>5 DEF Joined!ReadRecord
  <2>1. \/ /\ mem' = mem /\ cid' = cid
           /\ \E q \in Joined(L)!Proc : Like(L, p, q) /\ Joined(L)!Go(p, q) /\ q.pc = "getRecord" /\ q.at = p.at
        \/ Joined(L)!End(p) /\ mem' = stored[p.at] /\ cid' = p.at
    BY <1>5, StepForms DEF ReadRecordForm
  <2>2. CASE mem' = mem /\ cid' = cid /\ \E q \in Joined(L)!Proc : Like(L, p, q) /\ Joined(L)!Go(p, q) /\ q.pc = "getRecord" /\ q.at = p.at
    BY <1>2, <2>0, <2>2 DEF Joined!Go
  <2>3. CASE Joined(L)!End(p) /\ mem' = stored[p.at] /\ cid' = p.at
    BY <1>0, <2>0, <2>3, SwitchLeaves DEF Joined!End
  <2> QED BY <2>1, <2>2, <2>3
<1>6. CASE Joined(L)!GotRecord(p)
  <2>0. UNCHANGED <<stored, slot, active, made, kills>> /\ p.pc = "getRecord"
    BY <1>6 DEF Joined!GotRecord, Joined!AtHead
  <2>1. Joined(L)!Finished(p) /\ mem' = stored[p.at] /\ cid' = p.at
    BY <1>6, StepForms DEF GotRecordForm
  <2> QED BY <1>0, <2>0, <2>1, SwitchLeaves DEF Joined!Finished
<1>7. CASE Joined(L)!Load(p)
  <2>0. UNCHANGED <<stored, slot, active, cid, mem, made, kills>> /\ p.pc = "load"
    BY <1>7 DEF Joined!Load
  <2>1. PICK q \in Joined(L)!Proc : Like(L, p, q) /\ Joined(L)!Go(p, q) /\ q.pc = "id" /\ q.at = p.at
    BY <1>7, StepForms DEF LoadForm
  <2> QED BY <1>2, <2>0, <2>1 DEF Joined!Go
<1>8. ASSUME NEW w \in procs, w.id # Joined(L)!Switcher
      PROVE  /\ Ahead(w) \in 1..4 /\ Ahead(p) \in 1..4
             /\ queue # <<>> /\ Head(queue) = p.id => Ahead(w) < Ahead(p)
             /\ queue # <<>> /\ Head(queue) = p.id /\ Joined(L)!Settled =>
                  Head(Append(Tail(queue), p.id)) = w.id /\ Append(Tail(queue), p.id) # <<>>
  BY <1>8, Places
<1>9. CASE Joined(L)!SwitchStep(p)
  <2>0. UNCHANGED <<stored, active, listMemo, cid, mem, made, kills>>
    BY <1>9 DEF Joined!SwitchStep
  <2>1. PICK q \in Joined(L)!Proc :
                /\ Like(L, p, q) /\ Joined(L)!Answered(p, q) /\ q.at = p.at
                /\ \/ Joined(L)!AtHead(p, "saveDMs") /\ q.pc = "setSlot" /\ slot' = slot
                   \/ Joined(L)!AtHead(p, "setSlot") /\ q.pc = "getMap" /\ slot' = p.at
                   \/ Joined(L)!AtHead(p, "getMap") /\ q.pc = "setId" /\ slot' = slot
    BY <1>9, StepForms DEF SwitchStepForm
  <2>2. SwitchTrue(L, q)' /\ q.pc \in {"setSlot", "getMap", "setId"} /\ Ahead(p) = Ahead(q) + 1 /\ Ahead(q) \in 1..4
    BY <1>0, <2>0, <2>1 DEF SwitchTrue, Joined!AtHead, Ahead
  <2>3. queue # <<>> /\ Head(queue) = p.id /\ Joined(L)!Settled
    BY <2>1 DEF Joined!AtHead
  <2>4. queue' = Append(Tail(queue), p.id) /\ procs' = (procs \ {p}) \cup {q} /\ q.id = Joined(L)!Switcher
    BY <2>1, <2>2 DEF Joined!Answered, Joined!Requests, Like
  <2>5. \A w \in procs : w.id # Joined(L)!Switcher =>
            Ahead(w) < Ahead(q) \/ (Ahead(w) = Ahead(q) /\ queue' # <<>> /\ Head(queue') = w.id)
    <3> SUFFICES ASSUME NEW w \in procs, w.id # Joined(L)!Switcher
                 PROVE  Ahead(w) < Ahead(q) \/ (Ahead(w) = Ahead(q) /\ queue' # <<>> /\ Head(queue') = w.id)
      OBVIOUS
    <3>1. Head(queue') = w.id /\ queue' # <<>>
      BY <1>8, <2>3, <2>4
    <3>2. Ahead(w) \in 1..4 /\ Ahead(w) < Ahead(p)
      BY <1>8, <2>3
    <3>3. Ahead(w) < Ahead(q) \/ Ahead(w) = Ahead(q)
      BY <2>2, <3>2
    <3> QED BY <3>1, <3>3
  <2> QED BY <2>0, <2>2, <2>4, <2>5, SwitchMoves
<1>10. CASE Joined(L)!IdWritten(p)
  <2>0. UNCHANGED <<stored, slot, cid, mem, made, kills>> /\ Joined(L)!AtHead(p, "setId") /\ active' = p.at
    BY <1>10 DEF Joined!IdWritten
  <2>1. PICK q \in Joined(L)!Proc : Like(L, p, q) /\ Joined(L)!Answered(p, q) /\ q.pc = "load" /\ q.at = p.at
    BY <1>10, StepForms DEF IdWrittenForm
  <2>2. \A w \in procs : w.id = Joined(L)!Switcher
    <3> SUFFICES ASSUME NEW w \in procs, w.id # Joined(L)!Switcher PROVE FALSE
      OBVIOUS
    <3>1. Ahead(p) = 1
      BY <2>0 DEF Ahead, Joined!AtHead
    <3> QED BY <1>8, <2>0, <3>1 DEF Joined!AtHead
  <2>3. SwitchTrue(L, q)'
    BY <1>0, <2>0, <2>1 DEF SwitchTrue, Joined!AtHead
  <2> QED BY <2>0, <2>1, <2>2, <2>3, SwitchMoves DEF Joined!Answered, Like
<1>11. ~Joined(L)!Upsert(p) /\ ~Joined(L)!GotList(p) /\ ~Joined(L)!ListWritten(p)
  BY <1>0 DEF Joined!Upsert, Joined!GotList, Joined!ListWritten, Joined!AtHead, SwitchTrue
<1> QED BY <1>3, <1>4, <1>5, <1>6, <1>7, <1>9, <1>10, <1>11

\* With one write at a time nothing is under way when one starts.
LEMMA NobodyWriting ==
    ASSUME NEW L, QueueInv(L), Cardinality({p \in procs : p.id # Joined(L)!Switcher}) < 1
    PROVE  \A p \in procs : p.id = Joined(L)!Switcher
<1> DEFINE S == {p \in procs : p.id # Joined(L)!Switcher}
<1>1. IsFiniteSet(S)
  BY FS_Subset DEF QueueInv
<1>2. Cardinality(S) \in Nat /\ (Cardinality(S) = 0 => S = {})
  BY <1>1, FS_CardinalityType, FS_EmptySet
<1>3. S = {}
  BY <1>2
<1> QED BY <1>3

LEMMA CalmStep ==
    ASSUME NEW L, Joined(L)!CommunitiesAssumption, QueueInv(L), ListTyped(L), CalmInv(L), Joined(L)!Next, L.MaxAtOnce = 1, ~L.MidSwitch, L.MaxKill = 0
    PROVE  CalmInv(L)'
<1>1. ASSUME NEW f \in L.Kinds, Joined(L)!Start(f) PROVE CalmInv(L)'
  <2>0. /\ f \in Joined(L)!Field /\ made' = Append(made, cid) /\ UNCHANGED <<stored, active, slot, listMemo, queue, cid, kills>>
        /\ ~Joined(L)!Switching /\ Cardinality({p \in procs : p.id # Joined(L)!Switcher}) < 1 /\ cid \in L.Community /\ made \in Seq(L.Community) /\ mem \in Joined(L)!Record
    BY <1>1, SameCount DEF Joined!Start, Joined!CommunitiesAssumption, ListTyped, QueueInv
  <2>1. procs = {}
    BY <2>0, NobodyWriting DEF Joined!Switching
  <2>2. stored[cid] = mem /\ slot = active /\ active = cid /\ kills = 0
    BY <2>1 DEF CalmInv
  <2>3. PICK p \in Joined(L)!Proc :
              /\ procs' = procs \cup {p} /\ p.id = Len(made) + 1 /\ p.field = f /\ p.base = cid /\ p.at = cid
              /\ p.pc = "id" /\ 0 \notin p.user /\ 0 \notin p.blocked /\ mem' = Joined(L)!Changed(p, mem)
              /\ p.user \subseteq mem["user"] \cup {p.id} /\ p.blocked \subseteq mem["blocked"] \cup {p.id}
    BY <1>1, <2>0, Begins
  <2>4. /\ Len(made) \in Nat /\ Len(made') = Len(made) + 1 /\ made'[p.id] = cid
        /\ \A k \in 1..Len(made) : k \in 1..Len(made') /\ made'[k] = made[k] /\ k # p.id
        /\ p.id \in 1..Len(made') /\ p.id # 0
    BY <2>0, <2>3
  <2>5. \A c \in L.Community, g \in Joined(L)!Field : \A k \in stored[c][g] \ Joined(L)!Absent : k \in 1..Len(made') /\ made'[k] = c /\ k # p.id
    BY <2>4 DEF CalmInv
  <2>6. \A g \in Joined(L)!Field : \A k \in mem[g] \ Joined(L)!Absent : k \in 1..Len(made') /\ made'[k] = cid
    BY <2>4 DEF CalmInv
  <2>7. \A g \in Joined(L)!Field : mem'[g] \subseteq mem[g] \cup {p.id}
    BY <2>0, <2>3 DEF Joined!Changed, Joined!Plus, Joined!Record, Joined!Field
  <2>8. \A g \in Joined(L)!Field : \A k \in mem'[g] \ Joined(L)!Absent : k \in 1..Len(made') /\ made'[k] = cid'
    BY <2>0, <2>4, <2>6, <2>7
  <2>9. WriterTrue(L, p)'
    <3>1. \A c \in L.Community, g \in Joined(L)!Field : p.id \notin stored[c][g]
      BY <2>4, <2>5 DEF Joined!Absent
    <3>2. mem' = Joined(L)!Changed(p, stored[cid])
      BY <2>2, <2>3
    <3> QED BY <2>0, <2>2, <2>3, <2>4, <3>1, <3>2 DEF WriterTrue, Joined!Changed
  <2>10. procs' = {p} /\ p.id # Joined(L)!Switcher
    BY <2>1, <2>3, <2>4 DEF Joined!Switcher
  <2> QED BY <2>0, <2>2, <2>5, <2>8, <2>9, <2>10 DEF CalmInv
<1>2. ASSUME NEW c \in L.Community, Joined(L)!Switch(c) PROVE CalmInv(L)'
  <2>0. UNCHANGED <<stored, active, slot, listMemo, cid, mem, made, kills>> /\ Joined(L)!Settled /\ \A p \in procs : p.id # Joined(L)!Switcher
    BY <1>2 DEF Joined!Switch, Joined!Switching
  <2>1. PICK s \in Joined(L)!Proc : /\ procs' = procs \cup {s} /\ s.id = Joined(L)!Switcher /\ s.pc = "saveDMs" /\ s.at = c
                                    /\ queue' = Append(queue, s.id)
    BY <1>2, SwitchBegins
  <2>2. SwitchTrue(L, s)'
    BY <2>0, <2>1 DEF CalmInv, SwitchTrue
  <2>3. \A w \in procs : WriterTrue(L, w)'
    BY <2>0 DEF CalmInv, WriterTrue
  <2>4. \A w \in procs : Ahead(w) < Ahead(s) \/ (Ahead(w) = Ahead(s) /\ queue' # <<>> /\ Head(queue') = w.id)
    <3> SUFFICES ASSUME NEW w \in procs PROVE queue' # <<>> /\ Head(queue') = w.id /\ Ahead(w) <= Ahead(s) /\ Ahead(w) \in 1..4 /\ Ahead(s) \in 1..4
      OBVIOUS
    <3>1. w.pc \in Joined(L)!Requests /\ \A r \in procs : r = w
      BY <2>0 DEF Joined!Settled, CalmInv, WriterTrue
    <3>2. queue \in Seq(Nat) /\ Distinct(queue) /\ w.id \in Elems(queue) /\ Elems(queue) \subseteq {w.id, w.id}
      BY <3>1 DEF QueueInv, Waiting
    <3>3. queue # <<>> /\ Head(queue) = w.id
      BY <3>2, DistinctPair
    <3>4. s.id \in Nat
      BY <2>1 DEF Joined!Switcher
    <3>5. Head(Append(queue, s.id)) = Head(queue)
      BY <3>2, <3>3, <3>4, DistinctFacts
    <3>6. Append(queue, s.id) # <<>>
      BY <3>2, <3>4, AppendSome
    <3>7. Ahead(w) <= Ahead(s) /\ Ahead(w) \in 1..4 /\ Ahead(s) \in 1..4
      BY <2>1 DEF Ahead
    <3> QED BY <2>1, <3>3, <3>5, <3>6, <3>7
  <2>5. \A r \in procs' : r = s \/ (r \in procs /\ r.id # Joined(L)!Switcher)
    BY <2>0, <2>1
  <2> QED BY <2>0, <2>1, <2>2, <2>3, <2>4, <2>5 DEF CalmInv, Ahead
<1>3. ~Joined(L)!Kill
  BY DEF Joined!Kill, CalmInv
<1> QED BY <1>1, <1>2, <1>3, CalmWriter, CalmSwitch DEF Joined!Next

LEMMA CalmSound ==
    ASSUME NEW L, Joined(L)!CommunitiesAssumption, QueueInv(L), ListTyped(L), CalmInv(L)
    PROVE  Joined(L)!Durable /\ Joined(L)!WrittenHome /\ Joined(L)!PointersAgree
  BY DEF CalmInv, Joined!Durable, Joined!WrittenHome, Joined!PointersAgree

----------------------------------------------------------------------------
(* The ladder of transports.                                                *)

StepOf == {"idle", "begin", "walk", "fetch", "await", "failed", "teardown", "exhausted", "redo"}
LadderTyped(T) ==
    /\ Ladder(T)!TypeOK /\ cascade \in [at : {0} \cup Ladder(T)!Rung, step : StepOf] /\ maybe \in BOOLEAN
    /\ cascade.step = "walk" => cascade.at \in Ladder(T)!Rung

\* In the foreground, with its settings: a connection is up only while no cascade runs and no
\* retry is set; a cascade tears down only what it has tried, and each teardown that reports
\* sets the retry; with no cascade and no connection the retry is set.
Quiet == stopping \in {<<>>, <<"nobody">>}
WalkInv(T) ==
    /\ desired = TRUE /\ dormant = FALSE /\ rerun = FALSE
    /\ live => tor = "connected"
    /\ quick = {} \/ (quick = {"cascade"} /\ cascade.step = "teardown")
    /\ tor = "connected" => /\ cascade.step = "idle" /\ ~retry
                            /\ live => /\ stopping = <<>> /\ maybe = TRUE
                                       /\ activeTier = Ladder(T)!tierOf(rung) /\ rung \notin dead
                            /\ ~live => stopping = <<"member">>
    /\ cascade.step = "idle" /\ tor # "connected" => Ladder(T)!Down /\ retry /\ Quiet
    /\ cascade.step \in {"begin", "walk", "fetch", "exhausted"} => Ladder(T)!Down /\ Quiet
    /\ cascade.step = "fetch" => Ladder(T)!WebTunnel \notin dead
    /\ cascade.step = "await" => tor = "trying" /\ maybe = TRUE /\ Quiet /\ rung \notin dead
    /\ cascade.step = "failed" => /\ tor \in {"trying", "offline"}
                                  /\ stopping = IF maybe THEN <<>> ELSE <<"nobody">>
    /\ cascade.step = "teardown" => /\ tor \in {"trying", "offline"}
                                    /\ IF quick = {} THEN stopping = <<"cascade">> ELSE Quiet
    /\ cascade.step = "exhausted" => retry
    /\ cascade.step # "redo"

\* The types, in the form the steps are checked against.
Flags == desired \in BOOLEAN /\ dormant \in BOOLEAN /\ rerun \in BOOLEAN /\ retry \in BOOLEAN /\ probed \in BOOLEAN
Marks(T) ==
    /\ dead \subseteq T.Condemnable /\ startTier \in -1..2 /\ activeTier \in -1..2 /\ proven \subseteq Ladder(T)!Rung
    /\ warm \in {0} \cup Ladder(T)!Rung /\ legacy \in {0} \cup Ladder(T)!Rung /\ pend \in {0} \cup Ladder(T)!Rung
Links(T) ==
    /\ tor \in {"disconnected", "offline", "trying", "connected"} /\ live \in BOOLEAN /\ maybe \in BOOLEAN
    /\ rung \in Ladder(T)!Rung /\ quick \subseteq {"cascade", "member", "teardown"}
Placed(T, c) == c \in [at : {0} \cup Ladder(T)!Rung, step : StepOf] /\ (c.step = "walk" => c.at \in Ladder(T)!Rung)

LEMMA LadderParts ==
    ASSUME NEW T
    PROVE  LadderTyped(T) <=> Flags /\ Marks(T) /\ Links(T) /\ Placed(T, cascade)
  BY DEF LadderTyped, Ladder!TypeOK, Flags, Marks, Links, Placed

LEMMA LadderInit ==
    ASSUME NEW T, Ladder(T)!LadderAssumption, Ladder(T)!Init
    PROVE  LadderTyped(T) /\ WalkInv(T)
<1>1. Ladder(T)!Direct \in Ladder(T)!Rung
  BY DEF Ladder!Rung, Ladder!Direct, Ladder!Snowflake
<1>2. Flags /\ Marks(T) /\ Links(T)
  <2>1. Flags
    BY DEF Ladder!Init, Flags
  <2>2. Marks(T)
    BY DEF Ladder!Init, Marks
  <2>3. Links(T)
    BY <1>1 DEF Ladder!Init, Links
  <2> QED BY <2>1, <2>2, <2>3
<1>3. Placed(T, cascade)
  BY DEF Ladder!Init, Placed, Ladder!At, StepOf
<1>4. WalkInv(T)
  BY DEF Ladder!Init, WalkInv, Ladder!At, Ladder!Down, Quiet
<1> QED BY <1>2, <1>3, <1>4, LadderParts

LEMMA PlaceFacts ==
    ASSUME NEW T
    PROVE  /\ \A i \in {0} \cup Ladder(T)!Rung, x \in StepOf : /\ x # "walk" \/ i \in Ladder(T)!Rung => Placed(T, Ladder(T)!At(i, x))
                                                               /\ Ladder(T)!At(i, x).at = i /\ Ladder(T)!At(i, x).step = x
           /\ Placed(T, Ladder(T)!Idle)
           /\ \A i \in {0} \cup Ladder(T)!Rung : Placed(T, Ladder(T)!nextRung(i))
           /\ Ladder(T)!bridgeStartTierToRung \in Ladder(T)!Rung
           /\ \A r \in Ladder(T)!Rung : Ladder(T)!tierOf(r) \in -1..2
           /\ {Ladder(T)!Direct, Ladder(T)!Obfs4, Ladder(T)!WebTunnel, Ladder(T)!Snowflake} \subseteq Ladder(T)!Rung
<1>1. \A i \in {0} \cup Ladder(T)!Rung, x \in StepOf : /\ x # "walk" \/ i \in Ladder(T)!Rung => Placed(T, Ladder(T)!At(i, x))
                                                       /\ Ladder(T)!At(i, x).at = i /\ Ladder(T)!At(i, x).step = x
  BY DEF Placed, Ladder!At
<1>2. Placed(T, Ladder(T)!Idle)
  BY DEF Placed, Ladder!Idle, StepOf
<1>3. \A i \in {0} \cup Ladder(T)!Rung : Placed(T, Ladder(T)!nextRung(i))
  <2>1. "walk" \in StepOf /\ "exhausted" \in StepOf
    BY DEF StepOf
  <2> QED BY <1>1, <2>1 DEF Ladder!nextRung
<1>4. {Ladder(T)!Direct, Ladder(T)!Obfs4, Ladder(T)!WebTunnel, Ladder(T)!Snowflake} \subseteq Ladder(T)!Rung
  BY DEF Ladder!Rung, Ladder!Direct, Ladder!Obfs4, Ladder!WebTunnel, Ladder!Snowflake
<1>5. Ladder(T)!bridgeStartTierToRung \in Ladder(T)!Rung
  BY <1>4 DEF Ladder!bridgeStartTierToRung
<1>6. \A r \in Ladder(T)!Rung : Ladder(T)!tierOf(r) \in -1..2
  BY DEF Ladder!tierOf
<1> QED BY <1>1, <1>2, <1>3, <1>4, <1>5, <1>6

LEMMA DisconnectTypes ==
    ASSUME NEW T, LadderTyped(T), NEW who \in {"cascade", "member", "teardown"}, Ladder(T)!Disconnect(who)
    PROVE  live' \in BOOLEAN /\ maybe' \in BOOLEAN /\ quick' \subseteq {"cascade", "member", "teardown"}
  BY LadderParts DEF Links, Ladder!Disconnect

LEMMA FinishTypes ==
    ASSUME NEW T, LadderTyped(T), Ladder(T)!Finish
    PROVE  /\ Placed(T, cascade') /\ live' \in BOOLEAN /\ maybe' \in BOOLEAN
           /\ quick' \subseteq {"cascade", "member", "teardown"}
<1>1. Placed(T, Ladder(T)!At(0, "redo")) /\ Placed(T, Ladder(T)!At(0, "begin")) /\ Placed(T, Ladder(T)!Idle)
  BY PlaceFacts DEF StepOf
<1> QED BY <1>1, LadderParts, DisconnectTypes DEF Ladder!Finish, Links, Ladder!stops

LEMMA DialTypes ==
    ASSUME NEW T, LadderTyped(T), NEW r \in Ladder(T)!Rung, NEW i \in {0} \cup Ladder(T)!Rung, Ladder(T)!Dial(r, i)
    PROVE  /\ Links(T)' /\ Placed(T, cascade') /\ probed' \in BOOLEAN
           /\ (UNCHANGED <<proven>> => Marks(T)')
<1>1. Links(T) /\ Marks(T) /\ Flags /\ Ladder(T)!tierOf(r) \in -1..2
  BY LadderParts, PlaceFacts
<1>2. CASE tor = "connected"
  <2>1. Placed(T, cascade') /\ live' \in BOOLEAN /\ maybe' \in BOOLEAN /\ quick' \subseteq {"cascade", "member", "teardown"}
    BY <1>2, FinishTypes DEF Ladder!Dial
  <2> QED BY <1>1, <1>2, <2>1 DEF Ladder!Dial, Ladder!Connected, Links, Marks, Flags
<1>3. CASE tor # "connected"
  <2>1. Placed(T, Ladder(T)!At(i, "await"))
    BY PlaceFacts DEF StepOf
  <2> QED BY <1>1, <1>3, <2>1 DEF Ladder!Dial, Links, Marks, Ladder!memory
<1> QED BY <1>2, <1>3

LEMMA LadderTypedStep ==
    ASSUME NEW T, Ladder(T)!LadderAssumption, LadderTyped(T), Ladder(T)!Next
    PROVE  LadderTyped(T)'
<1>0. Flags /\ Marks(T) /\ Links(T) /\ Placed(T, cascade)
  BY LadderParts
<1>1. SUFFICES Flags' /\ Marks(T)' /\ Links(T)' /\ Placed(T, cascade')
  BY DEF LadderTyped, Ladder!TypeOK, Flags, Marks, Links, Placed
<1>2. \A i \in {0} \cup Ladder(T)!Rung, x \in StepOf : x # "walk" \/ i \in Ladder(T)!Rung => Placed(T, Ladder(T)!At(i, x))
  BY PlaceFacts
<1>3. /\ Placed(T, Ladder(T)!Idle) /\ Ladder(T)!bridgeStartTierToRung \in Ladder(T)!Rung /\ cascade.at \in {0} \cup Ladder(T)!Rung
      /\ \A i \in {0} \cup Ladder(T)!Rung : Placed(T, Ladder(T)!nextRung(i))
      /\ {Ladder(T)!Direct, Ladder(T)!Obfs4, Ladder(T)!WebTunnel, Ladder(T)!Snowflake} \subseteq Ladder(T)!Rung
      /\ {"idle", "begin", "walk", "fetch", "await", "failed", "teardown", "exhausted", "redo"} = StepOf
  BY <1>0, PlaceFacts DEF Placed, StepOf
<1>4. \A x : Ladder(T)!WillRetry(x) \in BOOLEAN
  BY <1>0 DEF Ladder!WillRetry, Flags
<1>5. Placed(T, Ladder(T)!RunCascade) /\ Placed(T, Ladder(T)!Released)
  BY <1>0, <1>2, <1>3 DEF Ladder!RunCascade, Ladder!Released
<1>6. CASE Ladder(T)!Begin
  <2>1. Ladder(T)!WarmRung \in {0} \cup Ladder(T)!Rung
    BY <1>0 DEF Ladder!WarmRung, Marks
  <2>2. CASE desired /\ Ladder(T)!WarmRung # 0
    <3>1. PICK r \in Ladder(T)!Rung : r = Ladder(T)!WarmRung
      BY <2>1, <2>2
    <3>2. Ladder(T)!Dial(r, 0) /\ proven' = proven
      BY <1>6, <2>2, <3>1 DEF Ladder!Begin
    <3>3. Links(T)' /\ Placed(T, cascade') /\ probed' \in BOOLEAN /\ Marks(T)'
      BY <3>2, DialTypes
    <3> QED BY <1>0, <1>6, <3>3 DEF Ladder!Begin, Flags
  <2>3. CASE ~(desired /\ Ladder(T)!WarmRung # 0)
    <3>1. Placed(T, cascade')
      BY <1>2, <1>3, <1>6, <2>3 DEF Ladder!Begin
    <3> QED BY <1>0, <1>6, <2>3, <3>1 DEF Ladder!Begin, Flags, Marks, Links, Ladder!conn, Ladder!memory
  <2> QED BY <2>2, <2>3
<1>7. CASE Ladder(T)!Walk
  <2>0. cascade.at \in Ladder(T)!Rung /\ UNCHANGED <<desired, dormant, rerun, retry, proven>>
    BY <1>0, <1>7 DEF Ladder!Walk, Ladder!Turn, Placed
  <2>1. CASE ~desired /\ Ladder(T)!Finish /\ UNCHANGED <<tor, rung, Ladder(T)!memory, probed>>
    BY <1>0, <2>0, <2>1, FinishTypes DEF Flags, Marks, Links, Ladder!memory
  <2>2. CASE /\ cascade' = IF cascade.at \in dead THEN Ladder(T)!nextRung(cascade.at) ELSE Ladder(T)!At(Ladder(T)!WebTunnel, "fetch")
             /\ UNCHANGED <<Ladder(T)!conn, Ladder(T)!memory, probed>>
    <3>1. Placed(T, cascade')
      BY <1>2, <1>3, <2>0, <2>2
    <3>2. Flags' /\ Marks(T)' /\ Links(T)'
      BY <1>0, <2>0, <2>2 DEF Flags, Marks, Links, Ladder!memory, Ladder!conn
    <3> QED BY <3>1, <3>2
  <2>3. CASE Ladder(T)!Dial(cascade.at, cascade.at)
    <3>1. PICK r \in Ladder(T)!Rung : r = cascade.at
      BY <2>0
    <3>2. Links(T)' /\ Placed(T, cascade') /\ probed' \in BOOLEAN /\ Marks(T)'
      BY <2>0, <2>3, <3>1, DialTypes
    <3> QED BY <1>0, <2>0, <3>2 DEF Flags
  <2> QED BY <1>7, <2>1, <2>2, <2>3 DEF Ladder!Walk
<1>8. CASE Ladder(T)!Fetch
  <2>0. UNCHANGED <<desired, dormant, rerun, retry, proven>>
    BY <1>8 DEF Ladder!Fetch
  <2>1. CASE ~desired /\ Ladder(T)!Finish /\ UNCHANGED <<tor, rung, Ladder(T)!memory, probed>>
    BY <1>0, <2>0, <2>1, FinishTypes DEF Flags, Marks, Links, Ladder!memory
  <2>2. CASE cascade' = Ladder(T)!nextRung(Ladder(T)!WebTunnel) /\ UNCHANGED <<Ladder(T)!conn, Ladder(T)!memory, probed>>
    <3>1. Placed(T, cascade')
      BY <1>3, <2>2
    <3>2. Flags' /\ Marks(T)' /\ Links(T)'
      BY <1>0, <2>0, <2>2 DEF Flags, Marks, Links, Ladder!memory, Ladder!conn
    <3> QED BY <3>1, <3>2
  <2>3. CASE Ladder(T)!Dial(Ladder(T)!WebTunnel, Ladder(T)!WebTunnel)
    <3>1. PICK r \in Ladder(T)!Rung : r = Ladder(T)!WebTunnel
      BY <1>3
    <3>2. Links(T)' /\ Placed(T, cascade') /\ probed' \in BOOLEAN /\ Marks(T)'
      BY <2>0, <2>3, <3>1, DialTypes
    <3> QED BY <1>0, <2>0, <3>2 DEF Flags
  <2> QED BY <1>8, <2>1, <2>2, <2>3 DEF Ladder!Fetch
<1>9. CASE Ladder(T)!ConnectSucceeds
  <2>1. Ladder(T)!tierOf(rung) \in -1..2
    BY <1>0, PlaceFacts DEF Links
  <2>2. Flags' /\ Marks(T)'
    BY <1>0, <1>9, <2>1 DEF Ladder!ConnectSucceeds, Flags, Marks, Links, Ladder!Connected
  <2>3. Links(T)' /\ Placed(T, cascade')
    BY <1>0, <1>2, <1>3, <1>9, DisconnectTypes DEF Ladder!ConnectSucceeds, Links, Ladder!stops
  <2> QED BY <2>2, <2>3
<1>10. CASE Ladder(T)!ConnectFails
  <2>1. Links(T)' /\ Placed(T, cascade') /\ Marks(T)'
    BY <1>0, <1>2, <1>3, <1>10 DEF Ladder!ConnectFails, Links, Ladder!stops, Marks, Ladder!memory
  <2>2. Flags'
    BY <1>0, <1>4, <1>10 DEF Ladder!ConnectFails, Flags
  <2> QED BY <2>1, <2>2
<1>11. CASE Ladder(T)!Failed
  <2>1. Links(T)' /\ Placed(T, cascade')
    BY <1>0, <1>2, <1>3, <1>11, FinishTypes, DisconnectTypes DEF Ladder!Failed, Links
  <2>2. Flags' /\ Marks(T)'
    BY <1>0, <1>11 DEF Ladder!Failed, Flags, Marks
  <2> QED BY <2>1, <2>2
<1>12. CASE Ladder(T)!Exhausted
  BY <1>0, <1>12, FinishTypes DEF Ladder!Exhausted, Flags, Marks, Links
<1>13. ASSUME NEW who \in {"cascade", "member", "teardown"}, Ladder(T)!StopDone(who) PROVE Flags' /\ Marks(T)' /\ Links(T)' /\ Placed(T, cascade')
  <2>1. Placed(T, cascade')
    BY <1>0, <1>2, <1>3, <1>5, <1>13 DEF Ladder!StopDone
  <2>2. Flags' /\ Marks(T)'
    BY <1>0, <1>4, <1>13 DEF Ladder!StopDone, Flags, Marks, Ladder!memory
  <2>3. Links(T)'
    BY <1>0, <1>13 DEF Ladder!StopDone, Links
  <2> QED BY <2>1, <2>2, <2>3
<1>14. CASE Ladder(T)!StopUnheard
  BY <1>0, <1>14 DEF Ladder!StopUnheard, Flags, Marks, Links, Ladder!memory
<1>15. CASE Ladder(T)!RetryFires
  <2>1. /\ UNCHANGED <<tor, live, rung, maybe, quick, dead, startTier, activeTier, warm, legacy, pend>>
        /\ UNCHANGED <<desired, dormant, rerun, probed, proven>> /\ retry' = FALSE
    BY <1>15 DEF Ladder!RetryFires, Ladder!conn, Ladder!memory
  <2>2. Flags' /\ Marks(T)'
    BY <1>0, <2>1 DEF Flags, Marks
  <2>3. Links(T)'
    BY <1>0, <2>1 DEF Links
  <2> QED BY <1>5, <1>15, <2>2, <2>3 DEF Ladder!RetryFires
<1>16. CASE Ladder(T)!Verified
  BY <1>0, <1>16 DEF Ladder!Verified, Flags, Marks, Links, Ladder!conn
<1>17. CASE Ladder(T)!Condemned
  <2>1. Flags' /\ Links(T)' /\ Placed(T, cascade')
    BY <1>0, <1>4, <1>17 DEF Ladder!Condemned, Flags, Links
  <2>2. Marks(T)'
    BY <1>0, <1>17 DEF Ladder!Condemned, Marks
  <2> QED BY <2>1, <2>2
<1>18. CASE Ladder(T)!Escalate
  <2>1. Flags' /\ Marks(T)'
    BY <1>0, <1>18 DEF Ladder!Escalate, Flags, Marks, Ladder!tierOf, Ladder!Snowflake, Ladder!Direct, Ladder!WebTunnel, Ladder!Obfs4
  <2>2. Links(T)' /\ Placed(T, cascade')
    BY <1>0, <1>5, <1>18, DisconnectTypes DEF Ladder!Escalate, Links
  <2> QED BY <2>1, <2>2
<1>19. CASE Ladder(T)!DropLink
  BY <1>0, <1>4, <1>19 DEF Ladder!DropLink, Flags, Marks, Links, Ladder!memory, Ladder!stops
<1>20. CASE Ladder(T)!Background
  <2>1. Links(T)' /\ Placed(T, cascade')
    BY <1>0, <1>5, <1>20, DisconnectTypes DEF Ladder!Background, Links, Ladder!stops
  <2>2. Flags' /\ Marks(T)'
    BY <1>0, <1>20 DEF Ladder!Background, Flags, Marks, Ladder!memory
  <2> QED BY <2>1, <2>2
<1>21. CASE Ladder(T)!Foreground
  BY <1>0, <1>2, <1>3, <1>21 DEF Ladder!Foreground, Flags, Marks, Links, Ladder!memory, Ladder!conn
<1>22. CASE Ladder(T)!Restart
  <2>1. Links(T)' /\ Placed(T, cascade')
    BY <1>0, <1>5, <1>22, DisconnectTypes DEF Ladder!Restart, Links
  <2>2. Marks(T)'
    BY <1>0, <1>22 DEF Ladder!Restart, Marks
  <2>3. rerun' \in BOOLEAN /\ desired' \in BOOLEAN
    BY <1>0, <1>22 DEF Ladder!Restart, Ladder!Running, Flags
  <2>4. Flags'
    BY <1>0, <1>22, <2>3 DEF Ladder!Restart, Flags
  <2> QED BY <2>1, <2>2, <2>4
<1>23. CASE Ladder(T)!NetworkChange
  BY <1>0, <1>23 DEF Ladder!NetworkChange, Flags, Marks, Links, Ladder!conn
<1> QED
  BY <1>6, <1>7, <1>8, <1>9, <1>10, <1>11, <1>12, <1>13, <1>14, <1>15, <1>16, <1>17, <1>18, <1>19, <1>20, <1>21, <1>22, <1>23 DEF Ladder!Next

\* The stops under way are at most one.
LEMMA OneStop ==
    /\ \A x : Append(<<>>, x) = <<x>> /\ Tail(<<x>>) = <<>> /\ Head(<<x>>) = x /\ <<x>> # <<>>
    /\ <<"nobody">> # <<"cascade">> /\ <<"nobody">> # <<"member">> /\ <<"member">> # <<"cascade">>
<1>1. \A x : Append(<<>>, x) = <<x>> /\ Tail(<<x>>) = <<>> /\ Head(<<x>>) = x /\ <<x>> # <<>>
  OBVIOUS
<1>2. \A x, y : <<x>> = <<y>> => x = y
  OBVIOUS
<1> QED BY <1>1, <1>2

\* The steps of the invariant, place by place.
LEMMA WalkAgain ==
    ASSUME NEW T, desired' = TRUE, dormant' = FALSE, rerun' = FALSE, live' = FALSE, tor' # "connected", quick' = {},
           \/ cascade'.step \in {"idle", "exhausted"} /\ Ladder(T)!Down' /\ Quiet' /\ retry'
           \/ cascade'.step \in {"begin", "walk"} /\ Ladder(T)!Down' /\ Quiet'
           \/ cascade'.step = "fetch" /\ Ladder(T)!Down' /\ Quiet' /\ Ladder(T)!WebTunnel \notin dead'
           \/ cascade'.step = "await" /\ tor' = "trying" /\ maybe' = TRUE /\ Quiet' /\ rung' \notin dead'
    PROVE  WalkInv(T)'
  BY DEF WalkInv

\* With the app in the foreground a rung is dialled only when there is no connection.
LEMMA WalkDial ==
    ASSUME NEW T, WalkInv(T), NEW r, NEW i, Ladder(T)!Dial(r, i), r \notin dead, tor # "connected", Quiet, quick = {},
           UNCHANGED <<desired, dormant>>, rerun' = FALSE, i \in {0} \cup Ladder(T)!Rung
    PROVE  WalkInv(T)'
<1>1. cascade' = Ladder(T)!At(i, "await") /\ tor' = "trying" /\ live' = FALSE /\ rung' = r /\ maybe' = TRUE
      /\ UNCHANGED <<stopping, quick, dead>>
  BY DEF Ladder!Dial, Ladder!memory
<1>2. cascade'.step = "await"
  BY <1>1 DEF Ladder!At
<1> QED BY <1>1, <1>2, WalkAgain DEF WalkInv, Quiet

LEMMA WalkStep ==
    ASSUME NEW T, Ladder(T)!LadderAssumption, LadderTyped(T), WalkInv(T), Ladder(T)!Next,
           T.Acts \cap {"background", "restart"} = {}, ~T.QuickConnect, Ladder(T)!Snowflake \notin T.Condemnable
    PROVE  WalkInv(T)'
<1>0. desired = TRUE /\ dormant = FALSE /\ rerun = FALSE /\ dead \subseteq T.Condemnable /\ cascade.at \in {0} \cup Ladder(T)!Rung
      /\ (cascade.step = "walk" => cascade.at \in Ladder(T)!Rung) /\ retry \in BOOLEAN /\ maybe \in BOOLEAN /\ live \in BOOLEAN
  BY DEF WalkInv, LadderTyped, Ladder!TypeOK
<1>1. \A i, x : Ladder(T)!At(i, x).at = i /\ Ladder(T)!At(i, x).step = x
  BY DEF Ladder!At
<1>2. Ladder(T)!Idle.step = "idle" /\ Ladder(T)!Idle.at = 0
  BY DEF Ladder!Idle
<1>3. \A i \in {0} \cup Ladder(T)!Rung : i # Ladder(T)!Snowflake => Ladder(T)!nextRung(i).step = "walk"
  BY <1>1 DEF Ladder!nextRung, Ladder!Rung, Ladder!Snowflake, Ladder!Direct
<1>4. Ladder(T)!nextRung(Ladder(T)!Snowflake).step = "exhausted"
  BY <1>1 DEF Ladder!nextRung, Ladder!Rung, Ladder!Snowflake, Ladder!Direct
<1>5. \A x \in {"offline", "disconnected"} : x # tor => Ladder(T)!WillRetry(x) = TRUE
  BY <1>0 DEF Ladder!WillRetry
<1>6. CASE Ladder(T)!Begin
  <2>0. Ladder(T)!Down /\ Quiet /\ tor # "connected" /\ quick = {} /\ live = FALSE /\ UNCHANGED <<desired, dormant, retry>> /\ rerun' = FALSE
    BY <1>0, <1>6 DEF Ladder!Begin, Ladder!Turn, WalkInv, Ladder!Down
  <2>1. CASE Ladder(T)!WarmRung # 0
    <3>1. Ladder(T)!Dial(Ladder(T)!WarmRung, 0)
      BY <1>0, <1>6, <2>1 DEF Ladder!Begin
    <3>2. PICK r : r = Ladder(T)!WarmRung
      OBVIOUS
    <3>3. r \notin dead
      BY <2>1, <3>2 DEF Ladder!WarmRung
    <3> QED BY <2>0, <3>1, <3>2, <3>3, WalkDial
  <2>2. CASE ~(Ladder(T)!WarmRung # 0)
    <3>1. cascade'.step = "walk" /\ UNCHANGED <<Ladder(T)!conn, Ladder(T)!memory>>
      BY <1>0, <1>1, <1>6, <2>2 DEF Ladder!Begin
    <3> QED BY <1>0, <2>0, <3>1, WalkAgain DEF Ladder!conn, Ladder!Down, Quiet
  <2> QED BY <2>1, <2>2
<1>7. CASE Ladder(T)!Walk
  <2>0. Ladder(T)!Down /\ Quiet /\ tor # "connected" /\ quick = {} /\ live = FALSE /\ UNCHANGED <<desired, dormant, retry, rerun>> /\ cascade.at \in Ladder(T)!Rung
    BY <1>0, <1>7 DEF Ladder!Walk, Ladder!Turn, WalkInv, Ladder!Down
  <2>1. CASE cascade.at \in dead
    <3>1. cascade' = Ladder(T)!nextRung(cascade.at) /\ UNCHANGED <<Ladder(T)!conn, Ladder(T)!memory>> /\ cascade.at # Ladder(T)!Snowflake
      BY <1>0, <1>7, <2>1 DEF Ladder!Walk
    <3>2. cascade'.step = "walk"
      BY <1>0, <1>3, <3>1
    <3> QED BY <1>0, <2>0, <3>1, <3>2, WalkAgain DEF Ladder!conn, Ladder!Down, Quiet
  <2>2. CASE cascade.at \notin dead /\ cascade.at = Ladder(T)!WebTunnel
    <3>1. cascade' = Ladder(T)!At(Ladder(T)!WebTunnel, "fetch") /\ UNCHANGED <<Ladder(T)!conn, Ladder(T)!memory>>
      BY <1>0, <1>7, <2>2 DEF Ladder!Walk
    <3>2. cascade'.step = "fetch"
      BY <1>1, <3>1
    <3> QED BY <1>0, <2>0, <2>2, <3>1, <3>2, WalkAgain DEF Ladder!conn, Ladder!memory, Ladder!Down, Quiet
  <2>3. CASE cascade.at \notin dead /\ cascade.at # Ladder(T)!WebTunnel
    <3>1. Ladder(T)!Dial(cascade.at, cascade.at)
      BY <1>0, <1>7, <2>3 DEF Ladder!Walk
    <3>2. PICK r : r = cascade.at
      OBVIOUS
    <3> QED BY <1>0, <2>0, <2>3, <3>1, <3>2, WalkDial
  <2> QED BY <2>1, <2>2, <2>3
<1>8. CASE Ladder(T)!Fetch
  <2>0. /\ Ladder(T)!Down /\ Quiet /\ tor # "connected" /\ quick = {} /\ live = FALSE /\ UNCHANGED <<desired, dormant, retry, rerun>>
        /\ Ladder(T)!WebTunnel \notin dead /\ Ladder(T)!WebTunnel \in {0} \cup Ladder(T)!Rung /\ Ladder(T)!WebTunnel # Ladder(T)!Snowflake
    BY <1>0, <1>8 DEF Ladder!Fetch, Ladder!Turn, WalkInv, Ladder!Down, Ladder!WebTunnel, Ladder!Rung, Ladder!Snowflake, Ladder!Direct
  <2>1. CASE cascade' = Ladder(T)!nextRung(Ladder(T)!WebTunnel) /\ UNCHANGED <<Ladder(T)!conn, Ladder(T)!memory, probed>>
    <3>1. cascade'.step = "walk"
      BY <1>3, <2>0, <2>1
    <3> QED BY <1>0, <2>0, <2>1, <3>1, WalkAgain DEF Ladder!conn, Ladder!Down, Quiet
  <2>2. CASE Ladder(T)!Dial(Ladder(T)!WebTunnel, Ladder(T)!WebTunnel)
    <3>1. PICK r : r = Ladder(T)!WebTunnel
      OBVIOUS
    <3> QED BY <1>0, <2>0, <2>2, <3>1, WalkDial
  <2> QED BY <1>0, <1>8, <2>1, <2>2 DEF Ladder!Fetch
<1>9. CASE Ladder(T)!ConnectSucceeds
  <2>0. /\ cascade.step = "await" /\ quick = {} /\ stopping = <<>> /\ maybe = TRUE /\ rung \notin dead /\ ~retry
    BY <1>0, <1>9 DEF Ladder!ConnectSucceeds, Ladder!Heard, Ladder!Turn, WalkInv
  <2>1. /\ tor' = "connected" /\ cascade' = Ladder(T)!Idle /\ live' = TRUE /\ UNCHANGED <<maybe, stopping, quick, rung, dead, desired, dormant, rerun, retry>>
        /\ activeTier' = Ladder(T)!tierOf(rung)
    BY <1>0, <1>9 DEF Ladder!ConnectSucceeds, Ladder!Connected, Ladder!stops
  <2> QED BY <1>0, <1>2, <2>0, <2>1 DEF WalkInv, Ladder!tierOf
<1>10. CASE Ladder(T)!ConnectFails
  <2>0. /\ cascade.step = "await" /\ quick = {} /\ stopping = <<>> /\ maybe = TRUE /\ tor = "trying" /\ live = FALSE
    BY <1>0, <1>10 DEF Ladder!ConnectFails, Ladder!Heard, Ladder!Turn, WalkInv
  <2>1. cascade'.step = "failed" /\ UNCHANGED <<live, quick, desired, dormant, rerun>>
    BY <1>1, <1>10 DEF Ladder!ConnectFails, Ladder!stops
  <2>2. tor' \in {"trying", "offline"} /\ stopping' = IF maybe' THEN <<>> ELSE <<"nobody">>
    BY <1>10, <2>0, OneStop DEF Ladder!ConnectFails, Ladder!stops
  <2> QED BY <1>0, <2>0, <2>1, <2>2 DEF WalkInv
<1>11. CASE Ladder(T)!Failed
  <2>0. /\ cascade.step = "failed" /\ quick = {} /\ tor \in {"trying", "offline"} /\ stopping = IF maybe THEN <<>> ELSE <<"nobody">>
    BY <1>11 DEF Ladder!Failed, Ladder!Turn, WalkInv
  <2>1. cascade' = Ladder(T)!At(cascade.at, "teardown") /\ Ladder(T)!Disconnect("cascade") /\ UNCHANGED <<tor, desired, dormant, rerun>>
    BY <1>0, <1>11 DEF Ladder!Failed
  <2>2. cascade'.step = "teardown" /\ live' = FALSE
    BY <1>1, <2>1 DEF Ladder!Disconnect
  <2>3. CASE maybe
    <3>1. stopping' = <<"cascade">> /\ quick' = {}
      BY <2>0, <2>1, <2>3, OneStop DEF Ladder!Disconnect
    <3> QED BY <1>0, <2>0, <2>1, <2>2, <3>1 DEF WalkInv
  <2>4. CASE ~maybe
    <3>1. stopping' = <<"nobody">> /\ quick' = {"cascade"}
      BY <2>0, <2>1, <2>4 DEF Ladder!Disconnect
    <3> QED BY <1>0, <2>0, <2>1, <2>2, <3>1 DEF WalkInv, Quiet
  <2> QED BY <2>3, <2>4
<1>12. CASE Ladder(T)!Exhausted
  <2>0. Ladder(T)!Down /\ Quiet /\ tor # "connected" /\ quick = {} /\ live = FALSE /\ retry = TRUE
    BY <1>0, <1>12 DEF Ladder!Exhausted, Ladder!Turn, WalkInv, Ladder!Down
  <2>1. cascade' = Ladder(T)!Idle /\ UNCHANGED <<live, maybe, stopping, quick, tor, desired, dormant, rerun, retry>>
    BY <1>0, <1>12 DEF Ladder!Exhausted, Ladder!Finish, Ladder!stops
  <2> QED BY <1>0, <1>2, <2>0, <2>1, WalkAgain DEF Ladder!Down, Quiet
<1>13. ASSUME NEW who \in {"cascade", "member", "teardown"}, Ladder(T)!StopDone(who) PROVE WalkInv(T)'
  <2>0. tor' = "disconnected" /\ live' = FALSE /\ retry' = Ladder(T)!WillRetry("disconnected") /\ UNCHANGED <<desired, dormant, rerun>> /\ Ladder(T)!Down'
    BY <1>13 DEF Ladder!StopDone, Ladder!Down
  <2>1. CASE who \in quick
    <3>1. quick = {"cascade"} /\ cascade.step = "teardown" /\ who = "cascade" /\ tor \in {"trying", "offline"} /\ Quiet
      BY <2>1 DEF WalkInv
    <3>2. \A x : stopping # <<>> /\ Head(stopping) = x => x = "nobody"
      BY <3>1, OneStop DEF Quiet
    <3>3. quick' = {} /\ stopping' = stopping
      BY <1>13, <3>1, <3>2 DEF Ladder!StopDone
    <3>4. retry' = TRUE
      BY <1>5, <2>0, <3>1
    <3>5. cascade' = IF cascade.at = 0 THEN Ladder(T)!At(Ladder(T)!bridgeStartTierToRung, "walk") ELSE Ladder(T)!nextRung(cascade.at)
      BY <1>0, <1>13, <3>1 DEF Ladder!StopDone
    <3>6. cascade'.step \in {"walk", "exhausted"}
      BY <1>0, <1>1, <1>3, <1>4, <3>5
    <3>7. desired' = TRUE /\ dormant' = FALSE /\ rerun' = FALSE /\ Quiet'
      BY <1>0, <2>0, <3>1, <3>3 DEF Quiet
    <3>8. \/ cascade'.step \in {"idle", "exhausted"} /\ Ladder(T)!Down' /\ Quiet' /\ retry'
          \/ cascade'.step \in {"begin", "walk"} /\ Ladder(T)!Down' /\ Quiet'
      BY <2>0, <3>4, <3>6, <3>7
    <3>9. tor' # "connected" /\ live' = FALSE /\ quick' = {}
      BY <2>0, <3>3
    <3> QED BY <3>7, <3>8, <3>9, WalkAgain
  <2>2. CASE who \notin quick
    <3>1. Ladder(T)!Yields /\ stopping # <<>> /\ Head(stopping) = who /\ stopping' = Tail(stopping) /\ quick' = quick /\ quick = {}
      BY <1>13, <2>2 DEF Ladder!StopDone, Ladder!Yields
    <3>2. who # "nobody" /\ ~Quiet
      BY <3>1, OneStop DEF Quiet
    <3>3. \/ cascade.step = "teardown" /\ stopping = <<"cascade">> /\ tor \in {"trying", "offline"}
          \/ cascade.step = "idle" /\ tor = "connected" /\ stopping = <<"member">>
      BY <1>0, <3>1, <3>2 DEF WalkInv, LadderTyped, StepOf, Ladder!Yields
    <3>4. stopping' = <<>> /\ Quiet' /\ retry' = TRUE
      BY <1>5, <2>0, <3>1, <3>3, OneStop DEF Quiet
    <3>5. CASE cascade.step = "teardown" /\ stopping = <<"cascade">>
      <4>1. who = "cascade"
        BY <3>1, <3>5, OneStop
      <4>2. cascade' = IF cascade.at = 0 THEN Ladder(T)!At(Ladder(T)!bridgeStartTierToRung, "walk") ELSE Ladder(T)!nextRung(cascade.at)
        BY <1>0, <1>13, <3>5, <4>1 DEF Ladder!StopDone
      <4>3. cascade'.step \in {"walk", "exhausted"}
        BY <1>0, <1>1, <1>3, <1>4, <4>2
      <4> QED BY <1>0, <2>0, <3>1, <3>4, <4>3, WalkAgain
    <3>6. CASE cascade.step = "idle" /\ stopping = <<"member">>
      <4>1. who = "member"
        BY <3>1, <3>6, OneStop
      <4>2. cascade' = Ladder(T)!At(0, "begin")
        BY <1>0, <1>13, <3>6, <4>1 DEF Ladder!StopDone, Ladder!RunCascade, Ladder!Running
      <4>3. cascade'.step = "begin"
        BY <1>1, <4>2
      <4> QED BY <1>0, <2>0, <3>1, <3>4, <4>3, WalkAgain
    <3> QED BY <3>3, <3>5, <3>6
  <2> QED BY <2>1, <2>2
<1>14. CASE Ladder(T)!StopUnheard
  <2>1. /\ quick = {} /\ stopping # <<>> /\ Head(stopping) = "nobody" /\ stopping' = Tail(stopping)
        /\ UNCHANGED <<tor, live, rung, maybe, quick, cascade, desired, dormant, rerun, retry, dead, activeTier>>
        /\ cascade.step \notin {"walk", "failed", "exhausted"}
    BY <1>14 DEF Ladder!StopUnheard, Ladder!memory, Ladder!Yields
  <2>2. stopping # <<"member">> /\ stopping # <<"cascade">>
    BY <2>1, OneStop
  <2>3. Quiet /\ (cascade.step \in {"idle", "begin", "fetch", "await"})
    BY <1>0, <2>1, <2>2 DEF WalkInv, LadderTyped, StepOf
  <2>4. stopping' = <<>> /\ Quiet'
    BY <2>1, <2>3, OneStop DEF Quiet
  <2> QED BY <2>1, <2>2, <2>3, <2>4 DEF WalkInv, Ladder!Down, Ladder!tierOf
<1>15. CASE Ladder(T)!RetryFires
  <2>0. retry' = FALSE /\ UNCHANGED <<Ladder(T)!conn, desired, dormant, rerun, Ladder(T)!memory>> /\ cascade.step # "exhausted" /\ retry
    BY <1>15 DEF Ladder!RetryFires, Ladder!Yields
  <2>1. CASE Ladder(T)!Running
    <3>1. cascade' = cascade /\ cascade.step # "idle"
      BY <1>15, <2>1 DEF Ladder!RetryFires, Ladder!RunCascade, Ladder!Running
    <3> QED BY <2>0, <3>1 DEF WalkInv, Ladder!Down, Quiet, Ladder!conn, Ladder!memory, Ladder!tierOf
  <2>2. CASE ~Ladder(T)!Running
    <3>1. cascade' = Ladder(T)!At(0, "begin") /\ cascade.step = "idle"
      BY <1>0, <1>15, <2>2 DEF Ladder!RetryFires, Ladder!RunCascade, Ladder!Running
    <3>2. tor # "connected" /\ Ladder(T)!Down /\ Quiet /\ quick = {} /\ live = FALSE
      BY <1>0, <2>0, <3>1 DEF WalkInv
    <3>3. cascade'.step = "begin"
      BY <1>1, <3>1
    <3> QED BY <1>0, <2>0, <3>2, <3>3, WalkAgain DEF Ladder!conn, Ladder!Down, Quiet
  <2> QED BY <2>1, <2>2
<1>16. CASE Ladder(T)!Verified
  BY <1>16 DEF Ladder!Verified, WalkInv, Ladder!Down, Quiet, Ladder!conn, Ladder!tierOf
<1>17. CASE Ladder(T)!Condemned
  <2>1. cascade.step = "idle" /\ ~retry /\ stopping = <<>> /\ maybe = TRUE /\ quick = {} /\ tor = "connected"
    BY <1>17 DEF Ladder!Condemned, WalkInv
  <2>2. tor' = "offline" /\ live' = FALSE /\ retry' = TRUE /\ stopping' = <<"nobody">> /\ UNCHANGED <<quick, cascade, desired, dormant, rerun>>
    BY <1>5, <1>17, <2>1, OneStop DEF Ladder!Condemned
  <2> QED BY <1>0, <2>1, <2>2, WalkAgain DEF Ladder!Down, Quiet
<1>18. CASE Ladder(T)!Escalate
  <2>1. cascade.step = "idle" /\ ~retry /\ stopping = <<>> /\ maybe = TRUE /\ quick = {} /\ tor = "connected"
    BY <1>18 DEF Ladder!Escalate, WalkInv
  <2>2. /\ cascade' = cascade /\ live' = FALSE /\ stopping' = <<"member">> /\ quick' = {}
        /\ UNCHANGED <<tor, rung, desired, dormant, rerun, retry>>
    BY <1>18, <2>1, OneStop DEF Ladder!Escalate, Ladder!Disconnect, Ladder!Released
  <2> QED BY <1>0, <2>1, <2>2 DEF WalkInv
<1>19. CASE Ladder(T)!DropLink
  <2>1. cascade.step = "idle" /\ ~retry /\ stopping = <<>> /\ maybe = TRUE /\ quick = {} /\ tor = "connected"
    BY <1>19 DEF Ladder!DropLink, WalkInv
  <2>2. tor' = "offline" /\ live' = FALSE /\ retry' = TRUE /\ UNCHANGED <<stopping, quick, cascade, desired, dormant, rerun>>
    BY <1>5, <1>19, <2>1 DEF Ladder!DropLink, Ladder!stops
  <2> QED BY <1>0, <2>1, <2>2, WalkAgain DEF Ladder!Down, Quiet
<1>20. ~Ladder(T)!Background /\ ~Ladder(T)!Restart
  BY DEF Ladder!Background, Ladder!Restart, Ladder!Act
<1>21. ~Ladder(T)!Foreground
  BY <1>0 DEF Ladder!Foreground
<1>22. CASE Ladder(T)!NetworkChange
  <2>1. UNCHANGED <<Ladder(T)!conn, cascade, desired, dormant, rerun, retry, activeTier>> /\ dead' = {}
    BY <1>22 DEF Ladder!NetworkChange
  <2> QED BY <2>1 DEF WalkInv, Ladder!Down, Quiet, Ladder!conn, Ladder!tierOf
<1> QED
  BY <1>6, <1>7, <1>8, <1>9, <1>10, <1>11, <1>12, <1>13, <1>14, <1>15, <1>16, <1>17, <1>18, <1>19, <1>20, <1>21, <1>22 DEF Ladder!Next

LEMMA WalkSound ==
    ASSUME NEW T, LadderTyped(T), WalkInv(T)
    PROVE  Ladder(T)!RetryOwed /\ Ladder(T)!TierTrue /\ Ladder(T)!NotOnCondemned
<1>1. Ladder(T)!RetryOwed
  BY DEF WalkInv, Ladder!RetryOwed, Ladder!Down, Ladder!Running
<1>2. Ladder(T)!TierTrue /\ Ladder(T)!NotOnCondemned
  BY DEF WalkInv, Ladder!TierTrue, Ladder!NotOnCondemned
<1> QED BY <1>1, <1>2

----------------------------------------------------------------------------
(* The accounts of the device.                                              *)

\* What a join, a removal and a switch do, of whom.
JoinDo == {"bind", "teardown", "key", "list", "active", "last", "data", "enrolled", "publish", "unbind", "reconnect"}
LeaveDo == {"away", "settle", "unlist", "unkey", "repoint", "undata", "unlast"}
SwitchDo == {"freeze", "active", "last", "repointed"}
JoinOf(R, J) == [do : JoinDo, of : J] \cup [do : {"comm", "cid"}, of : R.Community]
LeaveOf(R, J) == [do : LeaveDo, of : J] \cup [do : {"uncomm", "uncid", "unlastc"}, of : R.Community]
                  \cup [do : {"drop"}, of : {R.None}]
SwitchOf(R, J) == [do : SwitchDo, of : J] \cup [do : {"cid"}, of : R.Community]

DiskOf(R, J) ==
    [list : SUBSET J, key : SUBSET J, data : SUBSET J, active : J \cup {R.None}, comms : SUBSET R.Community,
     cid : R.Community \cup {R.None}, last : [R.Community -> J \cup {R.None}], bind : J \cup {R.None}]
MemOf(R, J) == [slot : J \cup {R.None}, cid : R.Community \cup {R.None}, enrolled : BOOLEAN]

\* Nothing names a slot whose enrolment has not begun, and a join is never mixed with a removal.
RingTyped(R) ==
    /\ joined \subseteq R.Slot /\ bound \subseteq joined /\ ready \subseteq joined /\ left \subseteq joined
    /\ disk \in DiskOf(R, joined) /\ IsFiniteSet(disk.list) /\ mem \in MemOf(R, joined)
    /\ conn \in R.Community \cup {R.None} /\ sending \in joined \cup {R.None}
    /\ op \in Seq(JoinOf(R, joined)) \cup Seq(LeaveOf(R, joined)) /\ sw \in Seq(SwitchOf(R, joined))
    /\ kills \in Nat /\ switches \in Nat

\* No step b for what an earlier step a was for.
After(s, a, b) == \A i, k \in DOMAIN s : i < k /\ s[i].do = a /\ s[k].do = b => s[i].of # s[k].of
Leads == {"away", "drop", "settle"}
Plain(s) == \A t \in Elems(s) : t.do \notin Leads
Ordered(s) ==
    /\ After(s, "repoint", "unlist") /\ After(s, "uncid", "uncomm")
    /\ After(s, "enrolled", "key") /\ After(s, "enrolled", "list") /\ After(s, "enrolled", "data")
    /\ s # <<>> => Plain(Tail(s))

\* A step that is still to come.
Due(R, do, x) == Ring(R)!Step(do, x) \in Elems(op)

Arriving(R, s) ==
    /\ s \in disk.key \/ Due(R, "key", s)
    /\ s \in disk.list \/ Due(R, "list", s)
    /\ s \in disk.data \/ Due(R, "data", s)

KeepInv(R) ==
    /\ Ordered(op)
    /\ \A s \in joined : Due(R, "unlist", s) \/ Due(R, "unkey", s) \/ Due(R, "undata", s) => s \in left
    /\ \A s \in joined : Due(R, "enrolled", s) => Arriving(R, s)
    /\ Ring(R)!OwnedKept

\* What the key ring, the keys, the accounts' data and the communities will be when the join or
\* the removal under way has ended.
Staying(R) == {x \in joined : (x \in disk.list \/ Due(R, "list", x)) /\ ~Due(R, "unlist", x)}
Keys(R) == {x \in joined : (x \in disk.key \/ Due(R, "key", x)) /\ ~Due(R, "unkey", x)}
Datas(R) == {x \in joined : (x \in disk.data \/ Due(R, "data", x)) /\ ~Due(R, "undata", x)}
Comms(R) == {c \in R.Community : (c \in disk.comms \/ Due(R, "comm", c)) /\ ~Due(R, "uncomm", c)}

\* The last step of a join is the reconnect.
JoinForm(R, s) ==
    /\ op # <<>> /\ op[Len(op)] = Ring(R)!Step("reconnect", s)
    /\ \A i \in DOMAIN op : op[i].do = "reconnect" => i = Len(op)
    /\ \A t \in Elems(op) : t.do \in JoinDo => t.of = s
    /\ \A t \in Elems(op) : t.do \in {"comm", "cid"} => t.of = R.Home[s]

\* Of a removal: who is removed is no longer counted, and is seen to in this order.
LeaveForm(R) ==
    /\ \A s \in joined : Due(R, "repoint", s) => s \notin Staying(R)
    /\ \A s \in joined : Due(R, "unlist", s) => Due(R, "repoint", s)
    /\ \A c \in R.Community : Due(R, "uncid", c) => c \notin Comms(R)
    /\ \A c \in R.Community : Due(R, "uncomm", c) => Due(R, "uncid", c)

Rest(R, s, k) == [i \in 1..(5 - k) |-> Ring(R)!Switching(s)[i + k]]
SwitchAt(R, s, k) ==
    /\ sw = Rest(R, s, k) /\ s \in Staying(R)
    /\ k >= 2 => disk.active = s
    /\ k >= 4 => disk.cid = R.Home[s]
    /\ op # <<>> => Head(op) = Ring(R)!Step("settle", s)

\* The runtime and the pointers name an account that stays, or none when none does.
OnStaying(R) == disk.active \in Staying(R) /\ disk.cid = R.Home[disk.active]
                 /\ mem = [slot |-> disk.active, cid |-> disk.cid, enrolled |-> TRUE]
NoneStays(R) ==
    /\ Staying(R) = {}
    /\ disk.active = R.None \/ Due(R, "repoint", disk.active)
    /\ disk.cid = R.None \/ Due(R, "uncid", disk.cid)
Based(R) == OnStaying(R) \/ (NoneStays(R) /\ mem = [slot |-> R.None, cid |-> R.None, enrolled |-> FALSE])

JoinAt(R, s) ==
    /\ JoinForm(R, s) /\ s \in Staying(R)
    /\ Due(R, "active", s) \/ disk.active = s
    /\ Due(R, "cid", R.Home[s]) \/ disk.cid = R.Home[s]
    /\ Due(R, "teardown", s) \/ (mem.slot = s /\ mem.cid = R.Home[s])
    /\ Due(R, "enrolled", s) \/ mem.enrolled

LeaveAt(R) ==
    /\ op # <<>> => LET t == Head(op)
                    IN  /\ t.do \in {"away", "settle"} => t.of \in Staying(R)
                        /\ t.do = "settle" => t.of = disk.active /\ OnStaying(R)
                        /\ t.do = "drop" => NoneStays(R)
    /\ op = <<>> \/ Head(op).do \notin Leads => Based(R)

Unbound == joined \ (left \cup bound)

\* What is left of the four records agrees; a remembered account stays, or is about to be forgotten.
Sums(R) == Keys(R) = Staying(R) /\ Datas(R) = Staying(R) /\ Comms(R) = {R.Home[s] : s \in Staying(R)}
Lasts(R) == \A c \in R.Community : disk.last[c] = R.None \/ disk.last[c] \in Staying(R) \/ Due(R, "unlast", disk.last[c])

\* A join, a removal (or nothing), or a switch is under way, on its own or as part of a removal.
Enrolling(R) == sw = <<>> /\ \E s \in joined : JoinAt(R, s) /\ Unbound \subseteq {s}
Leaves(R) == op \in Seq(LeaveOf(R, joined)) /\ LeaveForm(R) /\ sw = <<>> /\ LeaveAt(R)
Switches(R) == op \in Seq(LeaveOf(R, joined)) /\ LeaveForm(R) /\ \E s \in joined, k \in 0..4 : SwitchAt(R, s, k)

\* At most one account is owed its binding event, and that event is the stored one.
Owes(R) ==
    /\ \A s \in Unbound : (disk.bind = s \/ Due(R, "bind", s)) /\ s \in Staying(R)
    /\ \A s \in joined : Due(R, "bind", s) => disk.bind = R.None \/ disk.bind = s
    /\ \A s \in joined : Due(R, "unbind", s) => s \in bound
    /\ sending # R.None => Unbound \subseteq {sending}

RingCalm(R) == Sums(R) /\ Lasts(R) /\ (Enrolling(R) \/ Leaves(R) \/ Switches(R)) /\ Owes(R)

\* What a list of steps is made of.
HeadForm(s) ==
    /\ Head(s) \in Elems(s) /\ Elems(s) = {Head(s)} \cup Elems(Tail(s)) /\ Head(s) = s[1] /\ Len(s) \in Nat \ {0}
    /\ DOMAIN s = 1..Len(s) /\ Len(Tail(s)) = Len(s) - 1 /\ DOMAIN Tail(s) = 1..(Len(s) - 1)
    /\ \A i \in 1..(Len(s) - 1) : Tail(s)[i] = s[i + 1]
    /\ Elems(Tail(s)) \subseteq Elems(s)

LEMMA HeadFacts ==
    ASSUME NEW S, NEW s \in Seq(S), s # <<>>
    PROVE  HeadForm(s) /\ Head(s) \in S /\ Tail(s) \in Seq(S)
<1>1. /\ Tail(s) \in Seq(S) /\ Head(s) \in S /\ Head(s) = s[1] /\ Len(s) \in Nat \ {0} /\ DOMAIN s = 1..Len(s)
      /\ Len(Tail(s)) = Len(s) - 1 /\ DOMAIN Tail(s) = 1..(Len(s) - 1)
      /\ \A i \in 1..(Len(s) - 1) : Tail(s)[i] = s[i + 1]
  OBVIOUS
<1>2. Head(s) \in Elems(s)
  BY <1>1 DEF Elems
<1>3. \A i \in DOMAIN Tail(s) : Tail(s)[i] \in Elems(s)
  BY <1>1 DEF Elems
<1>4. Elems(Tail(s)) \subseteq Elems(s)
  BY <1>3 DEF Elems
<1>5. ASSUME NEW i \in DOMAIN s PROVE s[i] = Head(s) \/ s[i] \in Elems(Tail(s))
  <2>1. i # 1 => i - 1 \in DOMAIN Tail(s) /\ Tail(s)[i - 1] = s[i]
    BY <1>1
  <2> QED BY <1>1, <2>1 DEF Elems
<1>6. Elems(s) \subseteq {Head(s)} \cup Elems(Tail(s))
  BY <1>5 DEF Elems
<1> QED BY <1>1, <1>2, <1>4, <1>6 DEF HeadForm

LEMMA AfterTail ==
    ASSUME NEW S, NEW s \in Seq(S), s # <<>>, NEW a, NEW b, After(s, a, b)
    PROVE  /\ After(Tail(s), a, b)
           /\ Head(s).do = a => \A t \in Elems(Tail(s)) : t.do = b => t.of # Head(s).of
<1>1. HeadForm(s)
  BY HeadFacts
<1>2. \A i \in DOMAIN Tail(s) : i + 1 \in DOMAIN s /\ i \in Nat /\ 1 < i + 1
  BY <1>1 DEF HeadForm
<1>3. After(Tail(s), a, b)
  <2> SUFFICES ASSUME NEW i \in DOMAIN Tail(s), NEW k \in DOMAIN Tail(s), i < k, Tail(s)[i].do = a, Tail(s)[k].do = b
               PROVE  Tail(s)[i].of # Tail(s)[k].of
    BY DEF After
  <2>1. i + 1 < k + 1 /\ Tail(s)[i] = s[i + 1] /\ Tail(s)[k] = s[k + 1]
    BY <1>1, <1>2 DEF HeadForm
  <2> QED BY <1>2, <2>1 DEF After
<1>4. ASSUME Head(s).do = a, NEW k \in DOMAIN Tail(s), Tail(s)[k].do = b PROVE Tail(s)[k].of # Head(s).of
  <2>1. 1 \in DOMAIN s /\ Tail(s)[k] = s[k + 1] /\ Head(s) = s[1]
    BY <1>1 DEF HeadForm
  <2> QED BY <1>2, <1>4, <2>1 DEF After
<1> QED BY <1>3, <1>4 DEF Elems

\* What is not to come any more once h is done.
Settles(h, P) ==
    \A t \in P : /\ h.do = "repoint" /\ t.do = "unlist" => t.of # h.of
                 /\ h.do = "uncid" /\ t.do = "uncomm" => t.of # h.of
                 /\ h.do = "enrolled" /\ t.do \in {"key", "list", "data"} => t.of # h.of

LEMMA OrderedTail ==
    ASSUME NEW S, NEW s \in Seq(S), s # <<>>, Ordered(s)
    PROVE  /\ Ordered(Tail(s)) /\ Plain(Tail(s))
           /\ Settles(Head(s), Elems(Tail(s)))
<1>1. Plain(Tail(s)) /\ Tail(s) \in Seq(S)
  BY HeadFacts DEF Ordered
<1>2. Tail(s) # <<>> => Plain(Tail(Tail(s)))
  <2>1. ASSUME Tail(s) # <<>> PROVE Elems(Tail(Tail(s))) \subseteq Elems(Tail(s))
    BY <1>1, <2>1, HeadFacts DEF HeadForm
  <2> QED BY <1>1, <2>1 DEF Plain
<1>3. Ordered(Tail(s))
  BY <1>2, AfterTail DEF Ordered
<1>4. Settles(Head(s), Elems(Tail(s)))
  BY AfterTail DEF Ordered, Settles
<1> QED BY <1>1, <1>3, <1>4

\* Two lists one after the other.
LEMMA JointFacts ==
    ASSUME NEW S, NEW s \in Seq(S), NEW t \in Seq(S)
    PROVE  /\ (s \o t) \in Seq(S) /\ Elems(s \o t) = Elems(s) \cup Elems(t)
           /\ \A a, b : /\ After(s, a, b) /\ After(t, a, b)
                        /\ \A x \in Elems(s), y \in Elems(t) : x.do # a \/ y.do # b
                        => After(s \o t, a, b)
<1>1. /\ (s \o t) \in Seq(S) /\ DOMAIN (s \o t) = 1..(Len(s) + Len(t)) /\ Len(s) \in Nat /\ Len(t) \in Nat
      /\ DOMAIN s = 1..Len(s) /\ DOMAIN t = 1..Len(t)
      /\ \A i \in 1..Len(s) : (s \o t)[i] = s[i]
      /\ \A i \in 1..Len(t) : (s \o t)[Len(s) + i] = t[i]
  OBVIOUS
<1> DEFINE q == s \o t
<1>2. \A i \in DOMAIN q : \/ i \in DOMAIN s /\ q[i] = s[i]
                          \/ i - Len(s) \in DOMAIN t /\ q[i] = t[i - Len(s)] /\ i \notin DOMAIN s
  <2> SUFFICES ASSUME NEW i \in DOMAIN q
               PROVE  \/ i \in DOMAIN s /\ q[i] = s[i]
                      \/ i - Len(s) \in DOMAIN t /\ q[i] = t[i - Len(s)] /\ i \notin DOMAIN s
    OBVIOUS
  <2>1. CASE i <= Len(s)
    BY <1>1, <2>1
  <2>2. CASE i > Len(s)
    <3>1. i - Len(s) \in 1..Len(t) /\ Len(s) + (i - Len(s)) = i
      BY <1>1, <2>2
    <3> QED BY <1>1, <2>2, <3>1
  <2> QED BY <1>1, <2>1, <2>2
<1>3. Elems(q) = Elems(s) \cup Elems(t)
  <2>1. Elems(q) \subseteq Elems(s) \cup Elems(t)
    BY <1>2 DEF Elems
  <2>2. \A i \in DOMAIN s : s[i] \in Elems(q)
    BY <1>1 DEF Elems
  <2>3. ASSUME NEW i \in DOMAIN t PROVE t[i] \in Elems(q)
    <3>1. Len(s) + i \in DOMAIN q /\ q[Len(s) + i] = t[i]
      BY <1>1
    <3> QED BY <3>1 DEF Elems
  <2> QED BY <2>1, <2>2, <2>3 DEF Elems
<1>4. ASSUME NEW a, NEW b, After(s, a, b), After(t, a, b), \A x \in Elems(s), y \in Elems(t) : x.do # a \/ y.do # b
      PROVE  After(q, a, b)
  <2> SUFFICES ASSUME NEW i \in DOMAIN q, NEW k \in DOMAIN q, i < k, q[i].do = a, q[k].do = b
               PROVE  q[i].of # q[k].of
    BY DEF After
  <2>1. CASE i \in DOMAIN s /\ k \in DOMAIN s
    BY <1>2, <1>4, <2>1 DEF After
  <2>2. CASE i \notin DOMAIN s /\ k \notin DOMAIN s
    <3>1. i - Len(s) \in DOMAIN t /\ k - Len(s) \in DOMAIN t /\ i - Len(s) < k - Len(s)
      BY <1>1, <1>2, <2>2
    <3> QED BY <1>2, <1>4, <2>2, <3>1 DEF After
  <2>3. CASE i \in DOMAIN s /\ k \notin DOMAIN s
    BY <1>2, <1>4, <2>3 DEF Elems
  <2>4. ~(i \notin DOMAIN s /\ k \in DOMAIN s)
    BY <1>1
  <2> QED BY <2>1, <2>2, <2>3, <2>4
<1> QED BY <1>1, <1>3, <1>4

\* The steps of a join, and of the removal of accounts and of communities.
JoinSteps(R, s) ==
    {Ring(R)!Step(d, s) : d \in {"bind", "teardown", "key", "list", "active", "last", "data", "enrolled", "publish", "reconnect"}}
        \cup {Ring(R)!Step(d, R.Home[s]) : d \in {"comm", "cid"}}
SlotDo == {"unlist", "unkey", "repoint", "undata", "unlast"}
CommDo == {"uncomm", "uncid", "unlastc"}
SlotSteps(R, S) == {Ring(R)!Step(d, x) : d \in SlotDo, x \in S}
CommSteps(R, C) == {Ring(R)!Step(d, c) : d \in CommDo, c \in C}

LEMMA JoiningForm ==
    ASSUME NEW R, NEW J, NEW s \in J, R.Home[s] \in R.Community
    PROVE  /\ Ring(R)!Joining(s) \in Seq(JoinOf(R, J)) /\ Elems(Ring(R)!Joining(s)) = JoinSteps(R, s) /\ Ordered(Ring(R)!Joining(s))
           /\ Ring(R)!Joining(s) # <<>> /\ Ring(R)!Joining(s)[Len(Ring(R)!Joining(s))] = Ring(R)!Step("reconnect", s)
           /\ \A i \in DOMAIN Ring(R)!Joining(s) : Ring(R)!Joining(s)[i].do = "reconnect" => i = Len(Ring(R)!Joining(s))
<1> DEFINE q == Ring(R)!Joining(s)
<1>1. /\ DOMAIN q = 1..12 /\ Len(q) = 12 /\ q[1] = Ring(R)!Step("bind", s) /\ q[2] = Ring(R)!Step("teardown", s) /\ q[3] = Ring(R)!Step("key", s)
      /\ q[4] = Ring(R)!Step("list", s) /\ q[5] = Ring(R)!Step("active", s) /\ q[6] = Ring(R)!Step("last", s) /\ q[7] = Ring(R)!Step("comm", R.Home[s])
      /\ q[8] = Ring(R)!Step("cid", R.Home[s]) /\ q[9] = Ring(R)!Step("data", s) /\ q[10] = Ring(R)!Step("enrolled", s)
      /\ q[11] = Ring(R)!Step("publish", s) /\ q[12] = Ring(R)!Step("reconnect", s)
  BY DEF Ring!Joining
<1>2. 1..12 = {1, 2, 3, 4, 5, 6, 7, 8, 9, 10, 11, 12}
  OBVIOUS
<1>3. \A i \in 1..12 : q[i] \in JoinOf(R, J)
  BY <1>1, <1>2 DEF JoinOf, JoinDo, Ring!Step
<1>4. q \in Seq(JoinOf(R, J))
  <2>1. \A d \in JoinDo : Ring(R)!Step(d, s) \in JoinOf(R, J)
    BY DEF JoinOf, Ring!Step
  <2>2. \A d \in {"comm", "cid"} : Ring(R)!Step(d, R.Home[s]) \in JoinOf(R, J)
    BY DEF JoinOf, Ring!Step
  <2> QED BY <2>1, <2>2 DEF Ring!Joining, JoinDo
<1>5. Elems(q) = JoinSteps(R, s)
  <2>1. Elems(q) \subseteq JoinSteps(R, s)
    BY <1>1, <1>2 DEF Elems, JoinSteps
  <2>2. JoinSteps(R, s) \subseteq Elems(q)
    <3>1. \A i \in 1..12 : q[i] \in Elems(q)
      BY <1>1 DEF Elems
    <3>2. {q[1], q[2], q[3], q[4], q[5], q[6], q[7], q[8], q[9], q[10], q[11], q[12]} \subseteq Elems(q)
      BY <3>1, <1>2
    <3> QED BY <1>1, <3>2 DEF JoinSteps
  <2> QED BY <2>1, <2>2
<1>6. /\ \A i \in 1..12 : q[i].do = "reconnect" => i = 12
      /\ \A i \in 1..12 : q[i].do = "enrolled" => i = 10
      /\ \A i \in 1..12 : q[i].do \in {"key", "list", "data"} => i < 10
      /\ \A i \in 1..12 : q[i].do \notin {"repoint", "uncid", "away", "drop", "settle"}
  BY <1>1, <1>2 DEF Ring!Step
<1>7. Ordered(q)
  <2>1. After(q, "repoint", "unlist") /\ After(q, "uncid", "uncomm")
    BY <1>1, <1>6 DEF After
  <2>2. After(q, "enrolled", "key") /\ After(q, "enrolled", "list") /\ After(q, "enrolled", "data")
    BY <1>1, <1>6 DEF After
  <2>3. q # <<>> => Elems(Tail(q)) \subseteq Elems(q)
    BY <1>4, HeadFacts DEF HeadForm
  <2>4. Plain(q)
    BY <1>1, <1>6 DEF Plain, Elems, Leads
  <2> QED BY <2>1, <2>2, <2>3, <2>4 DEF Ordered, Plain
<1>8. q # <<>>
  BY DEF Ring!Joining
<1> QED BY <1>1, <1>4, <1>5, <1>6, <1>7, <1>8

\* A part of a removal.
Part(q, S, P) ==
    /\ q \in Seq(S) /\ Elems(q) = P /\ After(q, "repoint", "unlist") /\ After(q, "uncid", "uncomm")
    /\ \A t \in P : t.do \in SlotDo \cup CommDo

LEMMA PartsJoin ==
    ASSUME NEW S, NEW p, NEW q, NEW P, NEW Q, Part(p, S, P), Part(q, S, Q),
           \A x \in P, y \in Q : x.do # "repoint" \/ y.do # "unlist",
           \A x \in P, y \in Q : x.do # "uncid" \/ y.do # "uncomm"
    PROVE  Part(p \o q, S, P \cup Q)
  BY JointFacts DEF Part

LEMMA RemoveSlotForm ==
    ASSUME NEW R, NEW J, NEW x \in J
    PROVE  Part(Ring(R)!RemoveSlot(x), LeaveOf(R, J), SlotSteps(R, {x}))
<1> DEFINE q == Ring(R)!RemoveSlot(x)
<1>1. /\ DOMAIN q = 1..5 /\ q[1] = Ring(R)!Step("unlist", x) /\ q[2] = Ring(R)!Step("unkey", x) /\ q[3] = Ring(R)!Step("repoint", x)
      /\ q[4] = Ring(R)!Step("undata", x) /\ q[5] = Ring(R)!Step("unlast", x)
  BY DEF Ring!RemoveSlot
<1>2. 1..5 = {1, 2, 3, 4, 5}
  OBVIOUS
<1>3. q \in Seq(LeaveOf(R, J))
  <2>1. \A d \in LeaveDo : Ring(R)!Step(d, x) \in LeaveOf(R, J)
    BY DEF LeaveOf, Ring!Step
  <2> QED BY <2>1 DEF Ring!RemoveSlot, LeaveDo
<1>4. Elems(q) = SlotSteps(R, {x})
  <2>1. Elems(q) \subseteq SlotSteps(R, {x})
    BY <1>1, <1>2 DEF Elems, SlotSteps, SlotDo
  <2>2. SlotSteps(R, {x}) \subseteq Elems(q)
    <3>1. {q[1], q[2], q[3], q[4], q[5]} \subseteq Elems(q)
      BY <1>1 DEF Elems
    <3> QED BY <1>1, <3>1 DEF SlotSteps, SlotDo
  <2> QED BY <2>1, <2>2
<1>5. After(q, "repoint", "unlist") /\ After(q, "uncid", "uncomm")
  <2>1. \A i \in 1..5 : (q[i].do = "repoint" => i = 3) /\ (q[i].do = "unlist" => i = 1) /\ q[i].do # "uncid"
    BY <1>1, <1>2 DEF Ring!Step
  <2> QED BY <1>1, <2>1 DEF After
<1>6. \A t \in SlotSteps(R, {x}) : t.do \in SlotDo \cup CommDo
  BY DEF SlotSteps, Ring!Step
<1> QED BY <1>3, <1>4, <1>5, <1>6 DEF Part

LEMMA RemoveCommForm ==
    ASSUME NEW R, NEW J, NEW c \in R.Community
    PROVE  Part(Ring(R)!RemoveComm(c), LeaveOf(R, J), CommSteps(R, {c}))
<1> DEFINE q == Ring(R)!RemoveComm(c)
<1>1. DOMAIN q = 1..3 /\ q[1] = Ring(R)!Step("uncomm", c) /\ q[2] = Ring(R)!Step("uncid", c) /\ q[3] = Ring(R)!Step("unlastc", c)
  BY DEF Ring!RemoveComm
<1>2. 1..3 = {1, 2, 3}
  OBVIOUS
<1>3. q \in Seq(LeaveOf(R, J))
  <2>1. \A d \in {"uncomm", "uncid", "unlastc"} : Ring(R)!Step(d, c) \in LeaveOf(R, J)
    BY DEF LeaveOf, Ring!Step
  <2> QED BY <2>1 DEF Ring!RemoveComm
<1>4. Elems(q) = CommSteps(R, {c})
  <2>1. Elems(q) \subseteq CommSteps(R, {c})
    BY <1>1, <1>2 DEF Elems, CommSteps, CommDo
  <2>2. CommSteps(R, {c}) \subseteq Elems(q)
    <3>1. {q[1], q[2], q[3]} \subseteq Elems(q)
      BY <1>1 DEF Elems
    <3> QED BY <1>1, <3>1 DEF CommSteps, CommDo
  <2> QED BY <2>1, <2>2
<1>5. After(q, "repoint", "unlist") /\ After(q, "uncid", "uncomm")
  <2>1. \A i \in 1..3 : (q[i].do = "uncid" => i = 2) /\ (q[i].do = "uncomm" => i = 1) /\ q[i].do # "repoint"
    BY <1>1, <1>2 DEF Ring!Step
  <2> QED BY <1>1, <2>1 DEF After
<1>6. \A t \in CommSteps(R, {c}) : t.do \in SlotDo \cup CommDo
  BY DEF CommSteps, Ring!Step
<1> QED BY <1>3, <1>4, <1>5, <1>6 DEF Part

LEMMA FiveFacts ==
    ASSUME NEW n \in Nat, NEW i \in 1..(5 * n)
    PROVE  /\ ((i - 1) \div 5) + 1 \in 1..n /\ ((i - 1) % 5) + 1 \in 1..5
           /\ i = 5 * ((i - 1) \div 5) + ((i - 1) % 5) + 1
<1>1. i - 1 \in Nat /\ (i - 1) \div 5 \in Nat /\ (i - 1) % 5 \in 0..4 /\ i - 1 = 5 * ((i - 1) \div 5) + ((i - 1) % 5)
  OBVIOUS
<1> QED BY <1>1

LEMMA FiveBack ==
    ASSUME NEW n \in Nat, NEW k \in 1..n, NEW j \in 1..5
    PROVE  LET i == 5 * (k - 1) + j IN i \in 1..(5 * n) /\ ((i - 1) \div 5) + 1 = k /\ ((i - 1) % 5) + 1 = j
  OBVIOUS

LEMMA RemoveSlotsForm ==
    ASSUME NEW R, NEW J, NEW S, S \subseteq J, Ring(R)!Cardinality(S) \in Nat, NEW mine \in Ring(R)!Orders(S)
    PROVE  Part(Ring(R)!RemoveSlots(mine), LeaveOf(R, J), SlotSteps(R, S))
<1> DEFINE q == Ring(R)!RemoveSlots(mine)
           n == Ring(R)!Cardinality(S)
           at(i) == ((i - 1) \div 5) + 1
           do(i) == ((i - 1) % 5) + 1
<1>1. /\ mine \in [1..n -> S] /\ n \in Nat /\ Len(mine) = n /\ DOMAIN mine = 1..n
      /\ \A x \in S : \E i \in 1..n : mine[i] = x
      /\ \A i, k \in 1..n : mine[i] = mine[k] => i = k
  <2>1. mine \in [1..n -> S] /\ n \in Nat /\ DOMAIN mine = 1..n
    BY DEF Ring!Orders
  <2>2. mine \in Seq(S)
    BY <2>1
  <2>3. Len(mine) = n
    BY <2>1, <2>2
  <2>4. \A x \in S : \E i \in 1..n : \A k \in 1..n : mine[k] = x <=> k = i
    BY <2>1 DEF Ring!Orders
  <2> QED BY <2>1, <2>3, <2>4
<1>2. Len(Ring(R)!RemoveSlot(R.None)) = 5
  BY DEF Ring!RemoveSlot
<1>3. DOMAIN q = 1..(5 * n) /\ \A i \in 1..(5 * n) : q[i] = Ring(R)!RemoveSlot(mine[at(i)])[do(i)]
  BY <1>1, <1>2 DEF Ring!RemoveSlots
<1>4. ASSUME NEW x \in S
      PROVE  /\ DOMAIN Ring(R)!RemoveSlot(x) = 1..5
             /\ \A i \in 1..5 : /\ Ring(R)!RemoveSlot(x)[i] \in SlotSteps(R, {x}) /\ Ring(R)!RemoveSlot(x)[i].of = x
                                /\ Ring(R)!RemoveSlot(x)[i] \in LeaveOf(R, J)
                                /\ Ring(R)!RemoveSlot(x)[i].do = "repoint" => i = 3
                                /\ Ring(R)!RemoveSlot(x)[i].do = "unlist" => i = 1
                                /\ Ring(R)!RemoveSlot(x)[i].do # "uncid"
  <2>1. Part(Ring(R)!RemoveSlot(x), LeaveOf(R, J), SlotSteps(R, {x}))
    BY RemoveSlotForm
  <2>2. /\ DOMAIN Ring(R)!RemoveSlot(x) = 1..5
        /\ Ring(R)!RemoveSlot(x)[1] = Ring(R)!Step("unlist", x) /\ Ring(R)!RemoveSlot(x)[2] = Ring(R)!Step("unkey", x)
        /\ Ring(R)!RemoveSlot(x)[3] = Ring(R)!Step("repoint", x) /\ Ring(R)!RemoveSlot(x)[4] = Ring(R)!Step("undata", x)
        /\ Ring(R)!RemoveSlot(x)[5] = Ring(R)!Step("unlast", x)
    BY DEF Ring!RemoveSlot
  <2>3. \A i \in 1..5 : Ring(R)!RemoveSlot(x)[i] \in SlotSteps(R, {x}) /\ Ring(R)!RemoveSlot(x)[i] \in LeaveOf(R, J)
    <3>1. Ring(R)!RemoveSlot(x) \in Seq(LeaveOf(R, J)) /\ Elems(Ring(R)!RemoveSlot(x)) = SlotSteps(R, {x})
      BY <2>1 DEF Part
    <3>2. \A i \in 1..5 : Ring(R)!RemoveSlot(x)[i] \in Elems(Ring(R)!RemoveSlot(x))
      BY <2>2 DEF Elems
    <3>3. \A i \in DOMAIN Ring(R)!RemoveSlot(x) : Ring(R)!RemoveSlot(x)[i] \in LeaveOf(R, J)
      BY <3>1
    <3> QED BY <2>2, <3>1, <3>2, <3>3
  <2>4. 1..5 = {1, 2, 3, 4, 5}
    OBVIOUS
  <2> QED BY <2>2, <2>3, <2>4 DEF Ring!Step
<1>5. ASSUME NEW i \in 1..(5 * n)
      PROVE  /\ at(i) \in 1..n /\ do(i) \in 1..5 /\ mine[at(i)] \in S /\ i = 5 * (at(i) - 1) + do(i)
             /\ q[i] \in LeaveOf(R, J) /\ q[i].of = mine[at(i)] /\ q[i] \in SlotSteps(R, S)
             /\ q[i].do = "repoint" => do(i) = 3
             /\ q[i].do = "unlist" => do(i) = 1
             /\ q[i].do # "uncid"
  <2>1. at(i) \in 1..n /\ do(i) \in 1..5 /\ i = 5 * (at(i) - 1) + do(i)
    BY FiveFacts, <1>1
  <2>2. mine[at(i)] \in S
    BY <1>1, <2>1
  <2> HIDE DEF at, do, q
  <2>3. PICK x \in S, d \in 1..5 : x = mine[at(i)] /\ d = do(i)
    BY <2>1, <2>2
  <2>4. q[i] = Ring(R)!RemoveSlot(x)[d]
    BY <1>3, <2>3
  <2>5. SlotSteps(R, {x}) \subseteq SlotSteps(R, S)
    BY DEF SlotSteps
  <2>6. /\ q[i] \in SlotSteps(R, {x}) /\ q[i].of = x /\ q[i] \in LeaveOf(R, J) /\ q[i].do # "uncid"
        /\ q[i].do = "repoint" => d = 3
        /\ q[i].do = "unlist" => d = 1
    <3>1. /\ Ring(R)!RemoveSlot(x)[d] \in SlotSteps(R, {x}) /\ Ring(R)!RemoveSlot(x)[d].of = x
          /\ Ring(R)!RemoveSlot(x)[d] \in LeaveOf(R, J)
          /\ Ring(R)!RemoveSlot(x)[d].do = "repoint" => d = 3
          /\ Ring(R)!RemoveSlot(x)[d].do = "unlist" => d = 1
          /\ Ring(R)!RemoveSlot(x)[d].do # "uncid"
      BY <1>4
    <3> QED BY <2>4, <3>1
  <2> QED BY <2>1, <2>2, <2>3, <2>5, <2>6
<1>6. ASSUME NEW x \in S, NEW d \in SlotDo PROVE Ring(R)!Step(d, x) \in Elems(q)
  <2>1. PICK k \in 1..n : mine[k] = x
    BY <1>1
  <2>2. PICK j \in 1..5 : Ring(R)!RemoveSlot(x)[j] = Ring(R)!Step(d, x)
    <3>1. /\ Ring(R)!RemoveSlot(x)[1] = Ring(R)!Step("unlist", x) /\ Ring(R)!RemoveSlot(x)[2] = Ring(R)!Step("unkey", x)
          /\ Ring(R)!RemoveSlot(x)[3] = Ring(R)!Step("repoint", x) /\ Ring(R)!RemoveSlot(x)[4] = Ring(R)!Step("undata", x)
          /\ Ring(R)!RemoveSlot(x)[5] = Ring(R)!Step("unlast", x)
      BY DEF Ring!RemoveSlot
    <3>2. 1 \in 1..5 /\ 2 \in 1..5 /\ 3 \in 1..5 /\ 4 \in 1..5 /\ 5 \in 1..5
      OBVIOUS
    <3> QED BY <3>1, <3>2 DEF SlotDo
  <2> DEFINE i == 5 * (k - 1) + j
  <2>3. i \in 1..(5 * n) /\ at(i) = k /\ do(i) = j
    BY FiveBack, <1>1
  <2>4. q[i] = Ring(R)!Step(d, x)
    BY <1>3, <2>1, <2>2, <2>3
  <2> HIDE DEF i
  <2> QED BY <1>3, <2>3, <2>4 DEF Elems
<1> HIDE DEF at, do
<1>7. Elems(q) = SlotSteps(R, S)
  <2>1. Elems(q) \subseteq SlotSteps(R, S)
    BY <1>3, <1>5 DEF Elems
  <2>2. SlotSteps(R, S) \subseteq Elems(q)
    BY <1>6 DEF SlotSteps
  <2> QED BY <2>1, <2>2
<1>8. q \in Seq(LeaveOf(R, J))
  <2>1. q \in [1..(5 * n) -> LeaveOf(R, J)]
    BY <1>3, <1>5 DEF Ring!RemoveSlots
  <2>2. 5 * n \in Nat
    BY <1>1
  <2> HIDE DEF q
  <2> QED BY <2>1, <2>2
<1>9. After(q, "repoint", "unlist") /\ After(q, "uncid", "uncomm")
  <2>1. ASSUME NEW i \in DOMAIN q, NEW k \in DOMAIN q, i < k, q[i].do = "repoint", q[k].do = "unlist"
        PROVE  q[i].of # q[k].of
    <3>1. /\ at(i) \in 1..n /\ at(k) \in 1..n /\ do(i) = 3 /\ do(k) = 1
          /\ i = 5 * (at(i) - 1) + do(i) /\ k = 5 * (at(k) - 1) + do(k)
          /\ q[i].of = mine[at(i)] /\ q[k].of = mine[at(k)]
      BY <1>3, <1>5, <2>1
    <3>2. at(i) # at(k)
      BY <2>1, <3>1
    <3> QED BY <1>1, <3>1, <3>2
  <2>2. \A i \in DOMAIN q : q[i].do # "uncid"
    BY <1>3, <1>5
  <2> QED BY <2>1, <2>2 DEF After
<1>10. \A t \in SlotSteps(R, S) : t.do \in SlotDo \cup CommDo
  BY DEF SlotSteps, Ring!Step
<1> QED BY <1>7, <1>8, <1>9, <1>10 DEF Part

\* A whole removal: the step away from what is removed, if there is one, and the rest.
Formed(q, S, A, P) ==
    /\ q \in Seq(S) /\ Elems(q) = A \cup P /\ Ordered(q)
    /\ A = {} => Plain(q)
    /\ A # {} => q # <<>> /\ A = {Head(q)} /\ Head(q).do \in Leads
    /\ \A t \in P : t.do \in SlotDo \cup CommDo

LEMMA Regroup ==
    ASSUME NEW S, NEW p \in Seq(S), NEW q \in Seq(S), NEW r \in Seq(S)
    PROVE  (p \o q) \o r = p \o (q \o r)
  OBVIOUS

LEMMA PlainOrdered ==
    ASSUME NEW S, NEW p, NEW P, Part(p, S, P)
    PROVE  Ordered(p) /\ Plain(p)
<1>1. Plain(p)
  BY DEF Part, Plain, Leads, SlotDo, CommDo
<1>2. \A i \in DOMAIN p : p[i].do # "enrolled"
  BY DEF Part, Elems, SlotDo, CommDo
<1>3. After(p, "enrolled", "key") /\ After(p, "enrolled", "list") /\ After(p, "enrolled", "data")
  BY <1>2 DEF After
<1>4. p # <<>> => Elems(Tail(p)) \subseteq Elems(p)
  BY HeadFacts DEF HeadForm, Part
<1> QED BY <1>1, <1>3, <1>4 DEF Ordered, Part, Plain

LEMMA LedForm ==
    ASSUME NEW S, NEW p, NEW P, Part(p, S, P), NEW t \in S, t.do \in Leads
    PROVE  Formed(<<t>> \o p, S, {t}, P)
<1> DEFINE h == <<t>>
           q == h \o p
<1>1. h \in Seq(S) /\ Elems(h) = {t} /\ p \in Seq(S) /\ Elems(p) = P
  BY DEF Part, Elems
<1>2. q \in Seq(S) /\ q # <<>> /\ Head(q) = t /\ Tail(q) = p
  BY <1>1
<1>3. Elems(q) = {t} \cup P
  <2> HIDE DEF h
  <2>1. Elems(h \o p) = Elems(h) \cup Elems(p)
    BY <1>1, JointFacts
  <2> QED BY <1>1, <2>1
<1>4. \A a, b : After(h, a, b)
  <2>1. DOMAIN h = {1}
    OBVIOUS
  <2> QED BY <2>1 DEF After
<1>5. Ordered(p) /\ Plain(p)
  BY PlainOrdered
<1>6. \A x \in Elems(h) : x.do \notin {"repoint", "uncid", "enrolled"}
  BY <1>1 DEF Leads
<1>7. \A a \in {"repoint", "uncid", "enrolled"} : \A b : After(p, a, b) => After(q, a, b)
  BY <1>1, <1>4, <1>6, JointFacts
<1>8. Ordered(q)
  <2>1. After(q, "repoint", "unlist") /\ After(q, "uncid", "uncomm")
    BY <1>5, <1>7 DEF Ordered
  <2>2. After(q, "enrolled", "key") /\ After(q, "enrolled", "list") /\ After(q, "enrolled", "data")
    BY <1>5, <1>7 DEF Ordered
  <2> QED BY <1>2, <1>5, <2>1, <2>2 DEF Ordered
<1> QED BY <1>2, <1>3, <1>8 DEF Formed, Part

\* The step away.
Lead(R, s) == IF s = R.None THEN Ring(R)!Step("drop", R.None) ELSE Ring(R)!Step("away", s)

LEMMA AwayForm ==
    ASSUME NEW R, NEW J, NEW next \in J \cup {R.None}
    PROVE  Ring(R)!Away(next) \in Seq(LeaveOf(R, J)) /\ <<>> \in Seq(LeaveOf(R, J))
<1>1. Lead(R, next) \in LeaveOf(R, J)
  BY DEF Lead, LeaveOf, LeaveDo, Ring!Step
<1>2. Ring(R)!Away(next) = <<Lead(R, next)>>
  BY DEF Ring!Away, Lead
<1> QED BY <1>1, <1>2

LEMMA RemovalForm ==
    ASSUME NEW R, NEW J, NEW p, NEW P, Part(p, LeaveOf(R, J), P), NEW next \in J \cup {R.None}, NEW first \in BOOLEAN
    PROVE  Formed((IF first THEN Ring(R)!Away(next) ELSE <<>>) \o p, LeaveOf(R, J), IF first THEN {Lead(R, next)} ELSE {}, P)
<1>1. Ring(R)!Away(next) = <<Lead(R, next)>>
  BY DEF Ring!Away, Lead
<1>2. Lead(R, next) \in LeaveOf(R, J) /\ Lead(R, next).do \in Leads
  BY DEF Lead, LeaveOf, LeaveDo, Leads, Ring!Step
<1>3. p \in Seq(LeaveOf(R, J)) /\ <<>> \o p = p /\ Elems(p) = P
  BY DEF Part
<1>4. Formed(p, LeaveOf(R, J), {}, P)
  BY <1>3, PlainOrdered DEF Formed, Part
<1>5. Formed(<<Lead(R, next)>> \o p, LeaveOf(R, J), {Lead(R, next)}, P)
  BY <1>2, LedForm
<1> QED BY <1>1, <1>3, <1>4, <1>5

LEMMA LeavingForm ==
    ASSUME NEW R, NEW J, NEW s \in J, R.Home[s] \in R.Community, NEW next \in J \cup {R.None}
    PROVE  Formed(Ring(R)!Leaving(s, next), LeaveOf(R, J), IF disk.active = s THEN {Lead(R, next)} ELSE {},
                  SlotSteps(R, {s}) \cup CommSteps(R, IF disk.list \cap Ring(R)!In(R.Home[s]) = {s} THEN {R.Home[s]} ELSE {}))
<1> DEFINE c == R.Home[s]
           final == disk.list \cap Ring(R)!In(R.Home[s]) = {s}
           tail == IF final THEN Ring(R)!RemoveComm(c) ELSE <<>>
           C == IF final THEN {c} ELSE {}
<1>1. Part(tail, LeaveOf(R, J), CommSteps(R, C))
  <2>1. Part(Ring(R)!RemoveComm(c), LeaveOf(R, J), CommSteps(R, {c}))
    BY RemoveCommForm
  <2>2. CommSteps(R, {}) = {}
    BY DEF CommSteps
  <2>3. Part(<<>>, LeaveOf(R, J), {})
    <3>1. Elems(<<>>) = {} /\ <<>> \in Seq(LeaveOf(R, J)) /\ DOMAIN <<>> = {}
      BY DEF Elems
    <3> QED BY <3>1 DEF Part, After
  <2> QED BY <2>1, <2>2, <2>3
<1>2. Part(Ring(R)!RemoveSlot(s), LeaveOf(R, J), SlotSteps(R, {s}))
  BY RemoveSlotForm
<1>3. Part(Ring(R)!RemoveSlot(s) \o tail, LeaveOf(R, J), SlotSteps(R, {s}) \cup CommSteps(R, C))
  <2>1. \A x \in SlotSteps(R, {s}) : x.do \in SlotDo
    BY DEF SlotSteps, Ring!Step
  <2>2. \A y \in CommSteps(R, C) : y.do \in CommDo
    BY DEF CommSteps, Ring!Step
  <2>3. /\ \A x \in SlotSteps(R, {s}), y \in CommSteps(R, C) : x.do # "repoint" \/ y.do # "unlist"
        /\ \A x \in SlotSteps(R, {s}), y \in CommSteps(R, C) : x.do # "uncid" \/ y.do # "uncomm"
    BY <2>1, <2>2 DEF SlotDo, CommDo
  <2> HIDE DEF tail, C
  <2> QED BY <1>1, <1>2, <2>3, PartsJoin
<1> DEFINE first == disk.active = s
           head == IF first THEN Ring(R)!Away(next) ELSE <<>>
<1>4. Formed(head \o (Ring(R)!RemoveSlot(s) \o tail), LeaveOf(R, J), IF first THEN {Lead(R, next)} ELSE {},
             SlotSteps(R, {s}) \cup CommSteps(R, C))
  BY <1>3, RemovalForm
<1>5. (head \o Ring(R)!RemoveSlot(s)) \o tail = head \o (Ring(R)!RemoveSlot(s) \o tail)
  <2>1. head \in Seq(LeaveOf(R, J))
    BY AwayForm
  <2>2. tail \in Seq(LeaveOf(R, J)) /\ Ring(R)!RemoveSlot(s) \in Seq(LeaveOf(R, J))
    BY <1>1, <1>2 DEF Part
  <2> HIDE DEF head, tail
  <2> QED BY <2>1, <2>2, Regroup
<1>6. Ring(R)!Leaving(s, next) = (head \o Ring(R)!RemoveSlot(s)) \o tail
  BY DEF Ring!Leaving
<1> QED BY <1>4, <1>5, <1>6

LEMMA QuittingForm ==
    ASSUME NEW R, NEW J, NEW c \in R.Community, NEW next \in J \cup {R.None}, NEW S, S \subseteq J, Ring(R)!Cardinality(S) \in Nat,
           NEW mine \in Ring(R)!Orders(S)
    PROVE  Formed(Ring(R)!Quitting(c, next, mine), LeaveOf(R, J), IF disk.cid = c THEN {Lead(R, next)} ELSE {},
                  SlotSteps(R, S) \cup CommSteps(R, {c}))
<1> DEFINE tail == Ring(R)!RemoveSlots(mine)
<1>1. Part(tail, LeaveOf(R, J), SlotSteps(R, S))
  BY RemoveSlotsForm
<1>2. Part(Ring(R)!RemoveComm(c), LeaveOf(R, J), CommSteps(R, {c}))
  BY RemoveCommForm
<1>3. Part(Ring(R)!RemoveComm(c) \o tail, LeaveOf(R, J), CommSteps(R, {c}) \cup SlotSteps(R, S))
  <2>1. \A x \in SlotSteps(R, S) : x.do \in SlotDo
    BY DEF SlotSteps, Ring!Step
  <2>2. \A y \in CommSteps(R, {c}) : y.do \in CommDo
    BY DEF CommSteps, Ring!Step
  <2>3. /\ \A x \in CommSteps(R, {c}), y \in SlotSteps(R, S) : x.do # "repoint" \/ y.do # "unlist"
        /\ \A x \in CommSteps(R, {c}), y \in SlotSteps(R, S) : x.do # "uncid" \/ y.do # "uncomm"
    BY <2>1, <2>2 DEF SlotDo, CommDo
  <2> HIDE DEF tail
  <2> QED BY <1>1, <1>2, <2>3, PartsJoin
<1> DEFINE first == disk.cid = c
           head == IF first THEN Ring(R)!Away(next) ELSE <<>>
<1>4. Formed(head \o (Ring(R)!RemoveComm(c) \o tail), LeaveOf(R, J), IF first THEN {Lead(R, next)} ELSE {},
             CommSteps(R, {c}) \cup SlotSteps(R, S))
  BY <1>3, RemovalForm
<1>5. (head \o Ring(R)!RemoveComm(c)) \o tail = head \o (Ring(R)!RemoveComm(c) \o tail)
  <2>1. head \in Seq(LeaveOf(R, J))
    BY AwayForm
  <2>2. tail \in Seq(LeaveOf(R, J)) /\ Ring(R)!RemoveComm(c) \in Seq(LeaveOf(R, J))
    BY <1>1, <1>2 DEF Part
  <2> HIDE DEF head, tail
  <2> QED BY <2>1, <2>2, Regroup
<1>6. Ring(R)!Quitting(c, next, mine) = (head \o Ring(R)!RemoveComm(c)) \o tail
  BY DEF Ring!Quitting
<1>7. CommSteps(R, {c}) \cup SlotSteps(R, S) = SlotSteps(R, S) \cup CommSteps(R, {c})
  OBVIOUS
<1> QED BY <1>4, <1>5, <1>6, <1>7

\* What a write of t does to the disk d: it leaves e.
Added(was, t, x, add, rem) == (was \cup {y \in {x} : t.do = add}) \ {y \in {x} : t.do = rem}
Wrote(R, d, t, e, J) ==
    /\ e \in DiskOf(R, J)
    /\ e.list = Added(d.list, t, t.of, "list", "unlist")
    /\ e.key = Added(d.key, t, t.of, "key", "unkey")
    /\ e.data = Added(d.data, t, t.of, "data", "undata")
    /\ e.comms = Added(d.comms, t, t.of, "comm", "uncomm")
    /\ t.do = "active" => e.active = t.of
    /\ t.do = "repoint" => e.active \in Ring(R)!Fallback(d.active, t.of, d.list)
    /\ t.do \notin {"active", "repoint"} => e.active = d.active
    /\ t.do = "cid" => e.cid = t.of
    /\ t.do = "uncid" => e.cid \in Ring(R)!Fallback(d.cid, t.of, d.comms)
    /\ t.do \notin {"cid", "uncid"} => e.cid = d.cid
    /\ e.bind = IF t.do = "bind" THEN t.of ELSE d.bind
    /\ \A c \in R.Community : \/ e.last[c] = d.last[c] /\ (t.do = "unlast" => d.last[c] # t.of)
                              \/ e.last[c] = R.None
                              \/ t.do = "last" /\ e.last[c] = t.of

LEMMA WriteFacts ==
    ASSUME NEW R, NEW J, J \subseteq R.Slot, Ring(R)!AccountsAssumption, NEW d \in DiskOf(R, J),
           NEW t \in JoinOf(R, J) \cup LeaveOf(R, J) \cup SwitchOf(R, J), NEW e \in Ring(R)!Written(d, t)
    PROVE  Wrote(R, d, t, e, J)
<1>1. t.do \in JoinDo \cup LeaveDo \cup SwitchDo => t.of \in J
  BY DEF JoinOf, LeaveOf, SwitchOf, JoinDo, LeaveDo, SwitchDo
<1>2. t.do \in {"comm", "cid", "uncomm", "uncid", "unlastc"} => t.of \in R.Community
  BY DEF JoinOf, LeaveOf, SwitchOf, JoinDo, LeaveDo, SwitchDo
<1>3. /\ d.list \subseteq J /\ d.key \subseteq J /\ d.data \subseteq J /\ d.comms \subseteq R.Community
      /\ d.active \in J \cup {R.None} /\ d.cid \in R.Community \cup {R.None} /\ d.bind \in J \cup {R.None}
      /\ d.last \in [R.Community -> J \cup {R.None}]
  BY DEF DiskOf
<1>4. CASE t.do = "bind"
  <2>1. e = [d EXCEPT !.bind = t.of]
    BY <1>4 DEF Ring!Written
  <2>2. t.of \in J
    BY <1>4, <1>1, <1>2 DEF JoinDo, LeaveDo
  <2> QED BY <1>4, <1>3, <2>1, <2>2 DEF Wrote, Added, DiskOf
<1>5. CASE t.do = "key"
  <2>1. e = [d EXCEPT !.key = d.key \cup {t.of}]
    BY <1>5 DEF Ring!Written
  <2>2. t.of \in J
    BY <1>5, <1>1, <1>2 DEF JoinDo, LeaveDo
  <2> QED BY <1>5, <1>3, <2>1, <2>2 DEF Wrote, Added, DiskOf
<1>6. CASE t.do = "list"
  <2>1. e = [d EXCEPT !.list = d.list \cup {t.of}]
    BY <1>6 DEF Ring!Written
  <2>2. t.of \in J
    BY <1>6, <1>1, <1>2 DEF JoinDo, LeaveDo
  <2> QED BY <1>6, <1>3, <2>1, <2>2 DEF Wrote, Added, DiskOf
<1>7. CASE t.do = "active"
  <2>1. e = [d EXCEPT !.active = t.of]
    BY <1>7 DEF Ring!Written
  <2>2. t.of \in J
    BY <1>7, <1>1, <1>2 DEF JoinDo, LeaveDo
  <2> QED BY <1>7, <1>3, <2>1, <2>2 DEF Wrote, Added, DiskOf
<1>8. CASE t.do = "last"
  <2>1. e = [d EXCEPT !.last = [d.last EXCEPT ![R.Home[t.of]] = t.of]]
    BY <1>8 DEF Ring!Written
  <2>2. t.of \in J
    BY <1>8, <1>1, <1>2 DEF JoinDo, LeaveDo
  <2>3. e.last \in [R.Community -> J \cup {R.None}]
    BY <1>3, <2>1, <2>2 DEF Ring!AccountsAssumption, DiskOf
  <2> QED BY <1>8, <1>3, <2>1, <2>2, <2>3 DEF Wrote, Added, DiskOf, Ring!AccountsAssumption
<1>9. CASE t.do = "comm"
  <2>1. e = [d EXCEPT !.comms = d.comms \cup {t.of}]
    BY <1>9 DEF Ring!Written
  <2>2. t.of \in R.Community
    BY <1>9, <1>1, <1>2 DEF JoinDo, LeaveDo
  <2> QED BY <1>9, <1>3, <2>1, <2>2 DEF Wrote, Added, DiskOf
<1>10. CASE t.do = "cid"
  <2>1. e = [d EXCEPT !.cid = t.of]
    BY <1>10 DEF Ring!Written
  <2>2. t.of \in R.Community
    BY <1>10, <1>1, <1>2 DEF JoinDo, LeaveDo
  <2> QED BY <1>10, <1>3, <2>1, <2>2 DEF Wrote, Added, DiskOf
<1>11. CASE t.do = "data"
  <2>1. e = [d EXCEPT !.data = d.data \cup {t.of}]
    BY <1>11 DEF Ring!Written
  <2>2. t.of \in J
    BY <1>11, <1>1, <1>2 DEF JoinDo, LeaveDo
  <2> QED BY <1>11, <1>3, <2>1, <2>2 DEF Wrote, Added, DiskOf
<1>12. CASE t.do = "unlist"
  <2>1. e = [d EXCEPT !.list = d.list \ {t.of}]
    BY <1>12 DEF Ring!Written
  <2>2. t.of \in J
    BY <1>12, <1>1, <1>2 DEF JoinDo, LeaveDo
  <2> QED BY <1>12, <1>3, <2>1, <2>2 DEF Wrote, Added, DiskOf
<1>13. CASE t.do = "unkey"
  <2>1. e = [d EXCEPT !.key = d.key \ {t.of}]
    BY <1>13 DEF Ring!Written
  <2>2. t.of \in J
    BY <1>13, <1>1, <1>2 DEF JoinDo, LeaveDo
  <2> QED BY <1>13, <1>3, <2>1, <2>2 DEF Wrote, Added, DiskOf
<1>14. CASE t.do = "repoint"
  <2>1. PICK a \in Ring(R)!Fallback(d.active, t.of, d.list) : e = [d EXCEPT !.active = a]
    BY <1>14 DEF Ring!Written
  <2>2. a \in J \cup {R.None}
    BY <1>3, <2>1 DEF Ring!Fallback
  <2> QED BY <1>14, <1>3, <2>1, <2>2 DEF Wrote, Added, DiskOf
<1>15. CASE t.do = "undata"
  <2>1. e = [d EXCEPT !.data = d.data \ {t.of}]
    BY <1>15 DEF Ring!Written
  <2>2. t.of \in J
    BY <1>15, <1>1, <1>2 DEF JoinDo, LeaveDo
  <2> QED BY <1>15, <1>3, <2>1, <2>2 DEF Wrote, Added, DiskOf
<1>16. CASE t.do = "unlast"
  <2>1. e = [d EXCEPT !.last = [c \in R.Community |-> IF d.last[c] = t.of THEN R.None ELSE d.last[c]]]
    BY <1>16 DEF Ring!Written
  <2>2. t.of \in J
    BY <1>16, <1>1, <1>2 DEF JoinDo, LeaveDo
  <2>3. e.last \in [R.Community -> J \cup {R.None}]
    BY <1>3, <2>1, <2>2 DEF Ring!AccountsAssumption, DiskOf
  <2> QED BY <1>16, <1>3, <2>1, <2>2, <2>3 DEF Wrote, Added, DiskOf, Ring!AccountsAssumption
<1>17. CASE t.do = "uncomm"
  <2>1. e = [d EXCEPT !.comms = d.comms \ {t.of}]
    BY <1>17 DEF Ring!Written
  <2>2. t.of \in R.Community
    BY <1>17, <1>1, <1>2 DEF JoinDo, LeaveDo
  <2> QED BY <1>17, <1>3, <2>1, <2>2 DEF Wrote, Added, DiskOf
<1>18. CASE t.do = "uncid"
  <2>1. PICK a \in Ring(R)!Fallback(d.cid, t.of, d.comms) : e = [d EXCEPT !.cid = a]
    BY <1>18 DEF Ring!Written
  <2>2. a \in R.Community \cup {R.None}
    BY <1>3, <2>1 DEF Ring!Fallback
  <2> QED BY <1>18, <1>3, <2>1, <2>2 DEF Wrote, Added, DiskOf
<1>19. CASE t.do = "unlastc"
  <2>1. e = [d EXCEPT !.last = [d.last EXCEPT ![t.of] = R.None]]
    BY <1>19 DEF Ring!Written
  <2>2. t.of \in R.Community
    BY <1>19, <1>1, <1>2 DEF JoinDo, LeaveDo
  <2>3. e.last \in [R.Community -> J \cup {R.None}]
    BY <1>3, <2>1, <2>2 DEF Ring!AccountsAssumption, DiskOf
  <2> QED BY <1>19, <1>3, <2>1, <2>2, <2>3 DEF Wrote, Added, DiskOf, Ring!AccountsAssumption
<1>20. CASE t.do \notin {"bind", "key", "list", "active", "last", "comm", "cid", "data", "unlist", "unkey", "repoint", "undata", "unlast", "uncomm", "uncid", "unlastc"}
  <2>1. e = d
    BY <1>20 DEF Ring!Written
  <2> QED BY <1>20, <1>3, <2>1 DEF Wrote, Added
<1> QED
  BY <1>4, <1>5, <1>6, <1>7, <1>8, <1>9, <1>10, <1>11, <1>12, <1>13, <1>14, <1>15, <1>16, <1>17, <1>18, <1>19, <1>20

LEMMA SwitchingForm ==
    ASSUME NEW R, NEW J, NEW s \in J, R.Home[s] \in R.Community
    PROVE  Ring(R)!Switching(s) \in Seq(SwitchOf(R, J))
<1>1. \A d \in SwitchDo : Ring(R)!Step(d, s) \in SwitchOf(R, J)
  BY DEF SwitchOf, Ring!Step
<1>2. Ring(R)!Step("cid", R.Home[s]) \in SwitchOf(R, J)
  BY DEF SwitchOf, Ring!Step
<1> QED BY <1>1, <1>2 DEF Ring!Switching, SwitchDo

\* The types, in the form the steps are checked against.
People(R) == joined \subseteq R.Slot /\ bound \subseteq joined /\ ready \subseteq joined /\ left \subseteq joined
Stored(R, d, J) == d \in DiskOf(R, J) /\ IsFiniteSet(d.list)
Lines(R, J) == conn \in R.Community \cup {R.None} /\ sending \in J \cup {R.None} /\ kills \in Nat /\ switches \in Nat
Work2(R, J, q) == q \in Seq(JoinOf(R, J)) \cup Seq(LeaveOf(R, J))

LEMMA RingParts ==
    ASSUME NEW R
    PROVE  RingTyped(R) <=> /\ People(R) /\ Stored(R, disk, joined) /\ mem \in MemOf(R, joined) /\ Lines(R, joined)
                            /\ Work2(R, joined, op) /\ sw \in Seq(SwitchOf(R, joined))
  BY DEF RingTyped, People, Stored, Lines, Work2

LEMMA RingInit ==
    ASSUME NEW R, Ring(R)!AccountsAssumption, Ring(R)!Init
    PROVE  RingTyped(R)
<1>1. People(R)
  BY DEF Ring!Init, People
<1>2. Stored(R, disk, joined)
  BY FS_EmptySet DEF Ring!Init, Stored, DiskOf
<1>3. mem \in MemOf(R, joined)
  BY DEF Ring!Init, MemOf
<1>4. Lines(R, joined)
  BY DEF Ring!Init, Lines
<1>5. Work2(R, joined, op) /\ sw \in Seq(SwitchOf(R, joined))
  BY DEF Ring!Init, Work2
<1> QED BY <1>1, <1>2, <1>3, <1>4, <1>5, RingParts

LEMMA WriteTypes ==
    ASSUME NEW R, Ring(R)!AccountsAssumption, RingTyped(R), NEW t \in JoinOf(R, joined) \cup LeaveOf(R, joined) \cup SwitchOf(R, joined),
           disk' \in Ring(R)!Written(disk, t)
    PROVE  Wrote(R, disk, t, disk', joined) /\ Stored(R, disk', joined)
<1>1. PICK e \in Ring(R)!Written(disk, t) : e = disk'
  OBVIOUS
<1>2. Wrote(R, disk, t, e, joined)
  BY <1>1, WriteFacts DEF RingTyped
<1>3. IsFiniteSet(e.list)
  <2>1. IsFiniteSet(disk.list \cup {t.of}) /\ IsFiniteSet(disk.list \ {t.of}) /\ IsFiniteSet(disk.list)
    BY FS_AddElement, FS_RemoveElement DEF RingTyped
  <2>2. e.list \in {disk.list \cup {t.of}, disk.list \ {t.of}, disk.list}
    BY <1>2 DEF Wrote, Added
  <2> QED BY <2>1, <2>2
<1> QED BY <1>1, <1>2, <1>3 DEF Stored, Wrote

LEMMA OpFacts ==
    ASSUME NEW R, RingTyped(R), op # <<>>
    PROVE  /\ HeadForm(op) /\ Head(op) \in JoinOf(R, joined) \cup LeaveOf(R, joined) /\ Work2(R, joined, Tail(op))
           /\ Head(op) \in JoinOf(R, joined) => Tail(op) \in Seq(JoinOf(R, joined)) /\ op \in Seq(JoinOf(R, joined))
           /\ Head(op) \in LeaveOf(R, joined) => Tail(op) \in Seq(LeaveOf(R, joined)) /\ op \in Seq(LeaveOf(R, joined))
<1>1. ASSUME NEW S, op \in Seq(S) PROVE HeadForm(op) /\ Head(op) \in S /\ Tail(op) \in Seq(S)
  BY <1>1, HeadFacts
<1>2. \A t : ~(t \in JoinOf(R, joined) /\ t \in LeaveOf(R, joined))
  BY DEF JoinOf, LeaveOf, JoinDo, LeaveDo
<1>3. op \in Seq(JoinOf(R, joined)) \/ op \in Seq(LeaveOf(R, joined))
  BY DEF RingTyped
<1> QED BY <1>1, <1>2, <1>3 DEF Work2

LEMMA SwFacts ==
    ASSUME NEW R, RingTyped(R), sw # <<>>
    PROVE  HeadForm(sw) /\ Head(sw) \in SwitchOf(R, joined) /\ Tail(sw) \in Seq(SwitchOf(R, joined))
  BY HeadFacts DEF RingTyped

LEMMA RingCount ==
    ASSUME NEW R, NEW S
    PROVE  Ring(R)!Cardinality(S) = Cardinality(S)
  BY DEF Ring!Cardinality, Cardinality

LEMMA QuitFacts ==
    ASSUME NEW R, RingTyped(R), NEW c \in R.Community
    PROVE  Ring(R)!Cardinality(disk.list \cap Ring(R)!In(c)) \in Nat /\ disk.list \cap Ring(R)!In(c) \subseteq joined
<1>1. IsFiniteSet(disk.list \cap Ring(R)!In(c))
  BY FS_Subset DEF RingTyped
<1> QED BY <1>1, FS_CardinalityType, RingCount DEF RingTyped, DiskOf

LEMMA GrownTypes ==
    ASSUME NEW R, NEW J, NEW K, J \subseteq K
    PROVE  /\ \A d : Stored(R, d, J) => Stored(R, d, K)
           /\ \A m : m \in MemOf(R, J) => m \in MemOf(R, K)
  BY DEF Stored, DiskOf, MemOf

LEMMA RingTypedStep ==
    ASSUME NEW R, Ring(R)!AccountsAssumption, RingTyped(R), Ring(R)!Next \/ UNCHANGED Ring(R)!vars
    PROVE  RingTyped(R)'
<1>1. /\ People(R) /\ Stored(R, disk, joined) /\ mem \in MemOf(R, joined) /\ Lines(R, joined)
      /\ Work2(R, joined, op) /\ sw \in Seq(SwitchOf(R, joined))
  BY RingParts
<1>2. \A s \in joined : s \in R.Slot /\ R.Home[s] \in R.Community
  BY <1>1 DEF People, Ring!AccountsAssumption
<1> SUFFICES /\ People(R)' /\ Stored(R, disk', joined') /\ mem' \in MemOf(R, joined') /\ Lines(R, joined)'
             /\ Work2(R, joined', op') /\ sw' \in Seq(SwitchOf(R, joined'))
  BY DEF RingTyped, People, Stored, Lines, Work2
<1>3. /\ disk.list \subseteq joined /\ disk.active \in joined \cup {R.None} /\ disk.cid \in R.Community \cup {R.None}
      /\ disk.bind \in joined \cup {R.None} /\ disk.last \in [R.Community -> joined \cup {R.None}]
  BY DEF RingTyped, DiskOf
<1>4. <<>> \in Seq(JoinOf(R, joined)) /\ <<>> \in Seq(SwitchOf(R, joined))
  OBVIOUS
<1>5. CASE UNCHANGED Ring(R)!vars
  BY <1>1, <1>5 DEF Ring!vars, People, Lines
<1>6. ASSUME NEW s \in R.Slot, Ring(R)!Join(s) PROVE RingTyped(R)'
  <2>1. joined \subseteq joined' /\ s \in joined' /\ joined' \subseteq R.Slot
    BY <1>1, <1>6 DEF Ring!Join, People
  <2>2. Stored(R, disk', joined') /\ mem' \in MemOf(R, joined')
    BY <1>1, <1>6, <2>1, GrownTypes DEF Ring!Join
  <2>3. Work2(R, joined', op')
    <3>1. op' = Ring(R)!Joining(s) /\ R.Home[s] \in R.Community
      BY <1>6 DEF Ring!Join, Ring!AccountsAssumption
    <3> QED BY <2>1, <3>1, JoiningForm DEF Work2
  <2>4. sw' \in Seq(SwitchOf(R, joined'))
    BY <1>6 DEF Ring!Join, Ring!Quiet
  <2>5. People(R)' /\ Lines(R, joined)'
    BY <1>1, <1>6, <2>1 DEF Ring!Join, People, Lines
  <2> QED BY <2>2, <2>3, <2>4, <2>5 DEF RingTyped, People, Stored, Lines, Work2
<1>7. ASSUME NEW s \in R.Slot, Ring(R)!Switch(s) PROVE RingTyped(R)'
  <2>1. s \in joined
    BY <1>3, <1>7 DEF Ring!Switch
  <2>2. sw' \in Seq(SwitchOf(R, joined'))
    BY <1>2, <1>7, <2>1, SwitchingForm DEF Ring!Switch
  <2> QED BY <1>1, <1>7, <2>2 DEF Ring!Switch, RingTyped, People, Stored, Lines, Work2
<1>8. ASSUME NEW s \in R.Slot, Ring(R)!Leave(s) PROVE RingTyped(R)'
  <2>1. s \in joined /\ R.Home[s] \in R.Community
    BY <1>2, <1>3, <1>8 DEF Ring!Leave
  <2>2. PICK next \in Ring(R)!Next1(s) : op' = Ring(R)!Leaving(s, next)
    BY <1>8 DEF Ring!Leave
  <2>3. next \in joined \cup {R.None}
    BY <1>3, <2>2 DEF Ring!Next1
  <2>4. op' \in Seq(LeaveOf(R, joined))
    BY <2>1, <2>2, <2>3, LeavingForm DEF Formed
  <2> QED BY <1>1, <1>8, <2>1, <2>4 DEF Ring!Leave, RingTyped, People, Stored, Lines, Work2
<1>9. ASSUME NEW c \in R.Community, Ring(R)!Quit(c) PROVE RingTyped(R)'
  <2>1. PICK next \in joined \cup {R.None}, mine \in Ring(R)!Orders(disk.list \cap Ring(R)!In(c)) : op' = Ring(R)!Quitting(c, next, mine)
    <3>1. UNION {Ring(R)!resolveSlot(d) : d \in disk.comms \ {c}} \subseteq joined
      BY <1>3 DEF Ring!resolveSlot
    <3> QED BY <1>9, <3>1 DEF Ring!Quit
  <2>2. op' \in Seq(LeaveOf(R, joined))
    BY <2>1, QuitFacts, QuittingForm DEF Formed
  <2> QED BY <1>1, <1>3, <1>9, <2>2 DEF Ring!Quit, RingTyped, People, Stored, Lines, Work2
<1>10. CASE Ring(R)!OpWrite
  <2>1. Stored(R, disk', joined) /\ Work2(R, joined, Tail(op))
    BY <1>10, OpFacts, WriteTypes DEF Ring!OpWrite
  <2> QED BY <1>1, <1>10, <2>1 DEF Ring!OpWrite, Ring!Tied, Ring!hist, People, Lines
<1>11. CASE Ring(R)!Teardown
  <2>1. Work2(R, joined, Tail(op)) /\ Head(op).of \in joined
    BY <1>11, OpFacts DEF Ring!Teardown, JoinOf, LeaveOf, LeaveDo, JoinDo
  <2>2. mem' \in MemOf(R, joined)
    BY <1>1, <1>2, <1>11, <2>1 DEF Ring!Teardown, MemOf
  <2> QED BY <1>1, <1>11, <2>1, <2>2 DEF Ring!Teardown, Ring!Closed, Ring!hist, People, Lines
<1>12. CASE Ring(R)!Enrolled
  <2>1. Work2(R, joined, Tail(op)) /\ Head(op).of \in joined
    BY <1>12, OpFacts DEF Ring!Enrolled, JoinOf, LeaveOf, LeaveDo, JoinDo
  <2>2. mem' \in MemOf(R, joined)
    BY <1>1, <1>12 DEF Ring!Enrolled, MemOf
  <2> QED BY <1>1, <1>12, <2>1, <2>2 DEF Ring!Enrolled, Ring!Tied, Ring!hist, People, Lines
<1>13. CASE Ring(R)!Publish
  <2>1. Tail(op) \in Seq(JoinOf(R, joined)) /\ Head(op).of \in joined
    BY <1>13, OpFacts DEF Ring!Publish, JoinOf, LeaveOf, LeaveDo, JoinDo
  <2>2. Ring(R)!Step("unbind", Head(op).of) \in JoinOf(R, joined)
    BY <2>1 DEF JoinOf, JoinDo, Ring!Step
  <2>3. <<Ring(R)!Step("unbind", Head(op).of)>> \o Tail(op) \in Seq(JoinOf(R, joined))
    BY <2>1, <2>2
  <2>4. op' \in Seq(JoinOf(R, joined)) /\ bound' \subseteq joined
    BY <1>1, <1>13, <2>1, <2>3 DEF Ring!Publish, People
  <2> QED BY <1>1, <1>13, <2>4 DEF Ring!Publish, Ring!Tied, Ring!hist, People, Lines, Work2
<1>14. CASE Ring(R)!Unbind
  <2>1. Work2(R, joined, Tail(op))
    BY <1>14, OpFacts DEF Ring!Unbind
  <2>2. Stored(R, disk', joined)
    BY <1>1, <1>14 DEF Ring!Unbind, Stored, DiskOf
  <2> QED BY <1>1, <1>14, <2>1, <2>2 DEF Ring!Unbind, Ring!Tied, Ring!hist, People, Lines
<1>15. CASE Ring(R)!Reconnect
  BY <1>1, <1>15, OpFacts DEF Ring!Reconnect, Ring!Closed, Ring!hist, People, Lines
<1>16. CASE Ring(R)!Drop
  <2>1. mem' \in MemOf(R, joined)
    BY <1>16 DEF Ring!Drop, MemOf
  <2> QED BY <1>1, <1>16, <2>1, OpFacts DEF Ring!Drop, Ring!Closed, Ring!hist, People, Lines
<1>17. CASE Ring(R)!GoAway
  <2>1. Tail(op) \in Seq(LeaveOf(R, joined)) /\ Head(op).of \in joined
    BY <1>17, OpFacts DEF Ring!GoAway, JoinOf, LeaveOf, LeaveDo, JoinDo
  <2>2. Ring(R)!Step("settle", Head(op).of) \in LeaveOf(R, joined)
    BY <2>1 DEF LeaveOf, LeaveDo, Ring!Step
  <2>3. <<Ring(R)!Step("settle", Head(op).of)>> \o Tail(op) \in Seq(LeaveOf(R, joined))
    BY <2>1, <2>2
  <2>4. Ring(R)!Switching(Head(op).of) \in Seq(SwitchOf(R, joined))
    BY <1>2, <2>1, SwitchingForm
  <2>5. op' \in Seq(LeaveOf(R, joined)) /\ sw' \in Seq(SwitchOf(R, joined))
    BY <1>1, <1>17, <2>1, <2>3, <2>4 DEF Ring!GoAway
  <2> QED BY <1>1, <1>17, <2>5 DEF Ring!GoAway, Ring!Tied, Ring!hist, People, Lines, Work2
<1>18. CASE Ring(R)!Settle
  BY <1>1, <1>18, OpFacts DEF Ring!Settle, Ring!Tied, Ring!hist, People, Lines
<1>19. CASE Ring(R)!Freeze
  BY <1>1, <1>19, SwFacts DEF Ring!Freeze, Ring!Closed, Ring!hist, People, Lines
<1>20. CASE Ring(R)!SwWrite
  <2>1. Stored(R, disk', joined) /\ Tail(sw) \in Seq(SwitchOf(R, joined))
    BY <1>20, SwFacts, WriteTypes DEF Ring!SwWrite
  <2> QED BY <1>1, <1>20, <2>1 DEF Ring!SwWrite, Ring!Tied, Ring!hist, People, Lines
<1>21. CASE Ring(R)!Repointed
  <2>1. Tail(sw) \in Seq(SwitchOf(R, joined)) /\ Head(sw).of \in joined
    BY <1>21, SwFacts DEF Ring!Repointed, SwitchOf, SwitchDo
  <2>2. mem' \in MemOf(R, joined)
    BY <1>2, <1>21, <2>1 DEF Ring!Repointed, Ring!Named, MemOf
  <2> QED BY <1>1, <1>21, <2>1, <2>2 DEF Ring!Repointed, Ring!Tied, Ring!hist, People, Lines
<1>22. CASE Ring(R)!Connect
  BY <1>1, <1>3, <1>22 DEF Ring!Connect, Ring!hist, People, Lines
<1>23. CASE Ring(R)!RelayBinds
  BY <1>1, <1>23 DEF Ring!RelayBinds, Ring!hist, People, Lines
<1>24. CASE Ring(R)!Answer
  <2>1. Stored(R, disk', joined)
    BY <1>1, <1>24 DEF Ring!Answer, Stored, DiskOf
  <2> QED BY <1>1, <1>24, <2>1 DEF Ring!Answer, Ring!hist, People, Lines
<1>25. CASE Ring(R)!Disconnect
  BY <1>1, <1>25 DEF Ring!Disconnect, Ring!Closed, Ring!hist, People, Lines
<1>26. CASE Ring(R)!Kill
  <2>1. mem' \in MemOf(R, joined)
    BY <1>3, <1>26 DEF Ring!Kill, MemOf
  <2> QED BY <1>1, <1>4, <1>26, <2>1 DEF Ring!Kill, Ring!Closed, People, Lines, Work2
<1> QED
  <2>1. RingTyped(R)' => /\ People(R)' /\ Stored(R, disk', joined') /\ mem' \in MemOf(R, joined') /\ Lines(R, joined)'
                         /\ Work2(R, joined', op') /\ sw' \in Seq(SwitchOf(R, joined'))
    BY DEF RingTyped, People, Stored, Lines, Work2
  <2> QED
    BY <2>1, <1>5, <1>6, <1>7, <1>8, <1>9, <1>10, <1>11, <1>12, <1>13, <1>14, <1>15, <1>16, <1>17, <1>18, <1>19,
       <1>20, <1>21, <1>22, <1>23, <1>24, <1>25, <1>26 DEF Ring!Next, Ring!Work

----------------------------------------------------------------------------
LEMMA OrderedLed ==
    ASSUME NEW S, NEW p \in Seq(S), Ordered(p), Plain(p), NEW t \in S, t.do \notin {"repoint", "uncid", "enrolled"}
    PROVE  /\ Ordered(<<t>> \o p) /\ Elems(<<t>> \o p) = {t} \cup Elems(p)
           /\ <<t>> \o p # <<>> /\ Head(<<t>> \o p) = t /\ Tail(<<t>> \o p) = p
<1> DEFINE h == <<t>>
           q == h \o p
<1>1. h \in Seq(S) /\ Elems(h) = {t}
  BY DEF Elems
<1>2. q \in Seq(S) /\ q # <<>> /\ Head(q) = t /\ Tail(q) = p
  BY <1>1
<1>3. Elems(q) = {t} \cup Elems(p)
  <2> HIDE DEF h
  <2>1. Elems(h \o p) = Elems(h) \cup Elems(p)
    BY <1>1, JointFacts
  <2> QED BY <1>1, <2>1
<1>4. \A a, b : After(h, a, b)
  <2>1. DOMAIN h = {1}
    OBVIOUS
  <2> QED BY <2>1 DEF After
<1>5. \A a \in {"repoint", "uncid", "enrolled"} : \A b : After(p, a, b) => After(q, a, b)
  BY <1>1, <1>4, JointFacts
<1>6. Ordered(q)
  <2>1. After(q, "repoint", "unlist") /\ After(q, "uncid", "uncomm")
    BY <1>5 DEF Ordered
  <2>2. After(q, "enrolled", "key") /\ After(q, "enrolled", "list") /\ After(q, "enrolled", "data")
    BY <1>5 DEF Ordered
  <2> QED BY <1>2, <2>1, <2>2 DEF Ordered
<1> QED BY <1>2, <1>3, <1>6

\* What is still to come after the first step t: what was, but for t.
Shifts(R, t) ==
    \A d, x : /\ Due(R, d, x)' => Due(R, d, x)
              /\ Due(R, d, x) => Due(R, d, x)' \/ (d = t.do /\ x = t.of)

\* The same, when the step u takes the place of t.
Swaps(R, t, u) ==
    \A d, x : /\ Due(R, d, x)' => Due(R, d, x) \/ (d = u.do /\ x = u.of)
              /\ Due(R, d, x) => Due(R, d, x)' \/ (d = t.do /\ x = t.of)

Moves(R) ==
    /\ Ordered(op)' /\ Plain(op') /\ Due(R, Head(op).do, Head(op).of) /\ Shifts(R, Head(op))
    /\ Settles(Head(op), Elems(op'))

LEMMA StepIs ==
    ASSUME NEW R
    PROVE  /\ \A d, x : Ring(R)!Step(d, x).do = d /\ Ring(R)!Step(d, x).of = x
           /\ \A J : \A t \in JoinOf(R, J) \cup LeaveOf(R, J) \cup SwitchOf(R, J) : t = Ring(R)!Step(t.do, t.of)
  BY DEF Ring!Step, JoinOf, LeaveOf, SwitchOf

LEMMA ShiftFacts ==
    ASSUME NEW R, RingTyped(R), Ordered(op), op # <<>>, op' = Tail(op)
    PROVE  Moves(R)
<1>1. HeadForm(op) /\ Head(op) \in JoinOf(R, joined) \cup LeaveOf(R, joined)
  BY OpFacts
<1>2. Head(op) = Ring(R)!Step(Head(op).do, Head(op).of)
  BY <1>1, StepIs
<1>3. Elems(op) = {Head(op)} \cup Elems(op')
  BY <1>1 DEF HeadForm
<1>4. Due(R, Head(op).do, Head(op).of)
  BY <1>2, <1>3 DEF Due
<1>5. Shifts(R, Head(op))
  <2>1. \A d, x : Ring(R)!Step(d, x) = Head(op) => d = Head(op).do /\ x = Head(op).of
    BY StepIs
  <2> QED BY <1>3, <2>1 DEF Shifts, Due
<1>6. \E S : op \in Seq(S)
  BY DEF RingTyped
<1>7. Ordered(op)' /\ Plain(op') /\ Settles(Head(op), Elems(op'))
  BY <1>6, OrderedTail
<1> QED BY <1>4, <1>5, <1>7 DEF Moves

LEMMA SwapFacts ==
    ASSUME NEW R, RingTyped(R), Ordered(op), op # <<>>, NEW u \in JoinOf(R, joined) \cup LeaveOf(R, joined), op' = <<u>> \o Tail(op),
           u.do \notin {"repoint", "uncid", "enrolled"}, op' \in Seq(JoinOf(R, joined)) \cup Seq(LeaveOf(R, joined))
    PROVE  Ordered(op)' /\ Swaps(R, Head(op), u) /\ Head(op') = u /\ op' # <<>> /\ Tail(op') = Tail(op) /\ Due(R, u.do, u.of)'
<1>1. HeadForm(op) /\ Head(op) \in JoinOf(R, joined) \cup LeaveOf(R, joined) /\ Work2(R, joined, Tail(op))
  BY OpFacts
<1>2. \E S : op \in Seq(S)
  BY DEF RingTyped
<1>3. Ordered(Tail(op)) /\ Plain(Tail(op))
  BY <1>2, OrderedTail
<1>4. Tail(op) \in Seq(JoinOf(R, joined) \cup LeaveOf(R, joined))
  BY <1>1 DEF Work2
<1>5. Ordered(op)' /\ Elems(op') = {u} \cup Elems(Tail(op)) /\ Head(op') = u /\ op' # <<>> /\ Tail(op') = Tail(op)
  <2>1. PICK p \in Seq(JoinOf(R, joined) \cup LeaveOf(R, joined)) : p = Tail(op)
    BY <1>4
  <2>2. Ordered(p) /\ Plain(p)
    BY <1>3, <2>1
  <2>3. /\ Ordered(<<u>> \o p) /\ Elems(<<u>> \o p) = {u} \cup Elems(p)
        /\ <<u>> \o p # <<>> /\ Head(<<u>> \o p) = u /\ Tail(<<u>> \o p) = p
    BY <2>2, OrderedLed
  <2>4. op' = <<u>> \o p
    BY <2>1
  <2> QED BY <2>1, <2>3, <2>4
<1>6. Elems(op) = {Head(op)} \cup Elems(Tail(op))
  BY <1>1 DEF HeadForm
<1>7. Swaps(R, Head(op), u)
  <2>1. \A d, x : Ring(R)!Step(d, x) = Head(op) => d = Head(op).do /\ x = Head(op).of
    BY StepIs
  <2>2. \A d, x : Ring(R)!Step(d, x) = u => d = u.do /\ x = u.of
    BY StepIs
  <2> QED BY <1>5, <1>6, <2>1, <2>2 DEF Swaps, Due
<1>8. Due(R, u.do, u.of)'
  BY <1>5, StepIs DEF Due
<1> QED BY <1>5, <1>7, <1>8

\* A join holds no step of a removal, and the other way round.
LEMMA ApartFacts ==
    ASSUME NEW R, RingTyped(R)
    PROVE  /\ op \in Seq(JoinOf(R, joined)) =>
                \A d, x : Due(R, d, x) => Ring(R)!Step(d, x) \in JoinOf(R, joined)
           /\ op \in Seq(LeaveOf(R, joined)) =>
                \A d, x : Due(R, d, x) => Ring(R)!Step(d, x) \in LeaveOf(R, joined)
  BY DEF Due, Elems

LEMMA WhoFacts ==
    ASSUME NEW R, NEW J, NEW d, NEW x
    PROVE  /\ Ring(R)!Step(d, x) \in JoinOf(R, J) => d \in JoinDo \cup {"comm", "cid"}
           /\ Ring(R)!Step(d, x) \in LeaveOf(R, J) => d \in LeaveDo \cup CommDo \cup {"drop"}
  BY DEF Ring!Step, JoinOf, LeaveOf, CommDo

\* The part that the steps of a switch, the relay and the member leave alone.
LEMMA KeepCalm ==
    ASSUME NEW R, KeepInv(R), UNCHANGED <<op, joined, ready, left>>, disk'.key = disk.key, disk'.list = disk.list, disk'.data = disk.data
    PROVE  KeepInv(R)'
<1>1. Ordered(op)'
  BY DEF KeepInv
<1>2. \A d, x : Due(R, d, x)' <=> Due(R, d, x)
  BY DEF Due
<1> QED BY <1>1, <1>2 DEF KeepInv, Arriving, Ring!OwnedKept

\* A step of the join or the removal that is done and writes no key, no data and not the list.
LEMMA KeepShift ==
    ASSUME NEW R, KeepInv(R), Moves(R), UNCHANGED <<joined, ready, left>>,
           disk'.key = disk.key, disk'.list = disk.list, disk'.data = disk.data, Head(op).do \notin {"key", "list", "data"}
    PROVE  KeepInv(R)'
<1>1. /\ \A s \in joined : Due(R, "unlist", s)' \/ Due(R, "unkey", s)' \/ Due(R, "undata", s)' => s \in left
      /\ \A s \in joined : Due(R, "enrolled", s)' => Arriving(R, s)'
  BY DEF Moves, Shifts, KeepInv, Arriving
<1> QED BY <1>1 DEF KeepInv, Ring!OwnedKept, Moves

LEMMA KeepInit ==
    ASSUME NEW R, Ring(R)!Init
    PROVE  KeepInv(R)
<1>1. Elems(<<>>) = {} /\ DOMAIN <<>> = {}
  BY DEF Elems
<1>2. Ordered(op)
  BY <1>1 DEF Ring!Init, Ordered, After
<1> QED BY <1>1, <1>2 DEF Ring!Init, KeepInv, Due, Ring!OwnedKept

LEMMA KeepForm ==
    ASSUME NEW R, RingTyped(R), KeepInv(R), NEW A, NEW S, NEW C, NEW J, Formed(op', LeaveOf(R, J), A, SlotSteps(R, S) \cup CommSteps(R, C)),
           left' = left \cup S, UNCHANGED <<disk, joined, ready>>
    PROVE  KeepInv(R)'
<1>1. Ordered(op)' /\ Elems(op') = A \cup (SlotSteps(R, S) \cup CommSteps(R, C))
  BY DEF Formed
<1>2. \A t \in A : t.do \in Leads
  BY DEF Formed
<1>3. \A d, x : Due(R, d, x)' => d \in Leads \/ (d \in SlotDo /\ x \in S) \/ d \in CommDo
  <2>1. \A t \in SlotSteps(R, S) : t.do \in SlotDo /\ t.of \in S
    BY StepIs DEF SlotSteps
  <2>2. \A t \in CommSteps(R, C) : t.do \in CommDo
    BY StepIs DEF CommSteps
  <2> QED BY <1>1, <1>2, <2>1, <2>2, StepIs DEF Due
<1>4. /\ \A s \in joined' : Due(R, "unlist", s)' \/ Due(R, "unkey", s)' \/ Due(R, "undata", s)' => s \in left'
      /\ \A s \in joined' : ~Due(R, "enrolled", s)'
  BY <1>3 DEF Leads, SlotDo, CommDo
<1> QED BY <1>1, <1>4 DEF KeepInv, Ring!OwnedKept

LEMMA KeepStep ==
    ASSUME NEW R, Ring(R)!AccountsAssumption, RingTyped(R), KeepInv(R), Ring(R)!Next \/ UNCHANGED Ring(R)!vars
    PROVE  KeepInv(R)'
<1>1. \A s \in joined : s \in R.Slot /\ R.Home[s] \in R.Community
  BY DEF RingTyped, Ring!AccountsAssumption
<1>2. /\ disk.list \subseteq joined /\ disk \in DiskOf(R, joined)
  BY DEF RingTyped, DiskOf
<1>3. Ordered(op)
  BY DEF KeepInv
<1>4. CASE UNCHANGED Ring(R)!vars
  BY <1>4, KeepCalm DEF Ring!vars
<1>5. ASSUME NEW s \in R.Slot, Ring(R)!Join(s) PROVE KeepInv(R)'
  <2>1. s \in joined' /\ op' = Ring(R)!Joining(s) /\ R.Home[s] \in R.Community
    BY <1>5 DEF Ring!Join, Ring!AccountsAssumption
  <2>2. Ordered(Ring(R)!Joining(s)) /\ Elems(Ring(R)!Joining(s)) = JoinSteps(R, s)
    BY <2>1, JoiningForm
  <2>3. /\ Due(R, "key", s)' /\ Due(R, "list", s)' /\ Due(R, "data", s)'
        /\ \A x : ~Due(R, "unlist", x)' /\ ~Due(R, "unkey", x)' /\ ~Due(R, "undata", x)'
        /\ \A x : Due(R, "enrolled", x)' => x = s
    <3>1. Ring(R)!Step("key", s) \in JoinSteps(R, s) /\ Ring(R)!Step("list", s) \in JoinSteps(R, s) /\ Ring(R)!Step("data", s) \in JoinSteps(R, s)
      BY DEF JoinSteps
    <3>2. \A t \in JoinSteps(R, s) : /\ t.do \notin {"unlist", "unkey", "undata"}
                                     /\ t.do = "enrolled" => t.of = s
      BY StepIs DEF JoinSteps
    <3> QED BY <2>1, <2>2, <3>1, <3>2, StepIs DEF Due
  <2>4. UNCHANGED <<disk, ready, left>>
    BY <1>5 DEF Ring!Join
  <2>5. Ring(R)!OwnedKept'
    BY <2>4 DEF KeepInv, Ring!OwnedKept
  <2> QED BY <2>1, <2>2, <2>3, <2>5 DEF KeepInv, Arriving
<1>6. ASSUME NEW s \in R.Slot, Ring(R)!Switch(s) PROVE KeepInv(R)'
  BY <1>6, KeepCalm DEF Ring!Switch
<1>7. ASSUME NEW s \in R.Slot, Ring(R)!Leave(s) PROVE KeepInv(R)'
  <2>1. s \in joined /\ R.Home[s] \in R.Community
    BY <1>1, <1>2, <1>7 DEF Ring!Leave
  <2>2. PICK next \in Ring(R)!Next1(s) : op' = Ring(R)!Leaving(s, next)
    BY <1>7 DEF Ring!Leave
  <2>3. next \in joined \cup {R.None}
    BY <1>2, <2>2 DEF Ring!Next1
  <2>4. \E A, C : Formed(op', LeaveOf(R, joined), A, SlotSteps(R, {s}) \cup CommSteps(R, C))
    BY <2>1, <2>2, <2>3, LeavingForm
  <2> QED BY <1>7, <2>4, KeepForm DEF Ring!Leave
<1>8. ASSUME NEW c \in R.Community, Ring(R)!Quit(c) PROVE KeepInv(R)'
  <2>1. PICK next \in joined \cup {R.None}, mine \in Ring(R)!Orders(disk.list \cap Ring(R)!In(c)) : op' = Ring(R)!Quitting(c, next, mine)
    <3>1. UNION {Ring(R)!resolveSlot(d) : d \in disk.comms \ {c}} \subseteq joined
      BY <1>2 DEF Ring!resolveSlot
    <3> QED BY <1>8, <3>1 DEF Ring!Quit
  <2>2. \E A : Formed(op', LeaveOf(R, joined), A, SlotSteps(R, disk.list \cap Ring(R)!In(c)) \cup CommSteps(R, {c}))
    BY <2>1, QuitFacts, QuittingForm
  <2>3. left' = left \cup (disk.list \cap Ring(R)!In(c)) /\ UNCHANGED <<disk, joined, ready>>
    BY <1>8 DEF Ring!Quit
  <2> QED BY <2>2, <2>3, KeepForm
<1>9. ASSUME op # <<>>, op' = Tail(op) PROVE Moves(R)
  BY <1>3, <1>9, ShiftFacts
<1>10. CASE Ring(R)!OpWrite
  <2> DEFINE t == Head(op)
  <2>1. Moves(R)
    BY <1>9, <1>10 DEF Ring!OpWrite
  <2>2. Wrote(R, disk, t, disk', joined) /\ t \in JoinOf(R, joined) \cup LeaveOf(R, joined)
    BY <1>10, OpFacts, WriteTypes DEF Ring!OpWrite
  <2>3. UNCHANGED <<joined, ready, left>>
    BY <1>10 DEF Ring!OpWrite, Ring!hist
  <2> HIDE DEF t
  <2>4. /\ disk'.list = Added(disk.list, t, t.of, "list", "unlist")
        /\ disk'.key = Added(disk.key, t, t.of, "key", "unkey")
        /\ disk'.data = Added(disk.data, t, t.of, "data", "undata")
    BY <2>2 DEF Wrote
  <2>5. Shifts(R, t) /\ Due(R, t.do, t.of) /\ Ordered(op)'
    BY <2>1 DEF Moves, t
  <2>6. \A s \in joined : Due(R, "unlist", s)' \/ Due(R, "unkey", s)' \/ Due(R, "undata", s)' => s \in left'
    BY <2>3, <2>5 DEF Shifts, KeepInv
  <2>7. t.do \in {"unlist", "unkey", "undata"} => t.of \in left /\ \A x : ~Due(R, "enrolled", x)
    <3> SUFFICES ASSUME t.do \in {"unlist", "unkey", "undata"} PROVE t.of \in left /\ \A x : ~Due(R, "enrolled", x)
      OBVIOUS
    <3>1. t \in LeaveOf(R, joined) /\ t.of \in joined
      BY <2>2 DEF JoinOf, JoinDo, LeaveOf
    <3>2. op \in Seq(LeaveOf(R, joined))
      BY <1>10, <3>1, OpFacts DEF Ring!OpWrite, t
    <3>3. \A x : ~Due(R, "enrolled", x)
      BY <3>2, ApartFacts, WhoFacts DEF LeaveDo, CommDo
    <3> QED BY <2>5, <3>1, <3>3 DEF KeepInv
  <2>8. ASSUME NEW s \in joined, Due(R, "enrolled", s)' PROVE Arriving(R, s)'
    <3>1. Due(R, "enrolled", s) /\ Arriving(R, s)
      BY <2>5, <2>8 DEF Shifts, KeepInv
    <3>2. t.do \notin {"unlist", "unkey", "undata"}
      BY <2>7, <3>1
    <3> QED BY <2>4, <2>5, <3>1, <3>2 DEF Arriving, Added, Shifts
  <2>9. Ring(R)!OwnedKept'
    BY <2>3, <2>4, <2>7 DEF KeepInv, Ring!OwnedKept, Added
  <2> QED BY <2>3, <2>5, <2>6, <2>8, <2>9 DEF KeepInv
<1>11. CASE Ring(R)!Teardown
  BY <1>9, <1>11, KeepShift DEF Ring!Teardown, Ring!hist
<1>12. CASE Ring(R)!Enrolled
  <2>0. PICK s : s = Head(op).of
    OBVIOUS
  <2>1. Moves(R)
    BY <1>9, <1>12 DEF Ring!Enrolled
  <2>2. /\ UNCHANGED <<disk, joined, left>> /\ ready' = ready \cup {s} /\ Head(op).do = "enrolled"
    BY <1>12, <2>0 DEF Ring!Enrolled
  <2>3. s \in joined
    BY <1>12, <2>0, OpFacts DEF Ring!Enrolled, JoinOf, LeaveOf, LeaveDo, JoinDo
  <2>4. Arriving(R, s)
    BY <2>0, <2>1, <2>2, <2>3 DEF Moves, KeepInv
  <2>5. ~Due(R, "key", s)' /\ ~Due(R, "list", s)' /\ ~Due(R, "data", s)'
    BY <2>0, <2>1, <2>2, StepIs DEF Moves, Settles, Due
  <2>6. ~Due(R, "key", s) /\ ~Due(R, "list", s) /\ ~Due(R, "data", s)
    BY <2>1, <2>2, <2>5 DEF Moves, Shifts
  <2>7. Ring(R)!OwnedKept'
    BY <2>2, <2>4, <2>6 DEF KeepInv, Ring!OwnedKept, Arriving
  <2>8. \A x \in joined : Due(R, "unlist", x)' \/ Due(R, "unkey", x)' \/ Due(R, "undata", x)' => x \in left'
    BY <2>1, <2>2 DEF Moves, Shifts, KeepInv
  <2>9. \A x \in joined : Due(R, "enrolled", x)' => Arriving(R, x)'
    BY <2>1, <2>2 DEF Moves, Shifts, KeepInv, Arriving
  <2> QED BY <2>1, <2>2, <2>7, <2>8, <2>9 DEF KeepInv, Moves
<1>13. CASE Ring(R)!Publish
  <2>1. UNCHANGED <<disk, joined, ready, left>> /\ op # <<>> /\ Head(op).do = "publish"
    BY <1>13 DEF Ring!Publish, Ring!hist
  <2>2. CASE op' = Tail(op)
    BY <1>9, <2>1, <2>2, KeepShift
  <2>3. CASE op' = <<Ring(R)!Step("unbind", Head(op).of)>> \o Tail(op)
    <3> DEFINE u == Ring(R)!Step("unbind", Head(op).of)
    <3>1. Head(op) \in JoinOf(R, joined) /\ Head(op).of \in joined /\ Tail(op) \in Seq(JoinOf(R, joined))
      BY <2>1, OpFacts DEF JoinOf, LeaveOf, LeaveDo, JoinDo
    <3>2. u \in JoinOf(R, joined) /\ u.do = "unbind"
      BY <3>1 DEF JoinOf, JoinDo, Ring!Step
    <3>3. op' \in Seq(JoinOf(R, joined))
      BY <2>3, <3>1, <3>2
    <3>4. Ordered(op)' /\ Swaps(R, Head(op), u)
      BY <1>3, <2>1, <2>3, <3>2, <3>3, SwapFacts
    <3> HIDE DEF u
    <3>5. \A x \in joined : Due(R, "unlist", x)' \/ Due(R, "unkey", x)' \/ Due(R, "undata", x)' => x \in left'
      BY <2>1, <3>2, <3>4 DEF Swaps, KeepInv
    <3>6. \A x \in joined : Due(R, "enrolled", x)' => Arriving(R, x)'
      BY <2>1, <3>2, <3>4 DEF Swaps, KeepInv, Arriving
    <3> QED BY <2>1, <3>4, <3>5, <3>6 DEF KeepInv, Ring!OwnedKept
  <2> QED BY <1>13, <2>2, <2>3 DEF Ring!Publish
<1>14. CASE Ring(R)!Unbind
  <2>1. disk'.key = disk.key /\ disk'.list = disk.list /\ disk'.data = disk.data
    BY <1>2, <1>14 DEF Ring!Unbind, DiskOf
  <2> QED BY <1>9, <1>14, <2>1, KeepShift DEF Ring!Unbind, Ring!hist
<1>15. CASE Ring(R)!Reconnect
  BY <1>9, <1>15, KeepShift DEF Ring!Reconnect, Ring!hist
<1>16. CASE Ring(R)!Drop
  BY <1>9, <1>16, KeepShift DEF Ring!Drop, Ring!hist
<1>17. CASE Ring(R)!GoAway
  <2>1. UNCHANGED <<disk, joined, ready, left>> /\ op # <<>> /\ Head(op).do = "away"
    BY <1>17 DEF Ring!GoAway, Ring!hist
  <2>2. CASE op' = Tail(op)
    BY <1>9, <2>1, <2>2, KeepShift
  <2>3. CASE op' = <<Ring(R)!Step("settle", Head(op).of)>> \o Tail(op)
    <3> DEFINE u == Ring(R)!Step("settle", Head(op).of)
    <3>1. Head(op) \in LeaveOf(R, joined) /\ Head(op).of \in joined /\ Tail(op) \in Seq(LeaveOf(R, joined))
      BY <2>1, OpFacts DEF JoinOf, LeaveOf, LeaveDo, JoinDo
    <3>2. u \in LeaveOf(R, joined) /\ u.do = "settle"
      BY <3>1 DEF LeaveOf, LeaveDo, Ring!Step
    <3>3. op' \in Seq(LeaveOf(R, joined))
      BY <2>3, <3>1, <3>2
    <3>4. Ordered(op)' /\ Swaps(R, Head(op), u)
      BY <1>3, <2>1, <2>3, <3>2, <3>3, SwapFacts
    <3> HIDE DEF u
    <3>5. \A x \in joined : Due(R, "unlist", x)' \/ Due(R, "unkey", x)' \/ Due(R, "undata", x)' => x \in left'
      BY <2>1, <3>2, <3>4 DEF Swaps, KeepInv
    <3>6. \A x \in joined : Due(R, "enrolled", x)' => Arriving(R, x)'
      BY <2>1, <3>2, <3>4 DEF Swaps, KeepInv, Arriving
    <3> QED BY <2>1, <3>4, <3>5, <3>6 DEF KeepInv, Ring!OwnedKept
  <2> QED BY <1>17, <2>2, <2>3 DEF Ring!GoAway
<1>18. CASE Ring(R)!Settle
  BY <1>9, <1>18, KeepShift DEF Ring!Settle, Ring!hist
<1>19. CASE Ring(R)!Freeze \/ Ring(R)!Repointed \/ Ring(R)!Connect \/ Ring(R)!RelayBinds \/ Ring(R)!Disconnect
  BY <1>19, KeepCalm DEF Ring!Freeze, Ring!Repointed, Ring!Connect, Ring!RelayBinds, Ring!Disconnect, Ring!hist
<1>20. CASE Ring(R)!SwWrite
  <2>1. Head(sw) \in SwitchOf(R, joined) /\ Wrote(R, disk, Head(sw), disk', joined)
    BY <1>20, SwFacts, WriteTypes DEF Ring!SwWrite
  <2>2. Head(sw).do \in SwitchDo \cup {"cid"}
    BY <2>1 DEF SwitchOf
  <2>3. disk'.key = disk.key /\ disk'.list = disk.list /\ disk'.data = disk.data
    BY <2>1, <2>2 DEF Wrote, Added, SwitchDo
  <2> QED BY <1>20, <2>3, KeepCalm DEF Ring!SwWrite, Ring!hist
<1>21. CASE Ring(R)!Answer
  <2>1. disk'.key = disk.key /\ disk'.list = disk.list /\ disk'.data = disk.data
    BY <1>2, <1>21 DEF Ring!Answer, DiskOf
  <2> QED BY <1>21, <2>1, KeepCalm DEF Ring!Answer, Ring!hist
<1>22. CASE Ring(R)!Kill
  <2>1. op' = <<>> /\ UNCHANGED <<disk, joined, ready, left>>
    BY <1>22 DEF Ring!Kill
  <2>2. Elems(<<>>) = {} /\ DOMAIN <<>> = {}
    BY DEF Elems
  <2>3. Ordered(op)'
    BY <2>1, <2>2 DEF Ordered, After
  <2>4. \A d, x : ~Due(R, d, x)'
    BY <2>1, <2>2 DEF Due
  <2> QED BY <2>1, <2>3, <2>4 DEF KeepInv, Ring!OwnedKept
<1> QED
  BY <1>4, <1>5, <1>6, <1>7, <1>8, <1>10, <1>11, <1>12, <1>13, <1>14, <1>15, <1>16, <1>17, <1>18, <1>19, <1>20, <1>21,
     <1>22 DEF Ring!Next, Ring!Work

----------------------------------------------------------------------------
\* What a step that moves on leaves the same.
Same(R) == Staying(R)' = Staying(R) /\ Keys(R)' = Keys(R) /\ Datas(R)' = Datas(R) /\ Comms(R)' = Comms(R)

LEMMA SameFacts ==
    ASSUME NEW R, RingTyped(R), Moves(R), op # <<>>, joined' = joined, Wrote(R, disk, Head(op), disk', joined)
    PROVE  Same(R)
<1>1. PICK t : t = Head(op)
  OBVIOUS
<1>2. t \in JoinOf(R, joined) \cup LeaveOf(R, joined) /\ Shifts(R, t) /\ Due(R, t.do, t.of)
  BY <1>1, OpFacts DEF Moves
<1>3. /\ disk'.list = Added(disk.list, t, t.of, "list", "unlist")
      /\ disk'.key = Added(disk.key, t, t.of, "key", "unkey")
      /\ disk'.data = Added(disk.data, t, t.of, "data", "undata")
      /\ disk'.comms = Added(disk.comms, t, t.of, "comm", "uncomm")
  BY <1>1 DEF Wrote
<1>4. \/ \A x : ~Due(R, "unlist", x) /\ ~Due(R, "unkey", x) /\ ~Due(R, "undata", x) /\ ~Due(R, "uncomm", x)
      \/ \A x : ~Due(R, "list", x) /\ ~Due(R, "key", x) /\ ~Due(R, "data", x) /\ ~Due(R, "comm", x)
  BY ApartFacts, WhoFacts DEF RingTyped, JoinDo, LeaveDo, CommDo
<1>5. ASSUME NEW d, NEW x
      PROVE  (Due(R, d, x)' => Due(R, d, x)) /\ (Due(R, d, x) => Due(R, d, x)' \/ (d = t.do /\ x = t.of))
  BY <1>2 DEF Shifts
<1>6. Staying(R)' = Staying(R)
  <2> SUFFICES ASSUME NEW x \in joined PROVE ((x \in disk'.list \/ Due(R, "list", x)') /\ ~Due(R, "unlist", x)') <=>
                                              ((x \in disk.list \/ Due(R, "list", x)) /\ ~Due(R, "unlist", x))
    BY DEF Staying
  <2> QED BY <1>2, <1>3, <1>4, <1>5 DEF Added
<1>7. Keys(R)' = Keys(R)
  <2> SUFFICES ASSUME NEW x \in joined PROVE ((x \in disk'.key \/ Due(R, "key", x)') /\ ~Due(R, "unkey", x)') <=>
                                              ((x \in disk.key \/ Due(R, "key", x)) /\ ~Due(R, "unkey", x))
    BY DEF Keys
  <2> QED BY <1>2, <1>3, <1>4, <1>5 DEF Added
<1>8. Datas(R)' = Datas(R)
  <2> SUFFICES ASSUME NEW x \in joined PROVE ((x \in disk'.data \/ Due(R, "data", x)') /\ ~Due(R, "undata", x)') <=>
                                              ((x \in disk.data \/ Due(R, "data", x)) /\ ~Due(R, "undata", x))
    BY DEF Datas
  <2> QED BY <1>2, <1>3, <1>4, <1>5 DEF Added
<1>9. Comms(R)' = Comms(R)
  <2> SUFFICES ASSUME NEW x \in R.Community PROVE ((x \in disk'.comms \/ Due(R, "comm", x)') /\ ~Due(R, "uncomm", x)') <=>
                                                 ((x \in disk.comms \/ Due(R, "comm", x)) /\ ~Due(R, "uncomm", x))
    BY DEF Comms
  <2> QED BY <1>2, <1>3, <1>4, <1>5 DEF Added
<1> QED BY <1>6, <1>7, <1>8, <1>9 DEF Same

LEMMA SumsSame ==
    ASSUME NEW R, Sums(R), Same(R)
    PROVE  Sums(R)'
  BY DEF Sums, Same

LEMMA LastsMove ==
    ASSUME NEW R, Lasts(R), Same(R), Shifts(R, Head(op)), Wrote(R, disk, Head(op), disk', joined), Head(op).do = "last" => Head(op).of \in Staying(R)
    PROVE  Lasts(R)'
<1>1. PICK t : t = Head(op)
  OBVIOUS
<1>2. ASSUME NEW c \in R.Community
      PROVE  (disk.last[c] = R.None \/ disk.last[c] \in Staying(R) \/ Due(R, "unlast", disk.last[c]))'
  <2>1. PICK x : x = disk'.last[c]
    OBVIOUS
  <2>2. \/ x = disk.last[c] /\ (t.do = "unlast" => disk.last[c] # t.of)
        \/ x = R.None
        \/ t.do = "last" /\ x = t.of
    BY <1>1, <2>1 DEF Wrote
  <2>3. x = disk.last[c] => x = R.None \/ x \in Staying(R) \/ Due(R, "unlast", x)
    BY DEF Lasts
  <2>4. Due(R, "unlast", x) => Due(R, "unlast", x)' \/ (t.do = "unlast" /\ x = t.of)
    BY <1>1 DEF Shifts
  <2>5. x = R.None \/ x \in Staying(R) \/ Due(R, "unlast", x)'
    BY <1>1, <2>2, <2>3, <2>4
  <2> QED BY <2>1, <2>5 DEF Same, Due
<1> QED BY <1>2 DEF Lasts

\* A step of a join or a removal that writes nothing leaves the disk as any write may.
LEMMA NoWrite ==
    ASSUME NEW R, Ring(R)!AccountsAssumption, RingTyped(R), op # <<>>, disk' = disk,
           Head(op).do \in {"teardown", "enrolled", "publish", "reconnect", "drop", "away", "settle"}
    PROVE  Wrote(R, disk, Head(op), disk', joined)
<1>1. disk' \in Ring(R)!Written(disk, Head(op))
  BY DEF Ring!Written
<1> QED BY <1>1, OpFacts, WriteTypes

LEMMA NoLength ==
    ASSUME NEW S, NEW s \in Seq(S), Len(s) = 0
    PROVE  s = <<>>
  OBVIOUS

LEMMA EmptyTail ==
    ASSUME NEW S, NEW s \in Seq(S), Len(s) = 1
    PROVE  Tail(s) = <<>>
<1>1. Tail(s) \in Seq(S) /\ Len(Tail(s)) = 0
  <2>1. s # <<>>
    OBVIOUS
  <2> QED BY <2>1
<1> QED BY <1>1, NoLength

LEMMA SomeTail ==
    ASSUME NEW S, NEW s \in Seq(S), s = <<>>
    PROVE  Len(s) = 0
  OBVIOUS

LEMMA JoinFormMove ==
    ASSUME NEW R, RingTyped(R), NEW s, JoinForm(R, s), op' = Tail(op)
    PROVE  /\ Head(op).do # "reconnect" => JoinForm(R, s)'
           /\ Head(op).do = "reconnect" => op' = <<>> /\ Elems(op) = {Ring(R)!Step("reconnect", s)}
           /\ Head(op).do \in JoinDo => Head(op).of = s
           /\ Head(op).do \in {"comm", "cid"} => Head(op).of = R.Home[s]
<1>1. op # <<>> /\ HeadForm(op) /\ Work2(R, joined, Tail(op))
  BY OpFacts DEF JoinForm
<1>2. PICK S : op \in Seq(S)
  BY DEF RingTyped
<1>3. op[Len(op)] = Ring(R)!Step("reconnect", s) /\ \A i \in DOMAIN op : op[i].do = "reconnect" => i = Len(op)
  BY DEF JoinForm
<1>4. ASSUME Head(op).do # "reconnect" PROVE JoinForm(R, s)'
  <2>1. Len(op) # 1
    BY <1>1, <1>3, <1>4, StepIs DEF HeadForm
  <2>2. Len(op') = Len(op) - 1 /\ Len(op') \in DOMAIN op' /\ op'[Len(op')] = op[Len(op)] /\ op' \in Seq(S)
    BY <1>1, <1>2, <2>1, HeadFacts DEF HeadForm
  <2>3. op' # <<>>
    <3>1. Len(op') # 0
      BY <1>1, <2>1, <2>2 DEF HeadForm
    <3> QED BY <2>2, <3>1, SomeTail
  <2>4. ASSUME NEW i \in DOMAIN op', op'[i].do = "reconnect" PROVE i = Len(op')
    <3>1. i + 1 \in DOMAIN op /\ op'[i] = op[i + 1] /\ i \in Nat
      BY <1>1, <2>4 DEF HeadForm
    <3>2. i + 1 = Len(op)
      BY <1>3, <2>4, <3>1
    <3> QED BY <1>1, <2>2, <3>1, <3>2 DEF HeadForm
  <2>5. Elems(op') \subseteq Elems(op)
    BY <1>1 DEF HeadForm
  <2> QED BY <1>3, <2>2, <2>3, <2>4, <2>5 DEF JoinForm
<1>5. ASSUME Head(op).do = "reconnect" PROVE op' = <<>> /\ Elems(op) = {Ring(R)!Step("reconnect", s)}
  <2>1. Len(op) = 1
    BY <1>1, <1>3, <1>5 DEF HeadForm
  <2>2. op' = <<>>
    BY <1>2, <2>1, EmptyTail
  <2>3. Elems(<<>>) = {}
    BY DEF Elems
  <2> QED BY <1>1, <1>3, <2>1, <2>2, <2>3 DEF HeadForm
<1>6. (Head(op).do \in JoinDo => Head(op).of = s) /\ (Head(op).do \in {"comm", "cid"} => Head(op).of = R.Home[s])
  BY <1>1 DEF JoinForm, HeadForm
<1> QED BY <1>4, <1>5, <1>6

LEMMA JoinFormSwap ==
    ASSUME NEW R, RingTyped(R), NEW s \in joined, JoinForm(R, s), op' = <<Ring(R)!Step("unbind", s)>> \o Tail(op), Head(op).do # "reconnect"
    PROVE  JoinForm(R, s)'
<1>1. op # <<>> /\ HeadForm(op) /\ Work2(R, joined, Tail(op))
  BY OpFacts DEF JoinForm
<1>2. PICK p, S : p = Tail(op) /\ p \in Seq(S) /\ Ring(R)!Step("unbind", s) \in S
  <2>1. Tail(op) \in Seq(JoinOf(R, joined) \cup LeaveOf(R, joined) \cup {Ring(R)!Step("unbind", s)})
    BY <1>1 DEF Work2
  <2> QED BY <2>1
<1>3. op[Len(op)] = Ring(R)!Step("reconnect", s) /\ \A i \in DOMAIN op : op[i].do = "reconnect" => i = Len(op)
  BY DEF JoinForm
<1>4. PICK q : q = <<Ring(R)!Step("unbind", s)>> \o p
  OBVIOUS
<1>5. /\ q # <<>> /\ Len(q) = 1 + Len(p) /\ DOMAIN q = 1..(1 + Len(p)) /\ q[1] = Ring(R)!Step("unbind", s)
      /\ \A i \in 1..Len(p) : q[1 + i] = p[i]
  BY <1>2, <1>4
<1>6. q = op' /\ Len(p) = Len(op) - 1 /\ Len(op) \in Nat \ {0} /\ DOMAIN op = 1..Len(op)
      /\ \A i \in 1..Len(p) : p[i] = op[i + 1]
  BY <1>1, <1>2, <1>4 DEF HeadForm
<1>7. Len(op) # 1
  BY <1>1, <1>3, StepIs DEF HeadForm
<1>8. q[Len(q)] = Ring(R)!Step("reconnect", s)
  <2>1. Len(p) \in 1..Len(p) /\ Len(q) = 1 + Len(p) /\ Len(p) + 1 = Len(op)
    BY <1>5, <1>6, <1>7
  <2> QED BY <1>3, <1>5, <1>6, <2>1
<1>9. ASSUME NEW i \in DOMAIN q, q[i].do = "reconnect" PROVE i = Len(q)
  <2>1. i # 1
    BY <1>5, <1>9, StepIs
  <2>2. i - 1 \in 1..Len(p) /\ 1 + (i - 1) = i /\ (i - 1) + 1 = i /\ i \in DOMAIN op
    BY <1>5, <1>6, <2>1
  <2>3. q[i] = op[i]
    BY <1>5, <1>6, <2>2
  <2> QED BY <1>3, <1>5, <1>6, <1>9, <2>2, <2>3
<1>10. Elems(q) \subseteq {Ring(R)!Step("unbind", s)} \cup Elems(op)
  <2> SUFFICES ASSUME NEW i \in DOMAIN q PROVE q[i] \in {Ring(R)!Step("unbind", s)} \cup Elems(op)
    BY DEF Elems
  <2>1. CASE i = 1
    BY <1>5, <2>1
  <2>2. CASE i # 1
    <3>1. i - 1 \in 1..Len(p) /\ 1 + (i - 1) = i /\ (i - 1) + 1 = i /\ i \in DOMAIN op
      BY <1>5, <1>6, <2>2
    <3>2. q[i] = op[i]
      BY <1>5, <1>6, <3>1
    <3> QED BY <3>1, <3>2 DEF Elems
  <2> QED BY <2>1, <2>2
<1>11. \A t \in Elems(q) : (t.do \in {"comm", "cid"} => t.of = R.Home[s]) /\ (t.do \in JoinDo => t.of = s)
  BY <1>10, StepIs DEF JoinForm
<1> QED BY <1>5, <1>6, <1>8, <1>9, <1>11 DEF JoinForm

\* What the runtime does at a step of a join.
Follows(R, t, s) ==
    /\ t.do = "teardown" => mem'.slot = s /\ mem'.cid = R.Home[s] /\ mem'.enrolled = mem.enrolled
    /\ t.do = "enrolled" => mem'.slot = mem.slot /\ mem'.cid = mem.cid /\ mem'.enrolled
    /\ t.do \notin {"teardown", "enrolled"} => mem' = mem

LEMMA JoinsHead ==
    ASSUME NEW R, RingTyped(R), NEW s \in joined, JoinForm(R, s)
    PROVE  op \in Seq(JoinOf(R, joined)) /\ Head(op) \in JoinOf(R, joined)
<1>1. op # <<>> /\ HeadForm(op) /\ Len(op) \in DOMAIN op
  BY OpFacts DEF JoinForm, HeadForm
<1>2. Ring(R)!Step("reconnect", s) \in Elems(op)
  BY <1>1 DEF JoinForm, Elems
<1>3. Due(R, "reconnect", s)
  BY <1>2 DEF Due
<1>4. op \notin Seq(LeaveOf(R, joined))
  BY <1>3, ApartFacts, WhoFacts DEF LeaveDo, CommDo
<1> QED BY <1>1, <1>4, OpFacts DEF RingTyped

LEMMA JoinsMove ==
    ASSUME NEW R, RingTyped(R), Moves(R), NEW s \in joined, JoinAt(R, s), Unbound \subseteq {s}, sw = <<>>, op' = Tail(op), Same(R),
           Head(op).do # "reconnect", Wrote(R, disk, Head(op), disk', joined), UNCHANGED <<joined, sw>>,
           Unbound' \subseteq Unbound, Follows(R, Head(op), s)
    PROVE  Enrolling(R)'
<1>1. JoinForm(R, s) /\ Head(op) \in JoinOf(R, joined)
  BY JoinsHead DEF JoinAt
<1>2. PICK t \in JoinOf(R, joined) : t = Head(op)
  BY <1>1
<1>3. /\ JoinForm(R, s)' /\ (t.do \in JoinDo => t.of = s) /\ (t.do \in {"comm", "cid"} => t.of = R.Home[s])
  BY <1>1, <1>2, JoinFormMove
<1>4. t.do \in JoinDo \cup {"comm", "cid"}
  BY <1>2 DEF JoinOf
<1>5. \A d, x : Due(R, d, x) => Due(R, d, x)' \/ (d = t.do /\ x = t.of)
  BY <1>2 DEF Moves, Shifts
<1>6. Due(R, "active", s)' \/ disk'.active = s
  <2>1. /\ t.do = "active" => disk'.active = t.of
        /\ t.do \notin {"active", "repoint"} => disk'.active = disk.active
    BY <1>2 DEF Wrote
  <2> QED BY <1>3, <1>4, <1>5, <2>1 DEF JoinAt, JoinDo
<1>7. Due(R, "cid", R.Home[s])' \/ disk'.cid = R.Home[s]
  <2>1. /\ t.do = "cid" => disk'.cid = t.of
        /\ t.do \notin {"cid", "uncid"} => disk'.cid = disk.cid
    BY <1>2 DEF Wrote
  <2>2. Due(R, "cid", R.Home[s]) => Due(R, "cid", R.Home[s])' \/ (t.do = "cid" /\ t.of = R.Home[s])
    BY <1>5
  <2> QED BY <1>3, <1>4, <2>1, <2>2 DEF JoinAt, JoinDo
<1>8. Due(R, "teardown", s)' \/ (mem'.slot = s /\ mem'.cid = R.Home[s])
  BY <1>2, <1>5 DEF JoinAt, Follows
<1>9. Due(R, "enrolled", s)' \/ mem'.enrolled
  BY <1>2, <1>5 DEF JoinAt, Follows
<1>10. JoinAt(R, s)'
  BY <1>3, <1>6, <1>7, <1>8, <1>9 DEF JoinAt, Same
<1> QED BY <1>10 DEF Enrolling

LEMMA JoinsEnd ==
    ASSUME NEW R, Ring(R)!AccountsAssumption, RingTyped(R), NEW s \in joined, JoinAt(R, s), sw = <<>>, op' = Tail(op), Same(R),
           Head(op).do = "reconnect", UNCHANGED <<disk, mem, joined, sw>>
    PROVE  Leaves(R)'
<1>1. op' = <<>> /\ Elems(op) = {Ring(R)!Step("reconnect", s)}
  BY JoinFormMove DEF JoinAt
<1>2. \A d, x : Due(R, d, x) => d = "reconnect"
  BY <1>1, StepIs DEF Due
<1>3. s \in Staying(R) /\ disk.active = s /\ disk.cid = R.Home[s] /\ mem.slot = s /\ mem.cid = R.Home[s] /\ mem.enrolled
  BY <1>2 DEF JoinAt
<1>4. mem = [slot |-> s, cid |-> R.Home[s], enrolled |-> TRUE]
  BY <1>3 DEF RingTyped, MemOf
<1>5. Based(R)'
  BY <1>3, <1>4 DEF Based, OnStaying, Same
<1>6. Elems(<<>>) = {}
  BY DEF Elems
<1>7. LeaveForm(R)'
  BY <1>1, <1>6 DEF LeaveForm, Due
<1>8. op' \in Seq(LeaveOf(R, joined'))
  <2>1. \A S : <<>> \in Seq(S)
    OBVIOUS
  <2> QED BY <1>1, <2>1
<1> QED BY <1>1, <1>5, <1>7, <1>8 DEF Leaves, LeaveAt

LEMMA LeaveFormMove ==
    ASSUME NEW R, LeaveForm(R), Moves(R), Same(R), joined' = joined
    PROVE  LeaveForm(R)'
<1>1. PICK t : t = Head(op)
  OBVIOUS
<1>2. ASSUME NEW d, NEW x
      PROVE  (Due(R, d, x)' => Due(R, d, x)) /\ (Due(R, d, x) => Due(R, d, x)' \/ (d = t.do /\ x = t.of))
  BY <1>1 DEF Moves, Shifts
<1>3. /\ \A x : t.do = "repoint" /\ t.of = x => ~Due(R, "unlist", x)'
      /\ \A x : t.do = "uncid" /\ t.of = x => ~Due(R, "uncomm", x)'
  BY <1>1, StepIs DEF Moves, Settles, Due
<1>4. /\ \A s \in joined : Due(R, "repoint", s)' => s \notin Staying(R)
      /\ \A c \in R.Community : Due(R, "uncid", c)' => c \notin Comms(R)
  BY <1>2 DEF LeaveForm
<1>5. \A s \in joined : Due(R, "unlist", s)' => Due(R, "repoint", s)'
  BY <1>2, <1>3 DEF LeaveForm
<1>6. \A c \in R.Community : Due(R, "uncomm", c)' => Due(R, "uncid", c)'
  BY <1>2, <1>3 DEF LeaveForm
<1> QED BY <1>4, <1>5, <1>6 DEF LeaveForm, Same

LEMMA BasedMove ==
    ASSUME NEW R, Ring(R)!AccountsAssumption, RingTyped(R), op # <<>>, Head(op) \in LeaveOf(R, joined), Sums(R), LeaveForm(R), LeaveForm(R)', Moves(R), Same(R), Based(R),
           Wrote(R, disk, Head(op), disk', joined), UNCHANGED <<joined, mem>>
    PROVE  Based(R)'
<1>1. PICK t \in LeaveOf(R, joined) : t = Head(op)
  OBVIOUS
<1>2. t.do \notin {"active", "cid"}
  BY DEF LeaveOf, LeaveDo
<1>3. /\ t.do = "repoint" => disk'.active \in Ring(R)!Fallback(disk.active, t.of, disk.list) /\ t.of \in joined /\ Due(R, "repoint", t.of)
      /\ t.do # "repoint" => disk'.active = disk.active
      /\ t.do = "uncid" => disk'.cid \in Ring(R)!Fallback(disk.cid, t.of, disk.comms) /\ t.of \in R.Community /\ Due(R, "uncid", t.of)
      /\ t.do # "uncid" => disk'.cid = disk.cid
      /\ disk'.list = Added(disk.list, t, t.of, "list", "unlist") /\ disk'.comms = Added(disk.comms, t, t.of, "comm", "uncomm")
  <2>1. /\ t.do = "repoint" => t.of \in joined
        /\ t.do = "uncid" => t.of \in R.Community
    BY DEF LeaveOf, LeaveDo
  <2>2. Due(R, t.do, t.of)
    BY <1>1 DEF Moves
  <2> QED BY <1>1, <1>2, <2>1, <2>2 DEF Wrote
<1>4. CASE OnStaying(R)
  <2>1. disk'.active = disk.active
    BY <1>3, <1>4 DEF OnStaying, LeaveForm, Ring!Fallback
  <2>2. disk.cid \in Comms(R)
    BY <1>4 DEF OnStaying, Sums
  <2>3. disk'.cid = disk.cid
    BY <1>3, <2>2 DEF LeaveForm, Ring!Fallback
  <2> QED BY <1>4, <2>1, <2>3 DEF Based, OnStaying, Same
<1>5. CASE NoneStays(R) /\ mem = [slot |-> R.None, cid |-> R.None, enrolled |-> FALSE]
  <2>1. disk'.list \subseteq joined /\ disk'.comms \subseteq R.Community
    BY DEF Wrote, DiskOf
  <2>2. Staying(R)' = {} /\ Comms(R)' = {}
    BY <1>5 DEF NoneStays, Same, Sums
  <2>3. \A x \in disk'.list : Due(R, "repoint", x)'
    BY <2>1, <2>2 DEF Staying, LeaveForm
  <2>4. \A c \in disk'.comms : Due(R, "uncid", c)'
    BY <2>1, <2>2 DEF Comms, LeaveForm
  <2>5. ASSUME NEW d, NEW x PROVE Due(R, d, x) => Due(R, d, x)' \/ (d = t.do /\ x = t.of)
    BY <1>1 DEF Moves, Shifts
  <2>6. PICK a, c : a = disk'.active /\ c = disk'.cid
    OBVIOUS
  <2>7. a = R.None \/ Due(R, "repoint", a)'
    <3>1. CASE t.do # "repoint" \/ disk.active # t.of
      <4>1. a = disk.active
        BY <1>3, <2>6, <3>1 DEF Ring!Fallback
      <4> QED BY <1>5, <2>5, <3>1, <4>1 DEF NoneStays
    <3>2. CASE t.do = "repoint" /\ disk.active = t.of
      <4>1. disk'.list = disk.list
        BY <1>3, <3>2 DEF Added
      <4>2. a = R.None \/ a \in disk'.list
        BY <1>3, <2>6, <3>2, <4>1 DEF Ring!Fallback
      <4> QED BY <2>3, <4>2
    <3> QED BY <3>1, <3>2
  <2>8. c = R.None \/ Due(R, "uncid", c)'
    <3>1. CASE t.do # "uncid" \/ disk.cid # t.of
      <4>1. c = disk.cid
        BY <1>3, <2>6, <3>1 DEF Ring!Fallback
      <4> QED BY <1>5, <2>5, <3>1, <4>1 DEF NoneStays
    <3>2. CASE t.do = "uncid" /\ disk.cid = t.of
      <4>1. disk'.comms = disk.comms
        BY <1>3, <3>2 DEF Added
      <4>2. c = R.None \/ c \in disk'.comms
        BY <1>3, <2>6, <3>2, <4>1 DEF Ring!Fallback
      <4> QED BY <2>4, <4>2
    <3> QED BY <3>1, <3>2
  <2>9. NoneStays(R)'
    BY <2>2, <2>6, <2>7, <2>8 DEF NoneStays, Due
  <2> QED BY <1>5, <2>9 DEF Based
<1> QED BY <1>4, <1>5 DEF Based

\* A removal without a step away ahead of it is based.
LEMMA LeavesOn ==
    ASSUME NEW R, op' \in Seq(LeaveOf(R, joined')), LeaveForm(R)', sw' = <<>>, Plain(op'), Based(R)'
    PROVE  Leaves(R)'
<1>1. op' # <<>> => Head(op') \in Elems(op')
  BY HeadFacts DEF HeadForm
<1>2. op' = <<>> \/ Head(op').do \notin Leads
  BY <1>1 DEF Plain
<1> QED BY <1>2 DEF Leaves, LeaveAt, Leads

LEMMA OwesSame ==
    ASSUME NEW R, Owes(R), disk'.bind = disk.bind, joined' = joined, \A s \in Unbound' : s \in Unbound /\ s \in Staying(R)',
           \A s \in joined : Due(R, "bind", s)' <=> Due(R, "bind", s), \A s \in joined : Due(R, "unbind", s)' => s \in bound',
           sending' \in {sending, R.None}
    PROVE  Owes(R)'
<1>1. \A s \in Unbound : s \in joined
  BY DEF Unbound
<1> QED BY <1>1 DEF Owes

LEMMA OwesMove ==
    ASSUME NEW R, Owes(R), Moves(R), Same(R), Wrote(R, disk, Head(op), disk', joined), joined' = joined, Unbound' \subseteq Unbound,
           bound \subseteq bound', sending' \in {sending, R.None},
           Head(op).do = "bind" => Unbound \subseteq {Head(op).of} /\ \A x \in joined : Due(R, "bind", x) => x = Head(op).of
    PROVE  Owes(R)'
<1>1. PICK t : t = Head(op)
  OBVIOUS
<1>2. ASSUME NEW d, NEW x
      PROVE  (Due(R, d, x)' => Due(R, d, x)) /\ (Due(R, d, x) => Due(R, d, x)' \/ (d = t.do /\ x = t.of))
  BY <1>1 DEF Moves, Shifts
<1>3. disk'.bind = IF t.do = "bind" THEN t.of ELSE disk.bind
  BY <1>1 DEF Wrote
<1>4. \A s \in Unbound' : (disk'.bind = s \/ Due(R, "bind", s)') /\ s \in Staying(R)'
  BY <1>1, <1>2, <1>3 DEF Owes, Same
<1>5. \A s \in joined : Due(R, "bind", s)' => disk'.bind = R.None \/ disk'.bind = s
  BY <1>1, <1>2, <1>3 DEF Owes
<1>6. \A s \in joined : Due(R, "unbind", s)' => s \in bound'
  BY <1>2 DEF Owes
<1>7. sending' # R.None => Unbound' \subseteq {sending'}
  BY DEF Owes
<1> QED BY <1>4, <1>5, <1>6, <1>7 DEF Owes

LEMMA QuietFacts ==
    ASSUME NEW R, RingTyped(R), op = <<>>
    PROVE  /\ \A d, x : ~Due(R, d, x)
           /\ Staying(R) = disk.list /\ Keys(R) = disk.key /\ Datas(R) = disk.data /\ Comms(R) = disk.comms
<1>1. Elems(<<>>) = {}
  BY DEF Elems
<1>2. \A d, x : ~Due(R, d, x)
  BY <1>1 DEF Due
<1>3. disk.list \subseteq joined /\ disk.key \subseteq joined /\ disk.data \subseteq joined /\ disk.comms \subseteq R.Community
  BY DEF RingTyped, DiskOf
<1> QED BY <1>2, <1>3 DEF Staying, Keys, Datas, Comms

LEMMA SameList ==
    ASSUME NEW S, NEW s \in Seq(S), NEW t \in Seq(S), Len(s) = Len(t), \A i \in 1..Len(s) : s[i] = t[i]
    PROVE  s = t
  OBVIOUS

LEMMA RestFacts ==
    ASSUME NEW R, NEW s, NEW k \in 0..4
    PROVE  /\ Rest(R, s, k) # <<>> /\ Rest(R, s, 0) = Ring(R)!Switching(s)
           /\ Head(Rest(R, s, k)) = Ring(R)!Step(CASE k = 0 -> "freeze" [] k = 1 -> "active" [] k = 2 -> "last" [] k = 3 -> "cid" [] k = 4 -> "repointed",
                                      IF k = 3 THEN R.Home[s] ELSE s)
           /\ k < 4 => Tail(Rest(R, s, k)) = Rest(R, s, k + 1)
           /\ k = 4 => Tail(Rest(R, s, k)) = <<>>
<1> DEFINE q == Ring(R)!Switching(s)
<1>1. /\ q = [i \in 1..5 |-> q[i]] /\ q[1] = Ring(R)!Step("freeze", s) /\ q[2] = Ring(R)!Step("active", s) /\ q[3] = Ring(R)!Step("last", s)
      /\ q[4] = Ring(R)!Step("cid", R.Home[s]) /\ q[5] = Ring(R)!Step("repointed", s)
  BY DEF Ring!Switching
<1> HIDE DEF q
<1>2. DEFINE T == {q[i] : i \in 1..5}
<1>3. 5 - k \in Nat \ {0} /\ Rest(R, s, k) \in [1..(5 - k) -> T] /\ Rest(R, s, k)[1] = q[k + 1]
  BY DEF Rest, q
<1>4. Rest(R, s, k) \in Seq(T) /\ Len(Rest(R, s, k)) = 5 - k
  BY <1>3
<1>5. Rest(R, s, k) # <<>>
  BY <1>3, <1>4, SomeTail
<1>6. Head(Rest(R, s, k)) = q[k + 1]
  BY <1>3, <1>4, <1>5
<1>7. Rest(R, s, 0) = Ring(R)!Switching(s)
  BY <1>1 DEF Rest, q
<1>8. ASSUME k < 4 PROVE Tail(Rest(R, s, k)) = Rest(R, s, k + 1)
  <2>1. /\ Tail(Rest(R, s, k)) \in Seq(T) /\ Len(Tail(Rest(R, s, k))) = 4 - k
        /\ \A i \in 1..(4 - k) : Tail(Rest(R, s, k))[i] = Rest(R, s, k)[i + 1]
    BY <1>3, <1>4, <1>5
  <2>2. \A i \in 1..(4 - k) : i + 1 \in 1..(5 - k) /\ Rest(R, s, k)[i + 1] = q[(i + 1) + k] /\ (i + 1) + k = i + (k + 1)
    BY DEF Rest, q
  <2>3. Rest(R, s, k + 1) = [i \in 1..(4 - k) |-> q[i + (k + 1)]]
    <3>1. 5 - (k + 1) = 4 - k
      OBVIOUS
    <3> QED BY <3>1 DEF Rest, q
  <2>4. 4 - k \in Nat /\ \A i \in 1..(4 - k) : i + (k + 1) \in 1..5
    BY <1>8
  <2>5. Rest(R, s, k + 1) \in [1..(4 - k) -> T]
    BY <2>3, <2>4
  <2>6. Rest(R, s, k + 1) \in Seq(T) /\ Len(Rest(R, s, k + 1)) = 4 - k
    BY <2>4, <2>5
  <2>7. \A i \in 1..(4 - k) : Tail(Rest(R, s, k))[i] = Rest(R, s, k + 1)[i]
    BY <2>1, <2>2, <2>3
  <2> QED BY <2>1, <2>6, <2>7, SameList
<1>9. ASSUME k = 4 PROVE Tail(Rest(R, s, k)) = <<>>
  BY <1>4, <1>9, EmptyTail
<1>10. k \in {0, 1, 2, 3, 4}
  OBVIOUS
<1> QED BY <1>1, <1>5, <1>6, <1>7, <1>8, <1>9, <1>10

\* The removal of the slots S and the communities C: who stays, and what the step away is.
Parting(R, S, C, A) ==
    /\ S \subseteq disk.list /\ C \subseteq R.Community /\ Comms(R) \ C = {R.Home[x] : x \in Staying(R) \ S}
    /\ \/ A = {} /\ OnStaying(R) /\ disk.active \notin S
       \/ \E next \in Staying(R) \ S : A = {Ring(R)!Step("away", next)}
       \/ A = {Ring(R)!Step("drop", R.None)} /\ Staying(R) \subseteq S /\ disk.active \in S /\ disk.cid \in C

LEMMA LeaveStart ==
    ASSUME NEW R, RingTyped(R), op = <<>>, sw = <<>>, Sums(R), Lasts(R), Owes(R), NEW A, NEW S, NEW C, Parting(R, S, C, A),
           Formed(op', LeaveOf(R, joined), A, SlotSteps(R, S) \cup CommSteps(R, C)), left' = left \cup S,
           UNCHANGED <<disk, mem, sw, joined, bound, sending>>
    PROVE  RingCalm(R)'
<1>1. /\ \A d, x : ~Due(R, d, x)
      /\ Staying(R) = disk.list /\ Keys(R) = disk.key /\ Datas(R) = disk.data /\ Comms(R) = disk.comms
  BY QuietFacts
<1>2. /\ Elems(op') = A \cup (SlotSteps(R, S) \cup CommSteps(R, C)) /\ op' \in Seq(LeaveOf(R, joined))
      /\ A = {} => Plain(op')
      /\ A # {} => op' # <<>> /\ A = {Head(op')}
  BY DEF Formed
<1>3. ASSUME NEW d, NEW x, d \notin Leads
      PROVE  Due(R, d, x)' <=> (d \in SlotDo /\ x \in S) \/ (d \in CommDo /\ x \in C)
  <2>1. \A t \in A : t.do \in Leads
    BY StepIs DEF Parting, Leads
  <2>2. Ring(R)!Step(d, x) \in SlotSteps(R, S) <=> d \in SlotDo /\ x \in S
    <3>1. \A t \in SlotSteps(R, S) : t.do \in SlotDo /\ t.of \in S
      BY StepIs DEF SlotSteps
    <3> QED BY <3>1, StepIs DEF SlotSteps
  <2>3. Ring(R)!Step(d, x) \in CommSteps(R, C) <=> d \in CommDo /\ x \in C
    <3>1. \A t \in CommSteps(R, C) : t.do \in CommDo /\ t.of \in C
      BY StepIs DEF CommSteps
    <3> QED BY <3>1, StepIs DEF CommSteps
  <2> QED BY <1>2, <1>3, <2>1, <2>2, <2>3, StepIs DEF Due
<1>4. /\ \A d \in SlotDo : \A x : Due(R, d, x)' <=> x \in S
      /\ \A d \in CommDo : \A x : Due(R, d, x)' <=> x \in C
      /\ \A d \in {"list", "key", "data", "comm", "bind", "unbind"} : \A x : ~Due(R, d, x)'
  BY <1>3 DEF SlotDo, CommDo, Leads
<1>5. /\ \A x : Due(R, "unlist", x)' <=> x \in S
      /\ \A x : Due(R, "unkey", x)' <=> x \in S
      /\ \A x : Due(R, "undata", x)' <=> x \in S
      /\ \A x : Due(R, "repoint", x)' <=> x \in S
      /\ \A x : Due(R, "unlast", x)' <=> x \in S
      /\ \A x : Due(R, "uncomm", x)' <=> x \in C
      /\ \A x : Due(R, "uncid", x)' <=> x \in C
  BY <1>4 DEF SlotDo, CommDo
<1>6. disk.list \subseteq joined /\ disk.key \subseteq joined /\ disk.data \subseteq joined /\ disk.comms \subseteq R.Community
  BY DEF RingTyped, DiskOf
<1>7. Staying(R)' = Staying(R) \ S /\ Keys(R)' = Keys(R) \ S /\ Datas(R)' = Datas(R) \ S /\ Comms(R)' = Comms(R) \ C
  <2>1. Staying(R)' = Staying(R) \ S
    BY <1>1, <1>4, <1>5, <1>6 DEF Staying
  <2>2. Keys(R)' = Keys(R) \ S
    BY <1>1, <1>4, <1>5, <1>6 DEF Keys
  <2>3. Datas(R)' = Datas(R) \ S
    BY <1>1, <1>4, <1>5, <1>6 DEF Datas
  <2>4. Comms(R)' = Comms(R) \ C
    BY <1>1, <1>4, <1>5, <1>6 DEF Comms
  <2> QED BY <2>1, <2>2, <2>3, <2>4
<1>8. Sums(R)'
  <2>1. Comms(R)' = {R.Home[x] : x \in Staying(R)'}
    BY <1>7 DEF Parting
  <2> QED BY <1>7, <2>1 DEF Sums
<1>9. Lasts(R)'
  <2> SUFFICES ASSUME NEW c \in R.Community
               PROVE  (disk.last[c] = R.None \/ disk.last[c] \in Staying(R) \/ Due(R, "unlast", disk.last[c]))'
    BY DEF Lasts
  <2>1. PICK x : x = disk.last[c]
    OBVIOUS
  <2>2. x = R.None \/ x \in Staying(R)
    BY <1>1, <2>1 DEF Lasts
  <2>3. x = R.None \/ x \in Staying(R)' \/ Due(R, "unlast", x)'
    BY <1>5, <1>7, <2>2
  <2> QED BY <2>1, <2>3 DEF Due
<1>10. LeaveForm(R)'
  BY <1>5, <1>7 DEF LeaveForm
<1>11. Owes(R)'
  <2>1. \A x \in Unbound' : x \in Unbound /\ x \in Staying(R)'
    BY <1>7 DEF Unbound, Owes
  <2>2. \A x \in joined : (Due(R, "bind", x)' <=> Due(R, "bind", x)) /\ (Due(R, "unbind", x)' => x \in bound')
    BY <1>1, <1>4
  <2> QED BY <2>1, <2>2, OwesSame
<1>12. Leaves(R)'
  <2>1. CASE A = {}
    <3>1. Based(R)'
      BY <1>7, <2>1, StepIs DEF Parting, Based, OnStaying
    <3> QED BY <1>2, <1>10, <2>1, <3>1, LeavesOn
  <2>2. ASSUME NEW next \in Staying(R) \ S, A = {Ring(R)!Step("away", next)} PROVE Leaves(R)'
    <3>1. Head(op') = Ring(R)!Step("away", next) /\ op' # <<>>
      BY <1>2, <2>2
    <3> QED BY <1>2, <1>7, <1>10, <2>2, <3>1, StepIs DEF Leaves, LeaveAt, Leads
  <2>3. CASE A = {Ring(R)!Step("drop", R.None)} /\ Staying(R) \subseteq S /\ disk.active \in S /\ disk.cid \in C
    <3>1. Head(op') = Ring(R)!Step("drop", R.None) /\ op' # <<>>
      BY <1>2, <2>3
    <3>2. PICK a, c : a = disk.active /\ c = disk.cid
      OBVIOUS
    <3>3. Due(R, "repoint", a)' /\ Due(R, "uncid", c)'
      BY <1>5, <2>3, <3>2
    <3>4. NoneStays(R)'
      BY <1>7, <2>3, <3>2, <3>3 DEF NoneStays, Due
    <3> QED BY <1>2, <1>10, <3>1, <3>4, StepIs DEF Leaves, LeaveAt, Leads
  <2> QED BY <2>1, <2>2, <2>3 DEF Parting
<1> QED BY <1>8, <1>9, <1>11, <1>12 DEF RingCalm

LEMMA JoinStart ==
    ASSUME NEW R, Ring(R)!AccountsAssumption, RingTyped(R), Ordered(op), RingCalm(R), NEW s \in R.Slot, Ring(R)!Join(s), R.Patient
    PROVE  RingCalm(R)'
<1>1. /\ op = <<>> /\ sw = <<>> /\ s \notin joined /\ disk.bind = R.None /\ sending = R.None /\ op' = Ring(R)!Joining(s)
      /\ joined' = joined \cup {s} /\ UNCHANGED <<disk, mem, sw, bound, left, sending>>
  BY DEF Ring!Join, Ring!Quiet
<1>2. R.Home[s] \in R.Community /\ R.None \notin R.Slot
  BY DEF Ring!AccountsAssumption
<1>3. /\ \A d, x : ~Due(R, d, x)
      /\ Staying(R) = disk.list /\ Keys(R) = disk.key /\ Datas(R) = disk.data /\ Comms(R) = disk.comms
  BY <1>1, QuietFacts
<1>4. /\ op' # <<>> /\ op'[Len(op')] = Ring(R)!Step("reconnect", s) /\ Elems(op') = JoinSteps(R, s)
      /\ \A i \in DOMAIN op' : op'[i].do = "reconnect" => i = Len(op')
  BY <1>1, <1>2, JoiningForm
<1>5. \A t \in JoinSteps(R, s) : /\ t.do \in JoinDo => t.of = s
                                 /\ t.do \in {"comm", "cid"} => t.of = R.Home[s]
                                 /\ t.do \notin {"unlist", "unkey", "undata", "uncomm", "unlast", "unbind"}
  BY StepIs DEF JoinSteps, JoinDo
<1>6. JoinForm(R, s)'
  BY <1>4, <1>5 DEF JoinForm
<1>7. /\ \A d \in {"list", "key", "data", "bind", "active", "teardown", "enrolled"} : \A x : Due(R, d, x)' <=> x = s
      /\ \A d \in {"comm", "cid"} : \A x : Due(R, d, x)' <=> x = R.Home[s]
      /\ \A d \in {"unlist", "unkey", "undata", "uncomm", "unlast", "unbind"} : \A x : ~Due(R, d, x)'
  <2>1. \A d \in {"list", "key", "data", "bind", "active", "teardown", "enrolled"} : Ring(R)!Step(d, s) \in JoinSteps(R, s)
    BY DEF JoinSteps
  <2>2. \A d \in {"comm", "cid"} : Ring(R)!Step(d, R.Home[s]) \in JoinSteps(R, s)
    BY DEF JoinSteps
  <2>3. \A d, x : Due(R, d, x)' <=> Ring(R)!Step(d, x) \in JoinSteps(R, s)
    BY <1>4 DEF Due
  <2>4. /\ \A d \in {"list", "key", "data", "bind", "active", "teardown", "enrolled"} : \A x : Ring(R)!Step(d, x) \in JoinSteps(R, s) => x = s
        /\ \A d \in {"comm", "cid"} : \A x : Ring(R)!Step(d, x) \in JoinSteps(R, s) => x = R.Home[s]
        /\ \A d \in {"unlist", "unkey", "undata", "uncomm", "unlast", "unbind"} : \A x : Ring(R)!Step(d, x) \notin JoinSteps(R, s)
    <3>1. \A d, x : Ring(R)!Step(d, x).do = d /\ Ring(R)!Step(d, x).of = x
      BY StepIs
    <3> QED BY <1>5, <3>1 DEF JoinDo
  <2> QED BY <2>1, <2>2, <2>3, <2>4
<1>8. disk.list \subseteq joined /\ disk.key \subseteq joined /\ disk.data \subseteq joined /\ disk.comms \subseteq R.Community
  BY DEF RingTyped, DiskOf
<1>9. Staying(R)' = Staying(R) \cup {s} /\ Keys(R)' = Keys(R) \cup {s} /\ Datas(R)' = Datas(R) \cup {s} /\ Comms(R)' = Comms(R) \cup {R.Home[s]}
  <2>1. Staying(R)' = Staying(R) \cup {s}
    BY <1>1, <1>3, <1>7, <1>8 DEF Staying
  <2>2. Keys(R)' = Keys(R) \cup {s}
    BY <1>1, <1>3, <1>7, <1>8 DEF Keys
  <2>3. Datas(R)' = Datas(R) \cup {s}
    BY <1>1, <1>3, <1>7, <1>8 DEF Datas
  <2>4. Comms(R)' = Comms(R) \cup {R.Home[s]}
    BY <1>1, <1>2, <1>3, <1>7, <1>8 DEF Comms
  <2> QED BY <2>1, <2>2, <2>3, <2>4
<1>10. Sums(R)'
  BY <1>9 DEF RingCalm, Sums
<1>11. Lasts(R)'
  <2> SUFFICES ASSUME NEW c \in R.Community
               PROVE  (disk.last[c] = R.None \/ disk.last[c] \in Staying(R) \/ Due(R, "unlast", disk.last[c]))'
    BY DEF Lasts
  <2>1. disk.last[c] = R.None \/ disk.last[c] \in Staying(R)
    BY <1>3 DEF RingCalm, Lasts
  <2> QED BY <1>1, <1>9, <2>1
<1>12. Unbound = {} /\ Unbound' \subseteq {s}
  <2>1. \A x \in Unbound : disk.bind = x /\ x \in R.Slot
    BY <1>3 DEF RingCalm, Owes, RingTyped, Unbound
  <2>2. Unbound = {}
    BY <1>1, <1>2, <2>1
  <2> QED BY <1>1, <2>2 DEF Unbound
<1>13. JoinAt(R, s)'
  BY <1>6, <1>7, <1>9 DEF JoinAt
<1>14. Enrolling(R)'
  BY <1>1, <1>12, <1>13 DEF Enrolling
<1>15. Owes(R)'
  BY <1>1, <1>7, <1>9, <1>12 DEF Owes
<1> QED BY <1>10, <1>11, <1>14, <1>15 DEF RingCalm

\* Which of the three is under way, seen from the step it is at.
LEMMA StageFacts ==
    ASSUME NEW R, RingTyped(R), RingCalm(R)
    PROVE  /\ op # <<>> /\ Head(op) \in JoinOf(R, joined) => Enrolling(R)
           /\ op # <<>> /\ Head(op) \in LeaveOf(R, joined) /\ Head(op).do # "settle" => Leaves(R)
           /\ sw # <<>> => Switches(R)
           /\ op = <<>> /\ sw = <<>> => Leaves(R)
           /\ op # <<>> /\ sw = <<>> /\ Head(op).do = "settle" => Leaves(R)
<1>1. ASSUME Enrolling(R) PROVE op # <<>> /\ Head(op) \in JoinOf(R, joined) /\ sw = <<>> /\ Head(op) \notin LeaveOf(R, joined) /\ Head(op).do # "settle"
  <2>1. PICK s \in joined : JoinAt(R, s)
    BY <1>1 DEF Enrolling
  <2>2. op # <<>> /\ Head(op) \in JoinOf(R, joined)
    BY <2>1, JoinsHead DEF JoinAt, JoinForm
  <2> QED BY <1>1, <2>2 DEF Enrolling, JoinOf, LeaveOf, JoinDo, LeaveDo
<1>2. ASSUME Switches(R) PROVE sw # <<>> /\ (op # <<>> => Head(op).do = "settle")
  <2>1. PICK s \in joined, k \in 0..4 : SwitchAt(R, s, k)
    BY <1>2 DEF Switches
  <2>2. Rest(R, s, k) # <<>>
    BY RestFacts
  <2>3. Ring(R)!Step("settle", s).do = "settle"
    BY StepIs
  <2> QED BY <2>1, <2>2, <2>3 DEF SwitchAt
<1>3. ASSUME op \in Seq(LeaveOf(R, joined)), op # <<>> PROVE Head(op) \notin JoinOf(R, joined)
  <2>1. Head(op) \in LeaveOf(R, joined)
    BY <1>3, HeadFacts
  <2> QED BY <2>1 DEF JoinOf, LeaveOf, JoinDo, LeaveDo
<1> QED BY <1>1, <1>2, <1>3 DEF RingCalm, Leaves, Switches

\* A step of the join or the removal under way that may write.
LEMMA OpCalm ==
    ASSUME NEW R, Ring(R)!AccountsAssumption, RingTyped(R), Ordered(op), RingCalm(R), op # <<>>, op' = Tail(op), UNCHANGED <<joined, sw, left, bound>>,
           Wrote(R, disk, Head(op), disk', joined), sending' \in {sending, R.None},
           Head(op).do \in {"teardown", "enrolled", "publish"} \/ Ring(R)!Pure(Head(op)),
           Follows(R, Head(op), Head(op).of)
    PROVE  RingCalm(R)'
<1>1. Moves(R)
  BY ShiftFacts
<1>2. Same(R)
  BY <1>1, SameFacts
<1>3. Sums(R)'
  BY <1>2, SumsSame DEF RingCalm
<1>4. Unbound' \subseteq Unbound
  BY DEF Unbound
<1>5. Head(op).do \notin Leads /\ Head(op).do # "reconnect"
  BY DEF Ring!Pure, Leads
<1>6. CASE Head(op) \in JoinOf(R, joined)
  <2>1. PICK s \in joined : JoinAt(R, s) /\ Unbound \subseteq {s}
    BY <1>6, StageFacts DEF Enrolling
  <2>2. sw = <<>>
    BY <1>6, StageFacts DEF Enrolling
  <2>3. JoinForm(R, s) /\ s \in Staying(R)
    BY <2>1 DEF JoinAt
  <2>4. Head(op).do \in JoinDo => Head(op).of = s
    BY <2>3, JoinFormMove
  <2>5. Follows(R, Head(op), s)
    BY <2>4 DEF Follows, JoinDo
  <2>6. Enrolling(R)'
    BY <1>1, <1>2, <1>4, <1>5, <2>1, <2>2, <2>5, JoinsMove
  <2>7. Lasts(R)'
    BY <1>1, <1>2, <2>3, <2>4, LastsMove DEF RingCalm, Moves, JoinDo
  <2>8. \A x \in joined : Due(R, "bind", x) => x = s
    BY <2>3, StepIs DEF JoinForm, Due, JoinDo
  <2>9. Owes(R)'
    BY <1>1, <1>2, <1>4, <2>1, <2>4, <2>8, OwesMove DEF RingCalm, JoinDo
  <2> QED BY <1>3, <2>6, <2>7, <2>9 DEF RingCalm
<1>7. CASE Head(op) \in LeaveOf(R, joined)
  <2>1. Leaves(R)
    BY <1>5, <1>7, StageFacts DEF Leads
  <2>2. Head(op).do \notin {"teardown", "enrolled", "publish", "last", "bind"}
    BY <1>7 DEF LeaveOf, LeaveDo
  <2>3. mem' = mem
    BY <2>2 DEF Follows
  <2>4. LeaveForm(R) /\ Based(R) /\ sw = <<>> /\ op \in Seq(LeaveOf(R, joined))
    BY <1>5, <2>1 DEF Leaves, LeaveAt
  <2>5. LeaveForm(R)'
    BY <1>1, <1>2, <2>4, LeaveFormMove
  <2>6. Based(R)'
    BY <1>1, <1>2, <1>7, <2>3, <2>4, <2>5, BasedMove DEF RingCalm
  <2>7. op' \in Seq(LeaveOf(R, joined')) /\ Plain(op')
    BY <1>1, <1>7, OpFacts DEF Moves
  <2>8. Leaves(R)'
    BY <2>4, <2>5, <2>6, <2>7, LeavesOn
  <2>9. Lasts(R)'
    BY <1>1, <1>2, <2>2, LastsMove DEF RingCalm, Moves
  <2>10. Owes(R)'
    BY <1>1, <1>2, <1>4, <2>2, OwesMove DEF RingCalm
  <2> QED BY <1>3, <2>8, <2>9, <2>10 DEF RingCalm
<1> QED BY <1>6, <1>7, OpFacts

\* When neither the steps to come nor the four records change.
LEMMA StillFacts ==
    ASSUME NEW R, UNCHANGED <<op, joined>>, disk'.list = disk.list, disk'.key = disk.key, disk'.data = disk.data, disk'.comms = disk.comms
    PROVE  Same(R) /\ \A d, x : Due(R, d, x)' <=> Due(R, d, x)
<1>1. \A d, x : Due(R, d, x)' <=> Due(R, d, x)
  BY DEF Due
<1> QED BY <1>1 DEF Same, Staying, Keys, Datas, Comms

LEMMA StageStill ==
    ASSUME NEW R, RingTyped(R), RingCalm(R), Same(R), \A d, x : Due(R, d, x)' <=> Due(R, d, x), UNCHANGED <<op, joined, sw, mem, left>>, bound \subseteq bound',
           disk'.active = disk.active, disk'.cid = disk.cid, disk'.last = disk.last
    PROVE  /\ Sums(R)' /\ Lasts(R)' /\ (Enrolling(R) \/ Leaves(R) \/ Switches(R))' /\ Unbound' \subseteq Unbound
<1>1. Sums(R)'
  BY SumsSame DEF RingCalm
<1>2. Lasts(R)'
  <2> SUFFICES ASSUME NEW c \in R.Community
               PROVE  (disk.last[c] = R.None \/ disk.last[c] \in Staying(R) \/ Due(R, "unlast", disk.last[c]))'
    BY DEF Lasts
  <2>1. disk.last[c] = R.None \/ disk.last[c] \in Staying(R) \/ Due(R, "unlast", disk.last[c])
    BY DEF RingCalm, Lasts
  <2> QED BY <2>1 DEF Same, Due
<1>3. Unbound' \subseteq Unbound
  BY DEF Unbound
<1>4. LeaveForm(R) => LeaveForm(R)'
  BY DEF LeaveForm, Same
<1>5. (OnStaying(R) => OnStaying(R)') /\ (NoneStays(R) => NoneStays(R)') /\ (Based(R) => Based(R)')
  <2>1. OnStaying(R) => OnStaying(R)'
    BY DEF OnStaying, Same
  <2>2. NoneStays(R) => NoneStays(R)'
    BY DEF NoneStays, Same, Due
  <2> QED BY <2>1, <2>2 DEF Based
<1>6. CASE Enrolling(R)
  <2>1. PICK s \in joined : JoinAt(R, s) /\ Unbound \subseteq {s}
    BY <1>6 DEF Enrolling
  <2>2. JoinForm(R, s)'
    BY <2>1 DEF JoinAt, JoinForm
  <2>3. JoinAt(R, s)'
    BY <2>1, <2>2 DEF JoinAt, Same
  <2> QED BY <1>1, <1>2, <1>3, <1>6, <2>1, <2>3 DEF Enrolling
<1>7. CASE Leaves(R)
  <2>1. LeaveAt(R)'
    BY <1>5, <1>7 DEF Leaves, LeaveAt, Same
  <2> QED BY <1>1, <1>2, <1>3, <1>4, <1>7, <2>1 DEF Leaves
<1>8. CASE Switches(R)
  <2>1. PICK s \in joined, k \in 0..4 : SwitchAt(R, s, k)
    BY <1>8 DEF Switches
  <2>2. SwitchAt(R, s, k)'
    BY <2>1 DEF SwitchAt, Same
  <2> QED BY <1>1, <1>2, <1>3, <1>4, <1>8, <2>2 DEF Switches
<1> QED BY <1>6, <1>7, <1>8 DEF RingCalm

LEMMA RelayCalm ==
    ASSUME NEW R, Ring(R)!AccountsAssumption, RingTyped(R), RingCalm(R), Ring(R)!Connect \/ Ring(R)!RelayBinds \/ Ring(R)!Answer \/ Ring(R)!Disconnect \/ UNCHANGED Ring(R)!vars
    PROVE  RingCalm(R)'
<1>1. disk \in DiskOf(R, joined) /\ joined \subseteq R.Slot /\ R.None \notin R.Slot
  BY DEF RingTyped, Ring!AccountsAssumption
<1>2. /\ UNCHANGED <<op, joined, sw, mem, left>> /\ bound \subseteq bound'
      /\ disk'.list = disk.list /\ disk'.key = disk.key /\ disk'.data = disk.data /\ disk'.comms = disk.comms
      /\ disk'.active = disk.active /\ disk'.cid = disk.cid /\ disk'.last = disk.last
  BY <1>1 DEF Ring!Connect, Ring!RelayBinds, Ring!Answer, Ring!Disconnect, Ring!Closed, Ring!vars, Ring!hist, DiskOf
<1>3. Same(R) /\ \A d, x : Due(R, d, x)' <=> Due(R, d, x)
  BY <1>2, StillFacts
<1>4. Sums(R)' /\ Lasts(R)' /\ (Enrolling(R) \/ Leaves(R) \/ Switches(R))' /\ Unbound' \subseteq Unbound
  BY <1>2, <1>3, StageStill
<1>5. \A s \in Unbound' : s \in Unbound /\ s \in Staying(R)'
  BY <1>3, <1>4 DEF RingCalm, Owes, Same
<1>6. \A s \in joined : Due(R, "unbind", s)' => s \in bound'
  BY <1>2, <1>3 DEF RingCalm, Owes
<1>7. CASE Ring(R)!RelayBinds \/ Ring(R)!Disconnect \/ UNCHANGED Ring(R)!vars
  <2>1. disk' = disk /\ sending' \in {sending, R.None}
    BY <1>7 DEF Ring!RelayBinds, Ring!Disconnect, Ring!Closed, Ring!vars
  <2>2. Owes(R)'
    BY <1>2, <1>3, <1>5, <1>6, <2>1, OwesSame DEF RingCalm
  <2> QED BY <1>4, <2>2 DEF RingCalm
<1>8. CASE Ring(R)!Connect
  <2>1. disk' = disk /\ bound' = bound /\ sending' \in {disk.bind, R.None} /\ Unbound' = Unbound
    BY <1>8 DEF Ring!Connect, Ring!hist, Unbound
  <2>2. disk.bind # R.None => Unbound \subseteq {disk.bind}
    <3>1. ASSUME disk.bind # R.None, NEW x \in Unbound PROVE x = disk.bind
      <4>1. disk.bind = x \/ Due(R, "bind", x)
        BY DEF RingCalm, Owes
      <4>2. x \in joined
        BY DEF Unbound
      <4> QED BY <3>1, <4>1, <4>2 DEF RingCalm, Owes
    <3> QED BY <3>1
  <2>3. Owes(R)'
    BY <1>2, <1>3, <1>5, <1>6, <2>1, <2>2 DEF RingCalm, Owes, Same
  <2> QED BY <1>4, <2>3 DEF RingCalm
<1>9. CASE Ring(R)!Answer
  <2>1. sending # R.None /\ sending' = R.None /\ UNCHANGED <<bound, conn>> /\ Unbound' = Unbound
    BY <1>9 DEF Ring!Answer, Ring!hist, Unbound
  <2>2. CASE R.Home[sending] = conn
    <3>1. sending \in bound /\ disk'.bind = R.None
      BY <1>1, <1>9, <2>2 DEF Ring!Answer, DiskOf
    <3>2. Unbound = {}
      BY <2>1, <3>1 DEF RingCalm, Owes, Unbound
    <3>3. Owes(R)'
      BY <1>2, <1>6, <2>1, <3>1, <3>2 DEF Owes
    <3> QED BY <1>4, <3>3 DEF RingCalm
  <2>3. CASE R.Home[sending] # conn
    <3>1. disk'.bind = disk.bind
      BY <1>1, <1>9, <2>3 DEF Ring!Answer, DiskOf
    <3>2. Owes(R)'
      BY <1>2, <1>3, <1>5, <1>6, <2>1, <3>1, OwesSame DEF RingCalm
    <3> QED BY <1>4, <3>2 DEF RingCalm
  <2> QED BY <2>2, <2>3
<1> QED BY <1>7, <1>8, <1>9

LEMMA SwitchCalm ==
    ASSUME NEW R, Ring(R)!AccountsAssumption, RingTyped(R), RingCalm(R), Ring(R)!Freeze \/ Ring(R)!SwWrite \/ Ring(R)!Repointed
    PROVE  RingCalm(R)'
<1>1. sw # <<>> /\ Switches(R)
  BY StageFacts DEF Ring!Freeze, Ring!SwWrite, Ring!Repointed
<1>2. PICK s \in joined, k \in 0..4 : SwitchAt(R, s, k)
  BY <1>1 DEF Switches
<1>3. Head(sw) = Ring(R)!Step(CASE k = 0 -> "freeze" [] k = 1 -> "active" [] k = 2 -> "last" [] k = 3 -> "cid" [] k = 4 -> "repointed",
                      IF k = 3 THEN R.Home[s] ELSE s)
  BY <1>2, RestFacts DEF SwitchAt
<1>4. /\ k < 4 => Tail(sw) = Rest(R, s, k + 1)
      /\ k = 4 => Tail(sw) = <<>>
  BY <1>2, RestFacts DEF SwitchAt
<1>5. UNCHANGED <<op, joined, left, bound>> /\ sending' \in {sending, R.None} /\ sw' = Tail(sw)
  BY DEF Ring!Freeze, Ring!SwWrite, Ring!Repointed, Ring!Closed, Ring!Tied, Ring!hist
<1>6. PICK t : t = Head(sw) /\ t \in SwitchOf(R, joined)
  BY <1>1, SwFacts
<1>7. Wrote(R, disk, t, disk', joined)
  <2>1. CASE Ring(R)!SwWrite
    BY <1>6, <2>1, WriteTypes DEF Ring!SwWrite
  <2>2. CASE Ring(R)!Freeze \/ Ring(R)!Repointed
    <3>1. disk' = disk /\ t.do \in {"freeze", "repointed"}
      BY <1>6, <2>2 DEF Ring!Freeze, Ring!Repointed
    <3>2. disk' \in Ring(R)!Written(disk, t)
      BY <3>1 DEF Ring!Written
    <3> QED BY <1>6, <3>2, WriteTypes
  <2> QED BY <2>1, <2>2
<1>8. t.do \in {"freeze", "active", "last", "cid", "repointed"}
  BY <1>6 DEF SwitchOf, SwitchDo
<1>9. /\ disk'.list = disk.list /\ disk'.key = disk.key /\ disk'.data = disk.data /\ disk'.comms = disk.comms
      /\ disk'.bind = disk.bind
  BY <1>7, <1>8 DEF Wrote, Added
<1>10. Same(R) /\ \A d, x : Due(R, d, x)' <=> Due(R, d, x)
  BY <1>5, <1>9, StillFacts
<1>11. Sums(R)' /\ LeaveForm(R)' /\ op' \in Seq(LeaveOf(R, joined'))
  BY <1>1, <1>5, <1>10, SumsSame DEF RingCalm, Switches, LeaveForm, Same
<1>12. k \in {0, 1, 2, 3, 4} /\ s \in Staying(R)
  BY <1>2 DEF SwitchAt
<1>13. /\ k = 0 => t.do = "freeze"
       /\ k = 1 => t.do = "active" /\ t.of = s
       /\ k = 2 => t.do = "last" /\ t.of = s
       /\ k = 3 => t.do = "cid" /\ t.of = R.Home[s]
       /\ k = 4 => t.do = "repointed" /\ t.of = s
  BY <1>3, <1>6, StepIs
<1>14. Lasts(R)'
  <2> SUFFICES ASSUME NEW c \in R.Community
               PROVE  (disk.last[c] = R.None \/ disk.last[c] \in Staying(R) \/ Due(R, "unlast", disk.last[c]))'
    BY DEF Lasts
  <2>1. PICK x : x = disk'.last[c]
    OBVIOUS
  <2>2. x = disk.last[c] \/ x = R.None \/ (t.do = "last" /\ x = t.of)
    BY <1>7, <2>1 DEF Wrote
  <2>3. t.do = "last" => t.of \in Staying(R)
    BY <1>12, <1>13
  <2>4. x = R.None \/ x \in Staying(R) \/ Due(R, "unlast", x)
    BY <2>2, <2>3 DEF RingCalm, Lasts
  <2> QED BY <1>10, <2>1, <2>4 DEF Same, Due
<1>15. Owes(R)'
  <2>1. \A x \in Unbound' : x \in Unbound /\ x \in Staying(R)'
    BY <1>5, <1>10 DEF RingCalm, Owes, Unbound, Same
  <2>2. \A x \in joined : Due(R, "unbind", x)' => x \in bound'
    BY <1>5, <1>10 DEF RingCalm, Owes
  <2> QED BY <1>5, <1>9, <1>10, <2>1, <2>2, OwesSame DEF RingCalm
<1>16. CASE k < 4
  <2>1. /\ k + 1 >= 2 => disk'.active = s
        /\ k + 1 >= 4 => disk'.cid = R.Home[s]
    <3>1. /\ t.do = "active" => disk'.active = t.of
          /\ t.do # "active" => disk'.active = disk.active
          /\ t.do = "cid" => disk'.cid = t.of
          /\ t.do # "cid" => disk'.cid = disk.cid
      BY <1>7, <1>8 DEF Wrote
    <3>2. k >= 2 => disk.active = s
      BY <1>2 DEF SwitchAt
    <3> QED BY <1>12, <1>13, <1>16, <3>1, <3>2
  <2>2. PICK m \in 0..4 : m = k + 1
    BY <1>16
  <2>3. sw' = Rest(R, s, m)
    BY <1>4, <1>5, <1>16, <2>2
  <2>4. SwitchAt(R, s, m)'
    BY <1>2, <1>5, <1>10, <2>1, <2>2, <2>3 DEF SwitchAt, Same
  <2>5. Switches(R)'
    BY <1>5, <1>11, <2>4 DEF Switches
  <2> QED BY <1>11, <1>14, <1>15, <2>5 DEF RingCalm
<1>17. CASE k = 4
  <2>1. Ring(R)!Repointed /\ sw' = <<>> /\ disk' = disk
    BY <1>4, <1>5, <1>6, <1>13, <1>17 DEF Ring!Freeze, Ring!SwWrite, Ring!Repointed, Ring!Pure
  <2>2. s \in disk.key
    <3>1. s \in Keys(R)
      BY <1>12 DEF RingCalm, Sums
    <3>2. ~Due(R, "key", s)
      BY <1>1, ApartFacts, WhoFacts DEF Switches, LeaveDo, CommDo
    <3> QED BY <3>1, <3>2 DEF Keys
  <2>3. mem' = [slot |-> s, cid |-> R.Home[s], enrolled |-> TRUE]
    BY <1>6, <1>13, <1>17, <2>1, <2>2 DEF Ring!Repointed, Ring!Named
  <2>4. disk.active = s /\ disk.cid = R.Home[s]
    BY <1>2, <1>17 DEF SwitchAt
  <2>5. OnStaying(R)'
    BY <1>10, <1>12, <2>1, <2>3, <2>4 DEF OnStaying, Same
  <2>6. op # <<>> => Head(op) = Ring(R)!Step("settle", s)
    BY <1>2 DEF SwitchAt
  <2>7. LeaveAt(R)'
    BY <1>5, <1>10, <1>12, <2>1, <2>4, <2>5, <2>6, StepIs DEF LeaveAt, Based, Same, Leads
  <2>8. Leaves(R)'
    BY <1>11, <2>1, <2>7 DEF Leaves
  <2> QED BY <1>11, <1>14, <1>15, <2>8 DEF RingCalm
<1> QED BY <1>12, <1>16, <1>17

LEMMA AwayCalm ==
    ASSUME NEW R, Ring(R)!AccountsAssumption, RingTyped(R), Ordered(op), RingCalm(R), Ring(R)!Drop \/ Ring(R)!GoAway \/ Ring(R)!Settle \/ Ring(R)!Reconnect
    PROVE  RingCalm(R)'
<1>1. op # <<>> /\ disk' = disk /\ UNCHANGED <<joined, left, bound>> /\ sending' \in {sending, R.None}
  BY DEF Ring!Drop, Ring!GoAway, Ring!Settle, Ring!Reconnect, Ring!Closed, Ring!Tied, Ring!hist
<1>2. Unbound' = Unbound
  BY <1>1 DEF Unbound
<1>3. Head(op).do \in {"drop", "away", "settle", "reconnect"}
  BY DEF Ring!Drop, Ring!GoAway, Ring!Settle, Ring!Reconnect
<1>4. Wrote(R, disk, Head(op), disk', joined)
  BY <1>1, <1>3, NoWrite
<1>5. ASSUME op' = Tail(op) PROVE Moves(R) /\ Same(R) /\ Sums(R)' /\ Lasts(R)' /\ Owes(R)' /\ Plain(op')
  <2>1. Moves(R)
    BY <1>1, <1>5, ShiftFacts
  <2>2. Same(R)
    BY <1>1, <1>4, <2>1, SameFacts
  <2>3. Lasts(R)'
    BY <1>3, <1>4, <2>1, <2>2, LastsMove DEF RingCalm, Moves
  <2>4. Owes(R)'
    BY <1>1, <1>2, <1>3, <1>4, <2>1, <2>2, OwesMove DEF RingCalm
  <2> QED BY <2>1, <2>2, <2>3, <2>4, SumsSame DEF RingCalm, Moves
<1>6. CASE Ring(R)!Reconnect
  <2>1. op' = Tail(op) /\ Head(op).do = "reconnect" /\ UNCHANGED <<mem, sw>>
    BY <1>6 DEF Ring!Reconnect
  <2>2. Enrolling(R)
    BY <1>1, <2>1, StageFacts, OpFacts DEF LeaveOf, LeaveDo
  <2>3. PICK s \in joined : JoinAt(R, s) /\ sw = <<>>
    BY <2>2 DEF Enrolling
  <2>4. Leaves(R)'
    BY <1>1, <1>5, <2>1, <2>3, JoinsEnd
  <2> QED BY <1>5, <2>1, <2>4 DEF RingCalm
<1>7. ASSUME Head(op).do \in {"drop", "away", "settle"}
      PROVE  Head(op) \in LeaveOf(R, joined) /\ op \in Seq(LeaveOf(R, joined)) /\ Tail(op) \in Seq(LeaveOf(R, joined))
  BY <1>1, <1>7, OpFacts DEF JoinOf, JoinDo
<1>8. CASE Ring(R)!Drop
  <2>1. op' = Tail(op) /\ Head(op).do = "drop" /\ UNCHANGED sw /\ mem' = [slot |-> R.None, cid |-> R.None, enrolled |-> FALSE]
    BY <1>8 DEF Ring!Drop
  <2>2. Leaves(R)
    BY <1>1, <1>7, <2>1, StageFacts
  <2>3. NoneStays(R) /\ sw = <<>> /\ LeaveForm(R)
    BY <1>1, <2>1, <2>2 DEF Leaves, LeaveAt
  <2>4. Same(R) /\ Moves(R) /\ Plain(op')
    BY <1>5, <2>1
  <2>5. LeaveForm(R)'
    BY <1>1, <2>3, <2>4, LeaveFormMove
  <2>6. \A x : (Due(R, "repoint", x) => Due(R, "repoint", x)') /\ (Due(R, "uncid", x) => Due(R, "uncid", x)')
    BY <2>1, <2>4 DEF Moves, Shifts
  <2>7. NoneStays(R)'
    BY <1>1, <2>3, <2>4, <2>6 DEF NoneStays, Same, Due
  <2>8. Leaves(R)'
    BY <1>1, <1>7, <2>1, <2>3, <2>4, <2>5, <2>7, LeavesOn DEF Based
  <2> QED BY <1>5, <2>1, <2>8 DEF RingCalm
<1>9. CASE Ring(R)!Settle
  <2>1. op' = Tail(op) /\ Head(op).do = "settle" /\ UNCHANGED <<mem, sw>> /\ sw = <<>>
    BY <1>9 DEF Ring!Settle
  <2>2. Leaves(R)
    BY <1>1, <2>1, StageFacts
  <2>3. OnStaying(R) /\ LeaveForm(R)
    BY <1>1, <2>1, <2>2 DEF Leaves, LeaveAt
  <2>4. Same(R) /\ Moves(R) /\ Plain(op')
    BY <1>5, <2>1
  <2>5. LeaveForm(R)'
    BY <1>1, <2>3, <2>4, LeaveFormMove
  <2>6. OnStaying(R)'
    BY <1>1, <2>1, <2>3, <2>4 DEF OnStaying, Same
  <2>7. Leaves(R)'
    BY <1>1, <1>7, <2>1, <2>4, <2>5, <2>6, LeavesOn DEF Based
  <2> QED BY <1>5, <2>1, <2>7 DEF RingCalm
<1>10. CASE Ring(R)!GoAway
  <2>1. Head(op).do = "away"
    BY <1>10 DEF Ring!GoAway
  <2>2. Leaves(R)
    BY <1>1, <1>7, <2>1, StageFacts
  <2>3. PICK s \in joined : s = Head(op).of
    BY <1>7, <2>1 DEF LeaveOf, LeaveDo
  <2>4. sw = <<>> /\ LeaveForm(R) /\ s \in Staying(R)
    BY <1>1, <2>1, <2>2, <2>3 DEF Leaves, LeaveAt
  <2>5. sw' = Ring(R)!Switching(s) /\ op' = <<Ring(R)!Step("settle", s)>> \o Tail(op)
    BY <1>10, <2>3, <2>4 DEF Ring!GoAway
  <2>6. PICK u : u = Ring(R)!Step("settle", s)
    OBVIOUS
  <2>7. u \in LeaveOf(R, joined) /\ u.do = "settle" /\ u.of = s
    BY <2>6 DEF LeaveOf, LeaveDo, Ring!Step
  <2>8. op' \in Seq(LeaveOf(R, joined))
    BY <1>7, <2>1, <2>5, <2>6, <2>7
  <2>9. Swaps(R, Head(op), u) /\ Head(op') = u /\ op' # <<>>
    BY <1>1, <2>5, <2>6, <2>7, <2>8, SwapFacts
  <2>10. \A d, x : d \notin {"away", "settle"} => (Due(R, d, x)' <=> Due(R, d, x))
    BY <2>1, <2>7, <2>9 DEF Swaps
  <2>11. Same(R)
    BY <1>1, <2>10 DEF Same, Staying, Keys, Datas, Comms
  <2>12. LeaveForm(R)'
    BY <1>1, <2>4, <2>10, <2>11 DEF LeaveForm, Same
  <2>13. SwitchAt(R, s, 0)'
    BY <2>4, <2>5, <2>6, <2>9, <2>11, RestFacts DEF SwitchAt, Same
  <2>14. Switches(R)'
    BY <1>1, <2>8, <2>12, <2>13 DEF Switches
  <2>15. Lasts(R)'
    <3> SUFFICES ASSUME NEW c \in R.Community
                 PROVE  (disk.last[c] = R.None \/ disk.last[c] \in Staying(R) \/ Due(R, "unlast", disk.last[c]))'
      BY DEF Lasts
    <3>1. PICK x : x = disk.last[c]
      OBVIOUS
    <3>2. x = R.None \/ x \in Staying(R) \/ Due(R, "unlast", x)
      BY <3>1 DEF RingCalm, Lasts
    <3>3. x = R.None \/ x \in Staying(R)' \/ Due(R, "unlast", x)'
      BY <2>10, <2>11, <3>2 DEF Same
    <3> QED BY <1>1, <3>1, <3>3 DEF Due
  <2>16. Owes(R)'
    <3>1. \A x \in Unbound' : x \in Unbound /\ x \in Staying(R)'
      BY <1>2, <2>11 DEF RingCalm, Owes, Same
    <3>2. \A x \in joined : (Due(R, "bind", x)' <=> Due(R, "bind", x)) /\ (Due(R, "unbind", x)' => x \in bound')
      BY <1>1, <2>10 DEF RingCalm, Owes
    <3> QED BY <1>1, <3>1, <3>2, OwesSame DEF RingCalm
  <2> QED BY <2>11, <2>14, <2>15, <2>16, SumsSame DEF RingCalm
<1> QED BY <1>6, <1>8, <1>9, <1>10

LEMMA BindCalm ==
    ASSUME NEW R, Ring(R)!AccountsAssumption, RingTyped(R), Ordered(op), RingCalm(R), Ring(R)!Publish \/ Ring(R)!Unbind
    PROVE  RingCalm(R)'
<1>1. op # <<>> /\ UNCHANGED <<joined, left, mem, sw, sending>> /\ Head(op).do \in {"publish", "unbind"} /\ disk \in DiskOf(R, joined)
  BY DEF Ring!Publish, Ring!Unbind, Ring!Tied, Ring!hist, RingTyped
<1>2. Head(op) \in JoinOf(R, joined)
  BY <1>1, OpFacts DEF LeaveOf, LeaveDo
<1>3. PICK s \in joined : JoinAt(R, s) /\ Unbound \subseteq {s}
  BY <1>1, <1>2, StageFacts DEF Enrolling
<1>4. sw = <<>> /\ JoinForm(R, s)
  BY <1>1, <1>2, <1>3, StageFacts DEF Enrolling, JoinAt
<1>5. Head(op).of = s
  BY <1>1, <1>4, OpFacts DEF JoinForm, HeadForm, JoinDo
<1>6. CASE Ring(R)!Publish /\ op' = Tail(op) /\ bound' = bound
  <2>1. disk' = disk /\ Head(op).do = "publish"
    BY <1>6 DEF Ring!Publish
  <2>2. Wrote(R, disk, Head(op), disk', joined)
    BY <1>1, <2>1, NoWrite
  <2>3. Follows(R, Head(op), Head(op).of)
    BY <1>1, <2>1 DEF Follows
  <2> QED BY <1>1, <1>6, <2>1, <2>2, <2>3, OpCalm
<1>7. CASE Ring(R)!Publish /\ op' = <<Ring(R)!Step("unbind", s)>> \o Tail(op) /\ bound' = bound \cup {s}
  <2>1. PICK u : u = Ring(R)!Step("unbind", s)
    OBVIOUS
  <2>2. u \in JoinOf(R, joined) /\ u.do = "unbind" /\ u.of = s
    BY <2>1 DEF JoinOf, JoinDo, Ring!Step
  <2>3. op' \in Seq(JoinOf(R, joined)) /\ disk' = disk /\ Head(op).do = "publish"
    BY <1>1, <1>2, <1>7, <2>1, <2>2, OpFacts DEF Ring!Publish
  <2>4. Swaps(R, Head(op), u)
    BY <1>1, <1>7, <2>1, <2>2, <2>3, SwapFacts
  <2>5. \A d, x : d \notin {"publish", "unbind"} => (Due(R, d, x)' <=> Due(R, d, x))
    BY <2>2, <2>3, <2>4 DEF Swaps
  <2>6. Same(R)
    BY <1>1, <2>3, <2>5 DEF Same, Staying, Keys, Datas, Comms
  <2>7. JoinForm(R, s)'
    BY <1>4, <1>7, <2>3, JoinFormSwap
  <2>8. JoinAt(R, s)'
    <3>1. /\ (Due(R, "active", s)' <=> Due(R, "active", s)) /\ (Due(R, "cid", R.Home[s])' <=> Due(R, "cid", R.Home[s]))
          /\ (Due(R, "teardown", s)' <=> Due(R, "teardown", s)) /\ (Due(R, "enrolled", s)' <=> Due(R, "enrolled", s))
      BY <2>5
    <3> QED BY <1>1, <1>3, <2>3, <2>6, <2>7, <3>1 DEF JoinAt, Same
  <2>9. Unbound' \subseteq Unbound
    BY <1>1, <1>7 DEF Unbound
  <2>10. Enrolling(R)'
    BY <1>1, <1>3, <1>4, <2>8, <2>9 DEF Enrolling
  <2>11. Lasts(R)'
    <3> SUFFICES ASSUME NEW c \in R.Community
                 PROVE  (disk.last[c] = R.None \/ disk.last[c] \in Staying(R) \/ Due(R, "unlast", disk.last[c]))'
      BY DEF Lasts
    <3>1. PICK x : x = disk.last[c]
      OBVIOUS
    <3>2. x = R.None \/ x \in Staying(R) \/ Due(R, "unlast", x)
      BY <3>1 DEF RingCalm, Lasts
    <3>3. x = R.None \/ x \in Staying(R)' \/ Due(R, "unlast", x)'
      BY <2>5, <2>6, <3>2 DEF Same
    <3> QED BY <2>3, <3>1, <3>3 DEF Due
  <2>12. Owes(R)'
    <3>1. \A x \in Unbound' : x \in Unbound /\ x \in Staying(R)'
      BY <2>6, <2>9 DEF RingCalm, Owes, Same
    <3>2. \A x \in joined : Due(R, "bind", x)' <=> Due(R, "bind", x)
      BY <2>5
    <3>3. \A x \in joined : Due(R, "unbind", x)' => x \in bound'
      BY <1>7, <2>2, <2>4 DEF RingCalm, Owes, Swaps
    <3> QED BY <1>1, <2>3, <3>1, <3>2, <3>3, OwesSame DEF RingCalm
  <2> QED BY <2>6, <2>10, <2>11, <2>12, SumsSame DEF RingCalm
<1>8. CASE Ring(R)!Unbind
  <2>1. /\ op' = Tail(op) /\ Head(op).do = "unbind" /\ disk' = [disk EXCEPT !.bind = R.None] /\ UNCHANGED bound
    BY <1>8 DEF Ring!Unbind
  <2>2. /\ disk'.list = disk.list /\ disk'.key = disk.key /\ disk'.data = disk.data /\ disk'.comms = disk.comms
        /\ disk'.active = disk.active /\ disk'.cid = disk.cid /\ disk'.last = disk.last /\ disk'.bind = R.None
    BY <1>1, <2>1 DEF DiskOf
  <2>3. Moves(R)
    BY <1>1, <2>1, ShiftFacts
  <2>4. \A d, x : (d # "unbind" => (Due(R, d, x)' <=> Due(R, d, x))) /\ (Due(R, d, x)' => Due(R, d, x))
    BY <2>1, <2>3 DEF Moves, Shifts
  <2>5. Same(R)
    BY <1>1, <2>2, <2>4 DEF Same, Staying, Keys, Datas, Comms
  <2>6. JoinForm(R, s)'
    BY <1>4, <2>1, JoinFormMove
  <2>7. JoinAt(R, s)'
    <3>1. /\ (Due(R, "active", s)' <=> Due(R, "active", s)) /\ (Due(R, "cid", R.Home[s])' <=> Due(R, "cid", R.Home[s]))
          /\ (Due(R, "teardown", s)' <=> Due(R, "teardown", s)) /\ (Due(R, "enrolled", s)' <=> Due(R, "enrolled", s))
      BY <2>4
    <3> QED BY <1>1, <1>3, <2>2, <2>5, <2>6, <3>1 DEF JoinAt, Same
  <2>8. Unbound' = Unbound
    BY <1>1, <2>1 DEF Unbound
  <2>9. Enrolling(R)'
    BY <1>1, <1>3, <1>4, <2>7, <2>8 DEF Enrolling
  <2>10. Lasts(R)'
    <3> SUFFICES ASSUME NEW c \in R.Community
                 PROVE  (disk.last[c] = R.None \/ disk.last[c] \in Staying(R) \/ Due(R, "unlast", disk.last[c]))'
      BY DEF Lasts
    <3>1. PICK x : x = disk.last[c]
      OBVIOUS
    <3>2. x = R.None \/ x \in Staying(R) \/ Due(R, "unlast", x)
      BY <3>1 DEF RingCalm, Lasts
    <3>3. x = R.None \/ x \in Staying(R)' \/ Due(R, "unlast", x)'
      BY <2>4, <2>5, <3>2 DEF Same
    <3> QED BY <2>2, <3>1, <3>3 DEF Due
  <2>11. Unbound = {}
    <3>1. s \in bound
      BY <1>5, <2>1, <2>3 DEF RingCalm, Owes, Moves
    <3> QED BY <1>3, <3>1 DEF Unbound
  <2>12. Owes(R)'
    BY <1>1, <2>1, <2>2, <2>4, <2>8, <2>11 DEF RingCalm, Owes
  <2> QED BY <2>5, <2>9, <2>10, <2>12, SumsSame DEF RingCalm
<1> QED BY <1>5, <1>6, <1>7, <1>8 DEF Ring!Publish

LEMMA LeaveCalm ==
    ASSUME NEW R, Ring(R)!AccountsAssumption, RingTyped(R), RingCalm(R), ~R.Overlap, NEW s \in R.Slot, Ring(R)!Leave(s)
    PROVE  RingCalm(R)'
<1>1. /\ op = <<>> /\ sw = <<>> /\ s \in disk.list /\ left' = left \cup {s}
      /\ UNCHANGED <<disk, mem, sw, joined, bound, sending>>
  BY DEF Ring!Leave, Ring!MayLeave
<1>2. PICK next \in Ring(R)!Next1(s) : op' = Ring(R)!Leaving(s, next)
  BY DEF Ring!Leave
<1>3. disk.list \subseteq joined /\ R.None \notin joined
  BY DEF RingTyped, DiskOf, Ring!AccountsAssumption
<1>4. s \in joined /\ R.Home[s] \in R.Community /\ next \in joined \cup {R.None}
  BY <1>1, <1>2, <1>3 DEF Ring!Next1, Ring!AccountsAssumption
<1>5. /\ \A d, x : ~Due(R, d, x)
      /\ Staying(R) = disk.list /\ Keys(R) = disk.key /\ Datas(R) = disk.data /\ Comms(R) = disk.comms
  BY <1>1, QuietFacts
<1>6. OnStaying(R)
  BY <1>1, <1>5, StageFacts DEF Leaves, LeaveAt, Based, NoneStays
<1>7. Sums(R) /\ Comms(R) = {R.Home[x] : x \in Staying(R)}
  BY DEF RingCalm, Sums
<1> DEFINE final == disk.list \cap Ring(R)!In(R.Home[s]) = {s}
           C == IF final THEN {R.Home[s]} ELSE {}
           A == IF disk.active = s THEN {Lead(R, next)} ELSE {}
<1>8. Formed(op', LeaveOf(R, joined), A, SlotSteps(R, {s}) \cup CommSteps(R, C))
  BY <1>2, <1>4, LeavingForm
<1>9. \A x \in disk.list : R.Home[x] = R.Home[s] <=> x \in disk.list \cap Ring(R)!In(R.Home[s])
  BY <1>3 DEF Ring!In, RingTyped
<1>10. Comms(R) \ C = {R.Home[x] : x \in Staying(R) \ {s}}
  <2>1. CASE final
    <3>1. \A x \in Staying(R) : R.Home[x] = R.Home[s] <=> x = s
      BY <1>5, <1>9, <2>1
    <3> QED BY <1>7, <2>1, <3>1
  <2>2. CASE ~final
    <3>1. PICK y \in disk.list : y # s /\ R.Home[y] = R.Home[s]
      BY <1>1, <1>9, <2>2
    <3> QED BY <1>5, <1>7, <2>2, <3>1
  <2> QED BY <2>1, <2>2
<1>11. Parting(R, {s}, C, A)
  <2>1. {s} \subseteq disk.list /\ C \subseteq R.Community
    BY <1>1, <1>4
  <2>2. CASE disk.active # s
    BY <1>6, <1>10, <2>1, <2>2 DEF Parting
  <2>3. CASE disk.active = s /\ next # R.None
    <3>1. next \in disk.list \ {s}
      BY <1>2, <2>3 DEF Ring!Next1
    <3>2. A = {Ring(R)!Step("away", next)} /\ next \in Staying(R) \ {s}
      BY <1>5, <2>3, <3>1 DEF Lead
    <3> QED BY <1>10, <2>1, <3>2 DEF Parting
  <2>4. CASE disk.active = s /\ next = R.None
    <3>1. disk.list \ {s} = {}
      BY <1>2, <1>3, <2>4 DEF Ring!Next1
    <3>2. final
      BY <1>1, <1>9, <3>1
    <3>3. disk.cid = R.Home[s]
      BY <1>6, <2>4 DEF OnStaying
    <3>4. A = {Ring(R)!Step("drop", R.None)}
      BY <2>4 DEF Lead
    <3>5. Staying(R) \subseteq {s} /\ disk.active \in {s} /\ disk.cid \in C
      BY <1>5, <2>4, <3>1, <3>2, <3>3
    <3> QED BY <1>10, <2>1, <3>4, <3>5 DEF Parting
  <2> QED BY <2>2, <2>3, <2>4
<1> HIDE DEF A, C
<1> QED BY <1>1, <1>7, <1>8, <1>11, LeaveStart DEF RingCalm

LEMMA QuitCalm ==
    ASSUME NEW R, Ring(R)!AccountsAssumption, RingTyped(R), RingCalm(R), ~R.Overlap, NEW c \in R.Community, Ring(R)!Quit(c)
    PROVE  RingCalm(R)'
<1>1. /\ op = <<>> /\ sw = <<>> /\ c \in disk.comms /\ left' = left \cup (disk.list \cap Ring(R)!In(c))
      /\ UNCHANGED <<disk, mem, sw, joined, bound, sending>>
  BY DEF Ring!Quit, Ring!MayLeave
<1> DEFINE S == disk.list \cap Ring(R)!In(c)
           others == UNION {Ring(R)!resolveSlot(d) : d \in disk.comms \ {c}}
<1>2. PICK next \in IF others = {} THEN {R.None} ELSE others, mine \in Ring(R)!Orders(S) : op' = Ring(R)!Quitting(c, next, mine)
  BY DEF Ring!Quit
<1>3. disk.list \subseteq joined /\ R.None \notin joined /\ disk.comms \subseteq R.Community
  BY DEF RingTyped, DiskOf, Ring!AccountsAssumption
<1>4. /\ \A d, x : ~Due(R, d, x)
      /\ Staying(R) = disk.list /\ Keys(R) = disk.key /\ Datas(R) = disk.data /\ Comms(R) = disk.comms
  BY <1>1, QuietFacts
<1>5. Sums(R) /\ Comms(R) = {R.Home[x] : x \in Staying(R)}
  BY DEF RingCalm, Sums
<1>6. \A x \in disk.list : R.Home[x] = c <=> x \in S
  BY <1>3 DEF Ring!In, RingTyped
<1>7. OnStaying(R)
  <2>1. Staying(R) # {}
    BY <1>1, <1>4, <1>5
  <2> QED BY <1>1, <2>1, StageFacts DEF Leaves, LeaveAt, Based, NoneStays
<1>8. \A d \in disk.comms \ {c} : Ring(R)!resolveSlot(d) \subseteq disk.list \ S /\ Ring(R)!resolveSlot(d) # {}
  <2> SUFFICES ASSUME NEW d \in disk.comms \ {c} PROVE Ring(R)!resolveSlot(d) \subseteq disk.list \ S /\ Ring(R)!resolveSlot(d) # {}
    OBVIOUS
  <2>1. PICK y \in disk.list : R.Home[y] = d
    BY <1>4, <1>5
  <2>2. y \in disk.list \cap Ring(R)!In(d)
    BY <1>3, <2>1 DEF Ring!In, RingTyped
  <2>3. Ring(R)!resolveSlot(d) # {} /\ Ring(R)!resolveSlot(d) \subseteq disk.list \cap Ring(R)!In(d)
    BY <2>2 DEF Ring!resolveSlot
  <2>4. disk.list \cap Ring(R)!In(d) \subseteq disk.list \ S
    BY DEF Ring!In
  <2> QED BY <2>3, <2>4
<1>9. others \subseteq disk.list \ S
  BY <1>8
<1>10. next \in joined \cup {R.None}
  BY <1>2, <1>3, <1>9
<1> DEFINE A == IF disk.cid = c THEN {Lead(R, next)} ELSE {}
<1>11. Formed(op', LeaveOf(R, joined), A, SlotSteps(R, S) \cup CommSteps(R, {c}))
  <2>1. Ring(R)!Cardinality(S) \in Nat /\ S \subseteq joined
    BY QuitFacts
  <2> HIDE DEF S
  <2> QED BY <1>2, <1>10, <2>1, QuittingForm
<1>12. Comms(R) \ {c} = {R.Home[x] : x \in Staying(R) \ S}
  BY <1>4, <1>5, <1>6
<1>13. Parting(R, S, {c}, A)
  <2>1. S \subseteq disk.list /\ {c} \subseteq R.Community
    OBVIOUS
  <2>2. disk.active \in disk.list /\ disk.cid = R.Home[disk.active]
    BY <1>4, <1>7 DEF OnStaying
  <2>3. disk.cid = c <=> disk.active \in S
    BY <1>6, <2>2
  <2> HIDE DEF S
  <2>4. CASE disk.cid # c
    BY <1>7, <1>12, <2>1, <2>3, <2>4 DEF Parting
  <2>5. CASE disk.cid = c /\ others # {}
    <3>1. next \in Staying(R) \ S /\ next # R.None
      BY <1>2, <1>3, <1>4, <1>9, <2>5
    <3>2. A = {Ring(R)!Step("away", next)}
      BY <2>5, <3>1 DEF Lead
    <3> QED BY <1>12, <2>1, <3>1, <3>2 DEF Parting
  <2>6. CASE disk.cid = c /\ others = {}
    <3>1. disk.comms \ {c} = {}
      BY <1>8, <2>6
    <3>2. Staying(R) \subseteq S
      BY <1>4, <1>12, <3>1
    <3>3. A = {Ring(R)!Step("drop", R.None)}
      BY <1>2, <2>6 DEF Lead
    <3> QED BY <1>12, <2>1, <2>3, <2>6, <3>2, <3>3 DEF Parting
  <2> QED BY <2>4, <2>5, <2>6
<1> HIDE DEF A, S
<1>14. left' = left \cup S
  BY <1>1 DEF S
<1> QED BY <1>1, <1>5, <1>11, <1>13, <1>14, LeaveStart DEF RingCalm

LEMMA RingCalmInit ==
    ASSUME NEW R, Ring(R)!AccountsAssumption, Ring(R)!Init
    PROVE  RingCalm(R)
<1>1. /\ disk.list = {} /\ disk.key = {} /\ disk.data = {} /\ disk.comms = {} /\ disk.active = R.None /\ disk.cid = R.None
      /\ \A c \in R.Community : disk.last[c] = R.None
      /\ mem = [slot |-> R.None, cid |-> R.None, enrolled |-> FALSE] /\ op = <<>> /\ sw = <<>> /\ sending = R.None /\ joined = {}
  BY DEF Ring!Init
<1>2. RingTyped(R)
  BY RingInit
<1>3. /\ \A d, x : ~Due(R, d, x)
      /\ Staying(R) = {} /\ Keys(R) = {} /\ Datas(R) = {} /\ Comms(R) = {}
  BY <1>1, <1>2, QuietFacts
<1>4. Sums(R) /\ Lasts(R)
  BY <1>1, <1>3 DEF Sums, Lasts
<1>5. Owes(R)
  BY <1>1 DEF Owes, Unbound
<1>6. Leaves(R)
  <2>1. Based(R)
    BY <1>1, <1>3 DEF Based, NoneStays
  <2>2. LeaveForm(R)
    BY <1>3 DEF LeaveForm
  <2> QED BY <1>1, <2>1, <2>2 DEF Leaves, LeaveAt
<1> QED BY <1>4, <1>5, <1>6 DEF RingCalm

LEMMA TurnCalm ==
    ASSUME NEW R, Ring(R)!AccountsAssumption, RingTyped(R), RingCalm(R), NEW s \in R.Slot, Ring(R)!Switch(s)
    PROVE  RingCalm(R)'
<1>1. /\ op = <<>> /\ sw = <<>> /\ s \in disk.list /\ sw' = Ring(R)!Switching(s)
      /\ UNCHANGED <<disk, mem, op, sending, bound, joined, left>>
  BY DEF Ring!Switch, Ring!Quiet
<1>2. Same(R) /\ \A d, x : Due(R, d, x)' <=> Due(R, d, x)
  BY <1>1, StillFacts
<1>3. Staying(R) = disk.list /\ disk.list \subseteq joined
  BY <1>1, QuietFacts DEF RingTyped, DiskOf
<1>4. Leaves(R)
  BY <1>1, StageFacts
<1>5. LeaveForm(R)'
  BY <1>1, <1>2, <1>4 DEF Leaves, LeaveForm, Same
<1>6. SwitchAt(R, s, 0)'
  BY <1>1, <1>2, <1>3, RestFacts DEF SwitchAt, Same
<1>7. Switches(R)'
  BY <1>1, <1>3, <1>4, <1>5, <1>6 DEF Leaves, Switches
<1>8. Lasts(R)'
  <2> SUFFICES ASSUME NEW c \in R.Community
               PROVE  (disk.last[c] = R.None \/ disk.last[c] \in Staying(R) \/ Due(R, "unlast", disk.last[c]))'
    BY DEF Lasts
  <2>1. disk.last[c] = R.None \/ disk.last[c] \in Staying(R) \/ Due(R, "unlast", disk.last[c])
    BY DEF RingCalm, Lasts
  <2> QED BY <1>1, <1>2, <2>1 DEF Same, Due
<1>9. Unbound' = Unbound
  BY <1>1 DEF Unbound
<1>10. \A x \in Unbound' : x \in Unbound /\ x \in Staying(R)'
  BY <1>2, <1>9 DEF RingCalm, Owes, Same
<1>11. \A x \in joined : Due(R, "unbind", x)' => x \in bound'
  BY <1>1, <1>2 DEF RingCalm, Owes
<1>12. Owes(R)'
  BY <1>1, <1>2, <1>10, <1>11, OwesSame DEF RingCalm
<1> QED BY <1>2, <1>7, <1>8, <1>12, SumsSame DEF RingCalm

LEMMA RingCalmStep ==
    ASSUME NEW R, Ring(R)!AccountsAssumption, RingTyped(R), KeepInv(R), RingCalm(R), R.Patient, ~R.Overlap, R.MaxKill = 0, Ring(R)!Next \/ UNCHANGED Ring(R)!vars
    PROVE  RingCalm(R)'
<1>1. Ordered(op)
  BY DEF KeepInv
<1>2. ASSUME NEW s \in R.Slot, Ring(R)!Join(s) \/ Ring(R)!Switch(s) \/ Ring(R)!Leave(s) PROVE RingCalm(R)'
  BY <1>1, <1>2, JoinStart, TurnCalm, LeaveCalm
<1>3. ASSUME NEW c \in R.Community, Ring(R)!Quit(c) PROVE RingCalm(R)'
  BY <1>3, QuitCalm
<1>4. CASE Ring(R)!OpWrite
  <2>1. /\ op # <<>> /\ Ring(R)!Pure(Head(op)) /\ disk' \in Ring(R)!Written(disk, Head(op)) /\ op' = Tail(op) /\ sending' = sending
        /\ UNCHANGED <<mem, joined, sw, left, bound>>
    BY <1>4 DEF Ring!OpWrite, Ring!Tied, Ring!hist
  <2>2. Wrote(R, disk, Head(op), disk', joined)
    BY <2>1, OpFacts, WriteTypes
  <2>3. Follows(R, Head(op), Head(op).of)
    BY <2>1 DEF Follows, Ring!Pure
  <2> QED BY <1>1, <2>1, <2>2, <2>3, OpCalm
<1>5. CASE Ring(R)!Teardown \/ Ring(R)!Enrolled
  <2>1. /\ op # <<>> /\ Head(op).do \in {"teardown", "enrolled"} /\ disk' = disk /\ op' = Tail(op) /\ sending' \in {sending, R.None}
        /\ UNCHANGED <<joined, sw, left, bound>>
    BY <1>5 DEF Ring!Teardown, Ring!Enrolled, Ring!Closed, Ring!Tied, Ring!hist
  <2>2. Wrote(R, disk, Head(op), disk', joined)
    BY <2>1, NoWrite
  <2>3. Follows(R, Head(op), Head(op).of)
    BY <1>5 DEF Follows, Ring!Teardown, Ring!Enrolled, RingTyped, MemOf
  <2> QED BY <1>1, <2>1, <2>2, <2>3, OpCalm
<1>6. CASE Ring(R)!Publish \/ Ring(R)!Unbind
  BY <1>1, <1>6, BindCalm
<1>7. CASE Ring(R)!Reconnect \/ Ring(R)!Drop \/ Ring(R)!GoAway \/ Ring(R)!Settle
  BY <1>1, <1>7, AwayCalm
<1>8. CASE Ring(R)!Freeze \/ Ring(R)!SwWrite \/ Ring(R)!Repointed
  BY <1>8, SwitchCalm
<1>9. CASE Ring(R)!Connect \/ Ring(R)!RelayBinds \/ Ring(R)!Answer \/ Ring(R)!Disconnect \/ UNCHANGED Ring(R)!vars
  BY <1>9, RelayCalm
<1>10. ~Ring(R)!Kill
  BY DEF Ring!Kill, RingTyped
<1> QED BY <1>2, <1>3, <1>4, <1>5, <1>6, <1>7, <1>8, <1>9, <1>10 DEF Ring!Next, Ring!Work

\* What the invariants say once nothing is under way.
LEMMA RingSound ==
    ASSUME NEW R, Ring(R)!AccountsAssumption, RingTyped(R)
    PROVE  Ring(R)!TypeOK /\ (KeepInv(R) => Ring(R)!OwnedKept) /\ (RingCalm(R) => Ring(R)!Consistent /\ Ring(R)!NothingLeftBehind /\ Ring(R)!BindRetriable)
<1>1. Ring(R)!TypeOK
  BY DEF RingTyped, DiskOf, MemOf, Ring!TypeOK
<1>2. ASSUME RingCalm(R), Ring(R)!Quiet
      PROVE  /\ Staying(R) = disk.list /\ Keys(R) = disk.key /\ Datas(R) = disk.data /\ Comms(R) = disk.comms
             /\ (\A d, x : ~Due(R, d, x)) /\ Based(R) /\ Sums(R) /\ Lasts(R) /\ Owes(R)
  <2>1. op = <<>> /\ sw = <<>>
    BY <1>2 DEF Ring!Quiet
  <2>2. Leaves(R)
    BY <1>2, <2>1, StageFacts
  <2> QED BY <1>2, <2>1, <2>2, QuietFacts DEF Leaves, LeaveAt, RingCalm
<1>3. ASSUME RingCalm(R) PROVE Ring(R)!Consistent
  <2> SUFFICES ASSUME Ring(R)!Quiet
               PROVE  /\ disk.comms = {R.Home[s] : s \in disk.list}
                      /\ IF disk.list = {} THEN disk.active = R.None /\ disk.cid = R.None
                         ELSE disk.active \in disk.list /\ disk.cid = R.Home[disk.active]
                      /\ mem = [slot |-> disk.active, cid |-> disk.cid, enrolled |-> disk.list # {}]
                      /\ \A c \in R.Community : disk.last[c] \in disk.list \cup {R.None}
    BY DEF Ring!Consistent
  <2>1. disk.comms = {R.Home[s] : s \in disk.list}
    BY <1>2, <1>3 DEF Sums
  <2>2. \A c \in R.Community : disk.last[c] \in disk.list \cup {R.None}
    BY <1>2, <1>3 DEF Lasts
  <2>3. CASE OnStaying(R)
    <3>1. (disk.list # {}) = TRUE
      BY <1>2, <1>3, <2>3 DEF OnStaying
    <3> QED BY <1>2, <1>3, <2>1, <2>2, <2>3, <3>1 DEF OnStaying
  <2>4. CASE NoneStays(R) /\ mem = [slot |-> R.None, cid |-> R.None, enrolled |-> FALSE]
    <3>1. disk.active = R.None /\ disk.cid = R.None /\ disk.list = {}
      BY <1>2, <1>3, <2>4 DEF NoneStays
    <3>2. (disk.list # {}) = FALSE
      BY <3>1
    <3> QED BY <2>1, <2>2, <2>4, <3>1, <3>2
  <2> QED BY <1>2, <1>3, <2>3, <2>4 DEF Based
<1>4. ASSUME RingCalm(R) PROVE Ring(R)!NothingLeftBehind
  BY <1>2, <1>4 DEF Sums, Ring!NothingLeftBehind
<1>5. ASSUME RingCalm(R) PROVE Ring(R)!BindRetriable
  BY <1>2, <1>5 DEF Owes, Unbound, Ring!BindRetriable
<1> QED BY <1>1, <1>3, <1>4, <1>5 DEF KeepInv

----------------------------------------------------------------------------
(* A step that changes nothing.                                             *)

LEMMA QueueStill ==
    ASSUME NEW Q, UNCHANGED Pending(Q)!vars
    PROVE  /\ QueueTyped(Q) => QueueTyped(Q)'
           /\ HomeInv(Q) => HomeInv(Q)'
           /\ OneInv(Q) => OneInv(Q)'
           /\ KeptInv(Q) => KeptInv(Q)'
<1>1. QueueTyped(Q) => QueueTyped(Q)'
  BY DEF QueueTyped, Pending!TypeOK, Pending!vars
<1>2. HomeInv(Q) => HomeInv(Q)'
  BY DEF HomeInv, Pending!PublishedHome, Pending!vars
<1>3. OneInv(Q) => OneInv(Q)'
  BY DEF OneInv, Pending!PublishedOnce, Pending!vars
<1>4. KeptInv(Q) => KeptInv(Q)'
  BY DEF KeptInv, Pending!vars
<1> QED BY <1>1, <1>2, <1>3, <1>4

LEMMA ManStill ==
    ASSUME NEW M, UNCHANGED Tor(M)!vars
    PROVE  /\ ManTyped(M) => ManTyped(M)'
           /\ StopInv(M) => StopInv(M)'
           /\ Tor(M)!ConnectedHasProxy => Tor(M)!ConnectedHasProxy'
           /\ SoloInv(M) => SoloInv(M)'
           /\ AuthInv(M) => AuthInv(M)'
<1>1. ManTyped(M) => ManTyped(M)'
  BY DEF ManTyped, NativeTyped, Tor!TypeOK, Tor!vars, Tor!manager, Tor!native
<1>2. StopInv(M) => StopInv(M)'
  BY DEF StopInv, EndsStopped, Elems, Tor!vars, Tor!manager, Tor!native
<1>3. Tor(M)!ConnectedHasProxy => Tor(M)!ConnectedHasProxy'
  BY DEF Tor!ConnectedHasProxy, Tor!Await, Tor!vars, Tor!manager, Tor!native
<1>4. SoloInv(M) => SoloInv(M)'
  BY DEF SoloInv, Elems, Tor!Await, Tor!vars, Tor!manager, Tor!native
<1>5. AuthInv(M) => AuthInv(M)'
  BY DEF AuthInv, Elems, Tor!vars, Tor!manager, Tor!native
<1> QED BY <1>1, <1>2, <1>3, <1>4, <1>5

LEMMA ListStill ==
    ASSUME NEW L, UNCHANGED Joined(L)!vars
    PROVE  /\ QueueInv(L) => QueueInv(L)'
           /\ ListTyped(L) => ListTyped(L)'
           /\ CalmInv(L) => CalmInv(L)'
<1>1. QueueInv(L) => QueueInv(L)'
  BY DEF QueueInv, Waiting, Elems, Distinct, Joined!vars
<1>2. UNCHANGED <<stored, active, slot, listMemo, idMemo, queue, procs, cid, mem, made, switches, kills>>
  BY DEF Joined!vars
<1>3. ListTyped(L) => ListTyped(L)'
  BY <1>2 DEF ListTyped, Joined!MemoCurrent
<1>4. \A x : (WriterTrue(L, x) <=> WriterTrue(L, x)') /\ (SwitchTrue(L, x) <=> SwitchTrue(L, x)')
  BY <1>2 DEF WriterTrue, SwitchTrue
<1>5. CalmInv(L) => CalmInv(L)'
  BY <1>2, <1>4 DEF CalmInv
<1> QED BY <1>1, <1>3, <1>5

LEMMA LadderStill ==
    ASSUME NEW T, UNCHANGED Ladder(T)!vars
    PROVE  (LadderTyped(T) => LadderTyped(T)') /\ (WalkInv(T) => WalkInv(T)')
<1>1. LadderTyped(T) => LadderTyped(T)'
  BY DEF LadderTyped, Ladder!TypeOK, Ladder!vars, Ladder!conn, Ladder!memory
<1>2. WalkInv(T) => WalkInv(T)'
  BY DEF WalkInv, Quiet, Ladder!Down, Ladder!vars, Ladder!conn, Ladder!memory
<1> QED BY <1>1, <1>2

----------------------------------------------------------------------------
(* The device: whichever component runs keeps its own invariant.            *)

\* What is invariant whatever the environment, and what is under its restrictions.
BoxesInv == \A e \in Boxes : Runs("outbox", e) => BoxInv(e) /\ (~e.EarlyFlush => LiveInv(e))

QueuesInv ==
    \A e \in Queues : Runs("pending", e) =>
        /\ QueueTyped(e) /\ HomeInv(e)
        /\ e.MaxSwitch = 0 /\ e.MaxKill = 0 => OneInv(e)
        /\ e.MaxSwitch = 0 /\ (\E w \in e.Write : e.Write = {w}) => KeptInv(e)

RingsInv ==
    \A e \in Rings : Runs("accounts", e) =>
        /\ RingTyped(e) /\ KeepInv(e)
        /\ e.Patient /\ ~e.Overlap /\ e.MaxKill = 0 => RingCalm(e)

ListsInv ==
    \A e \in Lists : Runs("communities", e) =>
        /\ QueueInv(e) /\ ListTyped(e)
        /\ e.MaxAtOnce = 1 /\ ~e.MidSwitch /\ e.MaxKill = 0 => CalmInv(e)

ManagersInv ==
    \A e \in Managers : Runs("tor", e) =>
        /\ ManTyped(e) /\ StopInv(e) /\ Tor(e)!ConnectedHasProxy
        /\ ~e.Overlap => SoloInv(e)
        /\ ~e.Overlap /\ e.MaxInstall = 0 => AuthInv(e)

Unhurried(e) ==
    e.Acts \cap {"background", "restart"} = {} /\ ~e.QuickConnect /\ Ladder(e)!Snowflake \notin e.Condemnable
LaddersInv == \A e \in Ladders : Runs("ladder", e) => LadderTyped(e) /\ (Unhurried(e) => WalkInv(e))

ClientInv == BoxesInv /\ QueuesInv /\ RingsInv /\ ListsInv /\ ManagersInv /\ LaddersInv

\* The component and its environment never change.
LEMMA PartStays ==
    ASSUME [Next]_vars
    PROVE  part' = part /\ env' = env
<1>1. CASE OutboxStep
  BY <1>1 DEF OutboxStep, BesideOutbox
<1>2. CASE PendingStep
  BY <1>2 DEF PendingStep, BesidePendingWrites
<1>3. CASE AccountsStep
  BY <1>3 DEF AccountsStep, BesideAccounts
<1>4. CASE CommunitiesStep
  BY <1>4 DEF CommunitiesStep, BesideCommunities
<1>5. CASE TorStep
  BY <1>5 DEF TorStep, BesideTorManager
<1>6. CASE LadderStep
  BY <1>6 DEF LadderStep, BesideTorLadder
<1>7. CASE UNCHANGED vars
  BY <1>7 DEF vars
<1> QED BY <1>1, <1>2, <1>3, <1>4, <1>5, <1>6, <1>7 DEF Next

\* So a step of the whole is a step of the component that runs, or changes nothing of it.
LEMMA OwnSteps ==
    ASSUME [Next]_vars, NEW e
    PROVE  /\ Runs("outbox", e)' => Runs("outbox", e) /\ (Box(e)!Next \/ UNCHANGED Box(e)!vars)
           /\ Runs("pending", e)' => Runs("pending", e) /\ (Pending(e)!Next \/ UNCHANGED Pending(e)!vars)
           /\ Runs("accounts", e)' => Runs("accounts", e) /\ (Ring(e)!Next \/ UNCHANGED Ring(e)!vars)
           /\ Runs("communities", e)' => Runs("communities", e) /\ (Joined(e)!Next \/ UNCHANGED Joined(e)!vars)
           /\ Runs("tor", e)' => Runs("tor", e) /\ (Tor(e)!Next \/ UNCHANGED Tor(e)!vars)
           /\ Runs("ladder", e)' => Runs("ladder", e) /\ (Ladder(e)!Next \/ UNCHANGED Ladder(e)!vars)
<1>1. \A name : Runs(name, e)' => Runs(name, e)
  BY PartStays DEF Runs
<1>2. CASE UNCHANGED vars
  <2>1. UNCHANGED Box(e)!vars
    BY <1>2 DEF vars, Box!vars
  <2>2. UNCHANGED Pending(e)!vars
    BY <1>2 DEF vars, Pending!vars
  <2>3. UNCHANGED Ring(e)!vars
    BY <1>2 DEF vars, Ring!vars
  <2>4. UNCHANGED Joined(e)!vars
    BY <1>2 DEF vars, Joined!vars
  <2>5. UNCHANGED Tor(e)!vars
    BY <1>2 DEF vars, Tor!vars, Tor!manager, Tor!native
  <2>6. UNCHANGED Ladder(e)!vars
    BY <1>2 DEF vars, Ladder!vars, Ladder!conn, Ladder!memory
  <2> QED BY <1>1, <2>1, <2>2, <2>3, <2>4, <2>5, <2>6
<1>3. CASE Next
  <2>1. Runs("outbox", e) => Box(e)!Next
    BY <1>3 DEF Next, OutboxStep, PendingStep, AccountsStep, CommunitiesStep, TorStep, LadderStep, Runs
  <2>2. Runs("pending", e) => Pending(e)!Next
    BY <1>3 DEF Next, OutboxStep, PendingStep, AccountsStep, CommunitiesStep, TorStep, LadderStep, Runs
  <2>3. Runs("accounts", e) => Ring(e)!Next
    BY <1>3 DEF Next, OutboxStep, PendingStep, AccountsStep, CommunitiesStep, TorStep, LadderStep, Runs
  <2>4. Runs("communities", e) => Joined(e)!Next
    BY <1>3 DEF Next, OutboxStep, PendingStep, AccountsStep, CommunitiesStep, TorStep, LadderStep, Runs
  <2>5. Runs("tor", e) => Tor(e)!Next
    BY <1>3 DEF Next, OutboxStep, PendingStep, AccountsStep, CommunitiesStep, TorStep, LadderStep, Runs
  <2>6. Runs("ladder", e) => Ladder(e)!Next
    BY <1>3 DEF Next, OutboxStep, PendingStep, AccountsStep, CommunitiesStep, TorStep, LadderStep, Runs
  <2> QED BY <1>1, <2>1, <2>2, <2>3, <2>4, <2>5, <2>6
<1> QED BY <1>2, <1>3

LEMMA OwnInits ==
    ASSUME Init, NEW e
    PROVE  /\ Runs("outbox", e) => Box(e)!Init
           /\ Runs("pending", e) => Pending(e)!Init
           /\ Runs("accounts", e) => Ring(e)!Init
           /\ Runs("communities", e) => Joined(e)!Init
           /\ Runs("tor", e) => Tor(e)!Init
           /\ Runs("ladder", e) => Ladder(e)!Init
  BY DEF Init, Runs

LEMMA ClientInit ==
    ASSUME Init
    PROVE  ClientInv
<1>1. BoxesInv
  BY OwnInits, InitBox, InitLive, ClientAssumption DEF BoxesInv
<1>2. QueuesInv
  BY OwnInits, QueueInit, ClientAssumption DEF QueuesInv
<1>3. RingsInv
  BY OwnInits, RingInit, KeepInit, RingCalmInit, ClientAssumption DEF RingsInv
<1>4. ListsInv
  BY OwnInits, ListInit, CalmInit, ClientAssumption DEF ListsInv
<1>5. ManagersInv
  BY OwnInits, ManInit, ClientAssumption DEF ManagersInv
<1>6. LaddersInv
  BY OwnInits, LadderInit, ClientAssumption DEF LaddersInv
<1> QED BY <1>1, <1>2, <1>3, <1>4, <1>5, <1>6 DEF ClientInv

LEMMA ClientStep ==
    ASSUME ClientInv, [Next]_vars
    PROVE  ClientInv'
<1>1. BoxesInv'
  <2> SUFFICES ASSUME NEW e \in Boxes, Runs("outbox", e)' PROVE BoxInv(e)' /\ (~e.EarlyFlush => LiveInv(e)')
    BY DEF BoxesInv
  <2>1. Runs("outbox", e) /\ (Box(e)!Next \/ UNCHANGED Box(e)!vars) /\ Box(e)!OutboxAssumption
    BY OwnSteps, ClientAssumption
  <2>2. BoxInv(e) /\ (~e.EarlyFlush => LiveInv(e))
    BY <2>1 DEF ClientInv, BoxesInv
  <2> QED BY <2>1, <2>2, StepBox, StepLive
<1>2. QueuesInv'
  <2> SUFFICES ASSUME NEW e \in Queues, Runs("pending", e)'
               PROVE  /\ QueueTyped(e)' /\ HomeInv(e)'
                      /\ e.MaxSwitch = 0 /\ e.MaxKill = 0 => OneInv(e)'
                      /\ e.MaxSwitch = 0 /\ (\E w \in e.Write : e.Write = {w}) => KeptInv(e)'
    BY DEF QueuesInv
  <2>1. Runs("pending", e) /\ (Pending(e)!Next \/ UNCHANGED Pending(e)!vars) /\ Pending(e)!PendingWritesAssumption
    BY OwnSteps, ClientAssumption
  <2>2. /\ QueueTyped(e) /\ HomeInv(e)
        /\ e.MaxSwitch = 0 /\ e.MaxKill = 0 => OneInv(e)
        /\ e.MaxSwitch = 0 /\ (\E w \in e.Write : e.Write = {w}) => KeptInv(e)
    BY <2>1 DEF ClientInv, QueuesInv
  <2>3. CASE UNCHANGED Pending(e)!vars
    BY <2>2, <2>3, QueueStill
  <2>4. CASE Pending(e)!Next
    <3>1. QueueTyped(e)' /\ HomeInv(e)'
      BY <2>1, <2>2, <2>4, QueueTypedStep, HomeStep
    <3>2. ASSUME e.MaxSwitch = 0, e.MaxKill = 0 PROVE OneInv(e)'
      BY <2>1, <2>2, <2>4, <3>2, OneStep
    <3>3. ASSUME e.MaxSwitch = 0, NEW w \in e.Write, e.Write = {w} PROVE KeptInv(e)'
      BY <2>1, <2>2, <2>4, <3>3, KeptStep
    <3> QED BY <3>1, <3>2, <3>3
  <2> QED BY <2>1, <2>3, <2>4
<1>3. RingsInv'
  <2> SUFFICES ASSUME NEW e \in Rings, Runs("accounts", e)'
               PROVE  /\ RingTyped(e)' /\ KeepInv(e)'
                      /\ e.Patient /\ ~e.Overlap /\ e.MaxKill = 0 => RingCalm(e)'
    BY DEF RingsInv
  <2>1. Runs("accounts", e) /\ (Ring(e)!Next \/ UNCHANGED Ring(e)!vars) /\ Ring(e)!AccountsAssumption
    BY OwnSteps, ClientAssumption
  <2>2. /\ RingTyped(e) /\ KeepInv(e)
        /\ e.Patient /\ ~e.Overlap /\ e.MaxKill = 0 => RingCalm(e)
    BY <2>1 DEF ClientInv, RingsInv
  <2> QED BY <2>1, <2>2, RingTypedStep, KeepStep, RingCalmStep
<1>4. ListsInv'
  <2> SUFFICES ASSUME NEW e \in Lists, Runs("communities", e)'
               PROVE  /\ QueueInv(e)' /\ ListTyped(e)'
                      /\ e.MaxAtOnce = 1 /\ ~e.MidSwitch /\ e.MaxKill = 0 => CalmInv(e)'
    BY DEF ListsInv
  <2>1. Runs("communities", e) /\ (Joined(e)!Next \/ UNCHANGED Joined(e)!vars) /\ Joined(e)!CommunitiesAssumption
    BY OwnSteps, ClientAssumption
  <2>2. /\ QueueInv(e) /\ ListTyped(e)
        /\ e.MaxAtOnce = 1 /\ ~e.MidSwitch /\ e.MaxKill = 0 => CalmInv(e)
    BY <2>1 DEF ClientInv, ListsInv
  <2>3. CASE UNCHANGED Joined(e)!vars
    BY <2>2, <2>3, ListStill
  <2>4. CASE Joined(e)!Next
    BY <2>1, <2>2, <2>4, QueueStep, ListTypedStep, CalmStep
  <2> QED BY <2>1, <2>3, <2>4
<1>5. ManagersInv'
  <2> SUFFICES ASSUME NEW e \in Managers, Runs("tor", e)'
               PROVE  /\ ManTyped(e)' /\ StopInv(e)' /\ Tor(e)!ConnectedHasProxy'
                      /\ ~e.Overlap => SoloInv(e)'
                      /\ ~e.Overlap /\ e.MaxInstall = 0 => AuthInv(e)'
    BY DEF ManagersInv
  <2>1. Runs("tor", e) /\ (Tor(e)!Next \/ UNCHANGED Tor(e)!vars) /\ Tor(e)!TorAssumption
    BY OwnSteps, ClientAssumption
  <2>2. /\ ManTyped(e) /\ StopInv(e) /\ Tor(e)!ConnectedHasProxy
        /\ ~e.Overlap => SoloInv(e)
        /\ ~e.Overlap /\ e.MaxInstall = 0 => AuthInv(e)
    BY <2>1 DEF ClientInv, ManagersInv
  <2>3. CASE UNCHANGED Tor(e)!vars
    BY <2>2, <2>3, ManStill
  <2>4. CASE Tor(e)!Next
    BY <2>1, <2>2, <2>4, ManTypedStep, StopInvStep, ProxyStep, SoloStep, AuthStep
  <2> QED BY <2>1, <2>3, <2>4
<1>6. LaddersInv'
  <2> SUFFICES ASSUME NEW e \in Ladders, Runs("ladder", e)' PROVE LadderTyped(e)' /\ (Unhurried(e) => WalkInv(e)')
    BY DEF LaddersInv, Unhurried, Ladder!Snowflake
  <2>1. Runs("ladder", e) /\ (Ladder(e)!Next \/ UNCHANGED Ladder(e)!vars) /\ Ladder(e)!LadderAssumption
    BY OwnSteps, ClientAssumption
  <2>2. LadderTyped(e) /\ (Unhurried(e) => WalkInv(e))
    BY <2>1 DEF ClientInv, LaddersInv
  <2>3. CASE UNCHANGED Ladder(e)!vars
    BY <2>2, <2>3, LadderStill
  <2>4. CASE Ladder(e)!Next
    BY <2>1, <2>2, <2>4, LadderTypedStep, WalkStep DEF Unhurried
  <2> QED BY <2>1, <2>3, <2>4
<1> QED BY <1>1, <1>2, <1>3, <1>4, <1>5, <1>6 DEF ClientInv

LEMMA ClientAlways == Spec => []ClientInv
<1>1. Init => ClientInv
  BY ClientInit
<1>2. ClientInv /\ [Next]_vars => ClientInv'
  BY ClientStep
<1> QED BY <1>1, <1>2, PTL DEF Spec

\* The variables of whichever component runs have their types, and none of them names a slot, a
\* call or an attempt that does not exist yet.
THEOREM ClientTypeCorrect == Spec => []TypeOK
<1>1. ClientInv => TypeOK
  <2> SUFFICES ASSUME ClientInv PROVE TypeOK
    OBVIOUS
  <2>1. \A e \in Boxes : Runs("outbox", e) => Box(e)!TypeOK
    BY DEF ClientInv, BoxesInv, BoxInv, Typed
  <2>2. \A e \in Queues : Runs("pending", e) => Pending(e)!TypeOK
    BY DEF ClientInv, QueuesInv, QueueTyped
  <2>3. \A e \in Rings : Runs("accounts", e) => Ring(e)!TypeOK
    BY RingSound, ClientAssumption DEF ClientInv, RingsInv
  <2>4. \A e \in Lists : Runs("communities", e) => Joined(e)!TypeOK
    BY ListSound, ClientAssumption DEF ClientInv, ListsInv
  <2>5. \A e \in Managers : Runs("tor", e) => Tor(e)!TypeOK
    BY DEF ClientInv, ManagersInv, ManTyped
  <2>6. \A e \in Ladders : Runs("ladder", e) => Ladder(e)!TypeOK
    BY DEF ClientInv, LaddersInv, LadderTyped
  <2> QED BY <2>1, <2>2, <2>3, <2>4, <2>5, <2>6 DEF TypeOK
<1> QED BY <1>1, ClientAlways, PTL

\* Whatever is at the relay, the blobs it names are there too, whichever answers are lost,
\* whatever the relay says, and wherever the process is killed (deliver, blobsBlocking,
\* advanceBlobDependents).
THEOREM BlobsAlwaysFirst == Spec => []BlobsFirst
<1>1. ClientInv => BlobsFirst
  BY DEF ClientInv, BoxesInv, BoxInv, BlobsFirst
<1> QED BY <1>1, ClientAlways, PTL

\* A write whose add() returned is at the relay, in the queue, or cancelled by the member; what
\* the member was told is posted is at the relay; and, if no connection comes up while a write is
\* being stored, nothing that shows as on its way has stopped (outbox.ts, confirmDelivery).
THEOREM NothingEverLost == Spec => []NothingLost
<1>1. ASSUME NEW e, BoxInv(e) PROVE Box(e)!NothingLost /\ Box(e)!PostedMeansPosted
  BY <1>1 DEF BoxInv, Sound, Box!NothingLost, Box!PostedMeansPosted
<1>2. ASSUME NEW e, LiveInv(e) PROVE Box(e)!NeverSilentlyStuck
  <2>1. \A p \in e.Event : Box(e)!Blocking(entry, p) \subseteq e.DependsOn[p]
    BY DEF Box!Blocking
  <2> QED BY <1>2, <2>1 DEF LiveInv, Carried, Box!NeverSilentlyStuck
<1>3. ClientInv => NothingLost
  BY <1>1, <1>2 DEF ClientInv, BoxesInv, NothingLost
<1> QED BY <1>3, ClientAlways, PTL

\* A write without media is never published from another account, whatever switch falls into its
\* signing; within one account and process it is published once, whoever signs it; and one write
\* shown as failed and queued is not lost by a kill (flushPending, retryPending, the silo guard).
THEOREM WritesAlwaysKept == Spec => []WritesKept
<1>1. ASSUME NEW e, HomeInv(e) PROVE ~e.HasBlobs => Pending(e)!PublishedHome
  BY <1>1 DEF HomeInv
<1>2. ASSUME NEW e, OneInv(e) PROVE Pending(e)!PublishedOnce
  BY <1>2 DEF OneInv
<1>3. ASSUME NEW e, KeptInv(e) PROVE Pending(e)!NeverLost
  BY <1>3 DEF KeptInv, Pending!NeverLost
<1>4. ClientInv => WritesKept
  BY <1>1, <1>2, <1>3 DEF ClientInv, QueuesInv, WritesKept
<1> QED BY <1>4, ClientAlways, PTL

\* An account that is not left keeps its key, its place in the key ring and its data, wherever a
\* kill or a switch falls into the removal of another; and when calls do not overlap, nobody joins
\* while a binding event is owed and no kill falls, the key ring, the communities, the pointers
\* and the runtime agree after every operation, nothing of a left account remains, and the account
\* still unbound is the one whose binding event is stored (removeIdentity, removeCommunity,
\* completeEnrollment, onRelayConnected).
THEOREM AccountsAlwaysKept == Spec => []AccountsKept
<1>1. ClientInv => AccountsKept
  BY RingSound, ClientAssumption DEF ClientInv, RingsInv, AccountsKept
<1> QED BY <1>1, ClientAlways, PTL

\* The memo of the stored list is empty or the stored list, whatever overlaps; and with one
\* writer at a time, none of them started in the middle of a switch, every change is stored under
\* its own community and the stored account belongs to the stored community (communityStore.ts,
\* activateWorkspace).
THEOREM CommunitiesAlwaysTrue == Spec => []CommunitiesTrue
<1>1. ClientInv => CommunitiesTrue
  BY ListSound, CalmSound, ClientAssumption DEF ClientInv, ListsInv, CommunitiesTrue
<1> QED BY <1>1, ClientAlways, PTL

\* A stop is skipped only when no client runs, and "connected" means a proxy, whatever calls
\* overlap; with one connect() at a time an unresolved attempt has its deadline and a disconnect()
\* is final; and with no credential installed meanwhile the one reported is the one in use
\* (TorManager.connect, disconnect, isLive).
THEOREM TransportAlwaysTrue == Spec => []TransportTrue
<1>1. ClientInv => TransportTrue
  BY ManSound, ClientAssumption DEF ClientInv, ManagersInv, TransportTrue
<1> QED BY <1>1, ClientAlways, PTL

\* While a connection is wanted and there is none, a cascade runs, a disconnect is about to report
\* or the retry timer is set; the tier escalation starts from is that of the transport in use; and
\* a condemned transport is not used (startTransportLadder, scheduleTorRetry).
THEOREM RetryAlwaysOwed == Spec => []RetryOwed
<1>1. ClientInv => RetryOwed
  BY WalkSound DEF ClientInv, LaddersInv, Unhurried, RetryOwed
<1> QED BY <1>1, ClientAlways, PTL
=============================================================================
