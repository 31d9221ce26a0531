----------------------------- MODULE Enrollment -----------------------------
(***************************************************************************)
(* Enrolment with an invite, from both ends: issuer/invite-issuance.mjs    *)
(* (how the organizer turns blinded requests into credentials) and         *)
(* client/src/onboarding/exchange.ts with its single-flight wrapper in     *)
(* client/App.tsx (how a member asks, waits, loses the answer and asks     *)
(* again).                                                                 *)
(*                                                                         *)
(* A member prepares ONE blinded request and keeps it in memory over every *)
(* retry.  The organizer reserves a slot of the invite before it awaits    *)
(* the signer and finalises or rolls back the slot afterwards, so several  *)
(* calls, of several requests or of one, are in flight together.  The      *)
(* mailbox between the two is the one of module Mailbox, reduced here to   *)
(* what a request goes through: stored, claimed, answered.                 *)
(***************************************************************************)
EXTENDS Integers, Sequences, SequencesExt, FiniteSets

CONSTANTS
    Member,
    Manual,         \* members whose request is pasted into the dashboard instead
    Call,           \* signing calls that may be in flight together
    Unlimited,      \* maxUses = null
    FirstMax,       \* maxUses the invite is minted with
    NextMax,        \* values PATCH may set it to
    Retain,         \* MAX_RETAINED_USES
    Attempts,       \* DEFAULT_ATTEMPTS
    Purging,        \* whether the organizer purges spent invites
    MaxPrep,        \* bound: requests one member ever prepares
    MaxFail,        \* bound: signer failures
    MaxKill,        \* bound: kills of the organizer's process
    MaxPatch        \* bound: PATCHes

EnrollmentAssumption ==
    /\ Manual \subseteq Member
    /\ Unlimited \notin Nat
    /\ {FirstMax} \cup NextMax \subseteq Nat \cup {Unlimited}
    /\ {Retain, Attempts, MaxPrep, MaxFail, MaxKill, MaxPatch} \subseteq Nat
    /\ Attempts > 0 /\ Purging \in BOOLEAN

VARIABLES
    inv,        \* the invite's record in invites.json
    call,       \* the organizer's calls of issueInviteCredential
    mbox,       \* what became of each request event
    replies,    \* the answers to each request that the member can fetch
    app,        \* each member's exchange: current request, phase, attempts left
    issued,     \* history: requests whose blind signature was handed out
    revoked,    \* history: whether the organizer deleted the invite
    cap,        \* history: the largest maxUses the invite has had
    failures, kills, patches

vars == <<inv, call, mbox, replies, app, issued, revoked, cap, failures, kills, patches>>
budget == <<failures, kills, patches>>

Request == Member \X (1..MaxPrep)
NoCall == [busy |-> FALSE]

Init ==
    /\ inv = [live |-> TRUE, expired |-> FALSE, max |-> FirstMax, count |-> 0,
              reserved |-> {}, signed |-> <<>>]
    /\ call = [c \in Call |-> NoCall]
    /\ mbox = [r \in Request |-> "unsent"]
    /\ replies = [r \in Request |-> {}]
    /\ app = [m \in Member |-> [made |-> 0, keeps |-> FALSE, phase |-> "idle", left |-> 0,
                               restarts |-> 0]]
    /\ issued = {} /\ revoked = FALSE /\ cap = FirstMax
    /\ failures = 0 /\ kills = 0 /\ patches = 0

----------------------------------------------------------------------------
(* issueInviteCredential.                                                   *)

Signed(i) == Range(i.signed)                \* slots with a signature
Uses(i) == i.reserved \cup Signed(i)
Full(i) == i.max # Unlimited /\ i.count >= i.max
Spent(i) == i.expired \/ Full(i)            \* summarizeInvite: expired or exhausted

\* pruneUses: past the cap the oldest finished slots go, signed being in order of usedAt.
pruneUses(i) ==
    LET excess == Cardinality(Uses(i)) - Retain
    IN  IF excess <= 0 THEN i
        ELSE [i EXCEPT !.signed = SubSeq(@, excess + 1, Len(@))]

ReserveUncounted(i, r) == pruneUses([i EXCEPT !.reserved = @ \cup {r}])

Reserve(i, r) == pruneUses([i EXCEPT !.reserved = @ \cup {r}, !.count = @ + 1])

Busy(r, own, ans) == [busy |-> TRUE, req |-> r, own |-> own, ans |-> ans]

\* The part that runs before the first await.  An unknown code throws a droppable error.
Enter(c, r) ==
    \/ /\ inv.live /\ r \in Signed(inv)
       /\ call' = [call EXCEPT ![c] = Busy(r, FALSE, "sig")]
       /\ issued' = issued \cup {r}
       /\ inv' = inv
    \/ /\ inv.live /\ r \in inv.reserved
       /\ call' = [call EXCEPT ![c] = Busy(r, FALSE, "none")]
       /\ UNCHANGED <<inv, issued>>
    \/ /\ inv.live /\ r \notin Uses(inv) /\ Spent(inv)
       /\ call' = [call EXCEPT ![c] = Busy(r, FALSE, "error")]
       /\ UNCHANGED <<inv, issued>>
    \/ /\ inv.live /\ r \notin Uses(inv) /\ ~Spent(inv)
       /\ inv' = Reserve(inv, r)
       /\ call' = [call EXCEPT ![c] = Busy(r, TRUE, "none")]
       /\ issued' = issued

Signing(c) == call[c].busy /\ call[c].ans = "none"

FinalisedUnkept(i, r) == [i EXCEPT !.reserved = @ \ {r}]

Finalised(i, r) == [i EXCEPT !.reserved = @ \ {r}, !.signed = Append(@, r)]

\* The signer answered: reload and finalise the slot, unless the record is gone or
\* another call of the same request has finalised it.
SignOk(c) ==
    /\ Signing(c)
    /\ LET r == call[c].req
       IN  /\ inv' = IF inv.live /\ r \notin Signed(inv) THEN Finalised(inv, r) ELSE inv
           /\ issued' = issued \cup {r}
    /\ call' = [call EXCEPT ![c].ans = "sig"]
    /\ UNCHANGED <<mbox, replies, app, revoked, cap, budget>>

KeptSlot(i, r) == i

RolledBack(i, r) ==
    [i EXCEPT !.reserved = @ \ {r}, !.count = IF @ > 0 THEN @ - 1 ELSE 0]

\* The signer threw: the reserving call gives back its own unfinished slot.
SignFail(c) ==
    /\ Signing(c) /\ failures < MaxFail
    /\ LET r == call[c].req
       IN  inv' = IF call[c].own /\ inv.live /\ r \in inv.reserved THEN RolledBack(inv, r) ELSE inv
    /\ call' = [call EXCEPT ![c].ans = "error"]
    /\ failures' = failures + 1
    /\ UNCHANGED <<mbox, replies, app, issued, revoked, cap, kills, patches>>

----------------------------------------------------------------------------
(* The two ways a request reaches it.                                       *)

Sender(r) == r[1]

\* handleRequest, on a request the mailbox has not seen.  A droppable error gets no reply.
PickUp(c, r) ==
    /\ ~call[c].busy /\ mbox[r] = "stored"
    /\ \/ /\ ~inv.live
          /\ mbox' = [mbox EXCEPT ![r] = "answered"]
          /\ UNCHANGED <<inv, call, issued>>
       \/ /\ Enter(c, r)
          /\ mbox' = [mbox EXCEPT ![r] = "claimed"]
    /\ UNCHANGED <<replies, app, revoked, cap, budget>>

\* sendResponse: the relay keeps the answer or not; without its OK the claim is released.
Send(c, kept, oked) ==
    /\ call[c].busy /\ ~Signing(c) /\ (oked => kept)
    /\ LET r == call[c].req
       IN  /\ Sender(r) \notin Manual
           /\ replies' = IF kept THEN [replies EXCEPT ![r] = @ \cup {call[c].ans}] ELSE replies
           /\ mbox' = [mbox EXCEPT ![r] = IF oked THEN "answered" ELSE "stored"]
    /\ call' = [call EXCEPT ![c] = NoCall]
    /\ UNCHANGED <<inv, app, issued, revoked, cap, budget>>

\* POST /api/sign, from the dashboard.  A second tab or a reload may submit the code again.
Paste(c, r) ==
    /\ ~call[c].busy /\ Sender(r) \in Manual /\ r[2] <= app[Sender(r)].made
    /\ Enter(c, r)
    /\ UNCHANGED <<mbox, replies, app, revoked, cap, budget>>

\* Its answer; only a signature is handed to the member.
Shown(c) ==
    /\ call[c].busy /\ ~Signing(c) /\ Sender(call[c].req) \in Manual
    /\ replies' = [replies EXCEPT ![call[c].req] = @ \cup ({call[c].ans} \cap {"sig"})]
    /\ call' = [call EXCEPT ![c] = NoCall]
    /\ UNCHANGED <<inv, mbox, app, issued, revoked, cap, budget>>

\* The process dies: calls and claims are gone, and the sidecar may miss the last answers.
Kill ==
    /\ kills < MaxKill
    /\ call' = [c \in Call |-> NoCall]
    /\ \E lost \in SUBSET {r \in Request : mbox[r] = "answered"} :
          mbox' = [r \in Request |-> IF mbox[r] = "claimed" \/ r \in lost THEN "stored" ELSE mbox[r]]
    /\ kills' = kills + 1
    /\ UNCHANGED <<inv, replies, app, issued, revoked, cap, failures, patches>>

----------------------------------------------------------------------------
(* The dashboard.                                                           *)

Larger(a, b) == IF Unlimited \in {a, b} THEN Unlimited ELSE IF a > b THEN a ELSE b

\* PATCH: the cap and the expiry change independently.
Patch(max) ==
    /\ inv.live /\ patches < MaxPatch
    /\ \/ inv' = [inv EXCEPT !.max = max] /\ cap' = Larger(cap, max)
       \/ inv' = [inv EXCEPT !.expired = FALSE] /\ cap' = cap
    /\ patches' = patches + 1
    /\ UNCHANGED <<call, mbox, replies, app, issued, revoked, failures, kills>>

\* expiresAt passes.
Expire ==
    /\ inv.live /\ ~inv.expired
    /\ inv' = [inv EXCEPT !.expired = TRUE]
    /\ UNCHANGED <<call, mbox, replies, app, issued, revoked, cap, budget>>

Gone == [inv EXCEPT !.live = FALSE, !.reserved = {}, !.signed = <<>>, !.count = 0]

Revoke ==
    /\ inv.live
    /\ inv' = Gone /\ revoked' = TRUE
    /\ UNCHANGED <<call, mbox, replies, app, issued, cap, budget>>

Purge ==
    /\ Purging /\ inv.live /\ Spent(inv)
    /\ inv' = Gone
    /\ UNCHANGED <<call, mbox, replies, app, issued, revoked, cap, budget>>

----------------------------------------------------------------------------
(* The member: App.tsx's exchange function around runCredentialExchange.    *)

Current(m) == <<m, app[m].made>>

PreparedAfresh(a) == [a EXCEPT !.made = IF @ < MaxPrep THEN @ + 1 ELSE @, !.keeps = TRUE]

\* The prepared request outlives the flight: a retry reuses it.
Prepared(a) == IF a.keeps THEN a ELSE [a EXCEPT !.made = @ + 1, !.keeps = TRUE]

\* A call while a flight is up attaches to it, and one after success returns the session:
\* only an idle exchange starts.  Loading the onion key and fetching the issuer key come
\* first; their failure leaves everything as it was.
Start(m) ==
    /\ app[m].phase = "idle" /\ (app[m].keeps \/ app[m].made < MaxPrep)
    /\ app' = [app EXCEPT ![m] = [Prepared(app[m]) EXCEPT !.phase = "flight", !.left = Attempts]]
    /\ UNCHANGED <<inv, call, mbox, replies, issued, revoked, cap, budget>>

\* onOpen: subscribe to the reply key, then publish; a duplicate changes nothing.
Open(m) ==
    /\ app[m].phase = "flight" /\ m \notin Manual
    /\ app' = [app EXCEPT ![m].phase = "socket"]
    /\ mbox' = [mbox EXCEPT ![Current(m)] = IF @ = "unsent" THEN "stored" ELSE @]
    /\ UNCHANGED <<inv, call, replies, issued, revoked, cap, budget>>

Ended(a) == [a EXCEPT !.phase = "idle", !.left = 0]
Again(a) == [a EXCEPT !.phase = "flight", !.left = @ - 1]
Dropped(a) == [a EXCEPT !.phase = "idle", !.left = 0, !.keeps = FALSE, !.restarts = @ + 1]

\* The socket never opened, closed, or the answer did not come in time.
Lose(m) ==
    /\ app[m].phase \in {"flight", "socket"}
    /\ app' = [app EXCEPT ![m] = IF @.left > 1 THEN Again(@) ELSE Ended(@)]
    /\ UNCHANGED <<inv, call, mbox, replies, issued, revoked, cap, budget>>

\* The relay turned the request away for another reason than a duplicate.
Refused(m) ==
    /\ app[m].phase = "socket"
    /\ app' = [app EXCEPT ![m] = Ended(@)]
    /\ UNCHANGED <<inv, call, mbox, replies, issued, revoked, cap, budget>>

Listening(m) == app[m].phase = "socket" \/ (m \in Manual /\ app[m].phase = "flight")

\* handleResponse, on any answer kept at the reply key: finish() keeps the first.
Receive(m) ==
    /\ Listening(m)
    /\ \E a \in replies[Current(m)] :
          app' = [app EXCEPT ![m] = IF a = "sig" THEN [Ended(@) EXCEPT !.phase = "done", !.keeps = FALSE]
                                    ELSE Ended(@)]
    /\ UNCHANGED <<inv, call, mbox, replies, issued, revoked, cap, budget>>

\* The app is killed: the prepared request was only in memory.
AppKill(m) ==
    /\ app[m].phase # "done" /\ app[m].keeps /\ app[m].made < MaxPrep
    /\ app' = [app EXCEPT ![m] = Dropped(@)]
    /\ UNCHANGED <<inv, call, mbox, replies, issued, revoked, cap, budget>>

----------------------------------------------------------------------------

Organizer ==
    \/ \E c \in Call :
          \/ SignOk(c) \/ SignFail(c) \/ Shown(c)
          \/ \E r \in Request : PickUp(c, r) \/ Paste(c, r)
          \/ \E kept, oked \in BOOLEAN : Send(c, kept, oked)
    \/ Kill

Dashboard == Expire \/ Revoke \/ Purge \/ \E max \in NextMax : Patch(max)

Client == \E m \in Member :
    Start(m) \/ Open(m) \/ Lose(m) \/ Refused(m) \/ Receive(m) \/ AppKill(m)

Next == Organizer \/ Dashboard \/ Client

Spec == Init /\ [][Next]_vars

----------------------------------------------------------------------------

TypeOK ==
    /\ inv.live \in BOOLEAN /\ inv.expired \in BOOLEAN
    /\ inv.max \in Nat \cup {Unlimited} /\ inv.count \in Nat
    /\ inv.reserved \subseteq Request /\ inv.signed \in Seq(Request)
    /\ inv.reserved \cap Signed(inv) = {} /\ IsInjective(inv.signed)
    /\ \A c \in Call : call[c] = NoCall \/
          call[c] \in [busy : {TRUE}, req : Request, own : BOOLEAN, ans : {"none", "sig", "error"}]
    /\ mbox \in [Request -> {"unsent", "stored", "claimed", "answered"}]
    /\ replies \in [Request -> SUBSET {"sig", "error"}]
    /\ app \in [Member -> [made : 0..MaxPrep, keeps : BOOLEAN,
                           phase : {"idle", "flight", "socket", "done"}, left : 0..Attempts,
                           restarts : 0..MaxPrep]]
    /\ issued \subseteq Request /\ revoked \in BOOLEAN

\* invite-issuance.mjs:11-13, "a DIFFERENT blinded request must only ever consume a fresh slot
\* while capacity remains — and never turn one slot into two credentials": however the calls
\* overlap, no more requests are signed than the invite ever had uses.
WithinCapacity == cap # Unlimited => Cardinality(issued) <= cap

\* A signer failure burns no slot and a success is counted once: with no call in flight and
\* no kill, the counter is exactly the number of credentials handed out.
CountExact ==
    inv.live /\ kills = 0 /\ (\A c \in Call : ~call[c].busy) => inv.count = Cardinality(issued)

\* Presenting a request now would be served, by replay or by a fresh slot.
Served(r) == inv.live /\ (r \in Uses(inv) \/ ~Spent(inv))

\* invite-issuance.mjs:164, "gates block issuing NEW credentials, never recovering an earned
\* one whose response was lost": unless the organizer revoked the invite, a request once signed
\* can be answered again, past expiry, exhaustion, lowered caps and restarts.
EarnedRecoverable == ~revoked => \A r \in issued : Served(r)

\* exchange.ts:4-8, "Re-minting either value on retry would strand the one-shot invite": while
\* the app lives, every slot a member took is for the request the app can still unblind.
NothingStranded ==
    \A r \in issued : app[Sender(r)].restarts = 0 => r = Current(Sender(r))

=============================================================================
