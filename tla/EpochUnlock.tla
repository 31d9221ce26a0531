---------------------------- MODULE EpochUnlock ----------------------------
(***************************************************************************)
(* The client's invisible unlock of sealed content epochs, in              *)
(* client/src/app/AppRuntime.ts: noteLockedEpochs() and its retry ladder,  *)
(* unlockContentEpoch(), ensureWriteEpoch(), the revivals and the switch   *)
(* of accounts.                                                            *)
(*                                                                         *)
(* A sealed item on screen enters its epoch in _epochUnlock and queues an  *)
(* unlock on one promise chain.  An unlock spends a read token and awaits  *)
(* the organizer over Tor.  A failure leaves the entry with a time for the *)
(* next attempt, honoured by one timer; too many, or a refusal, show the   *)
(* epoch as unavailable.  A switch of accounts replaces the entries, but   *)
(* not the chain.                                                          *)
(***************************************************************************)
EXTENDS Integers, Sequences, FiniteSets

CONSTANTS
    Epoch, Account,
    SealedIn,       \* SealedIn[a]: epochs of account a's community with posts on screen
    ReadableBy,     \* ReadableBy[a]: epochs its organizer will unlock for account a
    WriteEpoch,     \* epochs that may be announced for writing
    MaxAttempts,    \* UNLOCK_MAX_TRANSIENT_ATTEMPTS
    MidFlight,      \* whether accounts may be switched while unlocks are queued
    MaxSwitch       \* bound on switches

EpochUnlockAssumption ==
    /\ SealedIn \in [Account -> SUBSET Epoch] /\ ReadableBy \in [Account -> SUBSET Epoch]
    /\ WriteEpoch \subseteq Epoch /\ IsFiniteSet(Epoch)
    /\ MaxAttempts \in Nat \ {0} /\ MaxSwitch \in Nat /\ MidFlight \in BOOLEAN

VARIABLES
    account,        \* the active account
    held,           \* per account: epochs whose key is stored
    entry,          \* _epochUnlock
    unavailable,    \* epochs displayed as unavailable
    chain,          \* _epochUnlockChain: unlocks queued; the head may be under way
    write,          \* ensureWriteEpoch()'s unlock
    timer,          \* whether _epochUnlockTimer is armed
    wasted,         \* history: epochs a token was spent on by an account that never noted them
    switches

vars == <<account, held, entry, unavailable, chain, write, timer, wasted, switches>>

NoEntry == [known |-> FALSE]
\* wait: "none" (nextAt is 0), "later" or "due".
NewEntry == [known |-> TRUE, inFlight |-> FALSE, attempts |-> 0, wait |-> "none", fatal |-> FALSE]
NoWrite == [st |-> "idle"]

Init ==
    /\ account \in Account
    /\ held = [a \in Account |-> {}]
    /\ entry = [e \in Epoch |-> NoEntry]
    /\ unavailable = {} /\ chain = <<>> /\ write = NoWrite /\ timer = FALSE
    /\ wasted = {} /\ switches = 0

Has(e) == e \in held[account]

----------------------------------------------------------------------------
(* Asking.                                                                  *)

\* The epochs noteLockedEpochs() queues, and the entries with them queued.
Queued(ent, E) ==
    {e \in E : ~Has(e) /\ (ent[e].known => ~ent[e].inFlight /\ ent[e].wait # "later")}

Entered(ent, E) ==
    [e \in Epoch |-> IF e \in Queued(ent, E)
                     THEN [(IF ent[e].known THEN ent[e] ELSE NewEntry) EXCEPT !.inFlight = TRUE]
                     ELSE ent[e]]

Job(ent, e) == [epoch |-> e, by |-> account, turn |-> switches, st |-> "queued",
                attempts |-> IF ent[e].known THEN ent[e].attempts ELSE 0]

\* One unlock per epoch joins the chain.
Chained(ent, E) ==
    CHOOSE s \in [1..Cardinality(Queued(ent, E)) -> {Job(ent, e) : e \in Queued(ent, E)}] :
        {s[i].epoch : i \in DOMAIN s} = Queued(ent, E)

Kick(ent, E) ==
    /\ entry' = Entered(ent, E)
    /\ chain' = chain \o Chained(ent, E)

\* noteLockedEpochs(), for the sealed items of a feed just built.
Note(e) ==
    /\ e \in SealedIn[account] /\ Queued(entry, {e}) # {}
    /\ Kick(entry, {e})
    /\ UNCHANGED <<account, held, unavailable, write, timer, wasted, switches>>

\* retryEpochUnlock(): the member taps the card.
Retry(e) ==
    LET reset == [entry EXCEPT ![e] = IF @.known THEN [@ EXCEPT !.attempts = 0, !.fatal = FALSE, !.wait = "none"]
                                      ELSE @]
    IN  /\ e \in unavailable /\ ~Has(e) /\ (entry[e].known => ~entry[e].inFlight)
        /\ unavailable' = unavailable \ {e}
        /\ Kick(reset, {e})
        /\ UNCHANGED <<account, held, write, timer, wasted, switches>>

Stuck == {e \in Epoch : entry[e].known /\ ~entry[e].inFlight}

\* reviveStuckEpochUnlocks(): a reconnect, the foreground, or a draw that succeeded.
Revive ==
    LET reset == [e \in Epoch |-> IF e \in Stuck THEN [entry[e] EXCEPT !.attempts = 0, !.fatal = FALSE, !.wait = "none"]
                                  ELSE entry[e]]
    IN  /\ Stuck # {}
        /\ unavailable' = unavailable \ Stuck
        /\ Kick(reset, Stuck)
        /\ UNCHANGED <<account, held, write, timer, wasted, switches>>

\* The time of an entry's next attempt arrives.
Elapse(e) ==
    /\ entry[e].known /\ entry[e].wait = "later"
    /\ entry' = [entry EXCEPT ![e].wait = "due"]
    /\ UNCHANGED <<account, held, unavailable, chain, write, timer, wasted, switches>>

Scheduled(ent) == \E e \in Epoch : ent[e].known /\ ~ent[e].inFlight /\ ent[e].wait # "none"

Due == {e \in Epoch : entry[e].known /\ ~entry[e].inFlight /\ entry[e].wait = "due"}

\* The timer's callback: kick what is due, and arm again for the rest.
Fire ==
    /\ timer /\ Due # {}
    /\ Kick(entry, Due)
    /\ timer' = Scheduled(Entered(entry, Due))
    /\ UNCHANGED <<account, held, unavailable, write, wasted, switches>>

----------------------------------------------------------------------------
(* Unlocking.                                                               *)

\* unlockContentEpoch(), up to its request: nothing is spent on a key already held.  The
\* account that pays is the one active now.
Start ==
    LET e == Head(chain).epoch
    IN  /\ chain # <<>> /\ Head(chain).st = "queued" /\ ~Has(e)
        /\ chain' = [chain EXCEPT ![1].st = "sent", ![1].by = account]
        /\ wasted' = IF e \in SealedIn[account] \cup WriteEpoch THEN wasted ELSE wasted \cup {e}
        /\ UNCHANGED <<account, held, entry, unavailable, write, timer, switches>>

\* The key is stored for the account that paid, and shown if it is still active.
Lands(by, e) ==
    /\ held' = [held EXCEPT ![by] = @ \cup {e}]
    /\ unavailable' = IF by = account THEN unavailable \ {e} ELSE unavailable

\* The entry the job was queued with, if the switch of accounts left it in the map.
Current(job) == job.turn = switches /\ entry[job.epoch].known

FinishOk ==
    LET job == Head(chain)
    IN  /\ chain # <<>>
        /\ \/ /\ job.st = "sent" /\ job.epoch \in ReadableBy[job.by]
              /\ Lands(job.by, job.epoch)
           \/ /\ job.st = "queued" /\ Has(job.epoch)
              /\ UNCHANGED <<held, unavailable>>
        /\ chain' = Tail(chain)
        /\ entry' = [entry EXCEPT ![job.epoch] = NoEntry]
        /\ UNCHANGED <<account, write, timer, wasted, switches>>

\* The entry after a failed attempt.
Failed(st, attempts, terminal) ==
    [st EXCEPT !.inFlight = FALSE, !.attempts = attempts, !.wait = "later", !.fatal = @ \/ terminal]

\* armEpochUnlockTimer().
ArmedNever(ent) == timer

Armed(ent) == Scheduled(ent)

Fails(refused) ==
    LET job == Head(chain)
        e == job.epoch
        before == IF Current(job) THEN entry[e].attempts ELSE job.attempts
        \* counted as far as it is compared
        attempts == IF before < MaxAttempts THEN before + 1 ELSE before
        terminal == refused \/ attempts >= MaxAttempts
        after == IF Current(job) THEN [entry EXCEPT ![e] = Failed(@, attempts, terminal)] ELSE entry
    IN  /\ chain # <<>> /\ job.st = "sent"
        /\ chain' = Tail(chain)
        /\ entry' = after
        /\ unavailable' = IF terminal THEN unavailable \cup {e} ELSE unavailable
        /\ timer' = Armed(after)
        /\ UNCHANGED <<account, held, write, wasted, switches>>

\* No answer: the attempt is given up.
FinishTransient == Fails(FALSE)

\* The organizer says no.
FinishRefused == chain # <<>> /\ Head(chain).epoch \notin ReadableBy[Head(chain).by] /\ Fails(TRUE)

\* ensureWriteEpoch(), off the chain: one at a time, for an announced epoch without a key.
WriteStart(e) ==
    /\ write.st = "idle" /\ e \in WriteEpoch /\ ~Has(e)
    /\ write' = [st |-> "sent", epoch |-> e, by |-> account]
    /\ UNCHANGED <<account, held, entry, unavailable, chain, timer, wasted, switches>>

WriteEnd(ok) ==
    /\ write.st = "sent"
    /\ IF ok /\ write.epoch \in ReadableBy[write.by] THEN Lands(write.by, write.epoch)
       ELSE UNCHANGED <<held, unavailable>>
    /\ write' = NoWrite
    /\ UNCHANGED <<account, entry, chain, timer, wasted, switches>>

\* loadActiveCommunityPolicy(): another account, its stored keys, and no entries.
SwitchStale(a) ==
    /\ a # account /\ switches < MaxSwitch /\ (MidFlight \/ (chain = <<>> /\ write = NoWrite))
    /\ account' = a /\ switches' = switches + 1
    /\ entry' = [e \in Epoch |-> NoEntry] /\ timer' = FALSE
    /\ UNCHANGED <<held, unavailable, chain, write, wasted>>

Switch(a) ==
    /\ a # account /\ switches < MaxSwitch /\ (MidFlight \/ (chain = <<>> /\ write = NoWrite))
    /\ account' = a /\ switches' = switches + 1
    /\ entry' = [e \in Epoch |-> NoEntry] /\ timer' = FALSE /\ unavailable' = {}
    /\ UNCHANGED <<held, chain, write, wasted>>

----------------------------------------------------------------------------
Next ==
    \/ Start \/ FinishOk \/ FinishTransient \/ FinishRefused \/ Fire \/ Revive
    \/ \E e \in Epoch : Note(e) \/ Retry(e) \/ Elapse(e) \/ WriteStart(e)
    \/ \E ok \in BOOLEAN : WriteEnd(ok)
    \/ \E a \in Account : Switch(a)

Spec == Init /\ [][Next]_vars

----------------------------------------------------------------------------
TypeOK ==
    /\ held \in [Account -> SUBSET Epoch] /\ unavailable \subseteq Epoch
    /\ \A e \in Epoch : entry[e].known =>
          entry[e].attempts \in Nat /\ entry[e].wait \in {"none", "later", "due"}
    /\ \A i \in DOMAIN chain : chain[i].epoch \in Epoch /\ (i > 1 => chain[i].st = "queued")
    /\ timer \in BOOLEAN

\* What the card shows is what the ladder knows: an epoch without a key is displayed as
\* unavailable exactly when this account's attempts were refused or exhausted
\* (AppRuntime.ts:4114-4122, 4240-4245, 4623-4624).
CardMatchesLadder ==
    \A e \in Epoch : ~Has(e) =>
        ((e \in unavailable) <=> (entry[e].known /\ entry[e].fatal))

\* An entry that still needs its key is never parked: it is on the chain, or it waits for a time the armed timer will
\* honour (AppRuntime.ts:4204-4237).
NeverParked ==
    \A e \in Epoch : entry[e].known /\ ~Has(e) =>
        \/ \E i \in DOMAIN chain : chain[i].epoch = e
        \/ timer /\ entry[e].wait # "none"

\* An epoch its organizer would unlock is in the end unlocked, on a quiet feed and without a
\* tap or a reconnect, unless the member switches accounts (AppRuntime.ts:4004-4016).
SealedUnlocks ==
    \A e \in Epoch, a \in Account :
        (account = a /\ entry[e].known /\ e \in ReadableBy[a]) ~> (e \in held[a] \/ account # a)

\* AppRuntime.ts:4223-4224: the timer never hot-loops; when it fires for what is due, an
\* attempt is kicked.
NoHotLoop == timer /\ Due # {} => Queued(entry, Due) # {}

\* AppRuntime.ts:3741: an epoch unlocked by a concurrent attempt burns no token: never are
\* two requests for one epoch under way for one account.
NoSecondToken ==
    ~(/\ write.st = "sent" /\ chain # <<>> /\ Head(chain).st = "sent"
      /\ Head(chain).epoch = write.epoch /\ Head(chain).by = write.by)

\* AppRuntime.ts:4623-4624: a switch starts the bookkeeping fresh; the tokens of an account
\* go to epochs of its own community.
NoForeignSpend == wasted = {}
=============================================================================
