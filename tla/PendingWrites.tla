--------------------------- MODULE PendingWrites ---------------------------
(***************************************************************************)
(* Writes that wait for tokens: the recovery queue of                      *)
(* client/src/app/AppRuntime.ts, from queuePendingWrite() through          *)
(* signPendingWrite() to publishOptimistic(), with drainPendingPosts(),    *)
(* retry(), cancelSend(), persistPendingCompose(), loadPendingCompose()    *)
(* and the switch of accounts.                                             *)
(*                                                                         *)
(* Signing a write may draw tokens over Tor, for seconds.  A write whose   *)
(* draw came up empty joins pendingPosts, which is written whole, under    *)
(* the key of the account active at that moment.  A drain takes all of the *)
(* queue and signs one write after the other.                              *)
(***************************************************************************)
EXTENDS Integers, Sequences, FiniteSets

CONSTANTS
    Write, Account,
    Owner,          \* Owner[w]: the account that composes w
    HasBlobs,       \* whether writes carry media blobs, published first
    MaxRun,         \* bound on signPendingWrite() callers at once
    MaxKill, MaxSwitch \* bounds

PendingWritesAssumption ==
    /\ Owner \in [Write -> Account] /\ HasBlobs \in BOOLEAN
    /\ MaxRun \in Nat \ {0} /\ MaxKill \in Nat /\ MaxSwitch \in Nat

VARIABLES
    account,        \* activeSlotId
    loading,        \* loadPendingCompose() has not run yet for this account
    pending,        \* pendingPosts
    disk,           \* per account: the persisted queue
    jobs,           \* writes taken by a caller of signPendingWrite(): waiting, or being signed
    composed,       \* writes composed
    kept,           \* history: writes shown as failed, with Retry, and persisted for their account
    closed,         \* writes given up: cancelled, or refused with an error shown
    published,      \* published[w]: the accounts in whose outbox w was put, in order
    kills, switches

vars == <<account, loading, pending, disk, jobs, composed, kept, closed, published, kills, switches>>

Init ==
    /\ account \in Account /\ loading = FALSE /\ pending = {} /\ disk = [a \in Account |-> {}]
    /\ jobs = {} /\ composed = {} /\ kept = {} /\ closed = {}
    /\ published = [w \in Write |-> <<>>] /\ kills = 0 /\ switches = 0

\* persistPendingCompose(): the queue in memory, under the active account's key.
Persisted(queue) == [disk EXCEPT ![account] = queue]

FreeRun == {r \in 1..MaxRun : \A j \in jobs : j.run # r}
NewRun == CHOOSE r \in FreeRun : TRUE
Job(w, st) == [write |-> w, run |-> NewRun, st |-> st]
Moved(j, st) == (jobs \ {j}) \cup {[j EXCEPT !.st = st]}

----------------------------------------------------------------------------
(* Callers of signPendingWrite().                                           *)

\* queuePendingWrite(): the placeholder is shown and the write goes to be signed.
Compose(w) ==
    /\ w \notin composed /\ Owner[w] = account /\ ~loading /\ FreeRun # {}
    /\ composed' = composed \cup {w}
    /\ jobs' = jobs \cup {Job(w, "signing")}
    /\ UNCHANGED <<account, loading, pending, disk, kept, closed, published, kills, switches>>

\* retry(): the intent leaves the queue before it is signed.
RetryInPlace(w) ==
    /\ w \in pending /\ FreeRun # {}
    /\ jobs' = jobs \cup {Job(w, "signing")}
    /\ UNCHANGED <<account, loading, pending, disk, composed, kept, closed, published, kills, switches>>

Retry(w) ==
    /\ w \in pending /\ FreeRun # {}
    /\ pending' = pending \ {w}
    /\ jobs' = jobs \cup {Job(w, "signing")}
    /\ UNCHANGED <<account, loading, disk, composed, kept, closed, published, kills, switches>>

\* drainPendingPosts(): on a connection, a draw or a pull, the whole queue is taken.
DrainPersisting ==
    /\ pending # {} /\ FreeRun # {}
    /\ pending' = {} /\ disk' = Persisted({})
    /\ jobs' = jobs \cup {Job(w, "waiting") : w \in pending}
    /\ UNCHANGED <<account, loading, composed, kept, closed, published, kills, switches>>

Drain ==
    /\ pending # {} /\ FreeRun # {}
    /\ pending' = {}
    /\ jobs' = jobs \cup {Job(w, "waiting") : w \in pending}
    /\ UNCHANGED <<account, loading, disk, composed, kept, closed, published, kills, switches>>

\* The next write of a drain: signed, or dropped when it is not the active account's.  After
\* the last one the queue is persisted.
Turn(j) ==
    /\ j \in jobs /\ j.st = "waiting" /\ \A k \in jobs : k.run = j.run => k.st = "waiting"
    /\ IF Owner[j.write] = account
       THEN jobs' = Moved(j, "signing") /\ UNCHANGED disk
       ELSE /\ jobs' = jobs \ {j}
            /\ disk' = IF \A k \in jobs : k.run = j.run => k = j THEN Persisted(pending) ELSE disk
    /\ UNCHANGED <<account, loading, pending, composed, kept, closed, published, kills, switches>>

\* cancelSend(), offered for a failed placeholder.
Cancel(w) ==
    /\ w \in pending /\ \A j \in jobs : j.write # w
    /\ pending' = pending \ {w}
    /\ disk' = Persisted(pending')
    /\ closed' = closed \cup {w}
    /\ UNCHANGED <<account, loading, jobs, composed, kept, published, kills, switches>>

----------------------------------------------------------------------------
(* signPendingWrite().                                                      *)

\* No tokens: the write is queued, and the queue persisted.
Exhausted(j) ==
    /\ j \in jobs /\ j.st = "signing"
    /\ jobs' = jobs \ {j}
    /\ pending' = pending \cup {j.write}
    /\ disk' = Persisted(pending')
    /\ kept' = IF Owner[j.write] = account THEN kept \cup {j.write} ELSE kept
    /\ UNCHANGED <<account, loading, composed, closed, published, kills, switches>>

\* Any other error is shown, and the write dropped.
Refused(j) ==
    /\ j \in jobs /\ j.st = "signing"
    /\ jobs' = jobs \ {j}
    /\ pending' = pending \ {j.write}
    /\ disk' = Persisted(pending')
    /\ closed' = closed \cup {j.write}
    /\ UNCHANGED <<account, loading, composed, kept, published, kills, switches>>

\* The silo guard: the account was switched while the write was signed.
Abandoned(j) ==
    /\ j \in jobs /\ j.st = "signing" /\ Owner[j.write] # account
    /\ jobs' = jobs \ {j}
    /\ pending' = pending \ {j.write}
    /\ disk' = Persisted(pending')
    /\ UNCHANGED <<account, loading, composed, kept, closed, published, kills, switches>>

Publish(w) == published' = [published EXCEPT ![w] = Append(@, account)]

\* Signed: out of the queue, and into the outbox, after its blobs if it has some.
SignedUnguarded(j) ==
    /\ j \in jobs /\ j.st = "signing"
    /\ pending' = pending \ {j.write}
    /\ jobs' = Moved(j, "saving") /\ Publish(j.write)
    /\ UNCHANGED <<account, loading, disk, composed, kept, closed, kills, switches>>

Signed(j) ==
    /\ j \in jobs /\ j.st = "signing" /\ Owner[j.write] = account
    /\ pending' = pending \ {j.write}
    /\ IF HasBlobs THEN jobs' = Moved(j, "blobs") /\ UNCHANGED published
       ELSE jobs' = Moved(j, "saving") /\ Publish(j.write)
    /\ UNCHANGED <<account, loading, disk, composed, kept, closed, kills, switches>>

AfterBlobs(j) ==
    /\ j \in jobs /\ j.st = "blobs"
    /\ jobs' = Moved(j, "saving") /\ Publish(j.write)
    /\ UNCHANGED <<account, loading, pending, disk, composed, kept, closed, kills, switches>>

\* The outbox is written; the queue follows.
Saved(j) ==
    /\ j \in jobs /\ j.st = "saving"
    /\ jobs' = jobs \ {j}
    /\ disk' = Persisted(pending)
    /\ UNCHANGED <<account, loading, pending, composed, kept, closed, published, kills, switches>>

----------------------------------------------------------------------------
\* activateWorkspace(): the queue in memory is dropped with the account ...
Switch(a) ==
    /\ a # account /\ ~loading /\ switches < MaxSwitch
    /\ account' = a /\ switches' = switches + 1
    /\ pending' = {} /\ loading' = TRUE
    /\ UNCHANGED <<disk, jobs, composed, kept, closed, published, kills>>

\* ... and, at the end, loadPendingCompose() brings the new account's.
Load ==
    /\ loading
    /\ pending' = pending \cup disk[account] /\ loading' = FALSE
    /\ UNCHANGED <<account, disk, jobs, composed, kept, closed, published, kills, switches>>

Kill ==
    /\ kills < MaxKill
    /\ kills' = kills + 1
    /\ jobs' = {} /\ pending' = {} /\ loading' = TRUE
    /\ UNCHANGED <<account, disk, composed, kept, closed, published, switches>>

Next ==
    \/ Drain \/ Load \/ Kill
    \/ \E w \in Write : Compose(w) \/ Retry(w) \/ Cancel(w)
    \/ \E j \in jobs : Turn(j) \/ Exhausted(j) \/ Refused(j) \/ Abandoned(j) \/ Signed(j) \/ AfterBlobs(j) \/ Saved(j)
    \/ \E a \in Account : Switch(a)

Spec == Init /\ [][Next]_vars

JobOf(w) == {j \in jobs : j.write = w}

----------------------------------------------------------------------------
TypeOK ==
    /\ pending \subseteq composed /\ disk \in [Account -> SUBSET Write] /\ kept \subseteq composed
    /\ jobs \subseteq [write : composed, run : 1..MaxRun, st : {"waiting", "signing", "blobs", "saving"}]
    /\ \A j, k \in jobs : j.run = k.run /\ j # k => "waiting" \in {j.st, k.st}

\* One write is published once, whoever signs it: its caller, a drain, a draw's drain or Retry
\* (AppRuntime.ts:5418-5423).
PublishedOnce == \A w \in Write : Len(published[w]) <= 1

\* A write is never published from another account (AppRuntime.ts:12561-12567).
PublishedHome == \A w \in Write : \A i \in DOMAIN published[w] : published[w][i] = Owner[w]

\* A write shown as failed and queued is never lost: it is in its account's stored queue, in
\* memory or being signed, until it is published or given up (AppRuntime.ts:12705-12707).
NeverLost ==
    \A w \in kept : \/ published[w] # <<>> \/ w \in closed \/ JobOf(w) # {}
                    \/ w \in disk[Owner[w]] \/ (w \in pending /\ account = Owner[w])

\* A queue is stored under its own account's key (AppRuntime.ts:1518-1519).
StoredHome == \A a \in Account : \A w \in disk[a] : Owner[w] = a

=============================================================================
