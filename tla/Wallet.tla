------------------------------- MODULE Wallet -------------------------------
(***************************************************************************)
(* EpochWallet of client/src/blind/wallet.ts: the member's unspent tokens. *)
(*                                                                         *)
(* Calls overlap.  Each first awaits a shared hydration from storage, then *)
(* changes the in-memory list in one synchronous step, then awaits the     *)
(* write of the snapshot it took, which goes through a chain of storage    *)
(* tasks.  A call that finds too few tokens, and every count(), first      *)
(* re-reads storage through the same chain.  The process may be killed at  *)
(* any point; storage survives.  Storage may refuse any read, write or     *)
(* removal, also the second of two.  Several instances may share one:      *)
(* a draw keeps the instance it began with while a switch of accounts and  *)
(* back builds another.                                                    *)
(***************************************************************************)
EXTENDS Integers, SequencesExt, FiniteSetsExt

CONSTANTS
    Instance,       \* EpochWallet objects over the one storage
    Caller,         \* concurrent callers
    Batch,          \* drawn batches, and BatchTokens[b], the tokens of batch b
    BatchTokens,
    KeyOf,          \* KeyOf[t]: the issuer key that signed token t
    Key, NoKey,     \* issuer-key fingerprints; NoKey: none bound, or no stamp
    Need,           \* the numbers of tokens a post may cost
    Overlap,        \* whether a call may change the list while a re-read is pending
    Replay,         \* whether a batch may be added again after a kill
    StorageFails,   \* whether storage may refuse a read, a write or a removal
    MaxBind, MaxCrash   \* bounds on key changes and on kills

WalletAssumption ==
    /\ NoKey \notin Key
    /\ Need \subseteq Nat \ {0}
    /\ {Overlap, Replay, StorageFails} \subseteq BOOLEAN
    /\ MaxBind \in Nat /\ MaxCrash \in Nat

VARIABLES
    disk,       \* the stored token list
    stamp,      \* the stored issuer-key fingerprint
    wallet,     \* per instance: held, hydration, bound key, task chain, pending read
    call,       \* per caller: the call it makes and where it stands
    attempted,  \* history: batches given to add()
    deposited,  \* history: tokens whose add() has returned
    taken,      \* history: tokens a spend has removed from the list
    returned,   \* history: how often a spend has returned each token (2: or more)
    discarded,  \* history: tokens dropped by a key change or a wipe
    forgotten,  \* history: tokens lost because a read of the list or the stamp failed
    binds, crashes

hist == <<attempted, deposited, taken, returned, discarded, forgotten, binds, crashes>>
vars == <<disk, stamp, wallet, call, attempted, deposited, taken, returned, discarded,
          forgotten, binds, crashes>>

Token == UNION {ToSet(BatchTokens[b]) : b \in Batch}

Idle == [pc |-> "idle"]
NotReading == <<>>     \* otherwise <<list>>: read or reconciled, not yet assigned

\* unread is history: what was stored when the instance failed to read it.
Fresh == [held |-> <<>>, hydrated |-> "no", key |-> NoKey, chain |-> <<>>,
          reading |-> NotReading, unread |-> {}]

Init ==
    /\ disk = <<>> /\ stamp = NoKey
    /\ wallet = [i \in Instance |-> Fresh]
    /\ call = [c \in Caller |-> Idle]
    /\ attempted = {} /\ deposited = {} /\ taken = {} /\ returned = [t \in Token |-> 0]
    /\ discarded = {} /\ forgotten = {}
    /\ binds = 0 /\ crashes = 0

----------------------------------------------------------------------------
(* The task chain of an instance.                                           *)

\* The synchronous part of a call may run: unless overlaps are allowed, no task that will
\* assign the list anew, or empty it, is waiting or running.
MayMutate(i) ==
    Overlap \/ \A n \in DOMAIN wallet[i].chain : wallet[i].chain[n].kind = "write"

\* enqueue(), together with the list the call leaves behind.
Enqueue(i, held, task) ==
    wallet' = [wallet EXCEPT ![i].held = held, ![i].chain = Append(@, task)]

WriteTask(c, held) == [kind |-> "write", by |-> c, snapshot |-> held]

Running(i, kind) == wallet[i].chain # <<>> /\ Head(wallet[i].chain).kind = kind

\* A task is over; the chain goes on even if it failed.
ChainAfter(i) == Tail(wallet[i].chain)

Returning(got) ==
    [t \in Token |-> IF t \notin ToSet(got) THEN returned[t]
                     ELSE IF returned[t] = 0 THEN 1 ELSE 2]

----------------------------------------------------------------------------
(* Calls.                                                                   *)

Begin(c, what) ==
    /\ call[c] = Idle
    /\ call' = [call EXCEPT ![c] = what]

BeginAdd(c, i, b) ==
    /\ b \notin attempted \/ Replay
    /\ ~(ToSet(BatchTokens[b]) \subseteq deposited)
    /\ \A d \in Caller : call[d].pc # "idle" /\ call[d].op = "add" => call[d].batch # b
    /\ Begin(c, [pc |-> "hydrate", on |-> i, op |-> "add", batch |-> b])
    /\ attempted' = attempted \cup {b}
    /\ UNCHANGED <<disk, stamp, wallet, deposited, taken, returned, discarded, forgotten, binds,
                   crashes>>

BeginSpend(c, i, n) ==
    /\ Begin(c, [pc |-> "hydrate", on |-> i, op |-> "spend", n |-> n])
    /\ UNCHANGED <<disk, stamp, wallet, hist>>

BeginCount(c, i) ==
    /\ Begin(c, [pc |-> "hydrate", on |-> i, op |-> "count"])
    /\ UNCHANGED <<disk, stamp, wallet, hist>>

\* clear(), before a wipe or a new enrolment, when nothing else is under way.
BeginClear(c, i) ==
    /\ \A d \in Caller : call[d] = Idle
    /\ Begin(c, [pc |-> "hydrate", on |-> i, op |-> "clear"])
    /\ UNCHANGED <<disk, stamp, wallet, hist>>

\* hydrate(), first half: the first call that needs it loads the stored list.
HydrateLoad(i) ==
    /\ wallet[i].hydrated = "no"
    /\ \E c \in Caller : call[c].pc = "hydrate" /\ call[c].on = i
    /\ wallet' = [wallet EXCEPT ![i].hydrated = "loading",
                                ![i].held = IF disk = <<>> THEN @ ELSE disk]
    /\ UNCHANGED <<disk, stamp, call, hist>>

\* A list that cannot be read, or makes no sense, is taken for an empty one.
HydrateFails(i) ==
    /\ StorageFails
    /\ wallet[i].hydrated = "no"
    /\ \E c \in Caller : call[c].pc = "hydrate" /\ call[c].on = i
    /\ wallet' = [wallet EXCEPT ![i].hydrated = "yes", ![i].unread = ToSet(disk)]
    /\ UNCHANGED <<disk, stamp, call, hist>>

\* reconcileKey(held): a list drawn under another key, or under none, is dropped from
\* storage and the bound key becomes the stamp.  A stamp that cannot be read counts as none.
Kept(i) == wallet[i].key \in {NoKey, stamp}

Mistaken(i) == StorageFails /\ wallet[i].key # NoKey

Drop(i) ==
    LET lost == IF wallet[i].held = <<>> THEN {} ELSE ToSet(disk) \cup ToSet(wallet[i].held)
    IN  /\ disk' = IF wallet[i].held = <<>> THEN disk ELSE <<>>
        /\ discarded' = IF Kept(i) THEN discarded ELSE discarded \cup lost
        /\ forgotten' = IF Kept(i) THEN forgotten \cup lost ELSE forgotten

Reconcile(i, kept) ==
    \/ kept /\ Kept(i) /\ UNCHANGED <<disk, stamp, discarded, forgotten>>
    \/ ~kept /\ (~Kept(i) \/ Mistaken(i)) /\ Drop(i) /\ stamp' = wallet[i].key

\* It throws, before the list is removed from storage or after; the list in memory stays.
ReconcileThrows(i) ==
    /\ StorageFails
    /\ UNCHANGED <<disk, discarded, forgotten>> \/ (wallet[i].key # NoKey /\ Drop(i))
    /\ UNCHANGED stamp

\* hydrate(), second half.
HydrateReconcile(i) ==
    /\ wallet[i].hydrated = "loading"
    /\ \E kept \in BOOLEAN :
          /\ Reconcile(i, kept)
          /\ wallet' = [wallet EXCEPT ![i].hydrated = "yes", ![i].held = IF kept THEN @ ELSE <<>>]
    /\ UNCHANGED <<call, attempted, deposited, taken, returned, binds, crashes>>

\* The read of the epoch or the reconciliation throws: the list is used as it was loaded.
HydrateThrows(i) ==
    /\ wallet[i].hydrated = "loading"
    /\ ReconcileThrows(i)
    /\ wallet' = [wallet EXCEPT ![i].hydrated = "yes"]
    /\ UNCHANGED <<call, attempted, deposited, taken, returned, binds, crashes>>

Ready(c, op) ==
    /\ call[c].pc = "hydrate" /\ call[c].op = op
    /\ wallet[call[c].on].hydrated = "yes"
    /\ MayMutate(call[c].on)

\* Where the list s has a token that the list held lacks, for the first time; and the tokens
\* of s found there, in order.
NotHeld(s, held) ==
    {n \in DOMAIN s : s[n] \notin ToSet(held) /\ \A m \in 1..(n - 1) : s[m] # s[n]}

New(s, held) ==
    LET at == NotHeld(s, held)
    IN  [k \in 1..Cardinality(at) |-> s[CHOOSE n \in at : Cardinality(at \cap 1..n) = k]]

\* add(): the tokens not already held join the list.
Add(c) ==
    LET i == call[c].on
        held == wallet[i].held \o New(BatchTokens[call[c].batch], wallet[i].held)
    IN  /\ Ready(c, "add")
        /\ Enqueue(i, held, WriteTask(c, held))
        /\ call' = [call EXCEPT ![c].pc = "persist"]
        /\ UNCHANGED <<disk, stamp, hist>>

\* Mutant: the tokens are handed out before the shorter list is stored.
TakeAtOnce(c) ==
    LET i == call[c].on
        got == SubSeq(wallet[i].held, 1, call[c].n)
        held == SubSeq(wallet[i].held, call[c].n + 1, Len(wallet[i].held))
    IN  /\ Enqueue(i, held, WriteTask(c, held))
        /\ call' = [call EXCEPT ![c] = [pc |-> "persist", op |-> "count", on |-> i]]
        /\ taken' = taken \cup ToSet(got)
        /\ returned' = Returning(got)
        /\ UNCHANGED <<disk, stamp, attempted, deposited, discarded, forgotten, binds, crashes>>

\* The oldest n tokens leave the list.
Take(c) ==
    LET i == call[c].on
        got == SubSeq(wallet[i].held, 1, call[c].n)
        held == SubSeq(wallet[i].held, call[c].n + 1, Len(wallet[i].held))
    IN  /\ Enqueue(i, held, WriteTask(c, held))
        /\ call' = [call EXCEPT ![c] = [pc |-> "persist", op |-> "spend", on |-> i, got |-> got]]
        /\ taken' = taken \cup ToSet(got)
        /\ UNCHANGED <<disk, stamp, attempted, deposited, returned, discarded, forgotten, binds,
                       crashes>>

Resync(c, i) ==
    /\ Enqueue(i, wallet[i].held, [kind |-> "resync", by |-> c])
    /\ call' = [call EXCEPT ![c].pc = "resync"]
    /\ UNCHANGED <<disk, stamp, hist>>

\* spend() and spendMany(n): too short a list is first read again.
Spend(c) ==
    /\ Ready(c, "spend")
    /\ IF Len(wallet[call[c].on].held) < call[c].n THEN Resync(c, call[c].on) ELSE Take(c)

\* The second look, after the re-read: all or nothing.
SpendAgain(c) ==
    /\ call[c].pc = "resynced" /\ MayMutate(call[c].on)
    /\ IF Len(wallet[call[c].on].held) < call[c].n
       THEN /\ call' = [call EXCEPT ![c] = Idle]
            /\ UNCHANGED <<disk, stamp, wallet, hist>>
       ELSE Take(c)

Count(c) ==
    /\ Ready(c, "count")
    /\ Resync(c, call[c].on)

Clear(c) ==
    LET i == call[c].on
    IN  /\ Ready(c, "clear")
        /\ Enqueue(i, <<>>, [kind |-> "remove", by |-> c])
        /\ call' = [call EXCEPT ![c].pc = "persist"]
        /\ discarded' = discarded \cup ToSet(wallet[i].held) \cup ToSet(disk)
        /\ UNCHANGED <<disk, stamp, attempted, deposited, taken, returned, forgotten, binds, crashes>>

\* setKeyFingerprint(): a new key over a hydrated list queues a reconciliation.
SetKeyFingerprint(i, k) ==
    /\ binds < MaxBind
    /\ k # wallet[i].key
    /\ wallet' = [wallet EXCEPT ![i].key = k,
                                ![i].chain = IF wallet[i].hydrated = "yes"
                                             THEN Append(@, [kind |-> "reconcile"]) ELSE @]
    /\ binds' = binds + 1
    /\ UNCHANGED <<disk, stamp, call, attempted, deposited, taken, returned, discarded, forgotten,
                   crashes>>

----------------------------------------------------------------------------
(* Tasks.                                                                   *)

\* A call whose write has landed returns.
Return(c) ==
    /\ call[c].pc = "landed"
    /\ call' = [call EXCEPT ![c] = Idle]
    /\ deposited' = IF call[c].op = "add" THEN deposited \cup ToSet(BatchTokens[call[c].batch])
                    ELSE deposited
    /\ returned' = IF call[c].op = "spend" THEN Returning(call[c].got) ELSE returned
    /\ UNCHANGED <<disk, stamp, wallet, attempted, taken, discarded, forgotten, binds, crashes>>

Landed(c) == call' = [call EXCEPT ![c].pc = "landed"]

\* Mutant: writes are not chained and land in any order.
WriteLandsUnordered(i) ==
    \E n \in DOMAIN wallet[i].chain :
        /\ wallet[i].chain[n].kind = "write"
        /\ disk' = wallet[i].chain[n].snapshot
        /\ wallet' = [wallet EXCEPT ![i].chain = RemoveAt(@, n)]
        /\ Landed(wallet[i].chain[n].by)
        /\ UNCHANGED <<stamp, hist>>

\* The stored list is replaced; what the instance never read of it is lost.
StoreList(i) ==
    LET list == Head(wallet[i].chain).snapshot
    IN  /\ disk' = list
        /\ forgotten' = forgotten \cup (wallet[i].unread \ ToSet(list))
        /\ wallet' = [wallet EXCEPT ![i].chain = ChainAfter(i)]
        /\ UNCHANGED <<stamp, attempted, deposited, taken, returned, discarded, binds, crashes>>

WriteLands(i) ==
    /\ Running(i, "write")
    /\ StoreList(i)
    /\ Landed(Head(wallet[i].chain).by)

\* clear()'s task: storage is emptied and the next call hydrates again.
RemoveLands(i) ==
    /\ Running(i, "remove")
    /\ disk' = <<>> /\ stamp' = NoKey
    /\ wallet' = [wallet EXCEPT ![i].chain = ChainAfter(i), ![i].hydrated = "no",
                                ![i].unread = {}]
    /\ Landed(Head(wallet[i].chain).by)
    /\ UNCHANGED hist

\* resyncFromStorage(), up to its await: the stored list is read.
ResyncRead(i) ==
    /\ Running(i, "resync") /\ wallet[i].reading = NotReading
    /\ wallet' = [wallet EXCEPT ![i].reading = <<disk>>]
    /\ UNCHANGED <<disk, stamp, call, hist>>

\* The pending read becomes the list; a re-read resumes its caller.
Adopt(i) ==
    /\ wallet[i].reading # NotReading
    /\ wallet' = [wallet EXCEPT ![i].held = Head(wallet[i].reading), ![i].reading = NotReading,
                                ![i].chain = ChainAfter(i),
                                ![i].unread = IF Running(i, "resync") THEN {} ELSE @]
    /\ call' = IF ~Running(i, "resync") THEN call
               ELSE LET c == Head(wallet[i].chain).by
                    IN  IF call[c].op = "count" THEN [call EXCEPT ![c] = Idle]
                        ELSE [call EXCEPT ![c].pc = "resynced"]
    /\ UNCHANGED <<disk, stamp, hist>>

\* The reconciliation that setKeyFingerprint queued, up to its last await.
ReconcileRun(i) ==
    /\ Running(i, "reconcile") /\ wallet[i].reading = NotReading
    /\ \E kept \in BOOLEAN :
          /\ Reconcile(i, kept)
          /\ wallet' = [wallet EXCEPT ![i].reading = <<IF kept THEN wallet[i].held ELSE <<>>>>]
    /\ UNCHANGED <<call, attempted, deposited, taken, returned, binds, crashes>>

\* Mutant: a failed write is logged and swallowed.
TaskFailsSwallowed(i) ==
    /\ StorageFails
    /\ Running(i, "write") \/ Running(i, "resync")
    /\ wallet[i].reading = NotReading
    /\ wallet' = [wallet EXCEPT ![i].chain = ChainAfter(i)]
    /\ LET c == Head(wallet[i].chain).by
       IN  call' = [call EXCEPT ![c].pc = IF call[c].pc = "resync" /\ call[c].op = "spend"
                                          THEN "resynced" ELSE "landed"]
    /\ UNCHANGED <<disk, stamp, hist>>

\* A write or a re-read fails: the writer's call is rejected, the reader goes on.
TaskFails(i) ==
    /\ StorageFails
    /\ Running(i, "write") \/ Running(i, "resync")
    /\ wallet[i].reading = NotReading
    /\ wallet' = [wallet EXCEPT ![i].chain = ChainAfter(i)]
    /\ LET c == Head(wallet[i].chain).by
       IN  call' = IF call[c].pc = "resync" /\ call[c].op = "spend"
                   THEN [call EXCEPT ![c].pc = "resynced"] ELSE [call EXCEPT ![c] = Idle]
    /\ UNCHANGED <<disk, stamp, hist>>

\* The list is stored, but not the epoch that add() stores after it: the call is rejected.
WriteHalfLands(i) ==
    /\ StorageFails
    /\ Running(i, "write") /\ call[Head(wallet[i].chain).by].op = "add"
    /\ StoreList(i)
    /\ call' = [call EXCEPT ![Head(wallet[i].chain).by] = Idle]

\* clear() is rejected, before the list is removed or after; the stamp stays.
RemoveFails(i) ==
    /\ StorageFails
    /\ Running(i, "remove")
    /\ disk' \in {disk, <<>>}
    /\ wallet' = [wallet EXCEPT ![i].chain = ChainAfter(i)]
    /\ call' = [call EXCEPT ![Head(wallet[i].chain).by] = Idle]
    /\ UNCHANGED <<stamp, hist>>

\* The reconciliation that setKeyFingerprint queued throws, and nobody hears of it.
ReconcileFails(i) ==
    /\ Running(i, "reconcile") /\ wallet[i].reading = NotReading
    /\ ReconcileThrows(i)
    /\ wallet' = [wallet EXCEPT ![i].chain = ChainAfter(i)]
    /\ UNCHANGED <<call, attempted, deposited, taken, returned, binds, crashes>>

\* The process is killed and started again; storage survives.
Crash ==
    /\ crashes < MaxCrash
    /\ crashes' = crashes + 1
    /\ wallet' = [i \in Instance |-> Fresh]
    /\ call' = [c \in Caller |-> Idle]
    /\ UNCHANGED <<disk, stamp, attempted, deposited, taken, returned, discarded, forgotten, binds>>

CallStep(c) == Add(c) \/ Spend(c) \/ SpendAgain(c) \/ Count(c) \/ Clear(c) \/ Return(c)

TaskStep(i) ==
    \/ HydrateLoad(i) \/ HydrateReconcile(i) \/ WriteLands(i) \/ RemoveLands(i)
    \/ ResyncRead(i) \/ ReconcileRun(i) \/ Adopt(i)
    \/ HydrateFails(i) \/ HydrateThrows(i) \/ WriteHalfLands(i) \/ RemoveFails(i)
    \/ ReconcileFails(i) \/ TaskFails(i)

Next ==
    \/ \E c \in Caller, i \in Instance :
          \/ \E b \in Batch : BeginAdd(c, i, b)
          \/ \E n \in Need : BeginSpend(c, i, n)
          \/ BeginCount(c, i) \/ BeginClear(c, i)
    \/ \E c \in Caller : CallStep(c)
    \/ \E i \in Instance : TaskStep(i)
    \/ \E i \in Instance, k \in Key : SetKeyFingerprint(i, k)
    \/ Crash

Spec == Init /\ [][Next]_vars

----------------------------------------------------------------------------
\* Types; and a caller waits for at most one task of its instance's chain.
TypeOK ==
    /\ disk \in Seq(Token) /\ stamp \in Key \cup {NoKey}
    /\ \A i \in Instance :
          /\ wallet[i].held \in Seq(Token) /\ IsInjective(wallet[i].held)
          /\ \A m, n \in DOMAIN wallet[i].chain :
                /\ wallet[i].chain[m].kind # "reconcile" /\ wallet[i].chain[n].kind # "reconcile"
                /\ m # n
                => wallet[i].chain[m].by # wallet[i].chain[n].by
    /\ returned \in [Token -> 0..2]

\* No token is handed out twice, through any overlap of calls and any kill: the relay would
\* refuse the second post as a double spend.
NoTokenTwice == \A t \in Token : returned[t] <= 1

\* A token that was handed out is no longer in storage, so no restart brings it back.
SpentIsGone == \A t \in ToSet(disk) : returned[t] = 0

\* A deposit that was acknowledged is in storage until a spend takes it or a key change or a
\* wipe drops it, or until a failed read makes the wallet forget it: a stamp that cannot be
\* read condemns the list, and a list that cannot be read is overwritten by the next write,
\* unless a re-read or a restart comes first.  No other failure, and no other call's snapshot,
\* erases it.
DepositKept == deposited \subseteq ToSet(disk) \cup taken \cup discarded \cup forgotten

\* Once the task chain is drained, memory and storage agree: the order of the writes is the
\* order of the changes.
MemoryMatchesStorage ==
    \A i \in Instance :
        /\ wallet[i].chain = <<>> /\ wallet[i].hydrated = "yes"
        => wallet[i].held = disk

\* Held tokens are of the bound key, once the reconciliations it caused have run.
HeldMatchesStamp ==
    \A i \in Instance :
        /\ wallet[i].chain = <<>> /\ wallet[i].hydrated = "yes"
        /\ wallet[i].key # NoKey
        => \A t \in ToSet(wallet[i].held) : KeyOf[t] = wallet[i].key
============================================================================
