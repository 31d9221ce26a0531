---------------------------- MODULE ContentKeys ----------------------------
(***************************************************************************)
(* The organizer's content-epoch keys: issuer/contentEpochKeys.mjs, which  *)
(* mints, keeps and sells them, and issuer/contentEpochWatcher.mjs, which  *)
(* counts sealed posts and rolls the epoch.                                *)
(*                                                                         *)
(* Members seal posts under an announced epoch whose key they bought with  *)
(* a read token.  The watcher counts the sealed posts it is sent, live or  *)
(* replayed when it reconnects, and every RotateEvery of them starts a new *)
(* epoch, announced by a later publish.  An unlock request awaits the      *)
(* check of its token, then spends it and answers; the answer may be lost  *)
(* and asked for again.  Every change is written to a sidecar; the process *)
(* may be killed, and resumes from it.                                     *)
(***************************************************************************)
EXTENDS Integers, SequencesExt, FiniteSetsExt

CONSTANTS
    Post, Token,
    Request, TokenOf,   \* unlock requests; the token each presents
    RotateEvery,        \* rotateEvery
    AnsweredLimit,      \* ANSWERED_UNLOCK_LIMIT
    SeenCap,            \* SEEN_CAP
    ReplayLimit,        \* stored events the relay returns to a REQ without a limit
    SaveFails,          \* whether a sidecar write may fail
    LateWriters,        \* whether members still seal under an epoch after the next is announced
    MaxKill, MaxDrop    \* bounds on kills and on the watcher's reconnects

ContentKeysAssumption ==
    /\ RotateEvery \in Nat \ {0}
    /\ {AnsweredLimit, SeenCap, ReplayLimit, MaxKill, MaxDrop} \subseteq Nat
    /\ TokenOf \in [Request -> Token]
    /\ {SaveFails, LateWriters} \subseteq BOOLEAN

VARIABLES
    mem,        \* custody state: current, posts, keys, spent, answered
    disk,       \* the sidecar
    minted,     \* keys minted so far: the next key's name
    announced,  \* the epoch of the stiq:content-epoch document at the relay
    sealed,     \* the posts at the relay in order: name, epoch, key
    watch,      \* the watcher: connected, posts on their way, the seen ring, where it started
    counted,    \* history: how often each post was counted by this process
    req,        \* per request: its state and the epoch it asks for
    bought,     \* per token: the <<epoch, key>> pairs members received
    kills, drops

vars == <<mem, disk, minted, announced, sealed, watch, counted, req, bought, kills, drops>>

FirstState == [current |-> 0, posts |-> 0, keys |-> <<0>>, spent |-> {}, answered |-> <<>>]

\* keys[e + 1] is the key of epoch e.
KeyFor(s, e) == s.keys[e + 1]
Known(s, e) == e + 1 \in DOMAIN s.keys

StartWatch(from) == [up |-> FALSE, wire |-> <<>>, ring |-> <<>>, from |-> from]

Init ==
    /\ mem = FirstState /\ disk = FirstState /\ minted = 1 /\ announced = 0
    /\ sealed = <<>> /\ watch = StartWatch(0) /\ counted = [p \in Post |-> 0]
    /\ req = [r \in Request |-> [st |-> "new", epoch |-> 0]]
    /\ bought = [t \in Token |-> {}]
    /\ kills = 0 /\ drops = 0

PersistLater(s) == mem' = s /\ UNCHANGED disk

\* persist(): best effort.
Persist(s) ==
    /\ mem' = s
    /\ disk' = s \/ (SaveFails /\ UNCHANGED disk)

----------------------------------------------------------------------------
(* Sealing and counting.                                                    *)

Bought == UNION {bought[t] : t \in Token}
Names == {sealed[i].post : i \in DOMAIN sealed}

\* A member posts under an announced epoch whose key it holds.
Seal(p, e, k) ==
    /\ p \notin Names
    /\ e = announced \/ (LateWriters /\ e \in 0..announced)
    /\ <<e, k>> \in Bought
    /\ sealed' = Append(sealed, [post |-> p, epoch |-> e, key |-> k])
    /\ watch' = IF watch.up THEN [watch EXCEPT !.wire = Append(@, p)] ELSE watch
    /\ UNCHANGED <<mem, disk, minted, announced, counted, req, bought, kills, drops>>

\* The watcher subscribes, since its start: the relay replays the newest stored posts first.
WatchConnect ==
    LET since == SubSeq(sealed, watch.from + 1, Len(sealed))
        newest == SubSeq(Reverse(since), 1, Min({Len(since), ReplayLimit}))
    IN  /\ ~watch.up
        /\ watch' = [watch EXCEPT !.up = TRUE, !.wire = [i \in DOMAIN newest |-> newest[i].post]]
        /\ UNCHANGED <<mem, disk, minted, announced, sealed, counted, req, bought, kills, drops>>

WatchDrop ==
    /\ watch.up /\ drops < MaxDrop
    /\ drops' = drops + 1
    /\ watch' = [watch EXCEPT !.up = FALSE, !.wire = <<>>]
    /\ UNCHANGED <<mem, disk, minted, announced, sealed, counted, req, bought, kills>>

RingAfterForgetful(ring, p) == <<p>>

\* markNew(): a ring of the last SeenCap ids.
RingAfter(ring, p) == IF Len(ring) < SeenCap THEN Append(ring, p) ELSE Append(Tail(ring), p)

\* recordPost(), with the key a rotation mints.
Recorded(s) ==
    IF s.posts + 1 >= RotateEvery
    THEN [s EXCEPT !.current = @ + 1, !.posts = 0, !.keys = Append(@, minted)]
    ELSE [s EXCEPT !.posts = @ + 1]

\* The watcher's message handler: a post not in the ring counts.
Count ==
    LET p == Head(watch.wire)
    IN  /\ watch.wire # <<>>
        /\ \/ /\ p \in ToSet(watch.ring)
              /\ watch' = [watch EXCEPT !.wire = Tail(@)]
              /\ UNCHANGED <<mem, disk, minted, counted>>
           \/ /\ p \notin ToSet(watch.ring)
              /\ watch' = [watch EXCEPT !.wire = Tail(@), !.ring = RingAfter(@, p)]
              /\ counted' = [counted EXCEPT ![p] = @ + 1]
              /\ minted' = IF mem.posts + 1 >= RotateEvery THEN minted + 1 ELSE minted
              /\ Persist(Recorded(mem))
        /\ UNCHANGED <<announced, sealed, req, bought, kills, drops>>

\* publishContentEpoch(): after a rotation, on every reconnect, every six hours.
Publish ==
    /\ announced # mem.current
    /\ announced' = mem.current
    /\ UNCHANGED <<mem, disk, minted, sealed, watch, counted, req, bought, kills, drops>>

----------------------------------------------------------------------------
(* Unlocking.                                                               *)

\* A member sends a request, or the mailbox is given it again.
Ask(r, e) ==
    /\ req[r].st = "new"
    /\ req' = [req EXCEPT ![r] = [st |-> "verify", epoch |-> e]]
    /\ UNCHANGED <<mem, disk, minted, announced, sealed, watch, counted, bought, kills, drops>>

AnsweredFor(t) == {i \in DOMAIN mem.answered : mem.answered[i].token = t}

Trimmed(s) == IF Len(s) > AnsweredLimit THEN Tail(s) ELSE s

RedeemUnmetered(r) ==
    LET t == TokenOf[r]
        e == req[r].epoch
    IN  /\ req[r].st = "verify" /\ Known(mem, e)
        /\ Persist([mem EXCEPT !.spent = @ \cup {t}])
        /\ req' = [req EXCEPT ![r] = [st |-> "answer", epoch |-> e, key |-> KeyFor(mem, e)]]
        /\ UNCHANGED <<minted, announced, sealed, watch, counted, bought, kills, drops>>

\* unlockEpoch(), once the token is verified: the spent set and the answers remembered are
\* read and changed in one go.
Redeem(r) ==
    LET t == TokenOf[r]
        e == req[r].epoch
        Reply(epoch, key) == req' = [req EXCEPT ![r] = [st |-> "answer", epoch |-> epoch, key |-> key]]
    IN  /\ req[r].st = "verify" /\ Known(mem, e)
        /\ \/ /\ t \notin mem.spent
              /\ Persist([mem EXCEPT !.spent = @ \cup {t},
                             !.answered = Trimmed(Append(@, [token |-> t, epoch |-> e, key |-> KeyFor(mem, e)]))])
              /\ Reply(e, KeyFor(mem, e))
           \/ /\ t \in mem.spent
              /\ \E i \in AnsweredFor(t) : Reply(mem.answered[i].epoch, mem.answered[i].key)
              /\ UNCHANGED <<mem, disk>>
           \/ /\ t \in mem.spent /\ AnsweredFor(t) = {}
              /\ req' = [req EXCEPT ![r].st = "refused"]
              /\ UNCHANGED <<mem, disk>>
        /\ UNCHANGED <<minted, announced, sealed, watch, counted, bought, kills, drops>>

\* A restart may have lost the epoch: "unknown content epoch".
Unknown(r) ==
    /\ req[r].st = "verify" /\ ~Known(mem, req[r].epoch)
    /\ req' = [req EXCEPT ![r].st = "refused"]
    /\ UNCHANGED <<mem, disk, minted, announced, sealed, watch, counted, bought, kills, drops>>

Deliver(r) ==
    /\ req[r].st = "answer"
    /\ bought' = [bought EXCEPT ![TokenOf[r]] = @ \cup {<<req[r].epoch, req[r].key>>}]
    /\ req' = [req EXCEPT ![r] = [st |-> "done", epoch |-> req[r].epoch]]
    /\ UNCHANGED <<mem, disk, minted, announced, sealed, watch, counted, kills, drops>>

\* The response is not acknowledged: the mailbox releases the request (Mailbox!Release).
Lose(r) ==
    /\ req[r].st = "answer"
    /\ req' = [req EXCEPT ![r] = [st |-> "new", epoch |-> 0]]
    /\ UNCHANGED <<mem, disk, minted, announced, sealed, watch, counted, bought, kills, drops>>

\* The process dies and starts from the sidecar: its handlers are gone, its watcher starts
\* counting from now.
Kill ==
    /\ kills < MaxKill
    /\ kills' = kills + 1
    /\ mem' = disk
    /\ watch' = StartWatch(Len(sealed)) /\ counted' = [p \in Post |-> 0]
    /\ req' = [r \in Request |-> IF req[r].st \in {"verify", "answer"}
                                  THEN [st |-> "new", epoch |-> 0] ELSE req[r]]
    /\ UNCHANGED <<disk, minted, announced, sealed, bought, drops>>

----------------------------------------------------------------------------
Next ==
    \/ WatchConnect \/ WatchDrop \/ Count \/ Publish \/ Kill
    \/ \E p \in Post, e \in 0..announced, k \in 0..minted : Seal(p, e, k)
    \/ \E r \in Request :
          (\E e \in 0..announced : Ask(r, e)) \/ Redeem(r) \/ Unknown(r) \/ Deliver(r) \/ Lose(r)

Spec == Init /\ [][Next]_vars

----------------------------------------------------------------------------
TypeOK ==
    /\ \A s \in {mem, disk} :
          /\ s.posts \in 0..(RotateEvery - 1)
          /\ Len(s.keys) = s.current + 1
          /\ s.spent \subseteq Token
          /\ Len(s.answered) <= AnsweredLimit
    /\ Len(watch.ring) <= SeenCap /\ ToSet(watch.wire) \subseteq Post
    /\ \A r \in Request : req[r].st \in {"new", "verify", "answer", "done", "refused"}

\* Every sealed post stays unlockable: the organizer still has, and sells, the key it was
\* sealed under (contentEpochWatcher.mjs:17-18, contentEpochKeys.mjs:153-159).
EpochKeyForever ==
    \A i \in DOMAIN sealed :
        Known(mem, sealed[i].epoch) /\ KeyFor(mem, sealed[i].epoch) = sealed[i].key

\* One token buys one epoch, however its requests, retries, losses and kills fall
\* (the spent set, contentEpochKeys.mjs:225-242).
OneUnlockPerToken == \A t \in Token : Cardinality(bought[t]) <= 1

\* A process counts a sealed post once, through reconnects and out-of-order replays
\* (the ring, contentEpochWatcher.mjs:84-92).
CountedOnce == \A p \in Post : counted[p] <= 1

\* contentEpochKeys.mjs:9-10: one key exposes at most rotateEvery posts.
BlastRadius ==
    \A e \in 0..mem.current :
        Cardinality({i \in DOMAIN sealed : sealed[i].epoch = e}) <= RotateEvery
=============================================================================
