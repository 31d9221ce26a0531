----------------------------- MODULE MCProgress -----------------------------
(***************************************************************************)
(* What must eventually happen: the mailbox answers, a paid draw lands,    *)
(* sealed epochs unlock, and the transport settles.                        *)
(*                                                                         *)
(* The components share no state: part names the one that runs in a        *)
(* behaviour, and the others stay in their initial states.  Fairness is    *)
(* asked of the running component only.                                    *)
(***************************************************************************)
EXTENDS Integers, Sequences, TLC

CONSTANTS
    r1, junk, n1, n2, NoBatch, d1, s1, e1, e2, x

VARIABLES
    part,    \* the component that runs
    now, created, answered, sub, seen, seenAt, highWater, inFlight, handler, timer, disk,
    done, flushed, shed, freed, resent, crashes, slot, marker, draw, answer, owner, sent,
    deposited, abandoned, refused, exposed, fails, kills, account, held, entry, unavailable, chain, write,
    unlockTimer, wasted, switches, tor, live, rung, maybe, stopping, quick, cascade,
    desired, dormant, rerun, retry, dead, startTier, activeTier, warm, legacy, pend, probed,
    proven, left, acts

\* One handler, a request and an unwelcome one, clocks far ahead, a kill.
Mail == INSTANCE Mailbox WITH
    Request <- {r1, junk}, Junk <- {junk}, Drift <- {0, 3}, Window <- 9, Overlap <- 1,
    Skew <- 0, MaxConc <- 1, Drops <- TRUE, Track <- FALSE, MaxNow <- 1, MaxCrash <- 1

\* Two batches, two kills of the app, a failure of storage, a relay that may refuse requests.
Draw == INSTANCE TokenDraw WITH
    Batch <- {n1, n2}, NoBatch <- NoBatch, Caller <- {d1}, Slot <- {s1},
    Coalesced <- TRUE, MidDraw <- FALSE, Impatient <- FALSE, Aging <- FALSE,
    Refusing <- TRUE, MaxFail <- 1, MaxCap <- 1, MaxKill <- 2

\* Two sealed epochs the organizer would unlock.
Unlock == INSTANCE EpochUnlock WITH
    Epoch <- {e1, e2}, Account <- {x}, SealedIn <- x :> {e1, e2},
    ReadableBy <- x :> {e1, e2}, WriteEpoch <- {}, MaxAttempts <- 2, MidFlight <- FALSE,
    MaxSwitch <- 0, timer <- unlockTimer

\* One transport works, two never connect, one is found out to be useless.
Ladder == INSTANCE TorLadder WITH
    Fails <- {2, 3}, Condemnable <- {1}, Good <- {4},
    Acts <- {"drop", "escalate", "background", "restart"}, MaxAct <- 2,
    QuickConnect <- TRUE

ASSUME ProgressAssumption ==
    /\ Mail!MailboxAssumption
    /\ Draw!TokenDrawAssumption
    /\ Unlock!EpochUnlockAssumption
    /\ Ladder!LadderAssumption

Init ==
    /\ part \in {"mailbox", "draw", "unlock", "ladder"}
    /\ Mail!Init /\ Draw!Init /\ Unlock!Init /\ Ladder!Init
    /\ part # "ladder" => legacy = 0

mailVars == <<
    now, created, answered, sub, seen, seenAt, highWater, inFlight, handler, timer, disk,
    done, flushed, shed, freed, resent, crashes>>
drawVars == <<
    slot, marker, draw, answer, owner, sent, deposited, abandoned,
    refused, exposed, fails, kills>>
unlockVars == <<
    account, held, entry, unavailable, chain, write, unlockTimer, wasted, switches>>
ladderVars == <<
    tor, live, rung, maybe, stopping, quick, cascade, desired, dormant, rerun, retry, dead,
    startTier, activeTier, warm, legacy, pend, probed, proven, left, acts>>

MailStep ==
    part = "mailbox" /\ Mail!Next /\ UNCHANGED <<part, drawVars, unlockVars, ladderVars>>
DrawStep ==
    part = "draw" /\ Draw!Next /\ UNCHANGED <<part, mailVars, unlockVars, ladderVars>>
UnlockStep ==
    part = "unlock" /\ Unlock!Next /\ UNCHANGED <<part, mailVars, drawVars, ladderVars>>
LadderStep ==
    part = "ladder" /\ Ladder!Next /\ UNCHANGED <<part, mailVars, drawVars, unlockVars>>

Next == MailStep \/ DrawStep \/ UnlockStep \/ LadderStep

vars == <<part, mailVars, drawVars, unlockVars, ladderVars>>

-----------------------------------------------------------------------------
(* Fairness. *)

\* The organizer reconnects and works off what it received; a response is, some time, sent and
\* stored on a socket that lives long enough to bring the OK.
MailFair ==
    /\ WF_mailVars(part = "mailbox" /\ Mail!Connect)
    /\ WF_mailVars(part = "mailbox" /\ Mail!Drop(junk))
    /\ WF_mailVars(part = "mailbox" /\ Mail!SendFails(r1))
    /\ SF_mailVars(part = "mailbox" /\ Mail!Receive(r1))
    /\ SF_mailVars(part = "mailbox" /\ Mail!Send(r1))
    /\ SF_mailVars(part = "mailbox" /\ Mail!RelayStores(r1))
    /\ SF_mailVars(part = "mailbox" /\ Mail!Ack(r1))

\* Draws are begun on every connect and low wallet; requests reach the organizer, which answers
\* them; a call under way goes on.
DrawFair ==
    /\ WF_drawVars(part = "draw" /\ Draw!Begin(d1))
    /\ WF_drawVars(part = "draw" /\ Draw!Attempt(d1))
    /\ WF_drawVars(part = "draw" /\ Draw!Step(d1))
    /\ \A b \in {n1, n2} : WF_drawVars(part = "draw" /\ Draw!Answer(b))

\* Time passes, timers fire, queued unlocks run and end; an organizer that would unlock an
\* epoch is, some time, reached.  Feeds, taps and reconnects are owed to nobody.
UnlockFair ==
    /\ WF_unlockVars(part = "unlock" /\ Unlock!Start)
    /\ WF_unlockVars(part = "unlock" /\ Unlock!Fire)
    /\ SF_unlockVars(part = "unlock" /\ Unlock!FinishOk)
    /\ WF_unlockVars(part = "unlock" /\ (Unlock!FinishTransient \/ Unlock!FinishRefused))
    /\ \A e \in {e1, e2} : WF_unlockVars(part = "unlock" /\ Unlock!Elapse(e))

\* Promises resolve, timers fire, attempts end, a condemnable rung is found out, and the member
\* comes back.
LadderFair ==
    /\ WF_ladderVars(part = "ladder" /\ Ladder!Step)
    /\ WF_ladderVars(part = "ladder" /\ Ladder!Outcome)
    /\ WF_ladderVars(part = "ladder" /\ Ladder!Judged)
    /\ WF_ladderVars(part = "ladder" /\ Ladder!RetryFires)
    /\ WF_ladderVars(part = "ladder" /\ Ladder!Stopped)
    /\ WF_ladderVars(part = "ladder" /\ Ladder!Foreground)

Spec ==
    /\ Init /\ [][Next]_vars
    /\ MailFair /\ DrawFair /\ UnlockFair /\ LadderFair

-----------------------------------------------------------------------------
\* If the mailbox keeps re-subscribing, every request kept by the relay is in the end answered,
\* dropped on purpose or too old, whatever sockets, acknowledgements and restarts do, and with
\* handlers at their cap (mailbox.mjs:442, 465-486).
EveryRequestServed == Mail!EveryRequestServed

\* While draws go on every batch the organizer charged for reaches the wallet, kills and timeouts
\* notwithstanding, unless the relay refused its request or storage failed on its marker
\* (AppRuntime.ts:3177, 3259-3300, drawExchange.ts:622-624).
PaidBatchLands == Draw!PaidBatchLands

\* An epoch its organizer would unlock is in the end unlocked, on a quiet feed and without a tap
\* or a reconnect (AppRuntime.ts:4004-4016).
SealedUnlocks == Unlock!SealedUnlocks

\* With one working transport, disturbances that end and a member who keeps coming back, the app
\* ends up connected and stays so (App.tsx:1220-1380).
SettlesConnected == <>[](part = "ladder" => Ladder!UpWhenWanted)
=============================================================================
