----------------------------- MODULE TokenDraw -----------------------------
(***************************************************************************)
(* A member's draw of blind tokens, end to end, for one purpose:           *)
(* drawTokens() and its siblings in client/src/app/AppRuntime.ts, the      *)
(* exchange in blind/drawExchange.ts and the staged marker of              *)
(* blind/drawStaging.ts.                                                   *)
(*                                                                         *)
(* A batch of tokens is blinded, its request signed, and a marker with all *)
(* that is needed to collect it later is written before the request is     *)
(* sent.  The organizer charges the quota when it signs.  The tokens reach *)
(* the wallet, then the marker is removed.  The app may be killed between  *)
(* any two steps; the next draw first resumes the marker it finds.  The    *)
(* relay keeps the request and the answer, so either may be collected long *)
(* after the member stopped waiting; but it may also refuse a request, the *)
(* first time or when it is sent again, and its refusal ends the draw.     *)
(* Storage may refuse what is asked of it.                                 *)
(***************************************************************************)
EXTENDS Integers, FiniteSets

CONSTANTS
    Batch, NoBatch,     \* batches; each is blinded once
    Caller,             \* concurrent draws of the purpose
    Slot,               \* accounts
    Coalesced,          \* whether draws of the purpose are run one at a time
    MidDraw,            \* whether the member may switch accounts while a draw is under way
    Impatient,          \* whether a resume may time out
    Aging,              \* whether a marker may outlive STALE_DRAW_MARKER_MS
    Refusing,           \* whether the relay may refuse a request, also one it has stored
    MaxFail,            \* bound on reads and writes that fail
    MaxCap,             \* MAX_CAP_ADJUSTMENTS
    MaxKill             \* bound on kills

TokenDrawAssumption ==
    /\ NoBatch \notin Batch \cup Slot /\ MaxCap \in Nat /\ MaxKill \in Nat /\ MaxFail \in Nat
    /\ {Coalesced, MidDraw, Impatient, Aging, Refusing} \subseteq BOOLEAN

VARIABLES
    slot,       \* activeSlotId
    marker,     \* per account: the staged batch
    draw,       \* per caller: where its draw stands
    answer,     \* the organizer's answer to each batch
    owner,      \* the account each batch was blinded for
    sent,       \* batches whose request the relay has
    deposited,  \* batches in their wallet
    abandoned,  \* history: batches whose marker was purged as stale
    refused,    \* history: batches whose request the relay refused, if only once
    exposed,    \* history: batches that a failed read or write left without their marker
    fails, kills

hist == <<abandoned, refused, exposed, fails, kills>>
vars == <<slot, marker, draw, answer, owner, sent, deposited, hist>>

\* staged: the draw wrote the marker of its batch.
Idle == [pc |-> "idle", batch |-> NoBatch, ns |-> NoBatch, mine |-> NoBatch, caps |-> 0,
         healed |-> FALSE, staged |-> FALSE]

Init ==
    /\ slot \in Slot
    /\ marker = [s \in Slot |-> NoBatch]
    /\ draw = [c \in Caller |-> Idle]
    /\ answer = [b \in Batch |-> "none"]
    /\ owner = [b \in Batch |-> NoBatch]
    /\ sent = {} /\ deposited = {} /\ abandoned = {} /\ refused = {} /\ exposed = {}
    /\ fails = 0 /\ kills = 0

At(c, pc) == draw[c].pc = pc
Goto(c, pc) == draw' = [draw EXCEPT ![c].pc = pc]
Return(c) == draw' = [draw EXCEPT ![c] = Idle]

\* Storage fails: what comes of it is the action's.
Fail ==
    /\ fails < MaxFail
    /\ fails' = fails + 1
    /\ UNCHANGED <<abandoned, refused, kills>>

\* The relay answers the request of batch b with OK=false.
Refusal(b) ==
    /\ Refusing
    /\ refused' = refused \cup {b}
    /\ UNCHANGED <<abandoned, exposed, fails, kills>>

----------------------------------------------------------------------------
(* Starting, and resuming what an earlier draw left.                        *)

\* The draw captures its account's wallet and credential.
Begin(c) ==
    /\ At(c, "idle")
    /\ Coalesced => \A d \in Caller : At(d, "idle")
    /\ marker[slot] # NoBatch \/ \E b \in Batch : owner[b] = NoBatch    \* bound: batches left
    /\ draw' = [draw EXCEPT ![c] = [Idle EXCEPT !.pc = "load", !.mine = slot]]
    /\ UNCHANGED <<slot, marker, answer, owner, sent, deposited, hist>>

\* resumeStagedDraw(): the marker of the account active now.
LoadMarker(c) ==
    /\ At(c, "load")
    /\ \/ /\ marker[slot] = NoBatch
          /\ Goto(c, "fresh")
          /\ UNCHANGED <<marker, hist>>
       \/ /\ marker[slot] # NoBatch
          /\ draw' = [draw EXCEPT ![c] = [@ EXCEPT !.pc = "resume", !.batch = marker[slot],
                                                   !.ns = slot]]
          /\ UNCHANGED <<marker, hist>>
       \/ /\ Aging /\ marker[slot] # NoBatch
          /\ abandoned' = abandoned \cup {marker[slot]}
          /\ marker' = [marker EXCEPT ![slot] = NoBatch]
          /\ Goto(c, "fresh")
          /\ UNCHANGED <<refused, exposed, fails, kills>>
    /\ UNCHANGED <<slot, answer, owner, sent, deposited>>

\* A marker that cannot be read, or not be purged, counts as none: the fresh batch will
\* overwrite it.
LoadFails(c) ==
    /\ At(c, "load") /\ marker[slot] # NoBatch
    /\ Fail /\ exposed' = exposed \cup {marker[slot]}
    /\ Goto(c, "fresh")
    /\ UNCHANGED <<slot, marker, answer, owner, sent, deposited>>

Trying(c) == draw[c].pc \in {"resume", "try"}

\* runOneAttempt(): subscribe for the answer and send the request, again or for the first time.
Attempt(c) ==
    /\ Trying(c)
    /\ sent' = sent \cup {draw[c].batch}
    /\ UNCHANGED <<slot, marker, draw, answer, owner, deposited, hist>>

\* resumeTokenDraw(), each outcome.
ResumeCollects(c) ==
    /\ At(c, "resume") /\ answer[draw[c].batch] = "signed"
    /\ Goto(c, "resumeAdd")
    /\ UNCHANGED <<slot, marker, answer, owner, sent, deposited, hist>>

ResumeFails(c) ==
    /\ At(c, "resume") /\ answer[draw[c].batch] \in {"cap", "error", "spoiled"}
    /\ marker' = [marker EXCEPT ![draw[c].ns] = NoBatch]
    /\ Goto(c, "fresh")
    /\ UNCHANGED <<slot, answer, owner, sent, deposited, hist>>

\* Any refusal by the relay is taken for final, although the batch may have been charged.
ResumeRefused(c) ==
    /\ At(c, "resume") /\ Refusal(draw[c].batch)
    /\ marker' = [marker EXCEPT ![draw[c].ns] = NoBatch]
    /\ Goto(c, "fresh")
    /\ UNCHANGED <<slot, answer, owner, sent, deposited>>

\* The same, but the marker cannot be removed.
ResumeDropFails(c) ==
    /\ At(c, "resume")
    /\ fails < MaxFail /\ fails' = fails + 1
    /\ \/ answer[draw[c].batch] \in {"cap", "error", "spoiled"} /\ UNCHANGED refused
       \/ Refusing /\ refused' = refused \cup {draw[c].batch}
    /\ Goto(c, "fresh")
    /\ UNCHANGED <<slot, marker, answer, owner, sent, deposited, abandoned, exposed, kills>>

ResumeTimesOut(c) ==
    /\ Impatient /\ At(c, "resume")
    /\ Goto(c, "fresh")
    /\ UNCHANGED <<slot, marker, answer, owner, sent, deposited, hist>>

ResumeAdd(c) ==
    /\ At(c, "resumeAdd")
    /\ deposited' = deposited \cup {draw[c].batch}
    /\ Goto(c, "resumeClear")
    /\ UNCHANGED <<slot, marker, answer, owner, sent, hist>>

ResumeClear(c) ==
    /\ At(c, "resumeClear")
    /\ marker' = [marker EXCEPT ![draw[c].ns] = NoBatch]
    /\ Goto(c, "fresh")
    /\ UNCHANGED <<slot, answer, owner, sent, deposited, hist>>

\* wallet.add() throws: the marker stays, but the draw goes on and will overwrite it.
ResumeAddFails(c) ==
    /\ At(c, "resumeAdd")
    /\ Fail /\ exposed' = exposed \cup {draw[c].batch}
    /\ Goto(c, "fresh")
    /\ UNCHANGED <<slot, marker, answer, owner, sent, deposited>>

\* The marker cannot be removed.
ResumeClearFails(c) ==
    /\ At(c, "resumeClear")
    /\ Fail /\ UNCHANGED exposed
    /\ Goto(c, "fresh")
    /\ UNCHANGED <<slot, marker, answer, owner, sent, deposited>>

----------------------------------------------------------------------------
(* A fresh batch.                                                           *)

StageLate(c) ==
    /\ At(c, "fresh")
    /\ \E b \in Batch :
          /\ owner[b] = NoBatch
          /\ owner' = [owner EXCEPT ![b] = draw[c].mine]
          /\ draw' = [draw EXCEPT ![c] = [@ EXCEPT !.pc = "try", !.batch = b, !.staged = TRUE]]
    /\ UNCHANGED <<slot, marker, answer, sent, deposited, hist>>

\* prepareSession() and onMarker: the batch is blinded and its marker written, over any
\* other, under the account active now.
Stage(c) ==
    /\ At(c, "fresh")
    /\ \E b \in Batch :
          /\ owner[b] = NoBatch
          /\ owner' = [owner EXCEPT ![b] = draw[c].mine]
          /\ marker' = [marker EXCEPT ![slot] = b]
          /\ draw' = [draw EXCEPT ![c] = [@ EXCEPT !.pc = "try", !.batch = b, !.staged = TRUE]]
    /\ UNCHANGED <<slot, answer, sent, deposited, hist>>

\* The marker's write fails and the draw goes on without: the new batch has no marker, and the
\* old one's is taken for the new one's.
StageFails(c) ==
    /\ At(c, "fresh") /\ Fail
    /\ \E b \in Batch :
          /\ owner[b] = NoBatch
          /\ owner' = [owner EXCEPT ![b] = draw[c].mine]
          /\ draw' = [draw EXCEPT ![c] = [@ EXCEPT !.pc = "try", !.batch = b, !.staged = FALSE]]
          /\ exposed' = exposed \cup ({b, marker[slot]} \ {NoBatch})
    /\ UNCHANGED <<slot, marker, answer, sent, deposited>>

\* The community lacks the key of the purpose, also after its keys were fetched, or has no
\* organizer: the draw ends with nothing staged.
MisProvisioned(c) ==
    /\ At(c, "fresh")
    /\ draw' = [draw EXCEPT ![c] = [@ EXCEPT !.pc = "clear", !.staged = FALSE]]
    /\ UNCHANGED <<slot, marker, answer, owner, sent, deposited, hist>>

\* The model has no batch left to blind.
GiveUp(c) ==
    /\ At(c, "fresh") /\ \A b \in Batch : owner[b] # NoBatch
    /\ Return(c)
    /\ UNCHANGED <<slot, marker, answer, owner, sent, deposited, hist>>

Collect(c) ==
    /\ At(c, "try") /\ answer[draw[c].batch] = "signed"
    /\ Goto(c, "add")
    /\ UNCHANGED <<slot, marker, answer, owner, sent, deposited, hist>>

ShrinkUnbounded(c) ==
    /\ At(c, "try") /\ answer[draw[c].batch] = "cap"
    /\ draw' = [draw EXCEPT ![c].pc = "fresh", ![c].caps = @ + 1]
    /\ UNCHANGED <<slot, marker, answer, owner, sent, deposited, hist>>

\* The allowance is smaller: blind a smaller batch, or settle for none.
Shrink(c) ==
    /\ At(c, "try") /\ answer[draw[c].batch] = "cap"
    /\ \/ /\ draw[c].caps < MaxCap
          /\ draw' = [draw EXCEPT ![c].pc = "fresh", ![c].caps = @ + 1]
       \/ Goto(c, "clear")
    /\ UNCHANGED <<slot, marker, answer, owner, sent, deposited, hist>>

\* healedTokenDrawInner(): a batch blinded under an outdated key is retried once, under the
\* keys just fetched; any other failure ends the draw.
Heal(c) ==
    /\ At(c, "try") /\ answer[draw[c].batch] \in {"error", "spoiled"}
    /\ \/ /\ ~draw[c].healed
          /\ draw' = [draw EXCEPT ![c] = [@ EXCEPT !.pc = "fresh", !.healed = TRUE, !.caps = 0]]
       \/ Goto(c, "clear")
    /\ UNCHANGED <<slot, marker, answer, owner, sent, deposited, hist>>

\* A refusal ends the draw, as if nothing were left to collect.
Refused(c) ==
    /\ At(c, "try") /\ Refusal(draw[c].batch)
    /\ Goto(c, "clear")
    /\ UNCHANGED <<slot, marker, answer, owner, sent, deposited>>

TimeOutClears(c) ==
    /\ At(c, "try")
    /\ Goto(c, "clear")
    /\ UNCHANGED <<slot, marker, answer, owner, sent, deposited, hist>>

\* Every attempt ran out: the marker stays for the next draw.
TimeOut(c) ==
    /\ At(c, "try")
    /\ Return(c)
    /\ UNCHANGED <<slot, marker, answer, owner, sent, deposited, hist>>

\* wallet.add() into the wallet captured at the start.
Add(c) ==
    /\ At(c, "add")
    /\ deposited' = deposited \cup {draw[c].batch}
    /\ Goto(c, "clear")
    /\ UNCHANGED <<slot, marker, answer, owner, sent, hist>>

\* wallet.add() throws: the draw is rejected and the marker stays.
AddFails(c) ==
    /\ At(c, "add")
    /\ Fail /\ UNCHANGED exposed
    /\ Return(c)
    /\ UNCHANGED <<slot, marker, answer, owner, sent, deposited>>

\* clearStagedDraw(): whatever marker the account active now has.
Clear(c) ==
    /\ At(c, "clear")
    /\ marker' = [marker EXCEPT ![slot] = NoBatch]
    /\ Return(c)
    /\ UNCHANGED <<slot, answer, owner, sent, deposited, hist>>

ClearFails(c) ==
    /\ At(c, "clear")
    /\ Fail /\ UNCHANGED exposed
    /\ Return(c)
    /\ UNCHANGED <<slot, marker, answer, owner, sent, deposited>>

----------------------------------------------------------------------------
(* The organizer, the account switch and the kill.                          *)

\* One answer per request, whenever the mailbox gets to it (see Mailbox and DrawQuota):
\* signed and charged, over the allowance, refused, or signed under another key than the
\* member blinded for.
Answer(b) ==
    /\ b \in sent /\ answer[b] = "none"
    /\ \E a \in {"signed", "cap", "error", "spoiled"} : answer' = [answer EXCEPT ![b] = a]
    /\ UNCHANGED <<slot, marker, draw, owner, sent, deposited, hist>>

Switch ==
    /\ MidDraw \/ \A c \in Caller : At(c, "idle")
    /\ \E s \in Slot \ {slot} : slot' = s
    /\ UNCHANGED <<marker, draw, answer, owner, sent, deposited, hist>>

Kill ==
    /\ kills < MaxKill
    /\ kills' = kills + 1
    /\ draw' = [c \in Caller |-> Idle]
    /\ UNCHANGED <<slot, marker, answer, owner, sent, deposited, abandoned, refused, exposed, fails>>

----------------------------------------------------------------------------
Step(c) ==
    \/ LoadMarker(c) \/ ResumeCollects(c) \/ ResumeFails(c) \/ ResumeAdd(c) \/ ResumeClear(c)
    \/ Stage(c) \/ GiveUp(c) \/ Collect(c) \/ Shrink(c) \/ Heal(c) \/ Add(c) \/ Clear(c)

Trouble(c) ==
    \/ ResumeTimesOut(c) \/ ResumeRefused(c) \/ TimeOut(c) \/ Refused(c) \/ MisProvisioned(c)
    \/ LoadFails(c) \/ ResumeDropFails(c) \/ ResumeAddFails(c) \/ ResumeClearFails(c)
    \/ StageFails(c) \/ AddFails(c) \/ ClearFails(c)

Next ==
    \/ \E c \in Caller : Begin(c) \/ Attempt(c) \/ Step(c) \/ Trouble(c)
    \/ \E b \in Batch : Answer(b)
    \/ Switch \/ Kill

Spec == Init /\ [][Next]_vars

----------------------------------------------------------------------------
TypeOK ==
    /\ slot \in Slot
    /\ marker \in [Slot -> Batch \cup {NoBatch}]
    /\ answer \in [Batch -> {"none", "signed", "cap", "error", "spoiled"}]
    /\ owner \in [Batch -> Slot \cup {NoBatch}]
    /\ deposited \cup abandoned \subseteq sent \cup {b \in Batch : owner[b] # NoBatch}
    /\ \A c \in Caller : draw[c].caps \in 0..MaxCap /\ draw[c].batch \in Batch \cup {NoBatch}

Staged(b) == \E s \in Slot : marker[s] = b

\* A batch the organizer has charged for is in the wallet, or its marker is stored, so that a
\* kill at this moment loses nothing paid for (drawStaging.ts:7-10; persist-then-clear,
\* AppRuntime.ts:3240-3242, 3294-3295); unless it was purged as stale, the relay once refused
\* its request (drawExchange.ts:622-624), or storage failed on its marker.
PaidBatchKept ==
    \A b \in Batch : answer[b] = "signed" =>
        Staged(b) \/ b \in deposited \cup abandoned \cup refused \cup exposed

\* The marker of a charged batch that is not in the wallet yet is removed only as stale, after
\* the relay refused its request, or at the end of a draw that has no marker of its own; cap
\* answers, timeouts and late clearing never do it (AppRuntime.ts:3229, 3280-3289, 3318).
MarkerKept(s) ==
    LET b == marker[s]
    IN  b # NoBatch /\ marker'[s] = NoBatch =>
            \/ answer[b] # "signed" \/ b \in deposited \cup abandoned' \cup refused'
            \/ \E c \in Caller : At(c, "clear") /\ ~draw[c].staged

\* AppRuntime.ts:3227-3228 of a draw's end: "only clear the marker when there is nothing left to
\* recover".  A batch that is signed and not in the wallet can be recovered with its marker.
ClearedWhenSettled ==
    [][\A s \in Slot : marker[s] # NoBatch /\ marker'[s] = NoBatch =>
          answer[marker[s]] # "signed" \/ marker[s] \in deposited]_vars

\* While draws go on every signed batch reaches the wallet, kills and timeouts notwithstanding,
\* unless the relay refused its request or storage failed on its marker (AppRuntime.ts:3177,
\* 3259-3300).
PaidBatchLands ==
    \A b \in Batch : (answer[b] = "signed") ~> (b \in deposited \cup refused \cup exposed)

\* A marker lies in the namespace of the account that paid for it (drawStaging.ts:18-20).
MarkerSiloed == \A s \in Slot : marker[s] # NoBatch => owner[marker[s]] = s

=============================================================================
