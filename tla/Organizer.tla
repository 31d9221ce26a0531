----------------------------- MODULE Organizer ------------------------------
(***************************************************************************)
(* The organizer's server: token draws, the mailbox, content-epoch keys    *)
(* and enrolment, by invite at the mailbox and by code at the dashboard.   *)
(*                                                                         *)
(* The components share no state: part names the one that runs in a        *)
(* behaviour, and the variables of the others stay "off", so that the      *)
(* states are the sum of theirs.  Variables of one name in two components  *)
(* are one variable here.                                                  *)
(***************************************************************************)
EXTENDS Integers, Sequences

CONSTANTS
    \* DrawQuota
    Cred, Bucket, BucketOf, Req, Body, ReadPurpose, ReadAuth, Handler, Quota, MaxDraws,
    InitFile, DiskFails, Crashes, MaxDay,
    \* Mailbox
    MailRequest, Junk, Drift, Window, Overlap, Skew, MaxConc, Drops, Track, MaxNow, MaxCrash,
    \* ContentKeys
    Posts, Token, UnlockRequest, TokenOf, RotateEvery, AnsweredLimit, SeenCap, ReplayLimit,
    SaveFails, LateWriters, MaxStop, MaxDrop,
    \* Enrollment, through the mailbox
    Member, Manual, Call, Unlimited, FirstMax, NextMax, Retain, Attempts, Purging, MaxPrep,
    MaxFail, MaxKill, MaxPatch,
    \* Enrollment with some of the members at the dashboard, where it differs
    PasteManual, PasteCall, PasteNextMax, PasteAttempts, PastePurging, PasteMaxPrep,
    PasteMaxFail, PasteMaxKill

VARIABLES
    part,    \* the component that runs
    today, budget, revoked, file, chain, call, minted, peak, now, created, answered, sub,
    seen, seenAt, highWater, inFlight, handler, timer, disk, done, flushed, shed, freed,
    resent, crashes, mem, announced, sealed, watch, counted, req, bought, kills, drops, inv,
    mbox, replies, app, issued, cap, failures, patches

Draw == INSTANCE DrawQuota

Mail == INSTANCE Mailbox WITH Request <- MailRequest

Content == INSTANCE ContentKeys WITH
    Post <- Posts, Request <- UnlockRequest, MaxKill <- MaxStop

Enroll == INSTANCE Enrollment

EnrollPaste == INSTANCE Enrollment WITH
    Manual <- PasteManual, Call <- PasteCall, NextMax <- PasteNextMax,
    Attempts <- PasteAttempts, Purging <- PastePurging, MaxPrep <- PasteMaxPrep,
    MaxFail <- PasteMaxFail, MaxKill <- PasteMaxKill

ASSUME OrganizerAssumption ==
    /\ Draw!DrawAssumption
    /\ Mail!MailboxAssumption
    /\ Content!ContentKeysAssumption
    /\ Enroll!EnrollmentAssumption
    /\ EnrollPaste!EnrollmentAssumption

Off == "off"

FrozenDrawQuota ==
    /\ now = Off /\ created = Off /\ answered = Off /\ sub = Off /\ seen = Off
    /\ seenAt = Off /\ highWater = Off /\ inFlight = Off /\ handler = Off /\ timer = Off
    /\ disk = Off /\ done = Off /\ flushed = Off /\ shed = Off /\ freed = Off
    /\ resent = Off /\ crashes = Off /\ mem = Off /\ announced = Off /\ sealed = Off
    /\ watch = Off /\ counted = Off /\ req = Off /\ bought = Off /\ kills = Off
    /\ drops = Off /\ inv = Off /\ mbox = Off /\ replies = Off /\ app = Off /\ issued = Off
    /\ cap = Off /\ failures = Off /\ patches = Off
FrozenMailbox ==
    /\ today = Off /\ budget = Off /\ revoked = Off /\ file = Off /\ chain = Off
    /\ call = Off /\ minted = Off /\ peak = Off /\ mem = Off /\ announced = Off
    /\ sealed = Off /\ watch = Off /\ counted = Off /\ req = Off /\ bought = Off
    /\ kills = Off /\ drops = Off /\ inv = Off /\ mbox = Off /\ replies = Off /\ app = Off
    /\ issued = Off /\ cap = Off /\ failures = Off /\ patches = Off
FrozenContentKeys ==
    /\ today = Off /\ budget = Off /\ revoked = Off /\ file = Off /\ chain = Off
    /\ call = Off /\ peak = Off /\ now = Off /\ created = Off /\ answered = Off /\ sub = Off
    /\ seen = Off /\ seenAt = Off /\ highWater = Off /\ inFlight = Off /\ handler = Off
    /\ timer = Off /\ done = Off /\ flushed = Off /\ shed = Off /\ freed = Off
    /\ resent = Off /\ crashes = Off /\ inv = Off /\ mbox = Off /\ replies = Off
    /\ app = Off /\ issued = Off /\ cap = Off /\ failures = Off /\ patches = Off
FrozenEnrollment ==
    /\ today = Off /\ budget = Off /\ file = Off /\ chain = Off /\ minted = Off
    /\ peak = Off /\ now = Off /\ created = Off /\ answered = Off /\ sub = Off /\ seen = Off
    /\ seenAt = Off /\ highWater = Off /\ inFlight = Off /\ handler = Off /\ timer = Off
    /\ disk = Off /\ done = Off /\ flushed = Off /\ shed = Off /\ freed = Off
    /\ resent = Off /\ crashes = Off /\ mem = Off /\ announced = Off /\ sealed = Off
    /\ watch = Off /\ counted = Off /\ req = Off /\ bought = Off /\ drops = Off

Init ==
    \/ part = "draw" /\ Draw!Init /\ FrozenDrawQuota
    \/ part = "mailbox" /\ Mail!Init /\ FrozenMailbox
    \/ part = "content" /\ Content!Init /\ FrozenContentKeys
    \/ part = "enroll" /\ Enroll!Init /\ FrozenEnrollment
    \/ part = "enroll_paste" /\ EnrollPaste!Init /\ FrozenEnrollment

BesideDrawQuota == UNCHANGED <<
    part, now, created, answered, sub, seen, seenAt, highWater, inFlight, handler, timer,
    disk, done, flushed, shed, freed, resent, crashes, mem, announced, sealed, watch,
    counted, req, bought, kills, drops, inv, mbox, replies, app, issued, cap, failures,
    patches>>
BesideMailbox == UNCHANGED <<
    part, today, budget, revoked, file, chain, call, minted, peak, mem, announced, sealed,
    watch, counted, req, bought, kills, drops, inv, mbox, replies, app, issued, cap,
    failures, patches>>
BesideContentKeys == UNCHANGED <<
    part, today, budget, revoked, file, chain, call, peak, now, created, answered, sub,
    seen, seenAt, highWater, inFlight, handler, timer, done, flushed, shed, freed, resent,
    crashes, inv, mbox, replies, app, issued, cap, failures, patches>>
BesideEnrollment == UNCHANGED <<
    part, today, budget, file, chain, minted, peak, now, created, answered, sub, seen,
    seenAt, highWater, inFlight, handler, timer, disk, done, flushed, shed, freed, resent,
    crashes, mem, announced, sealed, watch, counted, req, bought, drops>>

DrawStep == part = "draw" /\ Draw!Next /\ BesideDrawQuota
MailStep == part = "mailbox" /\ Mail!Next /\ BesideMailbox
ContentStep == part = "content" /\ Content!Next /\ BesideContentKeys
EnrollStep == part = "enroll" /\ Enroll!Next /\ BesideEnrollment
EnrollPasteStep == part = "enroll_paste" /\ EnrollPaste!Next /\ BesideEnrollment

Next ==
    \/ DrawStep \/ MailStep \/ ContentStep \/ EnrollStep \/ EnrollPasteStep

vars == <<
    part, today, budget, revoked, file, chain, call, minted, peak, now, created, answered,
    sub, seen, seenAt, highWater, inFlight, handler, timer, disk, done, flushed, shed,
    freed, resent, crashes, mem, announced, sealed, watch, counted, req, bought, kills,
    drops, inv, mbox, replies, app, issued, cap, failures, patches>>

Spec == Init /\ [][Next]_vars

-----------------------------------------------------------------------------
\* The variables of the component that runs are of their types.
TypeOK ==
    /\ part = "draw" => Draw!TypeOK
    /\ part = "mailbox" => Mail!TypeOK
    /\ part = "content" => Content!TypeOK
    /\ part = "enroll" => Enroll!TypeOK
    /\ part = "enroll_paste" => EnrollPaste!TypeOK

\* Draws and their budget (organizer-server.mjs:1591-1740): every answered batch stays charged in
\* draws.json, and what a credential obtains from one key in a day stays within the largest
\* quota the key has had, through concurrent draws, policy changes and kills.
DrawsWithinQuota == part = "draw" => Draw!MintedIsCharged /\ Draw!QuotaKept

\* A request the mailbox would skip is answered, unwelcome or in a handler's hands, and none is
\* worked on twice while its note is kept (mailbox.mjs:140, 265-266, 473-486).
SkippedOnlyIfServed == part = "mailbox" => Mail!SkippedOnlyIfServed /\ Mail!ServedOnce

\* Content epochs (contentEpochKeys.mjs:153-159, 225-242): the key every post was sealed under
\* is still sold, one token buys one epoch, and a post is counted once, through retries, lost
\* answers, replays and kills.
EpochKeysSound == part = "content" => Content!EpochKeyForever /\ Content!OneUnlockPerToken /\ Content!CountedOnce

\* An invite never yields more credentials than it had uses, a signer that fails burns none, and
\* a credential once signed can be had again by the same request, past exhaustion, lowered caps
\* and restarts, a request that the app can still unblind (invite-issuance.mjs:11-13, 164-232,
\* exchange.ts:4-8).
InvitesHonoured ==
    /\ part = "enroll" => Enroll!WithinCapacity /\ Enroll!CountExact /\ Enroll!EarnedRecoverable
    /\ part = "enroll_paste" => EnrollPaste!NothingStranded
=============================================================================
