------------------------------- MODULE Tokens -------------------------------
(***************************************************************************)
(* The member's tokens: the wallet, the draw that fills it, and the unlock *)
(* of sealed epochs that spends from it.                                   *)
(*                                                                         *)
(* The components share no state: part names the one that runs in a        *)
(* behaviour, and the variables of the others stay "off", so that the      *)
(* states are the sum of theirs.  Variables of one name in two components  *)
(* are one variable here.                                                  *)
(***************************************************************************)
EXTENDS Integers, Sequences

CONSTANTS
    \* Wallet
    TheWallet, Caller, Batch, BatchTokens, KeyOf, Key, NoKey, Need, MaxBind, MaxCrash,
    \* Wallet with storage that may fail, where it differs
    FailingBatchTokens, FailingKey, FailingNeed, FailingMaxBind,
    \* TokenDraw
    DrawBatch, NoBatch, DrawCaller, Slot, Impatient, Aging, Refusing, MaxFail, MaxCap,
    MaxKill,
    \* EpochUnlock
    Epoch, Account, SealedIn, ReadableBy, WriteEpoch, MaxAttempts, MaxSwitch

VARIABLES
    part,    \* the component that runs
    disk, stamp, wallet, call, attempted, deposited, taken, returned, discarded, forgotten,
    binds, crashes, slot, marker, draw, answer, owner, sent, abandoned, refused, exposed,
    fails, kills, account, held, entry, unavailable, chain, write, timer, wasted, switches

\* One wallet object, whose calls leave the list alone while a re-read is pending.
Held == INSTANCE Wallet WITH
    Instance <- {TheWallet}, Overlap <- FALSE, Replay <- FALSE, StorageFails <- FALSE

\* The same with storage that may fail.
Failing == INSTANCE Wallet WITH
    Instance <- {TheWallet}, Overlap <- FALSE, Replay <- FALSE, StorageFails <- TRUE,
    BatchTokens <- FailingBatchTokens, Key <- FailingKey, Need <- FailingNeed,
    MaxBind <- FailingMaxBind

\* The draws of a purpose run one at a time, and accounts are switched between draws.
Draw == INSTANCE TokenDraw WITH
    Batch <- DrawBatch, Caller <- DrawCaller, Coalesced <- TRUE, MidDraw <- FALSE

\* Accounts are switched between unlocks.
Unlock == INSTANCE EpochUnlock WITH MidFlight <- FALSE

ASSUME TokensAssumption ==
    /\ Held!WalletAssumption
    /\ Failing!WalletAssumption
    /\ Draw!TokenDrawAssumption
    /\ Unlock!EpochUnlockAssumption

\* The batches are lists of tokens, each with tokens of its own: every token has its own fresh
\* key pair.
ASSUME BatchesAssumption ==
    /\ \A b \in Batch :
          BatchTokens[b] \in Seq(Held!Token) /\ FailingBatchTokens[b] \in Seq(Failing!Token)
    /\ \A a, b \in Batch : a # b =>
          /\ Held!ToSet(BatchTokens[a]) \cap Held!ToSet(BatchTokens[b]) = {}
          /\ Held!ToSet(FailingBatchTokens[a]) \cap Held!ToSet(FailingBatchTokens[b]) = {}

Off == "off"

FrozenWallet ==
    /\ slot = Off /\ marker = Off /\ draw = Off /\ answer = Off /\ owner = Off /\ sent = Off
    /\ abandoned = Off /\ refused = Off /\ exposed = Off /\ fails = Off /\ kills = Off
    /\ account = Off /\ held = Off /\ entry = Off /\ unavailable = Off /\ chain = Off
    /\ write = Off /\ timer = Off /\ wasted = Off /\ switches = Off
FrozenTokenDraw ==
    /\ disk = Off /\ stamp = Off /\ wallet = Off /\ call = Off /\ attempted = Off
    /\ taken = Off /\ returned = Off /\ discarded = Off /\ forgotten = Off /\ binds = Off
    /\ crashes = Off /\ account = Off /\ held = Off /\ entry = Off /\ unavailable = Off /\ chain = Off
    /\ write = Off /\ timer = Off /\ wasted = Off /\ switches = Off
FrozenEpochUnlock ==
    /\ disk = Off /\ stamp = Off /\ wallet = Off /\ call = Off /\ attempted = Off
    /\ deposited = Off /\ taken = Off /\ returned = Off /\ discarded = Off /\ forgotten = Off
    /\ binds = Off /\ crashes = Off /\ slot = Off /\ marker = Off /\ draw = Off /\ answer = Off
    /\ owner = Off /\ sent = Off /\ abandoned = Off /\ refused = Off /\ exposed = Off
    /\ fails = Off /\ kills = Off

Init ==
    \/ part = "wallet" /\ Held!Init /\ FrozenWallet
    \/ part = "wallet_failing" /\ Failing!Init /\ FrozenWallet
    \/ part = "draw" /\ Draw!Init /\ FrozenTokenDraw
    \/ part = "unlock" /\ Unlock!Init /\ FrozenEpochUnlock

BesideWallet == UNCHANGED <<
    part, slot, marker, draw, answer, owner, sent, abandoned, refused, exposed, fails, kills,
    account, held, entry, unavailable, chain, write, timer, wasted, switches>>
BesideTokenDraw == UNCHANGED <<
    part, disk, stamp, wallet, call, attempted, taken, returned, discarded, forgotten, binds,
    crashes, account, held, entry, unavailable, chain, write, timer, wasted, switches>>
BesideEpochUnlock == UNCHANGED <<
    part, disk, stamp, wallet, call, attempted, deposited, taken, returned, discarded,
    forgotten, binds, crashes, slot, marker, draw, answer, owner, sent, abandoned, refused,
    exposed, fails, kills>>

HeldStep == part = "wallet" /\ Held!Next /\ BesideWallet
FailingStep == part = "wallet_failing" /\ Failing!Next /\ BesideWallet
DrawStep == part = "draw" /\ Draw!Next /\ BesideTokenDraw
UnlockStep == part = "unlock" /\ Unlock!Next /\ BesideEpochUnlock

Next ==
    \/ HeldStep \/ FailingStep \/ DrawStep \/ UnlockStep

vars == <<
    part, disk, stamp, wallet, call, attempted, deposited, taken, returned, discarded,
    forgotten, binds, crashes, slot, marker, draw, answer, owner, sent, abandoned, refused,
    exposed, fails, kills, account, held, entry, unavailable, chain, write, timer, wasted, switches>>

Spec == Init /\ [][Next]_vars

-----------------------------------------------------------------------------
\* The variables of the component that runs are of their types.
TypeOK ==
    /\ part = "wallet" => Held!TypeOK
    /\ part = "wallet_failing" => Failing!TypeOK
    /\ part = "draw" => Draw!TypeOK
    /\ part = "unlock" => Unlock!TypeOK

\* No token is handed out twice, and none handed out is still stored for a restart to bring back
\* (wallet.ts:262-330), also when storage fails, as long as no call changes the list while a
\* re-read is pending.
SpentOnce ==
    /\ part = "wallet" => Held!NoTokenTwice /\ Held!SpentIsGone
    /\ part = "wallet_failing" => Failing!NoTokenTwice /\ Failing!SpentIsGone

\* An acknowledged deposit is stored until a spend takes it or a key change or a wipe drops it.
\* When storage fails there is one more way, a failed read: of the stamp (wallet.ts:380-391), or
\* of the list, when the next write comes before a re-read or a restart (wallet.ts:352-356,
\* 402-409).  No failing write or removal loses one.  While storage works no read fails, and
\* once its task chain is drained a wallet holds what is stored (wallet.ts:245-260, 395-410).
DepositKept ==
    /\ part = "wallet" => Held!DepositKept /\ forgotten = {} /\ Held!MemoryMatchesStorage
    /\ part = "wallet_failing" => Failing!DepositKept

\* An epoch without a key is shown as unavailable exactly when this account's attempts were
\* refused or exhausted, and one that is still wanted waits for an unlock already queued or a
\* timer already armed (AppRuntime.ts:4114-4122, 4204-4245, 4623-4624).
LadderHonest == part = "unlock" => Unlock!CardMatchesLadder /\ Unlock!NeverParked

\* The marker of a charged batch that is not in the wallet yet is removed only as stale, after
\* the relay refused its request, or at the end of a draw that has no marker of its own
\* (AppRuntime.ts:3229, 3280-3289, 3318, drawExchange.ts:622-624).
MarkersKept ==
    [][part = "draw" => \A s \in Slot : Draw!MarkerKept(s)]_vars
=============================================================================
