# A TLA+ verification of STIQ

STIQ is a closed-community platform: a Nostr relay (`relay/`, Go) behind a Tor
onion service, an organizer's issuer of blind-signed tokens (`issuer/`, Node) and
a mobile client (`client/`, TypeScript). Membership and every post are paid for
with blind tokens, so that the relay can meter its members without knowing them.
This project models where tokens are issued, kept and spent, where membership and
group state are decided, and the parts of the client that must survive kills,
account switches and a bad network.

| module | models | kind |
| --- | --- | --- |
| `SpentSet` | the spend rule of `membership/spentset_badger.go` and its inline twin | operators |
| `Ledger` | what the spent set promises its callers | abstract specification |
| `MembershipStore` | `membership/store.go` under concurrent `handleBinding` and spends | state machine |
| `Groups` | `groups/groups.go`: NIP-29 groups, roles, invite grants | state machine |
| `GroupGuard` | `policy/groups.go` over `Groups`: publishing and purging group state | composition |
| `Admission` | the chain of reject hooks, `policy/membership.go` and hot reload | state machine |
| `DrawQuota` | `drawTokensForMember` of `issuer/organizer-server.mjs` and `draws.json` | state machine |
| `Mailbox` | `issuer/mailbox.mjs`: requests picked up, answered and remembered | state machine |
| `ContentKeys` | `issuer/contentEpochKeys.mjs` and `contentEpochWatcher.mjs` | state machine |
| `Enrollment` | `issuer/invite-issuance.mjs` and `client/src/onboarding/exchange.ts`, both ends | state machine |
| `Wallet` | `client/src/blind/wallet.ts`: the stored tokens | state machine |
| `TokenDraw` | the draw exchange, its staged marker and `drawTokens()` | state machine |
| `EpochUnlock` | the unlock of sealed epochs in `AppRuntime.ts` | state machine |
| `Outbox` | `client/src/nostr/outbox.ts` and the delivery in `AppRuntime.ts` | state machine |
| `PendingWrites` | writes that wait for tokens, in `AppRuntime.ts` | state machine |
| `Accounts` | `keys/keyRing.ts`, enrolment, switching and leaving | state machine |
| `Communities` | `communities/communityStore.ts` and its writers | state machine |
| `TorManager` | `client/src/tor/TorManager.ts` over its native module | state machine |
| `TorLadder` | the guided transport ladder of `client/App.tsx` | state machine |
| `Organizer` | the organizer's server: `DrawQuota`, `Mailbox`, `ContentKeys`, `Enrollment` | composition |
| `Tokens` | the member's tokens: `Wallet`, `TokenDraw`, `EpochUnlock` | composition |
| `Client` | the member's app: `Outbox`, `PendingWrites`, `Accounts`, `Communities`, `TorManager`, `TorLadder` | composition |
| `MembershipStoreProofs`, `GroupsProofs` (with the guard), `AdmissionProofs`, `OrganizerProofs` over `IssuanceProofs`, `WalletProofs`, `TokensProofs`, `ClientProofs` | the theorems, by component or composition | proofs |
| `MC*` | small instances: values for the constants, nothing else | instances |

`PROJECT.json` maps every definition to the lines it models.

## Inventory

Paths are relative to `relay/internal/` unless they begin with another part.

**Membership store** (`membership/store.go`, `spentset_badger.go`). State: spent
tokens with their owners, bound pubkeys, bind times. Operations: `Bind`,
`SpendAllForEvent`, `IsBound`, `BoundAt`, load and save. Two back ends: badger
for the spent set with a JSON file for the members, or one JSON file for all.
Hard: `Bind` on badger is two durable writes; handlers run concurrently; a save
may fail; the process may die. Correct when a credential makes one account, no
token is honoured twice, no failure makes or loses a member, an OK is durable,
and a half-done bind can be completed by its owner and nobody else.

**Admission** (`policy/membership.go`, `weight.go`, `relayapp/relay.go`). State:
the live policy, the spent set. An event passes, in this order, the signature,
weight, membership-verify, organizer, rate-limit, group and commit hooks, then
the event store. Verifying and spending are separate hooks, and the policy is
read several times on the way while a SIGHUP replaces it field by field. Correct
when a token is burned only for an event every hook let through, when what is
stored has paid what some policy in force asked, in the right token domain, and
when a retry is harmless.

**Group store and guard** (`groups/groups.go`, `policy/groups.go`). State: each
group's roles, queue, flags, gates and removal times, saved to `groups.json`;
the guard's caches of what it published and when; the state events (39000-39005)
in the event store. Operations: eight management kinds, emission, purge. Hard:
events carry their signing time and arrive whenever; apply, emit and purge are
separate critical sections; the cache stands for a store it never reads. Correct
when roles stay nested, stale grants stay stale, and clients come to read the
state the relay decides by.

**Other relay parts.** `policy/organizer.go` keeps the organizer's live policy
and moderator counters; `ratelimit/` keeps windows per user, per connection and
overall; `relayapp/deletionguard.go` keeps a budget per connection; capabilities
(NIP-11), read filters, file server, compression and the safe-browsing proxy
keep no protocol state. `relay/cmd/pushwatcher` wakes devices; the other
commands are operator tools.

**Issuer.** `mailbox.mjs` picks up the requests that members leave at the relay
and answers them through it. State: ids seen, a high-water mark, handlers in
flight, a sidecar written by a timer. Correct when a request is answered or
deliberately dropped, and not worked on again. `organizer-server.mjs` draws
batches of tokens under a quota per day and key; state: `draws.json`, one promise
chain. Correct when no interleaving, crash or change of policy mints past the
quota. `contentEpochKeys.mjs` and its watcher count sealed posts, roll the epoch
key and sell keys for tokens; correct when a key announced is never lost and a
token buys one epoch. `invite-issuance.mjs` turns blinded requests into
credentials; correct when an invite yields no more than it has uses, and an
earned credential can be fetched again. `member-roll.mjs`, the console and the
publishing commands keep no protocol state of their own.

**Client.** `blind/` holds the token wallet, the draw exchange with its durable
staging and the proofs; `onboarding/` the enrolment and the pending bind;
`keys/` and `communities/` the accounts of the device; `nostr/` the connection,
mirrors, outbox and event store; `tor/` and `App.tsx` the transport and its
ladder; `lock/` the PIN limiter and the duress wipe; `app/AppRuntime.ts` ties
them together; `channels/`, `dm/`, `feed/`, `events/`, `moderation/` fold events
into views. All of it is one thread of promises over storage that answers later:
what an operation read before an `await` may be stale after it, the member may
switch accounts meanwhile, and the system may kill the app. Correct when a token
is spent once, a paid batch and a queued write survive, nothing of one account
shows under another, and something will always try to connect again.

Interactions: the client draws tokens from the issuer through relay mailboxes,
spends them at the relay's admission; a bind turns a credential into membership;
admission asks the membership store, and calls the group guard as one of its
hooks; the guard writes to the event store that admission ends in.

The hazards of all this, each at its line, are listed in `PROJECT.json`.

## The models

### MembershipStore

`badger` chooses the back end once. `spent` is the authoritative spent set, and
`bound`, `boundAt`, `file` are the members in memory and in the JSON file. A
handler's `call` is where its `handleBinding` stands: `Present` reads `IsBound`,
`BindSpend` and `BindRecord` are the two durable steps of `Bind` on badger,
`BindInline` the one step without it, `BindRefused` an error before any change.
`SpendAllForEvent` charges the first `n` tokens of an event, for every `n`,
since the price may differ at each retry. Every save may fail (`MaxIoFail`), and
`Restart` reloads the file and drops the handlers. Histories: `minted` (binds
recorded), `told` (first binds answered OK), `paid` (batches told paid).

The inline store keeps memory ahead of a file it failed to write, so after a
failed save and a restart it has forgotten spends. Its promises are stated for
the runs in which every save succeeded (`Reliable`); badger's hold always.

`Spend` and `SpendAll` are not modelled: nothing in the relay calls them.
`postingTTL` is zero, so spent records never expire.

### Groups and GroupGuard

A group is a record as in `groups.go`, free text aside. Each management kind is
an action whose guard is `Apply`'s checks and whose effect ends in `Save`, which
may fail after the change was made in memory. Removal times are the signing
times of the events, at most `Skew` behind the clock. Grants are signed by
anyone; only a current admin's counts. `kicked` remembers the latest signing
time of the removals accepted, which is what `RemovedAt` is documented to hold.

`GroupGuard` extends `Groups` with handlers. `Accept` is `Apply` and leaves the
handler with an emission or a purge to do; `Emit` is `emitState`, whole, under
`emitMu`; `PurgeCache` and `Sweep` are the two halves of `purgeState`. A state
event is its content and time, and the store keeps the newer one of an address,
or either one at equal times. `behind` and `orphaned` remember what a crash or a
refused save left unpublished or unpurged; the code repairs the former with the
group's next accepted event, and the property says so. Two constants widen the
environment to where the code goes wrong: `RacyRecreate` and `FastRestart`.

### Admission

An event is a record of what the hooks look at: its routing class, signer,
tokens in tag order, chargeable size, shape of its proof chain, media domain and
whether its proof of work suffices. `Route` and `Gate` are the two reads of
`VerifyEvent`, `LaterHooks` the verdict of the organizer, rate-limit and group
hooks, `CommitSpend` the last hook, `StoreEvent` whatever happens after.
`Sighup` and `ApplyField` replace the policy in the order of `Reloader.Apply`; a
key set that is empty or does not parse keeps its old keys. Inside one gate the
code takes several read locks in a row; the model reads the policy once there.
`due` is the least a call was asked at any instant of its handling, by a
definition (`Due`, `FairPrice`) that does not use the gates.

### The organizer: DrawQuota, Mailbox, ContentKeys, Enrollment

`DrawQuota`: a handler's `call` stands before the credential check (`Receive`,
`Verified`), in `chain` (the promise chain), or past `Load`, with the whole file
as it was then. `Sign` charges and writes the file, or signs a request the file
already holds again. `file` keeps the two shapes of a day's record. `SetQuota`,
`SetMaxDraws` and `SetReadAccess` are the dashboard, `NewDay` the clock.

`Mailbox`: `sub` is the subscription with the events on their way, `seen` the
claims, `disk` the sidecar. A handler goes through claim, `Send`, the relay's
store and the `Ack`; `AckFails` releases the claim. The relay is external: a
new subscription is replayed what its `since` covers, and a resend of an event
it has is acknowledged and not sent on.

`ContentKeys`: `mem` and `disk` are the custody state and its sidecar, `sealed`
the posts at the relay with the key each was sealed under, `watch` the watcher
with its bounded ring. `Redeem` is the critical section of an unlock; `Lose`
loses its answer; `Publish` announces an epoch after it was rolled.

`Enrollment`: `inv` is the invite's record, `call` the calls of
`issueInviteCredential` between reservation and finalisation or rollback,
`app` each member's exchange with its attempts. `Manual` members paste their
request into the dashboard. The mailbox in between is reduced to stored,
claimed, answered.

### The member's tokens: Wallet, TokenDraw, EpochUnlock

`Wallet`: per instance the list `held`, how far hydration is and `chain`, the
storage tasks in order; per caller the call and the `await` it stands at. The
in-memory change is one step, its write another. `Crash` leaves `disk` and
`stamp`. With `StorageFails` any access to storage may be refused, and the code
treats each in its own way: a list that cannot be read at hydration, or is
corrupt, counts as empty (`HydrateFails`), a stamp that cannot be read as none,
which drops the list (`Mistaken`), the other failures of a hydration leave the
list as loaded (`HydrateThrows`), a failed re-read leaves the list in memory, a
failed write or removal rejects its call (`TaskFails`, `WriteHalfLands`,
`RemoveFails`), and a failed reconciliation is heard by nobody (`ReconcileFails`).
`unread` is the list an instance failed to read, `forgotten` the tokens lost to a
failed read.

`TokenDraw`: `marker` is the staged batch of each account, `answer` the
organizer's answer to each batch, charged when it is given. A draw resumes the
marker it finds, blinds and stages a batch, sends it, adjusts to a cap or a
changed key (`Shrink` and the heal, each with a new batch), deposits and clears.
`Attempt` sends the request, again or for the first time; the relay may refuse
either (`Refused`, `ResumeRefused`), the code takes that for final and removes the
marker. `MisProvisioned` ends a draw that staged nothing. Each access to storage
may fail: the marker's read (`LoadFails`), write (`StageFails`: the draw goes on
unstaged) and removal (`ResumeDropFails`, `ResumeClearFails`, `ClearFails`), and
the deposit (`ResumeAddFails`, `AddFails`). The histories `abandoned`, `refused`
and `exposed` say why a batch may have lost its marker.

`EpochUnlock`: `entry` is `_epochUnlock`, `chain` its promise chain, `timer` the
one timer. `Start` and the three `Finish` actions are one unlock, `Elapse` and
`Fire` the waiting, `Revive` a reconnect, a return to the foreground or a draw
that succeeded, `WriteStart` and `WriteEnd` the unlock of `ensureWriteEpoch`,
which does not join the chain.

### The member's app: Outbox, PendingWrites, Accounts, Communities

`Outbox`: `entry` and `disk` are the queue in memory and as last written,
`flight`, `timer` and `linger` the delivery under way, the next attempt and the
confirmation to be swept. `RelayStores` and `Accepted` are apart, so an answer
may be lost (`TimedOut`) with the event stored. A post waits for the blobs it
`DependsOn`.

`PendingWrites`: `jobs` are the writes taken by a caller of `signPendingWrite`,
waiting for their turn or being signed. `Signed` has the check that the account
is still the same, `AfterBlobs` what follows the media, `Saved` the last write;
`Switch` and `Load` are the two halves of an account switch.

`Accounts`: an enrolment, a switch and a removal are lists of single writes to
secure storage (`op`, `sw`), decided when the operation starts; a `Kill` may fall
between any two. `sending` is the binding event whose answer is awaited.

`Communities`: `queue` is the one native storage thread, `procs` the writers,
each a read of the list, a change of a record (`Merge`) and a write of the list;
`listMemo` and `idMemo` are the memos of `CommunityStore`.

### The transport: TorManager, TorLadder

`TorManager`: `gen` is the generation that fences attempts, `ops` the native
executor's queue, `booting` the start that holds its thread, `live` the client it
keeps, `ev` the events and answers on their way. Events carry no attempt id, as
in the code.

`TorLadder`: `cascade` is where `connectGuided` stands among the four rungs,
`dead`, `warm` and `startTier` what it remembers of them, `retry` its timer,
`stopping` the stops it waits for. Which rungs fail, connect or are condemned
later is given by constants; the disturbances are in `Acts`.

### Modules side by side

These thirteen share no state except as described above, so `Organizer`, `Tokens`
and `Client` run them one at a time: `part` names the component that runs in a
behaviour, the variables of the others are "off", and the states are the sum of
the components'. Each composition is a specification with its own constants, so
that the runs check, and the theorems prove, the same `Spec` and the same
properties. A component may run in several environments. `Organizer` and `Tokens`
have a second instance of `Enrollment` and `Wallet` with constants of its own; in
`Client`, `env` is a record of a component's constants, taken from `Boxes`,
`Queues`, `Rings`, `Lists`, `Managers` or `Ladders`, and the properties name the
condition on the environment they need. `MCProgress` has instances of its own, in
which the components that do not run stay in their initial states, since fairness
speaks of all variables.

## Runs

| run | instance | result |
| --- | --- | --- |
| `membership` | 2 handlers, 2 devices, 2 credentials, 2 events sharing a token, 1 token spent in an older file, 1 failed write, 1 crash | passes, 83 216 states |
| `groups` | 3 users, 1 group, 1 grant, 3 clock readings | passes, 169 242 states |
| `guard` | 2 handlers, 2 users, 1 post, 3 accepted events, 1 failed save, restarts | passes, 385 961 states |
| `admission` | 2 handlers, 6 events, 3 tokens, 2 configs, 1 reload, restarts | passes, 832 911 states |
| `organizer` | four components, one of them twice, `MCOrganizer` | passes, 1 444 701 states |
| `tokens` | three components, one of them twice, `MCTokens` | passes, 1 600 245 states |
| `client` | six components in fifteen environments, `MCClient` | passes, 1 200 541 states |
| `progress` | the four parts of `MCProgress`, with fairness | passes, 71 557 states |
| `groups_late_removal` | `groups` with events up to two units late | violates `GrantsFresh` |
| `guard_recreate` | `guard`, an id recreated during its purge | violates `CacheMatchesStore` |
| `wallet_overlap` | 1 wallet, 2 callers, a change of the list during a re-read | violates `NoTokenTwice` |
| `tor_ladder_stranded` | every rung connects and is condemned later | violates `RetryOwed` |

The parts:

| part | instance |
| --- | --- |
| `draw` (organizer) | 2 credentials, 4 requests of two purposes on one key, 2 handlers, quotas and limits that change, an older `draws.json`, a midnight, crashes |
| `mailbox` | a request and an unwelcome one, 1 handler, clocks ahead, a kill |
| `content` | 2 posts with an epoch each, 3 requests of which two share a token, a kill, a reconnect |
| `enroll`, `enroll_paste` | 2 members, 2 calls, a single-use invite that may be widened, a failing signer, a kill; a member at the dashboard, restarts of the app, purging |
| `wallet`, `wallet_failing` | 2 callers, 2 batches of 3 tokens, a key change, a kill; 2 batches of one token, one key bound at any time, a kill, reads, writes and removals that fail, any number of them |
| `draw` (tokens) | 2 batches, 2 accounts, resumes that time out, stale markers, refusals by the relay, one failure of storage, a kill |
| `unlock` | 2 epochs, 2 accounts of which one is refused, 2 attempts, a write-side unlock, 2 switches |
| `outbox`, `outbox_two`, `outbox_early` | a post with one blob, refusals, lost answers, Retry and Cancel, a kill; a post with two blobs; a connection that comes up while a write is being queued |
| `pending`, `pending_media`, `pending_killed` | a write of each of two accounts and switches between them; 2 writes with media; a write with media and kills |
| `accounts`, `accounts_pair`, `accounts_calm` | 3 accounts of 2 communities, a switch, a kill; 2 accounts with a switch under way during a removal, a kill; 3 accounts, one call at a time, no kill |
| `communities`, `communities_calm` | 2 overlapping writers, a switch, a kill; every writer, one at a time |
| `tor`, `tor_calm`, `tor_auth` | 3 overlapping calls; one call at a time; two credentials |
| `ladder` | a rung that fails, two that may be condemned, one that may connect or fail; drops, escalation, network changes |

Why the bounds are enough to be interesting. A race over a credential needs two
handlers and two devices, and a lost record one failure or one crash; the second
credential makes a spare one. Two events share a token that is also a credential,
so every pair of rivals occurs. Three users make an owner, an admin and a target;
one grant and three instants place it before, at and after a removal. Three
accepted events create, change and delete a group, or recreate it; the failed save
and the restart may fall anywhere between. One reload crosses two handlers at
every field; the events cover each route, with a token shared by a post and a
reaction, and a space token carried by a wrap, a mailbox event and a post. Two
draws of two tokens exceed a quota of three only together. One handler and two
requests put the mailbox at its cap; a ring and a replay of two posts with an
epoch per post put the watcher at its. Two callers and three tokens let one spend
take what the other counted on; where storage fails, two batches of one token have
one stored, unread, and the other written over it. Two batches of a draw are a
marker left and a fresh one, or a draw and its cap adjustment or stale-key retry.
In `progress` they meet two kills and one failure. A post with two blobs
distinguishes "all landed" from "one landed". Three accounts of two communities
have a sibling and a stranger. Four rungs are the code's.

Symmetry is used over users, handlers, the wallet's callers, drawn batches and
the two blobs of a post, which no constant tells apart, in runs that check
invariants, or an action property that treats them alike. `CHECK_DEADLOCK FALSE`
is there because bounded clocks, failures and events let every actor come to
rest.

### What the properties say

- `OneAccountPerCredential`, `HonoredOnce`, `MemberPaid`, `AckDurable`,
  `ChargedIffTold`: the store's promises over every interleaving of its durable
  steps with other handlers, failures and crashes.
- `LedgerSpec`: with badger, every step is a claim of the abstract ledger or
  leaves it alone. An owner, once recorded, never changes, and an event claims
  once.
- `SeniorityKept`: no step puts a member back inside the newcomer window.
- `SpendLeadsToMember` (liveness): a spent credential ends in a saved member.
- `RolesNested`, `GrantsFresh`: role and grant invariants over any sequence.
- `StateConverges`, `CacheMatchesStore`: once a group's handlers are done,
  clients read the group as it is, and the cache describes what they read.
- `BurnedRightly`, `EventsPay`, `RetryIdempotent`: nothing burned for refused
  events and no token across domains, nothing stored below every price in force,
  and a paid event can be retried at its price.
- `DrawsWithinQuota`: what was minted stays charged, and within the largest quota
  its key has had that day.
- `SkippedOnlyIfServed`: the mailbox skips only what is answered, unwelcome or in
  hand, and works on nothing twice while it remembers it.
- `EpochKeysSound`: every sealed post's key is still sold, one token buys one
  epoch, a post is counted once.
- `InvitesHonoured`: uses bound credentials, failures burn none, an earned
  credential can be had again, and the app can still unblind it.
- `SpentOnce`, `DepositKept`: no token is handed out twice or stored after it was
  handed out, also when storage fails; a deposit stays until spent, dropped or
  wiped, and memory matches storage at rest. Where storage fails a deposit has one
  more way to be lost, a failed read: the code has no answer to it, and the
  property names it. No failing write or removal loses one.
- `LadderHonest`: an epoch shown as unavailable was refused or given up for this
  account, and a wanted one waits for a queued unlock or an armed timer.
- `MarkersKept`: the marker of a charged batch that is not yet in the wallet is
  removed only as stale, after the relay refused its request, or at the end of a
  draw that has no marker of its own. (Another batch staged may overwrite it.)
- `BlobsFirst`, `NothingLost`: no post before its media; a queued write is at the
  relay, queued or cancelled, "posted" is true, and a failed one has a retry.
- `WritesKept`: a waiting write is published from its own account, once, and not
  lost, each under the environment in which the code keeps it (below).
- `AccountsKept`: leaving an account costs no other; at rest and undisturbed, key
  ring, communities, pointers and runtime agree.
- `CommunitiesTrue`: the memo is never stale; undisturbed, every change is stored
  under its community.
- `TransportTrue`: a stop is skipped only when nothing runs; undisturbed,
  "connected" means a proxy and a disconnect is final.
- `RetryOwed`: while a connection is wanted and absent, something will try again,
  and the ladder's beliefs about the transport in use are true.
- `EveryRequestServed`, `PaidBatchLands`, `SealedUnlocks`, `SettlesConnected`
  (liveness): a request kept by the relay is answered, dropped or too old; a
  charged batch reaches the wallet, unless the relay refused its request or storage
  failed on its marker; an epoch the organizer would unlock is
  unlocked; with a working rung the app ends connected.

### What the passing runs leave out

Where a property fails under a wider environment the passing run names the
narrower one, and the failure is listed in the next section. `Wallet` runs with
one instance, no replayed deposit and no call that changes the list during a
re-read (`Overlap`, `Replay` false). `ContentKeys` runs with saves that succeed.
`TokenDraw` runs one draw at a time within one account, and what its properties
except is real: a refusal by the relay (`ClearedWhenSettled` below), and a marker
that storage could not write or read, lose a batch that was paid for.
`PaidBatchLands` also assumes resumes that wait and no stale markers.
`PendingWrites` switches accounts with writes that carry no media. The retry of
`NothingLost` is checked with connections that come up between calls. `TorLadder`
keeps a rung that is not condemned, and no connection quicker than the retry
timer. The calm parts of `Accounts`, `Communities` and `TorManager` take one call
at a time. The bundles of `Client` say this themselves: each conjunct is an
implication from a condition on `env` (no switch, no kill, no overlap, no early
connection). Except for the ladder, `MCClient` has environments on both sides of
it, so the first conjuncts are also checked where the later ones would fail.

### Fairness

`SpendLeadsToMember` assumes that a handler that has begun `Bind` finishes or the
process dies (weak fairness: Go runs every goroutine), and that the owner of an
unfinished bind presents it again, strongly fair since handlers may be busy (the
client keeps the pending binding event in secure storage until it was accepted).
In `MCProgress`:

- *Mailbox*: the organizer reconnects (`connect` re-arms itself on every close),
  and receiving, sending, storing and acknowledging are strongly fair: sockets
  close again and again, but not always before the same step.
- *Draw*: draws are begun (on every connect and low wallet), attempted and
  stepped on; the organizer answers each request it has. Weak fairness.
- *Unlock*: queued unlocks start and end, timers elapse and fire (weak); an
  organizer that would unlock is some time reached (strong). Nothing is asked of
  feeds, taps or reconnects.
- *Ladder*: promises resolve, attempts end, verdicts arrive, timers fire, and the
  member returns to the foreground. Weak fairness.

Failures, refusals, timeouts, kills, drops and the member's other acts are never
fair, and kills, drops, failures of storage and the member's acts are bounded. The
other runs assume no fairness.

## Where the code and its comments disagree

Four violation runs exhibit one each; `PROJECT.json` quotes the lines.

1. `groups_late_removal`: a removal delivered late lowers `RemovedAt` and revives
   a stale grant.
2. `guard_recreate`: recreating a group while its purge sweeps loses the new state
   events, and the cache then suppresses them.
3. `wallet_overlap`: a spend whose synchronous step falls into a re-read of
   storage is undone in memory, and the next spend returns the same token.
4. `tor_ladder_stranded`: when the last rung is condemned the retry walks past all
   of them and returns without a change of state, so nothing is armed again.

The models show more of them. Each line gives the property as the comment has it,
a definition of the module, and the setting under which TLC refutes it; bounds not
named are small.

| module | property | setting | what the code does, against what is said of it |
| --- | --- | --- | --- |
| `MembershipStore` | `SeniorityKeptByAll` | a member of a file without bind times | `markBoundAt` takes a missing time for a first bind (`store.go:237`); `policy/membership.go:1235`: "re-binding never resets the member's newcomer seniority" |
| `GroupGuard` | `StateConverges` | `FastRestart` | the emission clamp is in memory only (`policy/groups.go:213`); `:210`: "so the replacement always wins" |
| `Admission` | `RetrySucceeds` | as in `admission` | a paid event retried after a price rise is refused for ever (`policy/membership.go:753`); `store.go:41`: "An exact retry with the same event ID succeeds" |
| `Admission` | `EventsPay` | two blind configs, one without space tokens, or two reloads (`MaxReload` 2) | a reload between routing and gate lets a reaction pass untokened (`policy/membership.go:677`); `:676`: "metered either way, never free" |
| `DrawQuota` | `CapUntilRestart` | `DiskFails` | a failed write loses the charge for the very next draw (`organizer-server.mjs:1304`: "may not survive a restart") |
| `DrawQuota` | `ChargedOnce` | `MaxDay` 2 | a retry after midnight is charged again (`:1702`); `:1307`: "charge the quota once" |
| `Wallet` | `NoTokenTwice` | `Replay` | a batch added again after a kill brings back a token spent meanwhile (`wallet.ts:255`); `:247`: "never double-credit the wallet" |
| `Wallet` | `HeldMatchesStamp` | `MaxBind` 2 | a draw in flight over a key change deposits old tokens under the new stamp (`:257`); `:125` |
| `Wallet` | `DepositKept` | two instances | each write erases the other's deposit (`:406`); `:417`: "only ever ahead by another instance's deposit" |
| `Mailbox` | `ShedResendServed` | `MaxConc` 1, no reconnect | a shed request's resend is a duplicate to the relay and not delivered (`mailbox.mjs:466`); `:463`: "can still be processed once capacity frees" |
| `Mailbox` | `ReleasedRetryServed` | no reconnect | the same of a released claim (`:483`); `:481` |
| `Mailbox` | `ReleasedStaysAskedFor` | `MaxNow` 2, `Overlap` 1 | younger requests move the mark past a released one (`:442`); `:485`: "request remains retryable" |
| `Mailbox` | `ServedOnce` | a `Drift` beyond `Skew` | a request dated ahead is noted under the present time (`mailbox.mjs:284`), so its note is pruned (`:266`) while `shouldProcess` still admits it (`:140`); `:126`: "stale replays cost nothing" |
| `TokenDraw` | `PaidBatchKept` | `Impatient` | a resume that times out is followed by a fresh marker over the one left (`AppRuntime.ts:3177`); `:3175` |
| `TokenDraw` | `PaidBatchKept` | not `Coalesced`, two callers | two read draws share one marker (`:3770`); `drawStaging.ts:7`: "resume instead of losing the batch" |
| `TokenDraw` | `ClearedWhenSettled` | `Refusing`, one batch | the relay refuses a request sent again, as when its mailbox window is full for a minute (`ratelimit.go:400`), and the marker of a batch signed and charged is removed (`drawExchange.ts:622`, `AppRuntime.ts:3229`, `:3289`); `:3228`: "only clear the marker when there is nothing left to recover" |
| `TokenDraw` | `ClearedWhenSettled` | `Impatient`, or `MaxFail` 1 | a draw that ends mis-provisioned removes the marker an earlier draw left (`AppRuntime.ts:3229`, `drawExchange.ts:727`); `:3228` |
| `TokenDraw` | `MarkerSiloed` | `MidDraw` | the marker is written under the account active by then (`:3306`); `drawStaging.ts:18`: "must never be reachable from a different account's namespace" |
| `ContentKeys` | `EpochKeyForever` | `SaveFails` | a failed save is swallowed and the key sold (`contentEpochKeys.mjs:74`); `contentEpochWatcher.mjs:17`: "unlockable forever" |
| `ContentKeys` | `BlastRadius` | any | posts sealed before the announcement arrives exceed the limit (`:180`); `:9`: "at most that many posts" |
| `EpochUnlock` | `NoSecondToken` | a `WriteEpoch` | the write-side unlock and a queued one each spend (`AppRuntime.ts:3742`); `:3741`: "no token burned" |
| `EpochUnlock` | `NoHotLoop` | a `WriteEpoch` | an entry whose key came from the write side re-arms the timer each second (`:4048`); `:4223`: "can never hot-loop" |
| `EpochUnlock` | `CardMatchesLadder`, `NoForeignSpend` | `MidFlight` | unlocks queued before a switch mark and pay for the next account (`:4119`, `:4060`); `:4623`: "a switch starts it fresh" |
| `Outbox` | `RejectedNotResent` | verdicts "no" and "later" | a rejected blob goes out again with its post (`:5205`); `outbox.ts:24`: "NOT auto-resent on reconnect" |
| `PendingWrites` | `NeverLost` | two writes and a kill | the first write of a drain persists a queue without the others (`:13038`); `:1518`: "survives an app kill mid-draw" |
| `PendingWrites` | `NeverLost` | `MaxSwitch` 2 | a write that ends between switch and load empties the new account's stored queue (`:12284`); `:12203` |
| `PendingWrites` | `StoredHome` | `MaxSwitch` 1 | the exhaustion path has no account check (`:12718`); `:12561` |
| `PendingWrites` | `PublishedHome` | `HasBlobs`, `MaxSwitch` 1 | a switch while the blobs are queued puts the post in the other outbox (`:12656`); `:12561`: "never deliver A's write into B" |
| `PendingWrites` | `PublishedOnce` | `MaxSwitch` 2 | a switch away and back signs it a second time (`:12307`); `:5418` |
| `Communities` | `Durable` | `MaxAtOnce` 2 | of two documents that arrive together one is stored (`:11814`), and a memo not yet dropped clobbers a racing write (`communityStore.ts:523`); `:11775`, `:4409` |
| `Communities` | `PointersAgree` | `MidSwitch`, or a kill | a relay choice during a switch, or a kill between the two writes, parts account and community (`communityStore.ts:602`, `AppRuntime.ts:10735`); `:10699`: "in lockstep" |
| `Enrollment` | `WithinCapacity` | all members `Manual`, a failing signer | the rollback of one call frees the slot another call of the same request still signs for (`invite-issuance.mjs:200`); `:11`: "never turn one slot into two credentials" |
| `Enrollment` | `EarnedRecoverable` | `Purging`, or `Retain` 1 | a purged or evicted redemption is refused (`organizer-server.mjs:2291`, `invite-issuance.mjs:104`); `:19`: "simply re-enrolls with a fresh token" |
| `Accounts` | `NothingLeftBehind` | a kill | the slot list is written before the key is removed (`keyRing.ts:113`); `AppRuntime.ts:10870` |
| `Accounts` | `BindRetriable` | a kill, or not `Patient` | a crash before `addSlot`, or a second enrolment, loses the event owed (`:11112`, `pendingBind.ts:26`); `:11110`, `:11201` |
| `Accounts` | `NotOnDeleted` | `Overlap` | a removal during a switch leaves the runtime on the deleted slot (`:10707`); `:10959` |
| `TorManager` | `DisconnectSticks`, `EveryConnectResolves` | `Overlap` | a connect that awaits the stop of its predecessor ignores the generation (`TorManager.ts:329`, `:373`); `:592`, `:143` |
| `TorManager` | `ConnectedByOwn` | `MaxCall` 2 | a late "connected" of an abandoned start settles the next attempt (`:428`); `:137` |
| `TorManager` | `AuthTruth` | `MaxInstall` 1, two credentials | `installReach` records its credential though the client was restarted (`:565`); `:182` |
| `TorManager` | `DisconnectCompletes` | `LiveSpec`, which lets a bootstrap hang | a stop waits for the bootstrap that holds the thread (`:598`); `:220` |
| `TorLadder` | `RetryOwed` | "background" in `Acts` | a return during the last disconnect leaves nothing armed (`App.tsx:3208`); `:3197`: "Iron-clad foreground" |
| `TorLadder` | `TierTrue` | `QuickConnect` | a retry over a fresh connection records the tier of direct (`:1345`); `:776` |
| `TorLadder` | `WarmProven` | "drop" in `Acts` | a verdict records the rung of an earlier connection (`:3231`); `:787` |
| `TorLadder` | `EscalationMoves` | "escalate" in `Acts` | the walk returns to the rung given up (`:1243`); `:2629` |

Two more were met while reading: an organizer document stored for a community
carries `mirrorsBlocked` of the runtime's copy, though `communityStore.ts:582`
excludes it, and NIP-11 advertises key sets that a failed reload did not install
(`relayapp/relay.go:188`).

## Proofs

A theorem holds for every value of the constants that the named assumptions
allow: the modules' own (`StoreAssumption`, `GuardAssumption`,
`ClientAssumption` and so on, which TLC evaluates in the runs) and, where one is
needed, a hypothesis on the environment, stated in the theorem. The constants of
the passing runs satisfy all of them, `NoSpaceRace` aside (below).

| module | theorems | hypothesis on the environment |
| --- | --- | --- |
| `MembershipStoreProofs` | `TypeCorrect`, `CredentialMintsOneAccount`, `TokenHonoredOnce`, `EventChargedWhole`, `MemberHasPaid`, `OkIsDurable`, `SeniorityIsKept`, `StoreImplementsLedger` | none |
| `GroupsProofs` | `TypeCorrect`, `RolesAlwaysNested` | none |
| | `GrantsAlwaysFresh` | `Skew = 0` |
| | `StateAlwaysConverges`, `CacheAlwaysMatchesStore` | `~RacyRecreate`, `~FastRestart` |
| `AdmissionProofs` | `TypeCorrect`, `AlwaysBurnedRightly`, `RetryAlwaysIdempotent` | none |
| | `EventsAlwaysPay` | `NoSpaceRace` |
| `OrganizerProofs` | `DrawsStayWithinQuota` | `Writable` |
| | `SlotsAlwaysExact` | `MailFinite` |
| | `NeverSkippedUnserved` | `MailFinite`, `ClocksAgree` |
| | `EpochKeysAlwaysSound` | `Durable`, `RingCovers` |
| | `InvitesAlwaysHonoured` | `Honoured`, `EnrollPasteFinite` |
| | `OrganizerTypeCorrect` | `Writable`, `MailFinite`, `Durable`, `RingCovers`, `EnrollFinite`, `EnrollPasteFinite` |
| `WalletProofs` | `TypeCorrect`, `NeverTokenTwice`, `DepositAlwaysKept` | `Single` |
| | `NothingForgotten`, `MemoryAlwaysMatches` | `Single`, `~StorageFails` |
| `TokensProofs` | `TokensTypeCorrect`, `TokensSpentOnce`, `DepositsStayKept`, `LadderAlwaysHonest`, `MarkersAlwaysKept` | none: the constants of `Tokens` imply those of its components |
| | `MarkerAlwaysSiloed` (of the draw alone) | `OneAtATime` |
| | `PaidBatchAlwaysKept` (of the draw alone) | `OneAtATime`, `~Impatient` |
| `ClientProofs` | `ClientTypeCorrect`, `BlobsAlwaysFirst`, `NothingEverLost`, `WritesAlwaysKept`, `AccountsAlwaysKept`, `CommunitiesAlwaysTrue`, `TransportAlwaysTrue`, `RetryAlwaysOwed` | none: the conditions are in the properties |

`IssuanceProofs` holds the lemmas of `ContentKeys` and `Enrollment` that
`OrganizerProofs` builds on.

The hypotheses are part of what the theorems say of the code, and the table of
the previous section has a counterexample for each that matters:

- `Skew = 0`: events arrive in the order they are signed (`groups_late_removal`).
- `~RacyRecreate`, `~FastRestart`: an id is not created again while its purge
  sweeps (`guard_recreate`), and a restart takes longer than the emit clamp may
  be ahead of the clock, one second per accepted event.
- `NoSpaceRace`: the configs agree on space tokens and group reactions, or every
  reaction carries a token. Otherwise a reaction may be routed under one config
  and gated under the next. The run `admission` lies outside the hypothesis and
  passes because it has one reload; with two, its own instance fails.
- `Writable`: `draws.json` can be written (`DiskFails`), and the requests are
  finitely many, so that their tokens can be counted.
- `MailFinite`: the relay holds finitely many requests. `ClocksAgree`: no member's
  clock is ahead by more than the skew the mailbox forgives.
- `Durable`: the custody sidecar can be written (`SaveFails`). `RingCovers`: the
  watcher's ring holds at least twice as many posts, less one, as the relay
  replays (`SEEN_CAP` is 5000 at `contentEpochWatcher.mjs:31`, the relay serves at
  most 250 by default), so a post it forgot is not replayed.
- `Honoured`: no code is pasted at the dashboard, nothing is purged, and an
  invite's record holds every request made (`MAX_RETAINED_USES` is 500 at
  `invite-issuance.mjs:22`). `EnrollFinite`, `EnrollPasteFinite`: finitely many
  members.
- `OneAtATime`: draws are coalesced, as they are for one purpose, and the account
  is not switched during one. `~Impatient`: a resume is not given up by timeout.
- `Single`: one instance per storage key (the registry of `wallet.ts` keeps one),
  no call that changes the list during a re-read, each batch given to `add` once,
  and batches with tokens of their own (each token is blinded from fresh
  randomness). Failing reads, writes and removals, kills, key changes, wipes and
  any overlap of calls outside a re-read are allowed. `Tokens` fixes these
  constants so, and `BatchesAssumption` states the last.

None of these properties is inductive. The invariants, and why they are needed:

**The store**. `StoreInv` adds: `InFlight`, a handler past its spend
holds a credential that its pubkey owns, which carries `Bind`'s first durable step
to its second; `FileBacked`, with badger the database holds every spent record of
the file, and an inline store whose saves all succeeded equals its file, so a
restart brings nothing new and loses nothing; `FileBehind`, the file's members are
members in memory, and those told OK are in the file; `MintBacked` and
`MemberMinted`, a member has a minted credential, and a minted credential is
recorded spent for that pubkey; `Charged`, an event owns exactly the tokens it was
told are paid. With these each action's change of `spent` is one `Claim` of
`Ledger` or none. `SeniorityIsKept` adds `Stamped`: every member but a legacy one has a
bind time, in memory and in the file, and where the file has one it is the one in
memory, so `markBoundAt` stamps only first binds and a restart brings no other.

**Groups and guard**. Roles are inductive with the types, memory and disk together.
For the grants, recorded removals lie in the past (`RemovalsPast`) and a group's
`removedAt` covers every accepted removal (`RemovalsCovered`); the second needs
the first, since a new removal then never lowers the time.
`GuardInv` extends them: a group being
purged is gone (`PurgedIsGone`) and while its sweep is due the cache is empty
(`SweptCache`); otherwise a cached fingerprint is served (`CacheServed`); the next
emission is stamped later than anything stored (`EmitNewer`), so it replaces;
a group that no crash or failed save left behind is published or about to be, a
deleted one swept or about to be (`Published`), and no event stays about a post
that is not gated (`NoLeftovers`).

**Admission**. `BurnInv` follows a call through the chain: the live key
sets come from the configs (`PolicyKeys`), its path is one for such an event
(`Routed`), past the gate the tokens it will spend are of its domain (`Verified`),
past the hooks it has cleared them (`HooksPassed`), and an event owns the whole
batch of its last commit (`Paid`). `PayInv` adds that an event owns only tokens it
carries and is due no more than the present policy asks (`DueNow`), that one
committing no spend is due nothing (`FreeIsFree`), and that a reaction is gated as
it was routed (`SpaceSettled`). That the tokens committed are as
many as the price needs rests on a fact about a list without its duplicates, by
rank: the first *n* distinct tokens of a list are *n*. Induction over lists is
not available to the provers, so this and like facts are proved by a least
counterexample (`LeastElement`, from `WFMin` of the library).

**The organizer**. *Draws*: a quota bounds a sum over requests, which the model
defines as the number of tokens in a set, so that `SizeFacts` can prove it additive
and monotone with the library's theorems on cardinality. `DrawInv` says that a
handler past `Load` holds the file as it is, since the chain admits one at a time
(`CallFacts`), that a day's record lists every batch answered and counts exactly
the tokens of those it lists (`Counted`), and that the answered ones stay within
the highest quota (`Within`). *Mailbox*: in `MailInv`, a request in a handler's
hands is claimed and not yet noted, every claim is one or the other (`Claims`), a
note in memory or the sidecar exists only once the response is at the relay or the
request was dropped on purpose (`Served`), and the counter is the number of busy
handlers. `OnceInv` adds that a note carries the request's own time and that what
was pruned has expired (`Punctual`), which fails for clocks further ahead than the
skew. *Epoch keys*: `KeysInv` says that a token's sales, received, on the way or
remembered for a retry, are all one key of one epoch, and that it is spent once
there is any (`SalesSound`). `WatchInv` relates three lists, the relay's posts,
the wire and the ring: each holds posts in nearly the relay's order
(`NearlyOrdered`), and a counted post is in the ring or further back than the
relay replays (`CountedKnown`); only with this can a bounded ring stand for all
posts ever counted. *Invites*: in `EnrollInv` a request
has one call at most, since the mailbox holds its claim (`OneCallEach`), the
invite's counter is the number of slots reserved and signed (`BooksBalance`), and
the credentials handed out or at the signer stay within its uses, also when the
invite is deleted under a call (`NeverOversold`).

**The wallet**. `OnceInv` has three parts. `ChainInv` describes the promise
chain: writes come before a re-read or wipe, and reconciliations last; each caller
awaits its own task and no other's; no write is pending before the list is loaded.
`SpendInv`: a token handed out is in no list, storage or snapshot (`Gone`); while
the spend still waits for its write, it is out of memory and every later snapshot
(`Parted`). `BirthInv`: the tokens of a batch not yet added are nowhere.
`DepositAlwaysKept` needs the dual, `KeptInv`: a deposited token is in storage, in
memory once read, in a re-read's result and in every pending snapshot (`Bears`),
unless it was spent, dropped or forgotten (`Safe`), or the instance failed to read
it and may still do so. Both need `WipeInv`: while a wipe is pending the list
is empty, and a call woken from a re-read after the list was dropped finds storage
empty too. It was found through a proof that failed: without it, a spend could
take tokens from a list still being loaded again. `MemoryAlwaysMatches` rests on
`MatchInv`: the last snapshot queued is the list in memory, unless a wipe follows
it (`Newest`), and with no write queued the list, or the result of a re-read, is
what is stored (`InStep`).

**Draw and unlock**. The draw's `DrawInv`: one draw runs, its account stays the
active one, and the marker it has staged or resumes stays in place until it removes
it (`InPlace`), which it does only with the batch in the wallet or declined
(`Settled`). From these follows `MarkersAlwaysKept`, an action property. `Kept`
adds that a draw about to write over a marker, or to remove one it did not write,
finds none or one with nothing to lose (`Spare`): declined, deposited, refused by the
relay, or exposed by a failure of storage. This holds only if no resume times out.
`UnlockInv`: every unlock on the chain is the active account's, there is one for
each entry in flight and no more (`Asked`), and an entry off the chain without a
key, still wanted, has a time and an armed timer (`Awaited`). `TokensInv` says
which of these holds in which part; the wallet's lemmas come in through an
instance of `WalletProofs` for each of the two wallets.

**The client**. Each component has an invariant over its environment, and
`ClientInv` puts them together: what holds in every environment, and, behind the
condition the property names, what holds in the restricted ones.

- *Outbox*, `BoxInv`: the queue in memory and the one on disk both tell the
  truth (`Sound`), blobs are added before the post that names them, and a post in
  flight has its blobs at the relay. `LiveInv` adds that a blob is sent only after
  its `add` (`Orderly`) and that whatever shows as on its way is carried by a
  flight, a timer or a blob (`Carried`). With early connections a stuck post is
  reachable: its blob's confirmation is swept while a second attempt runs.
- *Pending writes*: without media nothing stands between the account check and the
  publishing (`HomeInv`); in one account and process a write is queued, with
  one caller, or published, never two of these (`OneInv`); and one being saved is
  published already, so the queue stored without it loses nothing (`KeptInv`).
- *Accounts*, `KeepInv`: the steps of a removal still due name only left accounts,
  and a key, its list entry and its data are written before the step that calls the
  account enrolled (`Ordered`). `RingCalm` predicts: it states agreement for what
  the stored records will be once the steps still due are done (`Staying`,
  `Keys`, `Datas`, `Comms`), so that it holds at every step of an operation and is
  the property when none is due. It says where the one operation under way stands
  (`Enrolling`, `Leaves`, `Switches`) and which binding is owed (`Owes`).
- *Communities*, `CalmInv`: a writer and a switch may overlap, each a chain of
  tasks on one native queue. Requests of the two are served in turn, so a writer
  that is ahead stays ahead (`Ahead`): its read of the pointer is
  served before the switch's write of it. Without this count
  the invariant would allow a writer that stores under the wrong community.
- *TorManager*, `StopInv`: with `maybe` false a stop is on its way with no start
  behind it, or nothing runs. `SoloInv`: with one `connect()` at a time the
  unresolved attempt is the current one, with its deadline, and after a
  `disconnect()` no subscription is left. `AuthInv`: whatever the current attempt
  started holds the configured credential.
- *TorLadder*, `WalkInv`: for each place of the cascade, what is down, what is
  stopping and whether the retry is set: it tears down only what it has tried,
  every teardown that reports sets the retry, and a connection exists only while
  no cascade runs.

**Only model-checked**: liveness, which is out of the prover's reach
(`SpendLeadsToMember` and the four properties of `progress`). Every safety and
action property of the passing runs is proved under the hypotheses above. The
violations are facts about instances, and TLC's alone.

## Not modelled

Most of the repository by lines is presentation (screens, composer, feed, spaces,
organizer console): folds of events into views, without a protocol to check. Of
the rest, left out are the cryptography (a token verifies under a key or not),
free text and formatting, the kind allow-list, read filters, a state store that
fails in `emitState` (`relayapp/relay.go:531` drops the error), the chat gate
`guardGroupEvent` (five reads under five locks, `policy/groups.go:157`), the rate
limiter (`ratelimit.go:355`, `:488`; its refusals are an input of `TokenDraw`),
the PIN limiter and the duress wipe (`attemptLimiter.ts:94`), the relay client
with its mirrors, the event store on SQLite, background sync, push and the
updater; and the components marked `not_modelled` in `PROJECT.json`, each with its
reason.

Two behaviours are modelled and no property speaks of them, since no document
promises otherwise: an unlock answer pushed out of the bounded memory turns its
retry into a refusal (`contentEpochKeys.mjs:238`), and a passing signer failure is
answered with an error that the retries of the same request then meet
(`mailbox.mjs:341`). The organizer's sidecars that are corrupt when read are not
modelled.

## Plan

1. *Done*: spent set, membership store and ledger; groups; group guard;
   admission; the organizer's draws, mailbox, content keys and enrolment; the
   member's wallet, draw and unlock; outbox, pending writes, accounts,
   communities; the Tor manager and ladder; the compositions.
2. *Done*: proofs of every safety property of these. A weaker `NoSpaceRace`, which
   counts reloads, would bring the run `admission` inside its theorem.
3. `TokenDraw` over `Wallet` and `DrawQuota` with an abstract specification: every
   batch paid for is deposited exactly once.
4. `RateLimit`: windows at their limits, connections that close under a handler.
5. `RelayClient` and its mirrors: resubscription, watermarks and late answers
   under the outbox; the event store's replacement rules.
6. `PinLimiter`: counters that survive a kill; the push watcher's reconnects.
