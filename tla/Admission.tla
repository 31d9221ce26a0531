----------------------------- MODULE Admission -----------------------------
(***************************************************************************)
(* Admission of an event by the relay: the chain of reject hooks that      *)
(* relayapp/relay.go installs, around the token gate of                    *)
(* policy/membership.go.                                                   *)
(*                                                                         *)
(* Handlers run concurrently and read the live policy piecewise: once to   *)
(* route the event, once in the gate it is routed to (VerifyEvent, which   *)
(* spends nothing), and again in CommitSpend, the last hook, which prices  *)
(* the event anew and burns its tokens.  Meanwhile a SIGHUP replaces the   *)
(* policy one field at a time (Reloader.Apply).  Clients retry, so one     *)
(* event may be in flight several times, and may follow a failed store.    *)
(*                                                                         *)
(* Events that fail the signature or weight hook, whose kind is not        *)
(* allowed, or whose token tags decode to nothing, never get this far.     *)
(***************************************************************************)
EXTENDS SpentSet, FiniteSets

CONSTANTS
    Token,          \* token ids
    Key,            \* issuer keys
    KeyOf,          \* KeyOf[t]: the key that signed token t, NoKey if it is forged
    NoKey,
    Event,          \* event ids
    Body,           \* Body[e]: what the hooks look at in event e
    Pubkey,         \* signers
    Member,         \* the bound ones
    GeneralKeys,    \* issuer_public_keys, read at boot only
    Config,         \* the config.json contents an operator may install
    Handler,
    MaxTokenPairs,  \* maxTokenPairsPerEvent
    MaxReload       \* bound on SIGHUPs

\* Kinds, by how VerifyEvent routes them: the mailbox kinds, gift wraps, channel and group
\* messages, h-tagged kind 7, the blind content kinds, and all other attributed kinds.
Class == {"mailbox", "wrap", "space", "reaction", "blind", "attributed"}

\* The proof chain an event carries: none, one per token after the first (which signs the
\* event), or one per token.
Chain == {"none", "holder", "all"}

\* The issuer key sets, and the media domains a post may claim.
KeySet == {"posting", "picture", "audio", "spaceWrite"}

BodyType == [class : Class, by : Pubkey, creds : Seq(Token), size : Nat, chain : Chain,
             dom : {"posting", "picture", "audio"}, pow : BOOLEAN]

ConfigType == [organizers : SUBSET Pubkey, blind : BOOLEAN, holder : BOOLEAN,
               bytesPerToken : Nat, space : BOOLEAN, posting : SUBSET Key,
               picture : SUBSET Key, audio : SUBSET Key, spaceWrite : SUBSET Key]

ASSUME AdmissionAssumption ==
    /\ KeyOf \in [Token -> Key \cup {NoKey}] /\ NoKey \notin Key
    /\ Body \in [Event -> BodyType]
    /\ {NoOwner, Strict} \cap Event = {}
    /\ Member \subseteq Pubkey
    /\ GeneralKeys \subseteq Key
    /\ Config \subseteq ConfigType
    /\ MaxTokenPairs \in Nat /\ MaxReload \in Nat

VARIABLES
    policy,     \* the live fields of Membership
    configFile, \* config.json
    reload,     \* fields Reloader.Apply has still to install
    reloads,    \* SIGHUPs so far
    spent,      \* the spent set
    call,       \* per handler: the event it admits and where it stands
    cleared,    \* history: events that passed every hook before the commit
    price       \* history: per event, the tokens its last commit charged (0: none yet)

vars == <<policy, configFile, reload, reloads, spent, call, cleared, price>>

Idle == [pc |-> "idle"]

\* The fields of the live policy in the order Apply installs them.
ReloadOrder == <<"organizers", "blind", "holder", "bytesPerToken", "space",
                 "posting", "picture", "audio", "spaceWrite">>

----------------------------------------------------------------------------
(* Pricing.                                                                 *)

\* weight.go: one token per bytesPerToken of chargeable size, rounded up, one at least; zero
\* turns weight pricing off.
TokenCost(e, bytesPerToken) ==
    IF bytesPerToken = 0 \/ Body[e].size = 0 THEN 1
    ELSE (Body[e].size + bytesPerToken - 1) \div bytesPerToken

\* Where a token is met for the first time.
FirstSeen(s) == {i \in DOMAIN s : \A j \in 1..(i - 1) : s[j] # s[i]}

\* dedupeCredentials and distinctTokenIDs: the tokens carried, in first-seen order.
DistinctTokens(e) ==
    LET s == Body[e].creds IN
    [k \in 1..Cardinality(FirstSeen(s)) |->
        s[CHOOSE i \in FirstSeen(s) : Cardinality(FirstSeen(s) \cap 1..i) = k]]

HasToken(e) == Body[e].creds # <<>>

\* The price at this instant, and the tokens it takes.
Need(e) == TokenCost(e, policy.bytesPerToken)
Batch(e, n) == SubSeq(DistinctTokens(e), 1, n)

----------------------------------------------------------------------------
(* VerifyEvent: the gates, each under one snapshot of the policy p.  (The   *)
(* code reads keys, price and holder flag of one gate under separate read   *)
(* locks; no property below depends on two of them at once.)                *)

\* spaceTokensEnforced: required, and satisfiable.
SpaceEnforced(p) == p.space /\ p.spaceWrite # {}

\* postingKeysForDomain and postingKeys, with their fallbacks.
PostingKeys(p, dom) ==
    IF p[dom] # {} THEN p[dom] ELSE IF p.posting # {} THEN p.posting ELSE GeneralKeys

\* What gateSpaceTokens and handleBlindPost share: every distinct token verifies under the
\* keys, and there are enough of them and not too many.
TokensVerify(e, keys, p) ==
    /\ \A t \in Ids(Body[e].creds) : KeyOf[t] \in keys
    /\ Len(DistinctTokens(e)) \in TokenCost(e, p.bytesPerToken)..MaxTokenPairs

\* handleBlindPost, its holder proofs included; more proofs than tokens after the first are
\* refused even while holder proofs are not required.
BlindPost(e, p) ==
    /\ Body[e].class \in {"blind", "reaction"}
    /\ TokensVerify(e, PostingKeys(p, Body[e].dom), p)
    /\ Body[e].chain # "all"
    /\ p.holder => Body[e].chain = "holder"

\* gateSpaceTokens: tokenless content while unenforced, or a full chain of space tokens.
GateSpaceTokens(e, p) ==
    IF HasToken(e) THEN /\ p.spaceWrite # {}
                        /\ TokensVerify(e, p.spaceWrite, p)
                        /\ Body[e].chain = "all"
    ELSE ~SpaceEnforced(p)

\* admitAttributed: an organizer or a bound member.
AdmitAttributed(e, p) == Body[e].by \in p.organizers \cup Member

\* Mutated form of Path: an h-tagged reaction is always space content.
PathSpaceReaction(e, p) ==
    CASE Body[e].class \in {"mailbox", "wrap"} -> Body[e].class
      [] Body[e].class \in {"space", "reaction"} -> "space"
      [] OTHER -> IF HasToken(e) THEN "blind" ELSE "plain"

\* VerifyEvent's routing.  A group reaction counts as space content only while space tokens
\* are enforced.
Path(e, p) ==
    CASE Body[e].class \in {"mailbox", "wrap"} -> Body[e].class
      [] Body[e].class = "space" \/ (Body[e].class = "reaction" /\ SpaceEnforced(p)) -> "space"
      [] OTHER -> IF HasToken(e) THEN "blind" ELSE "plain"

\* The gate each path ends in.
Admits(e, path, p) ==
    CASE path = "mailbox" -> Body[e].pow
      [] path = "wrap" -> Body[e].pow /\ GateSpaceTokens(e, p)
      [] path = "space" -> GateSpaceTokens(e, p) /\ AdmitAttributed(e, p)
      [] path = "blind" -> BlindPost(e, p)
      [] path = "plain" -> /\ ~(p.blind /\ Body[e].class \in {"blind", "reaction"})
                           /\ AdmitAttributed(e, p)

----------------------------------------------------------------------------
(* What the policy p asks of an event, stated independently of the gates:   *)
(* the fewest tokens e may be stored for.                                   *)

\* The least number of tokens, one at least, that covers the size.
FairPrice(e, bytesPerToken) ==
    IF bytesPerToken = 0 THEN 1
    ELSE CHOOSE n \in 1..(Body[e].size + 1) :
            /\ n * bytesPerToken >= Body[e].size
            /\ \A k \in 1..(n - 1) : k * bytesPerToken < Body[e].size

\* Content that some rule lets in without a token.
Free(e, p) ==
    CASE Body[e].class \in {"mailbox", "attributed"} -> TRUE
      [] Body[e].class \in {"wrap", "space"} -> ~SpaceEnforced(p)
      [] Body[e].class = "blind" -> ~p.blind
      [] Body[e].class = "reaction" -> ~p.blind /\ ~SpaceEnforced(p)

Due(e, p) ==
    IF Body[e].class = "mailbox" \/ (~HasToken(e) /\ Free(e, p)) THEN 0
    ELSE FairPrice(e, p.bytesPerToken)

Lesser(m, n) == IF m < n THEN m ELSE n

\* The calls in flight, each with the least it was due at any instant of its handling.
Repriced(calls, p) ==
    [h \in Handler |-> IF calls[h] = Idle THEN Idle
                       ELSE [calls[h] EXCEPT !.due = Lesser(@, Due(calls[h].ev, p))]]

----------------------------------------------------------------------------
Init ==
    /\ configFile \in Config
    /\ policy = configFile
    /\ reload = <<>>
    /\ reloads = 0
    /\ spent = [t \in Token |-> NoOwner]
    /\ call = [h \in Handler |-> Idle]
    /\ cleared = {}
    /\ price = [e \in Event |-> 0]

\* The call moves on, or ends (a reject, or the answer).
Goto(h, pc) == call' = [call EXCEPT ![h].pc = pc]
End(h) == call' = [call EXCEPT ![h] = Idle]

\* A client publishes an event, for the first time or again.
Arrive(h, e) ==
    /\ call[h] = Idle
    /\ call' = [call EXCEPT ![h] = [pc |-> "route", ev |-> e, path |-> "none", due |-> Due(e, policy)]]
    /\ UNCHANGED <<policy, configFile, reload, reloads, spent, cleared, price>>

\* VerifyEvent, first read of the policy.
Route(h) ==
    /\ call[h].pc = "route"
    /\ call' = [call EXCEPT ![h].pc = "gate", ![h].path = Path(call[h].ev, policy)]
    /\ UNCHANGED <<policy, configFile, reload, reloads, spent, cleared, price>>

\* Mutated form of Gate: the tokens are burned as soon as they verify.
GateSpends(h) ==
    LET e == call[h].ev
        batch == Batch(e, Need(e)) IN
    /\ call[h].pc = "gate"
    /\ IF Admits(e, call[h].path, policy) THEN Goto(h, "hooks") ELSE End(h)
    /\ spent' = IF /\ call[h].path # "mailbox" /\ HasToken(e)
                   /\ Admits(e, call[h].path, policy) /\ CanSpend(spent, batch, e)
                THEN Spend(spent, batch, e) ELSE spent
    /\ UNCHANGED <<policy, configFile, reload, reloads, cleared, price>>

\* VerifyEvent, second read: the gate of the chosen path.  Nothing is spent.
Gate(h) ==
    /\ call[h].pc = "gate"
    /\ IF Admits(call[h].ev, call[h].path, policy) THEN Goto(h, "hooks") ELSE End(h)
    /\ UNCHANGED <<policy, configFile, reload, reloads, spent, cleared, price>>

\* The organizer, rate-limit and group hooks: any of them may refuse the event.
LaterHooks(h) ==
    /\ call[h].pc = "hooks"
    /\ \/ End(h) /\ UNCHANGED cleared
       \/ Goto(h, "commit") /\ cleared' = cleared \cup {call[h].ev}
    /\ UNCHANGED <<policy, configFile, reload, reloads, spent, price>>

\* Mutated form of Planned: mailbox kinds are not exempt.
PlannedAll(e) == HasToken(e)

\* plannedSpend: which events commit a spend at all.
Planned(e) == HasToken(e) /\ Body[e].class # "mailbox"

\* Mutated form of CommitSpend: no check that the event still carries enough.
CommitSpendUnbounded(h) ==
    LET e == call[h].ev
        batch == Batch(e, Lesser(Need(e), Len(DistinctTokens(e)))) IN
    /\ call[h].pc = "commit"
    /\ \/ ~Planned(e) /\ Goto(h, "store") /\ UNCHANGED <<spent, price>>
       \/ Planned(e) /\ ~CanSpend(spent, batch, e) /\ End(h) /\ UNCHANGED <<spent, price>>
       \/ /\ Planned(e) /\ CanSpend(spent, batch, e)
          /\ spent' = Spend(spent, batch, e)
          /\ price' = [price EXCEPT ![e] = Need(e)]
          /\ Goto(h, "store")
    /\ UNCHANGED <<policy, configFile, reload, reloads, cleared>>

\* CommitSpend, the last reject hook: nothing to spend; too few tokens at the present price;
\* refused by the spent set, or its write failed (nothing is written); or burned, all at once.
CommitSpend(h) ==
    LET e == call[h].ev
        batch == Batch(e, Need(e)) IN
    /\ call[h].pc = "commit"
    /\ \/ ~Planned(e) /\ Goto(h, "store") /\ UNCHANGED <<spent, price>>
       \/ Planned(e) /\ Need(e) > Len(DistinctTokens(e)) /\ End(h) /\ UNCHANGED <<spent, price>>
       \/ /\ Planned(e) /\ Need(e) <= Len(DistinctTokens(e))
          /\ \/ End(h) /\ UNCHANGED <<spent, price>>
             \/ /\ CanSpend(spent, batch, e)
                /\ spent' = Spend(spent, batch, e)
                /\ price' = [price EXCEPT ![e] = Need(e)]
                /\ Goto(h, "store")
    /\ UNCHANGED <<policy, configFile, reload, reloads, cleared>>

\* StoreEvent: saved (again), or lost to an error or to a deletion that came first; no hook
\* reads the event store, so either way the call is over and a retry may follow.
StoreEvent(h) ==
    /\ call[h].pc = "store"
    /\ End(h)
    /\ UNCHANGED <<policy, configFile, reload, reloads, spent, cleared, price>>

----------------------------------------------------------------------------
(* The operator and the process.                                            *)

\* The operator edits config.json and sends SIGHUP.
Sighup(c) ==
    /\ reload = <<>>
    /\ reloads < MaxReload
    /\ reloads' = reloads + 1
    /\ configFile' = c
    /\ reload' = ReloadOrder
    /\ UNCHANGED <<policy, spent, call, cleared, price>>

\* Reloader.Apply, one setter.  A key set that is empty or does not parse keeps the old keys.
ApplyField ==
    LET f == Head(reload) IN
    /\ reload # <<>>
    /\ reload' = Tail(reload)
    /\ \/ f \in KeySet /\ UNCHANGED policy
       \/ /\ f \in KeySet => configFile[f] # {}
          /\ policy' = [policy EXCEPT ![f] = configFile[f]]
    /\ call' = Repriced(call, policy')
    /\ UNCHANGED <<configFile, reloads, spent, cleared, price>>

\* The relay dies and boots again: the handlers are gone, the spent set and the events are
\* durable, the policy is config.json.
Restart ==
    /\ policy' = configFile
    /\ reload' = <<>>
    /\ call' = [h \in Handler |-> Idle]
    /\ UNCHANGED <<configFile, reloads, spent, cleared, price>>

Step(h) == Route(h) \/ Gate(h) \/ LaterHooks(h) \/ CommitSpend(h) \/ StoreEvent(h)

Next ==
    \/ \E h \in Handler, e \in Event : Arrive(h, e)
    \/ \E h \in Handler : Step(h)
    \/ \E c \in Config : Sighup(c)
    \/ ApplyField
    \/ Restart

Spec == Init /\ [][Next]_vars

----------------------------------------------------------------------------
(* Properties.                                                              *)

Call == [pc : {"route", "gate", "hooks", "commit", "store"}, ev : Event,
         path : {"none", "mailbox", "wrap", "space", "blind", "plain"}, due : Nat]

\* Every variable keeps its type; an event is charged for tokens it carries.
TypeOK ==
    /\ policy \in ConfigType /\ configFile \in Config
    /\ reload \in Seq(DOMAIN policy)
    /\ reloads \in 0..MaxReload
    /\ spent \in [Token -> Event \cup {NoOwner}]
    /\ call \in [Handler -> {Idle} \cup Call]
    /\ cleared \subseteq Event
    /\ price \in [Event -> Nat]
    /\ \A e \in Event : price[e] <= Len(DistinctTokens(e))

\* The tokens an event owns in the spent set.
Owned(e) == {t \in Token : spent[t] = e}

\* An event about to be stored owns at least the tokens it was due at the cheapest instant
\* of its handling: no interleaving of verify, commit, retries and reload lets content in
\* below every price in force, or tokenless while every rule asked for a token.
\* (One race is left, AdmissionProofs!NoSpaceRace excludes it: two reloads around the routing
\* and the gate of one tokenless group reaction, or one that turns space tokens off alone.)
EventsPay ==
    \A h \in Handler : call[h].pc = "store" => Cardinality(Owned(call[h].ev)) >= call[h].due

\* The keys of a set that some config installs.
KeysOf(k) == UNION {c[k] : c \in Config}

\* Relay.go's invariant: "a token is committed only after all reject hooks pass".  No token
\* is burned for an event that every attempt so far saw refused, whatever was retried or
\* reloaded in between.
BurnedOnlyIfCleared == \A e \in Event : Owned(e) # {} => e \in cleared

\* The issuer keys that may pay for an event of this class and media domain.
DomainKeys(e) ==
    LET posting == GeneralKeys \cup KeysOf("posting") \cup KeysOf(Body[e].dom) IN
    CASE Body[e].class \in {"wrap", "space"} -> KeysOf("spaceWrite")
      [] Body[e].class = "reaction" -> KeysOf("spaceWrite") \cup posting
      [] Body[e].class = "blind" -> posting
      [] OTHER -> {}

\* CommitSpend burns without verifying, trusting VerifyEvent's routing: a token is still only
\* ever burned for content of the domain its issuer key is for, and never if forged.
SpentInDomain == \A t \in Token : spent[t] # NoOwner => KeyOf[t] \in DomainKeys(spent[t])

\* A token is burned only for an event that cleared every hook, and only for content of the
\* domain its issuer key is for: the gate before CommitSpend and the routing it trusts.
BurnedRightly == BurnedOnlyIfCleared /\ SpentInDomain

\* "The SAME event retried re-commits idempotently": an event that has paid can commit again
\* at the price it paid, however many rivals tried its tokens since.
RetryIdempotent ==
    \A e \in Event : price[e] > 0 => CanSpend(spent, Batch(e, price[e]), e)

\* Store.SpendAllForEvent's comment, "an exact retry with the same event ID succeeds", said
\* of the retry as CommitSpend makes it: at the present price, if the event still covers it.
RetrySucceeds ==
    \A e \in Event : price[e] > 0 /\ Need(e) <= Len(DistinctTokens(e))
        => CanSpend(spent, Batch(e, Need(e)), e)
=============================================================================
