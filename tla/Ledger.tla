------------------------------- MODULE Ledger -------------------------------
(***************************************************************************)
(* What the spent set promises its callers, whatever the interleaving of   *)
(* handlers, retries, failed saves and restarts: a token gets an owner at  *)
(* most once and keeps it for ever; an event is charged in one step, so    *)
(* it never ends up owning half of a batch.                                *)
(***************************************************************************)
CONSTANTS
    Token,      \* token ids
    Pubkey,     \* owners that may claim one credential after another
    Event,      \* owners that are charged once, for a whole batch
    Strict,     \* the anonymous owner of one-shot and legacy spends
    NoOwner

VARIABLE owner

\* An unclaimed ledger; a relay upgraded from an older store starts with strict records.
Init == owner \in [Token -> {NoOwner, Strict}]

\* One claim gives a set of unowned tokens to one owner; an event claims once.
Claim(batch, o) ==
    /\ \A t \in batch : owner[t] = NoOwner
    /\ o \in Event => \A t \in Token : owner[t] # o
    /\ owner' = [t \in Token |-> IF t \in batch THEN o ELSE owner[t]]

Next == \E batch \in SUBSET Token : \E o \in Pubkey \cup Event \cup {Strict} : Claim(batch, o)

Spec == Init /\ [][Next]_owner
=============================================================================
