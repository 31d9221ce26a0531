------------------------------ MODULE SpentSet ------------------------------
(***************************************************************************)
(* The spend rule shared by every caller of the relay's spent-token set    *)
(* (relay/internal/membership/spentset_badger.go, spendOwned, and its      *)
(* inline twin in store.go, SpendAllForEvent).                             *)
(*                                                                         *)
(* A spent set maps each token id to the owner recorded with its spend.    *)
(* An owner is the id of the event the token paid for, the pubkey a        *)
(* binding credential enrolled, or Strict: the eight-byte record with no   *)
(* owner, written by one-shot spends and by the legacy import.             *)
(***************************************************************************)
EXTENDS Naturals, Sequences

CONSTANTS
    NoOwner,    \* no record: the token is unspent
    Strict      \* a record without an owner: never retryable

ASSUME SpentSetAssumption == NoOwner # Strict

\* The ids of a batch, presented in tag order.
Ids(batch) == {batch[i] : i \in DOMAIN batch}

\* spendOwned refuses a batch that names one token twice.
Distinct(batch) == \A i, j \in DOMAIN batch : batch[i] = batch[j] => i = j

\* A record that this owner may not treat as its own: every record for a strict
\* spend, and any other owner's record for an owned one.
Foreign(spent, t, owner) == spent[t] # NoOwner /\ (owner = Strict \/ spent[t] # owner)

\* Mutated forms of CanSpend: no compare-and-set; a partly owned batch is completed; the
\* one-shot rule, under which a retry by the owner is refused like a double spend.
CanSpendUnchecked(spent, batch, owner) == Distinct(batch)
CanSpendPartly(spent, batch, owner) ==
    Distinct(batch) /\ \A t \in Ids(batch) : ~Foreign(spent, t, owner)
CanSpendOneShot(spent, batch, owner) ==
    Distinct(batch) /\ \A t \in Ids(batch) : spent[t] = NoOwner

\* The transaction's verdict: no foreign record, and the batch wholly new or wholly
\* owned already (an exact retry); a partly owned batch is never completed later.
CanSpend(spent, batch, owner) ==
    /\ Distinct(batch)
    /\ \A t \in Ids(batch) : ~Foreign(spent, t, owner)
    /\ \/ \A t \in Ids(batch) : spent[t] = owner
       \/ \A t \in Ids(batch) : spent[t] = NoOwner

\* Mutated form of Spend: only the first token of the batch is recorded.
SpendFirst(spent, batch, owner) == [spent EXCEPT ![batch[1]] = owner]

\* What the transaction commits when it succeeds.
Spend(spent, batch, owner) ==
    [t \in DOMAIN spent |-> IF t \in Ids(batch) THEN owner ELSE spent[t]]
=============================================================================
