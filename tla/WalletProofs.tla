---------------------------- MODULE WalletProofs ----------------------------
(***************************************************************************)
(* What the token wallet promises for any batches, callers, prices, key    *)
(* changes, kills and failures of storage, when one instance owns the      *)
(* storage and no call changes the list while a re-read is pending: no     *)
(* token is handed out twice, no acknowledged deposit is lost except to a  *)
(* failed read, and if storage does not fail, none is lost at all, and the *)
(* list and the storage agree whenever nothing is under way.               *)
(***************************************************************************)
EXTENDS Wallet, FiniteSetTheorems, WellFoundedInduction, TLAPS

\* The setting: one instance, calls that do not fall into a re-read, batches given to add()
\* once, each with tokens of its own (every token has its own fresh key pair).
Single ==
    /\ WalletAssumption /\ ~Overlap /\ ~Replay
    /\ \E i \in Instance : Instance = {i}
    /\ \A b \in Batch : BatchTokens[b] \in Seq(Token)
    /\ \A a, b \in Batch : a # b => ToSet(BatchTokens[a]) \cap ToSet(BatchTokens[b]) = {}

----------------------------------------------------------------------------
(* Types.                                                                   *)

Lists == {s \in Seq(Token) : IsInjective(s)}

Task ==
    [kind : {"write"}, by : Caller, snapshot : Lists]
    \cup [kind : {"resync", "remove"}, by : Caller]
    \cup [kind : {"reconcile"}]

Call ==
    {Idle}
    \cup [pc : {"hydrate", "persist", "landed"}, on : Instance, op : {"add"}, batch : Batch]
    \cup [pc : {"hydrate", "resync", "resynced"}, on : Instance, op : {"spend"}, n : Need]
    \cup [pc : {"persist", "landed"}, op : {"spend"}, on : Instance, got : Lists]
    \cup [pc : {"hydrate", "resync"}, on : Instance, op : {"count"}]
    \cup [pc : {"hydrate", "persist", "landed"}, on : Instance, op : {"clear"}]

Store == [held : Lists, hydrated : {"no", "loading", "yes"}, key : Key \cup {NoKey},
          chain : Seq(Task), reading : {NotReading} \cup {<<s>> : s \in Lists},
          unread : SUBSET Token]

Typed ==
    /\ disk \in Lists /\ stamp \in Key \cup {NoKey}
    /\ wallet \in [Instance -> Store] /\ call \in [Caller -> Call]
    /\ returned \in [Token -> 0..2] /\ attempted \subseteq Batch

----------------------------------------------------------------------------
(* The task chain.                                                          *)

Asked(i, n) == wallet[i].chain[n].kind # "reconcile"

\* Writes come first, then at most one re-read or wipe, then reconciliations.
WritesFirst(i) ==
    \A m, n \in DOMAIN wallet[i].chain :
        m < n /\ wallet[i].chain[m].kind # "write" => wallet[i].chain[n].kind = "reconcile"

\* Every task but a reconciliation has its caller waiting for it, and for it alone.
Awaited(i) ==
    /\ \A n \in DOMAIN wallet[i].chain :
          LET task == wallet[i].chain[n] IN
          /\ task.kind = "write" => call[task.by].pc = "persist" /\ call[task.by].op \in {"add", "spend"}
          /\ task.kind = "remove" => call[task.by].pc = "persist" /\ call[task.by].op = "clear"
          /\ task.kind = "resync" => call[task.by].pc = "resync"
    /\ \A m, n \in DOMAIN wallet[i].chain :
          Asked(i, m) /\ Asked(i, n) /\ m # n => wallet[i].chain[m].by # wallet[i].chain[n].by
    /\ \A c \in Caller : call[c].pc \in {"persist", "resync"} =>
          \E n \in DOMAIN wallet[i].chain : Asked(i, n) /\ wallet[i].chain[n].by = c

\* A list is loaded, and a read is pending, only when no write is.
Quiet(i) ==
    /\ wallet[i].hydrated # "yes" => \A n \in DOMAIN wallet[i].chain : wallet[i].chain[n].kind = "reconcile"
    /\ wallet[i].reading # NotReading =>
          wallet[i].chain # <<>> /\ wallet[i].chain[1].kind \in {"resync", "reconcile"}

ChainInv == \A i \in Instance : WritesFirst(i) /\ Awaited(i) /\ Quiet(i)

----------------------------------------------------------------------------
(* Spending.                                                                *)

\* The snapshots still to be written, from the n-th task on.
Unwritten(i, n) == {m \in DOMAIN wallet[i].chain : m >= n /\ wallet[i].chain[m].kind = "write"}

\* Token t is nowhere any more, or not yet.
Gone(t) ==
    /\ t \notin ToSet(disk)
    /\ \A i \in Instance :
          /\ t \notin ToSet(wallet[i].held)
          /\ wallet[i].reading # NotReading => t \notin ToSet(wallet[i].reading[1])
          /\ \A m \in Unwritten(i, 1) : t \notin ToSet(wallet[i].chain[m].snapshot)

Spending(c) == call[c].pc \in {"persist", "landed"} /\ call[c].op = "spend"
Got(c) == ToSet(call[c].got)

\* What caller c is about to hand out is not in the list, nor in a snapshot from its own on.
Parted(c, i) ==
    /\ Got(c) \cap ToSet(wallet[i].held) = {}
    /\ \A n \in DOMAIN wallet[i].chain : Asked(i, n) /\ wallet[i].chain[n].by = c =>
          \A m \in Unwritten(i, n) : Got(c) \cap ToSet(wallet[i].chain[m].snapshot) = {}

\* A batch that no add() has put into the list yet.
Adding(c, b) == call[c].pc = "hydrate" /\ call[c].op = "add" /\ call[c].batch = b
Unborn(b) == b \notin attempted \/ \E c \in Caller : Adding(c, b)

\* What was handed out is gone; what is about to be is gone once its write has landed, and
\* before that is parted from what will be stored.
SpendInv ==
    /\ \A t \in Token : returned[t] # 0 => Gone(t)
    /\ \A c \in Caller : Spending(c) => \A t \in Got(c) : returned[t] = 0
    /\ \A c \in Caller : Spending(c) /\ call[c].pc = "landed" => \A t \in Got(c) : Gone(t)
    /\ \A c \in Caller, i \in Instance : Spending(c) /\ call[c].pc = "persist" => Parted(c, i)
    /\ \A c, d \in Caller : Spending(c) /\ Spending(d) /\ c # d => Got(c) \cap Got(d) = {}

\* The tokens of a batch not yet added are nowhere, and no two calls add one batch.
BirthInv ==
    /\ \A b \in Batch : Unborn(b) =>
          \A t \in ToSet(BatchTokens[b]) :
              /\ Gone(t) /\ returned[t] = 0
              /\ \A c \in Caller : Spending(c) => t \notin Got(c)
    /\ \A c \in Caller, b \in Batch : Adding(c, b) => b \in attempted
    /\ \A c, d \in Caller, b \in Batch : Adding(c, b) /\ Adding(d, b) => c = d

OnceInv == Typed /\ ChainInv /\ SpendInv /\ BirthInv

----------------------------------------------------------------------------
(* Deposits.                                                                *)

\* Tokens a key change, a wipe or a failed read made the wallet lose.
Dropped == discarded \cup forgotten

\* Token t is stored, and it is in the list and in a pending read of it, unless the instance
\* failed to read it from storage.
Bears(i, t) ==
    /\ t \in ToSet(disk)
    /\ t \notin wallet[i].unread /\ wallet[i].hydrated # "no" => t \in ToSet(wallet[i].held)
    /\ /\ wallet[i].reading # NotReading
       /\ t \notin wallet[i].unread \/ wallet[i].chain[1].kind = "resync"
       => t \in ToSet(wallet[i].reading[1])

\* Token t was spent or dropped, or is wherever the list is; what was never read may be missing
\* from the snapshots.
Safe(t) ==
    \/ t \in taken \cup Dropped
    \/ \A i \in Instance :
          /\ Bears(i, t)
          /\ t \notin wallet[i].unread =>
                \A m \in Unwritten(i, 1) : t \in ToSet(wallet[i].chain[m].snapshot)

Depositing(c) == call[c].pc \in {"persist", "landed"} /\ call[c].op = "add"
Given(c) == ToSet(BatchTokens[call[c].batch])

\* What caller c deposits is in the list, and in every snapshot from its own on.
Stored(c, i) ==
    \A t \in Given(c) : t \notin taken \cup Dropped =>
        /\ t \in ToSet(wallet[i].held)
        /\ \A n \in DOMAIN wallet[i].chain : Asked(i, n) /\ wallet[i].chain[n].by = c =>
              \A m \in Unwritten(i, n) : t \in ToSet(wallet[i].chain[m].snapshot)

Wiping(i) == \E n \in DOMAIN wallet[i].chain : wallet[i].chain[n].kind = "remove"
NoWrite(i) == \A n \in DOMAIN wallet[i].chain : wallet[i].chain[n].kind # "write"

\* An acknowledged deposit, or one whose write has landed, is safe; before that it is stored
\* with the list.  A wipe is queued only after the list was dropped.
KeptInv ==
    /\ \A t \in deposited : Safe(t)
    /\ \A c \in Caller : Depositing(c) /\ call[c].pc = "landed" => \A t \in Given(c) : Safe(t)
    /\ \A c \in Caller, i \in Instance : Depositing(c) /\ call[c].pc = "persist" => Stored(c, i)
    /\ \A i \in Instance : Wiping(i) =>
          /\ deposited \subseteq taken \cup Dropped
          /\ \A c \in Caller : Depositing(c) => Given(c) \subseteq taken \cup Dropped
    /\ \A i \in Instance : wallet[i].hydrated = "no" /\ wallet[i].chain # <<>> => disk = <<>>

----------------------------------------------------------------------------
(* Lists of tokens.                                                         *)

LEMMA ListFacts ==
    /\ <<>> \in Lists /\ ToSet(<<>>) = {}
    /\ \A s \in Lists : s \in Seq(Token) /\ ToSet(s) \subseteq Token
<1>1. <<>> \in Lists
  BY DEF Lists, IsInjective
<1>2. ToSet(<<>>) = {}
  BY DEF ToSet
<1> QED
  BY <1>1, <1>2 DEF Lists, ToSet

\* A list is cut into the tokens taken and the rest.
LEMMA SplitList ==
    ASSUME NEW s \in Lists, NEW n \in 0..Len(s)
    PROVE  /\ SubSeq(s, 1, n) \in Lists /\ SubSeq(s, n + 1, Len(s)) \in Lists
           /\ ToSet(s) = ToSet(SubSeq(s, 1, n)) \cup ToSet(SubSeq(s, n + 1, Len(s)))
           /\ ToSet(SubSeq(s, 1, n)) \cap ToSet(SubSeq(s, n + 1, Len(s))) = {}
<1> DEFINE got == SubSeq(s, 1, n)
           rest == SubSeq(s, n + 1, Len(s))
<1>1. /\ s \in Seq(Token) /\ Len(s) \in Nat /\ n \in Nat /\ n <= Len(s) /\ DOMAIN s = 1..Len(s)
      /\ \A k, l \in DOMAIN s : s[k] = s[l] => k = l
  BY DEF Lists, IsInjective
<1>2. /\ got \in Seq(Token) /\ DOMAIN got = 1..n /\ \A k \in 1..n : got[k] = s[k]
  BY <1>1
<1>3. /\ rest \in Seq(Token) /\ DOMAIN rest = 1..(Len(s) - n)
      /\ \A k \in 1..(Len(s) - n) : rest[k] = s[k + n]
  BY <1>1
<1> HIDE DEF got, rest
<1>4. IsInjective(got) /\ IsInjective(rest)
  <2>1. \A k \in DOMAIN got : k \in DOMAIN s /\ got[k] = s[k]
    BY <1>1, <1>2
  <2>2. \A k \in DOMAIN rest : k \in Int /\ k + n \in DOMAIN s /\ rest[k] = s[k + n]
    BY <1>1, <1>3
  <2>3. IsInjective(got)
    BY <1>1, <2>1 DEF IsInjective
  <2>4. \A k, l \in DOMAIN rest : rest[k] = rest[l] => k + n = l + n
    BY <1>1, <2>2
  <2>5. \A k, l \in DOMAIN rest : k + n = l + n => k = l
    BY <1>1, <2>2
  <2> QED
    BY <2>3, <2>4, <2>5 DEF IsInjective
<1>5. ToSet(got) \cap ToSet(rest) = {}
  <2>1. ASSUME NEW k \in DOMAIN got, NEW l \in DOMAIN rest PROVE got[k] # rest[l]
    <3>1. k \in DOMAIN s /\ l + n \in DOMAIN s /\ got[k] = s[k] /\ rest[l] = s[l + n] /\ k # l + n
      BY <1>1, <1>2, <1>3
    <3> QED
      BY <1>1, <3>1
  <2> QED
    BY <2>1 DEF ToSet
<1>6. ToSet(s) \subseteq ToSet(got) \cup ToSet(rest)
  <2> SUFFICES ASSUME NEW k \in DOMAIN s PROVE s[k] \in ToSet(got) \cup ToSet(rest)
    BY DEF ToSet
  <2>1. CASE k <= n
    BY <1>1, <1>2, <2>1 DEF ToSet
  <2>2. CASE ~(k <= n)
    <3>1. k - n \in 1..(Len(s) - n) /\ (k - n) + n = k
      BY <1>1, <2>2
    <3>2. rest[k - n] = s[k]
      BY <1>3, <3>1
    <3> QED
      BY <1>3, <3>1, <3>2 DEF ToSet
  <2> QED
    BY <2>1, <2>2
<1>7. ToSet(got) \cup ToSet(rest) \subseteq ToSet(s)
  <2>1. \A k \in DOMAIN got : got[k] \in ToSet(s)
    BY <1>1, <1>2 DEF ToSet
  <2>2. \A k \in DOMAIN rest : rest[k] \in ToSet(s)
    <3> SUFFICES ASSUME NEW k \in DOMAIN rest PROVE rest[k] \in ToSet(s)
      OBVIOUS
    <3>1. k + n \in DOMAIN s /\ rest[k] = s[k + n]
      BY <1>1, <1>3
    <3> QED
      BY <3>1 DEF ToSet
  <2> QED
    BY <2>1, <2>2 DEF ToSet
<1>8. got \in Lists /\ rest \in Lists
  BY <1>2, <1>3, <1>4 DEF Lists
<1> QED
  BY <1>5, <1>6, <1>7, <1>8 DEF got, rest

LEMMA JoinList ==
    ASSUME NEW s \in Lists, NEW r \in Lists, ToSet(s) \cap ToSet(r) = {}
    PROVE  s \o r \in Lists /\ ToSet(s \o r) = ToSet(s) \cup ToSet(r)
<1> DEFINE j == s \o r
<1>1. /\ s \in Seq(Token) /\ r \in Seq(Token) /\ Len(s) \in Nat /\ Len(r) \in Nat
      /\ DOMAIN s = 1..Len(s) /\ DOMAIN r = 1..Len(r)
      /\ \A k, l \in DOMAIN s : s[k] = s[l] => k = l
      /\ \A k, l \in DOMAIN r : r[k] = r[l] => k = l
  BY DEF Lists, IsInjective
<1>2. /\ j \in Seq(Token) /\ DOMAIN j = 1..(Len(s) + Len(r))
      /\ \A k \in 1..(Len(s) + Len(r)) : j[k] = IF k <= Len(s) THEN s[k] ELSE r[k - Len(s)]
  BY <1>1
<1> HIDE DEF j
<1>3. \A k \in DOMAIN j : \/ k \in DOMAIN s /\ j[k] = s[k]
                          \/ k - Len(s) \in DOMAIN r /\ j[k] = r[k - Len(s)] /\ k > Len(s)
  BY <1>1, <1>2
<1>4. \A k \in DOMAIN s : k \in DOMAIN j /\ j[k] = s[k]
  BY <1>1, <1>2
<1>5. \A k \in DOMAIN r : k + Len(s) \in DOMAIN j /\ j[k + Len(s)] = r[k]
  BY <1>1, <1>2
<1>6. ToSet(j) = ToSet(s) \cup ToSet(r)
  <2>1. ToSet(j) \subseteq ToSet(s) \cup ToSet(r)
    BY <1>3 DEF ToSet
  <2>2. ToSet(s) \subseteq ToSet(j)
    BY <1>4 DEF ToSet
  <2>3. ToSet(r) \subseteq ToSet(j)
    <3> SUFFICES ASSUME NEW k \in DOMAIN r PROVE r[k] \in ToSet(j)
      BY DEF ToSet
    <3> QED
      BY <1>5 DEF ToSet
  <2> QED
    BY <2>1, <2>2, <2>3
<1>7. IsInjective(j)
  <2> SUFFICES ASSUME NEW k \in DOMAIN j, NEW l \in DOMAIN j, j[k] = j[l] PROVE k = l
    BY DEF IsInjective
  <2>1. \A m \in DOMAIN s, n \in DOMAIN r : s[m] # r[n]
    BY DEF ToSet
  <2>2. CASE k \in DOMAIN s /\ j[k] = s[k]
    BY <1>1, <1>3, <2>1, <2>2
  <2>3. CASE k - Len(s) \in DOMAIN r /\ j[k] = r[k - Len(s)] /\ k > Len(s)
    <3>1. l - Len(s) \in DOMAIN r /\ j[l] = r[l - Len(s)]
      BY <1>3, <2>1, <2>3
    <3>2. k - Len(s) = l - Len(s)
      BY <1>1, <2>3, <3>1
    <3> QED
      BY <1>1, <1>2, <3>2
  <2> QED
    BY <1>3, <2>2, <2>3
<1> QED
  BY <1>2, <1>6, <1>7 DEF Lists, j

\* A set of natural numbers that is not empty has a least element: induction over data, as
\* the argument by a least counterexample.
LEMMA LeastElement ==
    ASSUME NEW T \in SUBSET Nat, T # {}
    PROVE  \E n \in T : \A m \in T : n <= m
<1> DEFINE R == OpToRel(<, Nat)
<1>1. IsWellFoundedOn(R, Nat)
  BY NatLessThanWellFounded
<1>2. \A m, n \in Nat : m < n => <<m, n>> \in R
  BY DEF OpToRel
<1> HIDE DEF R
<1>3. PICK n \in T : \A m \in T : <<m, n>> \notin R
  BY <1>1, WFMin
<1>4. n \in Nat /\ \A m \in T : m \in Nat /\ ~(m < n)
  BY <1>2, <1>3
<1> QED
  BY <1>3, <1>4

\* Among the elements of a finite set of positive numbers there is a k-th one.
LEMMA KthElement ==
    ASSUME NEW n \in Nat, NEW S \in SUBSET (1..n), NEW k \in 1..Cardinality(S)
    PROVE  \E i \in S : Cardinality(S \cap 1..i) = k
<1> DEFINE C(m) == Cardinality(S \cap 1..m)
           T == {m \in Nat : m <= n /\ k <= C(m)}
<1>1. IsFiniteSet(S) /\ Cardinality(S) \in Nat /\ k \in Nat /\ k >= 1
  <2>1. IsFiniteSet(1..n)
    BY FS_Interval
  <2>2. IsFiniteSet(S)
    BY <2>1, FS_Subset
  <2> QED
    BY <2>2, FS_CardinalityType
<1>2. \A m \in Nat : IsFiniteSet(S \cap 1..m) /\ C(m) \in Nat
  BY <1>1, FS_Intersection, FS_CardinalityType
<1>3. n \in T
  <2>1. S \cap 1..n = S
    OBVIOUS
  <2> QED
    BY <1>1, <2>1
<1>4. PICK m \in T : \A l \in T : m <= l
  BY <1>3, LeastElement
<1>5. m # 0
  <2>1. S \cap 1..0 = {}
    OBVIOUS
  <2> QED
    BY <1>1, <1>4, <2>1, FS_EmptySet
<1>6. m - 1 \in Nat /\ m \in Nat /\ m <= n
  BY <1>4, <1>5
<1>7. C(m - 1) < k
  BY <1>1, <1>2, <1>4, <1>6
<1>8. S \cap 1..m = IF m \in S THEN (S \cap 1..(m - 1)) \cup {m} ELSE S \cap 1..(m - 1)
  BY <1>6
<1>9. m \notin S \cap 1..(m - 1)
  BY <1>6
<1>10. m \in S
  BY <1>1, <1>2, <1>4, <1>6, <1>7, <1>8
<1>11. C(m) = C(m - 1) + 1
  BY <1>2, <1>6, <1>8, <1>9, <1>10, FS_AddElement
<1>12. C(m) = k
  BY <1>1, <1>2, <1>4, <1>6, <1>7, <1>11
<1> QED
  BY <1>10, <1>12

\* add() appends exactly the tokens that were not held, each once.
LEMMA AddedList ==
    ASSUME NEW s \in Seq(Token), NEW held \in Lists
    PROVE  /\ held \o New(s, held) \in Lists
           /\ ToSet(held \o New(s, held)) = ToSet(held) \cup ToSet(s)
<1> DEFINE at == NotHeld(s, held)
           Pick(k) == CHOOSE n \in at : Cardinality(at \cap 1..n) = k
           new == New(s, held)
<1>1. Len(s) \in Nat /\ DOMAIN s = 1..Len(s) /\ at \in SUBSET (1..Len(s))
  BY DEF NotHeld
<1>2. IsFiniteSet(at) /\ Cardinality(at) \in Nat
  <2>1. IsFiniteSet(1..Len(s))
    BY <1>1, FS_Interval
  <2>2. IsFiniteSet(at)
    BY <1>1, <2>1, FS_Subset
  <2> QED
    BY <2>2, FS_CardinalityType
<1>3. \A k \in 1..Cardinality(at) : Pick(k) \in at /\ Cardinality(at \cap 1..Pick(k)) = k
  BY <1>1, KthElement
<1>4. new = [k \in 1..Cardinality(at) |-> s[Pick(k)]]
  BY DEF New
<1>5. \A n \in at : s[n] \in Token /\ s[n] \notin ToSet(held) /\ n \in DOMAIN s
  BY <1>1 DEF NotHeld
<1>6. \A m, n \in at : s[m] = s[n] => m = n
  BY <1>1 DEF NotHeld
<1> HIDE DEF at, Pick, new
<1>7. new \in Seq(Token) /\ DOMAIN new = 1..Cardinality(at)
  <2>1. \A k \in 1..Cardinality(at) : s[Pick(k)] \in Token
    BY <1>3, <1>5
  <2> QED
    BY <1>2, <1>4, <2>1
<1>8. \A k \in DOMAIN new : new[k] = s[Pick(k)] /\ Pick(k) \in at /\ Cardinality(at \cap 1..Pick(k)) = k
  BY <1>3, <1>4, <1>7
<1>9. IsInjective(new)
  <2> SUFFICES ASSUME NEW k \in DOMAIN new, NEW l \in DOMAIN new, new[k] = new[l] PROVE k = l
    BY DEF IsInjective
  <2>1. Pick(k) \in at /\ Pick(l) \in at /\ s[Pick(k)] = s[Pick(l)]
    BY <1>8
  <2>2. Pick(k) = Pick(l)
    BY <1>6, <2>1
  <2> QED
    BY <1>8, <2>2
<1>10. new \in Lists
  BY <1>7, <1>9 DEF Lists
<1>11. ToSet(new) \subseteq ToSet(s) /\ ToSet(held) \cap ToSet(new) = {}
  <2>1. \A k \in DOMAIN new : new[k] \in ToSet(s) /\ new[k] \notin ToSet(held)
    BY <1>5, <1>8 DEF ToSet
  <2> QED
    BY <2>1 DEF ToSet
<1>12. ASSUME NEW m \in at, NEW n \in at, Cardinality(at \cap 1..m) = Cardinality(at \cap 1..n)
       PROVE  m = n
  <2>1. ASSUME NEW k \in at, NEW l \in at, k < l
        PROVE  Cardinality(at \cap 1..k) # Cardinality(at \cap 1..l)
    <3>1. k \in Nat /\ l \in Nat /\ k >= 1 /\ l >= 1
      BY <1>1
    <3>2. IsFiniteSet(at \cap 1..l) /\ IsFiniteSet(at \cap 1..k)
      BY <1>2, FS_Intersection
    <3>3. at \cap 1..k \subseteq at \cap 1..l /\ l \in at \cap 1..l /\ l \notin at \cap 1..k
      BY <2>1, <3>1
    <3>4. at \cap 1..k # at \cap 1..l
      BY <3>3
    <3> QED
      BY <3>2, <3>3, <3>4, FS_Subset
  <2>2. m \in Nat /\ n \in Nat
    BY <1>1
  <2> QED
    BY <1>12, <2>1, <2>2
<1>13. ASSUME NEW n \in at PROVE s[n] \in ToSet(new)
  <2> DEFINE k == Cardinality(at \cap 1..n)
  <2>1. IsFiniteSet(at \cap 1..n) /\ k \in Nat
    BY <1>2, FS_Intersection, FS_CardinalityType
  <2>2. k <= Cardinality(at)
    BY <1>2, FS_Subset
  <2>3. k # 0
    <3>1. n \in at \cap 1..n
      BY <1>1
    <3> QED
      BY <2>1, <3>1, FS_EmptySet
  <2>4. k \in 1..Cardinality(at)
    BY <1>2, <2>1, <2>2, <2>3
  <2>5. Pick(k) = n
    BY <1>3, <1>12, <2>4
  <2> QED
    BY <1>7, <1>8, <2>4, <2>5 DEF ToSet
<1>14. ToSet(s) \subseteq ToSet(held) \cup ToSet(new)
  <2> SUFFICES ASSUME NEW i \in DOMAIN s, s[i] \notin ToSet(held) PROVE s[i] \in ToSet(new)
    BY DEF ToSet
  <2> DEFINE T == {n \in DOMAIN s : s[n] = s[i]}
  <2>1. T \in SUBSET Nat /\ T # {}
    BY <1>1
  <2>2. PICK n \in T : \A m \in T : n <= m
    BY <2>1, LeastElement
  <2>3. n \in DOMAIN s /\ s[n] = s[i] /\ \A m \in 1..(n - 1) : s[m] # s[n]
    BY <1>1, <2>2
  <2>4. n \in at
    BY <2>3 DEF at, NotHeld
  <2> QED
    BY <1>13, <2>3, <2>4
<1> QED
  BY <1>10, <1>11, <1>14, JoinList DEF new

----------------------------------------------------------------------------
(* Records.                                                                 *)

LEMMA CallShape ==
    ASSUME NEW x \in Call
    PROVE  /\ x.pc = "idle" => x = Idle
           /\ x.pc \in {"idle", "hydrate", "persist", "landed", "resync", "resynced"}
           /\ x.pc # "idle" => x.on \in Instance /\ x.op \in {"add", "spend", "count", "clear"}
           /\ x.pc # "idle" /\ x.op = "add" =>
                 /\ x.batch \in Batch /\ x.pc \in {"hydrate", "persist", "landed"}
                 /\ x \in [pc : {"hydrate", "persist", "landed"}, on : Instance, op : {"add"}, batch : Batch]
           /\ x.op = "spend" /\ x.pc \in {"persist", "landed"} =>
                 /\ x.got \in Lists
                 /\ x \in [pc : {"persist", "landed"}, op : {"spend"}, on : Instance, got : Lists]
           /\ x.op = "spend" /\ x.pc \in {"hydrate", "resync", "resynced"} =>
                 /\ x.n \in Need
                 /\ x \in [pc : {"hydrate", "resync", "resynced"}, on : Instance, op : {"spend"}, n : Need]
           /\ x.pc # "idle" /\ x.op = "count" =>
                 x \in [pc : {"hydrate", "resync"}, on : Instance, op : {"count"}]
           /\ x.pc # "idle" /\ x.op = "clear" =>
                 x \in [pc : {"hydrate", "persist", "landed"}, on : Instance, op : {"clear"}]
<1>1. CASE x = Idle
  BY <1>1 DEF Idle
<1>2. CASE x \in [pc : {"hydrate", "persist", "landed"}, on : Instance, op : {"add"}, batch : Batch]
  BY <1>2
<1>3. CASE x \in [pc : {"hydrate", "resync", "resynced"}, on : Instance, op : {"spend"}, n : Need]
  BY <1>3
<1>4. CASE x \in [pc : {"persist", "landed"}, op : {"spend"}, on : Instance, got : Lists]
  BY <1>4
<1>5. CASE x \in [pc : {"hydrate", "resync"}, on : Instance, op : {"count"}]
  BY <1>5
<1>6. CASE x \in [pc : {"hydrate", "persist", "landed"}, on : Instance, op : {"clear"}]
  BY <1>6
<1> QED
  BY <1>1, <1>2, <1>3, <1>4, <1>5, <1>6 DEF Call

\* A call moves on.
LEMMA SetPc ==
    ASSUME NEW x \in Call, NEW p,
           \/ x.pc # "idle" /\ x.op = "add" /\ p \in {"persist", "landed"}
           \/ x.pc # "idle" /\ x.op = "clear" /\ p \in {"persist", "landed"}
           \/ x.pc = "hydrate" /\ x.op = "spend" /\ p = "resync"
           \/ x.pc = "hydrate" /\ x.op = "count" /\ p = "resync"
           \/ x.pc = "resync" /\ x.op = "spend" /\ p = "resynced"
           \/ x.pc \in {"persist", "landed"} /\ x.op = "spend" /\ p = "landed"
    PROVE  LET y == [x EXCEPT !.pc = p] IN
           /\ y \in Call /\ y.pc = p /\ y.op = x.op /\ y.on = x.on
           /\ y.op = "add" => y.batch = x.batch
           /\ y.op = "spend" /\ p = "landed" => y.got = x.got
<1>1. CASE x.pc # "idle" /\ x.op = "add" /\ p \in {"persist", "landed"}
  <2>1. x \in [pc : {"hydrate", "persist", "landed"}, on : Instance, op : {"add"}, batch : Batch]
    BY <1>1, CallShape
  <2> QED
    BY <1>1, <2>1 DEF Call
<1>2. CASE x.pc # "idle" /\ x.op = "clear" /\ p \in {"persist", "landed"}
  <2>1. x \in [pc : {"hydrate", "persist", "landed"}, on : Instance, op : {"clear"}]
    BY <1>2, CallShape
  <2> QED
    BY <1>2, <2>1 DEF Call
<1>3. CASE \/ x.pc = "hydrate" /\ x.op = "spend" /\ p = "resync"
           \/ x.pc = "resync" /\ x.op = "spend" /\ p = "resynced"
  <2>1. x \in [pc : {"hydrate", "resync", "resynced"}, on : Instance, op : {"spend"}, n : Need]
    BY <1>3, CallShape
  <2> QED
    BY <1>3, <2>1 DEF Call
<1>4. CASE x.pc = "hydrate" /\ x.op = "count" /\ p = "resync"
  <2>1. x \in [pc : {"hydrate", "resync"}, on : Instance, op : {"count"}]
    BY <1>4, CallShape
  <2> QED
    BY <1>4, <2>1 DEF Call
<1>5. CASE x.pc \in {"persist", "landed"} /\ x.op = "spend" /\ p = "landed"
  <2>1. x \in [pc : {"persist", "landed"}, op : {"spend"}, on : Instance, got : Lists]
    BY <1>5, CallShape
  <2> QED
    BY <1>5, <2>1 DEF Call
<1> QED
  BY <1>1, <1>2, <1>3, <1>4, <1>5

LEMMA TaskShape ==
    ASSUME NEW x \in Task
    PROVE  /\ x.kind \in {"write", "resync", "remove", "reconcile"}
           /\ x.kind # "reconcile" => x.by \in Caller
           /\ x.kind = "write" => x.snapshot \in Lists
<1>1. CASE x \in [kind : {"write"}, by : Caller, snapshot : Lists]
  BY <1>1
<1>2. CASE x \in [kind : {"resync", "remove"}, by : Caller]
  BY <1>2
<1>3. CASE x \in [kind : {"reconcile"}]
  BY <1>3
<1> QED
  BY <1>1, <1>2, <1>3 DEF Task

LEMMA NewTask ==
    /\ \A c \in Caller, s \in Lists :
          /\ WriteTask(c, s) \in Task
          /\ WriteTask(c, s).kind = "write" /\ WriteTask(c, s).by = c /\ WriteTask(c, s).snapshot = s
    /\ \A c \in Caller, k \in {"resync", "remove"} : [kind |-> k, by |-> c] \in Task
    /\ [kind |-> "reconcile"] \in Task
  BY DEF Task, WriteTask

LEMMA StoreShape ==
    ASSUME NEW i \in Instance, wallet \in [Instance -> Store]
    PROVE  /\ wallet[i] \in Store
           /\ wallet[i].held \in Lists /\ wallet[i].hydrated \in {"no", "loading", "yes"}
           /\ wallet[i].key \in Key \cup {NoKey} /\ wallet[i].chain \in Seq(Task)
           /\ wallet[i].reading # NotReading => wallet[i].reading[1] \in Lists
                                                /\ Head(wallet[i].reading) = wallet[i].reading[1]
           /\ wallet[i].unread \subseteq Token
<1>1. wallet[i] \in Store
  OBVIOUS
<1>2. \A s : <<s>>[1] = s /\ Head(<<s>>) = s
  OBVIOUS
<1>3. wallet[i].reading \in {NotReading} \cup {<<s>> : s \in Lists}
  BY <1>1 DEF Store
<1>4. wallet[i].reading # NotReading => \E s \in Lists : wallet[i].reading = <<s>>
  BY <1>3
<1> QED
  BY <1>1, <1>2, <1>4 DEF Store

LEMMA ChainShape ==
    ASSUME NEW s \in Seq(Task)
    PROVE  /\ Len(s) \in Nat /\ DOMAIN s = 1..Len(s) /\ \A n \in DOMAIN s : s[n] \in Task
           /\ \A x \in Task : /\ Append(s, x) \in Seq(Task) /\ DOMAIN Append(s, x) = 1..(Len(s) + 1)
                              /\ \A n \in DOMAIN s : n \in DOMAIN Append(s, x) /\ Append(s, x)[n] = s[n]
                              /\ Append(s, x)[Len(s) + 1] = x
           /\ s # <<>> => /\ 1 \in DOMAIN s /\ Head(s) = s[1] /\ Tail(s) \in Seq(Task)
                          /\ DOMAIN Tail(s) = 1..(Len(s) - 1)
                          /\ \A n \in DOMAIN Tail(s) : n \in Nat /\ n >= 1 /\ n + 1 \in DOMAIN s /\ Tail(s)[n] = s[n + 1]
                          /\ \A n \in DOMAIN s : n # 1 => n - 1 \in DOMAIN Tail(s)
<1>1. Len(s) \in Nat /\ DOMAIN s = 1..Len(s) /\ \A n \in DOMAIN s : s[n] \in Task
  OBVIOUS
<1>2. ASSUME NEW x \in Task
      PROVE  /\ Append(s, x) \in Seq(Task) /\ DOMAIN Append(s, x) = 1..(Len(s) + 1)
             /\ \A n \in DOMAIN s : n \in DOMAIN Append(s, x) /\ Append(s, x)[n] = s[n]
             /\ Append(s, x)[Len(s) + 1] = x
  BY <1>1
<1>3. ASSUME s # <<>>
      PROVE  /\ 1 \in DOMAIN s /\ Head(s) = s[1] /\ Tail(s) \in Seq(Task)
             /\ DOMAIN Tail(s) = 1..(Len(s) - 1)
             /\ \A n \in DOMAIN Tail(s) : n \in Nat /\ n >= 1 /\ n + 1 \in DOMAIN s /\ Tail(s)[n] = s[n + 1]
             /\ \A n \in DOMAIN s : n # 1 => n - 1 \in DOMAIN Tail(s)
  BY <1>1, <1>3
<1> QED
  BY <1>1, <1>2, <1>3

----------------------------------------------------------------------------
(* What the steps do to the task chain.                                     *)

\* The chain stays; calls that do not wait for it move.
LEMMA ChainStays ==
    ASSUME Typed, ChainInv, NEW i \in Instance, Instance = {i},
           wallet'[i].chain = wallet[i].chain,
           \A c \in Caller : \/ call'[c] = call[c]
                             \/ /\ call[c].pc \notin {"persist", "resync"}
                                /\ call'[c].pc \notin {"persist", "resync"},
           Quiet(i)'
    PROVE  ChainInv'
<1>1. WritesFirst(i) /\ Awaited(i) /\ wallet[i].chain \in Seq(Task)
  BY StoreShape DEF ChainInv, Typed
<1>2. \A n \in DOMAIN wallet[i].chain : /\ wallet[i].chain[n] \in Task
                                        /\ Asked(i, n) => wallet[i].chain[n].by \in Caller
  BY <1>1, ChainShape, TaskShape DEF Asked
<1>3. WritesFirst(i)'
  BY <1>1 DEF WritesFirst
<1>4. Awaited(i)'
  <2>1. ASSUME NEW n \in DOMAIN wallet[i].chain, Asked(i, n)
        PROVE  call'[wallet[i].chain[n].by] = call[wallet[i].chain[n].by]
    <3>1. call[wallet[i].chain[n].by].pc \in {"persist", "resync"}
      BY <1>1, <1>2, <2>1, TaskShape DEF Awaited, Asked
    <3> QED
      BY <1>2, <2>1, <3>1
  <2>2. \A n \in DOMAIN wallet'[i].chain :
          LET task == wallet'[i].chain[n] IN
          /\ task.kind = "write" => call'[task.by].pc = "persist" /\ call'[task.by].op \in {"add", "spend"}
          /\ task.kind = "remove" => call'[task.by].pc = "persist" /\ call'[task.by].op = "clear"
          /\ task.kind = "resync" => call'[task.by].pc = "resync"
    BY <1>1, <2>1 DEF Awaited, Asked
  <2>3. \A m, n \in DOMAIN wallet'[i].chain :
          Asked(i, m)' /\ Asked(i, n)' /\ m # n => wallet'[i].chain[m].by # wallet'[i].chain[n].by
    BY <1>1 DEF Awaited, Asked
  <2>4. \A c \in Caller : call'[c].pc \in {"persist", "resync"} =>
          \E n \in DOMAIN wallet'[i].chain : Asked(i, n)' /\ wallet'[i].chain[n].by = c
    BY <1>1 DEF Awaited, Asked
  <2> QED
    BY <2>2, <2>3, <2>4 DEF Awaited
<1> QED
  BY <1>3, <1>4 DEF ChainInv

\* A call that may change the list queues its task behind writes.
LEMMA ChainGrows ==
    ASSUME Typed, ChainInv, NEW i \in Instance, Instance = {i}, NEW c \in Caller, NEW task \in Task,
           \A n \in DOMAIN wallet[i].chain : wallet[i].chain[n].kind = "write",
           wallet[i].hydrated = "yes", wallet'[i].hydrated = "yes",
           wallet'[i].reading = wallet[i].reading,
           wallet'[i].chain = Append(wallet[i].chain, task),
           task.kind # "reconcile", task.by = c,
           \A d \in Caller \ {c} : call'[d] = call[d],
           call[c].pc \notin {"persist", "resync"},
           /\ task.kind = "write" => call'[c].pc = "persist" /\ call'[c].op \in {"add", "spend"}
           /\ task.kind = "remove" => call'[c].pc = "persist" /\ call'[c].op = "clear"
           /\ task.kind = "resync" => call'[c].pc = "resync"
    PROVE  ChainInv' /\ wallet[i].reading = NotReading
<1> DEFINE ch == wallet[i].chain
           L == Len(ch) + 1
<1>1. WritesFirst(i) /\ Awaited(i) /\ Quiet(i) /\ ch \in Seq(Task)
  BY StoreShape DEF ChainInv, Typed
<1>2. /\ Len(ch) \in Nat /\ DOMAIN ch = 1..Len(ch)
      /\ \A n \in DOMAIN ch : ch[n] \in Task /\ ch[n].by \in Caller /\ ch[n].kind = "write" /\ Asked(i, n)
  BY <1>1, ChainShape, TaskShape DEF Asked
<1>3. /\ DOMAIN wallet'[i].chain = 1..L /\ wallet'[i].chain[L] = task
      /\ \A n \in DOMAIN ch : n \in DOMAIN wallet'[i].chain /\ wallet'[i].chain[n] = ch[n] /\ n < L
      /\ \A n \in DOMAIN wallet'[i].chain : n = L \/ n \in DOMAIN ch
  BY <1>1, <1>2, ChainShape
<1>4. wallet[i].reading = NotReading
  <2>1. ch # <<>> => 1 \in DOMAIN ch
    BY <1>1, ChainShape
  <2> QED
    BY <1>1, <2>1 DEF Quiet
<1> HIDE DEF ch, L
<1>5. WritesFirst(i)'
  <2> SUFFICES ASSUME NEW m \in DOMAIN wallet'[i].chain, NEW n \in DOMAIN wallet'[i].chain,
                      m < n, wallet'[i].chain[m].kind # "write"
               PROVE  wallet'[i].chain[n].kind = "reconcile"
    BY DEF WritesFirst
  <2>1. m \notin DOMAIN ch
    BY <1>2, <1>3
  <2>2. m = L /\ n \in Int /\ L \in Int /\ n <= L
    BY <1>2, <1>3, <2>1 DEF L
  <2> QED
    BY <2>2
<1>6. \A n \in DOMAIN ch : ch[n].by # c /\ call'[ch[n].by] = call[ch[n].by]
  BY <1>1, <1>2 DEF Awaited, ch
<1>7. Awaited(i)'
  <2>1. \A n \in DOMAIN wallet'[i].chain :
          LET t == wallet'[i].chain[n] IN
          /\ t.kind = "write" => call'[t.by].pc = "persist" /\ call'[t.by].op \in {"add", "spend"}
          /\ t.kind = "remove" => call'[t.by].pc = "persist" /\ call'[t.by].op = "clear"
          /\ t.kind = "resync" => call'[t.by].pc = "resync"
    <3> SUFFICES ASSUME NEW n \in DOMAIN wallet'[i].chain
                 PROVE  LET t == wallet'[i].chain[n] IN
                        /\ t.kind = "write" => call'[t.by].pc = "persist" /\ call'[t.by].op \in {"add", "spend"}
                        /\ t.kind = "remove" => call'[t.by].pc = "persist" /\ call'[t.by].op = "clear"
                        /\ t.kind = "resync" => call'[t.by].pc = "resync"
      OBVIOUS
    <3>1. CASE n = L
      BY <1>3, <3>1
    <3>2. CASE n \in DOMAIN ch
      BY <1>1, <1>2, <1>3, <1>6, <3>2 DEF Awaited, ch
    <3> QED
      BY <1>3, <3>1, <3>2
  <2>2. \A m, n \in DOMAIN wallet'[i].chain :
          Asked(i, m)' /\ Asked(i, n)' /\ m # n => wallet'[i].chain[m].by # wallet'[i].chain[n].by
    <3>1. \A m, n \in DOMAIN ch : m # n => ch[m].by # ch[n].by
      BY <1>1, <1>2 DEF Awaited, ch
    <3>2. ASSUME NEW m \in DOMAIN wallet'[i].chain, NEW n \in DOMAIN wallet'[i].chain, m # n
          PROVE  wallet'[i].chain[m].by # wallet'[i].chain[n].by
      <4>1. CASE m \in DOMAIN ch /\ n \in DOMAIN ch
        BY <1>3, <3>1, <3>2, <4>1
      <4>2. CASE m = L /\ n \in DOMAIN ch
        BY <1>3, <1>6, <4>2
      <4>3. CASE m \in DOMAIN ch /\ n = L
        BY <1>3, <1>6, <4>3
      <4> QED
        BY <1>3, <3>2, <4>1, <4>2, <4>3
    <3> QED
      BY <3>2
  <2>3. \A d \in Caller : call'[d].pc \in {"persist", "resync"} =>
          \E n \in DOMAIN wallet'[i].chain : Asked(i, n)' /\ wallet'[i].chain[n].by = d
    <3> SUFFICES ASSUME NEW d \in Caller, call'[d].pc \in {"persist", "resync"}
                 PROVE  \E n \in DOMAIN wallet'[i].chain : Asked(i, n)' /\ wallet'[i].chain[n].by = d
      OBVIOUS
    <3>1. CASE d = c
      <4>1. L \in DOMAIN wallet'[i].chain
        BY <1>2, <1>3 DEF L
      <4> QED
        BY <1>3, <3>1, <4>1 DEF Asked
    <3>2. CASE d # c
      <4>1. PICK n \in DOMAIN ch : Asked(i, n) /\ ch[n].by = d
        BY <1>1, <3>2 DEF Awaited, ch
      <4> QED
        BY <1>3, <4>1 DEF Asked, ch
    <3> QED
      BY <3>1, <3>2
  <2> QED
    BY <2>1, <2>2, <2>3 DEF Awaited
<1>8. Quiet(i)'
  BY <1>4 DEF Quiet
<1> QED
  BY <1>4, <1>5, <1>7, <1>8 DEF ChainInv

\* A task is over, and whoever waited for it goes on.
LEMMA ChainShrinks ==
    ASSUME Typed, ChainInv, NEW i \in Instance, Instance = {i}, wallet[i].chain # <<>>,
           wallet'[i].chain = Tail(wallet[i].chain),
           wallet'[i].hydrated = wallet[i].hydrated \/ wallet[i].chain[1].kind = "remove",
           wallet'[i].reading = NotReading,
           \A d \in Caller : \/ call'[d] = call[d] /\ ~(Asked(i, 1) /\ wallet[i].chain[1].by = d)
                             \/ /\ Asked(i, 1) /\ wallet[i].chain[1].by = d
                                /\ call'[d].pc \notin {"persist", "resync"}
    PROVE  ChainInv'
<1> DEFINE ch == wallet[i].chain
           new == wallet'[i].chain
<1>1. WritesFirst(i) /\ Awaited(i) /\ Quiet(i) /\ ch \in Seq(Task)
  BY StoreShape DEF ChainInv, Typed
<1>2. /\ \A n \in DOMAIN ch : ch[n] \in Task /\ (Asked(i, n) => ch[n].by \in Caller) /\ n \in Nat
      /\ 1 \in DOMAIN ch
  BY <1>1, ChainShape, TaskShape DEF Asked
<1>3. /\ \A n \in DOMAIN new : n \in Nat /\ n >= 1 /\ n + 1 \in DOMAIN ch /\ new[n] = ch[n + 1]
      /\ \A n \in DOMAIN ch : n # 1 => n - 1 \in DOMAIN new /\ new[n - 1] = ch[n]
  <2>1. \A n \in DOMAIN new : n \in Nat /\ n >= 1 /\ n + 1 \in DOMAIN ch /\ new[n] = ch[n + 1]
    BY <1>1, ChainShape
  <2>2. \A n \in DOMAIN ch : n # 1 => n - 1 \in DOMAIN new
    BY <1>1, ChainShape
  <2>3. \A n \in DOMAIN ch : n # 1 => new[n - 1] = ch[n]
    BY <1>2, <2>1, <2>2
  <2> QED
    BY <2>1, <2>2, <2>3
<1>4. WritesFirst(i) /\ \A m, n \in DOMAIN ch : m < n /\ ch[m].kind # "write" => ch[n].kind = "reconcile"
  BY <1>1 DEF WritesFirst
<1>5. \A m, n \in DOMAIN ch : Asked(i, m) /\ Asked(i, n) /\ m # n => ch[m].by # ch[n].by
  BY <1>1 DEF Awaited
<1>6. \A n \in DOMAIN ch : n # 1 /\ Asked(i, n) => call'[ch[n].by] = call[ch[n].by]
  BY <1>2, <1>5
<1>7. \A n \in DOMAIN new : Asked(i, n)' <=> Asked(i, n + 1)
  BY <1>3 DEF Asked
<1> HIDE DEF ch, new
<1>8. WritesFirst(i)'
  <2> SUFFICES ASSUME NEW m \in DOMAIN new, NEW n \in DOMAIN new, m < n, new[m].kind # "write"
               PROVE  new[n].kind = "reconcile"
    BY DEF WritesFirst, new
  <2>1. m + 1 < n + 1
    BY <1>3
  <2> QED
    BY <1>3, <1>4, <2>1
<1>9. Awaited(i)'
  <2>1. \A n \in DOMAIN new :
          LET t == new[n] IN
          /\ t.kind = "write" => call'[t.by].pc = "persist" /\ call'[t.by].op \in {"add", "spend"}
          /\ t.kind = "remove" => call'[t.by].pc = "persist" /\ call'[t.by].op = "clear"
          /\ t.kind = "resync" => call'[t.by].pc = "resync"
    <3> SUFFICES ASSUME NEW n \in DOMAIN new
                 PROVE  LET t == new[n] IN
                        /\ t.kind = "write" => call'[t.by].pc = "persist" /\ call'[t.by].op \in {"add", "spend"}
                        /\ t.kind = "remove" => call'[t.by].pc = "persist" /\ call'[t.by].op = "clear"
                        /\ t.kind = "resync" => call'[t.by].pc = "resync"
      OBVIOUS
    <3>1. n + 1 \in DOMAIN ch /\ n + 1 # 1 /\ new[n] = ch[n + 1]
      BY <1>3
    <3>2. new[n].kind # "reconcile" => call'[new[n].by] = call[new[n].by]
      BY <1>6, <3>1 DEF Asked, ch
    <3> QED
      BY <1>1, <3>1, <3>2 DEF Awaited, ch
  <2>2. ASSUME NEW m \in DOMAIN new, NEW n \in DOMAIN new, Asked(i, m)', Asked(i, n)', m # n
        PROVE  new[m].by # new[n].by
    <3>1. m + 1 # n + 1 /\ m + 1 \in DOMAIN ch /\ n + 1 \in DOMAIN ch
      BY <1>3, <2>2
    <3> QED
      BY <1>3, <1>5, <1>7, <2>2, <3>1
  <2>3. ASSUME NEW d \in Caller, call'[d].pc \in {"persist", "resync"}
        PROVE  \E n \in DOMAIN new : Asked(i, n)' /\ new[n].by = d
    <3>1. call'[d] = call[d] /\ ~(Asked(i, 1) /\ ch[1].by = d)
      BY <2>3 DEF ch
    <3>2. PICK n \in DOMAIN ch : Asked(i, n) /\ ch[n].by = d
      BY <1>1, <2>3, <3>1 DEF Awaited, ch
    <3>3. n # 1
      BY <3>1, <3>2
    <3>4. n - 1 \in DOMAIN new /\ new[n - 1] = ch[n]
      BY <1>3, <3>3
    <3>5. Asked(i, n - 1)'
      BY <3>2, <3>4 DEF Asked, ch, new
    <3> QED
      BY <3>2, <3>4, <3>5
  <2> QED
    BY <2>1, <2>2, <2>3 DEF Awaited, new
<1>10. Quiet(i)'
  <2>1. CASE wallet'[i].hydrated = wallet[i].hydrated
    <3>1. wallet[i].hydrated # "yes" => \A n \in DOMAIN ch : ch[n].kind = "reconcile"
      BY <1>1 DEF Quiet, ch
    <3> QED
      BY <1>3, <2>1, <3>1 DEF Quiet, new
  <2>2. CASE ch[1].kind = "remove"
    <3>1. \A n \in DOMAIN new : new[n].kind = "reconcile"
      <4> SUFFICES ASSUME NEW n \in DOMAIN new PROVE new[n].kind = "reconcile"
        OBVIOUS
      <4>1. n + 1 \in DOMAIN ch /\ 1 < n + 1 /\ new[n] = ch[n + 1]
        BY <1>3
      <4> QED
        BY <1>2, <1>4, <2>2, <4>1
    <3> QED
      BY <3>1 DEF Quiet, new
  <2> QED
    BY <2>1, <2>2 DEF ch
<1> QED
  BY <1>8, <1>9, <1>10 DEF ChainInv

\* A change of the key queues a reconciliation behind everything.
LEMMA ChainQueues ==
    ASSUME Typed, ChainInv, NEW i \in Instance, Instance = {i}, NEW task \in Task,
           wallet[i].hydrated = "yes", wallet'[i].hydrated = "yes",
           wallet'[i].reading = wallet[i].reading,
           wallet'[i].chain = Append(wallet[i].chain, task),
           task.kind = "reconcile", call' = call
    PROVE  ChainInv'
<1> DEFINE ch == wallet[i].chain
           L == Len(ch) + 1
<1>1. WritesFirst(i) /\ Awaited(i) /\ Quiet(i) /\ ch \in Seq(Task)
  BY StoreShape DEF ChainInv, Typed
<1>2. Len(ch) \in Nat /\ DOMAIN ch = 1..Len(ch) /\ \A n \in DOMAIN ch : n \in Nat
  BY <1>1, ChainShape
<1>3. /\ DOMAIN wallet'[i].chain = 1..L /\ wallet'[i].chain[L] = task
      /\ \A n \in DOMAIN ch : n \in DOMAIN wallet'[i].chain /\ wallet'[i].chain[n] = ch[n] /\ n < L
      /\ \A n \in DOMAIN wallet'[i].chain : n = L \/ n \in DOMAIN ch
  BY <1>1, <1>2, ChainShape
<1>4. \A n \in DOMAIN wallet'[i].chain : Asked(i, n)' => n \in DOMAIN ch /\ Asked(i, n)
  BY <1>3 DEF Asked
<1>5. \A n \in DOMAIN ch : Asked(i, n) => Asked(i, n)'
  BY <1>3 DEF Asked
<1>6. wallet[i].reading # NotReading => 1 \in DOMAIN ch
  BY <1>1, ChainShape DEF Quiet
<1> HIDE DEF ch, L
<1>7. WritesFirst(i)'
  <2> SUFFICES ASSUME NEW m \in DOMAIN wallet'[i].chain, NEW n \in DOMAIN wallet'[i].chain,
                      m < n, wallet'[i].chain[m].kind # "write"
               PROVE  wallet'[i].chain[n].kind = "reconcile"
    BY DEF WritesFirst
  <2>1. CASE n = L
    BY <1>3, <2>1
  <2>2. CASE n \in DOMAIN ch
    <3>1. m \in DOMAIN ch
      BY <1>2, <1>3, <2>2 DEF L
    <3> QED
      BY <1>1, <1>3, <2>2, <3>1 DEF WritesFirst, ch
  <2> QED
    BY <1>3, <2>1, <2>2
<1>8. Awaited(i)'
  <2>1. \A n \in DOMAIN wallet'[i].chain :
          LET t == wallet'[i].chain[n] IN
          /\ t.kind = "write" => call'[t.by].pc = "persist" /\ call'[t.by].op \in {"add", "spend"}
          /\ t.kind = "remove" => call'[t.by].pc = "persist" /\ call'[t.by].op = "clear"
          /\ t.kind = "resync" => call'[t.by].pc = "resync"
    BY <1>1, <1>3 DEF Awaited, ch
  <2>2. \A m, n \in DOMAIN wallet'[i].chain :
          Asked(i, m)' /\ Asked(i, n)' /\ m # n => wallet'[i].chain[m].by # wallet'[i].chain[n].by
    BY <1>1, <1>3, <1>4 DEF Awaited, ch
  <2>3. \A d \in Caller : call'[d].pc \in {"persist", "resync"} =>
          \E n \in DOMAIN wallet'[i].chain : Asked(i, n)' /\ wallet'[i].chain[n].by = d
    <3> SUFFICES ASSUME NEW d \in Caller, call'[d].pc \in {"persist", "resync"}
                 PROVE  \E n \in DOMAIN wallet'[i].chain : Asked(i, n)' /\ wallet'[i].chain[n].by = d
      OBVIOUS
    <3>1. PICK n \in DOMAIN ch : Asked(i, n) /\ ch[n].by = d
      BY <1>1 DEF Awaited, ch
    <3> QED
      BY <1>3, <1>5, <3>1
  <2> QED
    BY <2>1, <2>2, <2>3 DEF Awaited
<1>9. Quiet(i)'
  <2>1. wallet'[i].reading # NotReading => wallet'[i].chain # <<>> /\ wallet'[i].chain[1] = ch[1]
    BY <1>3, <1>6
  <2> QED
    BY <1>1, <2>1 DEF Quiet, ch
<1> QED
  BY <1>7, <1>8, <1>9 DEF ChainInv

----------------------------------------------------------------------------
(* Where tokens are after a step.                                           *)

\* The chain after a step: as it was, one task shorter, or one task longer.
Steps(i, task) ==
    \/ wallet'[i].chain = wallet[i].chain
    \/ wallet[i].chain # <<>> /\ wallet'[i].chain = Tail(wallet[i].chain)
    \/ wallet'[i].chain = Append(wallet[i].chain, task)

\* Where the n-th task of the new chain was in the old one; none for the task just queued.
LEMMA TaskOrigin ==
    ASSUME Typed, NEW i \in Instance, NEW task \in Task, Steps(i, task)
    PROVE  \E k \in 0..1 : \A n \in DOMAIN wallet'[i].chain :
              /\ n \in Nat
              /\ \/ n + k \in DOMAIN wallet[i].chain /\ wallet'[i].chain[n] = wallet[i].chain[n + k]
                 \/ wallet'[i].chain[n] = task /\ \A m \in DOMAIN wallet'[i].chain : m <= n
<1> DEFINE ch == wallet[i].chain
<1>1. ch \in Seq(Task) /\ Len(ch) \in Nat /\ DOMAIN ch = 1..Len(ch)
  BY StoreShape, ChainShape DEF Typed
<1>2. CASE wallet'[i].chain = ch
  <2>1. \A n \in DOMAIN wallet'[i].chain :
              n \in Nat /\ n + 0 \in DOMAIN ch /\ wallet'[i].chain[n] = ch[n + 0]
    BY <1>1, <1>2
  <2> QED
    BY <2>1
<1>3. CASE ch # <<>> /\ wallet'[i].chain = Tail(ch)
  <2>1. \A n \in DOMAIN wallet'[i].chain :
              n \in Nat /\ n + 1 \in DOMAIN ch /\ wallet'[i].chain[n] = ch[n + 1]
    BY <1>1, <1>3, ChainShape
  <2> QED
    BY <2>1
<1>4. CASE wallet'[i].chain = Append(ch, task)
  <2>1. \A n \in DOMAIN wallet'[i].chain :
              /\ n \in Nat
              /\ \/ n + 0 \in DOMAIN ch /\ wallet'[i].chain[n] = ch[n + 0]
                 \/ wallet'[i].chain[n] = task /\ \A m \in DOMAIN wallet'[i].chain : m <= n
    <3>1. /\ DOMAIN wallet'[i].chain = 1..(Len(ch) + 1) /\ wallet'[i].chain[Len(ch) + 1] = task
          /\ \A n \in DOMAIN ch : wallet'[i].chain[n] = ch[n]
      BY <1>1, <1>4, ChainShape
    <3> HIDE DEF ch
    <3> SUFFICES ASSUME NEW n \in DOMAIN wallet'[i].chain
                 PROVE  /\ n \in Nat
                        /\ \/ n + 0 \in DOMAIN ch /\ wallet'[i].chain[n] = ch[n + 0]
                           \/ wallet'[i].chain[n] = task /\ \A m \in DOMAIN wallet'[i].chain : m <= n
      OBVIOUS
    <3>2. CASE n = Len(ch) + 1
      BY <1>1, <3>1, <3>2
    <3>3. CASE n # Len(ch) + 1
      BY <1>1, <3>1, <3>3
    <3> QED
      BY <3>2, <3>3
  <2> QED
    BY <2>1
<1> QED
  BY <1>2, <1>3, <1>4 DEF Steps

\* A token no snapshot holds is gone when a step puts it nowhere.
LEMMA StaysGone ==
    ASSUME Typed, NEW i \in Instance, Instance = {i}, NEW task \in Task, Steps(i, task),
           NEW t, \A m \in Unwritten(i, 1) : t \notin ToSet(wallet[i].chain[m].snapshot),
           t \notin ToSet(disk'), t \notin ToSet(wallet'[i].held),
           wallet'[i].reading # NotReading => t \notin ToSet(wallet'[i].reading[1]),
           task.kind = "write" => t \notin ToSet(task.snapshot)
    PROVE  Gone(t)'
<1>1. PICK k \in 0..1 : \A n \in DOMAIN wallet'[i].chain :
              /\ n \in Nat
              /\ \/ n + k \in DOMAIN wallet[i].chain /\ wallet'[i].chain[n] = wallet[i].chain[n + k]
                 \/ wallet'[i].chain[n] = task /\ \A m \in DOMAIN wallet'[i].chain : m <= n
  BY TaskOrigin
<1>2. ASSUME NEW m \in Unwritten(i, 1)' PROVE t \notin ToSet(wallet'[i].chain[m].snapshot)
  <2>1. m \in DOMAIN wallet'[i].chain /\ m >= 1 /\ wallet'[i].chain[m].kind = "write"
    BY DEF Unwritten
  <2>2. CASE m + k \in DOMAIN wallet[i].chain /\ wallet'[i].chain[m] = wallet[i].chain[m + k]
    <3>1. m + k >= 1
      BY <1>1, <2>1
    <3>2. m + k \in Unwritten(i, 1)
      BY <2>1, <2>2, <3>1 DEF Unwritten
    <3> QED
      BY <2>2, <3>2
  <2>3. CASE wallet'[i].chain[m] = task
    BY <2>1, <2>3
  <2> QED
    BY <1>1, <2>1, <2>2, <2>3
<1> QED
  BY <1>2 DEF Gone

\* A spend that waits for its write stays parted.
LEMMA StaysParted ==
    ASSUME Typed, NEW i \in Instance, NEW task \in Task, Steps(i, task), NEW c \in Caller,
           Parted(c, i), call'[c] = call[c], Got(c) \cap ToSet(wallet'[i].held) = {},
           task.kind = "write" => Got(c) \cap ToSet(task.snapshot) = {},
           task.kind # "reconcile" => task.by # c
    PROVE  Parted(c, i)'
<1>1. PICK k \in 0..1 : \A n \in DOMAIN wallet'[i].chain :
              /\ n \in Nat
              /\ \/ n + k \in DOMAIN wallet[i].chain /\ wallet'[i].chain[n] = wallet[i].chain[n + k]
                 \/ wallet'[i].chain[n] = task /\ \A m \in DOMAIN wallet'[i].chain : m <= n
  BY TaskOrigin
<1>2. Got(c)' = Got(c)
  BY DEF Got
<1>3. ASSUME NEW n \in DOMAIN wallet'[i].chain, Asked(i, n)', wallet'[i].chain[n].by = c,
             NEW m \in Unwritten(i, n)'
      PROVE  Got(c) \cap ToSet(wallet'[i].chain[m].snapshot) = {}
  <2>1. m \in DOMAIN wallet'[i].chain /\ m >= n /\ wallet'[i].chain[m].kind = "write"
    BY DEF Unwritten
  <2>2. wallet'[i].chain[n] # task
    BY <1>3 DEF Asked
  <2>3. n + k \in DOMAIN wallet[i].chain /\ wallet'[i].chain[n] = wallet[i].chain[n + k] /\ Asked(i, n + k)
    BY <1>1, <1>3, <2>2 DEF Asked
  <2>4. CASE m + k \in DOMAIN wallet[i].chain /\ wallet'[i].chain[m] = wallet[i].chain[m + k]
    <3>1. m + k >= n + k
      BY <1>1, <2>1
    <3>2. m + k \in Unwritten(i, n + k)
      BY <2>1, <2>4, <3>1 DEF Unwritten
    <3> QED
      BY <1>3, <2>3, <2>4, <3>2 DEF Parted
  <2>5. CASE wallet'[i].chain[m] = task
    BY <2>1, <2>5
  <2> QED
    BY <1>1, <2>1, <2>4, <2>5
<1> QED
  BY <1>2, <1>3 DEF Parted

\* The calls that spend wait on, or are gone, and nothing is handed out or given to add().
LEMMA OnceStep ==
    ASSUME SpendInv, BirthInv, NEW i \in Instance, Instance = {i},
           returned' = returned, attempted' = attempted,
           \A t : Gone(t) => Gone(t)',
           \A c \in Caller : Spending(c)' => call'[c] = call[c],
           \A c \in Caller : Spending(c) /\ call[c].pc = "persist" /\ call'[c] = call[c] => Parted(c, i)',
           \A c \in Caller, b \in Batch : Adding(c, b)' => call'[c] = call[c]
    PROVE  SpendInv' /\ BirthInv'
<1>1. \A c \in Caller : Spending(c)' => Spending(c) /\ Got(c)' = Got(c) /\ call'[c] = call[c]
  BY DEF Spending, Got
<1>2. \A c \in Caller, b \in Batch : Adding(c, b)' => Adding(c, b)
  BY DEF Adding
<1>3. SpendInv'
  <2>1. \A t \in Token : returned'[t] # 0 => Gone(t)'
    BY DEF SpendInv
  <2>2. \A c \in Caller : Spending(c)' => \A t \in Got(c)' : returned'[t] = 0
    BY <1>1 DEF SpendInv
  <2>3. \A c \in Caller : Spending(c)' /\ call'[c].pc = "landed" => \A t \in Got(c)' : Gone(t)'
    BY <1>1 DEF SpendInv
  <2>4. \A c \in Caller : Spending(c)' /\ call'[c].pc = "persist" => Parted(c, i)'
    BY <1>1
  <2>5. \A c, d \in Caller : Spending(c)' /\ Spending(d)' /\ c # d => Got(c)' \cap Got(d)' = {}
    BY <1>1 DEF SpendInv
  <2> QED
    BY <2>1, <2>2, <2>3, <2>4, <2>5 DEF SpendInv
<1>4. \A b \in Batch : Unborn(b)' => Unborn(b)
  BY <1>2 DEF Unborn
<1>5. BirthInv'
  BY <1>1, <1>2, <1>4 DEF BirthInv
<1> QED
  BY <1>3, <1>5

\* The same, from where the step puts tokens.
LEMMA NothingSpreads ==
    ASSUME Typed, SpendInv, BirthInv, NEW i \in Instance, Instance = {i},
           returned' = returned, attempted' = attempted,
           NEW task \in Task, task.kind # "write", Steps(i, task),
           \A t : Gone(t) => /\ t \notin ToSet(disk') /\ t \notin ToSet(wallet'[i].held)
                             /\ wallet'[i].reading # NotReading => t \notin ToSet(wallet'[i].reading[1]),
           \A c \in Caller : Spending(c)' => call'[c] = call[c],
           \A c \in Caller : Spending(c) /\ call[c].pc = "persist" /\ call'[c] = call[c] =>
              /\ Got(c) \cap ToSet(wallet'[i].held) = {}
              /\ task.kind # "reconcile" => task.by # c,
           \A c \in Caller, b \in Batch : Adding(c, b)' => call'[c] = call[c]
    PROVE  SpendInv' /\ BirthInv'
<1>1. \A t : Gone(t) => Gone(t)'
  <2> SUFFICES ASSUME NEW t, Gone(t) PROVE Gone(t)'
    OBVIOUS
  <2>1. \A m \in Unwritten(i, 1) : t \notin ToSet(wallet[i].chain[m].snapshot)
    BY DEF Gone
  <2> QED
    BY <2>1, StaysGone
<1>2. ASSUME NEW c \in Caller, Spending(c) /\ call[c].pc = "persist" /\ call'[c] = call[c]
      PROVE  Parted(c, i)'
  <2>1. Parted(c, i)
    BY <1>2 DEF SpendInv
  <2> QED
    BY <1>2, <2>1, StaysParted
<1> QED
  BY <1>1, <1>2, OnceStep

\* While no write is pending, no spend waits for one.
LEMMA NoneWaits ==
    ASSUME Typed, ChainInv, NEW i \in Instance,
           \A n \in DOMAIN wallet[i].chain : wallet[i].chain[n].kind # "write"
    PROVE  \A c \in Caller : ~(Spending(c) /\ call[c].pc = "persist")
<1> SUFFICES ASSUME NEW c \in Caller, Spending(c), call[c].pc = "persist" PROVE FALSE
  OBVIOUS
<1>1. Awaited(i) /\ wallet[i].chain \in Seq(Task)
  BY StoreShape DEF ChainInv, Typed
<1>2. PICK n \in DOMAIN wallet[i].chain : Asked(i, n) /\ wallet[i].chain[n].by = c
  BY <1>1 DEF Awaited
<1>3. wallet[i].chain[n].kind \in {"resync", "remove"}
  BY <1>1, <1>2, ChainShape, TaskShape DEF Asked
<1> QED
  BY <1>1, <1>2, <1>3 DEF Awaited, Spending

\* A pending read, or a re-read, a wipe or a reconciliation at the head, means no write is pending.
LEMMA NoWrites ==
    ASSUME Typed, ChainInv, NEW i \in Instance,
           \/ wallet[i].hydrated # "yes" \/ wallet[i].reading # NotReading
           \/ wallet[i].chain # <<>> /\ wallet[i].chain[1].kind # "write"
    PROVE  \A n \in DOMAIN wallet[i].chain : wallet[i].chain[n].kind # "write"
<1>1. WritesFirst(i) /\ Quiet(i) /\ wallet[i].chain \in Seq(Task)
  BY StoreShape DEF ChainInv, Typed
<1>2. CASE wallet[i].hydrated # "yes"
  BY <1>1, <1>2 DEF Quiet
<1>3. CASE wallet[i].chain # <<>> /\ wallet[i].chain[1].kind # "write"
  <2>1. 1 \in DOMAIN wallet[i].chain /\ \A n \in DOMAIN wallet[i].chain : n \in Nat /\ n >= 1
    BY <1>1, <1>3, ChainShape
  <2>2. \A n \in DOMAIN wallet[i].chain : n # 1 => 1 < n
    BY <2>1
  <2> QED
    BY <1>1, <1>3, <2>1, <2>2 DEF WritesFirst
<1> QED
  BY <1>1, <1>2, <1>3 DEF Quiet

----------------------------------------------------------------------------
(* What the steps assign.                                                   *)

LEMMA OneInstance ==
    ASSUME Single, NEW i \in Instance
    PROVE  Instance = {i}
  BY DEF Single

LEMMA EnqueueFacts ==
    ASSUME wallet \in [Instance -> Store], NEW i \in Instance, NEW held \in Lists, NEW task \in Task,
           Enqueue(i, held, task)
    PROVE  /\ wallet' \in [Instance -> Store]
           /\ wallet'[i].held = held /\ wallet'[i].chain = Append(wallet[i].chain, task)
           /\ wallet'[i].hydrated = wallet[i].hydrated /\ wallet'[i].reading = wallet[i].reading
           /\ wallet'[i].key = wallet[i].key /\ wallet'[i].unread = wallet[i].unread
<1>1. wallet[i] \in Store /\ wallet[i].chain \in Seq(Task)
  BY StoreShape
<1>2. Append(wallet[i].chain, task) \in Seq(Task)
  BY <1>1, ChainShape
<1> QED
  BY <1>1, <1>2 DEF Enqueue, Store

\* What stays of an instance, field by field.
SameList(i) == wallet'[i].held = wallet[i].held
SameTasks(i) == wallet'[i].chain = wallet[i].chain
SameState(i) == wallet'[i].hydrated = wallet[i].hydrated
SameRead(i) == wallet'[i].reading = wallet[i].reading
SameUnread(i) == wallet'[i].unread = wallet[i].unread

LEMMA LoadFacts ==
    ASSUME Typed, NEW i \in Instance, HydrateLoad(i) \/ HydrateFails(i)
    PROVE  /\ wallet' \in [Instance -> Store] /\ SameTasks(i) /\ SameRead(i)
           /\ wallet'[i].hydrated \in {"loading", "yes"} /\ wallet[i].hydrated = "no"
           /\ wallet'[i].held \in {disk, wallet[i].held}
           /\ HydrateLoad(i) => /\ wallet'[i].hydrated = "loading" /\ SameUnread(i)
                                /\ wallet'[i].held = IF disk = <<>> THEN wallet[i].held ELSE disk
           /\ HydrateFails(i) => /\ wallet'[i].hydrated = "yes" /\ SameList(i)
                                 /\ wallet'[i].unread = ToSet(disk)
           /\ UNCHANGED <<disk, stamp, call, hist>>
<1>1. wallet[i] \in Store /\ wallet \in [Instance -> Store] /\ disk \in Lists /\ ToSet(disk) \subseteq Token
  BY StoreShape, ListFacts DEF Typed
<1>2. ASSUME HydrateLoad(i)
      PROVE  /\ wallet' \in [Instance -> Store] /\ SameTasks(i) /\ SameRead(i) /\ SameUnread(i)
             /\ wallet'[i].hydrated = "loading" /\ wallet[i].hydrated = "no"
             /\ wallet'[i].held = IF disk = <<>> THEN wallet[i].held ELSE disk
  BY <1>1, <1>2 DEF HydrateLoad, Store, SameTasks, SameRead, SameUnread
<1>3. ASSUME HydrateFails(i)
      PROVE  /\ wallet' \in [Instance -> Store] /\ SameTasks(i) /\ SameRead(i) /\ SameList(i)
             /\ wallet'[i].hydrated = "yes" /\ wallet[i].hydrated = "no"
             /\ wallet'[i].unread = ToSet(disk)
  BY <1>1, <1>3 DEF HydrateFails, Store, SameTasks, SameRead, SameList
<1>4. UNCHANGED <<disk, stamp, call, hist>>
  BY DEF HydrateLoad, HydrateFails
<1> QED
  BY <1>2, <1>3, <1>4 DEF SameList

\* What dropping the list may do to the histories.
Lost(i) ==
    /\ discarded \subseteq discarded' /\ forgotten \subseteq forgotten'
    /\ wallet[i].held # <<>> => ToSet(disk) \cup ToSet(wallet[i].held) \subseteq discarded' \cup forgotten'

LEMMA DropFacts ==
    ASSUME Typed, NEW i \in Instance, Drop(i)
    PROVE  /\ disk' = (IF wallet[i].held = <<>> THEN disk ELSE <<>>) /\ Lost(i)
           /\ ~Kept(i) => forgotten' = forgotten
<1> DEFINE lost == IF wallet[i].held = <<>> THEN {} ELSE ToSet(disk) \cup ToSet(wallet[i].held)
<1>1. /\ disk' = (IF wallet[i].held = <<>> THEN disk ELSE <<>>)
      /\ discarded' = (IF Kept(i) THEN discarded ELSE discarded \cup lost)
      /\ forgotten' = (IF Kept(i) THEN forgotten \cup lost ELSE forgotten)
  BY DEF Drop
<1>2. wallet[i].held # <<>> => lost = ToSet(disk) \cup ToSet(wallet[i].held)
  OBVIOUS
<1> HIDE DEF lost
<1> QED
  BY <1>1, <1>2 DEF Lost

\* Whether the list is kept or dropped, or the reconciliation throws.
LEMMA ReconcileFacts ==
    ASSUME Typed, NEW i \in Instance
    PROVE  /\ \A kept \in BOOLEAN : Reconcile(i, kept) =>
                 /\ disk' \in Lists /\ stamp' \in Key \cup {NoKey}
                 /\ disk' = disk \/ (disk' = <<>> /\ Lost(i))
                 /\ kept => UNCHANGED <<disk, stamp, discarded, forgotten>> /\ Kept(i)
                 /\ ~kept => /\ disk' = (IF wallet[i].held = <<>> THEN disk ELSE <<>>) /\ Lost(i)
                             /\ stamp' = wallet[i].key
                             /\ ~StorageFails => ~Kept(i) /\ forgotten' = forgotten
           /\ ReconcileThrows(i) =>
                 /\ disk' \in Lists /\ stamp' = stamp /\ StorageFails
                 /\ \/ UNCHANGED <<disk, discarded, forgotten>>
                    \/ disk' = (IF wallet[i].held = <<>> THEN disk ELSE <<>>) /\ Lost(i)
<1>1. disk \in Lists /\ <<>> \in Lists /\ wallet[i].key \in Key \cup {NoKey} /\ stamp \in Key \cup {NoKey}
  BY StoreShape, ListFacts DEF Typed
<1>2. ASSUME NEW kept \in BOOLEAN, Reconcile(i, kept), kept
      PROVE  UNCHANGED <<disk, stamp, discarded, forgotten>> /\ Kept(i)
  BY <1>2 DEF Reconcile
<1>3. ASSUME NEW kept \in BOOLEAN, Reconcile(i, kept), ~kept
      PROVE  /\ disk' = (IF wallet[i].held = <<>> THEN disk ELSE <<>>) /\ Lost(i)
             /\ stamp' = wallet[i].key
             /\ ~StorageFails => ~Kept(i) /\ forgotten' = forgotten
  <2>1. Drop(i) /\ stamp' = wallet[i].key /\ (~Kept(i) \/ Mistaken(i))
    BY <1>3 DEF Reconcile
  <2> QED
    BY <2>1, DropFacts DEF Mistaken
<1>4. ASSUME ReconcileThrows(i)
      PROVE  /\ stamp' = stamp /\ StorageFails
             /\ \/ UNCHANGED <<disk, discarded, forgotten>>
                \/ disk' = (IF wallet[i].held = <<>> THEN disk ELSE <<>>) /\ Lost(i)
  <2>1. /\ stamp' = stamp /\ StorageFails
        /\ UNCHANGED <<disk, discarded, forgotten>> \/ Drop(i)
    BY <1>4 DEF ReconcileThrows
  <2> QED
    BY <2>1, DropFacts
<1> QED
  BY <1>1, <1>2, <1>3, <1>4

LEMMA HydrateFacts ==
    ASSUME Typed, NEW i \in Instance, HydrateReconcile(i) \/ HydrateThrows(i)
    PROVE  /\ wallet' \in [Instance -> Store] /\ SameTasks(i) /\ SameRead(i) /\ SameUnread(i)
           /\ wallet'[i].hydrated = "yes" /\ wallet[i].hydrated = "loading"
           /\ wallet'[i].held \in {wallet[i].held, <<>>}
           /\ UNCHANGED <<call, attempted, deposited, taken, returned, binds, crashes>>
           /\ HydrateThrows(i) => ReconcileThrows(i) /\ SameList(i)
           /\ HydrateReconcile(i) =>
                 \E kept \in BOOLEAN : /\ Reconcile(i, kept)
                                       /\ wallet'[i].held = IF kept THEN wallet[i].held ELSE <<>>
<1>1. wallet[i] \in Store /\ wallet \in [Instance -> Store] /\ <<>> \in Lists
  BY StoreShape, ListFacts DEF Typed
<1>2. ASSUME NEW list \in {wallet[i].held, <<>>},
             wallet' = [wallet EXCEPT ![i].hydrated = "yes", ![i].held = list]
      PROVE  /\ wallet' \in [Instance -> Store] /\ SameTasks(i) /\ SameRead(i) /\ SameUnread(i)
             /\ wallet'[i].hydrated = "yes" /\ wallet'[i].held = list
  <2>1. list \in Lists
    BY <1>1, <1>2, StoreShape
  <2> QED
    BY <1>1, <1>2, <2>1 DEF Store, SameTasks, SameRead, SameUnread
<1>3. ASSUME HydrateReconcile(i)
      PROVE  /\ wallet' \in [Instance -> Store] /\ SameTasks(i) /\ SameRead(i) /\ SameUnread(i)
             /\ wallet'[i].hydrated = "yes" /\ wallet'[i].held \in {wallet[i].held, <<>>}
             /\ \E kept \in BOOLEAN : /\ Reconcile(i, kept)
                                      /\ wallet'[i].held = IF kept THEN wallet[i].held ELSE <<>>
  <2>1. PICK kept \in BOOLEAN :
          /\ Reconcile(i, kept)
          /\ wallet' = [wallet EXCEPT ![i].hydrated = "yes", ![i].held = IF kept THEN @ ELSE <<>>]
    BY <1>3 DEF HydrateReconcile
  <2> DEFINE list == IF kept THEN wallet[i].held ELSE <<>>
  <2>2. list \in {wallet[i].held, <<>>}
    OBVIOUS
  <2>3. wallet' = [wallet EXCEPT ![i].hydrated = "yes", ![i].held = list]
    BY <1>1, <2>1 DEF Store
  <2> HIDE DEF list
  <2>4. /\ wallet' \in [Instance -> Store] /\ SameTasks(i) /\ SameRead(i) /\ SameUnread(i)
        /\ wallet'[i].hydrated = "yes" /\ wallet'[i].held = list
    BY <1>2, <2>2, <2>3
  <2> QED
    BY <2>1, <2>4 DEF list
<1>4. ASSUME HydrateThrows(i)
      PROVE  /\ wallet' \in [Instance -> Store] /\ SameTasks(i) /\ SameRead(i) /\ SameUnread(i)
             /\ wallet'[i].hydrated = "yes" /\ SameList(i) /\ ReconcileThrows(i)
  BY <1>1, <1>4 DEF HydrateThrows, Store, SameTasks, SameRead, SameUnread, SameList
<1>5. /\ wallet[i].hydrated = "loading"
      /\ UNCHANGED <<call, attempted, deposited, taken, returned, binds, crashes>>
  BY DEF HydrateReconcile, HydrateThrows
<1> QED
  BY <1>3, <1>4, <1>5 DEF SameList

LEMMA BindFacts ==
    ASSUME Typed, NEW i \in Instance, NEW k \in Key, SetKeyFingerprint(i, k)
    PROVE  /\ wallet' \in [Instance -> Store] /\ SameList(i) /\ SameState(i) /\ SameRead(i)
           /\ SameUnread(i)
           /\ wallet'[i].chain = IF wallet[i].hydrated = "yes"
                                 THEN Append(wallet[i].chain, [kind |-> "reconcile"])
                                 ELSE wallet[i].chain
<1>1. wallet[i] \in Store /\ wallet \in [Instance -> Store] /\ wallet[i].chain \in Seq(Task)
  BY StoreShape DEF Typed
<1>2. Append(wallet[i].chain, [kind |-> "reconcile"]) \in Seq(Task)
  BY <1>1, ChainShape, NewTask
<1> QED
  BY <1>1, <1>2 DEF SetKeyFingerprint, Store, SameList, SameState, SameRead, SameUnread

\* A task that has run leaves the chain, whatever came of it.
Lands(i) == WriteLands(i) \/ WriteHalfLands(i)
Breaks(i) == TaskFails(i) \/ RemoveFails(i) \/ ReconcileFails(i)

LEMMA TaskOverFacts ==
    ASSUME Typed, NEW i \in Instance, wallet[i].chain # <<>>
    PROVE  /\ Lands(i) \/ Breaks(i) =>
                /\ wallet' \in [Instance -> Store] /\ SameList(i) /\ SameState(i) /\ SameRead(i)
                /\ SameUnread(i) /\ wallet'[i].chain = Tail(wallet[i].chain)
           /\ RemoveLands(i) =>
                /\ wallet' \in [Instance -> Store] /\ SameList(i) /\ SameRead(i)
                /\ wallet'[i].hydrated = "no" /\ wallet'[i].unread = {}
                /\ wallet'[i].chain = Tail(wallet[i].chain)
           /\ Adopt(i) =>
                /\ wallet' \in [Instance -> Store] /\ SameState(i)
                /\ wallet'[i].held = wallet[i].reading[1] /\ wallet'[i].reading = NotReading
                /\ wallet'[i].unread = (IF Running(i, "resync") THEN {} ELSE wallet[i].unread)
                /\ wallet'[i].chain = Tail(wallet[i].chain)
<1>1. wallet[i] \in Store /\ wallet \in [Instance -> Store] /\ wallet[i].chain \in Seq(Task)
  BY StoreShape DEF Typed
<1>2. Tail(wallet[i].chain) \in Seq(Task)
  BY <1>1, ChainShape
<1>3. ASSUME Lands(i) \/ Breaks(i)
      PROVE  /\ wallet' \in [Instance -> Store] /\ SameList(i) /\ SameState(i) /\ SameRead(i)
             /\ SameUnread(i) /\ wallet'[i].chain = Tail(wallet[i].chain)
  <2>1. wallet' = [wallet EXCEPT ![i].chain = Tail(wallet[i].chain)]
    <3>1. CASE Lands(i)
      BY <3>1 DEF Lands, WriteLands, WriteHalfLands, StoreList, ChainAfter
    <3>2. CASE Breaks(i)
      BY <3>2 DEF Breaks, TaskFails, RemoveFails, ReconcileFails, ChainAfter
    <3> QED
      BY <1>3, <3>1, <3>2
  <2> DEFINE rest == Tail(wallet[i].chain)
  <2>2. rest \in Seq(Task) /\ wallet' = [wallet EXCEPT ![i].chain = rest]
    BY <1>2, <2>1
  <2> HIDE DEF rest
  <2>3. /\ wallet' \in [Instance -> Store] /\ SameList(i) /\ SameState(i) /\ SameRead(i)
        /\ SameUnread(i) /\ wallet'[i].chain = rest
    BY <1>1, <2>2 DEF Store, SameList, SameState, SameRead, SameUnread
  <2> QED
    BY <2>3 DEF rest
<1>5. ASSUME RemoveLands(i)
      PROVE  /\ wallet' \in [Instance -> Store] /\ SameList(i) /\ SameRead(i)
             /\ wallet'[i].hydrated = "no" /\ wallet'[i].unread = {}
             /\ wallet'[i].chain = Tail(wallet[i].chain)
  <2>1. wallet' = [wallet EXCEPT ![i].chain = Tail(wallet[i].chain), ![i].hydrated = "no",
                                 ![i].unread = {}]
    BY <1>5 DEF RemoveLands, ChainAfter
  <2> QED
    BY <1>1, <1>2, <2>1 DEF Store, SameList, SameRead
<1>4. ASSUME Adopt(i)
      PROVE  /\ wallet' \in [Instance -> Store] /\ SameState(i)
             /\ wallet'[i].held = wallet[i].reading[1] /\ wallet'[i].reading = NotReading
             /\ wallet'[i].unread = (IF Running(i, "resync") THEN {} ELSE wallet[i].unread)
             /\ wallet'[i].chain = Tail(wallet[i].chain)
  <2>1. Head(wallet[i].reading) \in Lists /\ Head(wallet[i].reading) = wallet[i].reading[1]
    BY <1>1, <1>4, StoreShape DEF Adopt
  <2> DEFINE left == IF Running(i, "resync") THEN {} ELSE wallet[i].unread
  <2>2. left \in SUBSET Token
    BY <1>1, StoreShape
  <2>3. wallet' = [wallet EXCEPT ![i].held = Head(wallet[i].reading), ![i].reading = NotReading,
                                 ![i].chain = Tail(wallet[i].chain), ![i].unread = left]
    BY <1>1, <1>4 DEF Adopt, ChainAfter, Store
  <2> HIDE DEF left
  <2>4. /\ wallet' \in [Instance -> Store] /\ SameState(i)
        /\ wallet'[i].held = wallet[i].reading[1] /\ wallet'[i].reading = NotReading
        /\ wallet'[i].unread = left /\ wallet'[i].chain = Tail(wallet[i].chain)
    BY <1>1, <1>2, <2>1, <2>2, <2>3 DEF Store, SameState
  <2> QED
    BY <2>4 DEF left
<1> QED
  BY <1>3, <1>4, <1>5

LEMMA ReadFacts ==
    ASSUME Typed, NEW i \in Instance
    PROVE  /\ ResyncRead(i) =>
                /\ wallet' \in [Instance -> Store] /\ SameList(i) /\ SameState(i) /\ SameTasks(i)
                /\ SameUnread(i)
                /\ wallet'[i].reading # NotReading /\ wallet'[i].reading[1] = disk
           /\ ReconcileRun(i) =>
                /\ wallet' \in [Instance -> Store] /\ SameList(i) /\ SameState(i) /\ SameTasks(i)
                /\ SameUnread(i)
                /\ wallet'[i].reading # NotReading
                /\ \E kept \in BOOLEAN :
                      /\ Reconcile(i, kept)
                      /\ wallet'[i].reading[1] = IF kept THEN wallet[i].held ELSE <<>>
<1>1. wallet[i] \in Store /\ wallet \in [Instance -> Store] /\ <<>> \in Lists /\ disk \in Lists
      /\ wallet[i].held \in Lists
  BY StoreShape, ListFacts DEF Typed
<1>2. \A s \in Lists : <<s>> \in {NotReading} \cup {<<r>> : r \in Lists} /\ <<s>> # NotReading /\ <<s>>[1] = s
  BY DEF NotReading
<1>3. ASSUME NEW s \in Lists, wallet' = [wallet EXCEPT ![i].reading = <<s>>]
      PROVE  /\ wallet' \in [Instance -> Store] /\ SameList(i) /\ SameState(i) /\ SameTasks(i)
             /\ SameUnread(i)
             /\ wallet'[i].reading # NotReading /\ wallet'[i].reading[1] = s
  BY <1>1, <1>2, <1>3 DEF Store, SameList, SameState, SameTasks, SameUnread
<1>4. ASSUME ReconcileRun(i)
      PROVE  /\ wallet' \in [Instance -> Store] /\ SameList(i) /\ SameState(i) /\ SameTasks(i)
             /\ SameUnread(i)
             /\ wallet'[i].reading # NotReading
             /\ \E kept \in BOOLEAN :
                   /\ Reconcile(i, kept)
                   /\ wallet'[i].reading[1] = IF kept THEN wallet[i].held ELSE <<>>
  <2>1. PICK kept \in BOOLEAN :
          /\ Reconcile(i, kept)
          /\ wallet' = [wallet EXCEPT ![i].reading = <<IF kept THEN wallet[i].held ELSE <<>>>>]
    BY <1>4 DEF ReconcileRun
  <2> DEFINE list == IF kept THEN wallet[i].held ELSE <<>>
  <2>2. list \in Lists /\ wallet' = [wallet EXCEPT ![i].reading = <<list>>]
    BY <1>1, <2>1
  <2> HIDE DEF list
  <2>3. /\ wallet' \in [Instance -> Store] /\ SameList(i) /\ SameState(i) /\ SameTasks(i)
        /\ SameUnread(i)
        /\ wallet'[i].reading # NotReading /\ wallet'[i].reading[1] = list
    BY <1>3, <2>2
  <2> QED
    BY <2>1, <2>3 DEF list
<1> QED
  BY <1>1, <1>3, <1>4 DEF ResyncRead

----------------------------------------------------------------------------
(* The task steps.                                                          *)

Reconciliation == [kind |-> "reconcile"]

LEMMA ReconciliationFacts ==
    Reconciliation \in Task /\ Reconciliation.kind = "reconcile"
  BY NewTask DEF Reconciliation

LEMMA LoadKeeps ==
    ASSUME OnceInv, NEW i \in Instance, Instance = {i}, HydrateLoad(i) \/ HydrateFails(i)
    PROVE  OnceInv'
<1>1. /\ wallet' \in [Instance -> Store] /\ SameTasks(i) /\ SameRead(i)
      /\ wallet[i].hydrated = "no" /\ wallet'[i].held \in {disk, wallet[i].held}
  BY LoadFacts DEF OnceInv
<1>2. UNCHANGED <<disk, stamp, call, attempted, returned>>
  BY LoadFacts DEF OnceInv, hist
<1>3. Typed'
  BY <1>1, <1>2 DEF OnceInv, Typed
<1>4. ChainInv'
  <2>1. Quiet(i)'
    BY <1>1 DEF OnceInv, ChainInv, Quiet, SameTasks, SameRead
  <2> QED
    BY <1>1, <1>2, <2>1, ChainStays DEF OnceInv, SameTasks
<1>5. \A c \in Caller : ~(Spending(c) /\ call[c].pc = "persist")
  BY <1>1, NoWrites, NoneWaits DEF OnceInv
<1>6. SpendInv' /\ BirthInv'
  <2>1. Steps(i, Reconciliation)
    BY <1>1 DEF Steps, SameTasks
  <2>2. \A t : Gone(t) => /\ t \notin ToSet(disk') /\ t \notin ToSet(wallet'[i].held)
                          /\ wallet'[i].reading # NotReading => t \notin ToSet(wallet'[i].reading[1])
    BY <1>1, <1>2 DEF Gone, SameRead
  <2> QED
    BY <1>2, <1>5, <2>1, <2>2, ReconciliationFacts, NothingSpreads DEF OnceInv
<1> QED
  BY <1>3, <1>4, <1>6 DEF OnceInv

LEMMA HydrateKeeps ==
    ASSUME OnceInv, NEW i \in Instance, Instance = {i}, HydrateReconcile(i) \/ HydrateThrows(i)
    PROVE  OnceInv'
<1>1. /\ wallet' \in [Instance -> Store] /\ SameTasks(i) /\ SameRead(i)
      /\ wallet'[i].hydrated = "yes" /\ wallet[i].hydrated = "loading"
      /\ wallet'[i].held \in {wallet[i].held, <<>>}
      /\ UNCHANGED <<call, attempted, returned>>
      /\ ReconcileThrows(i) \/ \E kept \in BOOLEAN : Reconcile(i, kept)
  BY HydrateFacts DEF OnceInv
<1>2. disk' \in Lists /\ stamp' \in Key \cup {NoKey} /\ (disk' = disk \/ disk' = <<>>)
  BY <1>1, ReconcileFacts DEF OnceInv, Typed
<1>3. Typed'
  BY <1>1, <1>2 DEF OnceInv, Typed
<1>4. ChainInv'
  <2>1. Quiet(i)'
    BY <1>1 DEF OnceInv, ChainInv, Quiet, SameTasks, SameRead
  <2> QED
    BY <1>1, <1>2, <2>1, ChainStays DEF OnceInv, SameTasks
<1>5. \A c \in Caller : ~(Spending(c) /\ call[c].pc = "persist")
  BY <1>1, NoWrites, NoneWaits DEF OnceInv
<1>6. SpendInv' /\ BirthInv'
  <2>1. Steps(i, Reconciliation)
    BY <1>1 DEF Steps, SameTasks
  <2>2. \A t : Gone(t) => /\ t \notin ToSet(disk') /\ t \notin ToSet(wallet'[i].held)
                          /\ wallet'[i].reading # NotReading => t \notin ToSet(wallet'[i].reading[1])
    BY <1>1, <1>2, ListFacts DEF Gone, SameRead
  <2> QED
    BY <1>1, <1>5, <2>1, <2>2, ReconciliationFacts, NothingSpreads DEF OnceInv
<1> QED
  BY <1>3, <1>4, <1>6 DEF OnceInv

LEMMA BindKeeps ==
    ASSUME OnceInv, NEW i \in Instance, Instance = {i}, NEW k \in Key, SetKeyFingerprint(i, k)
    PROVE  OnceInv'
<1>1. /\ wallet' \in [Instance -> Store] /\ SameList(i) /\ SameState(i) /\ SameRead(i)
      /\ wallet'[i].chain = IF wallet[i].hydrated = "yes"
                            THEN Append(wallet[i].chain, Reconciliation) ELSE wallet[i].chain
  BY BindFacts DEF OnceInv, Reconciliation
<1>2. UNCHANGED <<disk, stamp, call, attempted, returned>>
  BY DEF SetKeyFingerprint
<1>3. Typed'
  BY <1>1, <1>2 DEF OnceInv, Typed
<1>4. ChainInv'
  <2>1. CASE wallet[i].hydrated = "yes"
    BY <1>1, <1>2, <2>1, ReconciliationFacts, ChainQueues DEF OnceInv, SameState, SameRead
  <2>2. CASE wallet[i].hydrated # "yes"
    <3>1. Quiet(i)'
      BY <1>1, <2>2 DEF OnceInv, ChainInv, Quiet, SameState, SameRead
    <3> QED
      BY <1>1, <1>2, <2>2, <3>1, ChainStays DEF OnceInv
  <2> QED
    BY <2>1, <2>2
<1>5. SpendInv' /\ BirthInv'
  <2>1. Steps(i, Reconciliation)
    BY <1>1 DEF Steps
  <2>2. \A t : Gone(t) => /\ t \notin ToSet(disk') /\ t \notin ToSet(wallet'[i].held)
                          /\ wallet'[i].reading # NotReading => t \notin ToSet(wallet'[i].reading[1])
    BY <1>1, <1>2 DEF Gone, SameRead, SameList
  <2>3. \A c \in Caller : Spending(c) /\ call[c].pc = "persist" =>
           Got(c) \cap ToSet(wallet'[i].held) = {}
    BY <1>1 DEF OnceInv, SpendInv, Parted, SameList
  <2> QED
    BY <1>2, <2>1, <2>2, <2>3, ReconciliationFacts, NothingSpreads DEF OnceInv
<1> QED
  BY <1>3, <1>4, <1>5 DEF OnceInv

LEMMA RemoveKeeps ==
    ASSUME OnceInv, NEW i \in Instance, Instance = {i}, RemoveLands(i)
    PROVE  OnceInv'
<1> DEFINE task == Head(wallet[i].chain)
           d == task.by
<1>1. wallet[i].chain # <<>> /\ wallet[i].chain \in Seq(Task) /\ task = wallet[i].chain[1]
      /\ task.kind = "remove" /\ d \in Caller /\ 1 \in DOMAIN wallet[i].chain
  BY StoreShape, ChainShape, TaskShape DEF RemoveLands, Running, OnceInv, Typed
<1>2. /\ wallet' \in [Instance -> Store] /\ SameList(i) /\ SameRead(i)
      /\ wallet'[i].hydrated = "no" /\ wallet'[i].chain = Tail(wallet[i].chain)
  BY <1>1, TaskOverFacts DEF OnceInv
<1>3. /\ disk' = <<>> /\ stamp' = NoKey /\ UNCHANGED <<attempted, returned>>
      /\ call' = [call EXCEPT ![d].pc = "landed"]
  BY DEF RemoveLands, Landed, hist
<1>4. call[d].pc = "persist" /\ call[d].op = "clear" /\ call[d] \in Call
  BY <1>1 DEF OnceInv, ChainInv, Awaited, Typed
<1>5. /\ call' \in [Caller -> Call] /\ call'[d].pc = "landed" /\ call'[d].op = "clear"
      /\ \A c \in Caller : c # d => call'[c] = call[c]
  BY <1>1, <1>3, <1>4, SetPc DEF OnceInv, Typed
<1> HIDE DEF task, d
<1>6. Typed'
  BY <1>2, <1>3, <1>5, ListFacts DEF OnceInv, Typed
<1>7. wallet[i].reading = NotReading
  BY <1>1 DEF OnceInv, ChainInv, Quiet
<1>8. ChainInv'
  <2>1. Asked(i, 1) /\ wallet[i].chain[1].by = d
    BY <1>1 DEF Asked, d
  <2>2. wallet[i].chain[1].kind = "remove"
    BY <1>1
  <2>3. wallet'[i].reading = NotReading
    BY <1>2, <1>7 DEF SameRead
  <2> QED
    BY <1>1, <1>2, <1>5, <2>1, <2>2, <2>3, ChainShrinks DEF OnceInv
<1>9. \A c \in Caller : ~(Spending(c) /\ call[c].pc = "persist")
  BY <1>1, NoWrites, NoneWaits DEF OnceInv
<1>10. SpendInv' /\ BirthInv'
  <2>1. Steps(i, Reconciliation)
    BY <1>1, <1>2 DEF Steps
  <2>2. \A t : Gone(t) => /\ t \notin ToSet(disk') /\ t \notin ToSet(wallet'[i].held)
                          /\ wallet'[i].reading # NotReading => t \notin ToSet(wallet'[i].reading[1])
    BY <1>2, <1>3, ListFacts DEF Gone, SameRead, SameList
  <2>3. \A c \in Caller : Spending(c)' => call'[c] = call[c]
    BY <1>5 DEF Spending
  <2>4. \A c \in Caller, b \in Batch : Adding(c, b)' => call'[c] = call[c]
    BY <1>5 DEF Adding
  <2> QED
    BY <1>3, <1>9, <2>1, <2>2, <2>3, <2>4, ReconciliationFacts, NothingSpreads DEF OnceInv
<1> QED
  BY <1>6, <1>8, <1>10 DEF OnceInv

LEMMA ReadKeeps ==
    ASSUME OnceInv, NEW i \in Instance, Instance = {i}, ResyncRead(i) \/ ReconcileRun(i)
    PROVE  OnceInv'
<1>1. /\ wallet' \in [Instance -> Store] /\ SameList(i) /\ SameState(i) /\ SameTasks(i)
      /\ wallet'[i].reading # NotReading
      /\ wallet'[i].reading[1] \in {disk, wallet[i].held, <<>>}
      /\ ReconcileRun(i) => \E kept \in BOOLEAN : Reconcile(i, kept)
  BY ReadFacts DEF OnceInv
<1>2. /\ disk' \in Lists /\ stamp' \in Key \cup {NoKey} /\ (disk' = disk \/ disk' = <<>>)
      /\ UNCHANGED <<call, attempted, returned>>
  <2>1. CASE ResyncRead(i)
    BY <2>1 DEF ResyncRead, OnceInv, Typed, hist
  <2>2. CASE ReconcileRun(i)
    <3>1. UNCHANGED <<call, attempted, returned>>
      BY <2>2 DEF ReconcileRun
    <3> QED
      BY <1>1, <2>2, <3>1, ReconcileFacts DEF OnceInv
  <2> QED
    BY <2>1, <2>2
<1>3. Typed'
  BY <1>1, <1>2 DEF OnceInv, Typed
<1>4. /\ wallet[i].chain \in Seq(Task) /\ wallet[i].chain # <<>>
      /\ wallet[i].chain[1].kind \in {"resync", "reconcile"}
  BY StoreShape, ChainShape DEF ResyncRead, ReconcileRun, Running, OnceInv, Typed
<1>5. ChainInv'
  <2>1. Quiet(i)'
    BY <1>1, <1>4 DEF OnceInv, ChainInv, Quiet, SameTasks, SameState
  <2> QED
    BY <1>1, <1>2, <2>1, ChainStays DEF OnceInv, SameTasks
<1>6. \A c \in Caller : ~(Spending(c) /\ call[c].pc = "persist")
  BY <1>4, NoWrites, NoneWaits DEF OnceInv
<1>7. SpendInv' /\ BirthInv'
  <2>1. Steps(i, Reconciliation)
    BY <1>1 DEF Steps, SameTasks
  <2>2. \A t : Gone(t) => /\ t \notin ToSet(disk') /\ t \notin ToSet(wallet'[i].held)
                          /\ wallet'[i].reading # NotReading => t \notin ToSet(wallet'[i].reading[1])
    <3>1. \A t : Gone(t) => t \notin ToSet(disk) /\ t \notin ToSet(wallet[i].held) /\ t \notin ToSet(<<>>)
      BY ListFacts DEF Gone
    <3> QED
      BY <1>1, <1>2, <3>1 DEF SameList
  <2> QED
    BY <1>2, <1>6, <2>1, <2>2, ReconciliationFacts, NothingSpreads DEF OnceInv
<1> QED
  BY <1>3, <1>5, <1>7 DEF OnceInv

LEMMA AdoptKeeps ==
    ASSUME OnceInv, NEW i \in Instance, Instance = {i}, Adopt(i)
    PROVE  OnceInv'
<1> DEFINE task == Head(wallet[i].chain)
           d == task.by
<1>1. /\ wallet[i].chain # <<>> /\ wallet[i].chain \in Seq(Task) /\ task = wallet[i].chain[1]
      /\ 1 \in DOMAIN wallet[i].chain /\ wallet[i].reading # NotReading
      /\ task.kind \in {"resync", "reconcile"} /\ wallet[i].reading[1] \in Lists
      /\ task.kind # "reconcile" => d \in Caller
  BY StoreShape, ChainShape, TaskShape DEF Adopt, OnceInv, ChainInv, Quiet, Typed
<1>2. /\ wallet' \in [Instance -> Store] /\ SameState(i)
      /\ wallet'[i].held = wallet[i].reading[1] /\ wallet'[i].reading = NotReading
      /\ wallet'[i].chain = Tail(wallet[i].chain)
  BY <1>1, TaskOverFacts DEF OnceInv
<1>3. UNCHANGED <<disk, stamp, attempted, returned>>
  BY DEF Adopt, hist
<1>4. /\ call' \in [Caller -> Call]
      /\ \A c \in Caller : \/ call'[c] = call[c] /\ ~(task.kind = "resync" /\ d = c)
                           \/ task.kind = "resync" /\ d = c /\ call'[c].pc \in {"idle", "resynced"}
  <2>1. CASE task.kind = "reconcile"
    BY <1>1, <2>1 DEF Adopt, Running, OnceInv, Typed
  <2>2. CASE task.kind = "resync"
    <3>1. /\ d \in Caller /\ call[d].pc = "resync" /\ call[d] \in Call
          /\ call' = IF call[d].op = "count" THEN [call EXCEPT ![d] = Idle]
                     ELSE [call EXCEPT ![d].pc = "resynced"]
      BY <1>1, <2>2 DEF Adopt, Running, OnceInv, ChainInv, Awaited, Typed
    <3> HIDE DEF d, task
    <3>2. call[d].op = "count" \/ call[d].op = "spend"
      BY <3>1, CallShape
    <3>3. CASE call[d].op = "count"
      BY <2>2, <3>1, <3>3 DEF OnceInv, Typed, Call, Idle
    <3>4. CASE call[d].op = "spend"
      <4>1. [call[d] EXCEPT !.pc = "resynced"] \in Call /\ [call[d] EXCEPT !.pc = "resynced"].pc = "resynced"
        BY <3>1, <3>4, SetPc
      <4> QED
        BY <2>2, <3>1, <3>4, <4>1 DEF OnceInv, Typed
    <3> QED
      BY <3>2, <3>3, <3>4
  <2> QED
    BY <1>1, <2>1, <2>2
<1> HIDE DEF task, d
<1>5. Typed'
  BY <1>1, <1>2, <1>3, <1>4 DEF OnceInv, Typed
<1>6. ChainInv'
  <2>1. Asked(i, 1) <=> task.kind = "resync"
    BY <1>1 DEF Asked
  <2>2. \A c \in Caller : \/ call'[c] = call[c] /\ ~(Asked(i, 1) /\ wallet[i].chain[1].by = c)
                          \/ /\ Asked(i, 1) /\ wallet[i].chain[1].by = c
                             /\ call'[c].pc \notin {"persist", "resync"}
    BY <1>1, <1>4, <2>1 DEF d
  <2> QED
    BY <1>1, <1>2, <2>2, ChainShrinks DEF OnceInv, SameState
<1>7. \A c \in Caller : ~(Spending(c) /\ call[c].pc = "persist")
  BY <1>1, NoWrites, NoneWaits DEF OnceInv
<1>8. SpendInv' /\ BirthInv'
  <2>1. Steps(i, Reconciliation)
    BY <1>1, <1>2 DEF Steps
  <2>2. \A t : Gone(t) => /\ t \notin ToSet(disk') /\ t \notin ToSet(wallet'[i].held)
                          /\ wallet'[i].reading # NotReading => t \notin ToSet(wallet'[i].reading[1])
    BY <1>1, <1>2, <1>3 DEF Gone
  <2>3. \A c \in Caller : Spending(c)' => call'[c] = call[c]
    BY <1>4 DEF Spending
  <2>4. \A c \in Caller, b \in Batch : Adding(c, b)' => call'[c] = call[c]
    BY <1>4 DEF Adding
  <2> QED
    BY <1>3, <1>7, <2>1, <2>2, <2>3, <2>4, ReconciliationFacts, NothingSpreads DEF OnceInv
<1> QED
  BY <1>5, <1>6, <1>8 DEF OnceInv

LEMMA FailureKeeps ==
    ASSUME OnceInv, NEW i \in Instance, Instance = {i}, Breaks(i)
    PROVE  OnceInv'
<1> DEFINE task == Head(wallet[i].chain)
           d == task.by
<1>1. /\ wallet[i].chain # <<>> /\ wallet[i].chain \in Seq(Task) /\ task = wallet[i].chain[1]
      /\ 1 \in DOMAIN wallet[i].chain /\ wallet[i].reading = NotReading
      /\ task.kind # "reconcile" => d \in Caller
      /\ ReconcileFails(i) <=> task.kind = "reconcile"
  <2>1. wallet[i].chain # <<>> /\ wallet[i].chain \in Seq(Task)
    BY StoreShape DEF Breaks, TaskFails, RemoveFails, ReconcileFails, Running, OnceInv, Typed
  <2>2. /\ task = wallet[i].chain[1] /\ 1 \in DOMAIN wallet[i].chain
        /\ task.kind # "reconcile" => d \in Caller
    BY <2>1, ChainShape, TaskShape
  <2>3. ReconcileFails(i) <=> task.kind = "reconcile"
    BY DEF Breaks, TaskFails, RemoveFails, ReconcileFails, Running
  <2>4. wallet[i].reading = NotReading
    BY <2>1, <2>2 DEF Breaks, TaskFails, RemoveFails, ReconcileFails, Running, OnceInv, ChainInv, Quiet
  <2> QED
    BY <2>1, <2>2, <2>3, <2>4
<1>2. /\ wallet' \in [Instance -> Store] /\ SameList(i) /\ SameState(i) /\ SameRead(i)
      /\ wallet'[i].chain = Tail(wallet[i].chain)
  BY <1>1, TaskOverFacts DEF OnceInv
<1>3. /\ disk' \in Lists /\ disk' \in {disk, <<>>} /\ UNCHANGED <<stamp, attempted, returned>>
      /\ task.kind = "reconcile" => call' = call
      /\ task.kind # "reconcile" =>
            call' = IF call[d].pc = "resync" /\ call[d].op = "spend"
                    THEN [call EXCEPT ![d].pc = "resynced"] ELSE [call EXCEPT ![d] = Idle]
  <2>1. CASE TaskFails(i)
    BY <1>1, <2>1 DEF TaskFails, Running, hist, OnceInv, Typed
  <2>2. CASE RemoveFails(i)
    <3>1. /\ disk' \in {disk, <<>>} /\ UNCHANGED <<stamp, attempted, returned>>
          /\ call' = [call EXCEPT ![d] = Idle] /\ task.kind = "remove"
      BY <2>2 DEF RemoveFails, Running, hist
    <3>2. call[d].pc = "persist"
      BY <1>1, <3>1 DEF OnceInv, ChainInv, Awaited
    <3> QED
      BY <3>1, <3>2, ListFacts DEF OnceInv, Typed
  <2>3. CASE ReconcileFails(i)
    <3>1. ReconcileThrows(i) /\ UNCHANGED <<call, attempted, returned>>
      BY <2>3 DEF ReconcileFails
    <3>2. disk' \in Lists /\ disk' \in {disk, <<>>} /\ stamp' = stamp
      BY <3>1, ReconcileFacts DEF OnceInv
    <3> QED
      BY <1>1, <2>3, <3>1, <3>2
  <2> QED
    BY <2>1, <2>2, <2>3 DEF Breaks
<1> HIDE DEF task, d
<1>4. /\ call' \in [Caller -> Call]
      /\ task.kind # "reconcile" => call'[d].pc \in {"idle", "resynced"}
      /\ \A c \in Caller : task.kind = "reconcile" \/ c # d => call'[c] = call[c]
  <2>1. CASE task.kind # "reconcile" /\ call[d].pc = "resync" /\ call[d].op = "spend"
    <3>1. [call[d] EXCEPT !.pc = "resynced"] \in Call /\ [call[d] EXCEPT !.pc = "resynced"].pc = "resynced"
      BY <1>1, <2>1, SetPc DEF OnceInv, Typed
    <3> QED
      BY <1>1, <1>3, <2>1, <3>1 DEF OnceInv, Typed
  <2>2. CASE task.kind # "reconcile" /\ ~(call[d].pc = "resync" /\ call[d].op = "spend")
    BY <1>1, <1>3, <2>2 DEF OnceInv, Typed, Call, Idle
  <2>3. CASE task.kind = "reconcile"
    BY <1>3, <2>3 DEF OnceInv, Typed
  <2> QED
    BY <2>1, <2>2, <2>3
<1>5. Typed'
  BY <1>1, <1>2, <1>3, <1>4 DEF OnceInv, Typed
<1>6. ChainInv'
  <2>1. \A c \in Caller : \/ call'[c] = call[c] /\ ~(Asked(i, 1) /\ wallet[i].chain[1].by = c)
                          \/ /\ Asked(i, 1) /\ wallet[i].chain[1].by = c
                             /\ call'[c].pc \notin {"persist", "resync"}
    BY <1>1, <1>4 DEF d, Asked
  <2> QED
    BY <1>1, <1>2, <2>1, ChainShrinks DEF OnceInv, SameState, SameRead
<1>7. SpendInv' /\ BirthInv'
  <2>1. Steps(i, Reconciliation)
    BY <1>1, <1>2 DEF Steps
  <2>2. \A t : Gone(t) => /\ t \notin ToSet(disk') /\ t \notin ToSet(wallet'[i].held)
                          /\ wallet'[i].reading # NotReading => t \notin ToSet(wallet'[i].reading[1])
    BY <1>2, <1>3, ListFacts DEF Gone, SameList, SameRead
  <2>3. \A c \in Caller : Spending(c)' => call'[c] = call[c]
    BY <1>4 DEF Spending
  <2>4. \A c \in Caller, b \in Batch : Adding(c, b)' => call'[c] = call[c]
    BY <1>4 DEF Adding
  <2>5. \A c \in Caller : Spending(c) /\ call[c].pc = "persist" =>
           Got(c) \cap ToSet(wallet'[i].held) = {}
    BY <1>2 DEF OnceInv, SpendInv, Parted, SameList
  <2> QED
    BY <1>3, <2>1, <2>2, <2>3, <2>4, <2>5, ReconciliationFacts, NothingSpreads DEF OnceInv
<1> QED
  BY <1>5, <1>6, <1>7 DEF OnceInv

\* The write of a spend lands: from here on its tokens are gone.
LEMMA WriteKeeps ==
    ASSUME OnceInv, NEW i \in Instance, Instance = {i}, Lands(i)
    PROVE  OnceInv'
<1> DEFINE task == Head(wallet[i].chain)
           d == task.by
<1>1. /\ wallet[i].chain # <<>> /\ wallet[i].chain \in Seq(Task) /\ task = wallet[i].chain[1]
      /\ 1 \in DOMAIN wallet[i].chain /\ task.kind = "write" /\ d \in Caller /\ task.snapshot \in Lists
  BY StoreShape, ChainShape, TaskShape DEF Lands, WriteLands, WriteHalfLands, Running, OnceInv, Typed
<1>2. /\ wallet' \in [Instance -> Store] /\ SameList(i) /\ SameState(i) /\ SameRead(i)
      /\ wallet'[i].chain = Tail(wallet[i].chain)
  BY <1>1, TaskOverFacts DEF OnceInv
<1>3. /\ UNCHANGED <<stamp, attempted, returned>> /\ disk' = task.snapshot
      /\ \/ call' = [call EXCEPT ![d].pc = "landed"]
         \/ call' = [call EXCEPT ![d] = Idle] /\ call[d].op = "add"
  BY DEF Lands, WriteLands, WriteHalfLands, StoreList, Landed
<1>4. call[d].pc = "persist" /\ call[d].op \in {"add", "spend"} /\ call[d] \in Call
  BY <1>1 DEF OnceInv, ChainInv, Awaited, Typed
<1> HIDE DEF task, d
<1>5. /\ call' \in [Caller -> Call] /\ call'[d].pc \in {"landed", "idle"}
      /\ call'[d].pc = "landed" => call'[d].op = call[d].op
      /\ call'[d].pc = "idle" => call[d].op # "spend"
      /\ call[d].op = "spend" => call'[d].got = call[d].got
      /\ \A c \in Caller : c # d => call'[c] = call[c]
  <2>1. CASE call' = [call EXCEPT ![d].pc = "landed"]
    <3> DEFINE y == [call[d] EXCEPT !.pc = "landed"]
    <3>1. /\ y \in Call /\ y.pc = "landed" /\ y.op = call[d].op
          /\ y.op = "spend" => y.got = call[d].got
      BY <1>1, <1>4, SetPc
    <3>2. call' = [call EXCEPT ![d] = y]
      BY <2>1
    <3> HIDE DEF y
    <3> QED
      BY <1>1, <3>1, <3>2 DEF OnceInv, Typed
  <2>2. CASE call' = [call EXCEPT ![d] = Idle] /\ call[d].op = "add"
    BY <1>1, <1>4, <2>2 DEF OnceInv, Typed, Call, Idle
  <2> QED
    BY <1>3, <2>1, <2>2
<1>6. wallet[i].reading = NotReading
  BY <1>1 DEF OnceInv, ChainInv, Quiet
<1>7. Typed'
  BY <1>1, <1>2, <1>3, <1>5 DEF OnceInv, Typed
<1>8. ChainInv'
  <2>1. \A c \in Caller : \/ call'[c] = call[c] /\ ~(Asked(i, 1) /\ wallet[i].chain[1].by = c)
                          \/ /\ Asked(i, 1) /\ wallet[i].chain[1].by = c
                             /\ call'[c].pc \notin {"persist", "resync"}
    BY <1>1, <1>5 DEF d, Asked
  <2> QED
    BY <1>1, <1>2, <1>6, <2>1, ChainShrinks DEF OnceInv, SameState, SameRead
<1>9. Steps(i, Reconciliation)
  BY <1>1, <1>2 DEF Steps
<1>10. 1 \in Unwritten(i, 1)
  BY <1>1 DEF Unwritten
<1>11. ASSUME NEW t, \A m \in Unwritten(i, 1) : t \notin ToSet(wallet[i].chain[m].snapshot),
              t \notin ToSet(wallet[i].held)
       PROVE  Gone(t)'
  <2>1. t \notin ToSet(disk')
    BY <1>1, <1>3, <1>10, <1>11
  <2> QED
    BY <1>2, <1>6, <1>9, <1>11, <2>1, ReconciliationFacts, StaysGone DEF OnceInv, SameList, SameRead
<1>12. \A t : Gone(t) => Gone(t)'
  BY <1>11 DEF Gone
<1>13. Spending(d) => \A t \in Got(d) : Gone(t)'
  <2> SUFFICES ASSUME Spending(d), NEW t \in Got(d) PROVE Gone(t)'
    OBVIOUS
  <2>1. Parted(d, i) /\ Asked(i, 1) /\ wallet[i].chain[1].by = d
    BY <1>1, <1>4 DEF OnceInv, SpendInv, Asked, d
  <2> QED
    BY <1>1, <1>11, <2>1 DEF Parted
<1>14. \A c \in Caller : Spending(c)' => /\ Spending(c) /\ Got(c)' = Got(c)
                                         /\ c # d => call'[c] = call[c]
  BY <1>4, <1>5 DEF Spending, Got
<1>15. SpendInv'
  <2>1. \A t \in Token : returned'[t] # 0 => Gone(t)'
    BY <1>3, <1>12 DEF OnceInv, SpendInv
  <2>2. \A c \in Caller : Spending(c)' => \A t \in Got(c)' : returned'[t] = 0
    BY <1>3, <1>14 DEF OnceInv, SpendInv
  <2>3. \A c \in Caller : Spending(c)' /\ call'[c].pc = "landed" => \A t \in Got(c)' : Gone(t)'
    BY <1>12, <1>13, <1>14 DEF OnceInv, SpendInv
  <2>4. ASSUME NEW c \in Caller, Spending(c)', call'[c].pc = "persist" PROVE Parted(c, i)'
    <3>1. c # d /\ call'[c] = call[c] /\ Parted(c, i)
      BY <1>5, <1>14, <2>4 DEF OnceInv, SpendInv
    <3>2. Got(c) \cap ToSet(wallet'[i].held) = {}
      BY <1>2, <3>1 DEF Parted, SameList
    <3> QED
      BY <1>9, <3>1, <3>2, ReconciliationFacts, StaysParted DEF OnceInv
  <2>5. \A c, e \in Caller : Spending(c)' /\ Spending(e)' /\ c # e => Got(c)' \cap Got(e)' = {}
    BY <1>14 DEF OnceInv, SpendInv
  <2> QED
    BY <2>1, <2>2, <2>3, <2>4, <2>5 DEF SpendInv
<1>16. BirthInv'
  <2>1. \A c \in Caller, b \in Batch : Adding(c, b)' => Adding(c, b)
    BY <1>5 DEF Adding
  <2>2. \A b \in Batch : Unborn(b)' => Unborn(b)
    BY <1>3, <2>1 DEF Unborn
  <2> QED
    BY <1>3, <1>12, <1>14, <2>1, <2>2 DEF OnceInv, BirthInv
<1> QED
  BY <1>7, <1>8, <1>15, <1>16 DEF OnceInv

----------------------------------------------------------------------------
(* The call steps.                                                          *)

\* A call begins, or ends with nothing written.
LEMMA CallMoves ==
    ASSUME OnceInv, NEW i \in Instance, Instance = {i}, NEW c \in Caller, NEW x \in Call,
           UNCHANGED <<disk, stamp, wallet, returned>>, call' = [call EXCEPT ![c] = x],
           call[c].pc \notin {"persist", "resync", "landed"},
           x.pc \notin {"persist", "resync", "landed"}
    PROVE  /\ attempted' \subseteq Batch => Typed'
           /\ ChainInv'
           /\ attempted' = attempted /\ (\A b \in Batch : ~Adding(c, b)') => SpendInv' /\ BirthInv'
<1>1. /\ call[c] \in Call /\ call' \in [Caller -> Call] /\ call'[c] = x
      /\ \A d \in Caller : d # c => call'[d] = call[d]
  BY DEF OnceInv, Typed
<1>2. attempted' \subseteq Batch => Typed'
  BY <1>1 DEF OnceInv, Typed
<1>3. ChainInv'
  <2>1. Quiet(i)'
    BY DEF OnceInv, ChainInv, Quiet
  <2> QED
    BY <1>1, <2>1, ChainStays DEF OnceInv
<1>4. ASSUME attempted' = attempted, \A b \in Batch : ~Adding(c, b)' PROVE SpendInv' /\ BirthInv'
  <2>1. \A t : Gone(t) => Gone(t)'
    BY DEF Gone, Unwritten
  <2>2. \A d \in Caller : Spending(d)' => call'[d] = call[d]
    BY <1>1 DEF Spending
  <2>3. ASSUME NEW d \in Caller, Spending(d), call[d].pc = "persist" PROVE Parted(d, i)'
    <3>1. d # c /\ call'[d] = call[d] /\ Parted(d, i)
      BY <1>1, <2>3 DEF OnceInv, SpendInv
    <3> QED
      BY <3>1 DEF Parted, Unwritten, Asked, Got
  <2>4. \A d \in Caller, b \in Batch : Adding(d, b)' => call'[d] = call[d]
    BY <1>1, <1>4
  <2> QED
    BY <1>4, <2>1, <2>2, <2>3, <2>4, OnceStep DEF OnceInv
<1> QED
  BY <1>2, <1>3, <1>4

LEMMA BeginKeeps ==
    ASSUME OnceInv, NEW i \in Instance, Instance = {i}, NEW c \in Caller,
           (\E n \in Need : BeginSpend(c, i, n)) \/ BeginCount(c, i) \/ BeginClear(c, i)
    PROVE  OnceInv'
<1>1. PICK x \in Call : /\ x.pc = "hydrate" /\ x.op # "add" /\ call' = [call EXCEPT ![c] = x]
                        /\ UNCHANGED <<disk, stamp, wallet, returned, attempted>> /\ call[c] = Idle
  <2>1. CASE \E n \in Need : BeginSpend(c, i, n)
    <3>1. PICK n \in Need : BeginSpend(c, i, n)
      BY <2>1
    <3>2. [pc |-> "hydrate", on |-> i, op |-> "spend", n |-> n] \in Call
      BY DEF Call
    <3> QED
      BY <3>1, <3>2 DEF BeginSpend, Begin, hist
  <2>2. CASE BeginCount(c, i)
    <3>1. [pc |-> "hydrate", on |-> i, op |-> "count"] \in Call
      BY DEF Call
    <3> QED
      BY <2>2, <3>1 DEF BeginCount, Begin, hist
  <2>3. CASE BeginClear(c, i)
    <3>1. [pc |-> "hydrate", on |-> i, op |-> "clear"] \in Call
      BY DEF Call
    <3> QED
      BY <2>3, <3>1 DEF BeginClear, Begin, hist
  <2> QED
    BY <2>1, <2>2, <2>3
<1>2. call[c].pc = "idle" /\ call'[c] = x
  BY <1>1 DEF Idle, OnceInv, Typed
<1>3. \A b \in Batch : ~Adding(c, b)'
  BY <1>1, <1>2 DEF Adding
<1>4. attempted' \subseteq Batch
  BY <1>1 DEF OnceInv, Typed
<1> QED
  BY <1>1, <1>2, <1>3, <1>4, CallMoves DEF OnceInv

LEMMA BeginAddKeeps ==
    ASSUME Single, OnceInv, NEW i \in Instance, Instance = {i}, NEW c \in Caller, NEW b \in Batch,
           BeginAdd(c, i, b)
    PROVE  OnceInv'
<1> DEFINE x == [pc |-> "hydrate", on |-> i, op |-> "add", batch |-> b]
<1>1. x \in Call /\ x.pc = "hydrate" /\ x.op = "add" /\ x.batch = b
  BY DEF Call
<1>2. /\ call' = [call EXCEPT ![c] = x] /\ call[c] = Idle /\ b \notin attempted
      /\ attempted' = attempted \cup {b}
      /\ UNCHANGED <<disk, stamp, wallet, returned>>
  BY DEF BeginAdd, Begin, Single
<1>3. /\ call[c].pc = "idle" /\ call'[c] = x /\ attempted' \subseteq Batch
      /\ \A d \in Caller : d # c => call'[d] = call[d]
  BY <1>2 DEF Idle, OnceInv, Typed
<1> HIDE DEF x
<1>4. Typed' /\ ChainInv'
  BY <1>1, <1>2, <1>3, CallMoves
<1>5. \A t : Gone(t)' <=> Gone(t)
  BY <1>2 DEF Gone, Unwritten
<1>6. \A d \in Caller : /\ Spending(d)' => Spending(d) /\ d # c
                        /\ d # c => Got(d)' = Got(d) /\ call'[d] = call[d]
  BY <1>1, <1>3 DEF Spending, Got
<1>7. SpendInv'
  <2>1. \A t \in Token : returned'[t] # 0 => Gone(t)'
    BY <1>2, <1>5 DEF OnceInv, SpendInv
  <2>2. \A d \in Caller : Spending(d)' => \A t \in Got(d)' : returned'[t] = 0
    BY <1>2, <1>6 DEF OnceInv, SpendInv
  <2>3. \A d \in Caller : Spending(d)' /\ call'[d].pc = "landed" => \A t \in Got(d)' : Gone(t)'
    BY <1>5, <1>6 DEF OnceInv, SpendInv
  <2>4. ASSUME NEW d \in Caller, Spending(d)', call'[d].pc = "persist" PROVE Parted(d, i)'
    <3>1. call'[d] = call[d] /\ Parted(d, i)
      BY <1>6, <2>4 DEF OnceInv, SpendInv
    <3> QED
      BY <1>2, <3>1 DEF Parted, Unwritten, Asked, Got
  <2>5. \A d, e \in Caller : Spending(d)' /\ Spending(e)' /\ d # e => Got(d)' \cap Got(e)' = {}
    BY <1>6 DEF OnceInv, SpendInv
  <2> QED
    BY <2>1, <2>2, <2>3, <2>4, <2>5 DEF SpendInv
<1>8. \A d \in Caller, a \in Batch : Adding(d, a)' <=> (d = c /\ a = b) \/ (d # c /\ Adding(d, a))
  BY <1>1, <1>3 DEF Adding
<1>9. \A d \in Caller : ~Adding(d, b)
  BY <1>2 DEF OnceInv, BirthInv
<1>10. BirthInv'
  <2>1. \A a \in Batch : Unborn(a)' => Unborn(a)
    <3> SUFFICES ASSUME NEW a \in Batch, Unborn(a)' PROVE Unborn(a)
      OBVIOUS
    <3>1. CASE a = b
      BY <1>2, <3>1 DEF Unborn
    <3>2. CASE a # b
      BY <1>2, <1>8, <3>2 DEF Unborn
    <3> QED
      BY <3>1, <3>2
  <2>2. \A a \in Batch : Unborn(a)' =>
          \A t \in ToSet(BatchTokens[a]) :
              /\ Gone(t)' /\ returned'[t] = 0
              /\ \A d \in Caller : Spending(d)' => t \notin Got(d)'
    BY <1>2, <1>5, <1>6, <2>1 DEF OnceInv, BirthInv
  <2>3. \A d \in Caller, a \in Batch : Adding(d, a)' => a \in attempted'
    BY <1>2, <1>8 DEF OnceInv, BirthInv
  <2>4. \A d, e \in Caller, a \in Batch : Adding(d, a)' /\ Adding(e, a)' => d = e
    BY <1>8, <1>9 DEF OnceInv, BirthInv
  <2> QED
    BY <2>2, <2>3, <2>4 DEF BirthInv
<1> QED
  BY <1>4, <1>7, <1>10 DEF OnceInv

\* Returning a spend's tokens: they were gone already.
LEMMA ReturnKeeps ==
    ASSUME OnceInv, NEW i \in Instance, Instance = {i}, NEW c \in Caller, Return(c)
    PROVE  OnceInv'
<1>1. /\ call[c].pc = "landed" /\ call' = [call EXCEPT ![c] = Idle] /\ call[c] \in Call
      /\ returned' = IF call[c].op = "spend" THEN Returning(call[c].got) ELSE returned
      /\ UNCHANGED <<disk, stamp, wallet, attempted>>
  BY DEF Return, OnceInv, Typed
<1>2. /\ call' \in [Caller -> Call] /\ call'[c] = Idle /\ call'[c].pc = "idle"
      /\ \A d \in Caller : d # c => call'[d] = call[d]
  BY <1>1 DEF Idle, OnceInv, Typed, Call
<1>3. /\ returned' \in [Token -> 0..2]
      /\ \A t \in Token : returned'[t] # returned[t] => Spending(c) /\ t \in Got(c)
  BY <1>1 DEF Returning, OnceInv, Typed, Spending, Got
<1>4. Typed'
  BY <1>1, <1>2, <1>3 DEF OnceInv, Typed
<1>5. ChainInv'
  <2>1. Quiet(i)'
    BY <1>1 DEF OnceInv, ChainInv, Quiet
  <2> QED
    BY <1>1, <1>2, <2>1, ChainStays DEF OnceInv
<1>6. \A t : Gone(t)' <=> Gone(t)
  BY <1>1 DEF Gone, Unwritten
<1>7. \A d \in Caller : /\ Spending(d)' => Spending(d) /\ d # c
                        /\ d # c => Got(d)' = Got(d) /\ call'[d] = call[d]
  BY <1>2 DEF Spending, Got
<1>8. \A d \in Caller : Spending(d) => Got(d) \subseteq Token
  BY CallShape, ListFacts DEF OnceInv, Typed, Spending, Got
<1>9. SpendInv'
  <2>1. \A t \in Token : returned'[t] # 0 => Gone(t)'
    BY <1>1, <1>3, <1>6 DEF OnceInv, SpendInv
  <2>2. \A d \in Caller : Spending(d)' => \A t \in Got(d)' : returned'[t] = 0
    BY <1>3, <1>7, <1>8 DEF OnceInv, SpendInv
  <2>3. \A d \in Caller : Spending(d)' /\ call'[d].pc = "landed" => \A t \in Got(d)' : Gone(t)'
    BY <1>6, <1>7 DEF OnceInv, SpendInv
  <2>4. ASSUME NEW d \in Caller, Spending(d)', call'[d].pc = "persist" PROVE Parted(d, i)'
    <3>1. call'[d] = call[d] /\ Parted(d, i)
      BY <1>7, <2>4 DEF OnceInv, SpendInv
    <3> QED
      BY <1>1, <3>1 DEF Parted, Unwritten, Asked, Got
  <2>5. \A d, e \in Caller : Spending(d)' /\ Spending(e)' /\ d # e => Got(d)' \cap Got(e)' = {}
    BY <1>7 DEF OnceInv, SpendInv
  <2> QED
    BY <2>1, <2>2, <2>3, <2>4, <2>5 DEF SpendInv
<1>10. BirthInv'
  <2>1. \A d \in Caller, b \in Batch : Adding(d, b)' => Adding(d, b)
    BY <1>2, <1>7 DEF Adding
  <2>2. \A b \in Batch : Unborn(b)' => Unborn(b)
    BY <1>1, <2>1 DEF Unborn
  <2>3. \A b \in Batch : \A t \in ToSet(BatchTokens[b]) : t \in Token
    BY DEF Token
  <2>4. \A b \in Batch : Unborn(b)' =>
          \A t \in ToSet(BatchTokens[b]) :
              /\ Gone(t)' /\ returned'[t] = 0
              /\ \A d \in Caller : Spending(d)' => t \notin Got(d)'
    BY <1>3, <1>6, <1>7, <2>2, <2>3 DEF OnceInv, BirthInv
  <2> QED
    BY <1>1, <2>1, <2>4 DEF OnceInv, BirthInv
<1> QED
  BY <1>4, <1>5, <1>9, <1>10 DEF OnceInv

LEMMA CrashKeeps ==
    ASSUME OnceInv, NEW i \in Instance, Instance = {i}, Crash
    PROVE  OnceInv'
<1>1. /\ UNCHANGED <<disk, stamp, attempted, returned>>
      /\ wallet' = [j \in Instance |-> Fresh] /\ call' = [c \in Caller |-> Idle]
  BY DEF Crash
<1>2. /\ wallet'[i].held = <<>> /\ wallet'[i].chain = <<>> /\ wallet'[i].reading = NotReading
      /\ Fresh \in Store /\ Idle \in Call
      /\ \A c \in Caller : call'[c].pc = "idle"
  BY <1>1, ListFacts DEF Fresh, Idle, Store, Call
<1>3. Typed'
  BY <1>1, <1>2 DEF OnceInv, Typed
<1>4. ChainInv'
  BY <1>2 DEF ChainInv, WritesFirst, Awaited, Quiet
<1>5. SpendInv' /\ BirthInv'
  <2>1. \A t : Gone(t) => Gone(t)'
    BY <1>1, <1>2, ListFacts DEF Gone, Unwritten
  <2>2. \A c \in Caller : ~Spending(c)' /\ \A b \in Batch : ~Adding(c, b)'
    BY <1>2 DEF Spending, Adding
  <2>3. \A c \in Caller : Spending(c) => call'[c] # call[c]
    BY <1>2 DEF Spending
  <2> QED
    BY <1>1, <2>1, <2>2, <2>3, OnceStep DEF OnceInv
<1> QED
  BY <1>3, <1>4, <1>5 DEF OnceInv

\* The calls that change the list find only writes queued.
OnlyWrites(i) == \A n \in DOMAIN wallet[i].chain : wallet[i].chain[n].kind = "write"

\* add(): the tokens of its batch were nowhere, so none of them was handed out or is about to be.
LEMMA AddKeeps ==
    ASSUME Single, OnceInv, NEW i \in Instance, Instance = {i}, NEW c \in Caller, Add(c),
           call[c].on = i, OnlyWrites(i)
    PROVE  OnceInv'
<1> DEFINE b == call[c].batch
           held == wallet[i].held \o New(BatchTokens[b], wallet[i].held)
           task == WriteTask(c, held)
<1>1. call[c].pc = "hydrate" /\ call[c].op = "add" /\ wallet[i].hydrated = "yes" /\ call[c] \in Call
  BY DEF Add, Ready, OnceInv, Typed
<1>2. b \in Batch /\ Adding(c, b) /\ BatchTokens[b] \in Seq(Token)
  BY <1>1, CallShape DEF Adding, Single
<1>3. held \in Lists /\ ToSet(held) = ToSet(wallet[i].held) \cup ToSet(BatchTokens[b])
  BY <1>2, AddedList, StoreShape DEF OnceInv, Typed
<1>4. task \in Task /\ task.kind = "write" /\ task.by = c /\ task.snapshot = held
  BY <1>3, NewTask
<1>5. /\ Enqueue(i, held, task) /\ call' = [call EXCEPT ![c].pc = "persist"]
      /\ UNCHANGED <<disk, stamp, returned, attempted>>
  BY DEF Add, hist
<1> HIDE DEF held, task, b
<1>6. /\ wallet' \in [Instance -> Store]
      /\ wallet'[i].held = held /\ wallet'[i].chain = Append(wallet[i].chain, task)
      /\ wallet'[i].hydrated = wallet[i].hydrated /\ wallet'[i].reading = wallet[i].reading
  BY <1>3, <1>4, <1>5, EnqueueFacts DEF OnceInv, Typed
<1>7. /\ call' \in [Caller -> Call] /\ call'[c].pc = "persist" /\ call'[c].op = "add"
      /\ \A d \in Caller : d # c => call'[d] = call[d]
  BY <1>1, <1>5, SetPc DEF OnceInv, Typed
<1>8. Typed'
  BY <1>5, <1>6, <1>7 DEF OnceInv, Typed
<1>9. ChainInv' /\ wallet[i].reading = NotReading
  BY <1>1, <1>4, <1>6, <1>7, ChainGrows DEF OnceInv, OnlyWrites
<1>10. Steps(i, task)
  BY <1>6 DEF Steps
<1>11. ASSUME NEW t, Gone(t), t \notin ToSet(BatchTokens[b]) PROVE Gone(t)'
  <2>1. \A m \in Unwritten(i, 1) : t \notin ToSet(wallet[i].chain[m].snapshot)
    BY <1>11 DEF Gone
  <2>2. t \notin ToSet(held) /\ t \notin ToSet(disk)
    BY <1>3, <1>11 DEF Gone
  <2> QED
    BY <1>4, <1>5, <1>6, <1>9, <1>10, <2>1, <2>2, StaysGone DEF OnceInv
<1>12. Unborn(b) /\ b \in attempted /\ \A d \in Caller : Adding(d, b) => d = c
  BY <1>2 DEF Unborn, OnceInv, BirthInv
<1>13. \A t \in ToSet(BatchTokens[b]) : returned[t] = 0 /\ \A d \in Caller : Spending(d) => t \notin Got(d)
  BY <1>2, <1>12 DEF OnceInv, BirthInv
<1>14. \A d \in Caller : /\ Spending(d)' => Spending(d) /\ d # c
                         /\ d # c => Got(d)' = Got(d) /\ call'[d] = call[d]
  BY <1>7 DEF Spending, Got
<1>15. SpendInv'
  <2>1. \A t \in Token : returned'[t] # 0 => Gone(t)'
    BY <1>5, <1>11, <1>13 DEF OnceInv, SpendInv
  <2>2. \A d \in Caller : Spending(d)' => \A t \in Got(d)' : returned'[t] = 0
    BY <1>5, <1>14 DEF OnceInv, SpendInv
  <2>3. \A d \in Caller : Spending(d)' /\ call'[d].pc = "landed" => \A t \in Got(d)' : Gone(t)'
    BY <1>11, <1>13, <1>14 DEF OnceInv, SpendInv
  <2>4. ASSUME NEW d \in Caller, Spending(d)', call'[d].pc = "persist" PROVE Parted(d, i)'
    <3>1. d # c /\ call'[d] = call[d] /\ Parted(d, i) /\ Spending(d)
      BY <1>14, <2>4 DEF OnceInv, SpendInv
    <3>2. Got(d) \cap ToSet(held) = {}
      BY <1>3, <1>13, <3>1 DEF Parted
    <3> QED
      BY <1>4, <1>6, <1>10, <3>1, <3>2, StaysParted DEF OnceInv
  <2>5. \A d, e \in Caller : Spending(d)' /\ Spending(e)' /\ d # e => Got(d)' \cap Got(e)' = {}
    BY <1>14 DEF OnceInv, SpendInv
  <2> QED
    BY <2>1, <2>2, <2>3, <2>4, <2>5 DEF SpendInv
<1>16. BirthInv'
  <2>1. \A d \in Caller, a \in Batch : Adding(d, a)' => Adding(d, a) /\ d # c
    BY <1>7, <1>14 DEF Adding
  <2>2. \A a \in Batch : Unborn(a)' => Unborn(a) /\ a # b
    BY <1>5, <1>12, <2>1 DEF Unborn
  <2>3. \A a \in Batch : a # b => ToSet(BatchTokens[a]) \cap ToSet(BatchTokens[b]) = {}
    BY <1>2 DEF Single
  <2>4. \A a \in Batch : Unborn(a)' =>
          \A t \in ToSet(BatchTokens[a]) :
              /\ Gone(t)' /\ returned'[t] = 0
              /\ \A d \in Caller : Spending(d)' => t \notin Got(d)'
    <3> SUFFICES ASSUME NEW a \in Batch, Unborn(a)', NEW t \in ToSet(BatchTokens[a])
                 PROVE  /\ Gone(t)' /\ returned'[t] = 0
                        /\ \A d \in Caller : Spending(d)' => t \notin Got(d)'
      OBVIOUS
    <3>1. Unborn(a) /\ t \notin ToSet(BatchTokens[b])
      BY <2>2, <2>3
    <3>2. Gone(t) /\ returned[t] = 0 /\ \A d \in Caller : Spending(d) => t \notin Got(d)
      BY <3>1 DEF OnceInv, BirthInv
    <3> QED
      BY <1>5, <1>11, <1>14, <3>1, <3>2
  <2> QED
    BY <1>5, <2>1, <2>4 DEF OnceInv, BirthInv
<1> QED
  BY <1>8, <1>9, <1>15, <1>16 DEF OnceInv

\* A spend takes tokens that were in the list, so they were neither handed out nor taken.
LEMMA TakeKeeps ==
    ASSUME Single, OnceInv, NEW i \in Instance, Instance = {i}, NEW c \in Caller, Take(c),
           call[c].on = i, OnlyWrites(i), wallet[i].hydrated = "yes",
           call[c].op = "spend", call[c].pc \in {"hydrate", "resynced"},
           ~(Len(wallet[i].held) < call[c].n)
    PROVE  OnceInv'
<1> DEFINE n == call[c].n
           got == SubSeq(wallet[i].held, 1, n)
           held == SubSeq(wallet[i].held, n + 1, Len(wallet[i].held))
           task == WriteTask(c, held)
           x == [pc |-> "persist", op |-> "spend", on |-> i, got |-> got]
<1>1. wallet[i].held \in Lists /\ call[c] \in Call
  BY StoreShape DEF OnceInv, Typed
<1>2. n \in 0..Len(wallet[i].held)
  <2>1. n \in Nat
    BY <1>1, CallShape DEF Single, WalletAssumption
  <2>2. Len(wallet[i].held) \in Nat
    BY <1>1 DEF Lists
  <2> QED
    BY <2>1, <2>2
<1>3. /\ got \in Lists /\ held \in Lists
      /\ ToSet(wallet[i].held) = ToSet(got) \cup ToSet(held)
      /\ ToSet(got) \cap ToSet(held) = {}
  <2> HIDE DEF n
  <2> QED
    BY <1>1, <1>2, SplitList
<1>4. task \in Task /\ task.kind = "write" /\ task.by = c /\ task.snapshot = held
  <2> HIDE DEF held
  <2> QED
    BY <1>3, NewTask DEF task
<1>5. /\ Enqueue(i, held, task) /\ call' = [call EXCEPT ![c] = x]
      /\ UNCHANGED <<disk, stamp, returned, attempted>>
  BY DEF Take
<1> HIDE DEF got, held, task, n
<1>6. /\ wallet' \in [Instance -> Store]
      /\ wallet'[i].held = held /\ wallet'[i].chain = Append(wallet[i].chain, task)
      /\ wallet'[i].hydrated = wallet[i].hydrated /\ wallet'[i].reading = wallet[i].reading
  BY <1>3, <1>4, <1>5, EnqueueFacts DEF OnceInv, Typed
<1>7. x \in Call /\ x.pc = "persist" /\ x.op = "spend" /\ x.got = got
  BY <1>3 DEF Call
<1> HIDE DEF x
<1>8. /\ call' \in [Caller -> Call] /\ call'[c] = x
      /\ \A d \in Caller : d # c => call'[d] = call[d]
  BY <1>5, <1>7 DEF OnceInv, Typed
<1>9. Typed'
  BY <1>5, <1>6, <1>8 DEF OnceInv, Typed
<1>10. ChainInv' /\ wallet[i].reading = NotReading
  BY <1>4, <1>6, <1>7, <1>8, ChainGrows DEF OnceInv, OnlyWrites
<1>11. Steps(i, task)
  BY <1>6 DEF Steps
<1>12. ASSUME NEW t, Gone(t) PROVE Gone(t)'
  <2>1. \A m \in Unwritten(i, 1) : t \notin ToSet(wallet[i].chain[m].snapshot)
    BY <1>12 DEF Gone
  <2>2. t \notin ToSet(held) /\ t \notin ToSet(disk)
    BY <1>3, <1>12 DEF Gone
  <2> QED
    BY <1>4, <1>5, <1>6, <1>10, <1>11, <2>1, <2>2, StaysGone DEF OnceInv
<1>13. ToSet(got) \subseteq Token /\ \A t \in ToSet(got) : ~Gone(t)
  BY <1>3, ListFacts DEF Gone
<1>14. \A t \in ToSet(got) : returned[t] = 0 /\ \A d \in Caller : Spending(d) => t \notin Got(d)
  <2> SUFFICES ASSUME NEW t \in ToSet(got)
               PROVE  returned[t] = 0 /\ \A d \in Caller : Spending(d) => t \notin Got(d)
    OBVIOUS
  <2>1. returned[t] = 0
    BY <1>13 DEF OnceInv, SpendInv
  <2>2. ASSUME NEW d \in Caller, Spending(d) PROVE t \notin Got(d)
    <3>1. CASE call[d].pc = "landed"
      BY <1>13, <2>2, <3>1 DEF OnceInv, SpendInv
    <3>2. CASE call[d].pc = "persist"
      BY <1>3, <2>2, <3>2 DEF OnceInv, SpendInv, Parted
    <3> QED
      BY <2>2, <3>1, <3>2 DEF Spending
  <2> QED
    BY <2>1, <2>2
<1>15. /\ Spending(c)' /\ Got(c)' = ToSet(got) /\ call'[c].pc = "persist"
       /\ \A d \in Caller : d # c => /\ Spending(d)' <=> Spending(d)
                                     /\ Got(d)' = Got(d) /\ call'[d] = call[d]
  BY <1>7, <1>8 DEF Spending, Got
<1>16. SpendInv'
  <2>1. \A t \in Token : returned'[t] # 0 => Gone(t)'
    BY <1>5, <1>12 DEF OnceInv, SpendInv
  <2>2. \A d \in Caller : Spending(d)' => \A t \in Got(d)' : returned'[t] = 0
    BY <1>5, <1>14, <1>15 DEF OnceInv, SpendInv
  <2>3. \A d \in Caller : Spending(d)' /\ call'[d].pc = "landed" => \A t \in Got(d)' : Gone(t)'
    BY <1>12, <1>15 DEF OnceInv, SpendInv
  <2>4. ASSUME NEW d \in Caller, d # c, Spending(d)', call'[d].pc = "persist" PROVE Parted(d, i)'
    <3>1. call'[d] = call[d] /\ Parted(d, i)
      BY <1>15, <2>4 DEF OnceInv, SpendInv
    <3>2. Got(d) \cap ToSet(held) = {}
      BY <1>3, <3>1 DEF Parted
    <3> QED
      BY <1>4, <1>6, <1>11, <2>4, <3>1, <3>2, StaysParted DEF OnceInv
  <2>5. Parted(c, i)'
    <3>1. wallet[i].chain \in Seq(Task) /\ Awaited(i) /\ call[c].pc \notin {"persist", "resync"}
      BY StoreShape DEF OnceInv, ChainInv, Typed
    <3>2. \A m \in DOMAIN wallet[i].chain : wallet[i].chain[m].by # c
      BY <3>1 DEF Awaited, OnlyWrites
    <3>3. PICK k \in 0..1 : \A l \in DOMAIN wallet'[i].chain :
              /\ l \in Nat
              /\ \/ l + k \in DOMAIN wallet[i].chain /\ wallet'[i].chain[l] = wallet[i].chain[l + k]
                 \/ wallet'[i].chain[l] = task /\ \A m \in DOMAIN wallet'[i].chain : m <= l
      BY <1>4, <1>11, TaskOrigin DEF OnceInv
    <3>4. ASSUME NEW l \in DOMAIN wallet'[i].chain, wallet'[i].chain[l].by = c, NEW m \in Unwritten(i, l)'
          PROVE  wallet'[i].chain[m] = task
      <4>1. wallet'[i].chain[l] = task /\ \A o \in DOMAIN wallet'[i].chain : o <= l
        BY <3>2, <3>3, <3>4
      <4>2. m \in DOMAIN wallet'[i].chain /\ m >= l
        BY DEF Unwritten
      <4>3. m = l
        BY <3>3, <4>1, <4>2
      <4> QED
        BY <4>1, <4>3
    <3>5. Got(c)' \cap ToSet(held) = {}
      BY <1>3, <1>15
    <3> QED
      BY <1>4, <1>6, <3>4, <3>5 DEF Parted
  <2>6. \A d, e \in Caller : Spending(d)' /\ Spending(e)' /\ d # e => Got(d)' \cap Got(e)' = {}
    BY <1>14, <1>15 DEF OnceInv, SpendInv
  <2> QED
    BY <2>1, <2>2, <2>3, <2>4, <2>5, <2>6 DEF SpendInv
<1>17. BirthInv'
  <2>1. \A d \in Caller, a \in Batch : Adding(d, a)' => Adding(d, a)
    BY <1>7, <1>8 DEF Adding
  <2>2. \A a \in Batch : Unborn(a)' => Unborn(a)
    BY <1>5, <2>1 DEF Unborn
  <2>3. \A a \in Batch : Unborn(a)' =>
          \A t \in ToSet(BatchTokens[a]) :
              /\ Gone(t)' /\ returned'[t] = 0
              /\ \A d \in Caller : Spending(d)' => t \notin Got(d)'
    <3> SUFFICES ASSUME NEW a \in Batch, Unborn(a)', NEW t \in ToSet(BatchTokens[a])
                 PROVE  /\ Gone(t)' /\ returned'[t] = 0
                        /\ \A d \in Caller : Spending(d)' => t \notin Got(d)'
      OBVIOUS
    <3>1. Gone(t) /\ returned[t] = 0 /\ \A d \in Caller : Spending(d) => t \notin Got(d)
      BY <2>2 DEF OnceInv, BirthInv
    <3> QED
      BY <1>5, <1>12, <1>13, <1>15, <3>1
  <2> QED
    BY <1>5, <2>1, <2>3 DEF OnceInv, BirthInv
<1> QED
  BY <1>9, <1>10, <1>16, <1>17 DEF OnceInv

\* A re-read or a wipe is queued behind the writes.
LEMMA QueueFacts ==
    ASSUME OnceInv, NEW i \in Instance, NEW c \in Caller, call[c].on = i,
           Count(c) \/ (Spend(c) /\ Len(wallet[i].held) < call[c].n) \/ Clear(c)
    PROVE  \E task \in Task, held \in Lists :
              /\ Enqueue(i, held, task) /\ task.by = c /\ wallet[i].hydrated = "yes"
              /\ call[c].pc = "hydrate" /\ call[c].op \in {"spend", "count", "clear"}
              /\ \/ task.kind = "resync" /\ held = wallet[i].held /\ call'[c].pc = "resync"
                 \/ task.kind = "remove" /\ held = <<>> /\ call'[c].pc = "persist" /\ call'[c].op = "clear"
              /\ call' \in [Caller -> Call] /\ \A d \in Caller : d # c => call'[d] = call[d]
              /\ UNCHANGED <<disk, stamp, returned, attempted, deposited, taken, forgotten>>
              /\ discarded' = IF task.kind = "remove"
                              THEN discarded \cup ToSet(wallet[i].held) \cup ToSet(disk) ELSE discarded
<1>1. wallet[i].held \in Lists /\ <<>> \in Lists /\ call[c] \in Call /\ call \in [Caller -> Call]
  BY StoreShape, ListFacts DEF OnceInv, Typed
<1>2. CASE Count(c) \/ (Spend(c) /\ Len(wallet[i].held) < call[c].n)
  <2> DEFINE task == [kind |-> "resync", by |-> c]
             y == [call[c] EXCEPT !.pc = "resync"]
  <2>1. task \in Task /\ task.by = c /\ task.kind = "resync"
    BY NewTask
  <2>2. /\ Enqueue(i, wallet[i].held, task) /\ call' = [call EXCEPT ![c].pc = "resync"]
        /\ UNCHANGED <<disk, stamp, returned, attempted, deposited, taken, discarded, forgotten>>
        /\ wallet[i].hydrated = "yes" /\ call[c].pc = "hydrate" /\ call[c].op \in {"spend", "count"}
    BY <1>2 DEF Count, Spend, Resync, Ready, hist
  <2>3. y \in Call /\ y.pc = "resync"
    BY <1>1, <2>2, SetPc
  <2>4. call' = [call EXCEPT ![c] = y]
    BY <1>1, <2>2
  <2> HIDE DEF task, y
  <2>5. call' \in [Caller -> Call] /\ call'[c].pc = "resync" /\ \A d \in Caller : d # c => call'[d] = call[d]
    BY <1>1, <2>3, <2>4
  <2> QED
    BY <1>1, <2>1, <2>2, <2>5
<1>3. CASE Clear(c)
  <2> DEFINE task == [kind |-> "remove", by |-> c]
             y == [call[c] EXCEPT !.pc = "persist"]
  <2>1. task \in Task /\ task.by = c /\ task.kind = "remove"
    BY NewTask
  <2>2. /\ Enqueue(i, <<>>, task) /\ call' = [call EXCEPT ![c].pc = "persist"]
        /\ UNCHANGED <<disk, stamp, returned, attempted, deposited, taken, forgotten>>
        /\ discarded' = discarded \cup ToSet(wallet[i].held) \cup ToSet(disk)
        /\ wallet[i].hydrated = "yes" /\ call[c].pc = "hydrate" /\ call[c].op = "clear"
    BY <1>3 DEF Clear, Ready
  <2>3. y \in Call /\ y.pc = "persist" /\ y.op = "clear"
    BY <1>1, <2>2, SetPc
  <2>4. call' = [call EXCEPT ![c] = y]
    BY <1>1, <2>2
  <2> HIDE DEF task, y
  <2>5. /\ call' \in [Caller -> Call] /\ call'[c].pc = "persist" /\ call'[c].op = "clear"
        /\ \A d \in Caller : d # c => call'[d] = call[d]
    BY <1>1, <2>3, <2>4
  <2> QED
    BY <1>1, <2>1, <2>2, <2>5
<1> QED
  BY <1>2, <1>3

LEMMA QueueKeeps ==
    ASSUME OnceInv, NEW i \in Instance, Instance = {i}, NEW c \in Caller, call[c].on = i,
           Count(c) \/ (Spend(c) /\ Len(wallet[i].held) < call[c].n) \/ Clear(c),
           OnlyWrites(i)
    PROVE  OnceInv'
<1>1. PICK task \in Task, held \in Lists :
              /\ Enqueue(i, held, task) /\ task.by = c /\ wallet[i].hydrated = "yes"
              /\ call[c].pc = "hydrate" /\ call[c].op \in {"spend", "count", "clear"}
              /\ \/ task.kind = "resync" /\ held = wallet[i].held /\ call'[c].pc = "resync"
                 \/ task.kind = "remove" /\ held = <<>> /\ call'[c].pc = "persist" /\ call'[c].op = "clear"
              /\ call' \in [Caller -> Call] /\ \A d \in Caller : d # c => call'[d] = call[d]
              /\ UNCHANGED <<disk, stamp, returned, attempted>>
  BY QueueFacts
<1>2. /\ wallet' \in [Instance -> Store]
      /\ wallet'[i].held = held /\ wallet'[i].chain = Append(wallet[i].chain, task)
      /\ wallet'[i].hydrated = wallet[i].hydrated /\ wallet'[i].reading = wallet[i].reading
  BY <1>1, EnqueueFacts DEF OnceInv, Typed
<1>3. Typed'
  BY <1>1, <1>2 DEF OnceInv, Typed
<1>4. ChainInv'
  BY <1>1, <1>2, ChainGrows DEF OnceInv, OnlyWrites
<1>5. SpendInv' /\ BirthInv'
  <2>1. Steps(i, task)
    BY <1>2 DEF Steps
  <2>2. ToSet(held) \subseteq ToSet(wallet[i].held)
    BY <1>1, ListFacts
  <2>3. \A t : Gone(t) => /\ t \notin ToSet(disk') /\ t \notin ToSet(wallet'[i].held)
                          /\ wallet'[i].reading # NotReading => t \notin ToSet(wallet'[i].reading[1])
    BY <1>1, <1>2, <2>2 DEF Gone
  <2>4. \A d \in Caller : Spending(d)' => call'[d] = call[d]
    BY <1>1 DEF Spending
  <2>5. \A d \in Caller, b \in Batch : Adding(d, b)' => call'[d] = call[d]
    BY <1>1 DEF Adding
  <2>6. \A d \in Caller : Spending(d) /\ call[d].pc = "persist" =>
           Got(d) \cap ToSet(wallet'[i].held) = {} /\ task.by # d
    BY <1>1, <1>2, <2>2 DEF OnceInv, SpendInv, Parted
  <2>7. task.kind # "write"
    BY <1>1
  <2> QED
    BY <1>1, <2>1, <2>3, <2>4, <2>5, <2>6, <2>7, NothingSpreads DEF OnceInv
<1> QED
  BY <1>3, <1>4, <1>5 DEF OnceInv

----------------------------------------------------------------------------
(* A wiped wallet.                                                          *)

\* A wipe leaves nothing: a call that was re-reading when the list was dropped finds an empty
\* list afterwards, and does not take tokens from a list still being loaded.
Wiped(i) ==
    /\ \A n \in DOMAIN wallet[i].chain : wallet[i].chain[n].kind = "remove" => wallet[i].held = <<>>
    /\ wallet[i].hydrated # "yes" /\ (\E c \in Caller : call[c].pc = "resynced") =>
          /\ wallet[i].held = <<>> /\ disk = <<>>
          /\ wallet[i].reading # NotReading => wallet[i].reading[1] = <<>>

WipeInv == \A i \in Instance : Wiped(i)

\* Tasks leave the chain, or one that is no wipe joins it, and no call wakes up from a re-read.
LEMMA NoWipe ==
    ASSUME Typed, WipeInv, NEW i \in Instance, Instance = {i}, NEW task \in Task, Steps(i, task),
           task.kind # "remove",
           \A n \in DOMAIN wallet[i].chain : wallet[i].chain[n].kind = "remove" /\ wallet[i].held = <<>>
                                             => wallet'[i].held = <<>>,
           \/ wallet'[i].hydrated = "yes"
           \/ \A c \in Caller : call'[c].pc # "resynced"
           \/ /\ wallet[i].hydrated # "yes" /\ \A c \in Caller : call'[c].pc = "resynced" => call[c].pc = "resynced"
              /\ (/\ wallet[i].held = <<>> /\ disk = <<>>
                  /\ wallet[i].reading # NotReading => wallet[i].reading[1] = <<>>)
                 => /\ wallet'[i].held = <<>> /\ disk' = <<>>
                    /\ wallet'[i].reading # NotReading => wallet'[i].reading[1] = <<>>
    PROVE  WipeInv'
<1>1. PICK k \in 0..1 : \A n \in DOMAIN wallet'[i].chain :
              /\ n \in Nat
              /\ \/ n + k \in DOMAIN wallet[i].chain /\ wallet'[i].chain[n] = wallet[i].chain[n + k]
                 \/ wallet'[i].chain[n] = task /\ \A m \in DOMAIN wallet'[i].chain : m <= n
  BY TaskOrigin
<1>2. \A n \in DOMAIN wallet'[i].chain : wallet'[i].chain[n].kind = "remove" => wallet'[i].held = <<>>
  BY <1>1 DEF WipeInv, Wiped
<1>3. wallet'[i].hydrated # "yes" /\ (\E c \in Caller : call'[c].pc = "resynced") =>
          /\ wallet'[i].held = <<>> /\ disk' = <<>>
          /\ wallet'[i].reading # NotReading => wallet'[i].reading[1] = <<>>
  BY DEF WipeInv, Wiped
<1> QED
  BY <1>2, <1>3 DEF WipeInv, Wiped

LEMMA TaskStepKeepsWiped ==
    ASSUME OnceInv, WipeInv, NEW i \in Instance, Instance = {i}, TaskStep(i)
    PROVE  WipeInv'
<1>1. /\ Typed /\ Quiet(i) /\ Wiped(i) /\ wallet[i].chain \in Seq(Task)
      /\ wallet[i].chain # <<>> => 1 \in DOMAIN wallet[i].chain /\ Head(wallet[i].chain) = wallet[i].chain[1]
  BY StoreShape, ChainShape DEF OnceInv, ChainInv, WipeInv, Typed
<1>2. CASE HydrateLoad(i) \/ HydrateFails(i)
  <2>1. /\ SameTasks(i) /\ SameRead(i) /\ wallet[i].hydrated = "no"
        /\ wallet'[i].held \in {disk, wallet[i].held}
        /\ UNCHANGED <<disk, call>>
    BY <1>1, <1>2, LoadFacts
  <2>2. Steps(i, Reconciliation)
    BY <2>1 DEF Steps, SameTasks
  <2>3. \A n \in DOMAIN wallet[i].chain : wallet[i].chain[n].kind # "remove"
    BY <1>1, <2>1 DEF Quiet
  <2> QED
    BY <1>1, <2>1, <2>2, <2>3, ReconciliationFacts, NoWipe DEF SameRead
<1>3. CASE HydrateReconcile(i) \/ HydrateThrows(i)
  <2>1. SameTasks(i) /\ wallet'[i].hydrated = "yes" /\ wallet'[i].held \in {wallet[i].held, <<>>}
    BY <1>1, <1>3, HydrateFacts
  <2>2. Steps(i, Reconciliation)
    BY <2>1 DEF Steps, SameTasks
  <2> QED
    BY <1>1, <2>1, <2>2, ReconciliationFacts, NoWipe
<1>4. CASE Lands(i) \/ Breaks(i)
  <2>1. /\ wallet[i].chain # <<>>
        /\ wallet[i].chain[1].kind = "reconcile" => ReconcileFails(i)
    BY <1>1, <1>4 DEF Lands, Breaks, WriteLands, WriteHalfLands, TaskFails, RemoveFails,
                      ReconcileFails, Running
  <2>2. SameList(i) /\ SameState(i) /\ SameRead(i) /\ wallet'[i].chain = Tail(wallet[i].chain)
    BY <1>1, <1>4, <2>1, TaskOverFacts
  <2>3. Steps(i, Reconciliation)
    BY <2>1, <2>2 DEF Steps
  <2>4. CASE wallet'[i].hydrated = "yes"
    BY <1>1, <2>2, <2>3, <2>4, ReconciliationFacts, NoWipe DEF SameList
  <2>5. CASE wallet'[i].hydrated # "yes"
    <3>1. ReconcileFails(i) /\ wallet[i].hydrated # "yes"
      BY <1>1, <2>1, <2>2, <2>5 DEF Quiet, SameState
    <3>2. UNCHANGED call /\ (disk' = disk \/ disk' = <<>>)
      BY <1>1, <3>1, ReconcileFacts DEF ReconcileFails
    <3> QED
      BY <1>1, <2>2, <2>3, <3>1, <3>2, ReconciliationFacts, NoWipe DEF SameList, SameRead
  <2> QED
    BY <2>4, <2>5
<1>5. CASE RemoveLands(i)
  <2>1. wallet[i].chain # <<>> /\ wallet[i].chain[1].kind = "remove" /\ disk' = <<>>
    BY <1>1, <1>5 DEF RemoveLands, Running
  <2>2. SameList(i) /\ SameRead(i)
    BY <1>1, <1>5, <2>1, TaskOverFacts
  <2>3. wallet'[i].held = <<>> /\ wallet'[i].reading = NotReading
    BY <1>1, <2>1, <2>2 DEF Wiped, Quiet, SameList, SameRead
  <2> QED
    BY <2>1, <2>3 DEF WipeInv, Wiped
<1>6. CASE ResyncRead(i) \/ ReconcileRun(i)
  <2>1. /\ SameList(i) /\ SameState(i) /\ SameTasks(i)
        /\ wallet'[i].reading[1] \in {disk, wallet[i].held, <<>>}
    BY <1>1, <1>6, ReadFacts
  <2>2. (disk' = disk \/ disk' = <<>>) /\ call' = call
    <3>1. ReconcileRun(i) => \E kept \in BOOLEAN : Reconcile(i, kept)
      BY <1>1, ReadFacts
    <3> QED
      BY <1>1, <1>6, <3>1, ReconcileFacts DEF ResyncRead, ReconcileRun
  <2>3. Steps(i, Reconciliation)
    BY <2>1 DEF Steps, SameTasks
  <2> QED
    BY <1>1, <2>1, <2>2, <2>3, ReconciliationFacts, NoWipe DEF SameList, SameState
<1>7. CASE Adopt(i)
  <2>1. /\ wallet[i].chain # <<>> /\ wallet[i].chain[1].kind \in {"resync", "reconcile"}
        /\ wallet[i].reading # NotReading /\ disk' = disk
    BY <1>1, <1>7 DEF Adopt, Quiet
  <2>2. /\ SameState(i) /\ wallet'[i].held = wallet[i].reading[1] /\ wallet'[i].reading = NotReading
        /\ wallet'[i].chain = Tail(wallet[i].chain)
    BY <1>1, <1>7, <2>1, TaskOverFacts
  <2>3. \A n \in DOMAIN wallet[i].chain : wallet[i].chain[n].kind # "remove"
    <3>1. WritesFirst(i) /\ \A n \in DOMAIN wallet[i].chain : n = 1 \/ 1 < n
      BY <1>1, ChainShape DEF OnceInv, ChainInv
    <3> QED
      BY <1>1, <2>1, <3>1 DEF WritesFirst
  <2>4. wallet[i].hydrated # "yes" => call' = call
    <3>1. wallet[i].hydrated # "yes" => ~Running(i, "resync")
      BY <1>1, <2>1 DEF Quiet, Running
    <3> QED
      BY <1>7, <3>1 DEF Adopt
  <2>5. Steps(i, Reconciliation)
    BY <2>1, <2>2 DEF Steps
  <2> QED
    BY <1>1, <2>1, <2>2, <2>3, <2>4, <2>5, ReconciliationFacts, NoWipe DEF SameState
<1> QED
  BY <1>2, <1>3, <1>4, <1>5, <1>6, <1>7 DEF TaskStep, Lands, Breaks

LEMMA BindKeepsWiped ==
    ASSUME OnceInv, WipeInv, NEW i \in Instance, Instance = {i}, NEW k \in Key, SetKeyFingerprint(i, k)
    PROVE  WipeInv'
<1>1. Typed
  BY DEF OnceInv
<1>2. /\ SameList(i) /\ SameState(i) /\ SameRead(i) /\ UNCHANGED <<disk, call>>
      /\ wallet'[i].chain = IF wallet[i].hydrated = "yes"
                            THEN Append(wallet[i].chain, Reconciliation) ELSE wallet[i].chain
  BY <1>1, BindFacts DEF Reconciliation, SetKeyFingerprint
<1>3. Steps(i, Reconciliation)
  BY <1>2 DEF Steps
<1> QED
  BY <1>1, <1>2, <1>3, ReconciliationFacts, NoWipe DEF SameList, SameState, SameRead

\* A call moves without touching the list or storage.
LEMMA MoveKeepsWiped ==
    ASSUME WipeInv, UNCHANGED <<disk, wallet>>,
           \A c \in Caller : call'[c].pc = "resynced" => call[c].pc = "resynced"
    PROVE  WipeInv'
  BY DEF WipeInv, Wiped

\* A call that changes the list, or queues a re-read or a wipe.
LEMMA ChangeKeepsWiped ==
    ASSUME WipeInv, Typed, NEW i \in Instance, Instance = {i}, NEW held \in Lists, NEW task \in Task,
           Enqueue(i, held, task), wallet[i].hydrated = "yes", OnlyWrites(i),
           task.kind = "remove" => held = <<>>
    PROVE  WipeInv'
<1>1. /\ wallet'[i].held = held /\ wallet'[i].chain = Append(wallet[i].chain, task)
      /\ wallet'[i].hydrated = "yes" /\ wallet[i].chain \in Seq(Task)
  BY EnqueueFacts, StoreShape DEF Typed
<1>2. Steps(i, task)
  BY <1>1 DEF Steps
<1>3. PICK k \in 0..1 : \A n \in DOMAIN wallet'[i].chain :
              /\ n \in Nat
              /\ \/ n + k \in DOMAIN wallet[i].chain /\ wallet'[i].chain[n] = wallet[i].chain[n + k]
                 \/ wallet'[i].chain[n] = task /\ \A m \in DOMAIN wallet'[i].chain : m <= n
  BY <1>2, TaskOrigin
<1>4. \A n \in DOMAIN wallet'[i].chain : wallet'[i].chain[n].kind = "remove" => wallet'[i].held = <<>>
  BY <1>1, <1>3 DEF OnlyWrites
<1> QED
  BY <1>1, <1>4 DEF WipeInv, Wiped

----------------------------------------------------------------------------
(* No token twice.                                                          *)

LEMMA CallStepKeeps ==
    ASSUME Single, OnceInv, WipeInv, NEW c \in Caller, CallStep(c)
    PROVE  OnceInv' /\ WipeInv'
<1>1. call[c] \in Call /\ call \in [Caller -> Call] /\ Typed
  BY DEF OnceInv, Typed
<1>2. call[c].pc # "idle"
  BY DEF CallStep, Add, Spend, SpendAgain, Count, Clear, Return, Ready
<1> DEFINE i == call[c].on
<1>3. i \in Instance
  BY <1>1, <1>2, CallShape
<1> HIDE DEF i
<1>4. Instance = {i} /\ wallet[i].held \in Lists
  BY <1>1, <1>3, OneInstance, StoreShape DEF Typed
<1>5. MayMutate(i) => OnlyWrites(i)
  BY DEF MayMutate, OnlyWrites, Single
<1>6. CASE Add(c)
  <2>1. OnlyWrites(i) /\ wallet[i].hydrated = "yes" /\ call[c].op = "add" /\ call[c].on = i
    BY <1>5, <1>6 DEF Add, Ready, i
  <2>2. call[c].batch \in Batch /\ BatchTokens[call[c].batch] \in Seq(Token)
    BY <1>1, <1>2, <2>1, CallShape DEF Single
  <2> DEFINE held == wallet[i].held \o New(BatchTokens[call[c].batch], wallet[i].held)
  <2>3. held \in Lists
    BY <1>4, <2>2, AddedList
  <2>4. Enqueue(i, held, WriteTask(c, held))
    BY <1>6 DEF Add, i
  <2> HIDE DEF held
  <2>5. WriteTask(c, held) \in Task /\ WriteTask(c, held).kind = "write"
    BY <2>3, NewTask
  <2>6. WipeInv'
    BY <1>1, <1>3, <1>4, <2>1, <2>3, <2>4, <2>5, ChangeKeepsWiped
  <2> QED
    BY <1>3, <1>4, <1>6, <2>1, <2>6, AddKeeps
<1>7. ASSUME Take(c), OnlyWrites(i), wallet[i].hydrated = "yes", call[c].op = "spend",
             call[c].pc \in {"hydrate", "resynced"}, ~(Len(wallet[i].held) < call[c].n)
      PROVE  OnceInv' /\ WipeInv'
  <2>1. call[c].n \in Nat
    BY <1>1, <1>7, CallShape DEF Single, WalletAssumption
  <2>2. Len(wallet[i].held) \in Nat
    BY <1>4 DEF Lists
  <2>3. call[c].n \in 0..Len(wallet[i].held)
    BY <1>7, <2>1, <2>2
  <2> DEFINE held == SubSeq(wallet[i].held, call[c].n + 1, Len(wallet[i].held))
  <2>4. held \in Lists
    BY <1>4, <2>3, SplitList
  <2>5. Enqueue(i, held, WriteTask(c, held))
    BY <1>7 DEF Take, i
  <2> HIDE DEF held
  <2>6. WriteTask(c, held) \in Task /\ WriteTask(c, held).kind = "write"
    BY <2>4, NewTask
  <2>7. WipeInv'
    BY <1>1, <1>3, <1>4, <1>7, <2>4, <2>5, <2>6, ChangeKeepsWiped
  <2>8. call[c].on = i
    BY DEF i
  <2> QED
    BY <1>3, <1>4, <1>7, <2>7, <2>8, TakeKeeps
<1>8. ASSUME Count(c) \/ (Spend(c) /\ Len(wallet[i].held) < call[c].n) \/ Clear(c)
      PROVE  OnceInv' /\ WipeInv'
  <2>1. OnlyWrites(i) /\ call[c].on = i
    BY <1>5, <1>8 DEF Count, Spend, Clear, Ready, i
  <2>2. PICK task \in Task, held \in Lists :
              /\ Enqueue(i, held, task) /\ wallet[i].hydrated = "yes"
              /\ task.kind = "resync" \/ (task.kind = "remove" /\ held = <<>>)
    BY <1>3, <1>8, <2>1, QueueFacts
  <2>3. WipeInv'
    BY <1>1, <1>3, <1>4, <2>1, <2>2, ChangeKeepsWiped
  <2> QED
    BY <1>3, <1>4, <1>8, <2>1, <2>3, QueueKeeps
<1>9. CASE Spend(c) /\ ~(Len(wallet[i].held) < call[c].n)
  BY <1>5, <1>7, <1>9 DEF Spend, Ready, i
<1>10. CASE SpendAgain(c) /\ ~(Len(wallet[i].held) < call[c].n)
  <2>1. call[c].pc = "resynced" /\ Take(c) /\ OnlyWrites(i)
    BY <1>5, <1>10 DEF SpendAgain, i
  <2>2. call[c].op = "spend" /\ call[c].n \in Nat \ {0}
    BY <1>1, <2>1, CallShape DEF Single, WalletAssumption
  <2>3. wallet[i].held # <<>>
    BY <1>10, <2>2
  <2>4. wallet[i].hydrated = "yes"
    BY <1>3, <2>1, <2>3 DEF WipeInv, Wiped
  <2> QED
    BY <1>7, <1>10, <2>1, <2>2, <2>4
<1>11. CASE SpendAgain(c) /\ Len(wallet[i].held) < call[c].n
  <2>1. /\ call' = [call EXCEPT ![c] = Idle] /\ call[c].pc = "resynced"
        /\ UNCHANGED <<disk, stamp, wallet, returned, attempted>>
    BY <1>11 DEF SpendAgain, hist, i
  <2>2. Idle \in Call /\ Idle.pc = "idle"
    BY DEF Call, Idle
  <2>3. /\ \A b \in Batch : ~Adding(c, b)'
        /\ \A d \in Caller : call'[d].pc = "resynced" => call[d].pc = "resynced"
    BY <1>1, <2>1, <2>2 DEF Adding
  <2>4. attempted' \subseteq Batch
    BY <1>1, <2>1 DEF Typed
  <2>5. OnceInv'
    BY <1>3, <1>4, <2>1, <2>2, <2>3, <2>4, CallMoves DEF OnceInv
  <2> QED
    BY <2>1, <2>3, <2>5, MoveKeepsWiped
<1>12. CASE Return(c)
  <2>1. call' = [call EXCEPT ![c] = Idle] /\ UNCHANGED <<disk, wallet>> /\ Idle.pc = "idle"
    BY <1>12 DEF Return, Idle
  <2>2. \A d \in Caller : call'[d].pc = "resynced" => call[d].pc = "resynced"
    BY <1>1, <2>1
  <2> QED
    BY <1>3, <1>4, <1>12, <2>1, <2>2, ReturnKeeps, MoveKeepsWiped
<1> QED
  BY <1>6, <1>8, <1>9, <1>10, <1>11, <1>12 DEF CallStep

LEMMA StepKeeps ==
    ASSUME Single, OnceInv, WipeInv, [Next]_vars
    PROVE  OnceInv' /\ WipeInv'
<1>1. CASE UNCHANGED vars
  <2>1. UNCHANGED <<disk, stamp, wallet, call, attempted, returned>>
    BY <1>1 DEF vars
  <2>2. Typed' /\ ChainInv'
    BY <2>1 DEF OnceInv, Typed, ChainInv, WritesFirst, Awaited, Quiet, Asked
  <2>3. \A t : Gone(t)' <=> Gone(t)
    BY <2>1 DEF Gone, Unwritten
  <2>4. \A c \in Caller : /\ Spending(c)' <=> Spending(c)
                          /\ Got(c)' = Got(c)
                          /\ \A i \in Instance : Parted(c, i)' <=> Parted(c, i)
                          /\ \A b \in Batch : Adding(c, b)' <=> Adding(c, b)
    BY <2>1 DEF Spending, Got, Parted, Unwritten, Asked, Adding
  <2>5. SpendInv'
    BY <2>1, <2>3, <2>4 DEF OnceInv, SpendInv
  <2>6. BirthInv'
    BY <2>1, <2>3, <2>4 DEF OnceInv, BirthInv, Unborn
  <2>7. WipeInv'
    BY <2>1, MoveKeepsWiped
  <2> QED
    BY <2>2, <2>5, <2>6, <2>7 DEF OnceInv
<1>2. ASSUME NEW c \in Caller, NEW i \in Instance,
             \/ \E b \in Batch : BeginAdd(c, i, b)
             \/ \E n \in Need : BeginSpend(c, i, n)
             \/ BeginCount(c, i) \/ BeginClear(c, i)
      PROVE  OnceInv' /\ WipeInv'
  <2>1. Instance = {i}
    BY OneInstance
  <2>2. OnceInv'
    BY <1>2, <2>1, BeginAddKeeps, BeginKeeps
  <2>3. call \in [Caller -> Call]
    BY DEF OnceInv, Typed
  <2>4. UNCHANGED <<disk, wallet>> /\ call'[c].pc = "hydrate" /\ \A d \in Caller : d # c => call'[d] = call[d]
    <3>1. ASSUME NEW b \in Batch, BeginAdd(c, i, b)
          PROVE  /\ UNCHANGED <<disk, wallet>>
                 /\ call'[c].pc = "hydrate" /\ \A d \in Caller : d # c => call'[d] = call[d]
      BY <2>3, <3>1 DEF BeginAdd, Begin, hist
    <3>2. ASSUME NEW n \in Need, BeginSpend(c, i, n)
          PROVE  /\ UNCHANGED <<disk, wallet>>
                 /\ call'[c].pc = "hydrate" /\ \A d \in Caller : d # c => call'[d] = call[d]
      BY <2>3, <3>2 DEF BeginSpend, Begin, hist
    <3>3. CASE BeginCount(c, i)
      BY <2>3, <3>3 DEF BeginCount, Begin, hist
    <3>4. CASE BeginClear(c, i)
      BY <2>3, <3>4 DEF BeginClear, Begin, hist
    <3> QED
      BY <1>2, <3>1, <3>2, <3>3, <3>4
  <2>5. \A d \in Caller : call'[d].pc = "resynced" => call[d].pc = "resynced"
    BY <2>4
  <2> QED
    BY <2>2, <2>4, <2>5, MoveKeepsWiped
<1>3. ASSUME NEW i \in Instance, TaskStep(i) PROVE OnceInv' /\ WipeInv'
  BY <1>3, OneInstance, TaskStepKeepsWiped, LoadKeeps, HydrateKeeps, WriteKeeps, RemoveKeeps,
     ReadKeeps, AdoptKeeps, FailureKeeps DEF TaskStep, Lands, Breaks
<1>4. ASSUME NEW i \in Instance, NEW k \in Key, SetKeyFingerprint(i, k) PROVE OnceInv' /\ WipeInv'
  BY <1>4, OneInstance, BindKeeps, BindKeepsWiped
<1>5. CASE Crash
  <2>1. PICK i \in Instance : Instance = {i}
    BY DEF Single
  <2>2. OnceInv'
    BY <1>5, <2>1, CrashKeeps
  <2>3. wallet'[i].chain = <<>> /\ \A c \in Caller : call'[c].pc = "idle"
    BY <1>5, <2>1 DEF Crash, Fresh, Idle
  <2>4. Wiped(i)'
    BY <2>3 DEF Wiped
  <2> QED
    BY <2>1, <2>2, <2>4 DEF WipeInv
<1> QED
  BY <1>1, <1>2, <1>3, <1>4, <1>5, CallStepKeeps DEF Next

LEMMA StartsOnce ==
    ASSUME Single, Init
    PROVE  OnceInv /\ WipeInv
<1>1. Fresh \in Store /\ Idle \in Call /\ <<>> \in Lists
  BY ListFacts DEF Fresh, Idle, Store, Call
<1>2. Typed
  BY <1>1 DEF Init, Typed
<1>3. \A i \in Instance : wallet[i].held = <<>> /\ wallet[i].chain = <<>> /\ wallet[i].reading = NotReading
  BY DEF Init, Fresh
<1>4. \A c \in Caller : call[c].pc = "idle"
  BY DEF Init, Idle
<1>5. ChainInv /\ WipeInv
  BY <1>3, <1>4 DEF ChainInv, WritesFirst, Awaited, Quiet, WipeInv, Wiped
<1>6. \A t : Gone(t)
  BY <1>3, ListFacts DEF Init, Gone, Unwritten
<1>7. SpendInv
  BY <1>4, <1>6 DEF Init, SpendInv, Spending
<1>8. BirthInv
  <2>1. \A b \in Batch : \A t \in ToSet(BatchTokens[b]) : returned[t] = 0
    BY DEF Init, Token
  <2> QED
    BY <1>4, <1>6, <2>1 DEF BirthInv, Spending, Adding
<1> QED
  BY <1>2, <1>5, <1>7, <1>8 DEF OnceInv

\* A second hand-out of a token would find it counted already.
LEMMA StaysOnce ==
    ASSUME Single, OnceInv, NoTokenTwice, [Next]_vars
    PROVE  NoTokenTwice'
<1>1. CASE \E c \in Caller : Return(c)
  <2>1. PICK c \in Caller : Return(c)
    BY <1>1
  <2>2. CASE call[c].op = "spend"
    <3>1. /\ returned' = Returning(call[c].got) /\ Spending(c)
      BY <2>1, <2>2 DEF Return, Spending
    <3>2. \A t \in ToSet(call[c].got) : returned[t] = 0
      BY <3>1 DEF OnceInv, SpendInv, Got
    <3> QED
      BY <3>1, <3>2 DEF NoTokenTwice, Returning
  <2>3. CASE call[c].op # "spend"
    BY <2>1, <2>3 DEF Return, NoTokenTwice
  <2> QED
    BY <2>2, <2>3
<1>2. CASE ~\E c \in Caller : Return(c)
  <2>1. returned' = returned
    <3>1. \A c \in Caller, i \in Instance, b \in Batch : BeginAdd(c, i, b) => returned' = returned
      BY DEF BeginAdd
    <3>2. \A c \in Caller, i \in Instance : (\E n \in Need : BeginSpend(c, i, n)) \/ BeginCount(c, i) \/ BeginClear(c, i)
                                            => returned' = returned
      BY DEF BeginSpend, BeginCount, BeginClear, hist
    <3>3. \A c \in Caller : CallStep(c) => returned' = returned
      BY <1>2 DEF CallStep, Add, Spend, SpendAgain, Count, Clear, Take, Resync, hist
    <3>4. \A i \in Instance : TaskStep(i) => returned' = returned
      <4> SUFFICES ASSUME NEW i \in Instance, TaskStep(i) PROVE returned' = returned
        OBVIOUS
      <4>1. HydrateLoad(i) \/ HydrateFails(i) \/ RemoveLands(i) \/ ResyncRead(i) => returned' = returned
        BY DEF HydrateLoad, HydrateFails, RemoveLands, ResyncRead, hist
      <4>2. Adopt(i) => returned' = returned
        BY DEF Adopt, hist
      <4>3. HydrateReconcile(i) \/ HydrateThrows(i) => returned' = returned
        BY DEF HydrateReconcile, HydrateThrows
      <4>4. ReconcileRun(i) \/ ReconcileFails(i) => returned' = returned
        BY DEF ReconcileRun, ReconcileFails
      <4>5. WriteLands(i) \/ WriteHalfLands(i) => returned' = returned
        BY DEF WriteLands, WriteHalfLands, StoreList
      <4>6. RemoveFails(i) \/ TaskFails(i) => returned' = returned
        BY DEF RemoveFails, TaskFails, hist
      <4> QED
        BY <4>1, <4>2, <4>3, <4>4, <4>5, <4>6 DEF TaskStep
    <3>5. \A i \in Instance, k \in Key : SetKeyFingerprint(i, k) => returned' = returned
      BY DEF SetKeyFingerprint
    <3>6. Crash \/ UNCHANGED vars => returned' = returned
      BY DEF Crash, vars
    <3> QED
      BY <3>1, <3>2, <3>3, <3>4, <3>5, <3>6 DEF Next
  <2> QED
    BY <2>1 DEF NoTokenTwice
<1> QED
  BY <1>1, <1>2

\* What is stored was never handed out, and everything has its type.
LEMMA OnceShows == OnceInv => SpentIsGone /\ TypeOK
<1> SUFFICES ASSUME OnceInv PROVE SpentIsGone /\ TypeOK
  OBVIOUS
<1>1. ASSUME NEW t \in ToSet(disk) PROVE returned[t] = 0
  <2>1. t \in Token
    BY <1>1, ListFacts DEF OnceInv, Typed
  <2> QED
    BY <1>1, <2>1 DEF OnceInv, SpendInv, Gone
<1>2. \A i \in Instance : wallet[i].held \in Seq(Token) /\ IsInjective(wallet[i].held)
  BY StoreShape DEF OnceInv, Typed, Lists
<1>3. \A i \in Instance : \A m, n \in DOMAIN wallet[i].chain :
          /\ wallet[i].chain[m].kind # "reconcile" /\ wallet[i].chain[n].kind # "reconcile"
          /\ m # n
          => wallet[i].chain[m].by # wallet[i].chain[n].by
  BY DEF OnceInv, ChainInv, Awaited, Asked
<1>4. TypeOK
  BY <1>2, <1>3 DEF OnceInv, Typed, TypeOK, Lists
<1> QED
  BY <1>1, <1>4 DEF SpentIsGone

\* Through every overlap of calls, kill, failure of storage, key change and wipe, a token is handed
\* out at most once and is not in storage any more when it is.
THEOREM NeverTokenTwice ==
    ASSUME Single
    PROVE  Spec => [](NoTokenTwice /\ SpentIsGone)
<1>1. Init => OnceInv /\ WipeInv /\ NoTokenTwice
  BY StartsOnce DEF Init, NoTokenTwice
<1>2. OnceInv /\ WipeInv /\ NoTokenTwice /\ [Next]_vars => (OnceInv /\ WipeInv /\ NoTokenTwice)'
  BY StepKeeps, StaysOnce
<1> QED
  BY <1>1, <1>2, OnceShows, PTL DEF Spec

\* Storage, the lists and every pending snapshot hold tokens, each once; a caller waits for at
\* most one task; tokens are counted as handed out once, twice or not at all.
THEOREM TypeCorrect ==
    ASSUME Single
    PROVE  Spec => []TypeOK
<1>1. Init => OnceInv /\ WipeInv
  BY StartsOnce
<1>2. OnceInv /\ WipeInv /\ [Next]_vars => (OnceInv /\ WipeInv)'
  BY StepKeeps
<1> QED
  BY <1>1, <1>2, OnceShows, PTL DEF Spec

----------------------------------------------------------------------------
(* No deposit lost.                                                         *)

\* A token that every snapshot holds, unless it was never read, is safe when a step puts it
\* everywhere.
LEMMA StaysSafe ==
    ASSUME Typed, NEW i \in Instance, Instance = {i}, NEW task \in Task, Steps(i, task),
           NEW t, Bears(i, t)',
           t \notin wallet'[i].unread =>
              /\ \A m \in Unwritten(i, 1) : t \in ToSet(wallet[i].chain[m].snapshot)
              /\ task.kind = "write" => t \in ToSet(task.snapshot)
    PROVE  Safe(t)'
<1>1. PICK k \in 0..1 : \A n \in DOMAIN wallet'[i].chain :
              /\ n \in Nat
              /\ \/ n + k \in DOMAIN wallet[i].chain /\ wallet'[i].chain[n] = wallet[i].chain[n + k]
                 \/ wallet'[i].chain[n] = task /\ \A m \in DOMAIN wallet'[i].chain : m <= n
  BY TaskOrigin
<1>2. ASSUME NEW m \in Unwritten(i, 1)', t \notin wallet'[i].unread
      PROVE  t \in ToSet(wallet'[i].chain[m].snapshot)
  <2>1. m \in DOMAIN wallet'[i].chain /\ m >= 1 /\ wallet'[i].chain[m].kind = "write"
    BY DEF Unwritten
  <2>2. CASE m + k \in DOMAIN wallet[i].chain /\ wallet'[i].chain[m] = wallet[i].chain[m + k]
    <3>1. m + k >= 1
      BY <1>1, <2>1
    <3>2. m + k \in Unwritten(i, 1)
      BY <2>1, <2>2, <3>1 DEF Unwritten
    <3> QED
      BY <1>2, <2>2, <3>2
  <2>3. CASE wallet'[i].chain[m] = task
    BY <1>2, <2>1, <2>3
  <2> QED
    BY <1>1, <2>1, <2>2, <2>3
<1> QED
  BY <1>2 DEF Safe

\* A deposit that waits for its write stays stored with the list.
LEMMA StaysStored ==
    ASSUME Typed, NEW i \in Instance, NEW task \in Task, Steps(i, task), NEW c \in Caller,
           Stored(c, i), call'[c] = call[c], taken \subseteq taken', Dropped \subseteq Dropped',
           \A t \in Given(c) : t \in ToSet(wallet[i].held) /\ t \notin taken' \cup Dropped' =>
              /\ t \in ToSet(wallet'[i].held)
              /\ task.kind = "write" => t \in ToSet(task.snapshot),
           task.kind # "reconcile" => task.by # c
    PROVE  Stored(c, i)'
<1>1. PICK k \in 0..1 : \A n \in DOMAIN wallet'[i].chain :
              /\ n \in Nat
              /\ \/ n + k \in DOMAIN wallet[i].chain /\ wallet'[i].chain[n] = wallet[i].chain[n + k]
                 \/ wallet'[i].chain[n] = task /\ \A m \in DOMAIN wallet'[i].chain : m <= n
  BY TaskOrigin
<1>2. Given(c)' = Given(c)
  BY DEF Given
<1>3. ASSUME NEW t \in Given(c), t \notin taken' \cup Dropped'
      PROVE  /\ t \in ToSet(wallet'[i].held)
             /\ \A n \in DOMAIN wallet'[i].chain : Asked(i, n)' /\ wallet'[i].chain[n].by = c =>
                   \A m \in Unwritten(i, n)' : t \in ToSet(wallet'[i].chain[m].snapshot)
  <2>1. t \notin taken \cup Dropped
    BY <1>3
  <2>2. /\ t \in ToSet(wallet[i].held)
        /\ \A n \in DOMAIN wallet[i].chain : Asked(i, n) /\ wallet[i].chain[n].by = c =>
              \A m \in Unwritten(i, n) : t \in ToSet(wallet[i].chain[m].snapshot)
    BY <2>1 DEF Stored
  <2>3. ASSUME NEW n \in DOMAIN wallet'[i].chain, Asked(i, n)', wallet'[i].chain[n].by = c,
               NEW m \in Unwritten(i, n)'
        PROVE  t \in ToSet(wallet'[i].chain[m].snapshot)
    <3>1. m \in DOMAIN wallet'[i].chain /\ m >= n /\ wallet'[i].chain[m].kind = "write"
      BY DEF Unwritten
    <3>2. wallet'[i].chain[n] # task
      BY <2>3 DEF Asked
    <3>3. n + k \in DOMAIN wallet[i].chain /\ wallet'[i].chain[n] = wallet[i].chain[n + k] /\ Asked(i, n + k)
      BY <1>1, <2>3, <3>2 DEF Asked
    <3>4. CASE m + k \in DOMAIN wallet[i].chain /\ wallet'[i].chain[m] = wallet[i].chain[m + k]
      <4>1. m + k >= n + k
        BY <1>1, <3>1
      <4>2. m + k \in Unwritten(i, n + k)
        BY <3>1, <3>4, <4>1 DEF Unwritten
      <4> QED
        BY <2>2, <2>3, <3>3, <3>4, <4>2
    <3>5. CASE wallet'[i].chain[m] = task
      BY <1>3, <2>2, <3>1, <3>5
    <3> QED
      BY <1>1, <3>1, <3>4, <3>5
  <2> QED
    BY <1>3, <2>2, <2>3
<1> QED
  BY <1>2, <1>3 DEF Stored

\* What a step must do to keep every deposit: what it puts where, and what it says of the calls
\* it moves into a deposit's wait or out of it.
LEMMA KeptStep ==
    ASSUME Typed, KeptInv, NEW i \in Instance, Instance = {i},
           NEW task \in Task, Steps(i, task),
           deposited' = deposited, taken \subseteq taken', Dropped \subseteq Dropped',
           \A t : Safe(t) /\ t \notin taken' \cup Dropped' =>
              /\ Bears(i, t)'
              /\ t \notin wallet'[i].unread => /\ task.kind = "write" => t \in ToSet(task.snapshot)
                                               /\ t \notin wallet[i].unread \/ NoWrite(i),
           \A c \in Caller : Depositing(c)' =>
              \/ call'[c] = call[c]
              \/ /\ call'[c].pc = "landed" => \A t \in Given(c)' : Safe(t)'
                 /\ call'[c].pc = "persist" => Stored(c, i)'
                 /\ Wiping(i)' => Given(c)' \subseteq taken' \cup Dropped',
           \A c \in Caller : Depositing(c) /\ call[c].pc = "persist" /\ call'[c] = call[c] =>
              /\ \A t \in Given(c) : t \in ToSet(wallet[i].held) /\ t \notin taken' \cup Dropped' =>
                    /\ t \in ToSet(wallet'[i].held)
                    /\ task.kind = "write" => t \in ToSet(task.snapshot)
              /\ task.kind # "reconcile" => task.by # c,
           task.kind = "remove" =>
              /\ deposited \subseteq taken' \cup Dropped'
              /\ \A c \in Caller : Depositing(c) => Given(c) \subseteq taken' \cup Dropped',
           wallet'[i].hydrated = "no" /\ wallet'[i].chain # <<>> => disk' = <<>>
    PROVE  KeptInv'
<1>1. ASSUME NEW t, Safe(t) PROVE Safe(t)'
  <2>1. CASE t \in taken' \cup Dropped'
    BY <2>1 DEF Safe
  <2>2. CASE t \notin taken' \cup Dropped'
    <3>1. \/ t \in taken \cup Dropped
          \/ t \notin wallet[i].unread => \A m \in Unwritten(i, 1) : t \in ToSet(wallet[i].chain[m].snapshot)
      BY <1>1 DEF Safe
    <3>2. NoWrite(i) => Unwritten(i, 1) = {}
      BY DEF NoWrite, Unwritten
    <3>3. /\ Bears(i, t)'
          /\ t \notin wallet'[i].unread =>
                /\ \A m \in Unwritten(i, 1) : t \in ToSet(wallet[i].chain[m].snapshot)
                /\ task.kind = "write" => t \in ToSet(task.snapshot)
      BY <1>1, <2>2, <3>1, <3>2
    <3> QED
      BY <3>3, StaysSafe
  <2> QED
    BY <2>1, <2>2
<1>2. \A c \in Caller : call'[c] = call[c] => (Depositing(c)' <=> Depositing(c)) /\ Given(c)' = Given(c)
  BY DEF Depositing, Given
<1>3. \A t \in deposited' : Safe(t)'
  BY <1>1 DEF KeptInv
<1>4. \A c \in Caller : Depositing(c)' /\ call'[c].pc = "landed" => \A t \in Given(c)' : Safe(t)'
  BY <1>1, <1>2 DEF KeptInv
<1>5. ASSUME NEW c \in Caller, Depositing(c)', call'[c].pc = "persist" PROVE Stored(c, i)'
  <2>1. CASE call'[c] = call[c]
    <3>1. Depositing(c) /\ call[c].pc = "persist" /\ Stored(c, i)
      BY <1>2, <1>5, <2>1 DEF KeptInv
    <3> QED
      BY <2>1, <3>1, StaysStored
  <2>2. CASE call'[c] # call[c]
    BY <1>5, <2>2
  <2> QED
    BY <2>1, <2>2
<1>6. Wiping(i)' => Wiping(i) \/ task.kind = "remove"
  <2>1. PICK k \in 0..1 : \A n \in DOMAIN wallet'[i].chain :
              /\ n \in Nat
              /\ \/ n + k \in DOMAIN wallet[i].chain /\ wallet'[i].chain[n] = wallet[i].chain[n + k]
                 \/ wallet'[i].chain[n] = task /\ \A m \in DOMAIN wallet'[i].chain : m <= n
    BY TaskOrigin
  <2> QED
    BY <2>1 DEF Wiping
<1>7. Wiping(i)' => /\ deposited' \subseteq taken' \cup Dropped'
                    /\ \A c \in Caller : Depositing(c)' => Given(c)' \subseteq taken' \cup Dropped'
  <2> SUFFICES ASSUME Wiping(i)'
               PROVE  /\ deposited' \subseteq taken' \cup Dropped'
                      /\ \A c \in Caller : Depositing(c)' => Given(c)' \subseteq taken' \cup Dropped'
    OBVIOUS
  <2>1. /\ deposited \subseteq taken' \cup Dropped'
        /\ \A c \in Caller : Depositing(c) => Given(c) \subseteq taken' \cup Dropped'
    <3>1. CASE Wiping(i)
      <4>1. /\ deposited \subseteq taken \cup Dropped
            /\ \A c \in Caller : Depositing(c) => Given(c) \subseteq taken \cup Dropped
        BY <3>1 DEF KeptInv
      <4> QED
        BY <4>1
    <3> QED
      BY <1>6, <3>1
  <2> QED
    BY <1>2, <2>1
<1> QED
  BY <1>3, <1>4, <1>5, <1>7 DEF KeptInv

\* The same, for a step that queues nothing and moves no call into a deposit's wait.
LEMMA KeptTask ==
    ASSUME OnceInv, KeptInv, NEW i \in Instance, Instance = {i}, Steps(i, Reconciliation),
           UNCHANGED <<deposited, taken>>, Dropped \subseteq Dropped',
           \A t : Safe(t) /\ t \notin taken \cup Dropped' =>
              Bears(i, t)' /\ (t \notin wallet'[i].unread => t \notin wallet[i].unread \/ NoWrite(i)),
           \A c \in Caller : Depositing(c)' => call'[c] = call[c],
           \/ SameList(i)
           \/ \A c \in Caller : ~(Depositing(c) /\ call[c].pc = "persist"),
           wallet'[i].hydrated = "no" /\ wallet'[i].chain # <<>> => disk' = <<>>
    PROVE  KeptInv'
<1>1. Reconciliation \in Task /\ Reconciliation.kind = "reconcile" /\ Typed
  BY ReconciliationFacts DEF OnceInv
<1> HIDE DEF Reconciliation
<1> QED
  BY <1>1, KeptStep DEF SameList

LEMMA NoDepositWaits ==
    ASSUME Typed, ChainInv, NEW i \in Instance,
           \A n \in DOMAIN wallet[i].chain : wallet[i].chain[n].kind # "write"
    PROVE  \A c \in Caller : ~(Depositing(c) /\ call[c].pc = "persist")
<1> SUFFICES ASSUME NEW c \in Caller, Depositing(c), call[c].pc = "persist" PROVE FALSE
  OBVIOUS
<1>1. Awaited(i) /\ wallet[i].chain \in Seq(Task)
  BY StoreShape DEF ChainInv, Typed
<1>2. PICK n \in DOMAIN wallet[i].chain : Asked(i, n) /\ wallet[i].chain[n].by = c
  BY <1>1 DEF Awaited
<1>3. wallet[i].chain[n].kind \in {"resync", "remove"}
  BY <1>1, <1>2, ChainShape, TaskShape DEF Asked
<1> QED
  BY <1>1, <1>2, <1>3 DEF Awaited, Depositing

LEMMA BearsStays ==
    ASSUME NEW i \in Instance, NEW t, Bears(i, t), disk' = disk,
           SameList(i), SameRead(i), SameUnread(i),
           wallet'[i].hydrated # "no" => wallet[i].hydrated # "no",
           wallet[i].reading # NotReading => wallet'[i].chain[1] = wallet[i].chain[1]
    PROVE  Bears(i, t)'
  BY DEF Bears, SameList, SameRead, SameUnread

\* The list is loaded, or fails to be.
LEMMA LoadKeepsDeposits ==
    ASSUME OnceInv, KeptInv, NEW i \in Instance, Instance = {i}, HydrateLoad(i) \/ HydrateFails(i)
    PROVE  KeptInv'
<1>1. Typed /\ ChainInv /\ Quiet(i) /\ \A t : t \notin ToSet(<<>>)
  BY ListFacts DEF OnceInv, ChainInv
<1>2. /\ SameTasks(i) /\ SameRead(i) /\ wallet'[i].hydrated # "no" /\ wallet[i].hydrated = "no"
      /\ HydrateLoad(i) => SameUnread(i) /\ wallet'[i].held = IF disk = <<>> THEN wallet[i].held ELSE disk
      /\ HydrateFails(i) => wallet'[i].unread = ToSet(disk)
      /\ UNCHANGED <<disk, call, deposited, taken, Dropped>>
  BY <1>1, LoadFacts DEF hist, Dropped
<1>3. Steps(i, Reconciliation)
  BY <1>2 DEF Steps, SameTasks
<1>4. ASSUME NEW t, Safe(t), t \notin taken \cup Dropped
      PROVE  Bears(i, t)' /\ (t \notin wallet'[i].unread => t \notin wallet[i].unread)
  <2>1. t \in ToSet(disk) /\ Bears(i, t) /\ disk # <<>>
    BY <1>1, <1>4 DEF Safe, Bears
  <2>2. wallet[i].reading = NotReading
    BY <1>1, <1>2, <2>1 DEF KeptInv, Quiet
  <2> QED
    BY <1>2, <2>1, <2>2 DEF Bears, SameRead, SameUnread
<1>5. \A c \in Caller : ~(Depositing(c) /\ call[c].pc = "persist")
  BY <1>1, <1>2, NoWrites, NoDepositWaits
<1> QED
  BY <1>2, <1>3, <1>4, <1>5, KeptTask

\* A reconciliation that drops the list, rightly or not, empties storage; one that finds no list
\* leaves storage alone.
LEMMA DroppedFacts ==
    ASSUME NEW i \in Instance, Instance = {i}, wallet[i].hydrated # "no" \/ disk = <<>>,
           \/ UNCHANGED <<disk, discarded, forgotten>>
           \/ disk' = (IF wallet[i].held = <<>> THEN disk ELSE <<>>) /\ Lost(i)
    PROVE  /\ Dropped \subseteq Dropped' /\ disk' \in {disk, <<>>}
           /\ \A t : Safe(t) /\ t \notin taken \cup Dropped' =>
                 /\ Bears(i, t) /\ disk' = disk
                 /\ \/ UNCHANGED <<disk, discarded, forgotten>>
                    \/ wallet[i].held = <<>> /\ t \in wallet[i].unread
<1>1. Dropped \subseteq Dropped' /\ disk' \in {disk, <<>>} /\ \A t : t \notin ToSet(<<>>)
  BY ListFacts DEF Lost, Dropped
<1> SUFFICES ASSUME NEW t, Safe(t), t \notin taken \cup Dropped'
             PROVE  /\ Bears(i, t) /\ disk' = disk
                    /\ \/ UNCHANGED <<disk, discarded, forgotten>>
                       \/ wallet[i].held = <<>> /\ t \in wallet[i].unread
  BY <1>1
<1>2. Bears(i, t) /\ t \in ToSet(disk)
  BY <1>1 DEF Safe, Bears
<1>3. CASE UNCHANGED <<disk, discarded, forgotten>>
  BY <1>2, <1>3
<1>4. CASE disk' = (IF wallet[i].held = <<>> THEN disk ELSE <<>>) /\ Lost(i)
  <2>1. wallet[i].held = <<>>
    BY <1>2, <1>4 DEF Lost, Dropped
  <2>2. t \in wallet[i].unread
    BY <1>1, <1>2, <2>1 DEF Bears
  <2> QED
    BY <1>2, <1>4, <2>1, <2>2
<1> QED
  BY <1>3, <1>4

LEMMA HydrateKeepsDeposits ==
    ASSUME OnceInv, KeptInv, NEW i \in Instance, Instance = {i}, HydrateReconcile(i) \/ HydrateThrows(i)
    PROVE  KeptInv'
<1>1. Typed /\ ChainInv
  BY DEF OnceInv
<1>2. /\ SameTasks(i) /\ SameRead(i) /\ SameUnread(i)
      /\ wallet'[i].hydrated = "yes" /\ wallet[i].hydrated = "loading"
      /\ UNCHANGED <<call, deposited, taken>>
  BY <1>1, HydrateFacts
<1>3. /\ \/ UNCHANGED <<disk, discarded, forgotten>>
         \/ disk' = (IF wallet[i].held = <<>> THEN disk ELSE <<>>) /\ Lost(i)
      /\ SameList(i) \/ (disk' = (IF wallet[i].held = <<>> THEN disk ELSE <<>>) /\ Lost(i))
  <2>1. CASE HydrateThrows(i)
    BY <1>1, <2>1, HydrateFacts, ReconcileFacts
  <2>2. CASE HydrateReconcile(i)
    BY <1>1, <2>2, HydrateFacts, ReconcileFacts DEF SameList
  <2> QED
    BY <2>1, <2>2
<1>4. Steps(i, Reconciliation)
  BY <1>2 DEF Steps, SameTasks
<1>5. /\ Dropped \subseteq Dropped'
      /\ \A t : Safe(t) /\ t \notin taken \cup Dropped' =>
            Bears(i, t) /\ disk' = disk /\ (SameList(i) \/ t \in wallet[i].unread)
  <2>1. CASE SameList(i)
    BY <1>2, <1>3, <2>1, DroppedFacts
  <2>2. CASE disk' = (IF wallet[i].held = <<>> THEN disk ELSE <<>>) /\ Lost(i)
    <3>1. \A t : Safe(t) /\ t \notin taken \cup Dropped' => wallet[i].held = <<>> /\ t \in wallet[i].unread
      <4> SUFFICES ASSUME NEW t, Safe(t), t \notin taken \cup Dropped'
                   PROVE  wallet[i].held = <<>> /\ t \in wallet[i].unread
        OBVIOUS
      <4>1. Dropped \subseteq Dropped' /\ ToSet(<<>>) = {}
        BY <2>2, ListFacts DEF Lost, Dropped
      <4>2. Bears(i, t) /\ t \in ToSet(disk)
        BY <4>1 DEF Safe, Bears
      <4>3. wallet[i].held = <<>>
        BY <2>2, <4>2 DEF Lost, Dropped
      <4> QED
        BY <1>2, <4>1, <4>2, <4>3 DEF Bears
    <3> QED
      BY <1>2, <2>2, <3>1, DroppedFacts
  <2> QED
    BY <1>3, <2>1, <2>2
<1>6. ASSUME NEW t, Safe(t), t \notin taken \cup Dropped'
      PROVE  Bears(i, t)' /\ (t \notin wallet'[i].unread => t \notin wallet[i].unread)
  BY <1>2, <1>5, <1>6 DEF Bears, SameList, SameRead, SameUnread, SameTasks
<1>7. \A c \in Caller : ~(Depositing(c) /\ call[c].pc = "persist")
  BY <1>1, <1>2, NoWrites, NoDepositWaits
<1> QED
  BY <1>2, <1>4, <1>5, <1>6, <1>7, KeptTask

\* The reconciliation of a new key runs, or throws.
LEMMA ReconcileKeepsDeposits ==
    ASSUME OnceInv, KeptInv, NEW i \in Instance, Instance = {i}, ReconcileRun(i) \/ ReconcileFails(i)
    PROVE  KeptInv'
<1>1. /\ Typed /\ ChainInv /\ wallet[i].chain \in Seq(Task) /\ wallet[i].chain # <<>>
      /\ wallet[i].chain[1].kind = "reconcile" /\ wallet[i].reading = NotReading
  BY StoreShape, ChainShape DEF OnceInv, Typed, ReconcileRun, ReconcileFails, Running
<1>2. wallet[i].hydrated # "no" \/ disk = <<>>
  BY <1>1 DEF KeptInv
<1>3. /\ SameList(i) /\ SameState(i) /\ SameUnread(i)
      /\ UNCHANGED <<call, deposited, taken>>
      /\ ReconcileFails(i) => SameRead(i) /\ wallet'[i].chain = Tail(wallet[i].chain)
      /\ ReconcileRun(i) => SameTasks(i) /\ wallet'[i].reading # NotReading
  BY <1>1, TaskOverFacts, ReadFacts DEF ReconcileRun, ReconcileFails, Breaks
<1>4. /\ \/ UNCHANGED <<disk, discarded, forgotten>>
         \/ disk' = (IF wallet[i].held = <<>> THEN disk ELSE <<>>) /\ Lost(i)
      /\ ReconcileRun(i) => \/ wallet'[i].reading[1] = wallet[i].held
                            \/ disk' = (IF wallet[i].held = <<>> THEN disk ELSE <<>>) /\ Lost(i)
  <2>1. CASE ReconcileFails(i)
    <3>1. ~ReconcileRun(i)
      BY <1>1, <1>3, <2>1 DEF SameRead
    <3> QED
      BY <1>1, <2>1, <3>1, ReconcileFacts DEF ReconcileFails
  <2>2. CASE ReconcileRun(i)
    <3>1. PICK kept \in BOOLEAN :
             Reconcile(i, kept) /\ wallet'[i].reading[1] = IF kept THEN wallet[i].held ELSE <<>>
      BY <1>1, <2>2, ReadFacts
    <3>2. CASE kept
      <4>1. UNCHANGED <<disk, discarded, forgotten>>
        BY <1>1, <3>1, <3>2, ReconcileFacts
      <4>2. ~ReconcileFails(i)
        BY <1>1, <1>3, <2>2 DEF SameRead
      <4> QED
        BY <3>1, <3>2, <4>1, <4>2
    <3>3. CASE ~kept
      BY <1>1, <3>1, <3>3, ReconcileFacts
    <3> QED
      BY <3>2, <3>3
  <2> QED
    BY <2>1, <2>2
<1>5. Steps(i, Reconciliation)
  BY <1>1, <1>3 DEF Steps, SameTasks
<1>6. /\ Dropped \subseteq Dropped' /\ disk' \in {disk, <<>>}
      /\ \A t : Safe(t) /\ t \notin taken \cup Dropped' => Bears(i, t) /\ disk' = disk
  BY <1>2, <1>4, DroppedFacts
<1>7. ASSUME NEW t, Safe(t), t \notin taken \cup Dropped'
      PROVE  Bears(i, t)' /\ (t \notin wallet'[i].unread => t \notin wallet[i].unread)
  <2>1. Bears(i, t) /\ disk' = disk /\ t \in ToSet(disk)
    BY <1>6, <1>7 DEF Bears
  <2>2. CASE ReconcileFails(i)
    BY <1>1, <1>3, <2>1, <2>2, BearsStays DEF SameState, SameUnread
  <2>3. CASE ReconcileRun(i)
    <3>1. wallet'[i].chain[1].kind # "resync" /\ wallet[i].hydrated # "no" /\ ToSet(<<>>) = {}
      BY <1>1, <1>2, <1>3, <2>1, <2>3, ListFacts DEF SameTasks
    <3>2. CASE wallet'[i].reading[1] = wallet[i].held
      BY <1>3, <2>1, <3>1, <3>2 DEF Bears, SameList, SameState, SameUnread
    <3>3. CASE disk' = (IF wallet[i].held = <<>> THEN disk ELSE <<>>) /\ Lost(i)
      <4>1. t \in wallet[i].unread
        BY <1>7, <2>1, <3>1, <3>3 DEF Bears, Lost, Dropped
      <4> QED
        BY <1>3, <2>1, <3>1, <4>1 DEF Bears, SameUnread
    <3> QED
      BY <1>4, <2>3, <3>2, <3>3
  <2> QED
    BY <1>3, <2>2, <2>3 DEF SameUnread
<1>8. wallet'[i].hydrated = "no" /\ wallet'[i].chain # <<>> => disk' = <<>>
  BY <1>2, <1>3, <1>6 DEF SameState
<1> QED
  BY <1>3, <1>5, <1>6, <1>7, <1>8, KeptTask

\* A wipe that lands, or fails half-way, finds every deposit dropped already.
LEMMA RemoveKeepsDeposits ==
    ASSUME OnceInv, KeptInv, NEW i \in Instance, Instance = {i}, RemoveLands(i) \/ RemoveFails(i)
    PROVE  KeptInv'
<1> DEFINE d == Head(wallet[i].chain).by
<1>1. /\ Typed /\ Quiet(i) /\ Awaited(i) /\ wallet[i].chain \in Seq(Task) /\ call \in [Caller -> Call]
      /\ wallet[i].chain # <<>> /\ 1 \in DOMAIN wallet[i].chain
      /\ wallet[i].chain[1].kind = "remove" /\ Head(wallet[i].chain) = wallet[i].chain[1]
  BY StoreShape, ChainShape DEF OnceInv, ChainInv, Typed, RemoveLands, RemoveFails, Running
<1>2. wallet[i].chain[1] \in Task /\ d \in Caller /\ call[d] \in Call
  BY <1>1, ChainShape, TaskShape
<1>3. call[d].op = "clear" /\ call[d].pc = "persist" /\ wallet[i].hydrated = "yes"
  BY <1>1 DEF Awaited, Quiet
<1>4. UNCHANGED <<deposited, taken, Dropped>>
  BY DEF RemoveLands, RemoveFails, hist, Dropped
<1>5. \A c \in Caller : Depositing(c)' => call'[c] = call[c]
  <2>1. CASE RemoveFails(i)
    <3>1. call' = [call EXCEPT ![d] = Idle]
      BY <2>1 DEF RemoveFails
    <3> HIDE DEF d
    <3> QED
      BY <1>1, <1>2, <3>1 DEF Depositing, Idle
  <2>2. CASE RemoveLands(i)
    <3>1. call' = [call EXCEPT ![d].pc = "landed"]
      BY <2>2 DEF RemoveLands, Landed
    <3> HIDE DEF d
    <3>2. [call[d] EXCEPT !.pc = "landed"].op = "clear"
      BY <1>2, <1>3, SetPc
    <3> QED
      BY <1>1, <1>2, <3>1, <3>2 DEF Depositing
  <2> QED
    BY <2>1, <2>2
<1>6. wallet'[i].hydrated = "no" => disk' = <<>>
  <2>1. CASE RemoveFails(i)
    BY <1>1, <1>3, <2>1, TaskOverFacts DEF Breaks, SameState
  <2>2. CASE RemoveLands(i)
    BY <2>2 DEF RemoveLands
  <2> QED
    BY <2>1, <2>2
<1>7. /\ deposited \subseteq taken \cup Dropped
      /\ \A c \in Caller : Depositing(c) => Given(c) \subseteq taken \cup Dropped
  BY <1>1 DEF Wiping, KeptInv
<1>8. \A c \in Caller : Depositing(c)' => Given(c)' \subseteq taken' \cup Dropped'
  BY <1>4, <1>5, <1>7 DEF Depositing, Given
<1> QED
  BY <1>4, <1>6, <1>7, <1>8 DEF KeptInv, Safe, Stored

LEMMA AdoptKeepsDeposits ==
    ASSUME OnceInv, KeptInv, NEW i \in Instance, Instance = {i}, Adopt(i)
    PROVE  KeptInv'
<1>1. /\ Typed /\ ChainInv /\ Quiet(i) /\ Awaited(i) /\ wallet[i].chain \in Seq(Task)
      /\ call \in [Caller -> Call]
  BY StoreShape DEF OnceInv, ChainInv, Typed
<1>2. /\ wallet[i].reading # NotReading
      /\ wallet[i].chain # <<>> /\ wallet[i].chain[1].kind \in {"resync", "reconcile"}
      /\ 1 \in DOMAIN wallet[i].chain /\ Head(wallet[i].chain) = wallet[i].chain[1]
  BY <1>1, ChainShape DEF Adopt, Quiet
<1>3. /\ SameState(i) /\ wallet'[i].held = wallet[i].reading[1] /\ wallet'[i].reading = NotReading
      /\ wallet'[i].unread = (IF Running(i, "resync") THEN {} ELSE wallet[i].unread)
      /\ wallet'[i].chain = Tail(wallet[i].chain)
      /\ UNCHANGED <<disk, deposited, taken, Dropped>>
  BY <1>1, <1>2, TaskOverFacts DEF Adopt, hist, Dropped
<1>4. Steps(i, Reconciliation)
  BY <1>2, <1>3 DEF Steps
<1>5. NoWrite(i) /\ \A c \in Caller : ~(Depositing(c) /\ call[c].pc = "persist")
  BY <1>1, <1>2, NoWrites, NoDepositWaits DEF NoWrite
<1>6. ASSUME NEW t, Safe(t), t \notin taken \cup Dropped
      PROVE  Bears(i, t)'
  <2>1. Bears(i, t)
    BY <1>6 DEF Safe
  <2>2. CASE Running(i, "resync")
    BY <1>2, <1>3, <2>1, <2>2 DEF Bears, Running
  <2>3. CASE ~Running(i, "resync")
    BY <1>2, <1>3, <2>1, <2>3 DEF Bears
  <2> QED
    BY <2>2, <2>3
<1>7. \A c \in Caller : Depositing(c)' => call'[c] = call[c]
  <2>1. CASE ~Running(i, "resync")
    BY <2>1 DEF Adopt
  <2>2. CASE Running(i, "resync")
    <3> DEFINE d == Head(wallet[i].chain).by
    <3>1. /\ call' = IF call[d].op = "count" THEN [call EXCEPT ![d] = Idle]
                     ELSE [call EXCEPT ![d].pc = "resynced"]
          /\ d \in Caller /\ call[d].pc = "resync" /\ call[d] \in Call
      <4>1. wallet[i].chain[1] \in Task /\ wallet[i].chain[1].kind = "resync"
        BY <1>1, <1>2, <2>2, ChainShape DEF Running
      <4>2. d \in Caller /\ call[d].pc = "resync"
        BY <1>1, <1>2, <4>1, TaskShape DEF Awaited
      <4> QED
        BY <1>1, <2>2, <4>2 DEF Adopt
    <3> HIDE DEF d
    <3>2. call[d].op = "count" \/ call[d].op = "spend"
      BY <3>1, CallShape
    <3>3. call[d].op = "spend" => [call[d] EXCEPT !.pc = "resynced"].pc = "resynced"
      BY <3>1, SetPc
    <3>4. call'[d].pc \in {"idle", "resynced"} /\ \A c \in Caller : c # d => call'[c] = call[c]
      BY <1>1, <3>1, <3>2, <3>3 DEF Idle
    <3> QED
      BY <3>4 DEF Depositing
  <2> QED
    BY <2>1, <2>2
<1>8. wallet'[i].hydrated = "no" /\ wallet'[i].chain # <<>> => disk' = <<>>
  BY <1>2, <1>3 DEF SameState, KeptInv
<1> QED
  BY <1>3, <1>4, <1>5, <1>6, <1>7, <1>8, KeptTask

LEMMA FailureKeepsDeposits ==
    ASSUME OnceInv, KeptInv, NEW i \in Instance, Instance = {i}, TaskFails(i)
    PROVE  KeptInv'
<1>1. /\ Typed /\ Quiet(i) /\ wallet[i].chain \in Seq(Task) /\ call \in [Caller -> Call]
      /\ wallet[i].chain # <<>> /\ wallet[i].chain[1].kind \in {"write", "resync"}
      /\ Head(wallet[i].chain) = wallet[i].chain[1] /\ wallet[i].reading = NotReading
  BY StoreShape, ChainShape DEF OnceInv, ChainInv, Typed, TaskFails, Running
<1>2. /\ SameList(i) /\ SameState(i) /\ SameRead(i) /\ SameUnread(i)
      /\ wallet'[i].chain = Tail(wallet[i].chain)
      /\ UNCHANGED <<disk, deposited, taken, Dropped>>
  BY <1>1, TaskOverFacts DEF TaskFails, Breaks, hist, Dropped
<1>3. Steps(i, Reconciliation)
  BY <1>1, <1>2 DEF Steps
<1>4. wallet[i].hydrated = "yes"
  BY <1>1, ChainShape DEF Quiet
<1>5. \A c \in Caller : Depositing(c)' => call'[c] = call[c]
  <2> DEFINE d == Head(wallet[i].chain).by
  <2>1. \/ call' = [call EXCEPT ![d].pc = "resynced"] /\ call[d].pc = "resync" /\ call[d].op = "spend"
        \/ call' = [call EXCEPT ![d] = Idle]
    <3>1. call' = IF call[d].pc = "resync" /\ call[d].op = "spend"
                  THEN [call EXCEPT ![d].pc = "resynced"] ELSE [call EXCEPT ![d] = Idle]
      BY DEF TaskFails
    <3> HIDE DEF d
    <3> QED
      BY <3>1
  <2>2. d \in Caller
    <3>1. wallet[i].chain[1] \in Task /\ wallet[i].chain[1].by \in Caller
      BY <1>1, ChainShape, TaskShape
    <3> QED
      BY <1>1, <3>1
  <2> HIDE DEF d
  <2>3. call[d].pc = "resync" /\ call[d].op = "spend" => [call[d] EXCEPT !.pc = "resynced"].pc = "resynced"
    BY <1>1, <2>2, SetPc DEF OnceInv, Typed
  <2>4. CASE call' = [call EXCEPT ![d] = Idle]
    BY <1>1, <2>2, <2>4 DEF Depositing, Idle
  <2>5. CASE call' = [call EXCEPT ![d].pc = "resynced"] /\ call[d].pc = "resync" /\ call[d].op = "spend"
    <3>1. call'[d].pc = "resynced" /\ \A c \in Caller : c # d => call'[c] = call[c]
      BY <1>1, <2>2, <2>3, <2>5
    <3> QED
      BY <3>1 DEF Depositing
  <2> QED
    BY <2>1, <2>4, <2>5
<1>6. \A t : Safe(t) /\ t \notin taken \cup Dropped => Bears(i, t)'
  BY <1>1, <1>2, BearsStays DEF Safe, SameState
<1> QED
  BY <1>2, <1>3, <1>4, <1>5, <1>6, KeptTask DEF SameState, SameUnread

LEMMA TaskStepKeepsDeposits ==
    ASSUME OnceInv, KeptInv, NEW i \in Instance, Instance = {i}, TaskStep(i), ~Lands(i)
    PROVE  KeptInv'
<1>1. ASSUME ResyncRead(i) PROVE KeptInv'
  <2>1. /\ SameList(i) /\ SameState(i) /\ SameTasks(i) /\ SameUnread(i) /\ wallet'[i].reading[1] = disk
        /\ UNCHANGED <<disk, call, deposited, taken, Dropped>>
    BY <1>1, ReadFacts DEF ResyncRead, OnceInv, hist, Dropped
  <2>2. Steps(i, Reconciliation)
    BY <2>1 DEF Steps, SameTasks
  <2>3. \A t : Safe(t) /\ t \notin taken \cup Dropped => Bears(i, t)'
    BY <2>1 DEF Safe, Bears, SameState, SameList, SameUnread
  <2>4. wallet'[i].hydrated = "no" /\ wallet'[i].chain # <<>> => disk' = <<>>
    BY <2>1 DEF KeptInv, SameState, SameTasks
  <2> QED
    BY <2>1, <2>2, <2>3, <2>4, KeptTask DEF SameUnread
<1> QED
  BY <1>1, LoadKeepsDeposits, HydrateKeepsDeposits, ReconcileKeepsDeposits, RemoveKeepsDeposits,
     AdoptKeepsDeposits, FailureKeepsDeposits DEF TaskStep, Lands

\* The list is written: a deposit's write lands, and from here on it is safe; what the instance
\* never read, and does not write back, is forgotten.
LEMMA WriteKeepsDeposits ==
    ASSUME OnceInv, KeptInv, NEW i \in Instance, Instance = {i}, Lands(i)
    PROVE  KeptInv'
<1> DEFINE task == Head(wallet[i].chain)
<1>1. /\ wallet[i].chain # <<>> /\ wallet[i].chain \in Seq(Task) /\ task = wallet[i].chain[1]
      /\ 1 \in DOMAIN wallet[i].chain /\ task.kind = "write" /\ \E d \in Caller : d = task.by
  BY StoreShape, ChainShape, TaskShape DEF Lands, WriteLands, WriteHalfLands, Running, OnceInv, Typed
<1>2. PICK d \in Caller : d = task.by
  BY <1>1
<1>3. /\ SameList(i) /\ SameState(i) /\ SameRead(i) /\ SameUnread(i)
      /\ wallet'[i].chain = Tail(wallet[i].chain)
  BY <1>1, TaskOverFacts DEF OnceInv
<1>4. /\ UNCHANGED <<deposited, taken>> /\ disk' = task.snapshot
      /\ Dropped' = Dropped \cup (wallet[i].unread \ ToSet(task.snapshot))
      /\ \/ call' = [call EXCEPT ![d].pc = "landed"]
         \/ call' = [call EXCEPT ![d] = Idle]
  <2>1. StoreList(i)
    BY DEF Lands, WriteLands, WriteHalfLands
  <2>2. \/ call' = [call EXCEPT ![d].pc = "landed"]
        \/ call' = [call EXCEPT ![d] = Idle]
    BY <1>2 DEF Lands, WriteLands, WriteHalfLands, Landed
  <2> QED
    BY <2>1, <2>2 DEF StoreList, Dropped
<1>5. call[d].pc = "persist" /\ call[d].op \in {"add", "spend"} /\ call[d] \in Call
  BY <1>1, <1>2 DEF OnceInv, ChainInv, Awaited, Typed
<1> HIDE DEF task
<1>6. /\ \/ /\ call'[d].pc = "landed" /\ call'[d].op = call[d].op
            /\ call[d].op = "add" => call'[d].batch = call[d].batch
         \/ call'[d].pc = "idle"
      /\ \A c \in Caller : c # d => call'[c] = call[c]
  <2>1. call \in [Caller -> Call]
    BY DEF OnceInv, Typed
  <2>2. CASE call' = [call EXCEPT ![d].pc = "landed"]
    BY <1>5, <2>1, <2>2, SetPc
  <2>3. CASE call' = [call EXCEPT ![d] = Idle]
    BY <2>1, <2>3 DEF Idle
  <2> QED
    BY <1>4, <2>2, <2>3
<1>7. wallet[i].reading = NotReading /\ wallet[i].hydrated = "yes"
  BY <1>1 DEF OnceInv, ChainInv, Quiet
<1>8. Steps(i, Reconciliation)
  BY <1>1, <1>3 DEF Steps
<1>9. 1 \in Unwritten(i, 1)
  BY <1>1 DEF Unwritten
<1>10. ASSUME NEW t, Safe(t), t \notin taken' \cup Dropped' PROVE Bears(i, t)'
  <2>1. Bears(i, t) /\ t \in ToSet(task.snapshot)
    BY <1>1, <1>4, <1>9, <1>10 DEF Safe
  <2> QED
    BY <1>3, <1>4, <1>7, <2>1 DEF Bears, SameList, SameState, SameRead, SameUnread
<1>11. Depositing(d)' => Depositing(d) /\ Given(d)' = Given(d)
  BY <1>5, <1>6 DEF Depositing, Given
<1>12. ASSUME Depositing(d)', NEW t \in Given(d)' PROVE Safe(t)'
  <2>1. CASE t \in taken \cup Dropped
    BY <1>4, <2>1 DEF Safe
  <2>2. CASE t \notin taken \cup Dropped
    <3>1. Stored(d, i) /\ t \in Given(d)
      BY <1>5, <1>11, <1>12 DEF KeptInv
    <3>2. Asked(i, 1) /\ wallet[i].chain[1].by = d
      BY <1>1, <1>2 DEF Asked
    <3>3. t \in ToSet(wallet[i].held) /\ \A m \in Unwritten(i, 1) : t \in ToSet(wallet[i].chain[m].snapshot)
      BY <1>1, <2>2, <3>1, <3>2 DEF Stored
    <3>4. Bears(i, t)'
      BY <1>1, <1>3, <1>4, <1>7, <1>9, <3>3 DEF Bears, SameList, SameRead
    <3> QED
      BY <1>8, <3>3, <3>4, ReconciliationFacts, StaysSafe DEF OnceInv
  <2> QED
    BY <2>1, <2>2
<1>13. Wiping(i)' /\ Depositing(d)' => Given(d)' \subseteq taken' \cup Dropped'
  <2> SUFFICES ASSUME Wiping(i)', Depositing(d)' PROVE Given(d)' \subseteq taken' \cup Dropped'
    OBVIOUS
  <2>1. Wiping(i)
    BY <1>1, <1>3, ChainShape DEF Wiping
  <2> QED
    BY <1>4, <1>11, <2>1 DEF KeptInv
<1>14. \A c \in Caller : Depositing(c)' =>
              \/ call'[c] = call[c]
              \/ /\ call'[c].pc = "landed" => \A t \in Given(c)' : Safe(t)'
                 /\ call'[c].pc = "persist" => Stored(c, i)'
                 /\ Wiping(i)' => Given(c)' \subseteq taken' \cup Dropped'
  <2> SUFFICES ASSUME NEW c \in Caller, Depositing(c)', c = d
               PROVE  /\ call'[c].pc = "landed" => \A t \in Given(c)' : Safe(t)'
                      /\ call'[c].pc = "persist" => Stored(c, i)'
                      /\ Wiping(i)' => Given(c)' \subseteq taken' \cup Dropped'
    BY <1>6
  <2>1. call'[c].pc # "persist"
    BY <1>6
  <2>2. \A t \in Given(c)' : Safe(t)'
    BY <1>12
  <2>3. Wiping(i)' => Given(c)' \subseteq taken' \cup Dropped'
    BY <1>13
  <2> QED
    BY <2>1, <2>2, <2>3
<1>15. \A c \in Caller : Depositing(c) /\ call[c].pc = "persist" /\ call'[c] = call[c] =>
              \A t \in Given(c) : t \in ToSet(wallet[i].held) => t \in ToSet(wallet'[i].held)
  BY <1>3 DEF SameList
<1>16. Typed /\ wallet'[i].hydrated # "no" /\ Dropped \subseteq Dropped'
  BY <1>3, <1>4, <1>7 DEF OnceInv, SameState
<1>17. Reconciliation \in Task /\ Reconciliation.kind = "reconcile"
  BY ReconciliationFacts
<1> HIDE DEF Reconciliation
<1> QED
  BY <1>3, <1>4, <1>8, <1>10, <1>14, <1>15, <1>16, <1>17, KeptStep DEF SameUnread

\* A call moves; the list, storage and the history of deposits stay.
LEMMA MoveKeepsDeposits ==
    ASSUME OnceInv, KeptInv, NEW i \in Instance, Instance = {i},
           UNCHANGED <<disk, wallet, deposited, taken, discarded, forgotten>>,
           \A c \in Caller : Depositing(c)' => call'[c] = call[c]
    PROVE  KeptInv'
<1>1. Steps(i, Reconciliation) /\ SameList(i) /\ UNCHANGED <<disk, wallet, deposited, taken, Dropped>>
  BY DEF Steps, SameList, Dropped
<1>2. \A t : Safe(t) /\ t \notin taken \cup Dropped' => Bears(i, t)'
  BY <1>1 DEF Safe, Bears
<1>3. wallet'[i].hydrated = "no" /\ wallet'[i].chain # <<>> => disk' = <<>>
  BY DEF KeptInv
<1> QED
  BY <1>1, <1>2, <1>3, KeptTask

LEMMA BindKeepsDeposits ==
    ASSUME OnceInv, KeptInv, NEW i \in Instance, Instance = {i}, NEW k \in Key, SetKeyFingerprint(i, k)
    PROVE  KeptInv'
<1>1. Typed /\ Quiet(i) /\ wallet[i].chain \in Seq(Task)
  BY StoreShape DEF OnceInv, ChainInv, Typed
<1>2. /\ SameList(i) /\ SameState(i) /\ SameRead(i) /\ SameUnread(i)
      /\ UNCHANGED <<disk, call, deposited, taken, Dropped>>
      /\ wallet'[i].chain = IF wallet[i].hydrated = "yes"
                            THEN Append(wallet[i].chain, Reconciliation) ELSE wallet[i].chain
  BY <1>1, BindFacts DEF Reconciliation, SetKeyFingerprint, Dropped
<1>3. Steps(i, Reconciliation)
  BY <1>2 DEF Steps
<1>4. wallet[i].reading # NotReading => wallet'[i].chain[1] = wallet[i].chain[1]
  BY <1>1, <1>2, ChainShape, ReconciliationFacts DEF Quiet
<1>5. \A t : Safe(t) /\ t \notin taken \cup Dropped' => Bears(i, t)'
  BY <1>2, <1>4, BearsStays DEF Safe, SameState
<1>6. wallet'[i].hydrated = "no" /\ wallet'[i].chain # <<>> => disk' = <<>>
  BY <1>2 DEF KeptInv, SameState
<1> QED
  BY <1>2, <1>3, <1>5, <1>6, KeptTask DEF SameUnread

\* A killed process forgets the calls and the lists; storage holds every acknowledged deposit.
LEMMA CrashKeepsDeposits ==
    ASSUME KeptInv, NEW i \in Instance, Instance = {i}, Crash
    PROVE  KeptInv'
<1>1. /\ UNCHANGED <<disk, deposited, taken, Dropped>>
      /\ wallet'[i].chain = <<>> /\ wallet'[i].reading = NotReading /\ wallet'[i].hydrated = "no"
      /\ \A c \in Caller : call'[c].pc = "idle"
  BY DEF Crash, Fresh, Idle, Dropped
<1>2. \A t : Safe(t) => Safe(t)'
  BY <1>1 DEF Safe, Bears, Unwritten
<1> QED
  BY <1>1, <1>2 DEF KeptInv, Depositing, Wiping

\* A deposit returns once its write has landed.
LEMMA ReturnKeepsDeposits ==
    ASSUME OnceInv, KeptInv, NEW i \in Instance, Instance = {i}, NEW c \in Caller, Return(c)
    PROVE  KeptInv'
<1>1. /\ call[c].pc = "landed" /\ call' = [call EXCEPT ![c] = Idle] /\ call \in [Caller -> Call]
      /\ deposited' = IF call[c].op = "add" THEN deposited \cup Given(c) ELSE deposited
      /\ UNCHANGED <<disk, wallet, taken, Dropped>>
  BY DEF Return, OnceInv, Typed, Given, Dropped
<1>2. \A t : Safe(t)' <=> Safe(t)
  BY <1>1 DEF Safe, Bears, Unwritten
<1>3. \A d \in Caller : Depositing(d)' => Depositing(d) /\ Given(d)' = Given(d) /\ call'[d] = call[d]
  BY <1>1 DEF Depositing, Given, Idle
<1>4. call[c].op = "add" => Depositing(c)
  BY <1>1 DEF Depositing
<1>5. \A t \in deposited' : Safe(t)'
  BY <1>1, <1>2, <1>4 DEF KeptInv
<1>6. \A d \in Caller : Depositing(d)' /\ call'[d].pc = "landed" => \A t \in Given(d)' : Safe(t)'
  BY <1>2, <1>3 DEF KeptInv
<1>7. ASSUME NEW d \in Caller, Depositing(d)', call'[d].pc = "persist" PROVE Stored(d, i)'
  <2>1. Stored(d, i) /\ Given(d)' = Given(d)
    BY <1>3, <1>7 DEF KeptInv
  <2> QED
    BY <1>1, <2>1 DEF Stored, Unwritten, Asked
<1>8. Wiping(i)' => /\ deposited' \subseteq taken' \cup Dropped'
                    /\ \A d \in Caller : Depositing(d)' => Given(d)' \subseteq taken' \cup Dropped'
  <2>1. Wiping(i)' <=> Wiping(i)
    BY <1>1 DEF Wiping
  <2> QED
    BY <1>1, <1>3, <1>4, <2>1 DEF KeptInv
<1> QED
  BY <1>1, <1>5, <1>6, <1>7, <1>8 DEF KeptInv

\* A call that waits for nothing yet finds no task of its own but the one it queues.
LEMMA OwnTask ==
    ASSUME OnceInv, NEW i \in Instance, NEW c \in Caller, NEW task \in Task,
           OnlyWrites(i), call[c].pc \notin {"persist", "resync"},
           wallet'[i].chain = Append(wallet[i].chain, task), task.by = c
    PROVE  \A n, m \in DOMAIN wallet'[i].chain :
              wallet'[i].chain[n].by = c /\ m >= n => wallet'[i].chain[m] = task
<1>1. wallet[i].chain \in Seq(Task) /\ Awaited(i) /\ Typed
  BY StoreShape DEF OnceInv, ChainInv, Typed
<1>2. \A m \in DOMAIN wallet[i].chain : wallet[i].chain[m].by # c
  BY <1>1 DEF Awaited, OnlyWrites
<1>3. Steps(i, task)
  BY DEF Steps
<1>4. PICK k \in 0..1 : \A l \in DOMAIN wallet'[i].chain :
              /\ l \in Nat
              /\ \/ l + k \in DOMAIN wallet[i].chain /\ wallet'[i].chain[l] = wallet[i].chain[l + k]
                 \/ wallet'[i].chain[l] = task /\ \A m \in DOMAIN wallet'[i].chain : m <= l
  BY <1>1, <1>3, TaskOrigin
<1> SUFFICES ASSUME NEW n \in DOMAIN wallet'[i].chain, wallet'[i].chain[n].by = c, NEW m \in DOMAIN wallet'[i].chain, m >= n
             PROVE  wallet'[i].chain[m] = task
  OBVIOUS
<1>5. wallet'[i].chain[n] = task /\ \A o \in DOMAIN wallet'[i].chain : o <= n
  BY <1>2, <1>4
<1>6. m = n
  BY <1>4, <1>5
<1> QED
  BY <1>5, <1>6

LEMMA AddKeepsDeposits ==
    ASSUME Single, OnceInv, KeptInv, NEW i \in Instance, Instance = {i}, NEW c \in Caller, Add(c),
           call[c].on = i, OnlyWrites(i)
    PROVE  KeptInv'
<1> DEFINE held == wallet[i].held \o New(BatchTokens[call[c].batch], wallet[i].held)
           task == WriteTask(c, held)
<1>1. /\ call[c].pc = "hydrate" /\ call[c].op = "add" /\ wallet[i].hydrated = "yes" /\ call[c] \in Call
      /\ call \in [Caller -> Call]
  BY DEF Add, Ready, OnceInv, Typed
<1>2. BatchTokens[call[c].batch] \in Seq(Token)
  BY <1>1, CallShape DEF Single
<1>3. held \in Lists /\ ToSet(held) = ToSet(wallet[i].held) \cup Given(c)
  BY <1>2, AddedList, StoreShape DEF OnceInv, Typed, Given
<1>4. task \in Task /\ task.kind = "write" /\ task.by = c /\ task.snapshot = held
  BY <1>3, NewTask
<1>5. /\ Enqueue(i, held, task) /\ call' = [call EXCEPT ![c].pc = "persist"]
      /\ UNCHANGED <<disk, deposited, taken, Dropped>>
  BY DEF Add, hist, Dropped
<1> HIDE DEF held, task
<1>6. /\ wallet'[i].held = held /\ wallet'[i].chain = Append(wallet[i].chain, task)
      /\ wallet'[i].hydrated = wallet[i].hydrated /\ wallet'[i].reading = wallet[i].reading
      /\ wallet'[i].unread = wallet[i].unread
  BY <1>3, <1>4, <1>5, EnqueueFacts DEF OnceInv, Typed
<1>7. /\ call'[c].pc = "persist" /\ call'[c].batch = call[c].batch
      /\ \A d \in Caller : d # c => call'[d] = call[d]
  BY <1>1, <1>5, SetPc
<1>8. Steps(i, task) /\ Typed
  BY <1>6 DEF Steps, OnceInv
<1>9. Given(c)' = Given(c)
  BY <1>7 DEF Given
<1>a. wallet[i].reading = NotReading
  BY <1>8, StoreShape, ChainShape DEF OnceInv, ChainInv, Quiet, OnlyWrites, Typed
<1>10. \A t : Safe(t) /\ t \notin taken' \cup Dropped' =>
              Bears(i, t)' /\ (t \notin wallet'[i].unread => t \in ToSet(task.snapshot))
  BY <1>1, <1>3, <1>4, <1>5, <1>6, <1>a DEF Safe, Bears
<1>11. Stored(c, i)'
  <2>1. \A n, m \in DOMAIN wallet'[i].chain :
              wallet'[i].chain[n].by = c /\ m >= n => wallet'[i].chain[m] = task
    <3>1. call[c].pc \notin {"persist", "resync"} /\ wallet'[i].chain = Append(wallet[i].chain, task)
      BY <1>1, <1>6
    <3>2. task \in Task /\ task.by = c
      BY <1>4
    <3> QED
      BY <3>1, <3>2, OwnTask
  <2>2. \A t \in Given(c)' : t \in ToSet(wallet'[i].held) /\ t \in ToSet(task.snapshot)
    BY <1>3, <1>4, <1>6, <1>9
  <2>3. \A n \in DOMAIN wallet'[i].chain : Asked(i, n)' /\ wallet'[i].chain[n].by = c =>
              \A m \in Unwritten(i, n)' : wallet'[i].chain[m] = task
    BY <2>1 DEF Unwritten
  <2> QED
    BY <2>2, <2>3 DEF Stored
<1>12. ~Wiping(i)'
  <2>1. PICK k \in 0..1 : \A n \in DOMAIN wallet'[i].chain :
              /\ n \in Nat
              /\ \/ n + k \in DOMAIN wallet[i].chain /\ wallet'[i].chain[n] = wallet[i].chain[n + k]
                 \/ wallet'[i].chain[n] = task /\ \A m \in DOMAIN wallet'[i].chain : m <= n
    BY <1>4, <1>8, TaskOrigin
  <2> QED
    BY <1>4, <2>1 DEF Wiping, OnlyWrites
<1>13. \A d \in Caller : Depositing(d)' =>
              \/ call'[d] = call[d]
              \/ /\ call'[d].pc = "landed" => \A t \in Given(d)' : Safe(t)'
                 /\ call'[d].pc = "persist" => Stored(d, i)'
                 /\ Wiping(i)' => Given(d)' \subseteq taken' \cup Dropped'
  BY <1>7, <1>11, <1>12
<1>14. \A d \in Caller : Depositing(d) /\ call[d].pc = "persist" /\ call'[d] = call[d] =>
              /\ \A t \in Given(d) : t \in ToSet(wallet[i].held) =>
                    t \in ToSet(wallet'[i].held) /\ t \in ToSet(task.snapshot)
              /\ task.by # d
  BY <1>1, <1>3, <1>4, <1>6
<1> QED
  BY <1>1, <1>4, <1>5, <1>6, <1>8, <1>10, <1>13, <1>14, KeptStep

\* A spend drops only the tokens it takes.
LEMMA TakeKeepsDeposits ==
    ASSUME Single, OnceInv, KeptInv, NEW i \in Instance, Instance = {i}, NEW c \in Caller, Take(c),
           call[c].on = i, OnlyWrites(i), wallet[i].hydrated = "yes",
           call[c].op = "spend", call[c].pc \in {"hydrate", "resynced"},
           ~(Len(wallet[i].held) < call[c].n)
    PROVE  KeptInv'
<1> DEFINE n == call[c].n
           got == SubSeq(wallet[i].held, 1, n)
           held == SubSeq(wallet[i].held, n + 1, Len(wallet[i].held))
           task == WriteTask(c, held)
           x == [pc |-> "persist", op |-> "spend", on |-> i, got |-> got]
<1>1. wallet[i].held \in Lists /\ call[c] \in Call /\ call \in [Caller -> Call] /\ Typed
  BY StoreShape DEF OnceInv, Typed
<1>2. n \in 0..Len(wallet[i].held)
  <2>1. n \in Nat
    BY <1>1, CallShape DEF Single, WalletAssumption
  <2>2. Len(wallet[i].held) \in Nat
    BY <1>1 DEF Lists
  <2> QED
    BY <2>1, <2>2
<1>3. held \in Lists /\ ToSet(wallet[i].held) = ToSet(got) \cup ToSet(held)
  <2> HIDE DEF n
  <2> QED
    BY <1>1, <1>2, SplitList
<1>4. task \in Task /\ task.kind = "write" /\ task.by = c /\ task.snapshot = held
  <2> HIDE DEF held
  <2> QED
    BY <1>3, NewTask DEF task
<1>5. /\ Enqueue(i, held, task) /\ call' = [call EXCEPT ![c] = x]
      /\ taken' = taken \cup ToSet(got) /\ UNCHANGED <<disk, deposited, Dropped>>
  BY DEF Take, Dropped
<1>6. x.op = "spend"
  OBVIOUS
<1> HIDE DEF got, held, task, n, x
<1>7. /\ wallet'[i].held = held /\ wallet'[i].chain = Append(wallet[i].chain, task)
      /\ wallet'[i].hydrated = wallet[i].hydrated /\ wallet'[i].reading = wallet[i].reading
      /\ wallet'[i].unread = wallet[i].unread
  BY <1>3, <1>4, <1>5, EnqueueFacts DEF OnceInv, Typed
<1>8. Steps(i, task)
  BY <1>7 DEF Steps
<1>a. wallet[i].reading = NotReading
  BY StoreShape, ChainShape DEF OnceInv, ChainInv, Quiet, OnlyWrites, Typed
<1>9. \A t : Safe(t) /\ t \notin taken' \cup Dropped' =>
              Bears(i, t)' /\ (t \notin wallet'[i].unread => t \in ToSet(task.snapshot))
  BY <1>3, <1>4, <1>5, <1>7, <1>a DEF Safe, Bears
<1>10. \A d \in Caller : /\ Depositing(d)' => call'[d] = call[d]
                         /\ Depositing(d) => d # c
  BY <1>1, <1>5, <1>6 DEF Depositing
<1>11. \A d \in Caller : Depositing(d) =>
              /\ \A t \in Given(d) : t \in ToSet(wallet[i].held) /\ t \notin taken' \cup Dropped' =>
                    t \in ToSet(wallet'[i].held) /\ t \in ToSet(task.snapshot)
              /\ task.by # d
  BY <1>3, <1>4, <1>5, <1>7, <1>10
<1> QED
  BY <1>1, <1>4, <1>5, <1>7, <1>8, <1>9, <1>10, <1>11, KeptStep

\* A re-read changes nothing yet; a wipe drops the list and storage with every deposit in them.
LEMMA QueueKeepsDeposits ==
    ASSUME OnceInv, KeptInv, NEW i \in Instance, Instance = {i}, NEW c \in Caller, call[c].on = i,
           OnlyWrites(i),
           Count(c) \/ (Spend(c) /\ Len(wallet[i].held) < call[c].n) \/ Clear(c)
    PROVE  KeptInv'
<1>1. PICK task \in Task, held \in Lists :
              /\ Enqueue(i, held, task) /\ task.by = c /\ wallet[i].hydrated = "yes"
              /\ call[c].pc = "hydrate" /\ call[c].op \in {"spend", "count", "clear"}
              /\ \/ task.kind = "resync" /\ held = wallet[i].held /\ call'[c].pc = "resync"
                 \/ task.kind = "remove" /\ held = <<>> /\ call'[c].pc = "persist" /\ call'[c].op = "clear"
              /\ \A d \in Caller : d # c => call'[d] = call[d]
              /\ UNCHANGED <<disk, deposited, taken, forgotten>>
              /\ discarded' = IF task.kind = "remove"
                              THEN discarded \cup ToSet(wallet[i].held) \cup ToSet(disk) ELSE discarded
  BY QueueFacts
<1>2. /\ wallet'[i].held = held /\ wallet'[i].chain = Append(wallet[i].chain, task)
      /\ wallet'[i].hydrated = "yes" /\ wallet'[i].reading = wallet[i].reading
      /\ wallet'[i].unread = wallet[i].unread
  BY <1>1, EnqueueFacts DEF OnceInv, Typed
<1>3. /\ UNCHANGED <<deposited, taken>> /\ Dropped \subseteq Dropped'
      /\ task.kind = "remove" => Dropped' = Dropped \cup ToSet(wallet[i].held) \cup ToSet(disk)
  BY <1>1 DEF Dropped
<1>a. wallet[i].reading = NotReading
  BY StoreShape, ChainShape DEF OnceInv, ChainInv, Quiet, OnlyWrites, Typed
<1>4. Steps(i, task) /\ Typed /\ task.kind # "write"
  BY <1>1, <1>2 DEF Steps, OnceInv
<1>5. \A t : Safe(t) /\ t \notin taken' \cup Dropped' => Bears(i, t)'
  BY <1>1, <1>2, <1>3, <1>a DEF Safe, Bears
<1>6. \A d \in Caller : /\ Depositing(d)' => call'[d] = call[d]
                        /\ Depositing(d) => d # c
  BY <1>1 DEF Depositing
<1>7. \A d \in Caller : Depositing(d) /\ call[d].pc = "persist" =>
              /\ \A t \in Given(d) : t \in ToSet(wallet[i].held) /\ t \notin taken' \cup Dropped' =>
                    t \in ToSet(wallet'[i].held)
              /\ task.by # d
  BY <1>1, <1>2, <1>3, <1>6
<1>8. task.kind = "remove" =>
              /\ deposited \subseteq taken' \cup Dropped'
              /\ \A d \in Caller : Depositing(d) => Given(d) \subseteq taken' \cup Dropped'
  <2> SUFFICES ASSUME task.kind = "remove"
               PROVE  /\ deposited \subseteq taken' \cup Dropped'
                      /\ \A d \in Caller : Depositing(d) => Given(d) \subseteq taken' \cup Dropped'
    OBVIOUS
  <2>1. \A t : Safe(t) => t \in taken' \cup Dropped'
    BY <1>3 DEF Safe, Bears
  <2>2. ASSUME NEW d \in Caller, Depositing(d) PROVE Given(d) \subseteq taken' \cup Dropped'
    <3>1. CASE call[d].pc = "landed"
      BY <2>1, <2>2, <3>1 DEF KeptInv
    <3>2. CASE call[d].pc = "persist"
      BY <1>3, <2>2, <3>2 DEF KeptInv, Stored
    <3> QED
      BY <2>2, <3>1, <3>2 DEF Depositing
  <2> QED
    BY <2>1, <2>2 DEF KeptInv
<1> QED
  BY <1>2, <1>3, <1>4, <1>5, <1>6, <1>7, <1>8, KeptStep

LEMMA CallStepKeepsDeposits ==
    ASSUME Single, OnceInv, WipeInv, KeptInv, NEW c \in Caller, CallStep(c)
    PROVE  KeptInv'
<1>1. call[c] \in Call /\ call \in [Caller -> Call] /\ Typed
  BY DEF OnceInv, Typed
<1>2. call[c].pc # "idle"
  BY DEF CallStep, Add, Spend, SpendAgain, Count, Clear, Return, Ready
<1>3. PICK i \in Instance : i = call[c].on
  BY <1>1, <1>2, CallShape
<1>4. Instance = {i}
  BY OneInstance
<1>5. MayMutate(i) => OnlyWrites(i)
  BY DEF MayMutate, OnlyWrites, Single
<1>6. CASE Add(c)
  BY <1>3, <1>4, <1>5, <1>6, AddKeepsDeposits DEF Add, Ready
<1>7. CASE Count(c) \/ (Spend(c) /\ Len(wallet[i].held) < call[c].n) \/ Clear(c)
  BY <1>3, <1>4, <1>5, <1>7, QueueKeepsDeposits DEF Count, Spend, Clear, Ready
<1>8. CASE Spend(c) /\ ~(Len(wallet[i].held) < call[c].n)
  <2>1. Take(c) /\ wallet[i].hydrated = "yes" /\ call[c].op = "spend" /\ call[c].pc = "hydrate"
    BY <1>3, <1>8 DEF Spend, Ready
  <2>2. OnlyWrites(i)
    BY <1>3, <1>5, <1>8 DEF Spend, Ready
  <2> QED
    BY <1>3, <1>4, <1>8, <2>1, <2>2, TakeKeepsDeposits
<1>9. CASE SpendAgain(c) /\ ~(Len(wallet[i].held) < call[c].n)
  <2>1. call[c].pc = "resynced" /\ Take(c) /\ OnlyWrites(i)
    BY <1>3, <1>5, <1>9 DEF SpendAgain
  <2>2. call[c].op = "spend" /\ call[c].n \in Nat \ {0}
    BY <1>1, <2>1, CallShape DEF Single, WalletAssumption
  <2>3. wallet[i].held # <<>>
    BY <1>9, <2>2
  <2>4. wallet[i].hydrated = "yes"
    BY <2>1, <2>3 DEF WipeInv, Wiped
  <2> QED
    BY <1>3, <1>4, <1>9, <2>1, <2>2, <2>4, TakeKeepsDeposits
<1>10. CASE SpendAgain(c) /\ Len(wallet[i].held) < call[c].n
  <2>1. /\ call' = [call EXCEPT ![c] = Idle]
        /\ UNCHANGED <<disk, wallet, deposited, taken, discarded, forgotten>>
    BY <1>3, <1>10 DEF SpendAgain, hist
  <2>2. \A d \in Caller : Depositing(d)' => call'[d] = call[d]
    BY <1>1, <2>1 DEF Depositing, Idle
  <2> QED
    BY <1>4, <2>1, <2>2, MoveKeepsDeposits
<1>11. CASE Return(c)
  BY <1>4, <1>11, ReturnKeepsDeposits
<1> QED
  BY <1>6, <1>7, <1>8, <1>9, <1>10, <1>11 DEF CallStep

LEMMA StepKeepsDeposits ==
    ASSUME Single, OnceInv, WipeInv, KeptInv, [Next]_vars
    PROVE  KeptInv'
<1>1. PICK i \in Instance : Instance = {i}
  BY DEF Single
<1>2. call \in [Caller -> Call]
  BY DEF OnceInv, Typed
<1>3. CASE UNCHANGED vars
  <2>1. UNCHANGED <<disk, wallet, deposited, taken, discarded, forgotten>> /\ \A d \in Caller : call'[d] = call[d]
    BY <1>3 DEF vars
  <2> QED
    BY <1>1, <2>1, MoveKeepsDeposits
<1>4. ASSUME NEW c \in Caller,
             \/ \E b \in Batch : BeginAdd(c, i, b)
             \/ \E n \in Need : BeginSpend(c, i, n)
             \/ BeginCount(c, i) \/ BeginClear(c, i)
      PROVE  KeptInv'
  <2>1. /\ UNCHANGED <<disk, wallet, deposited, taken, discarded, forgotten>>
        /\ call'[c].pc = "hydrate" /\ \A d \in Caller : d # c => call'[d] = call[d]
    <3>1. ASSUME NEW b \in Batch, BeginAdd(c, i, b)
          PROVE  /\ UNCHANGED <<disk, wallet, deposited, taken, discarded, forgotten>>
                 /\ call'[c].pc = "hydrate" /\ \A d \in Caller : d # c => call'[d] = call[d]
      BY <1>2, <3>1 DEF BeginAdd, Begin
    <3>2. ASSUME NEW n \in Need, BeginSpend(c, i, n)
          PROVE  /\ UNCHANGED <<disk, wallet, deposited, taken, discarded, forgotten>>
                 /\ call'[c].pc = "hydrate" /\ \A d \in Caller : d # c => call'[d] = call[d]
      BY <1>2, <3>2 DEF BeginSpend, Begin, hist
    <3>3. CASE BeginCount(c, i)
      BY <1>2, <3>3 DEF BeginCount, Begin, hist
    <3>4. CASE BeginClear(c, i)
      BY <1>2, <3>4 DEF BeginClear, Begin, hist
    <3> QED
      BY <1>4, <3>1, <3>2, <3>3, <3>4
  <2>2. \A d \in Caller : Depositing(d)' => call'[d] = call[d]
    BY <2>1 DEF Depositing
  <2> QED
    BY <1>1, <2>1, <2>2, MoveKeepsDeposits
<1>5. ASSUME TaskStep(i) PROVE KeptInv'
  BY <1>1, <1>5, WriteKeepsDeposits, TaskStepKeepsDeposits
<1>6. ASSUME NEW k \in Key, SetKeyFingerprint(i, k) PROVE KeptInv'
  BY <1>1, <1>6, BindKeepsDeposits
<1>7. CASE Crash
  BY <1>1, <1>7, CrashKeepsDeposits
<1> QED
  BY <1>1, <1>3, <1>4, <1>5, <1>6, <1>7, CallStepKeepsDeposits DEF Next

LEMMA KeptStarts == Init => KeptInv
<1> SUFFICES ASSUME Init PROVE KeptInv
  OBVIOUS
<1>1. \A i \in Instance : wallet[i].chain = <<>>
  BY DEF Init, Fresh
<1>2. \A c \in Caller : call[c].pc = "idle"
  BY DEF Init, Idle
<1> QED
  BY <1>1, <1>2 DEF Init, KeptInv, Depositing, Wiping

LEMMA KeptShows ==
    ASSUME Single
    PROVE  KeptInv => DepositKept
<1> SUFFICES ASSUME KeptInv, NEW t \in deposited
             PROVE  t \in ToSet(disk) \cup taken \cup discarded \cup forgotten
  BY DEF DepositKept
<1>1. PICK i \in Instance : Instance = {i}
  BY DEF Single
<1>2. Safe(t)
  BY DEF KeptInv
<1> QED
  BY <1>1, <1>2 DEF Safe, Bears, Dropped

\* A deposit that was acknowledged is in storage until a spend takes it, a key change or a wipe
\* drops it, or a failed read of the stamp or of the list makes the wallet forget it: no snapshot
\* of another call, no re-read, no kill, and no failure to write or to remove erases it.
THEOREM DepositAlwaysKept ==
    ASSUME Single
    PROVE  Spec => []DepositKept
<1>1. Init => OnceInv /\ WipeInv /\ KeptInv
  BY StartsOnce, KeptStarts
<1>2. OnceInv /\ WipeInv /\ KeptInv /\ [Next]_vars => (OnceInv /\ WipeInv /\ KeptInv)'
  BY StepKeeps, StepKeepsDeposits
<1> QED
  BY <1>1, <1>2, KeptShows, PTL DEF Spec

----------------------------------------------------------------------------
(* Memory and storage.                                                      *)

\* The last snapshot still to be written is the list, unless a wipe follows it.
Newest(i) ==
    ~Wiping(i) => \A n \in DOMAIN wallet[i].chain :
        /\ wallet[i].chain[n].kind = "write"
        /\ \A m \in DOMAIN wallet[i].chain : m > n => wallet[i].chain[m].kind # "write"
        => wallet[i].chain[n].snapshot = wallet[i].held

\* Nothing is held before the first load, and a wiped wallet stays empty until it is loaded
\* again.  With no write pending the list is what is stored, and so is a list just read.
InStep(i) ==
    /\ Newest(i)
    /\ wallet[i].hydrated = "no" => wallet[i].held = <<>>
    /\ wallet[i].hydrated # "yes" /\ wallet[i].chain # <<>> => disk = <<>> /\ wallet[i].held = <<>>
    /\ ~Wiping(i) /\ wallet[i].hydrated # "no" /\ NoWrite(i) /\ wallet[i].reading = NotReading
          => wallet[i].held = disk
    /\ wallet[i].reading # NotReading => wallet[i].reading[1] = disk

MatchInv == \A i \in Instance : InStep(i)

\* Tasks leave the chain, or one that is no write joins it, and the list stays.
LEMMA NewestStays ==
    ASSUME Typed, NEW i \in Instance, NEW task \in Task, Steps(i, task), task.kind # "write",
           SameList(i), Newest(i),
           wallet[i].chain # <<>> /\ wallet'[i].chain = Tail(wallet[i].chain)
              => wallet[i].chain[1].kind # "remove"
    PROVE  Newest(i)'
<1> DEFINE ch == wallet[i].chain
           cn == wallet'[i].chain
<1>1. ch \in Seq(Task) /\ Len(ch) \in Nat /\ DOMAIN ch = 1..Len(ch)
  BY StoreShape, ChainShape DEF Typed
<1> SUFFICES ASSUME ~Wiping(i)', NEW n \in DOMAIN cn, cn[n].kind = "write",
                    \A m \in DOMAIN cn : m > n => cn[m].kind # "write"
             PROVE  cn[n].snapshot = wallet[i].held
  BY DEF Newest, SameList
<1>a. \A p \in DOMAIN cn : cn[p].kind # "remove"
  BY DEF Wiping
<1>b. ASSUME \A p \in DOMAIN ch : ch[p].kind # "remove",
             NEW p \in DOMAIN ch, ch[p] = cn[n], \A m \in DOMAIN ch : m > p => ch[m].kind # "write"
      PROVE  cn[n].snapshot = wallet[i].held
  BY <1>b DEF Newest, Wiping
<1>2. CASE cn = ch
  BY <1>2, <1>a, <1>b
<1>3. CASE ch # <<>> /\ cn = Tail(ch)
  <2>1. /\ n \in Nat /\ n + 1 \in DOMAIN ch /\ cn[n] = ch[n + 1] /\ ch[1].kind # "remove"
        /\ \A m \in DOMAIN ch : m # 1 => m - 1 \in DOMAIN cn /\ cn[m - 1] = ch[m]
    <3>1. /\ \A p \in DOMAIN cn : p \in Nat /\ p >= 1 /\ p + 1 \in DOMAIN ch /\ cn[p] = ch[p + 1]
          /\ \A p \in DOMAIN ch : p # 1 => p - 1 \in DOMAIN cn
      BY <1>1, <1>3, ChainShape
    <3>2. \A p \in DOMAIN ch : p # 1 => p - 1 \in DOMAIN cn /\ cn[p - 1] = ch[p]
      <4> SUFFICES ASSUME NEW p \in DOMAIN ch, p # 1 PROVE p - 1 \in DOMAIN cn /\ cn[p - 1] = ch[p]
        OBVIOUS
      <4>1. p \in Nat /\ (p - 1) + 1 = p
        BY <1>1
      <4> QED
        BY <3>1, <4>1
    <3> QED
      BY <1>3, <3>1, <3>2
  <2> HIDE DEF ch, cn
  <2>2. \A p \in DOMAIN ch : ch[p].kind # "remove"
    BY <1>a, <2>1
  <2>3. \A m \in DOMAIN ch : m > n + 1 => ch[m].kind # "write"
    <3> SUFFICES ASSUME NEW m \in DOMAIN ch, m > n + 1 PROVE ch[m].kind # "write"
      OBVIOUS
    <3>1. m \in Nat /\ m # 1 /\ m - 1 > n
      BY <1>1, <2>1
    <3> QED
      BY <2>1, <3>1
  <2> QED
    BY <1>b, <2>1, <2>2, <2>3
<1>4. CASE cn = Append(ch, task)
  <2>1. /\ DOMAIN cn = 1..(Len(ch) + 1) /\ cn[Len(ch) + 1] = task
        /\ \A p \in DOMAIN ch : p \in DOMAIN cn /\ cn[p] = ch[p]
    BY <1>1, <1>4, ChainShape
  <2> HIDE DEF ch, cn
  <2>2. n # Len(ch) + 1
    BY <2>1
  <2>3. n \in DOMAIN ch
    BY <1>1, <2>1, <2>2
  <2> QED
    BY <1>a, <1>b, <2>1, <2>3
<1> QED
  BY <1>2, <1>3, <1>4 DEF Steps

LEMMA MoveKeepsMatch ==
    ASSUME MatchInv, UNCHANGED <<disk, wallet>>
    PROVE  MatchInv'
  BY DEF MatchInv, InStep, Newest, Wiping, NoWrite

LEMMA BindKeepsMatch ==
    ASSUME OnceInv, MatchInv, NEW i \in Instance, Instance = {i}, NEW k \in Key, SetKeyFingerprint(i, k)
    PROVE  MatchInv'
<1>1. Typed /\ InStep(i)
  BY DEF OnceInv, MatchInv
<1>2. /\ SameList(i) /\ SameState(i) /\ SameRead(i) /\ disk' = disk
      /\ wallet'[i].chain = IF wallet[i].hydrated = "yes"
                            THEN Append(wallet[i].chain, Reconciliation) ELSE wallet[i].chain
  BY <1>1, BindFacts DEF Reconciliation, SetKeyFingerprint
<1>3. Steps(i, Reconciliation)
  BY <1>2 DEF Steps
<1>4. /\ wallet[i].chain \in Seq(Task)
      /\ \A n \in DOMAIN wallet[i].chain : n \in DOMAIN wallet'[i].chain /\ wallet'[i].chain[n] = wallet[i].chain[n]
  BY <1>1, <1>2, StoreShape, ChainShape, ReconciliationFacts DEF Typed
<1>5. (Wiping(i) => Wiping(i)') /\ (NoWrite(i)' => NoWrite(i))
  BY <1>4 DEF Wiping, NoWrite
<1>6. ~(wallet[i].chain # <<>> /\ wallet'[i].chain = Tail(wallet[i].chain))
  <2> SUFFICES ASSUME wallet[i].chain # <<>>, wallet'[i].chain = Tail(wallet[i].chain) PROVE FALSE
    OBVIOUS
  <2>1. /\ Len(wallet[i].chain) \in Nat /\ DOMAIN wallet[i].chain = 1..Len(wallet[i].chain)
        /\ 1 \in DOMAIN wallet[i].chain /\ DOMAIN wallet'[i].chain = 1..(Len(wallet[i].chain) - 1)
    BY <1>4, ChainShape
  <2>2. Len(wallet[i].chain) \in DOMAIN wallet'[i].chain
    BY <1>4, <2>1
  <2> QED
    BY <2>1, <2>2
<1>7. Newest(i)'
  BY <1>1, <1>2, <1>3, <1>6, ReconciliationFacts, NewestStays DEF InStep
<1>8. wallet'[i].hydrated # "yes" => wallet'[i].chain = wallet[i].chain
  BY <1>2 DEF SameState
<1> QED
  BY <1>1, <1>2, <1>5, <1>7, <1>8 DEF MatchInv, InStep, SameList, SameState, SameRead

\* A killed process starts with an empty list and an empty chain.
LEMMA CrashKeepsMatch ==
    ASSUME Crash
    PROVE  MatchInv'
<1>1. \A i \in Instance : /\ wallet'[i].chain = <<>> /\ wallet'[i].reading = NotReading
                          /\ wallet'[i].hydrated = "no" /\ wallet'[i].held = <<>>
  BY DEF Crash, Fresh
<1> QED
  BY <1>1 DEF MatchInv, InStep, Newest

\* A changed list joins the chain as its last snapshot.
LEMMA WriteQueuedKeepsMatch ==
    ASSUME OnceInv, MatchInv, NEW i \in Instance, Instance = {i}, NEW c \in Caller, NEW held \in Lists,
           Enqueue(i, held, WriteTask(c, held)), wallet[i].hydrated = "yes", OnlyWrites(i), disk' = disk
    PROVE  MatchInv'
<1> DEFINE task == WriteTask(c, held)
<1>1. Typed /\ InStep(i) /\ Quiet(i) /\ wallet[i].chain \in Seq(Task)
  BY StoreShape DEF OnceInv, MatchInv, ChainInv, Typed
<1>2. task \in Task /\ task.kind = "write" /\ task.snapshot = held
  BY NewTask
<1> HIDE DEF task
<1>3. /\ wallet'[i].held = held /\ wallet'[i].chain = Append(wallet[i].chain, task)
      /\ wallet'[i].hydrated = wallet[i].hydrated /\ wallet'[i].reading = wallet[i].reading
  BY <1>1, <1>2, EnqueueFacts DEF Typed, task
<1>4. /\ Len(wallet[i].chain) \in Nat /\ DOMAIN wallet'[i].chain = 1..(Len(wallet[i].chain) + 1)
      /\ wallet'[i].chain[Len(wallet[i].chain) + 1] = task
  BY <1>1, <1>2, <1>3, ChainShape
<1>5. wallet[i].reading = NotReading
  BY <1>1, ChainShape DEF Quiet, OnlyWrites
<1>6. ~NoWrite(i)'
  BY <1>2, <1>4 DEF NoWrite
<1>7. Newest(i)'
  <2> SUFFICES ASSUME NEW n \in DOMAIN wallet'[i].chain,
                      \A m \in DOMAIN wallet'[i].chain : m > n => wallet'[i].chain[m].kind # "write"
               PROVE  wallet'[i].chain[n].snapshot = wallet'[i].held
    BY DEF Newest
  <2>1. PICK l : l = Len(wallet[i].chain) + 1
    OBVIOUS
  <2>2. l \in DOMAIN wallet'[i].chain /\ wallet'[i].chain[l].kind = "write" /\ n \in 1..l /\ l \in Nat
    BY <1>2, <1>4, <2>1
  <2>3. n = l
    BY <2>2
  <2> QED
    BY <1>2, <1>3, <1>4, <2>1, <2>3
<1> QED
  BY <1>3, <1>5, <1>6, <1>7 DEF MatchInv, InStep

\* A re-read queued behind the writes leaves the list alone, and a wipe empties it.
LEMMA QueueKeepsMatch ==
    ASSUME OnceInv, MatchInv, NEW i \in Instance, Instance = {i}, NEW task \in Task, NEW held \in Lists,
           Enqueue(i, held, task), wallet[i].hydrated = "yes", OnlyWrites(i), disk' = disk,
           (task.kind = "resync" /\ held = wallet[i].held) \/ task.kind = "remove"
    PROVE  MatchInv'
<1>1. Typed /\ InStep(i) /\ Quiet(i) /\ wallet[i].chain \in Seq(Task)
  BY StoreShape DEF OnceInv, MatchInv, ChainInv, Typed
<1>2. /\ wallet'[i].held = held /\ wallet'[i].chain = Append(wallet[i].chain, task)
      /\ wallet'[i].hydrated = wallet[i].hydrated /\ wallet'[i].reading = wallet[i].reading
  BY <1>1, EnqueueFacts DEF Typed
<1>3. /\ Len(wallet[i].chain) \in Nat /\ DOMAIN wallet'[i].chain = 1..(Len(wallet[i].chain) + 1)
      /\ wallet'[i].chain[Len(wallet[i].chain) + 1] = task
      /\ \A n \in DOMAIN wallet[i].chain : n \in DOMAIN wallet'[i].chain /\ wallet'[i].chain[n] = wallet[i].chain[n]
  BY <1>1, <1>2, ChainShape
<1>4. wallet[i].reading = NotReading
  BY <1>1, ChainShape DEF Quiet, OnlyWrites
<1>5. CASE task.kind = "remove"
  <2>1. Wiping(i)'
    BY <1>3, <1>5 DEF Wiping
  <2> QED
    BY <1>2, <1>4, <2>1 DEF MatchInv, InStep, Newest
<1>6. CASE task.kind = "resync" /\ held = wallet[i].held
  <2>1. ~Wiping(i) /\ (NoWrite(i)' => NoWrite(i))
    BY <1>3 DEF Wiping, OnlyWrites, NoWrite
  <2>2. Steps(i, task) /\ SameList(i)
    BY <1>2, <1>6 DEF Steps, SameList
  <2>3. wallet[i].chain # <<>> => wallet[i].chain[1].kind # "remove"
    BY <1>1, ChainShape DEF OnlyWrites
  <2>4. Newest(i)'
    BY <1>1, <1>6, <2>2, <2>3, NewestStays DEF InStep
  <2> QED
    BY <1>1, <1>2, <1>4, <1>6, <2>1, <2>4 DEF MatchInv, InStep
<1> QED
  BY <1>5, <1>6

LEMMA TaskStepKeepsMatch ==
    ASSUME ~StorageFails, OnceInv, WipeInv, MatchInv, NEW i \in Instance, Instance = {i}, TaskStep(i)
    PROVE  MatchInv'
<1>1. /\ Typed /\ InStep(i) /\ Quiet(i) /\ WritesFirst(i) /\ ChainInv /\ Wiped(i)
      /\ wallet[i].chain \in Seq(Task)
      /\ wallet[i].chain # <<>> => 1 \in DOMAIN wallet[i].chain /\ Head(wallet[i].chain) = wallet[i].chain[1]
  BY StoreShape, ChainShape DEF OnceInv, ChainInv, WipeInv, MatchInv, Typed
<1>2. ASSUME SameTasks(i)
      PROVE  Steps(i, Reconciliation) /\ (Wiping(i)' <=> Wiping(i)) /\ (NoWrite(i)' <=> NoWrite(i))
  BY <1>2 DEF SameTasks, Steps, Wiping, NoWrite
<1>3. ASSUME wallet[i].chain # <<>>, wallet'[i].chain = Tail(wallet[i].chain),
             wallet[i].chain[1].kind # "remove"
      PROVE  (Wiping(i) => Wiping(i)') /\ Steps(i, Reconciliation)
  <2>1. \A p \in DOMAIN wallet[i].chain : p # 1 =>
           p - 1 \in DOMAIN wallet'[i].chain /\ wallet'[i].chain[p - 1] = wallet[i].chain[p]
    <3>1. /\ \A p \in DOMAIN wallet'[i].chain : wallet'[i].chain[p] = wallet[i].chain[p + 1]
          /\ \A p \in DOMAIN wallet[i].chain : p \in Nat /\ (p # 1 => p - 1 \in DOMAIN wallet'[i].chain)
      BY <1>1, <1>3, ChainShape
    <3>2. \A p \in Nat : (p - 1) + 1 = p
      OBVIOUS
    <3> QED
      BY <3>1, <3>2
  <2>2. Wiping(i) => Wiping(i)'
    BY <1>3, <2>1 DEF Wiping
  <2> QED
    BY <1>3, <2>2 DEF Steps
\* Under a re-read, a reconciliation or a pending read, no write or wipe is in the chain; the list is
\* what is stored.
<1>4. ASSUME \/ wallet[i].reading # NotReading
             \/ wallet[i].chain # <<>> /\ wallet[i].chain[1].kind \in {"resync", "reconcile"}
      PROVE  /\ NoWrite(i) /\ ~Wiping(i)
             /\ wallet[i].reading = NotReading => wallet[i].held = disk
  <2>1. wallet[i].chain # <<>> /\ wallet[i].chain[1].kind \in {"resync", "reconcile"}
    BY <1>1, <1>4 DEF Quiet
  <2>2. NoWrite(i)
    BY <1>1, <2>1, NoWrites DEF NoWrite
  <2>3. ~Wiping(i)
    <3> SUFFICES ASSUME NEW n \in DOMAIN wallet[i].chain, wallet[i].chain[n].kind = "remove" PROVE FALSE
      BY DEF Wiping
    <3>1. n # 1 /\ n \in Nat /\ n >= 1
      BY <1>1, <2>1, ChainShape
    <3>2. 1 < n
      BY <3>1
    <3> QED
      BY <1>1, <2>1, <3>2 DEF WritesFirst
  <2>4. wallet[i].reading = NotReading => wallet[i].held = disk
    BY <1>1, <2>1, <2>2, <2>3 DEF InStep
  <2> QED
    BY <2>2, <2>3, <2>4
<1>5. ASSUME HydrateLoad(i) PROVE MatchInv'
  <2>1. /\ SameTasks(i) /\ SameRead(i) /\ wallet'[i].hydrated = "loading" /\ wallet[i].hydrated = "no"
        /\ wallet'[i].held = IF disk = <<>> THEN wallet[i].held ELSE disk
        /\ disk' = disk
    BY <1>1, <1>5, LoadFacts DEF HydrateLoad
  <2>2. wallet'[i].held = disk
    BY <1>1, <2>1 DEF InStep
  <2>3. NoWrite(i)'
    BY <1>1, <1>2, <2>1, NoWrites DEF NoWrite
  <2>4. Newest(i)'
    BY <2>3 DEF Newest, NoWrite
  <2> QED
    BY <1>1, <2>1, <2>2, <2>4 DEF MatchInv, InStep, SameTasks, SameRead
<1>6. ASSUME HydrateReconcile(i) PROVE MatchInv'
  <2>1. /\ SameTasks(i) /\ SameRead(i) /\ wallet'[i].hydrated = "yes" /\ wallet[i].hydrated = "loading"
    BY <1>1, <1>6, HydrateFacts
  <2>2. \/ wallet'[i].held = wallet[i].held /\ disk' = disk
        \/ wallet'[i].held = <<>> /\ disk' = IF wallet[i].held = <<>> THEN disk ELSE <<>>
    BY <1>1, <1>6, HydrateFacts, ReconcileFacts
  <2>3. NoWrite(i) /\ NoWrite(i)' /\ (Wiping(i)' <=> Wiping(i))
    BY <1>1, <1>2, <2>1, NoWrites DEF NoWrite
  <2>4. Newest(i)'
    BY <2>3 DEF Newest, NoWrite
  <2>5. wallet[i].reading # NotReading => wallet'[i].reading[1] = disk'
    <3> SUFFICES ASSUME wallet[i].reading # NotReading PROVE wallet'[i].reading[1] = disk'
      OBVIOUS
    <3>1. disk = <<>> /\ wallet[i].held = <<>>
      BY <1>1, <2>1 DEF Quiet, InStep
    <3> QED
      BY <1>1, <2>1, <2>2, <3>1 DEF InStep, SameRead
  <2>6. ~Wiping(i) /\ wallet[i].reading = NotReading => wallet'[i].held = disk'
    BY <1>1, <2>1, <2>2, <2>3 DEF InStep
  <2> QED
    BY <2>1, <2>3, <2>4, <2>5, <2>6 DEF MatchInv, InStep, SameRead
<1>7. ASSUME WriteLands(i) PROVE MatchInv'
  <2>1. wallet[i].chain # <<>> /\ wallet[i].chain[1].kind = "write" /\ disk' = wallet[i].chain[1].snapshot
    BY <1>1, <1>7 DEF WriteLands, StoreList, Running
  <2>2. SameList(i) /\ SameState(i) /\ SameRead(i) /\ wallet'[i].chain = Tail(wallet[i].chain)
    BY <1>1, <1>7, <2>1, TaskOverFacts DEF Lands
  <2>3. wallet[i].hydrated = "yes" /\ wallet[i].reading = NotReading
    BY <1>1, <2>1 DEF Quiet
  <2>4. Newest(i)'
    BY <1>1, <1>3, <2>1, <2>2, ReconciliationFacts, NewestStays DEF InStep
  <2>5. ASSUME NoWrite(i)', ~Wiping(i)' PROVE wallet[i].held = disk'
    <3>1. ~Wiping(i)
      BY <1>3, <2>1, <2>2, <2>5
    <3>2. \A m \in DOMAIN wallet[i].chain : m > 1 => wallet[i].chain[m].kind # "write"
      <4> SUFFICES ASSUME NEW m \in DOMAIN wallet[i].chain, m > 1 PROVE wallet[i].chain[m].kind # "write"
        OBVIOUS
      <4>0. m \in Nat /\ m # 1
        BY <1>1, ChainShape
      <4>1. /\ m \in Nat /\ m - 1 \in DOMAIN wallet'[i].chain
            /\ wallet'[i].chain[m - 1] = wallet[i].chain[(m - 1) + 1]
        BY <1>1, <2>1, <2>2, <4>0, ChainShape
      <4>2. (m - 1) + 1 = m
        BY <4>1
      <4> QED
        BY <2>5, <4>1, <4>2 DEF NoWrite
    <3> QED
      BY <1>1, <2>1, <3>1, <3>2 DEF InStep, Newest
  <2> QED
    BY <2>2, <2>3, <2>4, <2>5 DEF MatchInv, InStep, SameList, SameState, SameRead
<1>8. ASSUME RemoveLands(i) PROVE MatchInv'
  <2>1. wallet[i].chain # <<>> /\ wallet[i].chain[1].kind = "remove" /\ disk' = <<>>
    BY <1>1, <1>8 DEF RemoveLands, Running
  <2>2. SameList(i) /\ SameRead(i) /\ wallet'[i].hydrated = "no" /\ wallet'[i].chain = Tail(wallet[i].chain)
    BY <1>1, <1>8, <2>1, TaskOverFacts
  <2>3. wallet[i].held = <<>> /\ wallet[i].reading = NotReading
    BY <1>1, <2>1 DEF Wiped, Quiet
  <2>4. NoWrite(i)'
    <3>1. \A n \in DOMAIN wallet'[i].chain : n + 1 \in DOMAIN wallet[i].chain /\ wallet'[i].chain[n] = wallet[i].chain[n + 1]
      BY <1>1, <2>1, <2>2, ChainShape
    <3>2. NoWrite(i)
      BY <1>1, <2>1, NoWrites DEF NoWrite
    <3> QED
      BY <3>1, <3>2 DEF NoWrite
  <2>5. Newest(i)'
    BY <2>4 DEF Newest, NoWrite
  <2> QED
    BY <2>1, <2>2, <2>3, <2>5 DEF MatchInv, InStep, SameList, SameRead
<1>9. ASSUME ResyncRead(i) \/ ReconcileRun(i) PROVE MatchInv'
  <2>1. /\ SameList(i) /\ SameState(i) /\ SameTasks(i) /\ wallet'[i].reading # NotReading
        /\ wallet[i].reading = NotReading
        /\ wallet[i].chain # <<>> /\ wallet[i].chain[1].kind \in {"resync", "reconcile"}
    BY <1>1, <1>9, ReadFacts DEF ResyncRead, ReconcileRun, Running
  <2>2. NoWrite(i) /\ wallet[i].held = disk
    BY <1>4, <2>1
  <2>3. wallet'[i].reading[1] = disk' /\ (disk' = disk \/ disk' = <<>>)
    <3>1. CASE ResyncRead(i)
      BY <1>1, <3>1, ReadFacts DEF ResyncRead
    <3>2. CASE ReconcileRun(i)
      <4>1. \/ wallet'[i].reading[1] = wallet[i].held /\ disk' = disk
            \/ wallet'[i].reading[1] = <<>> /\ disk' = IF wallet[i].held = <<>> THEN disk ELSE <<>>
        BY <1>1, <3>2, ReadFacts, ReconcileFacts
      <4> QED
        BY <2>2, <4>1
    <3> QED
      BY <1>9, <3>1, <3>2
  <2>4. Newest(i)'
    BY <1>2, <2>1, <2>2 DEF Newest, NoWrite
  <2> QED
    BY <1>1, <2>1, <2>3, <2>4 DEF MatchInv, InStep, SameList, SameState, SameTasks
<1>10. ASSUME Adopt(i) PROVE MatchInv'
  <2>1. /\ wallet[i].chain # <<>> /\ wallet[i].chain[1].kind \in {"resync", "reconcile"}
        /\ wallet[i].reading # NotReading
    BY <1>1, <1>10 DEF Adopt, Quiet
  <2>2. /\ SameState(i) /\ wallet'[i].held = wallet[i].reading[1] /\ wallet'[i].reading = NotReading
        /\ wallet'[i].chain = Tail(wallet[i].chain) /\ disk' = disk
    BY <1>1, <1>10, <2>1, TaskOverFacts DEF Adopt
  <2>3. NoWrite(i)'
    <3>1. \A n \in DOMAIN wallet'[i].chain : n + 1 \in DOMAIN wallet[i].chain /\ wallet'[i].chain[n] = wallet[i].chain[n + 1]
      BY <1>1, <2>1, <2>2, ChainShape
    <3>2. NoWrite(i)
      BY <1>4, <2>1
    <3> QED
      BY <3>1, <3>2 DEF NoWrite
  <2>4. Newest(i)'
    BY <2>3 DEF Newest, NoWrite
  <2>5. wallet'[i].held = disk'
    BY <1>1, <2>1, <2>2 DEF InStep
  <2> QED
    BY <1>1, <2>1, <2>2, <2>4, <2>5 DEF MatchInv, InStep, SameState
<1>11. ~(HydrateFails(i) \/ HydrateThrows(i) \/ WriteHalfLands(i) \/ RemoveFails(i) \/ ReconcileFails(i)
         \/ TaskFails(i))
  BY DEF HydrateFails, HydrateThrows, WriteHalfLands, RemoveFails, ReconcileFails, TaskFails, ReconcileThrows
<1> QED
  BY <1>5, <1>6, <1>7, <1>8, <1>9, <1>10, <1>11 DEF TaskStep

LEMMA CallStepKeepsMatch ==
    ASSUME Single, OnceInv, WipeInv, MatchInv, NEW c \in Caller, CallStep(c)
    PROVE  MatchInv'
<1>1. call[c] \in Call /\ Typed
  BY DEF OnceInv, Typed
<1>2. call[c].pc # "idle"
  BY DEF CallStep, Add, Spend, SpendAgain, Count, Clear, Return, Ready
<1>3. PICK i \in Instance : i = call[c].on
  BY <1>1, <1>2, CallShape
<1>4. Instance = {i} /\ wallet[i].held \in Lists
  BY <1>1, OneInstance, StoreShape DEF Typed
<1>5. MayMutate(i) => OnlyWrites(i)
  BY DEF MayMutate, OnlyWrites, Single
<1>6. CASE Add(c)
  <2>1. OnlyWrites(i) /\ wallet[i].hydrated = "yes" /\ call[c].op = "add" /\ disk' = disk
    BY <1>3, <1>5, <1>6 DEF Add, Ready
  <2>2. BatchTokens[call[c].batch] \in Seq(Token)
    BY <1>1, <1>2, <2>1, CallShape DEF Single
  <2>3. PICK held \in Lists : held = wallet[i].held \o New(BatchTokens[call[c].batch], wallet[i].held)
    BY <1>4, <2>2, AddedList
  <2>4. Enqueue(i, held, WriteTask(c, held))
    BY <1>3, <1>6, <2>3 DEF Add
  <2> QED
    BY <1>4, <2>1, <2>4, WriteQueuedKeepsMatch
<1>7. ASSUME Take(c), OnlyWrites(i), wallet[i].hydrated = "yes", call[c].op = "spend",
             call[c].pc \in {"hydrate", "resynced"}, ~(Len(wallet[i].held) < call[c].n)
      PROVE  MatchInv'
  <2>1. call[c].n \in Nat
    BY <1>1, <1>7, CallShape DEF Single, WalletAssumption
  <2>2. Len(wallet[i].held) \in Nat
    BY <1>4 DEF Lists
  <2>3. call[c].n \in 0..Len(wallet[i].held)
    BY <1>7, <2>1, <2>2
  <2>4. PICK held \in Lists : held = SubSeq(wallet[i].held, call[c].n + 1, Len(wallet[i].held))
    BY <1>4, <2>3, SplitList
  <2>5. Enqueue(i, held, WriteTask(c, held)) /\ disk' = disk
    BY <1>3, <1>7, <2>4 DEF Take
  <2> QED
    BY <1>4, <1>7, <2>5, WriteQueuedKeepsMatch
<1>8. CASE Count(c) \/ (Spend(c) /\ Len(wallet[i].held) < call[c].n) \/ Clear(c)
  <2>1. OnlyWrites(i)
    BY <1>3, <1>5, <1>8 DEF Count, Spend, Clear, Ready
  <2>2. PICK task \in Task, held \in Lists :
              /\ Enqueue(i, held, task) /\ wallet[i].hydrated = "yes" /\ disk' = disk
              /\ (task.kind = "resync" /\ held = wallet[i].held) \/ task.kind = "remove"
    BY <1>3, <1>8, QueueFacts
  <2> QED
    BY <1>4, <2>1, <2>2, QueueKeepsMatch
<1>9. CASE Spend(c) /\ ~(Len(wallet[i].held) < call[c].n)
  BY <1>3, <1>5, <1>7, <1>9 DEF Spend, Ready
<1>10. CASE SpendAgain(c) /\ ~(Len(wallet[i].held) < call[c].n)
  <2>1. call[c].pc = "resynced" /\ Take(c) /\ OnlyWrites(i)
    BY <1>3, <1>5, <1>10 DEF SpendAgain
  <2>2. call[c].op = "spend" /\ call[c].n \in Nat \ {0}
    BY <1>1, <2>1, CallShape DEF Single, WalletAssumption
  <2>3. wallet[i].held # <<>>
    BY <1>10, <2>2
  <2>4. wallet[i].hydrated = "yes"
    BY <2>1, <2>3 DEF WipeInv, Wiped
  <2> QED
    BY <1>7, <1>10, <2>1, <2>2, <2>4
<1>11. CASE SpendAgain(c) /\ Len(wallet[i].held) < call[c].n
  BY <1>3, <1>11, MoveKeepsMatch DEF SpendAgain
<1>12. CASE Return(c)
  BY <1>12, MoveKeepsMatch DEF Return
<1> QED
  BY <1>6, <1>8, <1>9, <1>10, <1>11, <1>12 DEF CallStep

LEMMA StepKeepsMatch ==
    ASSUME Single, ~StorageFails, OnceInv, WipeInv, MatchInv, [Next]_vars
    PROVE  MatchInv'
<1>1. PICK i \in Instance : Instance = {i}
  BY DEF Single
<1>2. CASE \/ UNCHANGED vars
           \/ \E c \in Caller : \/ \E b \in Batch : BeginAdd(c, i, b)
                                \/ \E n \in Need : BeginSpend(c, i, n)
                                \/ BeginCount(c, i) \/ BeginClear(c, i)
  <2>1. UNCHANGED <<disk, wallet>>
    BY <1>2 DEF vars, BeginAdd, BeginSpend, BeginCount, BeginClear
  <2> QED
    BY <2>1, MoveKeepsMatch
<1>3. CASE TaskStep(i)
  BY <1>1, <1>3, TaskStepKeepsMatch
<1>4. ASSUME NEW k \in Key, SetKeyFingerprint(i, k) PROVE MatchInv'
  BY <1>1, <1>4, BindKeepsMatch
<1> QED
  BY <1>1, <1>2, <1>3, <1>4, CrashKeepsMatch, CallStepKeepsMatch DEF Next

LEMMA MatchStarts == Init => MatchInv
<1> SUFFICES ASSUME Init PROVE MatchInv
  OBVIOUS
<1>1. \A i \in Instance : /\ wallet[i].chain = <<>> /\ wallet[i].reading = NotReading
                          /\ wallet[i].hydrated = "no" /\ wallet[i].held = <<>>
  BY DEF Init, Fresh
<1> QED
  BY <1>1 DEF MatchInv, InStep, Newest

LEMMA MatchShows == OnceInv /\ MatchInv => MemoryMatchesStorage
<1> SUFFICES ASSUME OnceInv, MatchInv, NEW i \in Instance, wallet[i].chain = <<>>, wallet[i].hydrated = "yes"
             PROVE  wallet[i].held = disk
  BY DEF MemoryMatchesStorage
<1>1. wallet[i].reading = NotReading /\ NoWrite(i) /\ ~Wiping(i) /\ InStep(i)
  BY DEF OnceInv, ChainInv, Quiet, NoWrite, Wiping, MatchInv
<1> QED
  BY <1>1 DEF InStep

\* When storage does not fail, a wallet whose task chain is drained holds what is stored, through
\* every overlap of calls, re-reads, key changes, wipes and kills.
THEOREM MemoryAlwaysMatches ==
    ASSUME Single, ~StorageFails
    PROVE  Spec => []MemoryMatchesStorage
<1>1. Init => OnceInv /\ WipeInv /\ MatchInv
  BY StartsOnce, MatchStarts
<1>2. OnceInv /\ WipeInv /\ MatchInv /\ [Next]_vars => (OnceInv /\ WipeInv /\ MatchInv)'
  BY StepKeeps, StepKeepsMatch
<1> QED
  BY <1>1, <1>2, MatchShows, PTL DEF Spec

----------------------------------------------------------------------------
(* Storage that does not fail.                                              *)

Reads == forgotten = {} /\ \A i \in Instance : wallet[i].unread = {}

LEMMA StepKeepsReads ==
    ASSUME Single, ~StorageFails, OnceInv, Reads, [Next]_vars
    PROVE  Reads'
<1>1. PICK i \in Instance : Instance = {i}
  BY DEF Single
<1>2. Typed /\ wallet[i].unread = {} /\ forgotten = {}
  BY DEF OnceInv, Reads
<1>3. CASE \/ UNCHANGED vars
           \/ \E c \in Caller : \/ \E b \in Batch : BeginAdd(c, i, b)
                                \/ \E n \in Need : BeginSpend(c, i, n)
                                \/ BeginCount(c, i) \/ BeginClear(c, i)
  <2>1. wallet' = wallet /\ forgotten' = forgotten
    BY <1>3 DEF vars, hist, BeginAdd, BeginSpend, BeginCount, BeginClear
  <2> QED
    BY <2>1 DEF Reads
<1>4. ASSUME NEW c \in Caller, CallStep(c) PROVE Reads'
  <2> DEFINE Queues == wallet' = wallet \/ \E held, task : Enqueue(call[c].on, held, task)
  <2>1. ASSUME NEW held, NEW task, Enqueue(call[c].on, held, task) PROVE wallet'[i].unread = wallet[i].unread
    BY <1>2, <2>1 DEF Enqueue, Typed, Store
  <2>2. Take(c) \/ Resync(c, call[c].on) => Queues /\ forgotten' = forgotten
    BY DEF Take, Resync, hist
  <2>3. Return(c) \/ Add(c) \/ Clear(c) => Queues /\ forgotten' = forgotten
    BY DEF Return, Add, Clear, hist
  <2>4. Count(c) \/ Spend(c) \/ SpendAgain(c) =>
            Take(c) \/ Resync(c, call[c].on) \/ (wallet' = wallet /\ forgotten' = forgotten)
    BY DEF Count, Spend, SpendAgain, hist
  <2>5. Queues /\ forgotten' = forgotten
    BY <1>4, <2>2, <2>3, <2>4 DEF CallStep
  <2>6. wallet'[i].unread = wallet[i].unread
    BY <2>1, <2>5
  <2> QED
    BY <1>1, <1>2, <2>5, <2>6 DEF Reads
<1>5. ASSUME TaskStep(i) PROVE Reads'
  <2>1. ~(HydrateFails(i) \/ HydrateThrows(i) \/ WriteHalfLands(i) \/ RemoveFails(i) \/ ReconcileFails(i)
          \/ TaskFails(i))
    BY DEF HydrateFails, HydrateThrows, WriteHalfLands, RemoveFails, ReconcileFails, TaskFails, ReconcileThrows
  <2>2. CASE HydrateLoad(i) \/ ResyncRead(i)
    BY <1>1, <1>2, <2>2, LoadFacts, ReadFacts DEF HydrateLoad, ResyncRead, hist, Reads, SameUnread
  <2>3. CASE HydrateReconcile(i)
    <3>1. SameUnread(i) /\ forgotten' = forgotten
      BY <1>2, <2>3, HydrateFacts, ReconcileFacts
    <3> QED
      BY <1>1, <1>2, <3>1 DEF Reads, SameUnread
  <2>4. CASE ReconcileRun(i)
    <3>1. SameUnread(i) /\ forgotten' = forgotten
      BY <1>2, <2>4, ReadFacts, ReconcileFacts
    <3> QED
      BY <1>1, <1>2, <3>1 DEF Reads, SameUnread
  <2>5. CASE WriteLands(i)
    <3>1. SameUnread(i) /\ forgotten' = forgotten \cup (wallet[i].unread \ ToSet(Head(wallet[i].chain).snapshot))
      BY <1>2, <2>5, TaskOverFacts DEF Lands, WriteLands, StoreList, Running
    <3> QED
      BY <1>1, <1>2, <3>1 DEF Reads, SameUnread
  <2>6. CASE RemoveLands(i)
    BY <1>1, <1>2, <2>6, TaskOverFacts DEF RemoveLands, Running, hist, Reads
  <2>7. CASE Adopt(i)
    <3>1. wallet[i].chain # <<>>
      BY <2>7 DEF Adopt, OnceInv, ChainInv, Quiet
    <3> QED
      BY <1>1, <1>2, <2>7, <3>1, TaskOverFacts DEF Adopt, hist, Reads
  <2> QED
    BY <1>5, <2>1, <2>2, <2>3, <2>4, <2>5, <2>6, <2>7 DEF TaskStep
<1>6. ASSUME NEW k \in Key, SetKeyFingerprint(i, k) PROVE Reads'
  BY <1>1, <1>2, <1>6, BindFacts DEF SetKeyFingerprint, Reads, SameUnread
<1>7. CASE Crash
  BY <1>2, <1>7 DEF Crash, Fresh, Reads
<1> QED
  BY <1>1, <1>3, <1>4, <1>5, <1>6, <1>7 DEF Next

\* While storage does not fail, nothing is lost to a failed read: an acknowledged deposit is in
\* storage until a spend takes it or a key change or a wipe drops it.
THEOREM NothingForgotten ==
    ASSUME Single, ~StorageFails
    PROVE  Spec => [](forgotten = {})
<1>1. Init => OnceInv /\ WipeInv /\ Reads
  BY StartsOnce DEF Init, Fresh, Reads
<1>2. OnceInv /\ WipeInv /\ Reads /\ [Next]_vars => (OnceInv /\ WipeInv /\ Reads)'
  BY StepKeeps, StepKeepsReads
<1>3. Reads => forgotten = {}
  BY DEF Reads
<1> QED
  BY <1>1, <1>2, <1>3, PTL DEF Spec
=============================================================================
