--------------------------- MODULE IssuanceProofs ---------------------------
(***************************************************************************)
(* Lemmas about what the organizer hands out besides tokens: the keys of   *)
(* content epochs and the credentials of invites, for every value of their *)
(* parameters.  Each component has an inductive invariant, stated over the *)
(* component's own instance; the theorems of OrganizerProofs carry them    *)
(* over to the specification that the run organizer checks.                *)
(***************************************************************************)
EXTENDS Organizer, SequencesExt, FiniteSetTheorems, TLAPS

----------------------------------------------------------------------------
(* The library's operators mean the same inside an instance.                *)

LEMMA ContentLibrary ==
    /\ \A S : Content!Cardinality(S) = Cardinality(S)
    /\ \A s : Content!ToSet(s) = ToSet(s)
    /\ \A s : Content!Reverse(s) = Reverse(s)
<1>1. \A S : Content!Cardinality(S) = Cardinality(S)
  BY DEF Content!Cardinality, Cardinality
<1>2. \A s : Content!ToSet(s) = ToSet(s)
  BY DEF Content!ToSet, ToSet
<1>3. \A s : Content!Reverse(s) = Reverse(s)
  BY DEF Content!Reverse, Reverse
<1> QED
  BY <1>1, <1>2, <1>3

LEMMA SmallerOfTwo ==
    ASSUME NEW a \in Nat, NEW b \in Nat
    PROVE  /\ Content!Min({a, b}) \in Nat
           /\ Content!Min({a, b}) <= a /\ Content!Min({a, b}) <= b
<1>1. \E x \in {a, b} : \A y \in {a, b} : x <= y
  OBVIOUS
<1>2. Content!Min({a, b}) \in {a, b} /\ \A y \in {a, b} : Content!Min({a, b}) <= y
  BY <1>1 DEF Content!Min
<1> QED
  BY <1>2

\* A queue without repetitions loses its head, or gains an element it did not have.
LEMMA QueueFacts ==
    ASSUME NEW S, NEW s \in Seq(S), IsInjective(s)
    PROVE  /\ s # <<>> => /\ Tail(s) \in Seq(S) /\ IsInjective(Tail(s)) /\ Head(s) \in ToSet(s)
                          /\ ToSet(Tail(s)) = ToSet(s) \ {Head(s)}
           /\ \A x \in S \ ToSet(s) :
                 /\ Append(s, x) \in Seq(S) /\ IsInjective(Append(s, x))
                 /\ ToSet(Append(s, x)) = ToSet(s) \cup {x}
                 /\ Append(s, x) # <<>> /\ Head(Append(s, x)) = IF s = <<>> THEN x ELSE Head(s)
<1>1. DOMAIN s = 1..Len(s) /\ Len(s) \in Nat
  OBVIOUS
<1>2. ASSUME s # <<>>
      PROVE  /\ Tail(s) \in Seq(S) /\ IsInjective(Tail(s)) /\ Head(s) \in ToSet(s)
             /\ ToSet(Tail(s)) = ToSet(s) \ {Head(s)}
  <2>1. /\ Len(s) >= 1 /\ Head(s) = s[1] /\ Tail(s) \in Seq(S) /\ DOMAIN Tail(s) = 1..(Len(s) - 1)
        /\ \A n \in 1..(Len(s) - 1) : Tail(s)[n] = s[n + 1]
    BY <1>1, <1>2
  <2>2. Head(s) \in ToSet(s)
    BY <1>1, <2>1 DEF ToSet
  <2>3. IsInjective(Tail(s))
    <3>1. ASSUME NEW m \in DOMAIN Tail(s), NEW n \in DOMAIN Tail(s), Tail(s)[m] = Tail(s)[n]
          PROVE  m = n
      <4>1. m + 1 \in DOMAIN s /\ n + 1 \in DOMAIN s /\ s[m + 1] = s[n + 1]
        BY <1>1, <2>1, <3>1
      <4>2. m + 1 = n + 1
        BY <4>1 DEF IsInjective
      <4> QED
        BY <2>1, <4>2
    <3> QED
      BY <3>1 DEF IsInjective
  <2>4. ToSet(Tail(s)) \subseteq ToSet(s) \ {Head(s)}
    <3>1. ASSUME NEW n \in DOMAIN Tail(s) PROVE Tail(s)[n] \in ToSet(s) \ {Head(s)}
      <4>1. n + 1 \in DOMAIN s /\ Tail(s)[n] = s[n + 1] /\ n + 1 # 1 /\ 1 \in DOMAIN s
        BY <1>1, <2>1
      <4> QED
        BY <2>1, <4>1 DEF IsInjective, ToSet
    <3> QED
      BY <3>1 DEF ToSet
  <2>5. ToSet(s) \ {Head(s)} \subseteq ToSet(Tail(s))
    <3>1. ASSUME NEW n \in DOMAIN s, s[n] # Head(s) PROVE s[n] \in ToSet(Tail(s))
      <4>1. n - 1 \in DOMAIN Tail(s) /\ Tail(s)[n - 1] = s[n]
        BY <1>1, <2>1, <3>1
      <4> QED
        BY <4>1 DEF ToSet
    <3> QED
      BY <3>1 DEF ToSet
  <2> QED
    BY <2>1, <2>2, <2>3, <2>4, <2>5
<1>3. ASSUME NEW x \in S \ ToSet(s)
      PROVE  /\ Append(s, x) \in Seq(S) /\ IsInjective(Append(s, x))
             /\ ToSet(Append(s, x)) = ToSet(s) \cup {x}
             /\ Append(s, x) # <<>> /\ Head(Append(s, x)) = IF s = <<>> THEN x ELSE Head(s)
  <2> DEFINE t == Append(s, x)
  <2>1. /\ t \in Seq(S) /\ DOMAIN t = 1..(Len(s) + 1) /\ t[Len(s) + 1] = x
        /\ \A n \in DOMAIN s : t[n] = s[n]
    BY <1>1
  <2>2. t # <<>> /\ Head(t) = t[1]
    <3>1. t \in Seq(S) /\ Len(t) = Len(s) + 1 /\ Len(t) # 0
      BY <1>1
    <3> HIDE DEF t
    <3> QED
      BY <3>1
  <2>3. s = <<>> => Len(s) = 0
    OBVIOUS
  <2>4. s # <<>> => 1 \in DOMAIN s /\ Head(s) = s[1]
    BY <1>1
  <2> HIDE DEF t
  <2>5. \A n \in DOMAIN t : n \in DOMAIN s \/ n = Len(s) + 1
    BY <1>1, <2>1
  <2>6. \A n \in DOMAIN s : n \in DOMAIN t /\ s[n] # x
    BY <1>1, <2>1 DEF ToSet
  <2>7. IsInjective(t)
    BY <2>1, <2>5, <2>6 DEF IsInjective
  <2>8. ToSet(t) = ToSet(s) \cup {x}
    <3>1. Len(s) + 1 \in DOMAIN t
      BY <1>1, <2>1
    <3> QED
      BY <2>1, <2>5, <2>6, <3>1 DEF ToSet
  <2>9. Head(t) = IF s = <<>> THEN x ELSE Head(s)
    BY <2>1, <2>2, <2>3, <2>4
  <2> QED
    BY <2>1, <2>2, <2>7, <2>8, <2>9 DEF t
<1> QED
  BY <1>2, <1>3

----------------------------------------------------------------------------
(* ContentKeys: the keys.                                                   *)

\* The sidecar can be written.
Durable == Content!ContentKeysAssumption /\ ~SaveFails

Sale == [token : Token, epoch : Nat, key : Nat]

\* The custody state: a key per epoch, the posts of the current one, and what was sold.
IsCustody(s) ==
    /\ s.current \in Nat /\ s.posts \in 0..(RotateEvery - 1)
    /\ s.keys \in Seq(Nat) /\ Len(s.keys) = s.current + 1
    /\ s.spent \subseteq Token
    /\ s.answered \in Seq(Sale) /\ Len(s.answered) <= AnsweredLimit

KeysTyped ==
    /\ IsCustody(mem) /\ disk = mem
    /\ minted \in Nat /\ announced \in 0..mem.current
    /\ sealed \in Seq([post : Posts, epoch : Nat, key : Nat])
    /\ DOMAIN req = UnlockRequest
    /\ \A r \in UnlockRequest :
          /\ req[r].st \in {"new", "verify", "answer", "done", "refused"}
          /\ req[r].st = "verify" => req[r].epoch \in 0..mem.current
    /\ DOMAIN bought = Token

\* The key the organizer has for epoch e is k.
Sells(e, k) == e \in 0..mem.current /\ Content!KeyFor(mem, e) = k

\* The epochs and keys that token t has bought: received, on their way, or remembered.
Received(t) == bought[t]
OnTheWay(t) ==
    {<<req[r].epoch, req[r].key>> : r \in {q \in UnlockRequest : TokenOf[q] = t /\ req[q].st = "answer"}}
Remembered(t) ==
    {<<mem.answered[i].epoch, mem.answered[i].key>> : i \in Content!AnsweredFor(t)}
Out(t) == Received(t) \cup OnTheWay(t) \cup Remembered(t)

\* Every epoch and key that left the organizer is still sold, and a token bought at most one,
\* none while it is unspent.
SalesSound ==
    /\ \A i \in DOMAIN sealed : Sells(sealed[i].epoch, sealed[i].key)
    /\ \A t \in Token :
          /\ \E e, k : Out(t) \subseteq {<<e, k>>} /\ (Out(t) # {} => Sells(e, k))
          /\ t \notin mem.spent => Out(t) = {}

KeysInv == KeysTyped /\ SalesSound

\* What the parts of Out are made of.
LEMMA OutParts ==
    ASSUME NEW t
    PROVE  /\ \A r \in UnlockRequest : TokenOf[r] = t /\ req[r].st = "answer"
                  => <<req[r].epoch, req[r].key>> \in OnTheWay(t)
           /\ \A x \in OnTheWay(t) : \E r \in UnlockRequest :
                  TokenOf[r] = t /\ req[r].st = "answer" /\ x = <<req[r].epoch, req[r].key>>
           /\ \A i \in DOMAIN mem.answered : mem.answered[i].token = t
                  => <<mem.answered[i].epoch, mem.answered[i].key>> \in Remembered(t)
           /\ \A x \in Remembered(t) : \E i \in DOMAIN mem.answered :
                  mem.answered[i].token = t /\ x = <<mem.answered[i].epoch, mem.answered[i].key>>
BY DEF OnTheWay, Remembered, Content!AnsweredFor

\* A step that gives out nothing new, and keeps every key.
LEMMA NothingSold ==
    ASSUME SalesSound, sealed' = sealed, mem.spent \subseteq mem'.spent,
           \A e, k : Sells(e, k) => Sells(e, k)',
           \A t \in Token : Out(t)' \subseteq Out(t)
    PROVE  SalesSound'
<1>1. \A i \in DOMAIN sealed' : Sells(sealed[i].epoch, sealed[i].key)'
  BY DEF SalesSound, Sells
<1>2. ASSUME NEW t \in Token
      PROVE  /\ \E e, k : Out(t)' \subseteq {<<e, k>>} /\ (Out(t)' # {} => Sells(e, k)')
             /\ t \notin mem'.spent => Out(t)' = {}
  <2>1. PICK e, k : Out(t) \subseteq {<<e, k>>} /\ (Out(t) # {} => Sells(e, k))
    BY DEF SalesSound
  <2>2. Out(t)' \subseteq {<<e, k>>} /\ (Out(t)' # {} => Sells(e, k)')
    BY <2>1
  <2>3. t \notin mem.spent => Out(t) = {}
    BY DEF SalesSound
  <2> QED
    BY <2>2, <2>3
<1> QED
  BY <1>1, <1>2 DEF SalesSound

\* A step outside the custody state, the requests and what members hold.
LEMMA KeysAside ==
    ASSUME KeysInv, mem' = mem, disk' = disk, minted' = minted, sealed' = sealed,
           req' = req, bought' = bought, announced' \in 0..mem.current
    PROVE  KeysInv'
<1>1. KeysTyped'
  BY DEF KeysInv, KeysTyped
<1>2. \A e, k : Sells(e, k) => Sells(e, k)'
  BY DEF Sells
<1>3. \A t \in Token : Out(t)' \subseteq Out(t)
  BY DEF Out, Received, OnTheWay, Remembered, Content!AnsweredFor
<1>4. SalesSound'
  BY <1>2, <1>3, NothingSold DEF KeysInv
<1> QED
  BY <1>1, <1>4 DEF KeysInv

\* A step of one request that only changes its state, to one in which nothing is on its way.
LEMMA RequestAside ==
    ASSUME Durable, KeysInv, NEW r \in UnlockRequest, mem' = mem, disk' = disk, minted' = minted,
           announced' = announced, sealed' = sealed, bought' = bought,
           DOMAIN req' = UnlockRequest, \A q \in UnlockRequest \ {r} : req'[q] = req[q],
           req'[r].st \in {"new", "verify", "done", "refused"},
           req'[r].st = "verify" => req'[r].epoch \in 0..mem.current
    PROVE  KeysInv'
<1>1. KeysTyped'
  BY DEF KeysInv, KeysTyped
<1>2. \A e, k : Sells(e, k) => Sells(e, k)'
  BY DEF Sells
<1>3. ASSUME NEW t \in Token PROVE Out(t)' \subseteq Out(t)
  <2>1. OnTheWay(t)' \subseteq OnTheWay(t)
    BY DEF OnTheWay
  <2> QED
    BY <2>1 DEF Out, Received, Remembered, Content!AnsweredFor
<1>4. SalesSound'
  BY <1>2, <1>3, NothingSold DEF KeysInv
<1> QED
  BY <1>1, <1>4 DEF KeysInv

LEMMA KeysInit ==
    ASSUME Durable, Content!Init
    PROVE  KeysInv
<1>1. IsCustody(Content!FirstState)
  <2>1. RotateEvery \in Nat \ {0} /\ AnsweredLimit \in Nat
    BY DEF Durable, Content!ContentKeysAssumption
  <2>2. <<0>> \in Seq(Nat) /\ Len(<<0>>) = 1
    OBVIOUS
  <2>3. <<>> \in Seq(Sale) /\ Len(<<>>) = 0
    OBVIOUS
  <2> QED
    BY <2>1, <2>2, <2>3 DEF IsCustody, Content!FirstState
<1>2. mem = Content!FirstState /\ mem.current = 0 /\ mem.answered = <<>> /\ DOMAIN mem.answered = {}
  BY DEF Content!Init, Content!FirstState
<1>3. KeysTyped
  <2>1. <<>> \in Seq([post : Posts, epoch : Nat, key : Nat])
    OBVIOUS
  <2> QED
    BY <1>1, <1>2, <2>1 DEF KeysTyped, Content!Init
<1>4. \A t \in Token : Out(t) = {}
  <2> SUFFICES ASSUME NEW t \in Token PROVE Out(t) = {}
    OBVIOUS
  <2>1. Received(t) = {} /\ \A r \in UnlockRequest : req[r].st # "answer"
    BY DEF Content!Init, Received
  <2>2. OnTheWay(t) = {}
    BY <2>1 DEF OnTheWay
  <2>3. Remembered(t) = {}
    BY <1>2 DEF Remembered, Content!AnsweredFor
  <2> QED
    BY <2>1, <2>2, <2>3 DEF Out
<1>5. DOMAIN sealed = {}
  BY DEF Content!Init
<1> QED
  BY <1>3, <1>4, <1>5 DEF KeysInv, SalesSound

\* A post is sealed under a key somebody bought.
LEMMA SealKeeps ==
    ASSUME Durable, KeysInv, NEW p \in Posts, NEW e \in 0..announced, NEW k \in 0..minted,
           Content!Seal(p, e, k)
    PROVE  KeysInv'
<1>1. /\ <<e, k>> \in Content!Bought /\ sealed' = Append(sealed, [post |-> p, epoch |-> e, key |-> k])
      /\ mem' = mem /\ disk' = disk /\ minted' = minted /\ announced' = announced
      /\ req' = req /\ bought' = bought
  BY DEF Content!Seal
<1>2. PICK t \in Token : <<e, k>> \in bought[t]
  BY <1>1 DEF Content!Bought
<1>3. <<e, k>> \in Out(t)
  BY <1>2 DEF Out, Received
<1>4. Sells(e, k)
  <2>1. PICK x, y : Out(t) \subseteq {<<x, y>>} /\ (Out(t) # {} => Sells(x, y))
    BY DEF KeysInv, SalesSound
  <2>2. x = e /\ y = k
    BY <1>3, <2>1
  <2> QED
    BY <1>3, <2>1, <2>2
<1>5. e \in Nat /\ k \in Nat
  BY DEF KeysInv, KeysTyped, IsCustody
<1>6. KeysTyped'
  BY <1>1, <1>5 DEF KeysInv, KeysTyped
<1>7. ASSUME NEW i \in DOMAIN sealed' PROVE Sells(sealed[i].epoch, sealed[i].key)'
  <2>1. sealed \in Seq([post : Posts, epoch : Nat, key : Nat])
    BY DEF KeysInv, KeysTyped
  <2>2. (i \in DOMAIN sealed /\ sealed'[i] = sealed[i]) \/ sealed'[i] = [post |-> p, epoch |-> e, key |-> k]
    BY <1>1, <1>7, <2>1
  <2>3. i \in DOMAIN sealed => Sells(sealed[i].epoch, sealed[i].key)
    BY DEF KeysInv, SalesSound
  <2> QED
    BY <1>1, <1>4, <2>2, <2>3 DEF Sells
<1>8. \A s \in Token : Out(s)' = Out(s)
  BY <1>1 DEF Out, Received, OnTheWay, Remembered, Content!AnsweredFor
<1>9. \A x, y : Sells(x, y)' <=> Sells(x, y)
  BY <1>1 DEF Sells
<1>10. SalesSound'
  BY <1>1, <1>7, <1>8, <1>9 DEF KeysInv, SalesSound
<1> QED
  BY <1>6, <1>10 DEF KeysInv

\* A new post counts, and may start an epoch: a key is added and none is changed.
LEMMA RecordKeeps ==
    ASSUME Durable, KeysInv, mem' = Content!Recorded(mem), disk' = mem', minted' \in Nat,
           announced' = announced, sealed' = sealed, req' = req, bought' = bought
    PROVE  KeysInv'
<1>1. /\ IsCustody(mem) /\ RotateEvery \in Nat \ {0} /\ minted \in Nat
  BY DEF KeysInv, KeysTyped, Durable, Content!ContentKeysAssumption
<1>2. /\ IsCustody(mem') /\ mem'.spent = mem.spent /\ mem'.answered = mem.answered
      /\ mem.current <= mem'.current
      /\ \A i \in 1..(mem.current + 1) : mem'.keys[i] = mem.keys[i]
  <2> DEFINE turned == [mem EXCEPT !.current = @ + 1, !.posts = 0, !.keys = Append(@, minted)]
             kept == [mem EXCEPT !.posts = @ + 1]
  <2>1. mem.current \in Nat /\ mem.posts \in 0..(RotateEvery - 1) /\ mem.keys \in Seq(Nat)
        /\ Len(mem.keys) = mem.current + 1
    BY <1>1 DEF IsCustody
  <2>2. CASE mem.posts + 1 >= RotateEvery
    <3>1. mem' = turned
      BY <2>2 DEF Content!Recorded
    <3>2. /\ Append(mem.keys, minted) \in Seq(Nat) /\ Len(Append(mem.keys, minted)) = mem.current + 2
          /\ \A i \in 1..(mem.current + 1) : Append(mem.keys, minted)[i] = mem.keys[i]
      BY <1>1, <2>1
    <3>3. /\ mem'.current = mem.current + 1 /\ mem'.posts = 0 /\ mem'.keys = Append(mem.keys, minted)
          /\ mem'.spent = mem.spent /\ mem'.answered = mem.answered
      BY <3>1 DEF IsCustody, KeysInv, KeysTyped
    <3> QED
      BY <1>1, <2>1, <3>2, <3>3 DEF IsCustody
  <2>3. CASE ~(mem.posts + 1 >= RotateEvery)
    <3>1. mem' = kept
      BY <2>3 DEF Content!Recorded
    <3>2. /\ mem'.current = mem.current /\ mem'.posts = mem.posts + 1 /\ mem'.keys = mem.keys
          /\ mem'.spent = mem.spent /\ mem'.answered = mem.answered
      BY <3>1
    <3>3. mem'.posts \in 0..(RotateEvery - 1)
      BY <1>1, <2>1, <2>3, <3>2
    <3> QED
      BY <1>1, <2>1, <3>2, <3>3 DEF IsCustody
  <2> QED
    BY <2>2, <2>3
<1>3. mem.current \in Nat /\ mem'.current \in Nat
  BY <1>1, <1>2 DEF IsCustody
<1>4. KeysTyped'
  BY <1>2, <1>3 DEF KeysInv, KeysTyped
<1>5. ASSUME NEW e, NEW k, Sells(e, k) PROVE Sells(e, k)'
  <2>1. e \in 0..mem.current /\ mem.keys[e + 1] = k
    BY <1>5 DEF Sells, Content!KeyFor
  <2>2. e \in 0..mem'.current /\ e + 1 \in 1..(mem.current + 1)
    BY <1>2, <1>3, <2>1
  <2>3. mem'.keys[e + 1] = k
    BY <1>2, <2>1, <2>2
  <2> QED
    BY <2>2, <2>3 DEF Sells, Content!KeyFor
<1>6. \A t \in Token : Out(t)' \subseteq Out(t)
  BY <1>2 DEF Out, Received, OnTheWay, Remembered, Content!AnsweredFor
<1>7. SalesSound'
  BY <1>2, <1>5, <1>6, NothingSold DEF KeysInv
<1> QED
  BY <1>4, <1>7 DEF KeysInv

\* The list of answers after one more: the new one, if it is kept at all, and some of the old.
LEMMA TrimFacts ==
    ASSUME Durable, NEW s \in Seq(Sale), Len(s) <= AnsweredLimit, NEW x \in Sale
    PROVE  /\ Content!Trimmed(Append(s, x)) \in Seq(Sale)
           /\ Len(Content!Trimmed(Append(s, x))) <= AnsweredLimit
           /\ \A i \in DOMAIN Content!Trimmed(Append(s, x)) :
                 \/ Content!Trimmed(Append(s, x))[i] = x
                 \/ \E j \in DOMAIN s : Content!Trimmed(Append(s, x))[i] = s[j]
<1> DEFINE u == Append(s, x)
<1>1. AnsweredLimit \in Nat
  BY DEF Durable, Content!ContentKeysAssumption
<1>2. /\ u \in Seq(Sale) /\ Len(u) = Len(s) + 1 /\ Len(s) \in Nat /\ u # <<>>
      /\ DOMAIN s = 1..Len(s) /\ DOMAIN u = 1..(Len(s) + 1)
      /\ \A i \in 1..Len(s) : u[i] = s[i]
      /\ u[Len(s) + 1] = x
  OBVIOUS
<1> HIDE DEF u
<1>3. CASE Len(u) > AnsweredLimit
  <2>1. Content!Trimmed(u) = Tail(u)
    BY <1>3 DEF Content!Trimmed
  <2>2. /\ Tail(u) \in Seq(Sale) /\ Len(Tail(u)) = Len(s) /\ DOMAIN Tail(u) = 1..Len(s)
        /\ \A i \in 1..Len(s) : Tail(u)[i] = u[i + 1]
    BY <1>2
  <2>3. ASSUME NEW i \in 1..Len(s) PROVE Tail(u)[i] = x \/ \E j \in DOMAIN s : Tail(u)[i] = s[j]
    <3>1. CASE i = Len(s)
      BY <1>2, <2>2, <3>1
    <3>2. CASE i # Len(s)
      <4>1. Len(s) \in Nat
        BY <1>2
      <4>2. i + 1 \in 1..Len(s)
        BY <3>2, <4>1
      <4>3. Tail(u)[i] = u[i + 1]
        BY <2>2
      <4> QED
        BY <1>2, <4>2, <4>3
    <3> QED
      BY <3>1, <3>2
  <2> QED
    BY <2>1, <2>2, <2>3 DEF u
<1>4. CASE ~(Len(u) > AnsweredLimit)
  <2>1. Content!Trimmed(u) = u /\ Len(u) <= AnsweredLimit
    BY <1>1, <1>2, <1>4 DEF Content!Trimmed
  <2>2. ASSUME NEW i \in DOMAIN u PROVE u[i] = x \/ \E j \in DOMAIN s : u[i] = s[j]
    <3>1. i = Len(s) + 1 \/ i \in 1..Len(s)
      BY <1>2
    <3> QED
      BY <1>2, <3>1
  <2> QED
    BY <1>2, <2>1, <2>2 DEF u
<1> QED
  BY <1>3, <1>4

\* An unspent token buys the epoch it asks for.
LEMMA FreshSale ==
    ASSUME Durable, KeysInv, NEW r \in UnlockRequest, Content!Redeem(r), TokenOf[r] \notin mem.spent
    PROVE  KeysInv'
<1> DEFINE t == TokenOf[r]
<1>0. PICK e, k : e = req[r].epoch /\ k = Content!KeyFor(mem, e)
  OBVIOUS
<1> DEFINE sale == [token |-> t, epoch |-> e, key |-> k]
<1>1. /\ req[r].st = "verify" /\ ~SaveFails
      /\ mem' = [mem EXCEPT !.spent = @ \cup {t}, !.answered = Content!Trimmed(Append(@, sale))]
      /\ disk' = mem'
      /\ req' = [req EXCEPT ![r] = [st |-> "answer", epoch |-> e, key |-> k]]
      /\ minted' = minted /\ announced' = announced /\ sealed' = sealed /\ bought' = bought
  BY <1>0 DEF Content!Redeem, Content!Persist, Durable
<1>2. /\ IsCustody(mem) /\ t \in Token /\ e \in 0..mem.current /\ e \in Nat
  BY <1>0, <1>1 DEF KeysInv, KeysTyped, IsCustody, Durable, Content!ContentKeysAssumption
<1>3. k \in Nat /\ Sells(e, k)
  <2>1. e + 1 \in 1..Len(mem.keys) /\ mem.keys \in Seq(Nat)
    BY <1>2 DEF IsCustody
  <2> QED
    BY <1>0, <1>2, <2>1 DEF Sells, Content!KeyFor
<1>4. sale \in Sale
  BY <1>2, <1>3 DEF Sale
<1>5. /\ mem'.spent = mem.spent \cup {t} /\ mem'.answered = Content!Trimmed(Append(mem.answered, sale))
      /\ mem'.current = mem.current /\ mem'.posts = mem.posts /\ mem'.keys = mem.keys
  <2> DEFINE a == Content!Trimmed(Append(mem.answered, sale))
             s == mem.spent \cup {t}
  <2>1. mem' = [mem EXCEPT !.spent = s, !.answered = a]
    BY <1>1
  <2> HIDE DEF a, s
  <2>2. /\ mem'.spent = s /\ mem'.answered = a
        /\ mem'.current = mem.current /\ mem'.posts = mem.posts /\ mem'.keys = mem.keys
    BY <2>1 DEF KeysInv, KeysTyped
  <2> QED
    BY <2>2 DEF a, s
<1>6. mem.answered \in Seq(Sale) /\ Len(mem.answered) <= AnsweredLimit
  BY <1>2 DEF IsCustody
<1>7. /\ mem'.answered \in Seq(Sale) /\ Len(mem'.answered) <= AnsweredLimit
      /\ \A i \in DOMAIN mem'.answered :
            mem'.answered[i] = sale \/ \E j \in DOMAIN mem.answered : mem'.answered[i] = mem.answered[j]
  BY <1>4, <1>5, <1>6, TrimFacts
<1> HIDE DEF t
<1>8. IsCustody(mem')
  BY <1>2, <1>5, <1>7 DEF IsCustody
<1>9. /\ DOMAIN req' = UnlockRequest /\ req'[r] = [st |-> "answer", epoch |-> e, key |-> k]
      /\ \A q \in UnlockRequest \ {r} : req'[q] = req[q]
  BY <1>1 DEF KeysInv, KeysTyped
<1>10. KeysTyped'
  BY <1>1, <1>5, <1>8, <1>9 DEF KeysInv, KeysTyped
<1>11. \A x, y : Sells(x, y)' <=> Sells(x, y)
  BY <1>5 DEF Sells, Content!KeyFor
<1>12. Out(t) = {} /\ t = TokenOf[r]
  BY <1>2 DEF KeysInv, SalesSound, t
<1>13. ASSUME NEW u \in Token
       PROVE  Out(u)' \subseteq Out(u) \cup (IF u = t THEN {<<e, k>>} ELSE {})
  <2>1. OnTheWay(u)' \subseteq OnTheWay(u) \cup (IF u = t THEN {<<e, k>>} ELSE {})
    <3>1. ASSUME NEW q \in UnlockRequest, TokenOf[q] = u, req'[q].st = "answer"
          PROVE  <<req'[q].epoch, req'[q].key>> \in OnTheWay(u) \cup (IF u = t THEN {<<e, k>>} ELSE {})
      <4>1. CASE q = r
        BY <1>9, <1>12, <3>1, <4>1
      <4>2. CASE q # r
        BY <1>9, <3>1, <4>2, OutParts
      <4> QED
        BY <4>1, <4>2
    <3> QED
      BY <3>1 DEF OnTheWay
  <2>2. Remembered(u)' \subseteq Remembered(u) \cup (IF u = t THEN {<<e, k>>} ELSE {})
    <3>1. ASSUME NEW i \in DOMAIN mem'.answered, mem'.answered[i].token = u
          PROVE  <<mem'.answered[i].epoch, mem'.answered[i].key>>
                     \in Remembered(u) \cup (IF u = t THEN {<<e, k>>} ELSE {})
      <4>1. CASE mem'.answered[i] = sale
        BY <3>1, <4>1
      <4>2. CASE \E j \in DOMAIN mem.answered : mem'.answered[i] = mem.answered[j]
        BY <3>1, <4>2, OutParts
      <4> QED
        BY <1>7, <4>1, <4>2
    <3> QED
      BY <3>1 DEF Remembered, Content!AnsweredFor
  <2>3. Received(u)' = Received(u)
    BY <1>1 DEF Received
  <2> QED
    BY <2>1, <2>2, <2>3 DEF Out
<1>14. ASSUME NEW u \in Token
       PROVE  /\ \E x, y : Out(u)' \subseteq {<<x, y>>} /\ (Out(u)' # {} => Sells(x, y)')
              /\ u \notin mem'.spent => Out(u)' = {}
  <2>1. CASE u = t
    <3>1. Out(u)' \subseteq {<<e, k>>} /\ Sells(e, k)' /\ u \in mem'.spent
      BY <1>3, <1>5, <1>11, <1>12, <1>13, <2>1
    <3> QED
      BY <3>1
  <2>2. CASE u # t
    <3>1. PICK x, y : Out(u) \subseteq {<<x, y>>} /\ (Out(u) # {} => Sells(x, y))
      BY DEF KeysInv, SalesSound
    <3>2. Out(u)' \subseteq Out(u) /\ (u \notin mem'.spent => Out(u) = {})
      BY <1>5, <1>13, <2>2 DEF KeysInv, SalesSound
    <3> QED
      BY <1>11, <3>1, <3>2
  <2> QED
    BY <2>1, <2>2
<1>15. \A i \in DOMAIN sealed' : Sells(sealed[i].epoch, sealed[i].key)'
  <2>1. \A i \in DOMAIN sealed : Sells(sealed[i].epoch, sealed[i].key)
    BY DEF KeysInv, SalesSound
  <2> QED
    BY <1>1, <1>5, <2>1 DEF Sells, Content!KeyFor
<1>16. SalesSound'
  BY <1>14, <1>15 DEF SalesSound
<1> QED
  BY <1>10, <1>16 DEF KeysInv

\* A spent token is answered as before, or refused.
LEMMA SpentSale ==
    ASSUME Durable, KeysInv, NEW r \in UnlockRequest, Content!Redeem(r), TokenOf[r] \in mem.spent
    PROVE  KeysInv'
<1>1. /\ req[r].st = "verify" /\ mem' = mem /\ disk' = disk
      /\ minted' = minted /\ announced' = announced /\ sealed' = sealed /\ bought' = bought
  BY DEF Content!Redeem
<1>2. CASE req' = [req EXCEPT ![r].st = "refused"]
  <2>1. /\ DOMAIN req' = UnlockRequest /\ \A q \in UnlockRequest \ {r} : req'[q] = req[q]
        /\ req'[r].st = "refused"
    BY <1>2 DEF KeysInv, KeysTyped
  <2> QED
    BY <1>1, <2>1, RequestAside
<1>3. ASSUME NEW i \in Content!AnsweredFor(TokenOf[r]),
             req' = [req EXCEPT ![r] = [st |-> "answer", epoch |-> mem.answered[i].epoch,
                                        key |-> mem.answered[i].key]]
      PROVE  KeysInv'
  <2>1. /\ DOMAIN req' = UnlockRequest /\ \A q \in UnlockRequest \ {r} : req'[q] = req[q]
        /\ req'[r] = [st |-> "answer", epoch |-> mem.answered[i].epoch, key |-> mem.answered[i].key]
    BY <1>3 DEF KeysInv, KeysTyped
  <2>2. KeysTyped'
    BY <1>1, <2>1 DEF KeysInv, KeysTyped
  <2>3. \A e, k : Sells(e, k) => Sells(e, k)'
    BY <1>1 DEF Sells
  <2>4. ASSUME NEW t \in Token PROVE Out(t)' \subseteq Out(t)
    <3>1. Received(t)' = Received(t) /\ Remembered(t)' = Remembered(t)
      BY <1>1 DEF Received, Remembered, Content!AnsweredFor
    <3>2. ASSUME NEW q \in UnlockRequest, TokenOf[q] = t, req'[q].st = "answer"
          PROVE  <<req'[q].epoch, req'[q].key>> \in OnTheWay(t) \cup Remembered(t)
      <4>1. CASE q = r
        <5>1. i \in DOMAIN mem.answered /\ mem.answered[i].token = t
          BY <3>2, <4>1 DEF Content!AnsweredFor
        <5>2. <<mem.answered[i].epoch, mem.answered[i].key>> \in Remembered(t)
          BY <5>1, OutParts
        <5> QED
          BY <2>1, <4>1, <5>2
      <4>2. CASE q # r
        BY <2>1, <3>2, <4>2, OutParts
      <4> QED
        BY <4>1, <4>2
    <3>3. OnTheWay(t)' \subseteq OnTheWay(t) \cup Remembered(t)
      BY <3>2 DEF OnTheWay
    <3> QED
      BY <3>1, <3>3 DEF Out
  <2>5. SalesSound'
    BY <1>1, <2>3, <2>4, NothingSold DEF KeysInv
  <2> QED
    BY <2>2, <2>5 DEF KeysInv
<1> QED
  BY <1>2, <1>3 DEF Content!Redeem

\* What is on its way arrives.
LEMMA DeliverKeeps ==
    ASSUME Durable, KeysInv, NEW r \in UnlockRequest, Content!Deliver(r)
    PROVE  KeysInv'
<1>1. /\ req[r].st = "answer" /\ mem' = mem /\ disk' = disk
      /\ bought' = [bought EXCEPT ![TokenOf[r]] = @ \cup {<<req[r].epoch, req[r].key>>}]
      /\ req' = [req EXCEPT ![r] = [st |-> "done", epoch |-> req[r].epoch]]
      /\ minted' = minted /\ announced' = announced /\ sealed' = sealed
  BY DEF Content!Deliver
<1>2. TokenOf[r] \in Token
  BY DEF Durable, Content!ContentKeysAssumption
<1>3. /\ DOMAIN req' = UnlockRequest /\ \A q \in UnlockRequest \ {r} : req'[q] = req[q]
      /\ req'[r].st = "done" /\ DOMAIN bought' = Token
      /\ \A t \in Token \ {TokenOf[r]} : bought'[t] = bought[t]
      /\ bought'[TokenOf[r]] = bought[TokenOf[r]] \cup {<<req[r].epoch, req[r].key>>}
  BY <1>1, <1>2 DEF KeysInv, KeysTyped
<1>4. KeysTyped'
  BY <1>1, <1>3 DEF KeysInv, KeysTyped
<1>5. \A e, k : Sells(e, k) => Sells(e, k)'
  BY <1>1 DEF Sells
<1>6. ASSUME NEW t \in Token PROVE Out(t)' \subseteq Out(t)
  <2>1. OnTheWay(t)' \subseteq OnTheWay(t)
    BY <1>3 DEF OnTheWay
  <2>2. Remembered(t)' = Remembered(t)
    BY <1>1 DEF Remembered, Content!AnsweredFor
  <2>3. Received(t)' \subseteq Received(t) \cup OnTheWay(t)
    <3>1. t = TokenOf[r] => <<req[r].epoch, req[r].key>> \in OnTheWay(t)
      BY <1>1, OutParts
    <3> QED
      BY <1>3, <3>1 DEF Received
  <2> QED
    BY <2>1, <2>2, <2>3 DEF Out
<1>7. SalesSound'
  BY <1>1, <1>5, <1>6, NothingSold DEF KeysInv
<1> QED
  BY <1>4, <1>7 DEF KeysInv

\* A kill loses what is on its way; the sidecar is the custody state.
LEMMA ContentKillKeeps ==
    ASSUME Durable, KeysInv, Content!Kill
    PROVE  KeysInv'
<1>1. /\ mem' = mem /\ disk' = disk /\ minted' = minted /\ announced' = announced
      /\ sealed' = sealed /\ bought' = bought
      /\ req' = [r \in UnlockRequest |-> IF req[r].st \in {"verify", "answer"}
                                          THEN [st |-> "new", epoch |-> 0] ELSE req[r]]
  BY DEF Content!Kill, KeysInv, KeysTyped
<1>2. DOMAIN req' = UnlockRequest /\ \A r \in UnlockRequest : req'[r].st \in {"new", "done", "refused"}
  BY <1>1 DEF KeysInv, KeysTyped
<1>3. KeysTyped'
  BY <1>1, <1>2 DEF KeysInv, KeysTyped
<1>4. \A e, k : Sells(e, k) => Sells(e, k)'
  BY <1>1 DEF Sells
<1>5. ASSUME NEW t \in Token PROVE Out(t)' \subseteq Out(t)
  <2>1. OnTheWay(t)' = {}
    BY <1>2 DEF OnTheWay
  <2> QED
    BY <1>1, <2>1 DEF Out, Received, Remembered, Content!AnsweredFor
<1>6. SalesSound'
  BY <1>1, <1>4, <1>5, NothingSold DEF KeysInv
<1> QED
  BY <1>3, <1>6 DEF KeysInv

LEMMA KeysNext ==
    ASSUME Durable, KeysInv, [Content!Next]_Content!vars
    PROVE  KeysInv'
<1>1. /\ announced \in 0..mem.current /\ mem.current \in 0..mem.current /\ mem.current \in Nat
  BY DEF KeysInv, KeysTyped, IsCustody
<1>2. CASE UNCHANGED Content!vars
  BY <1>1, <1>2, KeysAside DEF Content!vars
<1>3. CASE Content!WatchConnect \/ Content!WatchDrop
  BY <1>1, <1>3, KeysAside DEF Content!WatchConnect, Content!WatchDrop
<1>4. CASE Content!Count
  <2>1. announced' = announced /\ sealed' = sealed /\ req' = req /\ bought' = bought
    BY <1>4 DEF Content!Count
  <2>2. CASE mem' = mem /\ disk' = disk /\ minted' = minted
    BY <1>1, <2>1, <2>2, KeysAside
  <2>3. CASE /\ mem' = Content!Recorded(mem) /\ disk' = mem'
             /\ minted' = minted + 1 \/ minted' = minted
    <3>1. minted' \in Nat
      BY <2>3 DEF KeysInv, KeysTyped
    <3> QED
      BY <2>1, <2>3, <3>1, RecordKeeps
  <2> QED
    BY <1>4, <2>2, <2>3 DEF Content!Count, Content!Persist, Durable
<1>5. CASE Content!Publish
  BY <1>1, <1>5, KeysAside DEF Content!Publish
<1>6. CASE Content!Kill
  BY <1>6, ContentKillKeeps
<1>7. ASSUME NEW p \in Posts, NEW e \in 0..announced, NEW k \in 0..minted, Content!Seal(p, e, k)
      PROVE  KeysInv'
  BY <1>7, SealKeeps
<1>8. ASSUME NEW r \in UnlockRequest,
             (\E e \in 0..announced : Content!Ask(r, e)) \/ Content!Unknown(r) \/ Content!Lose(r)
      PROVE  KeysInv'
  <2>1. /\ mem' = mem /\ disk' = disk /\ minted' = minted /\ announced' = announced
        /\ sealed' = sealed /\ bought' = bought
    BY <1>8 DEF Content!Ask, Content!Unknown, Content!Lose
  <2>2. /\ DOMAIN req' = UnlockRequest /\ \A q \in UnlockRequest \ {r} : req'[q] = req[q]
        /\ req'[r].st \in {"new", "verify", "done", "refused"}
        /\ req'[r].st = "verify" => req'[r].epoch \in 0..mem.current
    <3>1. CASE \E e \in 0..announced : Content!Ask(r, e)
      <4>1. PICK e \in 0..announced : Content!Ask(r, e)
        BY <3>1
      <4>2. e \in 0..mem.current
        BY <1>1
      <4>3. req' = [req EXCEPT ![r] = [st |-> "verify", epoch |-> e]]
        BY <4>1 DEF Content!Ask
      <4> QED
        BY <4>2, <4>3 DEF KeysInv, KeysTyped
    <3>2. CASE Content!Unknown(r)
      BY <3>2 DEF Content!Unknown, KeysInv, KeysTyped
    <3>3. CASE Content!Lose(r)
      BY <3>3 DEF Content!Lose, KeysInv, KeysTyped
    <3> QED
      BY <1>8, <3>1, <3>2, <3>3
  <2> QED
    BY <2>1, <2>2, RequestAside
<1>9. ASSUME NEW r \in UnlockRequest, Content!Redeem(r) \/ Content!Deliver(r) PROVE KeysInv'
  BY <1>9, FreshSale, SpentSale, DeliverKeeps
<1> QED
  BY <1>2, <1>3, <1>4, <1>5, <1>6, <1>7, <1>8, <1>9 DEF Content!Next

\* What the invariant says of the properties the runs check.
LEMMA KeysSound ==
    ASSUME Durable, KeysInv
    PROVE  Content!EpochKeyForever /\ Content!OneUnlockPerToken
<1>1. Content!EpochKeyForever
  <2> SUFFICES ASSUME NEW i \in DOMAIN sealed
               PROVE  /\ Content!Known(mem, sealed[i].epoch)
                      /\ Content!KeyFor(mem, sealed[i].epoch) = sealed[i].key
    BY DEF Content!EpochKeyForever
  <2>1. Sells(sealed[i].epoch, sealed[i].key)
    BY DEF KeysInv, SalesSound
  <2>2. IsCustody(mem)
    BY DEF KeysInv, KeysTyped
  <2>3. sealed[i].epoch + 1 \in DOMAIN mem.keys
    <3>1. mem.keys \in Seq(Nat) /\ Len(mem.keys) = mem.current + 1 /\ mem.current \in Nat
      BY <2>2 DEF IsCustody
    <3>2. DOMAIN mem.keys = 1..(mem.current + 1)
      BY <3>1
    <3>3. sealed[i].epoch \in 0..mem.current
      BY <2>1 DEF Sells
    <3> QED
      BY <3>1, <3>2, <3>3
  <2> QED
    BY <2>1, <2>3 DEF Sells, Content!Known
<1>2. Content!OneUnlockPerToken
  <2> SUFFICES ASSUME NEW t \in Token PROVE Content!Cardinality(bought[t]) <= 1
    BY DEF Content!OneUnlockPerToken
  <2>1. PICK e, k : Out(t) \subseteq {<<e, k>>}
    BY DEF KeysInv, SalesSound
  <2>2. bought[t] \subseteq {<<e, k>>}
    BY <2>1 DEF Out, Received
  <2>3. bought[t] = {} \/ bought[t] = {<<e, k>>}
    BY <2>2
  <2>4. Cardinality({}) = 0 /\ Cardinality({<<e, k>>}) = 1
    BY FS_EmptySet, FS_Singleton
  <2>5. Cardinality(bought[t]) \in {0, 1}
    BY <2>3, <2>4
  <2> QED
    BY <2>5, ContentLibrary
<1> QED
  BY <1>1, <1>2

----------------------------------------------------------------------------
(* ContentKeys: the ring.                                                   *)

\* The ring holds at least twice as many posts, less one, as the relay replays.
RingCovers == Content!ContentKeysAssumption /\ SeenCap > 0 /\ 2 * ReplayLimit <= SeenCap + 1

\* The relay's order: every post once, and where it stands.
Sealed == [post : Posts, epoch : Nat, key : Nat]
InOrder(sq) == sq \in Seq(Sealed) /\ \A i, j \in DOMAIN sq : sq[i].post = sq[j].post => i = j
NamesOf(sq) == {sq[i].post : i \in DOMAIN sq}
At(sq, p) == CHOOSE i \in DOMAIN sq : sq[i].post = p

\* Of two posts in one list, the later one is newer, or older by less than a replay.
NearlyOrdered(sq, s) ==
    \A m, n \in DOMAIN s : m < n => At(sq, s[n]) > At(sq, s[m]) - ReplayLimit

\* The same between the ring and what is on its way; and when a post comes again that the ring
\* still holds, nothing before it is newer by a replay.
WireBehind(sq, wire, ring) ==
    /\ \A m \in DOMAIN ring, n \in DOMAIN wire : At(sq, wire[n]) > At(sq, ring[m]) - ReplayLimit
    /\ \A n \in DOMAIN wire : wire[n] \in ToSet(ring) =>
          /\ \A m \in DOMAIN ring : At(sq, ring[m]) < At(sq, wire[n]) + ReplayLimit
          /\ \A m \in DOMAIN wire : m < n => At(sq, wire[m]) < At(sq, wire[n]) + ReplayLimit

\* A counted post is in the ring, or is too old to be replayed and is not on its way.
CountedKnown(sq, wire, ring, cnt) ==
    \A p \in Posts :
        /\ cnt[p] <= 1
        /\ cnt[p] > 0 =>
              /\ p \in NamesOf(sq)
              /\ \/ p \in ToSet(ring)
                 \/ At(sq, p) <= Len(sq) - ReplayLimit /\ p \notin ToSet(wire)

WatchOK(sq, wire, ring, cnt) ==
    /\ InOrder(sq)
    /\ wire \in Seq(NamesOf(sq)) /\ IsInjective(wire)
    /\ ring \in Seq(NamesOf(sq)) /\ IsInjective(ring) /\ Len(ring) <= SeenCap
    /\ cnt \in [Posts -> Nat]
    /\ NearlyOrdered(sq, ring) /\ NearlyOrdered(sq, wire)
    /\ WireBehind(sq, wire, ring)
    /\ CountedKnown(sq, wire, ring, cnt)

WatchInv ==
    /\ watch = [up |-> watch.up, wire |-> watch.wire, ring |-> watch.ring, from |-> watch.from]
    /\ watch.from \in 0..Len(sealed)
    /\ WatchOK(sealed, watch.wire, watch.ring, counted)

LEMMA AtFacts ==
    ASSUME NEW sq, InOrder(sq)
    PROVE  /\ \A p \in NamesOf(sq) : At(sq, p) \in 1..Len(sq) /\ sq[At(sq, p)].post = p
           /\ \A i \in DOMAIN sq : At(sq, sq[i].post) = i /\ sq[i].post \in NamesOf(sq)
           /\ \A p, q \in NamesOf(sq) : At(sq, p) = At(sq, q) => p = q
           /\ NamesOf(sq) \subseteq Posts /\ Len(sq) \in Nat /\ DOMAIN sq = 1..Len(sq)
<1>1. DOMAIN sq = 1..Len(sq) /\ Len(sq) \in Nat /\ \A i \in DOMAIN sq : sq[i] \in Sealed
  BY DEF InOrder
<1>2. ASSUME NEW p \in NamesOf(sq) PROVE At(sq, p) \in DOMAIN sq /\ sq[At(sq, p)].post = p
  <2>1. \E i \in DOMAIN sq : sq[i].post = p
    BY DEF NamesOf
  <2> QED
    BY <2>1 DEF At
<1>3. \A i \in DOMAIN sq : sq[i].post \in NamesOf(sq)
  BY DEF NamesOf
<1>4. \A i \in DOMAIN sq : At(sq, sq[i].post) = i
  BY <1>2, <1>3 DEF InOrder
<1>5. NamesOf(sq) \subseteq Posts
  BY <1>1 DEF NamesOf, Sealed
<1> QED
  BY <1>1, <1>2, <1>3, <1>4, <1>5

\* One more post at the relay is its newest.
LEMMA OneMorePost ==
    ASSUME NEW sq, InOrder(sq), NEW x \in Sealed, x.post \notin NamesOf(sq)
    PROVE  /\ InOrder(Append(sq, x)) /\ NamesOf(Append(sq, x)) = NamesOf(sq) \cup {x.post}
           /\ Len(Append(sq, x)) = Len(sq) + 1
           /\ At(Append(sq, x), x.post) = Len(sq) + 1
           /\ \A p \in NamesOf(sq) : At(Append(sq, x), p) = At(sq, p)
<1> DEFINE u == Append(sq, x)
<1>1. sq \in Seq(Sealed) /\ Len(sq) \in Nat /\ DOMAIN sq = 1..Len(sq)
  BY DEF InOrder
<1>2. /\ u \in Seq(Sealed) /\ Len(u) = Len(sq) + 1 /\ DOMAIN u = 1..(Len(sq) + 1)
      /\ u[Len(sq) + 1] = x /\ \A i \in DOMAIN sq : u[i] = sq[i]
  BY <1>1
<1> HIDE DEF u
<1>3. \A i \in DOMAIN u : i \in DOMAIN sq \/ i = Len(sq) + 1
  BY <1>1, <1>2
<1>4. \A i \in DOMAIN sq : i \in DOMAIN u /\ sq[i].post # x.post
  BY <1>1, <1>2 DEF NamesOf
<1>5. \A i, j \in DOMAIN u : u[i].post = u[j].post => i = j
  BY <1>2, <1>3, <1>4 DEF InOrder
<1>6. InOrder(u)
  BY <1>2, <1>5 DEF InOrder
<1>7. Len(sq) + 1 \in DOMAIN u
  BY <1>1, <1>2
<1>8. NamesOf(u) = NamesOf(sq) \cup {x.post}
  BY <1>2, <1>3, <1>4, <1>7 DEF NamesOf
<1>9. At(u, x.post) = Len(sq) + 1
  BY <1>2, <1>6, <1>7, AtFacts
<1>10. ASSUME NEW p \in NamesOf(sq) PROVE At(u, p) = At(sq, p)
  <2>1. At(sq, p) \in DOMAIN sq /\ sq[At(sq, p)].post = p
    BY <1>1, AtFacts
  <2>2. At(sq, p) \in DOMAIN u /\ u[At(sq, p)].post = p
    BY <1>2, <1>4, <2>1
  <2> QED
    BY <1>6, <2>2, AtFacts
<1> QED
  BY <1>2, <1>6, <1>8, <1>9, <1>10 DEF u

LEMMA PlaceFacts ==
    ASSUME RingCovers, NEW sq, NEW wire, NEW ring, NEW cnt, WatchOK(sq, wire, ring, cnt)
    PROVE  /\ InOrder(sq) /\ Len(sq) \in Nat /\ ReplayLimit \in Nat /\ SeenCap \in Nat
           /\ \A n \in DOMAIN wire : /\ wire[n] \in NamesOf(sq) /\ At(sq, wire[n]) \in Int
                                     /\ 1 <= At(sq, wire[n]) /\ At(sq, wire[n]) <= Len(sq)
           /\ \A n \in DOMAIN ring : /\ ring[n] \in NamesOf(sq) /\ At(sq, ring[n]) \in Int
                                     /\ 1 <= At(sq, ring[n]) /\ At(sq, ring[n]) <= Len(sq)
           /\ ToSet(wire) \subseteq NamesOf(sq) /\ ToSet(ring) \subseteq NamesOf(sq)
           /\ \A p \in NamesOf(sq) : At(sq, p) \in Int /\ 1 <= At(sq, p) /\ At(sq, p) <= Len(sq)
<1>1. InOrder(sq) /\ wire \in Seq(NamesOf(sq)) /\ ring \in Seq(NamesOf(sq))
  BY DEF WatchOK
<1>2. ReplayLimit \in Nat /\ SeenCap \in Nat
  BY DEF RingCovers, Content!ContentKeysAssumption
<1>3. Len(sq) \in Nat /\ \A p \in NamesOf(sq) : At(sq, p) \in 1..Len(sq)
  BY <1>1, AtFacts
<1>4. \A p \in NamesOf(sq) : At(sq, p) \in Int /\ 1 <= At(sq, p) /\ At(sq, p) <= Len(sq)
  BY <1>3
<1>5. /\ \A n \in DOMAIN wire : wire[n] \in NamesOf(sq)
      /\ \A n \in DOMAIN ring : ring[n] \in NamesOf(sq)
  BY <1>1
<1>6. ToSet(wire) \subseteq NamesOf(sq) /\ ToSet(ring) \subseteq NamesOf(sq)
  BY <1>5 DEF ToSet
<1> QED
  BY <1>1, <1>2, <1>3, <1>4, <1>5, <1>6

\* The relay keeps a new post, and sends it when the watcher is connected.
LEMMA SealWatched ==
    ASSUME RingCovers, NEW sq, NEW wire, NEW ring, NEW cnt, WatchOK(sq, wire, ring, cnt),
           NEW x \in Sealed, x.post \notin NamesOf(sq)
    PROVE  /\ WatchOK(Append(sq, x), wire, ring, cnt)
           /\ WatchOK(Append(sq, x), Append(wire, x.post), ring, cnt)
<1> DEFINE u == Append(sq, x)
           v == Append(wire, x.post)
<1>1. /\ InOrder(sq) /\ Len(sq) \in Nat /\ ReplayLimit \in Nat
      /\ \A n \in DOMAIN wire : /\ wire[n] \in NamesOf(sq) /\ At(sq, wire[n]) \in Int
                                /\ 1 <= At(sq, wire[n]) /\ At(sq, wire[n]) <= Len(sq)
      /\ \A n \in DOMAIN ring : /\ ring[n] \in NamesOf(sq) /\ At(sq, ring[n]) \in Int
                                /\ 1 <= At(sq, ring[n]) /\ At(sq, ring[n]) <= Len(sq)
      /\ ToSet(wire) \subseteq NamesOf(sq) /\ ToSet(ring) \subseteq NamesOf(sq)
      /\ \A p \in NamesOf(sq) : At(sq, p) \in Int /\ 1 <= At(sq, p) /\ At(sq, p) <= Len(sq)
  BY PlaceFacts
<1>2. /\ InOrder(u) /\ NamesOf(u) = NamesOf(sq) \cup {x.post} /\ Len(u) = Len(sq) + 1
      /\ At(u, x.post) = Len(sq) + 1 /\ \A p \in NamesOf(sq) : At(u, p) = At(sq, p)
  BY <1>1, OneMorePost
<1>3. wire \in Seq(NamesOf(sq)) /\ ring \in Seq(NamesOf(sq)) /\ IsInjective(wire) /\ IsInjective(ring)
  BY DEF WatchOK
<1>4. wire \in Seq(NamesOf(u)) /\ ring \in Seq(NamesOf(u)) /\ x.post \in NamesOf(u) \ ToSet(wire)
  <2>1. NamesOf(sq) \subseteq NamesOf(u)
    BY <1>2
  <2> QED
    BY <1>1, <1>2, <1>3, <2>1
<1>5. /\ v \in Seq(NamesOf(u)) /\ IsInjective(v) /\ ToSet(v) = ToSet(wire) \cup {x.post}
  BY <1>3, <1>4, QueueFacts
<1>6. /\ \A n \in DOMAIN wire : n \in DOMAIN v /\ v[n] = wire[n] /\ n < Len(wire) + 1
      /\ \A n \in DOMAIN v : n \in DOMAIN wire \/ n = Len(wire) + 1
      /\ v[Len(wire) + 1] = x.post
  BY <1>3
<1>7. \A n \in DOMAIN v : v[n] = x.post => n = Len(wire) + 1
  BY <1>1, <1>6
<1> HIDE DEF u, v
<1>8. NearlyOrdered(u, ring) /\ NearlyOrdered(u, wire)
  BY <1>1, <1>2 DEF WatchOK, NearlyOrdered
<1>9. NearlyOrdered(u, v)
  <2> SUFFICES ASSUME NEW m \in DOMAIN v, NEW n \in DOMAIN v, m < n
               PROVE  At(u, v[n]) > At(u, v[m]) - ReplayLimit
    BY DEF NearlyOrdered
  <2>0. Len(wire) \in Nat /\ DOMAIN wire = 1..Len(wire)
    BY <1>3
  <2>1. m \in DOMAIN wire
    BY <1>6, <2>0
  <2>2. CASE n \in DOMAIN wire
    BY <1>6, <1>8, <2>1, <2>2 DEF NearlyOrdered
  <2>3. CASE n = Len(wire) + 1
    <3>1. At(u, v[n]) = Len(sq) + 1 /\ At(u, v[m]) = At(sq, wire[m])
      BY <1>1, <1>2, <1>6, <2>1, <2>3
    <3>2. At(sq, wire[m]) \in Int /\ At(sq, wire[m]) <= Len(sq)
      BY <1>1, <2>1
    <3> QED
      BY <1>1, <3>1, <3>2
  <2> QED
    BY <1>6, <2>2, <2>3
<1>10. WireBehind(u, wire, ring)
  BY <1>1, <1>2 DEF WatchOK, WireBehind
<1>11. WireBehind(u, v, ring)
  <2>1. ASSUME NEW m \in DOMAIN ring, NEW n \in DOMAIN v
        PROVE  At(u, v[n]) > At(u, ring[m]) - ReplayLimit
    <3>1. CASE n \in DOMAIN wire
      BY <1>6, <1>10, <3>1 DEF WireBehind
    <3>2. CASE n = Len(wire) + 1
      <4>1. At(u, v[n]) = Len(sq) + 1 /\ At(u, ring[m]) = At(sq, ring[m])
        BY <1>1, <1>2, <1>6, <3>2
      <4>2. At(sq, ring[m]) \in Int /\ At(sq, ring[m]) <= Len(sq)
        BY <1>1
      <4> QED
        BY <1>1, <4>1, <4>2
    <3> QED
      BY <1>6, <3>1, <3>2
  <2>2. ASSUME NEW n \in DOMAIN v, v[n] \in ToSet(ring)
        PROVE  /\ \A m \in DOMAIN ring : At(u, ring[m]) < At(u, v[n]) + ReplayLimit
               /\ \A m \in DOMAIN v : m < n => At(u, v[m]) < At(u, v[n]) + ReplayLimit
    <3>1. n \in DOMAIN wire /\ v[n] = wire[n]
      BY <1>1, <1>6, <2>2
    <3>2. \A m \in DOMAIN v : m < n => m \in DOMAIN wire /\ v[m] = wire[m]
      <4>1. Len(wire) \in Nat /\ DOMAIN wire = 1..Len(wire)
        BY <1>3
      <4> QED
        BY <1>6, <3>1, <4>1
    <3> QED
      BY <1>10, <2>2, <3>1, <3>2 DEF WireBehind
  <2> QED
    BY <2>1, <2>2 DEF WireBehind
<1>12. CountedKnown(u, wire, ring, cnt) /\ CountedKnown(u, v, ring, cnt)
  <2> SUFFICES ASSUME NEW p \in Posts, cnt[p] > 0
               PROVE  /\ p \in NamesOf(u)
                      /\ \/ p \in ToSet(ring)
                         \/ At(u, p) <= Len(u) - ReplayLimit /\ p \notin ToSet(wire) /\ p \notin ToSet(v)
    BY DEF WatchOK, CountedKnown
  <2>1. /\ p \in NamesOf(sq)
        /\ p \in ToSet(ring) \/ (At(sq, p) <= Len(sq) - ReplayLimit /\ p \notin ToSet(wire))
    BY DEF WatchOK, CountedKnown
  <2>2. At(u, p) = At(sq, p) /\ At(sq, p) \in Int /\ p # x.post /\ p \in NamesOf(u)
    BY <1>1, <1>2, <2>1
  <2>3. At(sq, p) <= Len(sq) - ReplayLimit => At(u, p) <= Len(u) - ReplayLimit
    BY <1>1, <1>2, <2>2
  <2> QED
    BY <1>5, <2>1, <2>2, <2>3
<1> QED
  BY <1>2, <1>3, <1>4, <1>5, <1>8, <1>9, <1>10, <1>11, <1>12 DEF WatchOK, u, v

\* Nothing is on its way after a disconnection.
LEMMA DropWatched ==
    ASSUME RingCovers, NEW sq, NEW wire, NEW ring, NEW cnt, WatchOK(sq, wire, ring, cnt)
    PROVE  WatchOK(sq, <<>>, ring, cnt)
<1>1. /\ DOMAIN <<>> = {} /\ <<>> \in Seq(NamesOf(sq)) /\ ToSet(<<>>) = {} /\ IsInjective(<<>>)
  BY DEF ToSet, IsInjective
<1> DEFINE none == <<>>
<1>2. /\ DOMAIN none = {} /\ none \in Seq(NamesOf(sq)) /\ ToSet(none) = {} /\ IsInjective(none)
  BY <1>1
<1> SUFFICES WatchOK(sq, none, ring, cnt)
  OBVIOUS
<1> HIDE DEF none
<1>3. NearlyOrdered(sq, none) /\ WireBehind(sq, none, ring)
  BY <1>2 DEF NearlyOrdered, WireBehind
<1>4. CountedKnown(sq, none, ring, cnt)
  BY <1>2 DEF WatchOK, CountedKnown
<1> QED
  BY <1>2, <1>3, <1>4 DEF WatchOK

\* A process that has counted nothing.
LEMMA StartWatched ==
    ASSUME RingCovers, NEW sq, InOrder(sq)
    PROVE  WatchOK(sq, <<>>, <<>>, [p \in Posts |-> 0])
<1> DEFINE none == <<>>
           zero == [p \in Posts |-> 0]
<1>1. /\ DOMAIN none = {} /\ none \in Seq(NamesOf(sq)) /\ ToSet(none) = {} /\ IsInjective(none)
      /\ Len(none) = 0
  BY DEF ToSet, IsInjective
<1>2. zero \in [Posts -> Nat] /\ \A p \in Posts : zero[p] = 0
  OBVIOUS
<1> SUFFICES WatchOK(sq, none, none, zero)
  OBVIOUS
<1> HIDE DEF none, zero
<1>3. NearlyOrdered(sq, none) /\ WireBehind(sq, none, none)
  BY <1>1 DEF NearlyOrdered, WireBehind
<1>4. CountedKnown(sq, none, none, zero)
  BY <1>2 DEF CountedKnown
<1>5. SeenCap \in Nat
  BY DEF RingCovers, Content!ContentKeysAssumption
<1> QED
  BY <1>1, <1>2, <1>3, <1>4, <1>5 DEF WatchOK

\* The newest k posts, newest first.
LEMMA ReplayWatched ==
    ASSUME RingCovers, NEW sq, NEW wire, NEW ring, NEW cnt, WatchOK(sq, wire, ring, cnt),
           NEW k \in Nat, k <= Len(sq), k <= ReplayLimit
    PROVE  WatchOK(sq, [i \in 1..k |-> sq[Len(sq) + 1 - i].post], ring, cnt)
<1> DEFINE w == [i \in 1..k |-> sq[Len(sq) + 1 - i].post]
<1>1. /\ InOrder(sq) /\ Len(sq) \in Nat /\ ReplayLimit \in Nat
      /\ \A n \in DOMAIN ring : /\ ring[n] \in NamesOf(sq) /\ At(sq, ring[n]) \in Int
                                /\ 1 <= At(sq, ring[n]) /\ At(sq, ring[n]) <= Len(sq)
  BY PlaceFacts
<1>2. /\ DOMAIN w = 1..k
      /\ \A i \in 1..k : w[i] \in NamesOf(sq) /\ At(sq, w[i]) = Len(sq) + 1 - i
  <2>1. \A i \in 1..k : Len(sq) + 1 - i \in DOMAIN sq
    <3>1. DOMAIN sq = 1..Len(sq)
      BY <1>1, AtFacts
    <3> QED
      BY <1>1, <3>1
  <2> QED
    BY <1>1, <2>1, AtFacts
<1>3. w \in Seq(NamesOf(sq))
  <2>1. w \in [1..k -> NamesOf(sq)]
    BY <1>2
  <2> HIDE DEF w
  <2> QED BY <2>1
<1> HIDE DEF w
<1>4. IsInjective(w)
  <2>1. ASSUME NEW m \in 1..k, NEW n \in 1..k, w[m] = w[n] PROVE m = n
    <3>1. Len(sq) + 1 - m = Len(sq) + 1 - n
      BY <1>2, <2>1
    <3> QED
      BY <1>1, <3>1
  <2> QED
    BY <1>2, <2>1 DEF IsInjective
<1>5. \A m, n \in 1..k : /\ At(sq, w[n]) > At(sq, w[m]) - ReplayLimit
                         /\ At(sq, w[m]) < At(sq, w[n]) + ReplayLimit
  <2> SUFFICES ASSUME NEW m \in 1..k, NEW n \in 1..k
               PROVE  /\ At(sq, w[n]) > At(sq, w[m]) - ReplayLimit
                      /\ At(sq, w[m]) < At(sq, w[n]) + ReplayLimit
    OBVIOUS
  <2>1. At(sq, w[n]) = Len(sq) + 1 - n /\ At(sq, w[m]) = Len(sq) + 1 - m
    BY <1>2
  <2>2. n < m + ReplayLimit /\ m < n + ReplayLimit
    BY <1>1
  <2> QED
    BY <1>1, <2>1, <2>2
<1>6. NearlyOrdered(sq, w)
  BY <1>2, <1>5 DEF NearlyOrdered
<1>7. \A m \in DOMAIN ring, n \in 1..k : /\ At(sq, w[n]) > At(sq, ring[m]) - ReplayLimit
                                         /\ At(sq, ring[m]) < At(sq, w[n]) + ReplayLimit
  <2> SUFFICES ASSUME NEW m \in DOMAIN ring, NEW n \in 1..k
               PROVE  /\ Len(sq) + 1 - n > At(sq, ring[m]) - ReplayLimit
                      /\ At(sq, ring[m]) < Len(sq) + 1 - n + ReplayLimit
    BY <1>2
  <2>1. At(sq, ring[m]) \in Int /\ At(sq, ring[m]) <= Len(sq)
    BY <1>1
  <2> QED
    BY <1>1, <2>1
<1>8. WireBehind(sq, w, ring)
  BY <1>2, <1>5, <1>7 DEF WireBehind
<1>9. CountedKnown(sq, w, ring, cnt)
  <2> SUFFICES ASSUME NEW p \in Posts, cnt[p] > 0, p \notin ToSet(ring)
               PROVE  p \notin ToSet(w)
    BY DEF WatchOK, CountedKnown
  <2>1. p \in NamesOf(sq) /\ At(sq, p) <= Len(sq) - ReplayLimit
    BY DEF WatchOK, CountedKnown
  <2>2. ASSUME NEW n \in 1..k, w[n] = p PROVE FALSE
    <3>1. Len(sq) + 1 - n <= Len(sq) - ReplayLimit
      BY <1>2, <2>1, <2>2
    <3> QED
      BY <1>1, <3>1
  <2> QED
    BY <1>2, <2>2 DEF ToSet
<1> QED
  BY <1>3, <1>4, <1>6, <1>8, <1>9 DEF WatchOK, w

\* What is next on its way, and what remains.
LEMMA NextOnWire ==
    ASSUME NEW S, NEW s \in Seq(S), s # <<>>, IsInjective(s)
    PROVE  /\ 1 \in DOMAIN s /\ Head(s) = s[1] /\ Tail(s) \in Seq(S) /\ IsInjective(Tail(s))
           /\ ToSet(Tail(s)) = ToSet(s) \ {Head(s)}
           /\ \A n \in DOMAIN Tail(s) : /\ n \in Nat /\ n + 1 \in DOMAIN s /\ Tail(s)[n] = s[n + 1]
                                        /\ 1 < n + 1 /\ s[n + 1] # Head(s)
<1>1. Tail(s) \in Seq(S) /\ IsInjective(Tail(s)) /\ ToSet(Tail(s)) = ToSet(s) \ {Head(s)}
  BY QueueFacts
<1>2. /\ 1 \in DOMAIN s /\ Head(s) = s[1]
      /\ \A n \in DOMAIN Tail(s) : n \in Nat /\ n + 1 \in DOMAIN s /\ Tail(s)[n] = s[n + 1] /\ 1 < n + 1
  <2>1. Len(s) \in Nat /\ Len(s) >= 1 /\ DOMAIN s = 1..Len(s) /\ DOMAIN Tail(s) = 1..(Len(s) - 1)
    OBVIOUS
  <2>2. \A n \in 1..(Len(s) - 1) : Tail(s)[n] = s[n + 1]
    BY <2>1
  <2>3. Head(s) = s[1]
    OBVIOUS
  <2> QED
    BY <2>1, <2>2, <2>3
<1>3. \A n \in DOMAIN Tail(s) : s[n + 1] # Head(s)
  BY <1>2 DEF IsInjective
<1> QED
  BY <1>1, <1>2, <1>3

\* A post the ring holds is not counted again.
LEMMA KnownWatched ==
    ASSUME RingCovers, NEW sq, NEW wire, NEW ring, NEW cnt, WatchOK(sq, wire, ring, cnt), wire # <<>>
    PROVE  /\ Tail(wire) \in Seq(NamesOf(sq)) /\ IsInjective(Tail(wire)) /\ NearlyOrdered(sq, Tail(wire))
           /\ WireBehind(sq, Tail(wire), ring) /\ CountedKnown(sq, Tail(wire), ring, cnt)
<1> DEFINE w == Tail(wire)
<1>1. wire \in Seq(NamesOf(sq)) /\ IsInjective(wire)
  BY DEF WatchOK
<1>2. /\ w \in Seq(NamesOf(sq)) /\ IsInjective(w) /\ ToSet(w) \subseteq ToSet(wire)
      /\ \A n \in DOMAIN w : n \in Nat /\ n + 1 \in DOMAIN wire /\ w[n] = wire[n + 1]
  BY <1>1, NextOnWire
<1> HIDE DEF w
<1>3. NearlyOrdered(sq, w)
  <2> SUFFICES ASSUME NEW m \in DOMAIN w, NEW n \in DOMAIN w, m < n
               PROVE  At(sq, w[n]) > At(sq, w[m]) - ReplayLimit
    BY DEF NearlyOrdered
  <2>1. m + 1 \in DOMAIN wire /\ n + 1 \in DOMAIN wire /\ m + 1 < n + 1
    BY <1>2
  <2> QED
    BY <1>2, <2>1 DEF WatchOK, NearlyOrdered
<1>4. WireBehind(sq, w, ring)
  <2>1. \A m \in DOMAIN ring, n \in DOMAIN w : At(sq, w[n]) > At(sq, ring[m]) - ReplayLimit
    BY <1>2 DEF WatchOK, WireBehind
  <2>2. ASSUME NEW n \in DOMAIN w, w[n] \in ToSet(ring)
        PROVE  /\ \A m \in DOMAIN ring : At(sq, ring[m]) < At(sq, w[n]) + ReplayLimit
               /\ \A m \in DOMAIN w : m < n => At(sq, w[m]) < At(sq, w[n]) + ReplayLimit
    <3>1. \A m \in DOMAIN w : m < n => m + 1 \in DOMAIN wire /\ m + 1 < n + 1
      BY <1>2
    <3> QED
      BY <1>2, <2>2, <3>1 DEF WatchOK, WireBehind
  <2> QED
    BY <2>1, <2>2 DEF WireBehind
<1>5. CountedKnown(sq, w, ring, cnt)
  BY <1>2 DEF WatchOK, CountedKnown
<1> QED
  BY <1>2, <1>3, <1>4, <1>5 DEF w

\* N different numbers of an interval, none of them i, leave room for i.
LEMMA Crowded ==
    ASSUME NEW N \in Nat, NEW a \in Int, NEW b \in Int, NEW i \in a..b, NEW f \in [1..N -> Int],
           \A m, n \in 1..N : f[m] = f[n] => m = n,
           \A n \in 1..N : f[n] >= a /\ f[n] <= b /\ f[n] # i
    PROVE  N <= b - a
<1> DEFINE T == a..b
<1>1. IsFiniteSet(T) /\ Cardinality(T) = b - a + 1
  <2>1. IsFiniteSet(a..b) /\ Cardinality(a..b) = IF a > b THEN 0 ELSE b - a + 1
    BY FS_Interval
  <2> QED
    BY <2>1
<1>2. i \in T
  OBVIOUS
<1>3. f \in [1..N -> T \ {i}]
  BY DEF T
<1> HIDE DEF T
<1>4. IsFiniteSet(T \ {i}) /\ Cardinality(T \ {i}) = b - a
  <2>1. IsFiniteSet(T \ {i}) /\ Cardinality(T \ {i}) = Cardinality(T) - 1
    BY <1>1, <1>2, FS_RemoveElement
  <2> QED
    BY <1>1, <2>1
<1>5. f \in Injection(1..N, T \ {i})
  BY <1>3 DEF Injection, IsInjective
<1>6. Cardinality(1..N) = N
  <2>1. Cardinality(1..N) = IF 1 > N THEN 0 ELSE N - 1 + 1
    BY FS_Interval
  <2> QED
    BY <2>1
<1>7. Cardinality(1..N) <= Cardinality(T \ {i})
  BY <1>4, <1>5, FS_Injection
<1> QED
  BY <1>4, <1>6, <1>7

\* The post the full ring gives up for p is too old to be replayed, and not on its way: the
\* ring's other posts, all different, stand less than a replay before it or after it.
LEMMA Evicted ==
    ASSUME RingCovers, NEW sq, NEW wire, NEW ring, NEW cnt, WatchOK(sq, wire, ring, cnt),
           wire # <<>>, Head(wire) \notin ToSet(ring), Len(ring) = SeenCap
    PROVE  /\ At(sq, Head(ring)) <= Len(sq) - ReplayLimit
           /\ Head(ring) \notin ToSet(Tail(wire))
<1> DEFINE p == Head(wire)
           g == Append(Tail(ring), p)
           i == At(sq, Head(ring))
           f == [n \in 1..SeenCap |-> At(sq, g[n])]
<1>1. /\ InOrder(sq) /\ Len(sq) \in Nat /\ ReplayLimit \in Nat /\ SeenCap \in Nat
      /\ \A n \in DOMAIN ring : ring[n] \in NamesOf(sq)
      /\ \A q \in NamesOf(sq) : At(sq, q) \in Int /\ 1 <= At(sq, q) /\ At(sq, q) <= Len(sq)
  BY PlaceFacts
<1>2. SeenCap > 0 /\ 2 * ReplayLimit <= SeenCap + 1
  BY DEF RingCovers
<1>3. /\ ring \in Seq(NamesOf(sq)) /\ wire \in Seq(NamesOf(sq)) /\ IsInjective(ring) /\ IsInjective(wire)
      /\ ring # <<>>
  <2>1. ring \in Seq(NamesOf(sq)) /\ wire \in Seq(NamesOf(sq)) /\ IsInjective(ring) /\ IsInjective(wire)
    BY DEF WatchOK
  <2>2. ring # <<>>
    <3>1. Len(<<>>) = 0
      OBVIOUS
    <3> QED
      BY <1>1, <1>2, <3>1
  <2> QED
    BY <2>1, <2>2
<1>4. 1 \in DOMAIN wire /\ p = wire[1] /\ p \in NamesOf(sq) /\ p # Head(ring)
  <2>1. 1 \in DOMAIN wire /\ p = wire[1]
    BY <1>3, NextOnWire
  <2>2. Head(ring) \in ToSet(ring)
    BY <1>3, QueueFacts
  <2> QED
    BY <1>3, <2>1, <2>2
<1>5. 1 \in DOMAIN ring /\ Head(ring) = ring[1] /\ Head(ring) \in NamesOf(sq)
  BY <1>1, <1>3, NextOnWire
<1>6. i \in Int /\ 1 <= i /\ i <= Len(sq)
  BY <1>1, <1>5
<1>7. Tail(ring) \in Seq(NamesOf(sq)) /\ IsInjective(Tail(ring)) /\ p \in NamesOf(sq) \ ToSet(Tail(ring))
  BY <1>3, <1>4, QueueFacts
<1>8. g \in Seq(NamesOf(sq)) /\ IsInjective(g)
  BY <1>7, QueueFacts
<1>9. /\ DOMAIN g = 1..SeenCap
      /\ \A n \in 1..SeenCap :
            \/ g[n] = p
            \/ /\ n + 1 \in DOMAIN ring /\ 1 < n + 1 /\ g[n] = ring[n + 1] /\ ring[n + 1] # Head(ring)
  <2>1. Len(Tail(ring)) = SeenCap - 1 /\ DOMAIN Tail(ring) = 1..(SeenCap - 1)
    BY <1>1, <1>2, <1>3
  <2>2. /\ DOMAIN g = 1..SeenCap /\ g[SeenCap] = p
        /\ \A n \in 1..(SeenCap - 1) : g[n] = Tail(ring)[n]
    BY <1>1, <1>2, <1>7, <2>1
  <2>3. \A n \in 1..(SeenCap - 1) :
            n + 1 \in DOMAIN ring /\ 1 < n + 1 /\ Tail(ring)[n] = ring[n + 1] /\ ring[n + 1] # Head(ring)
    BY <1>3, <2>1, NextOnWire
  <2> HIDE DEF g, p
  <2>4. \A n \in 1..SeenCap : n = SeenCap \/ n \in 1..(SeenCap - 1)
    BY <1>1, <1>2
  <2> QED
    BY <2>2, <2>3, <2>4
<1>10. \A n \in 1..SeenCap : g[n] \in NamesOf(sq) /\ f[n] = At(sq, g[n])
  <2> HIDE DEF g
  <2> QED BY <1>8, <1>9
<1>11. f \in [1..SeenCap -> Int]
  <2> HIDE DEF g
  <2> QED BY <1>1, <1>10
<1>12. \A m, n \in 1..SeenCap : f[m] = f[n] => m = n
  <2> HIDE DEF g, f
  <2> SUFFICES ASSUME NEW m \in 1..SeenCap, NEW n \in 1..SeenCap, f[m] = f[n] PROVE m = n
    OBVIOUS
  <2>1. At(sq, g[m]) = At(sq, g[n]) /\ g[m] \in NamesOf(sq) /\ g[n] \in NamesOf(sq)
    BY <1>10
  <2>2. g[m] = g[n]
    BY <1>1, <2>1, AtFacts
  <2> QED
    BY <1>8, <1>9, <2>2 DEF IsInjective
<1>13. ASSUME NEW n \in 1..SeenCap
       PROVE  f[n] > i - ReplayLimit /\ f[n] # i /\ f[n] <= Len(sq) /\ f[n] \in Int
  <2>1. f[n] \in Int /\ f[n] <= Len(sq) /\ f[n] = At(sq, g[n]) /\ g[n] \in NamesOf(sq)
    <3> HIDE DEF g, f
    <3> QED BY <1>1, <1>10
  <2>2. g[n] # Head(ring)
    <3> HIDE DEF g, p
    <3> QED BY <1>4, <1>9
  <2>3. f[n] # i
    <3> HIDE DEF g, f
    <3> QED BY <1>1, <1>5, <2>1, <2>2, AtFacts
  <2>4. At(sq, g[n]) > i - ReplayLimit
    <3>1. CASE g[n] = p
      <4>1. At(sq, wire[1]) > At(sq, ring[1]) - ReplayLimit
        BY <1>4, <1>5 DEF WatchOK, WireBehind
      <4> HIDE DEF g, p
      <4> QED BY <1>4, <1>5, <3>1, <4>1
    <3>2. CASE n + 1 \in DOMAIN ring /\ 1 < n + 1 /\ g[n] = ring[n + 1]
      <4>1. At(sq, ring[n + 1]) > At(sq, ring[1]) - ReplayLimit
        BY <1>5, <3>2 DEF WatchOK, NearlyOrdered
      <4> HIDE DEF g
      <4> QED BY <1>5, <3>2, <4>1
    <3> HIDE DEF g, p
    <3> QED BY <1>9, <3>1, <3>2
  <2> HIDE DEF g, f
  <2> QED BY <2>1, <2>3, <2>4
<1> HIDE DEF i, f, g, p
<1>14. i <= Len(sq) - ReplayLimit
  <2>1. CASE ReplayLimit = 0
    BY <1>1, <1>6, <2>1
  <2>2. CASE ReplayLimit # 0
    <3> DEFINE a == i - ReplayLimit + 1
               b == Len(sq)
    <3>1. a \in Int /\ b \in Int /\ i \in a..b
      BY <1>1, <1>6, <2>2
    <3>2. \A n \in 1..SeenCap : f[n] >= a /\ f[n] <= b /\ f[n] # i
      BY <1>1, <1>6, <1>13
    <3> HIDE DEF a, b
    <3>3. SeenCap <= b - a
      BY <1>1, <1>11, <1>12, <3>1, <3>2, Crowded
    <3>4. SeenCap <= Len(sq) - i + ReplayLimit - 1
      BY <1>1, <1>6, <3>3 DEF a, b
    <3> QED
      BY <1>1, <1>2, <1>6, <3>4
  <2> QED
    BY <2>1, <2>2
<1>15. ASSUME NEW n \in DOMAIN Tail(wire), Tail(wire)[n] = Head(ring) PROVE FALSE
  <2>1. n \in Nat /\ n + 1 \in DOMAIN wire /\ wire[n + 1] = Head(ring) /\ 1 < n + 1
    BY <1>3, <1>15, NextOnWire
  <2>2. wire[n + 1] \in ToSet(ring) /\ At(sq, wire[n + 1]) = i
    BY <1>3, <2>1, QueueFacts DEF i
  <2>3. /\ \A m \in DOMAIN ring : At(sq, ring[m]) < i + ReplayLimit
        /\ At(sq, wire[1]) < i + ReplayLimit
    BY <1>4, <2>1, <2>2 DEF WatchOK, WireBehind
  <2>4. i < i + ReplayLimit
    BY <1>5, <2>3 DEF i
  <2> DEFINE a == i - ReplayLimit + 1
             b == i + ReplayLimit - 1
  <2>5. a \in Int /\ b \in Int /\ i \in a..b
    BY <1>1, <1>6, <2>4
  <2>6. ASSUME NEW m \in 1..SeenCap PROVE f[m] < i + ReplayLimit
    BY <1>4, <1>9, <1>10, <2>3
  <2>7. \A m \in 1..SeenCap : f[m] >= a /\ f[m] <= b /\ f[m] # i
    BY <1>1, <1>6, <1>13, <2>6
  <2> HIDE DEF a, b
  <2>8. SeenCap <= b - a
    BY <1>1, <1>11, <1>12, <2>5, <2>7, Crowded
  <2>9. SeenCap <= 2 * ReplayLimit - 2
    BY <1>1, <1>6, <2>8 DEF a, b
  <2> QED
    BY <1>1, <1>2, <2>9
<1> QED
  BY <1>14, <1>15 DEF ToSet, i

\* A post the ring does not hold was never counted; now it is, once.
LEMMA NewWatched ==
    ASSUME RingCovers, NEW sq, NEW wire, NEW ring, NEW cnt, WatchOK(sq, wire, ring, cnt),
           wire # <<>>, Head(wire) \notin ToSet(ring)
    PROVE  WatchOK(sq, Tail(wire), Content!RingAfter(ring, Head(wire)),
                   [cnt EXCEPT ![Head(wire)] = @ + 1])
<1> DEFINE p == Head(wire)
           w == Tail(wire)
           base == IF Len(ring) < SeenCap THEN ring ELSE Tail(ring)
           g == Content!RingAfter(ring, p)
           c == [cnt EXCEPT ![p] = @ + 1]
<1>1. /\ InOrder(sq) /\ Len(sq) \in Nat /\ ReplayLimit \in Nat /\ SeenCap \in Nat
      /\ \A n \in DOMAIN ring : ring[n] \in NamesOf(sq)
      /\ \A q \in NamesOf(sq) : At(sq, q) \in Int /\ 1 <= At(sq, q) /\ At(sq, q) <= Len(sq)
      /\ NamesOf(sq) \subseteq Posts
  BY PlaceFacts, AtFacts
<1>2. /\ ring \in Seq(NamesOf(sq)) /\ wire \in Seq(NamesOf(sq)) /\ IsInjective(ring) /\ IsInjective(wire)
      /\ Len(ring) <= SeenCap /\ cnt \in [Posts -> Nat] /\ SeenCap > 0
  BY DEF WatchOK, RingCovers
<1>3. /\ 1 \in DOMAIN wire /\ p = wire[1] /\ p \in NamesOf(sq) /\ p \in Posts
      /\ \A n \in DOMAIN w : n \in Nat /\ n + 1 \in DOMAIN wire /\ w[n] = wire[n + 1]
                             /\ 1 < n + 1 /\ w[n] # p
      /\ ToSet(w) = ToSet(wire) \ {p} /\ p \in ToSet(wire)
  <2>1. 1 \in DOMAIN wire /\ p = wire[1]
    BY <1>2, NextOnWire
  <2>2. \A n \in DOMAIN w : n \in Nat /\ n + 1 \in DOMAIN wire /\ w[n] = wire[n + 1]
                            /\ 1 < n + 1 /\ w[n] # p
    BY <1>2, NextOnWire
  <2>3. ToSet(w) = ToSet(wire) \ {p} /\ p \in ToSet(wire)
    BY <1>2, QueueFacts
  <2>4. p \in NamesOf(sq)
    BY <1>2, <2>1
  <2> QED
    BY <1>1, <2>1, <2>2, <2>3, <2>4
<1>4. /\ w \in Seq(NamesOf(sq)) /\ IsInjective(w) /\ NearlyOrdered(sq, w)
      /\ WireBehind(sq, w, ring) /\ CountedKnown(sq, w, ring, cnt)
  BY KnownWatched
<1>5. /\ base \in Seq(NamesOf(sq)) /\ IsInjective(base) /\ ToSet(base) \subseteq ToSet(ring)
      /\ Len(base) < SeenCap /\ Len(base) \in Nat /\ g = Append(base, p)
  <2>1. CASE Len(ring) < SeenCap
    <3>1. base = ring /\ g = Append(ring, p)
      BY <2>1 DEF Content!RingAfter
    <3> QED
      BY <1>2, <2>1, <3>1
  <2>2. CASE ~(Len(ring) < SeenCap)
    <3>1. base = Tail(ring) /\ g = Append(Tail(ring), p)
      BY <2>2 DEF Content!RingAfter
    <3>2. Len(ring) \in Nat /\ Len(ring) = SeenCap
      BY <1>1, <1>2, <2>2
    <3>3. ring # <<>> /\ Len(Tail(ring)) = SeenCap - 1
      <4>1. Len(<<>>) = 0
        OBVIOUS
      <4> QED
        BY <1>1, <1>2, <3>2, <4>1
    <3>4. /\ Tail(ring) \in Seq(NamesOf(sq)) /\ IsInjective(Tail(ring))
          /\ ToSet(Tail(ring)) \subseteq ToSet(ring)
      BY <1>2, <3>3, QueueFacts
    <3> QED
      BY <1>1, <3>1, <3>3, <3>4
  <2> QED
    BY <2>1, <2>2
<1>6. /\ g \in Seq(NamesOf(sq)) /\ IsInjective(g) /\ ToSet(g) = ToSet(base) \cup {p}
  <2>1. p \in NamesOf(sq) \ ToSet(base)
    BY <1>3, <1>5
  <2> HIDE DEF base, g, p
  <2> QED BY <1>5, <2>1, QueueFacts
<1>7. /\ Len(g) <= SeenCap
      /\ \A n \in DOMAIN g : (n \in DOMAIN base /\ g[n] = base[n]) \/ (n = Len(base) + 1 /\ g[n] = p)
      /\ \A n \in DOMAIN g : n <= Len(base) + 1 /\ n \in Int
      /\ \A n \in DOMAIN base : n < Len(base) + 1 /\ n \in Int
  <2> HIDE DEF base, p, g
  <2>1. Len(g) = Len(base) + 1 /\ DOMAIN g = 1..(Len(base) + 1) /\ DOMAIN base = 1..Len(base)
    BY <1>3, <1>5
  <2>2. g[Len(base) + 1] = p /\ \A n \in 1..Len(base) : g[n] = base[n]
    BY <1>3, <1>5
  <2>3. \A n \in DOMAIN g : n \in DOMAIN base \/ n = Len(base) + 1
    BY <1>5, <2>1
  <2> QED
    BY <1>1, <1>5, <2>1, <2>2, <2>3
<1>8. \A m, n \in DOMAIN base : m < n => At(sq, base[n]) > At(sq, base[m]) - ReplayLimit
  <2>1. CASE Len(ring) < SeenCap
    BY <2>1 DEF WatchOK, NearlyOrdered
  <2>2. CASE ~(Len(ring) < SeenCap)
    <3> SUFFICES ASSUME NEW m \in DOMAIN Tail(ring), NEW n \in DOMAIN Tail(ring), m < n
                 PROVE  At(sq, Tail(ring)[n]) > At(sq, Tail(ring)[m]) - ReplayLimit
      BY <2>2
    <3>1. ring # <<>>
      <4>1. Len(<<>>) = 0
        OBVIOUS
      <4> QED
        BY <1>1, <1>2, <2>2, <4>1
    <3>2. /\ m + 1 \in DOMAIN ring /\ n + 1 \in DOMAIN ring /\ m + 1 < n + 1
          /\ Tail(ring)[m] = ring[m + 1] /\ Tail(ring)[n] = ring[n + 1]
      BY <1>2, <3>1, NextOnWire
    <3> QED
      BY <3>2 DEF WatchOK, NearlyOrdered
  <2> QED
    BY <2>1, <2>2
<1>9. \A m \in DOMAIN base : \E j \in DOMAIN ring : base[m] = ring[j]
  <2> HIDE DEF base
  <2>1. \A m \in DOMAIN base : base[m] \in ToSet(ring)
    BY <1>5 DEF ToSet
  <2> QED
    BY <2>1 DEF ToSet
<1> HIDE DEF base, g, p, w
<1>10. NearlyOrdered(sq, g)
  <2> SUFFICES ASSUME NEW m \in DOMAIN g, NEW n \in DOMAIN g, m < n
               PROVE  At(sq, g[n]) > At(sq, g[m]) - ReplayLimit
    BY DEF NearlyOrdered
  <2>1. m \in DOMAIN base /\ g[m] = base[m]
    BY <1>5, <1>7
  <2>2. CASE n \in DOMAIN base /\ g[n] = base[n]
    BY <1>8, <2>1, <2>2
  <2>3. CASE g[n] = p
    <3>1. PICK j \in DOMAIN ring : base[m] = ring[j]
      BY <1>9, <2>1
    <3>2. At(sq, wire[1]) > At(sq, ring[j]) - ReplayLimit
      BY <1>3 DEF WatchOK, WireBehind
    <3> QED
      BY <1>3, <2>1, <2>3, <3>1, <3>2
  <2> QED
    BY <1>7, <2>2, <2>3
<1>11. WireBehind(sq, w, g)
  <2>1. ASSUME NEW m \in DOMAIN g, NEW n \in DOMAIN w
        PROVE  At(sq, w[n]) > At(sq, g[m]) - ReplayLimit
    <3>1. CASE m \in DOMAIN base /\ g[m] = base[m]
      BY <1>4, <1>9, <3>1 DEF WireBehind
    <3>2. CASE g[m] = p
      <4>1. At(sq, wire[n + 1]) > At(sq, wire[1]) - ReplayLimit
        BY <1>3 DEF WatchOK, NearlyOrdered
      <4> QED
        BY <1>3, <3>2, <4>1
    <3> QED
      BY <1>7, <3>1, <3>2
  <2>2. ASSUME NEW n \in DOMAIN w, w[n] \in ToSet(g)
        PROVE  /\ \A m \in DOMAIN g : At(sq, g[m]) < At(sq, w[n]) + ReplayLimit
               /\ \A m \in DOMAIN w : m < n => At(sq, w[m]) < At(sq, w[n]) + ReplayLimit
    <3>1. w[n] \in ToSet(ring)
      BY <1>3, <1>5, <1>6, <2>2
    <3>2. /\ \A m \in DOMAIN ring : At(sq, ring[m]) < At(sq, w[n]) + ReplayLimit
          /\ \A m \in DOMAIN w : m < n => At(sq, w[m]) < At(sq, w[n]) + ReplayLimit
      BY <1>4, <3>1 DEF WireBehind
    <3>3. At(sq, p) < At(sq, w[n]) + ReplayLimit
      <4>1. wire[n + 1] \in ToSet(ring) /\ n + 1 \in DOMAIN wire /\ 1 < n + 1
        BY <1>3, <3>1
      <4>2. At(sq, wire[1]) < At(sq, wire[n + 1]) + ReplayLimit
        BY <1>3, <4>1 DEF WatchOK, WireBehind
      <4> QED
        BY <1>3, <4>2
    <3>4. \A m \in DOMAIN g : At(sq, g[m]) < At(sq, w[n]) + ReplayLimit
      BY <1>7, <1>9, <3>2, <3>3
    <3> QED
      BY <3>2, <3>4
  <2> QED
    BY <2>1, <2>2 DEF WireBehind
<1>12. cnt[p] = 0
  <2>1. cnt[p] \in Nat /\ (cnt[p] > 0 => p \in ToSet(ring) \/ p \notin ToSet(wire))
    BY <1>2, <1>3 DEF WatchOK, CountedKnown
  <2> QED
    BY <1>3, <2>1 DEF p
<1>13. c \in [Posts -> Nat] /\ c[p] = 1 /\ \A q \in Posts \ {p} : c[q] = cnt[q]
  BY <1>2, <1>3, <1>12
<1> HIDE DEF c
<1>14. CountedKnown(sq, w, g, c)
  <2> SUFFICES ASSUME NEW q \in Posts
               PROVE  /\ c[q] <= 1
                      /\ c[q] > 0 => /\ q \in NamesOf(sq)
                                     /\ \/ q \in ToSet(g)
                                        \/ At(sq, q) <= Len(sq) - ReplayLimit /\ q \notin ToSet(w)
    BY DEF CountedKnown
  <2>1. CASE q = p
    BY <1>3, <1>6, <1>13, <2>1
  <2>2. CASE q # p
    <3>1. /\ cnt[q] <= 1
          /\ cnt[q] > 0 => /\ q \in NamesOf(sq)
                           /\ \/ q \in ToSet(ring)
                              \/ At(sq, q) <= Len(sq) - ReplayLimit /\ q \notin ToSet(w)
      BY <1>4 DEF CountedKnown
    <3>2. q \in ToSet(ring) =>
              q \in ToSet(g) \/ (At(sq, q) <= Len(sq) - ReplayLimit /\ q \notin ToSet(w))
      <4>1. CASE Len(ring) < SeenCap
        BY <1>6, <4>1 DEF base
      <4>2. CASE ~(Len(ring) < SeenCap)
        <5>1. Len(ring) \in Nat /\ Len(ring) = SeenCap
          BY <1>1, <1>2, <4>2
        <5>2. ring # <<>>
          <6>1. Len(<<>>) = 0
            OBVIOUS
          <6> QED
            BY <1>1, <1>2, <5>1, <6>1
        <5>3. ToSet(base) = ToSet(ring) \ {Head(ring)}
          BY <1>2, <4>2, <5>2, QueueFacts DEF base
        <5>4. At(sq, Head(ring)) <= Len(sq) - ReplayLimit /\ Head(ring) \notin ToSet(w)
          BY <5>1, Evicted DEF w
        <5> QED
          BY <1>6, <5>3, <5>4
      <4> QED
        BY <4>1, <4>2
    <3> QED
      BY <1>13, <2>2, <3>1, <3>2
  <2> QED
    BY <2>1, <2>2
<1> QED
  BY <1>1, <1>4, <1>6, <1>7, <1>10, <1>11, <1>13, <1>14 DEF WatchOK, g, c, w, p


LEMMA WatchInit ==
    ASSUME RingCovers, Content!Init
    PROVE  WatchInv
<1>1. /\ sealed = <<>> /\ counted = [p \in Posts |-> 0]
      /\ watch = [up |-> FALSE, wire |-> <<>>, ring |-> <<>>, from |-> 0]
  BY DEF Content!Init, Content!StartWatch
<1>2. InOrder(<<>>)
  BY DEF InOrder
<1>3. WatchOK(<<>>, <<>>, <<>>, [p \in Posts |-> 0])
  BY <1>2, StartWatched
<1>4. watch.from \in 0..Len(sealed)
  <2>1. Len(<<>>) = 0
    OBVIOUS
  <2> QED
    BY <1>1, <2>1
<1> QED
  BY <1>1, <1>3, <1>4 DEF WatchInv

LEMMA FirstK ==
    ASSUME NEW S, NEW s \in Seq(S), NEW k \in Nat, k <= Len(s)
    PROVE  DOMAIN SubSeq(s, 1, k) = 1..k /\ \A i \in 1..k : SubSeq(s, 1, k)[i] = s[i]
<1>1. SubSeq(s, 1, k) \in Seq(S) /\ Len(SubSeq(s, 1, k)) = k
  <2>1. Len(SubSeq(s, 1, k)) = IF 1 <= k THEN k - 1 + 1 ELSE 0
    OBVIOUS
  <2> QED
    BY <2>1
<1>2. \A i \in 1..k : SubSeq(s, 1, k)[i] = s[1 + i - 1]
  OBVIOUS
<1>3. \A i \in 1..k : 1 + i - 1 = i
  OBVIOUS
<1> QED
  BY <1>1, <1>2, <1>3

\* What a subscription is sent: the newest posts since the watcher's start, newest first.
Replay(sq, from) ==
    SubSeq(Content!Reverse(SubSeq(sq, from + 1, Len(sq))), 1,
           Content!Min({Len(SubSeq(sq, from + 1, Len(sq))), ReplayLimit}))

LEMMA ReplayFacts ==
    ASSUME RingCovers, NEW sq, InOrder(sq), NEW from \in 0..Len(sq)
    PROVE  \E k \in Nat :
              /\ k <= Len(sq) /\ k <= ReplayLimit /\ DOMAIN Replay(sq, from) = 1..k
              /\ \A i \in 1..k : Replay(sq, from)[i] = sq[Len(sq) + 1 - i]
<1> DEFINE newest == Replay(sq, from)
<1> DEFINE since == SubSeq(sq, from + 1, Len(sq))
           back == Reverse(since)
           k == Content!Min({Len(since), ReplayLimit})
<1>1. Len(sq) \in Nat /\ sq \in Seq(Sealed) /\ ReplayLimit \in Nat /\ from \in Nat /\ from <= Len(sq)
  BY DEF InOrder, RingCovers, Content!ContentKeysAssumption
<1>2. /\ since \in Seq(Sealed) /\ Len(since) = Len(sq) - from
      /\ \A i \in 1..(Len(sq) - from) : since[i] = sq[from + i]
  <2>1. Len(since) = IF from + 1 <= Len(sq) THEN Len(sq) - (from + 1) + 1 ELSE 0
    BY <1>1
  <2>2. /\ since = [i \in 1..(Len(sq) - from) |-> sq[(from + 1) + i - 1]]
    BY <1>1
  <2>3. \A i \in 1..(Len(sq) - from) : from + i \in DOMAIN sq /\ (from + 1) + i - 1 = from + i
    BY <1>1
  <2>4. \A i \in 1..(Len(sq) - from) : since[i] = sq[from + i]
    BY <2>2, <2>3
  <2>5. since \in Seq(Sealed)
    BY <1>1
  <2> QED
    BY <1>1, <2>1, <2>4, <2>5
<1> HIDE DEF since
<1>3. k \in Nat /\ k <= Len(since) /\ k <= ReplayLimit
  BY <1>1, <1>2, SmallerOfTwo
<1>4. newest = SubSeq(back, 1, k)
  BY ContentLibrary DEF since, Replay
<1> HIDE DEF k, newest
<1>5. back = [i \in 1..Len(since) |-> since[(Len(since) - i) + 1]]
  BY DEF Reverse
<1>6. \A i \in 1..Len(since) : /\ (Len(since) - i) + 1 \in 1..Len(since)
                               /\ back[i] = sq[Len(sq) + 1 - i]
  <2> SUFFICES ASSUME NEW i \in 1..Len(since)
               PROVE  /\ (Len(since) - i) + 1 \in 1..Len(since) /\ back[i] = sq[Len(sq) + 1 - i]
    OBVIOUS
  <2>1. (Len(since) - i) + 1 \in 1..(Len(sq) - from) /\ from + ((Len(since) - i) + 1) = Len(sq) + 1 - i
    BY <1>1, <1>2
  <2>2. since[(Len(since) - i) + 1] = sq[Len(sq) + 1 - i]
    BY <1>2, <2>1
  <2> QED
    BY <1>2, <1>5, <2>1, <2>2
<1>7. back \in Seq(Sealed) /\ Len(back) = Len(since)
  <2>1. \A i \in 1..Len(since) : since[(Len(since) - i) + 1] \in Sealed
    BY <1>2, <1>6
  <2>2. back \in [1..Len(since) -> Sealed]
    BY <1>5, <2>1
  <2>3. Len(since) \in Nat /\ DOMAIN back = 1..Len(since)
    BY <1>1, <1>2, <1>5
  <2> HIDE DEF back, since
  <2>4. back \in Seq(Sealed)
    BY <2>2, <2>3
  <2> QED
    BY <2>3, <2>4
<1> HIDE DEF back
<1>8. DOMAIN newest = 1..k /\ \A i \in 1..k : newest[i] = back[i]
  BY <1>3, <1>4, <1>7, FirstK
<1>9. DOMAIN newest = 1..k /\ \A i \in 1..k : newest[i] = sq[Len(sq) + 1 - i]
  <2>1. \A i \in 1..k : i \in 1..Len(since)
    BY <1>2, <1>3
  <2> QED
    BY <1>6, <1>8, <2>1
<1>10. k <= Len(sq)
  BY <1>1, <1>2, <1>3
<1> QED
  BY <1>3, <1>9, <1>10 DEF newest

LEMMA WatchNext ==
    ASSUME RingCovers, WatchInv, minted \in Nat, announced \in Nat, [Content!Next]_Content!vars
    PROVE  WatchInv'
<1>1. /\ watch = [up |-> watch.up, wire |-> watch.wire, ring |-> watch.ring, from |-> watch.from]
      /\ watch.from \in 0..Len(sealed) /\ WatchOK(sealed, watch.wire, watch.ring, counted)
      /\ InOrder(sealed) /\ Len(sealed) \in Nat
  <2>1. WatchOK(sealed, watch.wire, watch.ring, counted)
    BY DEF WatchInv
  <2>2. InOrder(sealed)
    BY <2>1 DEF WatchOK
  <2> QED
    BY <2>1, <2>2, AtFacts DEF WatchInv
<1>2. ASSUME sealed' = sealed, watch' = watch, counted' = counted PROVE WatchInv'
  BY <1>1, <1>2 DEF WatchInv
<1>3. CASE Content!WatchConnect
  <2> DEFINE newest == Replay(sealed, watch.from)
             wire == [i \in DOMAIN newest |-> newest[i].post]
  <2>1. sealed' = sealed /\ counted' = counted /\ watch' = [watch EXCEPT !.up = TRUE, !.wire = wire]
    BY <1>3 DEF Content!WatchConnect, Replay
  <2>2. PICK k \in Nat : /\ k <= Len(sealed) /\ k <= ReplayLimit
                         /\ wire = [i \in 1..k |-> sealed[Len(sealed) + 1 - i].post]
    <3>1. PICK k \in Nat : /\ k <= Len(sealed) /\ k <= ReplayLimit /\ DOMAIN newest = 1..k
                           /\ \A i \in 1..k : newest[i] = sealed[Len(sealed) + 1 - i]
      BY <1>1, ReplayFacts
    <3> HIDE DEF newest
    <3>2. wire = [i \in 1..k |-> sealed[Len(sealed) + 1 - i].post]
      BY <3>1
    <3> QED
      BY <3>1, <3>2
  <2>3. WatchOK(sealed, wire, watch.ring, counted)
    BY <1>1, <2>2, ReplayWatched
  <2>4. PICK u : u = wire
    OBVIOUS
  <2> HIDE DEF wire
  <2>5. watch' = [up |-> TRUE, wire |-> u, ring |-> watch.ring, from |-> watch.from]
    BY <1>1, <2>1, <2>4
  <2>6. watch'.wire = u /\ watch'.ring = watch.ring /\ watch'.from = watch.from
    BY <2>5
  <2> QED
    BY <1>1, <2>1, <2>3, <2>4, <2>5, <2>6 DEF WatchInv
<1>4. CASE Content!WatchDrop
  <2>1. sealed' = sealed /\ counted' = counted /\ watch' = [watch EXCEPT !.up = FALSE, !.wire = <<>>]
    BY <1>4 DEF Content!WatchDrop
  <2>2. watch' = [up |-> FALSE, wire |-> <<>>, ring |-> watch.ring, from |-> watch.from]
    BY <1>1, <2>1
  <2>3. WatchOK(sealed, <<>>, watch.ring, counted)
    BY <1>1, DropWatched
  <2> QED
    BY <1>1, <2>1, <2>2, <2>3 DEF WatchInv
<1>5. CASE Content!Count
  <2>1. sealed' = sealed /\ watch.wire # <<>>
    BY <1>5 DEF Content!Count
  <2>2. CASE /\ Head(watch.wire) \in ToSet(watch.ring) /\ counted' = counted
             /\ watch' = [watch EXCEPT !.wire = Tail(@)]
    <3>1. watch' = [up |-> watch.up, wire |-> Tail(watch.wire), ring |-> watch.ring, from |-> watch.from]
      BY <1>1, <2>2
    <3>2. WatchOK(sealed, Tail(watch.wire), watch.ring, counted)
      BY <1>1, <2>1, KnownWatched DEF WatchOK
    <3>3. /\ watch'.wire = Tail(watch.wire) /\ watch'.ring = watch.ring /\ watch'.from = watch.from
      BY <3>1
    <3> QED
      BY <1>1, <2>1, <2>2, <3>1, <3>2, <3>3 DEF WatchInv
  <2>3. CASE /\ Head(watch.wire) \notin ToSet(watch.ring)
             /\ watch' = [watch EXCEPT !.wire = Tail(@), !.ring = Content!RingAfter(@, Head(watch.wire))]
             /\ counted' = [counted EXCEPT ![Head(watch.wire)] = @ + 1]
    <3>1. PICK w, g, c : /\ w = Tail(watch.wire) /\ g = Content!RingAfter(watch.ring, Head(watch.wire))
                         /\ c = [counted EXCEPT ![Head(watch.wire)] = @ + 1]
      OBVIOUS
    <3>2. WatchOK(sealed, w, g, c)
      BY <1>1, <2>1, <2>3, <3>1, NewWatched
    <3>3. watch' = [up |-> watch.up, wire |-> w, ring |-> g, from |-> watch.from] /\ counted' = c
      BY <1>1, <2>3, <3>1
    <3>4. watch'.wire = w /\ watch'.ring = g /\ watch'.from = watch.from
      BY <3>3
    <3> QED
      BY <1>1, <2>1, <3>2, <3>3, <3>4 DEF WatchInv
  <2> QED
    BY <1>5, <2>2, <2>3, ContentLibrary DEF Content!Count
<1>6. CASE Content!Kill
  <2>1. /\ sealed' = sealed /\ counted' = [p \in Posts |-> 0]
        /\ watch' = [up |-> FALSE, wire |-> <<>>, ring |-> <<>>, from |-> Len(sealed)]
    BY <1>6 DEF Content!Kill, Content!StartWatch
  <2>2. WatchOK(sealed, <<>>, <<>>, [p \in Posts |-> 0])
    BY <1>1, StartWatched
  <2> QED
    BY <1>1, <2>1, <2>2 DEF WatchInv
<1>7. ASSUME NEW p \in Posts, NEW e \in 0..announced, NEW k \in 0..minted, Content!Seal(p, e, k)
      PROVE  WatchInv'
  <2>1. PICK x : x = [post |-> p, epoch |-> e, key |-> k]
    OBVIOUS
  <2>2. x \in Sealed /\ x.post = p
    BY <2>1 DEF Sealed
  <2>3. /\ p \notin NamesOf(sealed) /\ sealed' = Append(sealed, x) /\ counted' = counted
        /\ watch' = IF watch.up THEN [watch EXCEPT !.wire = Append(@, p)] ELSE watch
    BY <1>7, <2>1 DEF Content!Seal, Content!Names, NamesOf
  <2>4. /\ WatchOK(Append(sealed, x), watch.wire, watch.ring, counted)
        /\ WatchOK(Append(sealed, x), Append(watch.wire, p), watch.ring, counted)
    BY <1>1, <2>2, <2>3, SealWatched
  <2>5. watch.from \in 0..Len(sealed')
    <3>1. Len(sealed') = Len(sealed) + 1
      BY <1>1, <2>2, <2>3, OneMorePost
    <3> QED
      BY <1>1, <3>1
  <2>6. CASE watch.up
    <3>1. PICK w : w = Append(watch.wire, p)
      OBVIOUS
    <3>2. watch' = [up |-> watch.up, wire |-> w, ring |-> watch.ring, from |-> watch.from]
      BY <1>1, <2>3, <2>6, <3>1
    <3>3. watch'.wire = w /\ watch'.ring = watch.ring /\ watch'.from = watch.from
      BY <3>2
    <3> QED
      BY <2>3, <2>4, <2>5, <3>1, <3>2, <3>3 DEF WatchInv
  <2>7. CASE ~watch.up
    <3>1. watch' = watch
      BY <2>3, <2>7
    <3> QED
      BY <1>1, <2>3, <2>4, <2>5, <3>1 DEF WatchInv
  <2> QED
    BY <2>6, <2>7
<1>8. CASE Content!Publish
  BY <1>2, <1>8 DEF Content!Publish
<1>9. ASSUME NEW r \in UnlockRequest,
             \/ \E e \in 0..announced : Content!Ask(r, e)
             \/ Content!Redeem(r) \/ Content!Unknown(r) \/ Content!Deliver(r) \/ Content!Lose(r)
      PROVE  WatchInv'
  BY <1>2, <1>9 DEF Content!Ask, Content!Redeem, Content!Unknown, Content!Deliver, Content!Lose
<1>10. CASE UNCHANGED Content!vars
  BY <1>2, <1>10 DEF Content!vars
<1> QED
  BY <1>3, <1>4, <1>5, <1>6, <1>7, <1>8, <1>9, <1>10 DEF Content!Next

\* The rest of what the run checks of the component.
LEMMA WatchSound ==
    ASSUME RingCovers, KeysInv, WatchInv
    PROVE  Content!CountedOnce /\ Content!TypeOK
<1>1. Content!CountedOnce
  BY DEF WatchInv, WatchOK, CountedKnown, Content!CountedOnce
<1>2. Len(watch.ring) <= SeenCap /\ Content!ToSet(watch.wire) \subseteq Posts
  <2>1. WatchOK(sealed, watch.wire, watch.ring, counted)
    BY DEF WatchInv
  <2>2. ToSet(watch.wire) \subseteq Posts /\ Len(watch.ring) <= SeenCap
    <3>1. ToSet(watch.wire) \subseteq NamesOf(sealed) /\ InOrder(sealed)
      BY <2>1, PlaceFacts
    <3>2. NamesOf(sealed) \subseteq Posts
      BY <3>1, AtFacts
    <3> QED
      BY <2>1, <3>1, <3>2 DEF WatchOK
  <2> QED
    BY <2>2, ContentLibrary
<1>3. \A s \in {mem, disk} :
         /\ s.posts \in 0..(RotateEvery - 1) /\ Len(s.keys) = s.current + 1
         /\ s.spent \subseteq Token /\ Len(s.answered) <= AnsweredLimit
  BY DEF KeysInv, KeysTyped, IsCustody
<1>4. \A r \in UnlockRequest : req[r].st \in {"new", "verify", "answer", "done", "refused"}
  BY DEF KeysInv, KeysTyped
<1> QED
  BY <1>1, <1>2, <1>3, <1>4 DEF Content!TypeOK

----------------------------------------------------------------------------
(* Enrollment: an invite's record and a member's app, as values.            *)

\* A record of an invite whose requests are R.
IsInvite(i, R) ==
    /\ i \in [live : BOOLEAN, expired : BOOLEAN, max : Nat \cup {Unlimited}, count : Nat,
              reserved : SUBSET R, signed : Seq(R)]
    /\ i.reserved \cap ToSet(i.signed) = {} /\ IsInjective(i.signed)

\* The requests that hold a slot, and the record without its oldest signatures.
Slots(i) == i.reserved \cup ToSet(i.signed)
Pruned(i) ==
    IF Cardinality(Slots(i)) - Retain <= 0 THEN i
    ELSE [i EXCEPT !.signed = SubSeq(@, Cardinality(Slots(i)) - Retain + 1, Len(@))]

\* What a step does to it.
TakesSlot(i, j, r) == j = Pruned([i EXCEPT !.reserved = @ \cup {r}, !.count = @ + 1])
Signs(i, j, r) == j = [i EXCEPT !.reserved = @ \ {r}, !.signed = Append(@, r)]
GivesBack(i, j, r) == j = [i EXCEPT !.reserved = @ \ {r}, !.count = IF @ > 0 THEN @ - 1 ELSE 0]
Changes(i, j) ==
    \/ \E max \in Nat \cup {Unlimited} : j = [i EXCEPT !.max = max]
    \/ \E expired \in BOOLEAN : j = [i EXCEPT !.expired = expired]
Deletes(i, j) == j = [i EXCEPT !.live = FALSE, !.reserved = {}, !.signed = <<>>, !.count = 0]

InviteMoves(i, j, R) ==
    \/ j = i \/ Changes(i, j) \/ Deletes(i, j)
    \/ \E r \in R \ Slots(i) : TakesSlot(i, j, r)
    \/ \E r \in R \ ToSet(i.signed) : Signs(i, j, r)
    \/ \E r \in R : GivesBack(i, j, r)

\* The last part of a sequence without repetitions.
LEMMA SuffixFacts ==
    ASSUME NEW S, NEW s \in Seq(S), IsInjective(s), NEW k \in Nat
    PROVE  /\ SubSeq(s, k + 1, Len(s)) \in Seq(S) /\ IsInjective(SubSeq(s, k + 1, Len(s)))
           /\ ToSet(SubSeq(s, k + 1, Len(s))) \subseteq ToSet(s)
<1> DEFINE t == SubSeq(s, k + 1, Len(s))
<1>1. Len(s) \in Nat /\ DOMAIN s = 1..Len(s)
  OBVIOUS
<1>2. t \in Seq(S)
  BY <1>1
<1>3. CASE k >= Len(s)
  <2>1. Len(t) = IF k + 1 <= Len(s) THEN Len(s) - (k + 1) + 1 ELSE 0
    BY <1>1
  <2>2. ~(k + 1 <= Len(s))
    BY <1>1, <1>3
  <2> HIDE DEF t
  <2>3. DOMAIN t = {}
    BY <1>2, <2>1, <2>2
  <2> QED
    BY <1>2, <2>3 DEF IsInjective, ToSet, t
<1>4. CASE k < Len(s)
  <2>1. t = [n \in 1..(Len(s) - k) |-> s[(k + 1) + n - 1]]
    BY <1>1, <1>4
  <2>2. \A n \in 1..(Len(s) - k) : k + n \in DOMAIN s /\ (k + 1) + n - 1 = k + n
    BY <1>1
  <2> HIDE DEF t
  <2>3. DOMAIN t = 1..(Len(s) - k) /\ \A n \in DOMAIN t : k + n \in DOMAIN s /\ t[n] = s[k + n] /\ n \in Int
    BY <1>1, <2>1, <2>2
  <2>4. ASSUME NEW m \in DOMAIN t, NEW n \in DOMAIN t, t[m] = t[n] PROVE m = n
    <3>1. k + m = k + n
      BY <2>3, <2>4 DEF IsInjective
    <3> QED
      BY <2>3, <3>1
  <2>5. ToSet(t) \subseteq ToSet(s)
    BY <2>3 DEF ToSet
  <2> QED
    BY <1>2, <2>4, <2>5 DEF IsInjective, t
<1> QED
  BY <1>1, <1>3, <1>4

LEMMA InviteParts ==
    ASSUME NEW i, NEW R, IsInvite(i, R), IsFiniteSet(R)
    PROVE  /\ i.live \in BOOLEAN /\ i.expired \in BOOLEAN /\ i.max \in Nat \cup {Unlimited}
           /\ i.count \in Nat /\ i.reserved \subseteq R /\ i.signed \in Seq(R)
           /\ ToSet(i.signed) \subseteq R /\ Slots(i) \subseteq R
           /\ IsFiniteSet(Slots(i)) /\ Cardinality(Slots(i)) \in Nat
<1>1. i.reserved \subseteq R /\ i.signed \in Seq(R)
  BY DEF IsInvite
<1>2. ToSet(i.signed) \subseteq R
  BY <1>1 DEF ToSet
<1>3. Slots(i) \subseteq R
  BY <1>1, <1>2 DEF Slots
<1>4. IsFiniteSet(Slots(i)) /\ Cardinality(Slots(i)) \in Nat
  BY <1>3, FS_Subset, FS_CardinalityType
<1> QED
  BY <1>1, <1>2, <1>3, <1>4 DEF IsInvite

\* Pruning keeps a record, and drops only signatures.
LEMMA PrunedFacts ==
    ASSUME Retain \in Nat, NEW i, NEW R, IsInvite(i, R), IsFiniteSet(R)
    PROVE  /\ IsInvite(Pruned(i), R)
           /\ Cardinality(Slots(i)) <= Retain => Pruned(i) = i
<1>1. Cardinality(Slots(i)) \in Nat /\ i.signed \in Seq(R) /\ IsInjective(i.signed)
  BY InviteParts DEF IsInvite
<1>2. CASE Cardinality(Slots(i)) - Retain <= 0
  BY <1>2 DEF Pruned
<1>3. CASE ~(Cardinality(Slots(i)) - Retain <= 0)
  <2>1. PICK k \in Nat : k = Cardinality(Slots(i)) - Retain
    BY <1>1, <1>3
  <2>2. PICK t : t = SubSeq(i.signed, k + 1, Len(i.signed))
    OBVIOUS
  <2>3. t \in Seq(R) /\ IsInjective(t) /\ ToSet(t) \subseteq ToSet(i.signed)
    BY <1>1, <2>2, SuffixFacts
  <2>4. Pruned(i) = [i EXCEPT !.signed = t]
    BY <1>3, <2>1, <2>2 DEF Pruned
  <2>5. IsInvite([i EXCEPT !.signed = t], R)
    BY <2>3 DEF IsInvite
  <2>6. ~(Cardinality(Slots(i)) <= Retain)
    BY <1>1, <1>3
  <2> QED
    BY <2>4, <2>5, <2>6
<1> QED
  BY <1>1, <1>2, <1>3

\* Every move leads from a record to a record.
LEMMA InviteKept ==
    ASSUME Retain \in Nat, NEW i, NEW j, NEW R, IsInvite(i, R), IsFiniteSet(R), InviteMoves(i, j, R)
    PROVE  IsInvite(j, R)
<1>1. ASSUME NEW r \in R \ Slots(i), TakesSlot(i, j, r) PROVE IsInvite(j, R)
  <2>1. PICK k : k = [i EXCEPT !.reserved = @ \cup {r}, !.count = @ + 1]
    OBVIOUS
  <2>2. /\ i.reserved \cup {r} \in SUBSET R /\ i.count + 1 \in Nat
        /\ (i.reserved \cup {r}) \cap ToSet(i.signed) = {}
    BY InviteParts DEF IsInvite, Slots
  <2>3. IsInvite(k, R)
    BY <2>1, <2>2 DEF IsInvite
  <2> QED
    BY <1>1, <2>1, <2>3, PrunedFacts DEF TakesSlot
<1>2. ASSUME NEW r \in R \ ToSet(i.signed), Signs(i, j, r) PROVE IsInvite(j, R)
  <2>1. i.signed \in Seq(R) /\ IsInjective(i.signed)
    BY DEF IsInvite
  <2>2. PICK t : t = Append(i.signed, r)
    OBVIOUS
  <2>3. t \in Seq(R) /\ IsInjective(t) /\ ToSet(t) = ToSet(i.signed) \cup {r}
    BY <2>1, <2>2, QueueFacts
  <2>4. j = [i EXCEPT !.reserved = @ \ {r}, !.signed = t]
    BY <1>2, <2>2 DEF Signs
  <2> QED
    BY <2>3, <2>4 DEF IsInvite
<1>3. ASSUME NEW r \in R, GivesBack(i, j, r) PROVE IsInvite(j, R)
  <2>1. PICK n \in Nat : n = IF i.count > 0 THEN i.count - 1 ELSE 0
    BY InviteParts
  <2>2. j = [i EXCEPT !.reserved = @ \ {r}, !.count = n]
    BY <1>3, <2>1 DEF GivesBack
  <2> QED
    BY <2>2 DEF IsInvite
<1>4. CASE Changes(i, j)
  BY <1>4 DEF Changes, IsInvite
<1>5. CASE Deletes(i, j)
  <2>1. PICK t : t = <<>>
    OBVIOUS
  <2>2. t \in Seq(R) /\ IsInjective(t) /\ ToSet(t) = {}
    BY <2>1 DEF IsInjective, ToSet
  <2>3. j = [i EXCEPT !.live = FALSE, !.reserved = {}, !.signed = t, !.count = 0]
    BY <1>5, <2>1 DEF Deletes
  <2> QED
    BY <2>2, <2>3 DEF IsInvite
<1> QED
  BY <1>1, <1>2, <1>3, <1>4, <1>5 DEF InviteMoves

\* A member's exchange.  One that never restarted has prepared at most one request.
IsExchange(a, prep, tries) ==
    /\ a \in [made : 0..prep, keeps : BOOLEAN, phase : {"idle", "flight", "socket", "done"},
              left : 0..tries, restarts : 0..prep]
    /\ a.restarts <= a.made /\ (a.keeps => a.restarts < a.made)
    /\ a.phase \in {"flight", "socket"} => a.keeps
    /\ a.restarts = 0 => a.made <= 1
    /\ a.restarts = 0 /\ ~a.keeps /\ a.phase = "idle" => a.made = 0

Over(a) == [a EXCEPT !.phase = "idle", !.left = 0]

ExchangeMoves(a, b, prep, tries) ==
    \/ a.phase = "idle" /\ a.keeps /\ b = [a EXCEPT !.phase = "flight", !.left = tries]
    \/ /\ a.phase = "idle" /\ ~a.keeps /\ a.made < prep
       /\ b = [a EXCEPT !.made = @ + 1, !.keeps = TRUE, !.phase = "flight", !.left = tries]
    \/ a.phase = "flight" /\ b = [a EXCEPT !.phase = "socket"]
    \/ a.phase \in {"flight", "socket"} /\ a.left > 1 /\ b = [a EXCEPT !.phase = "flight", !.left = @ - 1]
    \/ a.phase \in {"flight", "socket"} /\ b = Over(a)
    \/ a.phase \in {"flight", "socket"} /\ b = [Over(a) EXCEPT !.phase = "done", !.keeps = FALSE]
    \/ /\ a.phase # "done" /\ a.keeps /\ a.made < prep
       /\ b = [a EXCEPT !.phase = "idle", !.left = 0, !.keeps = FALSE, !.restarts = @ + 1]

LEMMA ExchangeKept ==
    ASSUME NEW prep \in Nat, NEW tries \in Nat, NEW a, NEW b, IsExchange(a, prep, tries),
           ExchangeMoves(a, b, prep, tries)
    PROVE  IsExchange(b, prep, tries) /\ a.made <= b.made /\ a.made \in Nat /\ b.made \in Nat
<1>1. /\ a.made \in Nat /\ a.made <= prep /\ a.left \in 0..tries /\ a.restarts \in Nat
      /\ a.restarts <= prep /\ a.keeps \in BOOLEAN /\ a.phase \in {"idle", "flight", "socket", "done"}
  BY DEF IsExchange
<1>0. /\ tries \in 0..tries /\ 0 \in 0..tries /\ (a.left > 1 => a.left - 1 \in 0..tries)
      /\ (a.made < prep => a.made + 1 \in 0..prep) /\ (a.restarts < prep => a.restarts + 1 \in 0..prep)
  BY <1>1
<1>9. a = [made |-> a.made, keeps |-> a.keeps, phase |-> a.phase, left |-> a.left,
           restarts |-> a.restarts]
  BY DEF IsExchange
<1>2. CASE a.phase = "idle" /\ a.keeps /\ b = [a EXCEPT !.phase = "flight", !.left = tries]
  <2>1. b = [made |-> a.made, keeps |-> a.keeps, phase |-> "flight", left |-> tries,
             restarts |-> a.restarts]
    BY <1>9, <1>2
  <2>2. b \in [made : 0..prep, keeps : BOOLEAN, phase : {"idle", "flight", "socket", "done"},
                left : 0..tries, restarts : 0..prep]
    BY <1>0, <1>1, <1>2, <2>1 DEF IsExchange
  <2>3. /\ b.restarts <= b.made /\ (b.keeps => b.restarts < b.made)
        /\ b.phase \in {"flight", "socket"} => b.keeps
        /\ b.restarts = 0 => b.made <= 1
        /\ b.restarts = 0 /\ ~b.keeps /\ b.phase = "idle" => b.made = 0
        /\ a.made <= b.made
    BY <1>0, <1>1, <1>2, <2>1 DEF IsExchange
  <2> QED
    BY <1>1, <2>2, <2>3 DEF IsExchange
<1>3. CASE /\ a.phase = "idle" /\ ~a.keeps /\ a.made < prep
           /\ b = [a EXCEPT !.made = @ + 1, !.keeps = TRUE, !.phase = "flight", !.left = tries]
  <2>1. b = [made |-> a.made + 1, keeps |-> TRUE, phase |-> "flight", left |-> tries,
             restarts |-> a.restarts]
    BY <1>9, <1>3
  <2>2. b \in [made : 0..prep, keeps : BOOLEAN, phase : {"idle", "flight", "socket", "done"},
                left : 0..tries, restarts : 0..prep]
    BY <1>0, <1>1, <1>3, <2>1 DEF IsExchange
  <2>3. /\ b.restarts <= b.made /\ (b.keeps => b.restarts < b.made)
        /\ b.phase \in {"flight", "socket"} => b.keeps
        /\ b.restarts = 0 => b.made <= 1
        /\ b.restarts = 0 /\ ~b.keeps /\ b.phase = "idle" => b.made = 0
        /\ a.made <= b.made
    BY <1>0, <1>1, <1>3, <2>1 DEF IsExchange
  <2> QED
    BY <1>1, <2>2, <2>3 DEF IsExchange
<1>4. CASE a.phase = "flight" /\ b = [a EXCEPT !.phase = "socket"]
  <2>1. b = [made |-> a.made, keeps |-> a.keeps, phase |-> "socket", left |-> a.left,
             restarts |-> a.restarts]
    BY <1>9, <1>4
  <2> QED
    BY <1>0, <1>1, <1>4, <2>1 DEF IsExchange
<1>5. CASE /\ a.phase \in {"flight", "socket"} /\ a.left > 1
           /\ b = [a EXCEPT !.phase = "flight", !.left = @ - 1]
  <2>1. b = [made |-> a.made, keeps |-> a.keeps, phase |-> "flight", left |-> a.left - 1,
             restarts |-> a.restarts]
    BY <1>9, <1>5
  <2> QED
    BY <1>0, <1>1, <1>5, <2>1 DEF IsExchange
<1>6. CASE a.phase \in {"flight", "socket"} /\ b = Over(a)
  <2>1. b = [made |-> a.made, keeps |-> a.keeps, phase |-> "idle", left |-> 0,
             restarts |-> a.restarts]
    BY <1>9, <1>6 DEF Over
  <2> QED
    BY <1>0, <1>1, <1>6, <2>1 DEF IsExchange
<1>7. CASE a.phase \in {"flight", "socket"} /\ b = [Over(a) EXCEPT !.phase = "done", !.keeps = FALSE]
  <2>1. b = [made |-> a.made, keeps |-> FALSE, phase |-> "done", left |-> 0,
             restarts |-> a.restarts]
    BY <1>9, <1>7 DEF Over
  <2>0. a.phase \in {"flight", "socket"}
    BY <1>7
  <2>2. b \in [made : 0..prep, keeps : BOOLEAN, phase : {"idle", "flight", "socket", "done"},
                left : 0..tries, restarts : 0..prep]
    BY <1>0, <1>1, <2>0, <2>1 DEF IsExchange
  <2>3. /\ b.restarts <= b.made /\ (b.keeps => b.restarts < b.made)
        /\ b.phase \in {"flight", "socket"} => b.keeps
        /\ b.restarts = 0 => b.made <= 1
        /\ b.restarts = 0 /\ ~b.keeps /\ b.phase = "idle" => b.made = 0
        /\ a.made <= b.made
    BY <1>0, <1>1, <2>0, <2>1 DEF IsExchange
  <2> QED
    BY <1>1, <2>2, <2>3 DEF IsExchange
<1>8. CASE /\ a.phase # "done" /\ a.keeps /\ a.made < prep
           /\ b = [a EXCEPT !.phase = "idle", !.left = 0, !.keeps = FALSE, !.restarts = @ + 1]
  <2>1. b = [made |-> a.made, keeps |-> FALSE, phase |-> "idle", left |-> 0,
             restarts |-> a.restarts + 1]
    BY <1>9, <1>8
  <2>0. a.phase # "done" /\ a.keeps /\ a.made < prep
    BY <1>8
  <2>2. b \in [made : 0..prep, keeps : BOOLEAN, phase : {"idle", "flight", "socket", "done"},
                left : 0..tries, restarts : 0..prep]
    BY <1>0, <1>1, <2>0, <2>1 DEF IsExchange
  <2>3. /\ b.restarts <= b.made /\ (b.keeps => b.restarts < b.made)
        /\ b.phase \in {"flight", "socket"} => b.keeps
        /\ b.restarts = 0 => b.made <= 1
        /\ b.restarts = 0 /\ ~b.keeps /\ b.phase = "idle" => b.made = 0
        /\ a.made <= b.made
    BY <1>0, <1>1, <2>0, <2>1 DEF IsExchange
  <2> QED
    BY <1>1, <2>2, <2>3 DEF IsExchange
<1> QED
  BY <1>2, <1>3, <1>4, <1>5, <1>6, <1>7, <1>8 DEF ExchangeMoves

----------------------------------------------------------------------------
(* Enrollment: the types, in each of its two settings.                      *)

\* The requests that members have prepared.
Asked(R, ap) == {r \in R : r[2] <= ap[r[1]].made}

Calls(S) ==
    {[busy |-> FALSE]} \cup [busy : {TRUE}, req : S, own : BOOLEAN, ans : {"none", "sig", "error"}]

\* Requests R of members M, calls C.  What is in flight, kept or signed was prepared.
Typed(R, M, C, prep, tries, i, f, mb, rp, ap, iss) ==
    /\ IsInvite(i, R)
    /\ f \in [C -> Calls(Asked(R, ap))]
    /\ mb \in [R -> {"unsent", "stored", "claimed", "answered"}]
    /\ \A r \in R : mb[r] # "unsent" => r \in Asked(R, ap)
    /\ rp \in [R -> SUBSET {"sig", "error"}]
    /\ ap = [m \in M |-> ap[m]] /\ \A m \in M : IsExchange(ap[m], prep, tries)
    /\ iss \subseteq Asked(R, ap)

\* A call, as a value.
LEMMA CallShape ==
    ASSUME NEW C, NEW S, NEW f \in [C -> Calls(S)], NEW c \in C
    PROVE  /\ f[c].busy \in BOOLEAN
           /\ f[c].busy => f[c] \in [busy : {TRUE}, req : S, own : BOOLEAN, ans : {"none", "sig", "error"}]
           /\ ~f[c].busy => f[c] = [busy |-> FALSE]
<1>1. f[c] \in Calls(S)
  OBVIOUS
<1>2. CASE f[c] = [busy |-> FALSE]
  BY <1>2
<1>3. CASE f[c] \in [busy : {TRUE}, req : S, own : BOOLEAN, ans : {"none", "sig", "error"}]
  BY <1>3
<1> QED
  BY <1>1, <1>2, <1>3 DEF Calls

\* A new call, the end of one, and its answer.
LEMMA CallMoves ==
    ASSUME NEW C, NEW S, NEW f \in [C -> Calls(S)], NEW c \in C
    PROVE  /\ [f EXCEPT ![c] = [busy |-> FALSE]] \in [C -> Calls(S)]
           /\ \A r \in S, own \in BOOLEAN, ans \in {"none", "sig", "error"} :
                 [f EXCEPT ![c] = [busy |-> TRUE, req |-> r, own |-> own, ans |-> ans]] \in [C -> Calls(S)]
           /\ f[c].busy => \A ans \in {"none", "sig", "error"} :
                 [f EXCEPT ![c].ans = ans] \in [C -> Calls(S)]
<1>1. [busy |-> FALSE] \in Calls(S)
  BY DEF Calls
<1>2. \A r \in S, own \in BOOLEAN, ans \in {"none", "sig", "error"} :
          [busy |-> TRUE, req |-> r, own |-> own, ans |-> ans] \in Calls(S)
  BY DEF Calls
<1>3. ASSUME NEW ans \in {"none", "sig", "error"}, f[c].busy
      PROVE  [f EXCEPT ![c].ans = ans] \in [C -> Calls(S)]
  <2>1. f[c] \in [busy : {TRUE}, req : S, own : BOOLEAN, ans : {"none", "sig", "error"}]
    BY <1>3, CallShape
  <2>2. PICK d : d = [f[c] EXCEPT !.ans = ans]
    OBVIOUS
  <2>3. d \in [busy : {TRUE}, req : S, own : BOOLEAN, ans : {"none", "sig", "error"}]
    BY <2>1, <2>2
  <2>4. d \in Calls(S)
    BY <2>3 DEF Calls
  <2>5. [f EXCEPT ![c].ans = ans] = [f EXCEPT ![c] = d]
    BY <2>2
  <2> QED
    BY <2>4, <2>5
<1> QED
  BY <1>1, <1>2, <1>3

\* A member's exchange moves; it may publish its request.
LEMMA MemberMoves ==
    ASSUME NEW M, NEW C, NEW prep \in Nat, NEW tries \in Nat, NEW R, R = M \X (1..prep),
           NEW i, NEW f, NEW mb, NEW rp, NEW ap, NEW iss,
           Typed(R, M, C, prep, tries, i, f, mb, rp, ap, iss),
           NEW m \in M, NEW b, ExchangeMoves(ap[m], b, prep, tries), NEW mb2,
           \/ mb2 = mb
           \/ mb2 = [mb EXCEPT ![<<m, b.made>>] = IF @ = "unsent" THEN "stored" ELSE @]
    PROVE  Typed(R, M, C, prep, tries, i, f, mb2, rp, [ap EXCEPT ![m] = b], iss)
<1>1. PICK ap2 : ap2 = [ap EXCEPT ![m] = b]
  OBVIOUS
<1>2. /\ IsExchange(b, prep, tries) /\ ap[m].made <= b.made /\ ap[m].made \in Nat /\ b.made \in Nat
  BY ExchangeKept DEF Typed
<1>3. ap = [n \in M |-> ap[n]]
  BY DEF Typed
<1>4. ap2 = [n \in M |-> ap2[n]] /\ ap2[m] = b /\ \A n \in M \ {m} : ap2[n] = ap[n]
  BY <1>1, <1>3
<1>5. \A n \in M : IsExchange(ap2[n], prep, tries)
  BY <1>2, <1>4 DEF Typed
<1>6. Asked(R, ap) \subseteq Asked(R, ap2)
  <2> SUFFICES ASSUME NEW r \in R, r[2] <= ap[r[1]].made PROVE r[2] <= ap2[r[1]].made
    BY DEF Asked
  <2>1. r[1] \in M /\ r[2] \in Nat
    OBVIOUS
  <2> QED
    BY <1>2, <1>4, <2>1
<1>7. f \in [C -> Calls(Asked(R, ap2))]
  <2>1. f \in [C -> Calls(Asked(R, ap))]
    BY DEF Typed
  <2>2. Calls(Asked(R, ap)) \subseteq Calls(Asked(R, ap2))
    BY <1>6 DEF Calls
  <2> QED
    BY <2>1, <2>2
<1>8. /\ mb2 \in [R -> {"unsent", "stored", "claimed", "answered"}]
      /\ \A r \in R : mb2[r] # "unsent" => r \in Asked(R, ap2)
  <2>1. /\ mb \in [R -> {"unsent", "stored", "claimed", "answered"}]
        /\ \A r \in R : mb[r] # "unsent" => r \in Asked(R, ap)
    BY DEF Typed
  <2>2. CASE mb2 = mb
    BY <1>6, <2>1, <2>2
  <2>3. CASE mb2 = [mb EXCEPT ![<<m, b.made>>] = IF @ = "unsent" THEN "stored" ELSE @]
    <3>1. PICK q : q = <<m, b.made>>
      OBVIOUS
    <3>2. q \in R => q \in Asked(R, ap2)
      BY <1>2, <1>4, <3>1 DEF Asked
    <3>3. mb2 = [mb EXCEPT ![q] = IF @ = "unsent" THEN "stored" ELSE @]
      BY <2>3, <3>1
    <3>4. mb2 \in [R -> {"unsent", "stored", "claimed", "answered"}]
      BY <2>1, <3>3
    <3>5. \A r \in R : r # q => mb2[r] = mb[r]
      BY <2>1, <3>3
    <3> QED
      BY <1>6, <2>1, <3>2, <3>4, <3>5
  <2> QED
    BY <2>2, <2>3
<1>9. Typed(R, M, C, prep, tries, i, f, mb2, rp, ap2, iss)
  BY <1>4, <1>5, <1>6, <1>7, <1>8 DEF Typed
<1> QED
  BY <1>1, <1>9

\* The library's operators, and Enrollment's that depend on the invite alone.
LEMMA EnrollLibrary ==
    /\ \A i : Enroll!Signed(i) = ToSet(i.signed) /\ Enroll!Uses(i) = Slots(i)
    /\ \A i : Enroll!pruneUses(i) = Pruned(i)
    /\ \A s : Enroll!IsInjective(s) <=> IsInjective(s)
    /\ \A S : Enroll!Cardinality(S) = Cardinality(S)
<1>1. \A i : Enroll!Signed(i) = ToSet(i.signed)
  BY DEF Enroll!Signed, Enroll!Range, ToSet
<1>2. \A i : Enroll!Uses(i) = Slots(i)
  BY <1>1 DEF Enroll!Uses, Slots
<1>3. \A S : Enroll!Cardinality(S) = Cardinality(S)
  BY DEF Enroll!Cardinality, Cardinality
<1>4. \A i : Enroll!pruneUses(i) = Pruned(i)
  BY <1>2, <1>3 DEF Enroll!pruneUses, Pruned
<1>5. \A s : Enroll!IsInjective(s) <=> IsInjective(s)
  BY DEF Enroll!IsInjective, IsInjective
<1> QED
  BY <1>1, <1>2, <1>3, <1>4, <1>5

EnrollFinite == Enroll!EnrollmentAssumption /\ IsFiniteSet(Member)

EnrollTyped ==
    /\ Typed(Enroll!Request, Member, Call, MaxPrep, Attempts, inv, call, mbox, replies, app, issued)
    /\ revoked \in BOOLEAN

LEMMA EnrollFacts ==
    ASSUME EnrollFinite
    PROVE  /\ Retain \in Nat /\ MaxPrep \in Nat /\ Attempts \in Nat /\ IsFiniteSet(Enroll!Request)
           /\ Enroll!Request = Member \X (1..MaxPrep) /\ FirstMax \in Nat \cup {Unlimited}
           /\ NextMax \subseteq Nat \cup {Unlimited}
<1>1. Retain \in Nat /\ MaxPrep \in Nat /\ Attempts \in Nat
  BY DEF EnrollFinite, Enroll!EnrollmentAssumption
<1>2. IsFiniteSet(Member) /\ IsFiniteSet(1..MaxPrep)
  BY <1>1, FS_Interval DEF EnrollFinite
<1>3. IsFiniteSet(Member \X (1..MaxPrep))
  BY <1>2, FS_Product
<1> QED
  BY <1>1, <1>3 DEF Enroll!Request, EnrollFinite, Enroll!EnrollmentAssumption

\* Nothing is known of a member before it starts.
LEMMA EnrollTypedInit ==
    ASSUME EnrollFinite, Enroll!Init
    PROVE  EnrollTyped
<1>1. PICK z : z = [made |-> 0, keeps |-> FALSE, phase |-> "idle", left |-> 0, restarts |-> 0]
  OBVIOUS
<1>2. IsExchange(z, MaxPrep, Attempts)
  <2>1. 0 \in 0..MaxPrep /\ 0 \in 0..Attempts
    BY EnrollFacts
  <2> QED
    BY <1>1, <2>1 DEF IsExchange
<1>3. PICK i : i = [live |-> TRUE, expired |-> FALSE, max |-> FirstMax, count |-> 0,
                    reserved |-> {}, signed |-> <<>>]
  OBVIOUS
<1>4. IsInvite(i, Enroll!Request)
  <2>1. PICK none : none = <<>>
    OBVIOUS
  <2>2. none \in Seq(Enroll!Request) /\ IsInjective(none) /\ ToSet(none) = {}
    BY <2>1 DEF IsInjective, ToSet
  <2>3. i = [live |-> TRUE, expired |-> FALSE, max |-> FirstMax, count |-> 0, reserved |-> {}, signed |-> none]
    BY <1>3, <2>1
  <2>4. FirstMax \in Nat \cup {Unlimited} /\ 0 \in Nat
    BY EnrollFacts
  <2> QED
    BY <2>2, <2>3, <2>4 DEF IsInvite
<1>5. /\ inv = i /\ call = [c \in Call |-> [busy |-> FALSE]]
      /\ mbox = [r \in Enroll!Request |-> "unsent"] /\ replies = [r \in Enroll!Request |-> {}]
      /\ app = [m \in Member |-> z] /\ issued = {} /\ revoked = FALSE
  BY <1>1, <1>3 DEF Enroll!Init, Enroll!NoCall
<1>6. call \in [Call -> Calls(Asked(Enroll!Request, app))]
  BY <1>5 DEF Calls
<1>7. app = [m \in Member |-> app[m]] /\ \A m \in Member : IsExchange(app[m], MaxPrep, Attempts)
  BY <1>2, <1>5
<1> QED
  BY <1>4, <1>5, <1>6, <1>7 DEF EnrollTyped, Typed

\* issueInviteCredential before its first await, on a request that was prepared.
LEMMA EnrollEnterTyped ==
    ASSUME EnrollFinite, EnrollTyped, NEW c \in Call, NEW r \in Asked(Enroll!Request, app), Enroll!Enter(c, r)
    PROVE  /\ InviteMoves(inv, inv', Enroll!Request)
           /\ call' \in [Call -> Calls(Asked(Enroll!Request, app))]
           /\ issued' \subseteq Asked(Enroll!Request, app)
<1>1. r \in Enroll!Request /\ issued \subseteq Asked(Enroll!Request, app)
  BY DEF Asked, EnrollTyped, Typed
<1>2. \E own \in BOOLEAN, ans \in {"none", "sig", "error"} :
         call' = [call EXCEPT ![c] = [busy |-> TRUE, req |-> r, own |-> own, ans |-> ans]]
  BY DEF Enroll!Enter, Enroll!Busy
<1>3. call' \in [Call -> Calls(Asked(Enroll!Request, app))]
  <2>1. PICK S : S = Asked(Enroll!Request, app)
    OBVIOUS
  <2>2. call \in [Call -> Calls(S)] /\ r \in S
    BY <2>1 DEF EnrollTyped, Typed
  <2>3. PICK own \in BOOLEAN, ans \in {"none", "sig", "error"} :
           call' = [call EXCEPT ![c] = [busy |-> TRUE, req |-> r, own |-> own, ans |-> ans]]
    BY <1>2
  <2>4. call' \in [Call -> Calls(S)]
    BY <2>2, <2>3, CallMoves
  <2> QED
    BY <2>1, <2>4
<1>4. inv' = inv \/ (r \notin Enroll!Uses(inv) /\ inv' = Enroll!Reserve(inv, r))
  BY DEF Enroll!Enter
<1>5. InviteMoves(inv, inv', Enroll!Request)
  <2>1. CASE inv' = inv
    BY <2>1 DEF InviteMoves
  <2>2. CASE r \notin Enroll!Uses(inv) /\ inv' = Enroll!Reserve(inv, r)
    <3>1. r \notin Slots(inv) /\ TakesSlot(inv, inv', r)
      BY <2>2, EnrollLibrary DEF Enroll!Reserve, TakesSlot
    <3> QED
      BY <1>1, <3>1 DEF InviteMoves
  <2> QED
    BY <1>4, <2>1, <2>2
<1>6. issued' \subseteq issued \cup {r}
  BY DEF Enroll!Enter
<1> QED
  BY <1>1, <1>3, <1>5, <1>6

\* A step of the organizer's: the members' exchanges stay as they are.
LEMMA EnrollOrganizerMoves ==
    ASSUME EnrollFinite, EnrollTyped, app' = app, InviteMoves(inv, inv', Enroll!Request),
           call' \in [Call -> Calls(Asked(Enroll!Request, app))],
           mbox' \in [Enroll!Request -> {"unsent", "stored", "claimed", "answered"}],
           \A r \in Enroll!Request : mbox'[r] # "unsent" => r \in Asked(Enroll!Request, app),
           replies' \in [Enroll!Request -> SUBSET {"sig", "error"}],
           issued' \subseteq Asked(Enroll!Request, app), revoked' \in BOOLEAN
    PROVE  EnrollTyped'
<1>1. PICK R : R = Enroll!Request
  OBVIOUS
<1>2. IsInvite(inv', R)
  BY <1>1, EnrollFacts, InviteKept DEF EnrollTyped, Typed
<1>3. Enroll!Request' = R
  BY <1>1 DEF Enroll!Request
<1>4. Typed(R, Member, Call, MaxPrep, Attempts, inv', call', mbox', replies', app', issued')
  BY <1>1, <1>2 DEF EnrollTyped, Typed
<1> QED
  BY <1>3, <1>4 DEF EnrollTyped

LEMMA EnrollTypedNext ==
    ASSUME EnrollFinite, EnrollTyped, [Enroll!Next]_Enroll!vars
    PROVE  EnrollTyped'
<1> DEFINE R == Enroll!Request
           K == [Call -> Calls(Asked(R, app))]
<1>0. /\ IsInvite(inv, R) /\ call \in K /\ revoked \in BOOLEAN
      /\ mbox \in [R -> {"unsent", "stored", "claimed", "answered"}]
      /\ \A r \in R : mbox[r] # "unsent" => r \in Asked(R, app)
      /\ replies \in [R -> SUBSET {"sig", "error"}] /\ issued \subseteq Asked(R, app)
      /\ InviteMoves(inv, inv, R) /\ Asked(R, app) \subseteq R
  BY DEF EnrollTyped, Typed, InviteMoves, Asked
<1>1. ASSUME NEW c \in Call, call[c].busy
      PROVE  call[c].req \in Asked(R, app) /\ call[c].ans \in {"none", "sig", "error"}
  <2>1. PICK S : S = Asked(R, app)
    OBVIOUS
  <2>2. call \in [Call -> Calls(S)]
    BY <1>0, <2>1
  <2>3. call[c] \in [busy : {TRUE}, req : S, own : BOOLEAN, ans : {"none", "sig", "error"}]
    BY <1>1, <2>2, CallShape
  <2> QED
    BY <2>1, <2>3
<1> HIDE DEF R, K
<1>2. ASSUME NEW c \in Call, Enroll!SignOk(c) PROVE EnrollTyped'
  <2>1. /\ call[c].busy /\ call' = [call EXCEPT ![c].ans = "sig"]
        /\ issued' = issued \cup {call[c].req} /\ UNCHANGED <<mbox, replies, app, revoked>>
        /\ \/ inv' = inv
           \/ call[c].req \notin Enroll!Signed(inv) /\ inv' = Enroll!Finalised(inv, call[c].req)
    BY <1>2 DEF Enroll!SignOk, Enroll!Signing
  <2>2. call' \in K
    BY <1>0, <2>1, CallMoves DEF K
  <2>3. InviteMoves(inv, inv', R)
    <3>1. CASE inv' = inv
      BY <1>0, <3>1
    <3>2. CASE call[c].req \notin Enroll!Signed(inv) /\ inv' = Enroll!Finalised(inv, call[c].req)
      <4>1. PICK r \in R : r = call[c].req
        BY <1>0, <1>1, <2>1
      <4>2. r \notin ToSet(inv.signed) /\ Signs(inv, inv', r)
        BY <3>2, <4>1, EnrollLibrary DEF Enroll!Finalised, Signs
      <4> QED
        BY <4>2 DEF InviteMoves
    <3> QED
      BY <2>1, <3>1, <3>2
  <2> QED
    BY <1>0, <1>1, <2>1, <2>2, <2>3, EnrollOrganizerMoves DEF R, K
<1>3. ASSUME NEW c \in Call, Enroll!SignFail(c) PROVE EnrollTyped'
  <2>1. /\ call[c].busy /\ call' = [call EXCEPT ![c].ans = "error"]
        /\ UNCHANGED <<mbox, replies, app, issued, revoked>>
        /\ inv' = inv \/ inv' = Enroll!RolledBack(inv, call[c].req)
    BY <1>3 DEF Enroll!SignFail, Enroll!Signing
  <2>2. call' \in K
    BY <1>0, <2>1, CallMoves DEF K
  <2>3. InviteMoves(inv, inv', R)
    <3>1. CASE inv' = inv
      BY <1>0, <3>1
    <3>2. CASE inv' = Enroll!RolledBack(inv, call[c].req)
      <4>1. PICK r \in R : r = call[c].req
        BY <1>0, <1>1, <2>1
      <4>2. GivesBack(inv, inv', r)
        BY <3>2, <4>1 DEF Enroll!RolledBack, GivesBack
      <4> QED
        BY <4>2 DEF InviteMoves
    <3> QED
      BY <2>1, <3>1, <3>2
  <2> QED
    BY <1>0, <2>1, <2>2, <2>3, EnrollOrganizerMoves DEF R, K
<1>4. ASSUME NEW c \in Call, NEW r \in R, Enroll!PickUp(c, r) PROVE EnrollTyped'
  <2>1. mbox[r] = "stored" /\ r \in Asked(R, app) /\ UNCHANGED <<replies, app, revoked>>
    BY <1>0, <1>4 DEF Enroll!PickUp
  <2>2. CASE mbox' = [mbox EXCEPT ![r] = "answered"] /\ UNCHANGED <<inv, call, issued>>
    BY <1>0, <2>1, <2>2, EnrollOrganizerMoves DEF R, K
  <2>3. CASE Enroll!Enter(c, r) /\ mbox' = [mbox EXCEPT ![r] = "claimed"]
    <3>1. InviteMoves(inv, inv', R) /\ call' \in K /\ issued' \subseteq Asked(R, app)
      BY <2>1, <2>3, EnrollEnterTyped DEF R, K
    <3> QED
      BY <1>0, <2>1, <2>3, <3>1, EnrollOrganizerMoves DEF R, K
  <2> QED
    BY <1>4, <2>2, <2>3 DEF Enroll!PickUp
<1>5. ASSUME NEW c \in Call, NEW r \in R, Enroll!Paste(c, r) PROVE EnrollTyped'
  <2>1. r \in Asked(R, app) /\ Enroll!Enter(c, r) /\ UNCHANGED <<mbox, replies, app, revoked>>
    BY <1>5 DEF Enroll!Paste, Enroll!Sender, Asked
  <2>2. InviteMoves(inv, inv', R) /\ call' \in K /\ issued' \subseteq Asked(R, app)
    BY <2>1, EnrollEnterTyped DEF R, K
  <2> QED
    BY <1>0, <2>1, <2>2, EnrollOrganizerMoves DEF R, K
<1>6. ASSUME NEW c \in Call, Enroll!Shown(c) \/ \E kept, oked \in BOOLEAN : Enroll!Send(c, kept, oked)
      PROVE  EnrollTyped'
  <2>1. /\ call[c].busy /\ call[c].ans # "none" /\ call' = [call EXCEPT ![c] = [busy |-> FALSE]]
        /\ UNCHANGED <<inv, app, issued, revoked>>
    BY <1>1, <1>6 DEF Enroll!Shown, Enroll!Send, Enroll!Signing, Enroll!NoCall
  <2>2. PICK r \in Asked(R, app) : r = call[c].req
    BY <1>1, <2>1
  <2>3. call' \in K
    BY <1>0, <2>1, CallMoves DEF K
  <2>4. {call[c].ans} \subseteq {"sig", "error"}
    BY <1>1, <2>1
  <2>5. replies' \in [R -> SUBSET {"sig", "error"}]
    <3>1. CASE Enroll!Shown(c)
      <4>1. replies' = [replies EXCEPT ![r] = @ \cup ({call[c].ans} \cap {"sig"})]
        BY <2>2, <3>1 DEF Enroll!Shown
      <4> QED
        BY <1>0, <4>1
    <3>2. CASE \E kept, oked \in BOOLEAN : Enroll!Send(c, kept, oked)
      <4>1. replies' = replies \/ replies' = [replies EXCEPT ![r] = @ \cup {call[c].ans}]
        BY <2>2, <3>2 DEF Enroll!Send
      <4> QED
        BY <1>0, <2>4, <4>1
    <3> QED
      BY <1>6, <3>1, <3>2
  <2>6. mbox' = mbox \/ \E st \in {"stored", "answered"} : mbox' = [mbox EXCEPT ![r] = st]
    <3>1. CASE Enroll!Shown(c)
      BY <3>1 DEF Enroll!Shown
    <3>2. CASE \E kept, oked \in BOOLEAN : Enroll!Send(c, kept, oked)
      BY <2>2, <3>2 DEF Enroll!Send
    <3> QED
      BY <1>6, <3>1, <3>2
  <2>7. /\ mbox' \in [R -> {"unsent", "stored", "claimed", "answered"}]
        /\ \A q \in R : mbox'[q] # "unsent" => q \in Asked(R, app)
    BY <1>0, <2>6
  <2> QED
    BY <1>0, <2>1, <2>3, <2>5, <2>7, EnrollOrganizerMoves DEF R, K
<1>7. CASE Enroll!Kill
  <2>1. /\ call' = [c \in Call |-> [busy |-> FALSE]]
        /\ UNCHANGED <<inv, replies, app, issued, revoked>>
        /\ \E lost \in SUBSET {r \in R : mbox[r] = "answered"} :
              mbox' = [r \in R |-> IF mbox[r] = "claimed" \/ r \in lost THEN "stored" ELSE mbox[r]]
    BY <1>7 DEF Enroll!Kill, Enroll!NoCall, R
  <2>2. call' \in K
    BY <2>1 DEF K, Calls
  <2>3. /\ mbox' \in [R -> {"unsent", "stored", "claimed", "answered"}]
        /\ \A q \in R : mbox'[q] # "unsent" => q \in Asked(R, app)
    BY <1>0, <2>1
  <2> QED
    BY <1>0, <2>1, <2>2, <2>3, EnrollOrganizerMoves DEF R, K
<1>8. CASE Enroll!Dashboard
  <2>1. UNCHANGED <<call, mbox, replies, app, issued>> /\ revoked' \in {revoked, TRUE}
    BY <1>8 DEF Enroll!Dashboard, Enroll!Expire, Enroll!Revoke, Enroll!Purge, Enroll!Patch
  <2>2. Changes(inv, inv') \/ Deletes(inv, inv')
    <3>1. CASE Enroll!Expire
      BY <3>1 DEF Enroll!Expire, Changes
    <3>2. CASE Enroll!Revoke \/ Enroll!Purge
      BY <3>2 DEF Enroll!Revoke, Enroll!Purge, Enroll!Gone, Deletes
    <3>3. ASSUME NEW max \in NextMax, Enroll!Patch(max) PROVE Changes(inv, inv')
      <4>1. max \in Nat \cup {Unlimited}
        BY EnrollFacts
      <4> QED
        BY <3>3, <4>1 DEF Enroll!Patch, Changes
    <3> QED
      BY <1>8, <3>1, <3>2, <3>3 DEF Enroll!Dashboard
  <2>3. InviteMoves(inv, inv', R)
    BY <2>2 DEF InviteMoves
  <2> QED
    BY <1>0, <2>1, <2>3, EnrollOrganizerMoves DEF R, K
<1>9. ASSUME NEW m \in Member, NEW b, ExchangeMoves(app[m], b, MaxPrep, Attempts),
             app' = [app EXCEPT ![m] = b], UNCHANGED <<inv, call, replies, issued, revoked>>,
             \/ mbox' = mbox
             \/ mbox' = [mbox EXCEPT ![<<m, b.made>>] = IF @ = "unsent" THEN "stored" ELSE @]
      PROVE  EnrollTyped'
  <2>1. MaxPrep \in Nat /\ Attempts \in Nat /\ R = Member \X (1..MaxPrep)
    BY EnrollFacts DEF R
  <2>2. Typed(R, Member, Call, MaxPrep, Attempts, inv, call, mbox, replies, app, issued)
    BY DEF EnrollTyped, R
  <2>3. Typed(R, Member, Call, MaxPrep, Attempts, inv, call, mbox', replies, [app EXCEPT ![m] = b], issued)
    BY <1>9, <2>1, <2>2, MemberMoves
  <2>4. R' = R
    BY DEF R, Enroll!Request
  <2> QED
    BY <1>0, <1>9, <2>3, <2>4 DEF EnrollTyped, R
<1>10. ASSUME NEW m \in Member, Enroll!Start(m) PROVE EnrollTyped'
  <2> DEFINE b == [Enroll!Prepared(app[m]) EXCEPT !.phase = "flight", !.left = Attempts]
  <2>1. /\ app' = [app EXCEPT ![m] = b] /\ UNCHANGED <<inv, call, mbox, replies, issued, revoked>>
        /\ app[m].phase = "idle" /\ (app[m].keeps \/ app[m].made < MaxPrep)
    BY <1>10 DEF Enroll!Start
  <2>2. IsExchange(app[m], MaxPrep, Attempts)
    BY DEF EnrollTyped, Typed
  <2>3. ExchangeMoves(app[m], b, MaxPrep, Attempts)
    <3>1. CASE app[m].keeps
      <4>1. b = [app[m] EXCEPT !.phase = "flight", !.left = Attempts]
        BY <3>1 DEF Enroll!Prepared
      <4> QED
        BY <2>1, <3>1, <4>1 DEF ExchangeMoves
    <3>2. CASE ~app[m].keeps
      <4>1. b = [app[m] EXCEPT !.made = @ + 1, !.keeps = TRUE, !.phase = "flight", !.left = Attempts]
        BY <2>2, <3>2 DEF Enroll!Prepared, IsExchange
      <4> QED
        BY <2>1, <3>2, <4>1 DEF ExchangeMoves
    <3> QED
      BY <3>1, <3>2
  <2> HIDE DEF b
  <2> QED
    BY <1>9, <2>1, <2>3
<1>11. ASSUME NEW m \in Member, Enroll!Open(m) PROVE EnrollTyped'
  <2>1. PICK b : b = [app[m] EXCEPT !.phase = "socket"]
    OBVIOUS
  <2>2. b.made = app[m].made
    BY <2>1
  <2>3. /\ app' = [app EXCEPT ![m] = b] /\ UNCHANGED <<inv, call, replies, issued, revoked>>
        /\ mbox' = [mbox EXCEPT ![<<m, b.made>>] = IF @ = "unsent" THEN "stored" ELSE @]
    BY <1>11, <2>1, <2>2 DEF Enroll!Open, Enroll!Current
  <2>4. ExchangeMoves(app[m], b, MaxPrep, Attempts)
    BY <1>11, <2>1 DEF Enroll!Open, ExchangeMoves
  <2> QED
    BY <1>9, <2>3, <2>4
<1>12. ASSUME NEW m \in Member, Enroll!Lose(m) \/ Enroll!Refused(m) \/ Enroll!Receive(m) \/ Enroll!AppKill(m)
       PROVE  EnrollTyped'
  <2>1. UNCHANGED <<inv, call, mbox, replies, issued, revoked>>
    BY <1>12 DEF Enroll!Lose, Enroll!Refused, Enroll!Receive, Enroll!AppKill
  <2>2. app[m] \in [made : 0..MaxPrep, keeps : BOOLEAN, phase : {"idle", "flight", "socket", "done"},
                    left : 0..Attempts, restarts : 0..MaxPrep]
    BY DEF EnrollTyped, Typed, IsExchange
  <2>3. DOMAIN app = Member
    BY DEF EnrollTyped, Typed
  <2>4. Enroll!Ended(app[m]) = Over(app[m])
    BY DEF Enroll!Ended, Over
  <2>5. \E b : ExchangeMoves(app[m], b, MaxPrep, Attempts) /\ app' = [app EXCEPT ![m] = b]
    <3>1. CASE Enroll!Lose(m)
      <4>1. PICK b : b = IF app[m].left > 1 THEN [app[m] EXCEPT !.phase = "flight", !.left = @ - 1]
                         ELSE Over(app[m])
        OBVIOUS
      <4>2. app' = [app EXCEPT ![m] = b]
        BY <3>1, <4>1 DEF Enroll!Lose, Enroll!Ended, Enroll!Again, Over
      <4>3. ExchangeMoves(app[m], b, MaxPrep, Attempts)
        BY <3>1, <4>1 DEF Enroll!Lose, ExchangeMoves
      <4> QED
        BY <4>2, <4>3
    <3>2. CASE Enroll!Refused(m)
      <4>1. app' = [app EXCEPT ![m] = Over(app[m])]
        BY <2>3, <2>4, <3>2 DEF Enroll!Refused
      <4>2. ExchangeMoves(app[m], Over(app[m]), MaxPrep, Attempts)
        BY <3>2 DEF Enroll!Refused, ExchangeMoves
      <4> QED
        BY <4>1, <4>2
    <3>3. CASE Enroll!Receive(m)
      <4>1. app[m].phase \in {"flight", "socket"}
        BY <3>3 DEF Enroll!Receive, Enroll!Listening
      <4>2. PICK b : /\ b = Over(app[m]) \/ b = [Over(app[m]) EXCEPT !.phase = "done", !.keeps = FALSE]
                     /\ app' = [app EXCEPT ![m] = b]
        BY <2>3, <2>4, <3>3 DEF Enroll!Receive
      <4>3. ExchangeMoves(app[m], b, MaxPrep, Attempts)
        BY <4>1, <4>2 DEF ExchangeMoves
      <4> QED
        BY <4>2, <4>3
    <3>4. CASE Enroll!AppKill(m)
      <4>1. PICK b : b = [app[m] EXCEPT !.phase = "idle", !.left = 0, !.keeps = FALSE, !.restarts = @ + 1]
        OBVIOUS
      <4>2. app' = [app EXCEPT ![m] = b]
        BY <3>4, <4>1 DEF Enroll!AppKill, Enroll!Dropped, Over
      <4>3. ExchangeMoves(app[m], b, MaxPrep, Attempts)
        BY <3>4, <4>1 DEF Enroll!AppKill, ExchangeMoves
      <4> QED
        BY <4>2, <4>3
    <3> QED
      BY <1>12, <3>1, <3>2, <3>3, <3>4
  <2> QED
    BY <1>9, <2>1, <2>5
<1>13. CASE UNCHANGED Enroll!vars
  <2>1. UNCHANGED <<inv, call, mbox, replies, app, issued, revoked>>
    BY <1>13 DEF Enroll!vars
  <2> QED
    BY <1>0, <2>1, EnrollOrganizerMoves DEF R, K
<1>14. CASE Enroll!Client
  BY <1>10, <1>11, <1>12, <1>14 DEF Enroll!Client
<1>15. CASE Enroll!Organizer
  BY <1>2, <1>3, <1>4, <1>5, <1>6, <1>7, <1>15 DEF Enroll!Organizer, R
<1> QED
  BY <1>8, <1>13, <1>14, <1>15 DEF Enroll!Next

\* What the types say of the properties the run checks.
LEMMA EnrollTypedSound ==
    ASSUME EnrollFinite, EnrollTyped
    PROVE  Enroll!TypeOK /\ Enroll!NothingStranded
<1>1. Typed(Enroll!Request, Member, Call, MaxPrep, Attempts, inv, call, mbox, replies, app, issued)
  BY DEF EnrollTyped
<1>2. /\ IsInvite(inv, Enroll!Request) /\ call \in [Call -> Calls(Asked(Enroll!Request, app))]
      /\ issued \subseteq Enroll!Request /\ Asked(Enroll!Request, app) \subseteq Enroll!Request
  BY <1>1 DEF Typed, Asked
<1>3. ASSUME NEW c \in Call
      PROVE  \/ call[c] = Enroll!NoCall
             \/ call[c] \in [busy : {TRUE}, req : Enroll!Request, own : BOOLEAN, ans : {"none", "sig", "error"}]
  <2>1. call[c] \in Calls(Asked(Enroll!Request, app))
    BY <1>2
  <2> QED
    BY <1>2, <2>1 DEF Calls, Enroll!NoCall
<1>4. /\ inv.live \in BOOLEAN /\ inv.expired \in BOOLEAN /\ inv.max \in Nat \cup {Unlimited}
      /\ inv.count \in Nat /\ inv.reserved \subseteq Enroll!Request /\ inv.signed \in Seq(Enroll!Request)
      /\ inv.reserved \cap Enroll!Signed(inv) = {} /\ Enroll!IsInjective(inv.signed)
  <2>1. inv.reserved \cap ToSet(inv.signed) = {} /\ IsInjective(inv.signed)
    BY <1>2 DEF IsInvite
  <2>2. inv.reserved \cap Enroll!Signed(inv) = {} /\ Enroll!IsInjective(inv.signed)
    BY <2>1, EnrollLibrary
  <2> QED
    BY <1>2, <2>2 DEF IsInvite
<1>5. app \in [Member -> [made : 0..MaxPrep, keeps : BOOLEAN, phase : {"idle", "flight", "socket", "done"},
                          left : 0..Attempts, restarts : 0..MaxPrep]]
  BY <1>1 DEF Typed, IsExchange
<1>6. /\ mbox \in [Enroll!Request -> {"unsent", "stored", "claimed", "answered"}]
      /\ replies \in [Enroll!Request -> SUBSET {"sig", "error"}] /\ revoked \in BOOLEAN
  BY <1>1 DEF Typed, EnrollTyped
<1>7. Enroll!TypeOK
  BY <1>2, <1>3, <1>4, <1>5, <1>6 DEF Enroll!TypeOK
<1>8. ASSUME NEW r \in issued, app[r[1]].restarts = 0 PROVE r = <<r[1], app[r[1]].made>>
  <2>1. r \in Asked(Enroll!Request, app) /\ r \in Member \X (1..MaxPrep) /\ MaxPrep \in Nat
    BY <1>1, EnrollFacts DEF Typed, Asked
  <2>2. r[1] \in Member /\ r[2] \in Nat /\ r[2] >= 1 /\ r[2] <= app[r[1]].made /\ r = <<r[1], r[2]>>
    BY <2>1 DEF Asked
  <2>3. app[r[1]].made \in Nat /\ app[r[1]].made <= 1
    BY <1>1, <1>8, <2>2 DEF Typed, IsExchange
  <2>4. r[2] = app[r[1]].made
    BY <2>2, <2>3
  <2> QED
    BY <2>2, <2>4
<1>9. Enroll!NothingStranded
  BY <1>8 DEF Enroll!NothingStranded, Enroll!Sender, Enroll!Current
<1> QED
  BY <1>7, <1>9

\* The library's operators, and Enrollment's that depend on the invite alone.
LEMMA EnrollPasteLibrary ==
    /\ \A i : EnrollPaste!Signed(i) = ToSet(i.signed) /\ EnrollPaste!Uses(i) = Slots(i)
    /\ \A i : EnrollPaste!pruneUses(i) = Pruned(i)
    /\ \A s : EnrollPaste!IsInjective(s) <=> IsInjective(s)
    /\ \A S : EnrollPaste!Cardinality(S) = Cardinality(S)
<1>1. \A i : EnrollPaste!Signed(i) = ToSet(i.signed)
  BY DEF EnrollPaste!Signed, EnrollPaste!Range, ToSet
<1>2. \A i : EnrollPaste!Uses(i) = Slots(i)
  BY <1>1 DEF EnrollPaste!Uses, Slots
<1>3. \A S : EnrollPaste!Cardinality(S) = Cardinality(S)
  BY DEF EnrollPaste!Cardinality, Cardinality
<1>4. \A i : EnrollPaste!pruneUses(i) = Pruned(i)
  BY <1>2, <1>3 DEF EnrollPaste!pruneUses, Pruned
<1>5. \A s : EnrollPaste!IsInjective(s) <=> IsInjective(s)
  BY DEF EnrollPaste!IsInjective, IsInjective
<1> QED
  BY <1>1, <1>2, <1>3, <1>4, <1>5

EnrollPasteFinite == EnrollPaste!EnrollmentAssumption /\ IsFiniteSet(Member)

EnrollPasteTyped ==
    /\ Typed(EnrollPaste!Request, Member, PasteCall, PasteMaxPrep, PasteAttempts, inv, call, mbox, replies, app, issued)
    /\ revoked \in BOOLEAN

LEMMA EnrollPasteFacts ==
    ASSUME EnrollPasteFinite
    PROVE  /\ Retain \in Nat /\ PasteMaxPrep \in Nat /\ PasteAttempts \in Nat /\ IsFiniteSet(EnrollPaste!Request)
           /\ EnrollPaste!Request = Member \X (1..PasteMaxPrep) /\ FirstMax \in Nat \cup {Unlimited}
           /\ PasteNextMax \subseteq Nat \cup {Unlimited}
<1>1. Retain \in Nat /\ PasteMaxPrep \in Nat /\ PasteAttempts \in Nat
  BY DEF EnrollPasteFinite, EnrollPaste!EnrollmentAssumption
<1>2. IsFiniteSet(Member) /\ IsFiniteSet(1..PasteMaxPrep)
  BY <1>1, FS_Interval DEF EnrollPasteFinite
<1>3. IsFiniteSet(Member \X (1..PasteMaxPrep))
  BY <1>2, FS_Product
<1> QED
  BY <1>1, <1>3 DEF EnrollPaste!Request, EnrollPasteFinite, EnrollPaste!EnrollmentAssumption

\* Nothing is known of a member before it starts.
LEMMA EnrollPasteTypedInit ==
    ASSUME EnrollPasteFinite, EnrollPaste!Init
    PROVE  EnrollPasteTyped
<1>1. PICK z : z = [made |-> 0, keeps |-> FALSE, phase |-> "idle", left |-> 0, restarts |-> 0]
  OBVIOUS
<1>2. IsExchange(z, PasteMaxPrep, PasteAttempts)
  <2>1. 0 \in 0..PasteMaxPrep /\ 0 \in 0..PasteAttempts
    BY EnrollPasteFacts
  <2> QED
    BY <1>1, <2>1 DEF IsExchange
<1>3. PICK i : i = [live |-> TRUE, expired |-> FALSE, max |-> FirstMax, count |-> 0,
                    reserved |-> {}, signed |-> <<>>]
  OBVIOUS
<1>4. IsInvite(i, EnrollPaste!Request)
  <2>1. PICK none : none = <<>>
    OBVIOUS
  <2>2. none \in Seq(EnrollPaste!Request) /\ IsInjective(none) /\ ToSet(none) = {}
    BY <2>1 DEF IsInjective, ToSet
  <2>3. i = [live |-> TRUE, expired |-> FALSE, max |-> FirstMax, count |-> 0, reserved |-> {}, signed |-> none]
    BY <1>3, <2>1
  <2>4. FirstMax \in Nat \cup {Unlimited} /\ 0 \in Nat
    BY EnrollPasteFacts
  <2> QED
    BY <2>2, <2>3, <2>4 DEF IsInvite
<1>5. /\ inv = i /\ call = [c \in PasteCall |-> [busy |-> FALSE]]
      /\ mbox = [r \in EnrollPaste!Request |-> "unsent"] /\ replies = [r \in EnrollPaste!Request |-> {}]
      /\ app = [m \in Member |-> z] /\ issued = {} /\ revoked = FALSE
  BY <1>1, <1>3 DEF EnrollPaste!Init, EnrollPaste!NoCall
<1>6. call \in [PasteCall -> Calls(Asked(EnrollPaste!Request, app))]
  BY <1>5 DEF Calls
<1>7. app = [m \in Member |-> app[m]] /\ \A m \in Member : IsExchange(app[m], PasteMaxPrep, PasteAttempts)
  BY <1>2, <1>5
<1> QED
  BY <1>4, <1>5, <1>6, <1>7 DEF EnrollPasteTyped, Typed

\* issueInviteCredential before its first await, on a request that was prepared.
LEMMA EnrollPasteEnterTyped ==
    ASSUME EnrollPasteFinite, EnrollPasteTyped, NEW c \in PasteCall, NEW r \in Asked(EnrollPaste!Request, app), EnrollPaste!Enter(c, r)
    PROVE  /\ InviteMoves(inv, inv', EnrollPaste!Request)
           /\ call' \in [PasteCall -> Calls(Asked(EnrollPaste!Request, app))]
           /\ issued' \subseteq Asked(EnrollPaste!Request, app)
<1>1. r \in EnrollPaste!Request /\ issued \subseteq Asked(EnrollPaste!Request, app)
  BY DEF Asked, EnrollPasteTyped, Typed
<1>2. \E own \in BOOLEAN, ans \in {"none", "sig", "error"} :
         call' = [call EXCEPT ![c] = [busy |-> TRUE, req |-> r, own |-> own, ans |-> ans]]
  BY DEF EnrollPaste!Enter, EnrollPaste!Busy
<1>3. call' \in [PasteCall -> Calls(Asked(EnrollPaste!Request, app))]
  <2>1. PICK S : S = Asked(EnrollPaste!Request, app)
    OBVIOUS
  <2>2. call \in [PasteCall -> Calls(S)] /\ r \in S
    BY <2>1 DEF EnrollPasteTyped, Typed
  <2>3. PICK own \in BOOLEAN, ans \in {"none", "sig", "error"} :
           call' = [call EXCEPT ![c] = [busy |-> TRUE, req |-> r, own |-> own, ans |-> ans]]
    BY <1>2
  <2>4. call' \in [PasteCall -> Calls(S)]
    BY <2>2, <2>3, CallMoves
  <2> QED
    BY <2>1, <2>4
<1>4. inv' = inv \/ (r \notin EnrollPaste!Uses(inv) /\ inv' = EnrollPaste!Reserve(inv, r))
  BY DEF EnrollPaste!Enter
<1>5. InviteMoves(inv, inv', EnrollPaste!Request)
  <2>1. CASE inv' = inv
    BY <2>1 DEF InviteMoves
  <2>2. CASE r \notin EnrollPaste!Uses(inv) /\ inv' = EnrollPaste!Reserve(inv, r)
    <3>1. r \notin Slots(inv) /\ TakesSlot(inv, inv', r)
      BY <2>2, EnrollPasteLibrary DEF EnrollPaste!Reserve, TakesSlot
    <3> QED
      BY <1>1, <3>1 DEF InviteMoves
  <2> QED
    BY <1>4, <2>1, <2>2
<1>6. issued' \subseteq issued \cup {r}
  BY DEF EnrollPaste!Enter
<1> QED
  BY <1>1, <1>3, <1>5, <1>6

\* A step of the organizer's: the members' exchanges stay as they are.
LEMMA EnrollPasteOrganizerMoves ==
    ASSUME EnrollPasteFinite, EnrollPasteTyped, app' = app, InviteMoves(inv, inv', EnrollPaste!Request),
           call' \in [PasteCall -> Calls(Asked(EnrollPaste!Request, app))],
           mbox' \in [EnrollPaste!Request -> {"unsent", "stored", "claimed", "answered"}],
           \A r \in EnrollPaste!Request : mbox'[r] # "unsent" => r \in Asked(EnrollPaste!Request, app),
           replies' \in [EnrollPaste!Request -> SUBSET {"sig", "error"}],
           issued' \subseteq Asked(EnrollPaste!Request, app), revoked' \in BOOLEAN
    PROVE  EnrollPasteTyped'
<1>1. PICK R : R = EnrollPaste!Request
  OBVIOUS
<1>2. IsInvite(inv', R)
  BY <1>1, EnrollPasteFacts, InviteKept DEF EnrollPasteTyped, Typed
<1>3. EnrollPaste!Request' = R
  BY <1>1 DEF EnrollPaste!Request
<1>4. Typed(R, Member, PasteCall, PasteMaxPrep, PasteAttempts, inv', call', mbox', replies', app', issued')
  BY <1>1, <1>2 DEF EnrollPasteTyped, Typed
<1> QED
  BY <1>3, <1>4 DEF EnrollPasteTyped

LEMMA EnrollPasteTypedNext ==
    ASSUME EnrollPasteFinite, EnrollPasteTyped, [EnrollPaste!Next]_EnrollPaste!vars
    PROVE  EnrollPasteTyped'
<1> DEFINE R == EnrollPaste!Request
           K == [PasteCall -> Calls(Asked(R, app))]
<1>0. /\ IsInvite(inv, R) /\ call \in K /\ revoked \in BOOLEAN
      /\ mbox \in [R -> {"unsent", "stored", "claimed", "answered"}]
      /\ \A r \in R : mbox[r] # "unsent" => r \in Asked(R, app)
      /\ replies \in [R -> SUBSET {"sig", "error"}] /\ issued \subseteq Asked(R, app)
      /\ InviteMoves(inv, inv, R) /\ Asked(R, app) \subseteq R
  BY DEF EnrollPasteTyped, Typed, InviteMoves, Asked
<1>1. ASSUME NEW c \in PasteCall, call[c].busy
      PROVE  call[c].req \in Asked(R, app) /\ call[c].ans \in {"none", "sig", "error"}
  <2>1. PICK S : S = Asked(R, app)
    OBVIOUS
  <2>2. call \in [PasteCall -> Calls(S)]
    BY <1>0, <2>1
  <2>3. call[c] \in [busy : {TRUE}, req : S, own : BOOLEAN, ans : {"none", "sig", "error"}]
    BY <1>1, <2>2, CallShape
  <2> QED
    BY <2>1, <2>3
<1> HIDE DEF R, K
<1>2. ASSUME NEW c \in PasteCall, EnrollPaste!SignOk(c) PROVE EnrollPasteTyped'
  <2>1. /\ call[c].busy /\ call' = [call EXCEPT ![c].ans = "sig"]
        /\ issued' = issued \cup {call[c].req} /\ UNCHANGED <<mbox, replies, app, revoked>>
        /\ \/ inv' = inv
           \/ call[c].req \notin EnrollPaste!Signed(inv) /\ inv' = EnrollPaste!Finalised(inv, call[c].req)
    BY <1>2 DEF EnrollPaste!SignOk, EnrollPaste!Signing
  <2>2. call' \in K
    BY <1>0, <2>1, CallMoves DEF K
  <2>3. InviteMoves(inv, inv', R)
    <3>1. CASE inv' = inv
      BY <1>0, <3>1
    <3>2. CASE call[c].req \notin EnrollPaste!Signed(inv) /\ inv' = EnrollPaste!Finalised(inv, call[c].req)
      <4>1. PICK r \in R : r = call[c].req
        BY <1>0, <1>1, <2>1
      <4>2. r \notin ToSet(inv.signed) /\ Signs(inv, inv', r)
        BY <3>2, <4>1, EnrollPasteLibrary DEF EnrollPaste!Finalised, Signs
      <4> QED
        BY <4>2 DEF InviteMoves
    <3> QED
      BY <2>1, <3>1, <3>2
  <2> QED
    BY <1>0, <1>1, <2>1, <2>2, <2>3, EnrollPasteOrganizerMoves DEF R, K
<1>3. ASSUME NEW c \in PasteCall, EnrollPaste!SignFail(c) PROVE EnrollPasteTyped'
  <2>1. /\ call[c].busy /\ call' = [call EXCEPT ![c].ans = "error"]
        /\ UNCHANGED <<mbox, replies, app, issued, revoked>>
        /\ inv' = inv \/ inv' = EnrollPaste!RolledBack(inv, call[c].req)
    BY <1>3 DEF EnrollPaste!SignFail, EnrollPaste!Signing
  <2>2. call' \in K
    BY <1>0, <2>1, CallMoves DEF K
  <2>3. InviteMoves(inv, inv', R)
    <3>1. CASE inv' = inv
      BY <1>0, <3>1
    <3>2. CASE inv' = EnrollPaste!RolledBack(inv, call[c].req)
      <4>1. PICK r \in R : r = call[c].req
        BY <1>0, <1>1, <2>1
      <4>2. GivesBack(inv, inv', r)
        BY <3>2, <4>1 DEF EnrollPaste!RolledBack, GivesBack
      <4> QED
        BY <4>2 DEF InviteMoves
    <3> QED
      BY <2>1, <3>1, <3>2
  <2> QED
    BY <1>0, <2>1, <2>2, <2>3, EnrollPasteOrganizerMoves DEF R, K
<1>4. ASSUME NEW c \in PasteCall, NEW r \in R, EnrollPaste!PickUp(c, r) PROVE EnrollPasteTyped'
  <2>1. mbox[r] = "stored" /\ r \in Asked(R, app) /\ UNCHANGED <<replies, app, revoked>>
    BY <1>0, <1>4 DEF EnrollPaste!PickUp
  <2>2. CASE mbox' = [mbox EXCEPT ![r] = "answered"] /\ UNCHANGED <<inv, call, issued>>
    BY <1>0, <2>1, <2>2, EnrollPasteOrganizerMoves DEF R, K
  <2>3. CASE EnrollPaste!Enter(c, r) /\ mbox' = [mbox EXCEPT ![r] = "claimed"]
    <3>1. InviteMoves(inv, inv', R) /\ call' \in K /\ issued' \subseteq Asked(R, app)
      BY <2>1, <2>3, EnrollPasteEnterTyped DEF R, K
    <3> QED
      BY <1>0, <2>1, <2>3, <3>1, EnrollPasteOrganizerMoves DEF R, K
  <2> QED
    BY <1>4, <2>2, <2>3 DEF EnrollPaste!PickUp
<1>5. ASSUME NEW c \in PasteCall, NEW r \in R, EnrollPaste!Paste(c, r) PROVE EnrollPasteTyped'
  <2>1. r \in Asked(R, app) /\ EnrollPaste!Enter(c, r) /\ UNCHANGED <<mbox, replies, app, revoked>>
    BY <1>5 DEF EnrollPaste!Paste, EnrollPaste!Sender, Asked
  <2>2. InviteMoves(inv, inv', R) /\ call' \in K /\ issued' \subseteq Asked(R, app)
    BY <2>1, EnrollPasteEnterTyped DEF R, K
  <2> QED
    BY <1>0, <2>1, <2>2, EnrollPasteOrganizerMoves DEF R, K
<1>6. ASSUME NEW c \in PasteCall, EnrollPaste!Shown(c) \/ \E kept, oked \in BOOLEAN : EnrollPaste!Send(c, kept, oked)
      PROVE  EnrollPasteTyped'
  <2>1. /\ call[c].busy /\ call[c].ans # "none" /\ call' = [call EXCEPT ![c] = [busy |-> FALSE]]
        /\ UNCHANGED <<inv, app, issued, revoked>>
    BY <1>1, <1>6 DEF EnrollPaste!Shown, EnrollPaste!Send, EnrollPaste!Signing, EnrollPaste!NoCall
  <2>2. PICK r \in Asked(R, app) : r = call[c].req
    BY <1>1, <2>1
  <2>3. call' \in K
    BY <1>0, <2>1, CallMoves DEF K
  <2>4. {call[c].ans} \subseteq {"sig", "error"}
    BY <1>1, <2>1
  <2>5. replies' \in [R -> SUBSET {"sig", "error"}]
    <3>1. CASE EnrollPaste!Shown(c)
      <4>1. replies' = [replies EXCEPT ![r] = @ \cup ({call[c].ans} \cap {"sig"})]
        BY <2>2, <3>1 DEF EnrollPaste!Shown
      <4> QED
        BY <1>0, <4>1
    <3>2. CASE \E kept, oked \in BOOLEAN : EnrollPaste!Send(c, kept, oked)
      <4>1. replies' = replies \/ replies' = [replies EXCEPT ![r] = @ \cup {call[c].ans}]
        BY <2>2, <3>2 DEF EnrollPaste!Send
      <4> QED
        BY <1>0, <2>4, <4>1
    <3> QED
      BY <1>6, <3>1, <3>2
  <2>6. mbox' = mbox \/ \E st \in {"stored", "answered"} : mbox' = [mbox EXCEPT ![r] = st]
    <3>1. CASE EnrollPaste!Shown(c)
      BY <3>1 DEF EnrollPaste!Shown
    <3>2. CASE \E kept, oked \in BOOLEAN : EnrollPaste!Send(c, kept, oked)
      BY <2>2, <3>2 DEF EnrollPaste!Send
    <3> QED
      BY <1>6, <3>1, <3>2
  <2>7. /\ mbox' \in [R -> {"unsent", "stored", "claimed", "answered"}]
        /\ \A q \in R : mbox'[q] # "unsent" => q \in Asked(R, app)
    BY <1>0, <2>6
  <2> QED
    BY <1>0, <2>1, <2>3, <2>5, <2>7, EnrollPasteOrganizerMoves DEF R, K
<1>7. CASE EnrollPaste!Kill
  <2>1. /\ call' = [c \in PasteCall |-> [busy |-> FALSE]]
        /\ UNCHANGED <<inv, replies, app, issued, revoked>>
        /\ \E lost \in SUBSET {r \in R : mbox[r] = "answered"} :
              mbox' = [r \in R |-> IF mbox[r] = "claimed" \/ r \in lost THEN "stored" ELSE mbox[r]]
    BY <1>7 DEF EnrollPaste!Kill, EnrollPaste!NoCall, R
  <2>2. call' \in K
    BY <2>1 DEF K, Calls
  <2>3. /\ mbox' \in [R -> {"unsent", "stored", "claimed", "answered"}]
        /\ \A q \in R : mbox'[q] # "unsent" => q \in Asked(R, app)
    BY <1>0, <2>1
  <2> QED
    BY <1>0, <2>1, <2>2, <2>3, EnrollPasteOrganizerMoves DEF R, K
<1>8. CASE EnrollPaste!Dashboard
  <2>1. UNCHANGED <<call, mbox, replies, app, issued>> /\ revoked' \in {revoked, TRUE}
    BY <1>8 DEF EnrollPaste!Dashboard, EnrollPaste!Expire, EnrollPaste!Revoke, EnrollPaste!Purge, EnrollPaste!Patch
  <2>2. Changes(inv, inv') \/ Deletes(inv, inv')
    <3>1. CASE EnrollPaste!Expire
      BY <3>1 DEF EnrollPaste!Expire, Changes
    <3>2. CASE EnrollPaste!Revoke \/ EnrollPaste!Purge
      BY <3>2 DEF EnrollPaste!Revoke, EnrollPaste!Purge, EnrollPaste!Gone, Deletes
    <3>3. ASSUME NEW max \in PasteNextMax, EnrollPaste!Patch(max) PROVE Changes(inv, inv')
      <4>1. max \in Nat \cup {Unlimited}
        BY EnrollPasteFacts
      <4> QED
        BY <3>3, <4>1 DEF EnrollPaste!Patch, Changes
    <3> QED
      BY <1>8, <3>1, <3>2, <3>3 DEF EnrollPaste!Dashboard
  <2>3. InviteMoves(inv, inv', R)
    BY <2>2 DEF InviteMoves
  <2> QED
    BY <1>0, <2>1, <2>3, EnrollPasteOrganizerMoves DEF R, K
<1>9. ASSUME NEW m \in Member, NEW b, ExchangeMoves(app[m], b, PasteMaxPrep, PasteAttempts),
             app' = [app EXCEPT ![m] = b], UNCHANGED <<inv, call, replies, issued, revoked>>,
             \/ mbox' = mbox
             \/ mbox' = [mbox EXCEPT ![<<m, b.made>>] = IF @ = "unsent" THEN "stored" ELSE @]
      PROVE  EnrollPasteTyped'
  <2>1. PasteMaxPrep \in Nat /\ PasteAttempts \in Nat /\ R = Member \X (1..PasteMaxPrep)
    BY EnrollPasteFacts DEF R
  <2>2. Typed(R, Member, PasteCall, PasteMaxPrep, PasteAttempts, inv, call, mbox, replies, app, issued)
    BY DEF EnrollPasteTyped, R
  <2>3. Typed(R, Member, PasteCall, PasteMaxPrep, PasteAttempts, inv, call, mbox', replies, [app EXCEPT ![m] = b], issued)
    BY <1>9, <2>1, <2>2, MemberMoves
  <2>4. R' = R
    BY DEF R, EnrollPaste!Request
  <2> QED
    BY <1>0, <1>9, <2>3, <2>4 DEF EnrollPasteTyped, R
<1>10. ASSUME NEW m \in Member, EnrollPaste!Start(m) PROVE EnrollPasteTyped'
  <2> DEFINE b == [EnrollPaste!Prepared(app[m]) EXCEPT !.phase = "flight", !.left = PasteAttempts]
  <2>1. /\ app' = [app EXCEPT ![m] = b] /\ UNCHANGED <<inv, call, mbox, replies, issued, revoked>>
        /\ app[m].phase = "idle" /\ (app[m].keeps \/ app[m].made < PasteMaxPrep)
    BY <1>10 DEF EnrollPaste!Start
  <2>2. IsExchange(app[m], PasteMaxPrep, PasteAttempts)
    BY DEF EnrollPasteTyped, Typed
  <2>3. ExchangeMoves(app[m], b, PasteMaxPrep, PasteAttempts)
    <3>1. CASE app[m].keeps
      <4>1. b = [app[m] EXCEPT !.phase = "flight", !.left = PasteAttempts]
        BY <3>1 DEF EnrollPaste!Prepared
      <4> QED
        BY <2>1, <3>1, <4>1 DEF ExchangeMoves
    <3>2. CASE ~app[m].keeps
      <4>1. b = [app[m] EXCEPT !.made = @ + 1, !.keeps = TRUE, !.phase = "flight", !.left = PasteAttempts]
        BY <2>2, <3>2 DEF EnrollPaste!Prepared, IsExchange
      <4> QED
        BY <2>1, <3>2, <4>1 DEF ExchangeMoves
    <3> QED
      BY <3>1, <3>2
  <2> HIDE DEF b
  <2> QED
    BY <1>9, <2>1, <2>3
<1>11. ASSUME NEW m \in Member, EnrollPaste!Open(m) PROVE EnrollPasteTyped'
  <2>1. PICK b : b = [app[m] EXCEPT !.phase = "socket"]
    OBVIOUS
  <2>2. b.made = app[m].made
    BY <2>1
  <2>3. /\ app' = [app EXCEPT ![m] = b] /\ UNCHANGED <<inv, call, replies, issued, revoked>>
        /\ mbox' = [mbox EXCEPT ![<<m, b.made>>] = IF @ = "unsent" THEN "stored" ELSE @]
    BY <1>11, <2>1, <2>2 DEF EnrollPaste!Open, EnrollPaste!Current
  <2>4. ExchangeMoves(app[m], b, PasteMaxPrep, PasteAttempts)
    BY <1>11, <2>1 DEF EnrollPaste!Open, ExchangeMoves
  <2> QED
    BY <1>9, <2>3, <2>4
<1>12. ASSUME NEW m \in Member, EnrollPaste!Lose(m) \/ EnrollPaste!Refused(m) \/ EnrollPaste!Receive(m) \/ EnrollPaste!AppKill(m)
       PROVE  EnrollPasteTyped'
  <2>1. UNCHANGED <<inv, call, mbox, replies, issued, revoked>>
    BY <1>12 DEF EnrollPaste!Lose, EnrollPaste!Refused, EnrollPaste!Receive, EnrollPaste!AppKill
  <2>2. app[m] \in [made : 0..PasteMaxPrep, keeps : BOOLEAN, phase : {"idle", "flight", "socket", "done"},
                    left : 0..PasteAttempts, restarts : 0..PasteMaxPrep]
    BY DEF EnrollPasteTyped, Typed, IsExchange
  <2>3. DOMAIN app = Member
    BY DEF EnrollPasteTyped, Typed
  <2>4. EnrollPaste!Ended(app[m]) = Over(app[m])
    BY DEF EnrollPaste!Ended, Over
  <2>5. \E b : ExchangeMoves(app[m], b, PasteMaxPrep, PasteAttempts) /\ app' = [app EXCEPT ![m] = b]
    <3>1. CASE EnrollPaste!Lose(m)
      <4>1. PICK b : b = IF app[m].left > 1 THEN [app[m] EXCEPT !.phase = "flight", !.left = @ - 1]
                         ELSE Over(app[m])
        OBVIOUS
      <4>2. app' = [app EXCEPT ![m] = b]
        BY <3>1, <4>1 DEF EnrollPaste!Lose, EnrollPaste!Ended, EnrollPaste!Again, Over
      <4>3. ExchangeMoves(app[m], b, PasteMaxPrep, PasteAttempts)
        BY <3>1, <4>1 DEF EnrollPaste!Lose, ExchangeMoves
      <4> QED
        BY <4>2, <4>3
    <3>2. CASE EnrollPaste!Refused(m)
      <4>1. app' = [app EXCEPT ![m] = Over(app[m])]
        BY <2>3, <2>4, <3>2 DEF EnrollPaste!Refused
      <4>2. ExchangeMoves(app[m], Over(app[m]), PasteMaxPrep, PasteAttempts)
        BY <3>2 DEF EnrollPaste!Refused, ExchangeMoves
      <4> QED
        BY <4>1, <4>2
    <3>3. CASE EnrollPaste!Receive(m)
      <4>1. app[m].phase \in {"flight", "socket"}
        BY <3>3 DEF EnrollPaste!Receive, EnrollPaste!Listening
      <4>2. PICK b : /\ b = Over(app[m]) \/ b = [Over(app[m]) EXCEPT !.phase = "done", !.keeps = FALSE]
                     /\ app' = [app EXCEPT ![m] = b]
        BY <2>3, <2>4, <3>3 DEF EnrollPaste!Receive
      <4>3. ExchangeMoves(app[m], b, PasteMaxPrep, PasteAttempts)
        BY <4>1, <4>2 DEF ExchangeMoves
      <4> QED
        BY <4>2, <4>3
    <3>4. CASE EnrollPaste!AppKill(m)
      <4>1. PICK b : b = [app[m] EXCEPT !.phase = "idle", !.left = 0, !.keeps = FALSE, !.restarts = @ + 1]
        OBVIOUS
      <4>2. app' = [app EXCEPT ![m] = b]
        BY <3>4, <4>1 DEF EnrollPaste!AppKill, EnrollPaste!Dropped, Over
      <4>3. ExchangeMoves(app[m], b, PasteMaxPrep, PasteAttempts)
        BY <3>4, <4>1 DEF EnrollPaste!AppKill, ExchangeMoves
      <4> QED
        BY <4>2, <4>3
    <3> QED
      BY <1>12, <3>1, <3>2, <3>3, <3>4
  <2> QED
    BY <1>9, <2>1, <2>5
<1>13. CASE UNCHANGED EnrollPaste!vars
  <2>1. UNCHANGED <<inv, call, mbox, replies, app, issued, revoked>>
    BY <1>13 DEF EnrollPaste!vars
  <2> QED
    BY <1>0, <2>1, EnrollPasteOrganizerMoves DEF R, K
<1>14. CASE EnrollPaste!Client
  BY <1>10, <1>11, <1>12, <1>14 DEF EnrollPaste!Client
<1>15. CASE EnrollPaste!Organizer
  BY <1>2, <1>3, <1>4, <1>5, <1>6, <1>7, <1>15 DEF EnrollPaste!Organizer, R
<1> QED
  BY <1>8, <1>13, <1>14, <1>15 DEF EnrollPaste!Next

\* What the types say of the properties the run checks.
LEMMA EnrollPasteTypedSound ==
    ASSUME EnrollPasteFinite, EnrollPasteTyped
    PROVE  EnrollPaste!TypeOK /\ EnrollPaste!NothingStranded
<1>1. Typed(EnrollPaste!Request, Member, PasteCall, PasteMaxPrep, PasteAttempts, inv, call, mbox, replies, app, issued)
  BY DEF EnrollPasteTyped
<1>2. /\ IsInvite(inv, EnrollPaste!Request) /\ call \in [PasteCall -> Calls(Asked(EnrollPaste!Request, app))]
      /\ issued \subseteq EnrollPaste!Request /\ Asked(EnrollPaste!Request, app) \subseteq EnrollPaste!Request
  BY <1>1 DEF Typed, Asked
<1>3. ASSUME NEW c \in PasteCall
      PROVE  \/ call[c] = EnrollPaste!NoCall
             \/ call[c] \in [busy : {TRUE}, req : EnrollPaste!Request, own : BOOLEAN, ans : {"none", "sig", "error"}]
  <2>1. call[c] \in Calls(Asked(EnrollPaste!Request, app))
    BY <1>2
  <2> QED
    BY <1>2, <2>1 DEF Calls, EnrollPaste!NoCall
<1>4. /\ inv.live \in BOOLEAN /\ inv.expired \in BOOLEAN /\ inv.max \in Nat \cup {Unlimited}
      /\ inv.count \in Nat /\ inv.reserved \subseteq EnrollPaste!Request /\ inv.signed \in Seq(EnrollPaste!Request)
      /\ inv.reserved \cap EnrollPaste!Signed(inv) = {} /\ EnrollPaste!IsInjective(inv.signed)
  <2>1. inv.reserved \cap ToSet(inv.signed) = {} /\ IsInjective(inv.signed)
    BY <1>2 DEF IsInvite
  <2>2. inv.reserved \cap EnrollPaste!Signed(inv) = {} /\ EnrollPaste!IsInjective(inv.signed)
    BY <2>1, EnrollPasteLibrary
  <2> QED
    BY <1>2, <2>2 DEF IsInvite
<1>5. app \in [Member -> [made : 0..PasteMaxPrep, keeps : BOOLEAN, phase : {"idle", "flight", "socket", "done"},
                          left : 0..PasteAttempts, restarts : 0..PasteMaxPrep]]
  BY <1>1 DEF Typed, IsExchange
<1>6. /\ mbox \in [EnrollPaste!Request -> {"unsent", "stored", "claimed", "answered"}]
      /\ replies \in [EnrollPaste!Request -> SUBSET {"sig", "error"}] /\ revoked \in BOOLEAN
  BY <1>1 DEF Typed, EnrollPasteTyped
<1>7. EnrollPaste!TypeOK
  BY <1>2, <1>3, <1>4, <1>5, <1>6 DEF EnrollPaste!TypeOK
<1>8. ASSUME NEW r \in issued, app[r[1]].restarts = 0 PROVE r = <<r[1], app[r[1]].made>>
  <2>1. r \in Asked(EnrollPaste!Request, app) /\ r \in Member \X (1..PasteMaxPrep) /\ PasteMaxPrep \in Nat
    BY <1>1, EnrollPasteFacts DEF Typed, Asked
  <2>2. r[1] \in Member /\ r[2] \in Nat /\ r[2] >= 1 /\ r[2] <= app[r[1]].made /\ r = <<r[1], r[2]>>
    BY <2>1 DEF Asked
  <2>3. app[r[1]].made \in Nat /\ app[r[1]].made <= 1
    BY <1>1, <1>8, <2>2 DEF Typed, IsExchange
  <2>4. r[2] = app[r[1]].made
    BY <2>2, <2>3
  <2> QED
    BY <2>2, <2>4
<1>9. EnrollPaste!NothingStranded
  BY <1>8 DEF EnrollPaste!NothingStranded, EnrollPaste!Sender, EnrollPaste!Current
<1> QED
  BY <1>7, <1>9

----------------------------------------------------------------------------
(* Enrollment through the mailbox: what an invite yields.                   *)

\* Nobody pastes a code, the organizer purges nothing, and an invite's record can hold every
\* request.
Honoured ==
    /\ EnrollFinite /\ Manual = {} /\ ~Purging
    /\ Cardinality(Enroll!Request) <= Retain

\* A request has one call at most, and the mailbox holds its claim meanwhile.
OneCallEach ==
    /\ \A c \in Call : call[c].busy => mbox[call[c].req] = "claimed"
    /\ \A c, d \in Call : call[c].busy /\ call[d].busy /\ call[c].req = call[d].req => c = d

AtSigner(c) == call[c].busy /\ call[c].ans = "none"

\* The record of a live invite: its signatures are the credentials handed out, its counter
\* is the number of its slots, and a slot without a signature is in the hands of the call
\* that took it, unless the process was killed under it.
BooksBalance ==
    inv.live =>
        /\ issued = ToSet(inv.signed)
        /\ inv.count = Cardinality(Slots(inv))
        /\ \A c \in Call : AtSigner(c) => call[c].req \in inv.reserved
        /\ kills = 0 => \A r \in inv.reserved :
              \E c \in Call : AtSigner(c) /\ call[c].own /\ call[c].req = r

\* What may still be signed of an invite that is gone.
Promised == issued \cup {call[c].req : c \in {d \in Call : AtSigner(d)}}

NeverOversold ==
    /\ cap \in Nat \cup {Unlimited}
    /\ cap # Unlimited =>
          /\ inv.max \in Nat /\ inv.max <= cap
          /\ inv.live => inv.count <= cap
          /\ ~inv.live => Cardinality(Promised) <= cap

EnrollInv ==
    /\ EnrollTyped /\ OneCallEach /\ BooksBalance /\ NeverOversold
    /\ (~revoked => inv.live) /\ kills \in Nat

\* What the record is after a slot is taken, signed or given back.
LEMMA TakenFacts ==
    ASSUME Retain \in Nat, NEW i, NEW j, NEW R, IsInvite(i, R), IsFiniteSet(R),
           Cardinality(R) <= Retain, NEW r \in R \ Slots(i), TakesSlot(i, j, r)
    PROVE  /\ j.live = i.live /\ j.max = i.max /\ j.signed = i.signed
           /\ j.reserved = i.reserved \cup {r} /\ j.count = i.count + 1
           /\ Cardinality(Slots(j)) = Cardinality(Slots(i)) + 1
<1>1. PICK k : k = [i EXCEPT !.reserved = @ \cup {r}, !.count = @ + 1]
  OBVIOUS
<1>2. i \in [live : BOOLEAN, expired : BOOLEAN, max : Nat \cup {Unlimited}, count : Nat,
             reserved : SUBSET R, signed : Seq(R)]
  BY DEF IsInvite
<1>3. k = [live |-> i.live, expired |-> i.expired, max |-> i.max, count |-> i.count + 1,
           reserved |-> i.reserved \cup {r}, signed |-> i.signed]
  BY <1>1, <1>2
<1>4. /\ k.live = i.live /\ k.max = i.max /\ k.signed = i.signed
      /\ k.reserved = i.reserved \cup {r} /\ k.count = i.count + 1
  BY <1>3
<1>5. IsInvite(k, R)
  <2>1. i.count + 1 \in Nat
    BY <1>2
  <2>2. i.reserved \cup {r} \in SUBSET R /\ (i.reserved \cup {r}) \cap ToSet(i.signed) = {}
    BY <1>2 DEF IsInvite, Slots
  <2>3. IsInjective(i.signed)
    BY DEF IsInvite
  <2>4. k \in [live : BOOLEAN, expired : BOOLEAN, max : Nat \cup {Unlimited}, count : Nat,
               reserved : SUBSET R, signed : Seq(R)]
    BY <1>2, <1>3, <2>1, <2>2
  <2> QED
    BY <1>4, <2>2, <2>3, <2>4 DEF IsInvite
<1>6. Slots(k) \subseteq R /\ Cardinality(Slots(k)) \in Nat
  BY <1>5, InviteParts
<1>7. Cardinality(Slots(k)) <= Cardinality(R) /\ Cardinality(R) \in Nat
  BY <1>6, FS_Subset, FS_CardinalityType
<1>8. Cardinality(Slots(k)) <= Retain
  BY <1>6, <1>7
<1>9. j = k
  BY <1>1, <1>5, <1>8, PrunedFacts DEF TakesSlot
<1>10. Slots(k) = Slots(i) \cup {r} /\ r \notin Slots(i)
  BY <1>4 DEF Slots
<1>11. Cardinality(Slots(i) \cup {r}) = Cardinality(Slots(i)) + 1
  BY <1>10, InviteParts, FS_AddElement
<1> QED
  BY <1>4, <1>9, <1>10, <1>11

LEMMA SignedFacts ==
    ASSUME NEW i, NEW j, NEW R, IsInvite(i, R), IsFiniteSet(R), NEW r \in i.reserved, Signs(i, j, r)
    PROVE  /\ j.live = i.live /\ j.max = i.max /\ j.count = i.count
           /\ j.reserved = i.reserved \ {r} /\ ToSet(j.signed) = ToSet(i.signed) \cup {r}
           /\ Slots(j) = Slots(i) /\ r \notin ToSet(i.signed)
<1>1. i \in [live : BOOLEAN, expired : BOOLEAN, max : Nat \cup {Unlimited}, count : Nat,
             reserved : SUBSET R, signed : Seq(R)] /\ r \notin ToSet(i.signed)
  BY DEF IsInvite
<1>2. j = [live |-> i.live, expired |-> i.expired, max |-> i.max, count |-> i.count,
           reserved |-> i.reserved \ {r}, signed |-> Append(i.signed, r)]
  BY <1>1 DEF Signs
<1>3. /\ j.live = i.live /\ j.max = i.max /\ j.signed = Append(i.signed, r)
      /\ j.reserved = i.reserved \ {r} /\ j.count = i.count
  BY <1>2
<1>4. r \in R /\ i.signed \in Seq(R) /\ IsInjective(i.signed)
  BY <1>1 DEF IsInvite
<1>5. ToSet(Append(i.signed, r)) = ToSet(i.signed) \cup {r}
  BY <1>1, <1>4, QueueFacts
<1> QED
  BY <1>1, <1>3, <1>5 DEF Slots

LEMMA GivenBackFacts ==
    ASSUME NEW i, NEW j, NEW R, IsInvite(i, R), IsFiniteSet(R), NEW r \in i.reserved,
           GivesBack(i, j, r), i.count = Cardinality(Slots(i))
    PROVE  /\ j.live = i.live /\ j.max = i.max /\ j.signed = i.signed
           /\ j.reserved = i.reserved \ {r} /\ j.count <= i.count
           /\ j.count = Cardinality(Slots(j))
<1>1. i \in [live : BOOLEAN, expired : BOOLEAN, max : Nat \cup {Unlimited}, count : Nat,
             reserved : SUBSET R, signed : Seq(R)] /\ r \notin ToSet(i.signed)
  BY DEF IsInvite
<1>2. PICK n : n = IF i.count > 0 THEN i.count - 1 ELSE 0
  OBVIOUS
<1>3. j = [live |-> i.live, expired |-> i.expired, max |-> i.max, count |-> n,
           reserved |-> i.reserved \ {r}, signed |-> i.signed]
  BY <1>1, <1>2 DEF GivesBack
<1>4. /\ j.live = i.live /\ j.max = i.max /\ j.signed = i.signed
      /\ j.reserved = i.reserved \ {r} /\ j.count = n
  BY <1>3
<1>5. Slots(j) = Slots(i) \ {r} /\ r \in Slots(i)
  BY <1>1, <1>4 DEF Slots
<1>6. IsFiniteSet(Slots(i)) /\ Cardinality(Slots(i)) \in Nat
  BY InviteParts
<1>7. Cardinality(Slots(i) \ {r}) = Cardinality(Slots(i)) - 1 /\ Cardinality(Slots(i) \ {r}) \in Nat
  BY <1>5, <1>6, FS_RemoveElement, FS_CardinalityType
<1>8. i.count \in Nat /\ i.count - 1 \in Nat
  BY <1>6, <1>7
<1>9. n = i.count - 1
  BY <1>2, <1>8
<1> QED
  BY <1>4, <1>5, <1>7, <1>8, <1>9

\* A call after a step of its own, the others being as they were.
LEMMA CallAfter ==
    ASSUME NEW C, NEW S, NEW f \in [C -> Calls(S)], NEW c \in C
    PROVE  /\ \A v : /\ [f EXCEPT ![c] = v][c] = v
                     /\ \A d \in C \ {c} : [f EXCEPT ![c] = v][d] = f[d]
           /\ f[c].busy => \A a :
                 /\ [f EXCEPT ![c].ans = a][c].busy
                 /\ [f EXCEPT ![c].ans = a][c].req = f[c].req
                 /\ [f EXCEPT ![c].ans = a][c].own = f[c].own
                 /\ [f EXCEPT ![c].ans = a][c].ans = a
                 /\ \A d \in C \ {c} : [f EXCEPT ![c].ans = a][d] = f[d]
<1>1. ASSUME NEW v
      PROVE  /\ [f EXCEPT ![c] = v][c] = v
             /\ \A d \in C \ {c} : [f EXCEPT ![c] = v][d] = f[d]
  OBVIOUS
<1>2. ASSUME f[c].busy, NEW a
      PROVE  /\ [f EXCEPT ![c].ans = a][c].busy
             /\ [f EXCEPT ![c].ans = a][c].req = f[c].req
             /\ [f EXCEPT ![c].ans = a][c].own = f[c].own
             /\ [f EXCEPT ![c].ans = a][c].ans = a
             /\ \A d \in C \ {c} : [f EXCEPT ![c].ans = a][d] = f[d]
  <2>1. PICK b : b = f[c]
    OBVIOUS
  <2>2. b \in [busy : {TRUE}, req : S, own : BOOLEAN, ans : {"none", "sig", "error"}]
    BY <1>2, <2>1, CallShape
  <2>3. PICK e : e = [b EXCEPT !.ans = a]
    OBVIOUS
  <2>4. e = [busy |-> TRUE, req |-> b.req, own |-> b.own, ans |-> a]
    BY <2>2, <2>3
  <2>5. PICK g : g = [f EXCEPT ![c].ans = a]
    OBVIOUS
  <2>6. g[c] = e /\ \A d \in C \ {c} : g[d] = f[d]
    BY <2>1, <2>3, <2>5
  <2>7. e.busy /\ e.req = b.req /\ e.own = b.own /\ e.ans = a
    BY <2>4
  <2> QED
    BY <2>1, <2>5, <2>6, <2>7
<1> QED
  BY <1>1, <1>2

\* What the types say of a call.
LEMMA CallTyped ==
    ASSUME EnrollTyped, NEW c \in Call
    PROVE  /\ call[c].busy \in BOOLEAN
           /\ call[c].busy => call[c].req \in Enroll!Request /\ call[c].own \in BOOLEAN
           /\ ~call[c].busy => call[c] = [busy |-> FALSE]
<1>1. PICK S : S = Asked(Enroll!Request, app)
  OBVIOUS
<1>2. call \in [Call -> Calls(S)] /\ S \subseteq Enroll!Request
  BY <1>1 DEF EnrollTyped, Typed, Asked
<1>3. /\ call[c].busy \in BOOLEAN
      /\ call[c].busy => call[c] \in [busy : {TRUE}, req : S, own : BOOLEAN, ans : {"none", "sig", "error"}]
      /\ ~call[c].busy => call[c] = [busy |-> FALSE]
  <2>1. call[c] \in Calls(S)
    BY <1>2
  <2>2. CASE call[c] = [busy |-> FALSE]
    BY <2>2
  <2>3. CASE call[c] \in [busy : {TRUE}, req : S, own : BOOLEAN, ans : {"none", "sig", "error"}]
    BY <2>3
  <2> QED
    BY <2>1, <2>2, <2>3 DEF Calls
<1>4. ASSUME call[c].busy PROVE call[c].req \in S /\ call[c].own \in BOOLEAN
  BY <1>3, <1>4
<1> QED
  BY <1>2, <1>3, <1>4

\* Its steps, on the calls there are.
LEMMA CallSteps ==
    ASSUME EnrollTyped, NEW c \in Call
    PROVE  /\ \A v : call' = [call EXCEPT ![c] = v] =>
                 call'[c] = v /\ \A d \in Call \ {c} : call'[d] = call[d]
           /\ \A a : call[c].busy /\ call' = [call EXCEPT ![c].ans = a] =>
                 /\ call'[c].busy /\ call'[c].req = call[c].req /\ call'[c].own = call[c].own
                 /\ call'[c].ans = a
                 /\ \A d \in Call \ {c} : call'[d] = call[d]
<1>1. PICK S : S = Asked(Enroll!Request, app)
  OBVIOUS
<1>2. call \in [Call -> Calls(S)]
  BY <1>1 DEF EnrollTyped, Typed
<1>3. ASSUME NEW v, call' = [call EXCEPT ![c] = v]
      PROVE  call'[c] = v /\ \A d \in Call \ {c} : call'[d] = call[d]
  BY <1>2, <1>3, CallAfter
<1>4. ASSUME NEW a, call[c].busy, call' = [call EXCEPT ![c].ans = a]
      PROVE  /\ call'[c].busy /\ call'[c].req = call[c].req /\ call'[c].own = call[c].own
             /\ call'[c].ans = a
             /\ \A d \in Call \ {c} : call'[d] = call[d]
  <2>1. PICK g : g = [call EXCEPT ![c].ans = a]
    OBVIOUS
  <2>2. /\ g[c].busy /\ g[c].req = call[c].req /\ g[c].own = call[c].own /\ g[c].ans = a
        /\ \A d \in Call \ {c} : g[d] = call[d]
    BY <1>2, <1>4, <2>1, CallAfter
  <2> QED
    BY <1>4, <2>1, <2>2
<1> QED
  BY <1>3, <1>4

LEMMA PromisedFinite ==
    ASSUME EnrollFinite, EnrollTyped
    PROVE  Promised \subseteq Enroll!Request /\ IsFiniteSet(Promised) /\ Cardinality(Promised) \in Nat
<1>1. issued \subseteq Enroll!Request
  BY DEF EnrollTyped, Typed, Asked
<1>2. Promised \subseteq Enroll!Request
  BY <1>1, CallTyped DEF Promised, AtSigner
<1>3. IsFiniteSet(Promised)
  BY <1>2, EnrollFacts, FS_Subset
<1> QED
  BY <1>2, <1>3, FS_CardinalityType

\* What is promised while the invite lives holds a slot of it.
LEMMA PromisedIsCounted ==
    ASSUME EnrollFinite, EnrollTyped, BooksBalance, inv.live
    PROVE  Promised \subseteq Slots(inv) /\ Cardinality(Promised) <= inv.count
<1>1. Promised \subseteq Slots(inv)
  BY DEF BooksBalance, Promised, Slots
<1>2. IsFiniteSet(Slots(inv)) /\ Cardinality(Slots(inv)) \in Nat
  <2>1. PICK R : R = Enroll!Request
    OBVIOUS
  <2>2. IsInvite(inv, R) /\ IsFiniteSet(R)
    BY <2>1, EnrollFacts DEF EnrollTyped, Typed
  <2> QED
    BY <2>2, InviteParts
<1>3. Cardinality(Promised) <= Cardinality(Slots(inv))
  BY <1>1, <1>2, FS_Subset
<1> QED
  BY <1>1, <1>3 DEF BooksBalance

\* A smaller promise is within the same bound.
LEMMA PromisedShrinks ==
    ASSUME EnrollFinite, EnrollTyped, EnrollTyped', Promised' \subseteq Promised
    PROVE  Cardinality(Promised') <= Cardinality(Promised) /\ Cardinality(Promised') \in Nat
<1>1. IsFiniteSet(Promised)
  BY PromisedFinite
<1> QED
  BY <1>1, FS_Subset, FS_CardinalityType

\* A step that leaves the record and what was handed out: a call that reaches the signer asks
\* for a slot the record holds, and none leaves the signer.
LEMMA SameRecord ==
    ASSUME EnrollFinite, EnrollInv, EnrollTyped', OneCallEach', UNCHANGED <<inv, issued, cap, revoked, kills>>,
           \A c \in Call : AtSigner(c)' => \/ AtSigner(c) /\ call'[c].req = call[c].req
                                           \/ inv.live /\ call'[c].req \in inv.reserved,
           \A c \in Call : AtSigner(c) => AtSigner(c)' /\ call'[c] = call[c]
    PROVE  EnrollInv'
<1>1. BooksBalance'
  <2>1. inv' = inv /\ issued' = issued /\ kills' = kills
    OBVIOUS
  <2>2. CASE ~inv.live
    BY <2>1, <2>2 DEF BooksBalance
  <2>3. CASE inv.live
    <3>1. /\ issued = ToSet(inv.signed) /\ inv.count = Cardinality(Slots(inv))
          /\ \A c \in Call : AtSigner(c) => call[c].req \in inv.reserved
          /\ kills = 0 => \A r \in inv.reserved :
                \E c \in Call : AtSigner(c) /\ call[c].own /\ call[c].req = r
      BY <2>3 DEF EnrollInv, BooksBalance
    <3>2. issued' = ToSet(inv'.signed) /\ inv'.count = Cardinality(Slots(inv'))
      BY <2>1, <3>1
    <3>3. \A c \in Call : AtSigner(c)' => call'[c].req \in inv'.reserved
      BY <2>1, <3>1
    <3>4. ASSUME kills' = 0, NEW r \in inv'.reserved
          PROVE  \E c \in Call : AtSigner(c)' /\ call'[c].own /\ call'[c].req = r
      <4>1. PICK c \in Call : AtSigner(c) /\ call[c].own /\ call[c].req = r
        BY <2>1, <3>1, <3>4
      <4> QED
        BY <4>1
    <3> QED
      BY <3>2, <3>3, <3>4 DEF BooksBalance
  <2> QED
    BY <2>2, <2>3
<1>2. NeverOversold'
  <2>1. ASSUME ~inv.live PROVE Promised' \subseteq Promised
    BY <2>1 DEF Promised
  <2>2. ASSUME cap # Unlimited, ~inv.live PROVE Cardinality(Promised') <= cap
    <3>1. Cardinality(Promised') <= Cardinality(Promised) /\ Cardinality(Promised') \in Nat
      BY <2>1, <2>2, PromisedShrinks DEF EnrollInv
    <3>2. Cardinality(Promised) <= cap /\ Cardinality(Promised) \in Nat /\ cap \in Nat
      BY <2>2, PromisedFinite DEF EnrollInv, NeverOversold
    <3> QED
      BY <3>1, <3>2
  <2> QED
    BY <2>2 DEF EnrollInv, NeverOversold
<1> QED
  BY <1>1, <1>2 DEF EnrollInv

LEMMA EnrollInvInit ==
    ASSUME EnrollFinite, Enroll!Init
    PROVE  EnrollInv
<1>1. EnrollTyped
  BY EnrollTypedInit
<1>2. \A c \in Call : call[c] = [busy |-> FALSE] /\ ~call[c].busy
  BY DEF Enroll!Init, Enroll!NoCall
<1>3. OneCallEach
  BY <1>2 DEF OneCallEach
<1>4. /\ inv = [live |-> TRUE, expired |-> FALSE, max |-> FirstMax, count |-> 0, reserved |-> {}, signed |-> <<>>]
      /\ issued = {} /\ cap = FirstMax /\ revoked = FALSE /\ kills = 0
  BY DEF Enroll!Init
<1>5. inv.live /\ inv.max = FirstMax /\ inv.count = 0 /\ inv.reserved = {} /\ inv.signed = <<>>
  BY <1>4
<1>6. ToSet(<<>>) = {} /\ Slots(inv) = {} /\ Cardinality({}) = 0
  <2>1. ToSet(<<>>) = {}
    BY DEF ToSet
  <2> QED
    BY <1>5, <2>1, FS_EmptySet DEF Slots
<1>7. BooksBalance
  BY <1>2, <1>4, <1>5, <1>6 DEF BooksBalance, AtSigner
<1>8. NeverOversold
  <2>1. FirstMax \in Nat \cup {Unlimited}
    BY EnrollFacts
  <2> QED
    BY <1>4, <1>5, <2>1 DEF NeverOversold
<1> QED
  BY <1>1, <1>3, <1>4, <1>5, <1>7, <1>8 DEF EnrollInv

\* A request that was stored is claimed for a new call.
LEMMA ClaimTaken ==
    ASSUME EnrollTyped, OneCallEach, NEW c \in Call, NEW r \in Enroll!Request, ~call[c].busy,
           mbox[r] = "stored", mbox' = [mbox EXCEPT ![r] = "claimed"],
           call'[c].req = r, \A d \in Call \ {c} : call'[d] = call[d]
    PROVE  OneCallEach'
<1>1. mbox \in [Enroll!Request -> {"unsent", "stored", "claimed", "answered"}]
  BY DEF EnrollTyped, Typed
<1>2. \A q \in Enroll!Request : mbox'[q] = IF q = r THEN "claimed" ELSE mbox[q]
  BY <1>1
<1>3. \A d \in Call : call[d].busy => call[d].req \in Enroll!Request /\ mbox[call[d].req] = "claimed"
  BY CallTyped DEF OneCallEach
<1>4. \A d \in Call : call[d].busy => call[d].req # r
  BY <1>3
<1>5. ASSUME NEW d \in Call, call'[d].busy PROVE mbox'[call'[d].req] = "claimed"
  <2>1. CASE d = c
    BY <1>2, <2>1
  <2>2. CASE d # c
    BY <1>2, <1>3, <1>5, <2>2
  <2> QED
    BY <2>1, <2>2
<1>6. ASSUME NEW d \in Call, NEW e \in Call, call'[d].busy, call'[e].busy, call'[d].req = call'[e].req
      PROVE  d = e
  <2>1. CASE d # c /\ e # c
    BY <1>6, <2>1 DEF OneCallEach
  <2>2. CASE d = c /\ e # c
    BY <1>4, <1>6, <2>2
  <2>3. CASE d # c /\ e = c
    BY <1>4, <1>6, <2>3
  <2> QED
    BY <2>1, <2>2, <2>3
<1> QED
  BY <1>5, <1>6 DEF OneCallEach

\* issueInviteCredential before its first await, on a request that the mailbox claims.
LEMMA PickUpKeeps ==
    ASSUME Honoured, EnrollInv, EnrollTyped', NEW c \in Call, NEW r \in Enroll!Request, Enroll!PickUp(c, r)
    PROVE  EnrollInv'
<1>1. EnrollFinite /\ EnrollTyped /\ OneCallEach /\ BooksBalance /\ NeverOversold
  BY DEF Honoured, EnrollInv
<1>2. ~call[c].busy /\ mbox[r] = "stored" /\ UNCHANGED <<revoked, cap, kills>> /\ ~AtSigner(c)
  BY DEF Enroll!PickUp, Enroll!budget, AtSigner
<1>3. CASE mbox' = [mbox EXCEPT ![r] = "answered"] /\ UNCHANGED <<inv, call, issued>>
  <2>1. mbox \in [Enroll!Request -> {"unsent", "stored", "claimed", "answered"}]
    BY <1>1 DEF EnrollTyped, Typed
  <2>2. \A d \in Call : call[d].busy => call[d].req \in Enroll!Request /\ mbox[call[d].req] = "claimed"
    BY <1>1, CallTyped DEF OneCallEach
  <2>3. OneCallEach'
    BY <1>1, <1>2, <1>3, <2>1, <2>2 DEF OneCallEach
  <2>4. \A d \in Call : (AtSigner(d)' <=> AtSigner(d)) /\ call'[d] = call[d]
    BY <1>3 DEF AtSigner
  <2> QED
    BY <1>1, <1>2, <1>3, <2>3, <2>4, SameRecord
<1>4. CASE Enroll!Enter(c, r) /\ mbox' = [mbox EXCEPT ![r] = "claimed"]
  <2>1. PICK own \in BOOLEAN, ans \in {"none", "sig", "error"} :
           /\ call' = [call EXCEPT ![c] = [busy |-> TRUE, req |-> r, own |-> own, ans |-> ans]]
           /\ inv.live
           /\ \/ r \in Enroll!Signed(inv) /\ ans = "sig" /\ inv' = inv /\ issued' = issued \cup {r}
              \/ r \in inv.reserved /\ ans = "none" /\ inv' = inv /\ issued' = issued
              \/ ans = "error" /\ inv' = inv /\ issued' = issued
              \/ /\ r \notin Enroll!Uses(inv) /\ ~Enroll!Spent(inv) /\ ans = "none" /\ own
                 /\ inv' = Enroll!Reserve(inv, r) /\ issued' = issued
    BY <1>4 DEF Enroll!Enter, Enroll!Busy
  <2>2. /\ call'[c] = [busy |-> TRUE, req |-> r, own |-> own, ans |-> ans]
        /\ \A d \in Call \ {c} : call'[d] = call[d]
    BY <1>1, <2>1, CallSteps
  <2>3. call'[c].busy /\ call'[c].req = r /\ call'[c].own = own /\ call'[c].ans = ans
    BY <2>2
  <2>4. OneCallEach'
    BY <1>1, <1>2, <1>4, <2>2, <2>3, ClaimTaken
  <2>5. (AtSigner(c)' <=> ans = "none") /\ \A d \in Call \ {c} : AtSigner(d)' <=> AtSigner(d)
    BY <2>2, <2>3 DEF AtSigner
  <2>6. issued = ToSet(inv.signed) /\ Enroll!Signed(inv) = ToSet(inv.signed) /\ Enroll!Uses(inv) = Slots(inv)
    BY <1>1, <2>1, EnrollLibrary DEF BooksBalance
  <2>7. CASE inv' = inv /\ issued' = issued /\ (ans = "none" => r \in inv.reserved)
    <3>1. ASSUME NEW d \in Call, AtSigner(d)'
          PROVE  \/ AtSigner(d) /\ call'[d].req = call[d].req
                 \/ inv.live /\ call'[d].req \in inv.reserved
      <4>1. CASE d = c
        BY <2>1, <2>3, <2>5, <2>7, <3>1, <4>1
      <4>2. CASE d # c
        BY <2>2, <2>5, <3>1, <4>2
      <4> QED
        BY <4>1, <4>2
    <3>2. ASSUME NEW d \in Call, AtSigner(d) PROVE AtSigner(d)' /\ call'[d] = call[d]
      BY <1>2, <2>2, <2>5, <3>2
    <3> QED
      BY <1>1, <1>2, <2>4, <2>7, <3>1, <3>2, SameRecord
  <2>8. CASE /\ r \notin Enroll!Uses(inv) /\ ~Enroll!Spent(inv) /\ ans = "none" /\ own
             /\ inv' = Enroll!Reserve(inv, r) /\ issued' = issued
    <3>1. PICK R : R = Enroll!Request
      OBVIOUS
    <3>2. IsInvite(inv, R) /\ IsFiniteSet(R) /\ Cardinality(R) <= Retain /\ Retain \in Nat
      BY <1>1, <3>1, EnrollFacts DEF EnrollTyped, Typed, Honoured
    <3>3. r \in R \ Slots(inv) /\ TakesSlot(inv, inv', r)
      BY <2>6, <2>8, <3>1, EnrollLibrary DEF Enroll!Reserve, TakesSlot
    <3>4. /\ inv'.live = inv.live /\ inv'.max = inv.max /\ inv'.signed = inv.signed
          /\ inv'.reserved = inv.reserved \cup {r} /\ inv'.count = inv.count + 1
          /\ Cardinality(Slots(inv')) = Cardinality(Slots(inv)) + 1
      BY <3>2, <3>3, TakenFacts
    <3>5. BooksBalance'
      <4>1. issued' = ToSet(inv'.signed) /\ inv'.count = Cardinality(Slots(inv'))
        BY <1>1, <2>1, <2>6, <2>8, <3>4 DEF BooksBalance
      <4>2. ASSUME NEW d \in Call, AtSigner(d)' PROVE call'[d].req \in inv'.reserved
        <5>1. CASE d = c
          BY <2>3, <3>4, <5>1
        <5>2. CASE d # c
          BY <1>1, <2>1, <2>2, <2>5, <3>4, <4>2, <5>2 DEF BooksBalance
        <5> QED
          BY <5>1, <5>2
      <4>3. ASSUME kills' = 0, NEW q \in inv'.reserved
            PROVE  \E d \in Call : AtSigner(d)' /\ call'[d].own /\ call'[d].req = q
        <5>1. CASE q = r
          BY <2>3, <2>5, <2>8, <5>1
        <5>2. CASE q # r
          <6>1. PICK d \in Call : AtSigner(d) /\ call[d].own /\ call[d].req = q
            BY <1>1, <1>2, <2>1, <3>4, <4>3, <5>2 DEF BooksBalance
          <6>2. d # c
            BY <1>2, <6>1
          <6> QED
            BY <2>2, <2>5, <6>1, <6>2
        <5> QED
          BY <5>1, <5>2
      <4> QED
        BY <4>1, <4>2, <4>3 DEF BooksBalance
    <3>6. NeverOversold'
      <4>1. ASSUME cap # Unlimited PROVE inv'.count <= cap
        <5>1. inv.max \in Nat /\ inv.max <= cap /\ cap \in Nat /\ inv.count \in Nat
          BY <1>1, <3>2, <4>1, InviteParts DEF NeverOversold
        <5>2. inv.max # Unlimited
          BY <1>1, <5>1 DEF EnrollFinite, Enroll!EnrollmentAssumption
        <5>3. ~(inv.count >= inv.max)
          BY <2>8, <5>2 DEF Enroll!Spent, Enroll!Full
        <5> QED
          BY <3>4, <5>1, <5>3
      <4> QED
        BY <1>1, <1>2, <2>1, <3>4, <4>1 DEF NeverOversold
    <3> QED
      BY <1>2, <2>1, <2>4, <3>4, <3>5, <3>6 DEF EnrollInv
  <2> QED
    BY <2>1, <2>6, <2>7, <2>8
<1> QED
  BY <1>3, <1>4 DEF Enroll!PickUp

\* An invite that is gone stays gone: what was promised is at most handed out.
LEMMA GoneKeeps ==
    ASSUME EnrollFinite, EnrollInv, EnrollTyped', OneCallEach', ~inv.live,
           UNCHANGED <<inv, cap, revoked>>, kills' \in Nat, Promised' \subseteq Promised
    PROVE  EnrollInv'
<1>1. BooksBalance'
  BY DEF BooksBalance
<1>2. ASSUME cap # Unlimited PROVE Cardinality(Promised') <= cap
  <2>1. Cardinality(Promised') <= Cardinality(Promised) /\ Cardinality(Promised') \in Nat
    BY PromisedShrinks DEF EnrollInv
  <2>2. Cardinality(Promised) <= cap /\ Cardinality(Promised) \in Nat /\ cap \in Nat
    BY <1>2, PromisedFinite DEF EnrollInv, NeverOversold
  <2> QED
    BY <2>1, <2>2
<1>3. NeverOversold'
  BY <1>2 DEF EnrollInv, NeverOversold
<1> QED
  BY <1>1, <1>3 DEF EnrollInv

\* The signer answered, or threw: no claim changes hands.
LEMMA SignerKeepsClaims ==
    ASSUME EnrollTyped, OneCallEach, NEW c \in Call, call[c].busy, mbox' = mbox,
           call'[c].busy, call'[c].req = call[c].req, \A d \in Call \ {c} : call'[d] = call[d]
    PROVE  OneCallEach'
<1>1. \A d \in Call : (call'[d].busy => call[d].busy) /\ call'[d].req = call[d].req
  OBVIOUS
<1> QED
  BY <1>1 DEF OneCallEach

LEMMA SignOkKeeps ==
    ASSUME Honoured, EnrollInv, EnrollTyped', NEW c \in Call, Enroll!SignOk(c)
    PROVE  EnrollInv'
<1>1. EnrollFinite /\ EnrollTyped /\ OneCallEach /\ BooksBalance /\ NeverOversold
  BY DEF Honoured, EnrollInv
<1>2. /\ call[c].busy /\ call[c].ans = "none" /\ AtSigner(c) /\ mbox' = mbox
      /\ call' = [call EXCEPT ![c].ans = "sig"]
      /\ issued' = issued \cup {call[c].req} /\ UNCHANGED <<revoked, cap, kills>>
      /\ inv' = IF inv.live /\ call[c].req \notin Enroll!Signed(inv)
                THEN Enroll!Finalised(inv, call[c].req) ELSE inv
  BY DEF Enroll!SignOk, Enroll!Signing, Enroll!budget, AtSigner
<1>3. /\ call'[c].busy /\ call'[c].req = call[c].req /\ call'[c].ans = "sig"
      /\ \A d \in Call \ {c} : call'[d] = call[d]
  BY <1>1, <1>2, CallSteps
<1>4. OneCallEach'
  BY <1>1, <1>2, <1>3, SignerKeepsClaims
<1>5. ~AtSigner(c)' /\ \A d \in Call \ {c} : AtSigner(d)' <=> AtSigner(d)
  BY <1>3 DEF AtSigner
<1>6. CASE ~inv.live
  <2>1. Promised' \subseteq Promised
    BY <1>2, <1>3, <1>5 DEF Promised
  <2> QED
    BY <1>1, <1>2, <1>4, <1>6, <2>1, GoneKeeps DEF EnrollInv
<1>7. CASE inv.live
  <2>1. PICK R : R = Enroll!Request
    OBVIOUS
  <2>2. IsInvite(inv, R) /\ IsFiniteSet(R)
    BY <1>1, <2>1, EnrollFacts DEF EnrollTyped, Typed
  <2>3. PICK r \in inv.reserved : r = call[c].req
    BY <1>1, <1>2, <1>7 DEF BooksBalance
  <2>4. r \notin ToSet(inv.signed)
    BY <2>2, <2>3 DEF IsInvite
  <2>5. Signs(inv, inv', r)
    BY <1>2, <1>7, <2>3, <2>4, EnrollLibrary DEF Enroll!Finalised, Signs
  <2>6. /\ inv'.live = inv.live /\ inv'.max = inv.max /\ inv'.count = inv.count
        /\ inv'.reserved = inv.reserved \ {r} /\ ToSet(inv'.signed) = ToSet(inv.signed) \cup {r}
        /\ Slots(inv') = Slots(inv)
    BY <2>2, <2>5, SignedFacts
  <2>7. BooksBalance'
    <3>1. issued' = ToSet(inv'.signed) /\ inv'.count = Cardinality(Slots(inv'))
      BY <1>1, <1>2, <1>7, <2>3, <2>6 DEF BooksBalance
    <3>2. ASSUME NEW d \in Call, AtSigner(d)' PROVE call'[d].req \in inv'.reserved
      <4>1. d # c /\ AtSigner(d) /\ call'[d] = call[d]
        BY <1>3, <1>5, <3>2
      <4>2. call[d].req \in inv.reserved
        BY <1>1, <1>7, <4>1 DEF BooksBalance
      <4>3. call[d].req # r
        BY <1>1, <1>2, <2>3, <4>1 DEF OneCallEach, AtSigner
      <4> QED
        BY <2>6, <4>1, <4>2, <4>3
    <3>3. ASSUME kills' = 0, NEW q \in inv'.reserved
          PROVE  \E d \in Call : AtSigner(d)' /\ call'[d].own /\ call'[d].req = q
      <4>1. PICK d \in Call : AtSigner(d) /\ call[d].own /\ call[d].req = q
        BY <1>1, <1>2, <1>7, <2>6, <3>3 DEF BooksBalance
      <4>2. d # c
        BY <2>3, <2>6, <3>3, <4>1
      <4> QED
        BY <1>3, <1>5, <4>1, <4>2
    <3> QED
      BY <3>1, <3>2, <3>3 DEF BooksBalance
  <2>8. NeverOversold'
    BY <1>1, <1>2, <1>7, <2>6 DEF NeverOversold
  <2> QED
    BY <1>2, <1>4, <1>7, <2>6, <2>7, <2>8 DEF EnrollInv
<1> QED
  BY <1>6, <1>7

LEMMA SignFailKeeps ==
    ASSUME Honoured, EnrollInv, EnrollTyped', NEW c \in Call, Enroll!SignFail(c)
    PROVE  EnrollInv'
<1>1. EnrollFinite /\ EnrollTyped /\ OneCallEach /\ BooksBalance /\ NeverOversold
  BY DEF Honoured, EnrollInv
<1>2. /\ call[c].busy /\ call[c].ans = "none" /\ AtSigner(c) /\ mbox' = mbox
      /\ call' = [call EXCEPT ![c].ans = "error"]
      /\ UNCHANGED <<issued, revoked, cap, kills>>
      /\ inv' = IF call[c].own /\ inv.live /\ call[c].req \in inv.reserved
                THEN Enroll!RolledBack(inv, call[c].req) ELSE inv
  BY DEF Enroll!SignFail, Enroll!Signing, AtSigner
<1>3. /\ call'[c].busy /\ call'[c].req = call[c].req /\ call'[c].ans = "error"
      /\ \A d \in Call \ {c} : call'[d] = call[d]
  BY <1>1, <1>2, CallSteps
<1>4. OneCallEach'
  BY <1>1, <1>2, <1>3, SignerKeepsClaims
<1>5. ~AtSigner(c)' /\ \A d \in Call \ {c} : AtSigner(d)' <=> AtSigner(d)
  BY <1>3 DEF AtSigner
<1>6. CASE ~inv.live
  <2>1. Promised' \subseteq Promised
    BY <1>2, <1>3, <1>5 DEF Promised
  <2> QED
    BY <1>1, <1>2, <1>4, <1>6, <2>1, GoneKeeps DEF EnrollInv
<1>7. CASE inv.live
  <2>1. PICK R : R = Enroll!Request
    OBVIOUS
  <2>2. IsInvite(inv, R) /\ IsFiniteSet(R)
    BY <1>1, <2>1, EnrollFacts DEF EnrollTyped, Typed
  <2>3. PICK r \in inv.reserved : r = call[c].req
    BY <1>1, <1>2, <1>7 DEF BooksBalance
  <2>4. CASE call[c].own
    <3>1. GivesBack(inv, inv', r)
      BY <1>2, <1>7, <2>3, <2>4 DEF Enroll!RolledBack, GivesBack
    <3>2. /\ inv'.live = inv.live /\ inv'.max = inv.max /\ inv'.signed = inv.signed
          /\ inv'.reserved = inv.reserved \ {r} /\ inv'.count <= inv.count
          /\ inv'.count = Cardinality(Slots(inv'))
      BY <1>1, <1>7, <2>2, <3>1, GivenBackFacts DEF BooksBalance
    <3>3. BooksBalance'
      <4>1. issued' = ToSet(inv'.signed)
        BY <1>1, <1>2, <1>7, <3>2 DEF BooksBalance
      <4>2. ASSUME NEW d \in Call, AtSigner(d)' PROVE call'[d].req \in inv'.reserved
        <5>1. d # c /\ AtSigner(d) /\ call'[d] = call[d]
          BY <1>3, <1>5, <4>2
        <5>2. call[d].req \in inv.reserved
          BY <1>1, <1>7, <5>1 DEF BooksBalance
        <5>3. call[d].req # r
          BY <1>1, <1>2, <2>3, <5>1 DEF OneCallEach, AtSigner
        <5> QED
          BY <3>2, <5>1, <5>2, <5>3
      <4>3. ASSUME kills' = 0, NEW q \in inv'.reserved
            PROVE  \E d \in Call : AtSigner(d)' /\ call'[d].own /\ call'[d].req = q
        <5>1. PICK d \in Call : AtSigner(d) /\ call[d].own /\ call[d].req = q
          BY <1>1, <1>2, <1>7, <3>2, <4>3 DEF BooksBalance
        <5>2. d # c
          BY <2>3, <3>2, <4>3, <5>1
        <5> QED
          BY <1>3, <1>5, <5>1, <5>2
      <4> QED
        BY <3>2, <4>1, <4>2, <4>3 DEF BooksBalance
    <3>4. NeverOversold'
      <4>1. inv.count \in Nat /\ inv'.count \in Nat
        <5>1. inv.count \in Nat
          BY <2>2, InviteParts
        <5>2. IsInvite(inv', R)
          BY <2>1 DEF EnrollTyped, Typed, Enroll!Request
        <5> QED
          BY <2>2, <5>1, <5>2, InviteParts
      <4>2. ASSUME cap # Unlimited PROVE inv'.count <= cap
        <5>1. inv.count <= cap /\ cap \in Nat
          BY <1>1, <1>7, <4>2 DEF NeverOversold
        <5> QED
          BY <3>2, <4>1, <5>1
      <4> QED
        BY <1>1, <1>2, <1>7, <3>2, <4>2 DEF NeverOversold
    <3> QED
      BY <1>2, <1>4, <1>7, <3>2, <3>3, <3>4 DEF EnrollInv
  <2>5. CASE ~call[c].own
    <3>1. inv' = inv
      BY <1>2, <2>5
    <3>2. BooksBalance'
      <4>1. issued' = ToSet(inv'.signed) /\ inv'.count = Cardinality(Slots(inv'))
        BY <1>1, <1>2, <1>7, <3>1 DEF BooksBalance
      <4>2. \A d \in Call : AtSigner(d)' => call'[d].req \in inv'.reserved
        BY <1>1, <1>3, <1>5, <1>7, <3>1 DEF BooksBalance
      <4>3. kills' # 0
        <5>1. SUFFICES ASSUME kills = 0 PROVE FALSE
          BY <1>2
        <5>2. PICK d \in Call : AtSigner(d) /\ call[d].own /\ call[d].req = r
          BY <1>1, <1>7, <5>1 DEF BooksBalance
        <5>3. d = c
          BY <1>1, <1>2, <2>3, <5>2 DEF OneCallEach, AtSigner
        <5> QED
          BY <2>5, <5>2, <5>3
      <4> QED
        BY <4>1, <4>2, <4>3 DEF BooksBalance
    <3>3. NeverOversold'
      BY <1>1, <1>2, <1>7, <3>1 DEF NeverOversold
    <3> QED
      BY <1>2, <1>4, <1>7, <3>1, <3>2, <3>3 DEF EnrollInv
  <2> QED
    BY <2>4, <2>5
<1> QED
  BY <1>6, <1>7

\* The answer is sent: the request's claim ends, whichever way.
LEMMA SendKeeps ==
    ASSUME Honoured, EnrollInv, EnrollTyped', NEW c \in Call, NEW kept \in BOOLEAN, NEW oked \in BOOLEAN,
           Enroll!Send(c, kept, oked)
    PROVE  EnrollInv'
<1>1. EnrollFinite /\ EnrollTyped /\ OneCallEach
  BY DEF Honoured, EnrollInv
<1>2. /\ call[c].busy /\ ~AtSigner(c) /\ call' = [call EXCEPT ![c] = [busy |-> FALSE]]
      /\ UNCHANGED <<inv, issued, revoked, cap, kills>>
      /\ mbox' = [mbox EXCEPT ![call[c].req] = IF oked THEN "answered" ELSE "stored"]
  BY DEF Enroll!Send, Enroll!Signing, Enroll!NoCall, Enroll!budget, AtSigner
<1>3. call'[c] = [busy |-> FALSE] /\ \A d \in Call \ {c} : call'[d] = call[d]
  BY <1>1, <1>2, CallSteps
<1>4. ~call'[c].busy
  BY <1>3
<1>5. mbox \in [Enroll!Request -> {"unsent", "stored", "claimed", "answered"}]
  BY <1>1 DEF EnrollTyped, Typed
<1>6. OneCallEach'
  <2>1. ASSUME NEW d \in Call, call'[d].busy PROVE mbox'[call'[d].req] = "claimed"
    <3>1. d # c /\ call'[d] = call[d] /\ call[d].busy
      BY <1>3, <1>4, <2>1
    <3>2. call[d].req # call[c].req /\ mbox[call[d].req] = "claimed"
      BY <1>1, <1>2, <3>1 DEF OneCallEach
    <3>3. call[d].req \in Enroll!Request
      BY <1>1, <3>1, CallTyped
    <3> QED
      BY <1>2, <1>5, <3>1, <3>2, <3>3
  <2>2. \A d, e \in Call : call'[d].busy /\ call'[e].busy /\ call'[d].req = call'[e].req => d = e
    BY <1>1, <1>3, <1>4 DEF OneCallEach
  <2> QED
    BY <2>1, <2>2 DEF OneCallEach
<1>7. \A d \in Call : /\ AtSigner(d)' => AtSigner(d) /\ call'[d].req = call[d].req
                      /\ AtSigner(d) => AtSigner(d)' /\ call'[d] = call[d]
  BY <1>2, <1>3, <1>4 DEF AtSigner
<1> QED
  BY <1>1, <1>2, <1>6, <1>7, SameRecord

\* The process dies: reserved slots lose their calls, and stay counted.
LEMMA KillKeeps ==
    ASSUME Honoured, EnrollInv, EnrollTyped', Enroll!Kill
    PROVE  EnrollInv'
<1>1. EnrollFinite /\ EnrollTyped /\ BooksBalance /\ NeverOversold /\ kills \in Nat
  BY DEF Honoured, EnrollInv
<1>2. /\ \A c \in Call : call'[c] = [busy |-> FALSE]
      /\ kills' = kills + 1 /\ UNCHANGED <<inv, issued, revoked, cap>>
  BY DEF Enroll!Kill, Enroll!NoCall
<1>3. \A c \in Call : ~call'[c].busy /\ ~AtSigner(c)'
  BY <1>2 DEF AtSigner
<1>4. OneCallEach'
  BY <1>3 DEF OneCallEach
<1>5. kills' \in Nat /\ kills' # 0
  BY <1>1, <1>2
<1>6. CASE inv.live
  <2>1. BooksBalance'
    BY <1>1, <1>2, <1>3, <1>5, <1>6 DEF BooksBalance
  <2>2. NeverOversold'
    BY <1>1, <1>2, <1>6 DEF NeverOversold
  <2> QED
    BY <1>2, <1>4, <1>5, <1>6, <2>1, <2>2 DEF EnrollInv
<1>7. CASE ~inv.live
  <2>1. Promised' \subseteq Promised
    BY <1>2, <1>3 DEF Promised
  <2> QED
    BY <1>1, <1>2, <1>4, <1>5, <1>7, <2>1, GoneKeeps
<1> QED
  BY <1>6, <1>7

\* The organizer's dashboard: a cap or an expiry changes, or the invite is deleted.
LEMMA DashboardKeeps ==
    ASSUME Honoured, EnrollInv, EnrollTyped', Enroll!Dashboard
    PROVE  EnrollInv'
<1>1. /\ EnrollFinite /\ EnrollTyped /\ OneCallEach /\ BooksBalance /\ NeverOversold /\ kills \in Nat
      /\ ~Purging
  BY DEF Honoured, EnrollInv
<1>2. inv.live /\ UNCHANGED <<call, mbox, issued, kills>>
  BY DEF Enroll!Dashboard, Enroll!Expire, Enroll!Revoke, Enroll!Purge, Enroll!Patch, Enroll!budget
<1>3. OneCallEach' /\ \A c \in Call : (AtSigner(c)' <=> AtSigner(c)) /\ call'[c] = call[c]
  BY <1>1, <1>2 DEF OneCallEach, AtSigner
<1>4. PICK R : R = Enroll!Request
  OBVIOUS
<1>5. IsInvite(inv, R) /\ IsFiniteSet(R)
  BY <1>1, <1>4, EnrollFacts DEF EnrollTyped, Typed
<1>6. inv \in [live : BOOLEAN, expired : BOOLEAN, max : Nat \cup {Unlimited}, count : Nat,
               reserved : SUBSET R, signed : Seq(R)]
  BY <1>5 DEF IsInvite
<1>7. ASSUME /\ inv'.live = inv.live /\ inv'.count = inv.count /\ inv'.reserved = inv.reserved
             /\ inv'.signed = inv.signed,
             NeverOversold', revoked' = revoked
      PROVE  EnrollInv'
  <2>1. Slots(inv') = Slots(inv)
    BY <1>7 DEF Slots
  <2>2. BooksBalance'
    BY <1>1, <1>2, <1>3, <1>7, <2>1 DEF BooksBalance
  <2> QED
    BY <1>1, <1>2, <1>3, <1>7, <2>2 DEF EnrollInv
<1>8. ASSUME NEW e \in BOOLEAN, inv' = [inv EXCEPT !.expired = e], UNCHANGED <<cap, revoked>>
      PROVE  EnrollInv'
  <2>1. inv' = [live |-> inv.live, expired |-> e, max |-> inv.max, count |-> inv.count,
                reserved |-> inv.reserved, signed |-> inv.signed]
    BY <1>6, <1>8
  <2>2. /\ inv'.live = inv.live /\ inv'.count = inv.count /\ inv'.reserved = inv.reserved
        /\ inv'.signed = inv.signed /\ inv'.max = inv.max
    BY <2>1
  <2>3. NeverOversold'
    BY <1>1, <1>2, <1>8, <2>2 DEF NeverOversold
  <2> QED
    BY <1>7, <1>8, <2>2, <2>3
<1>9. ASSUME NEW m \in NextMax, inv' = [inv EXCEPT !.max = m], cap' = Enroll!Larger(cap, m), revoked' = revoked
      PROVE  EnrollInv'
  <2>1. inv' = [live |-> inv.live, expired |-> inv.expired, max |-> m, count |-> inv.count,
                reserved |-> inv.reserved, signed |-> inv.signed]
    BY <1>6, <1>9
  <2>2. /\ inv'.live = inv.live /\ inv'.count = inv.count /\ inv'.reserved = inv.reserved
        /\ inv'.signed = inv.signed /\ inv'.max = m
    BY <2>1
  <2>3. /\ m \in Nat \cup {Unlimited} /\ Unlimited \notin Nat /\ cap \in Nat \cup {Unlimited}
        /\ inv.count \in Nat
    BY <1>1, <1>6, EnrollFacts DEF NeverOversold, EnrollFinite, Enroll!EnrollmentAssumption
  <2>4. /\ cap' \in Nat \cup {Unlimited}
        /\ cap' # Unlimited => m \in Nat /\ cap \in Nat /\ m <= cap' /\ cap <= cap' /\ cap # Unlimited
    BY <1>9, <2>3 DEF Enroll!Larger
  <2>5. ASSUME cap' # Unlimited PROVE m \in Nat /\ m <= cap' /\ inv.count <= cap'
    <3>1. inv.count <= cap
      BY <1>1, <1>2, <2>4, <2>5 DEF NeverOversold
    <3> QED
      BY <2>3, <2>4, <2>5, <3>1
  <2>6. NeverOversold'
    BY <1>2, <2>2, <2>4, <2>5 DEF NeverOversold
  <2> QED
    BY <1>7, <1>9, <2>2, <2>6
<1>10. CASE Enroll!Revoke
  <2>1. inv' = Enroll!Gone /\ revoked' = TRUE /\ cap' = cap
    BY <1>10 DEF Enroll!Revoke
  <2>2. inv' = [live |-> FALSE, expired |-> inv.expired, max |-> inv.max, count |-> 0,
                reserved |-> {}, signed |-> <<>>]
    BY <1>6, <2>1 DEF Enroll!Gone
  <2>3. ~inv'.live /\ inv'.max = inv.max
    BY <2>2
  <2>4. Promised' = Promised
    BY <1>2, <1>3 DEF Promised
  <2>5. ASSUME cap # Unlimited PROVE Cardinality(Promised') <= cap
    <3>1. Cardinality(Promised) <= inv.count /\ Cardinality(Promised) \in Nat
      BY <1>1, <1>2, PromisedIsCounted, PromisedFinite
    <3>2. inv.count <= cap /\ cap \in Nat /\ inv.count \in Nat
      BY <1>1, <1>2, <1>6, <2>5 DEF NeverOversold
    <3> QED
      BY <2>4, <3>1, <3>2
  <2>6. NeverOversold' /\ BooksBalance'
    BY <1>1, <2>1, <2>3, <2>5 DEF NeverOversold, BooksBalance
  <2> QED
    BY <1>1, <1>2, <1>3, <2>1, <2>6 DEF EnrollInv
<1>11. CASE Enroll!Expire
  BY <1>8, <1>11 DEF Enroll!Expire
<1>12. ASSUME NEW m \in NextMax, Enroll!Patch(m) PROVE EnrollInv'
  BY <1>8, <1>9, <1>12 DEF Enroll!Patch
<1> QED
  BY <1>1, <1>10, <1>11, <1>12 DEF Enroll!Dashboard, Enroll!Purge

\* The members' steps, and none at all: no claim, call or record changes.
LEMMA MembersKeep ==
    ASSUME Honoured, EnrollInv, EnrollTyped', Enroll!Client \/ UNCHANGED Enroll!vars
    PROVE  EnrollInv'
<1>1. EnrollFinite /\ EnrollTyped /\ OneCallEach
  BY DEF Honoured, EnrollInv
<1>2. UNCHANGED <<inv, call, issued, revoked, cap, kills>>
  BY DEF Enroll!Client, Enroll!Start, Enroll!Open, Enroll!Lose, Enroll!Refused, Enroll!Receive,
         Enroll!AppKill, Enroll!budget, Enroll!vars
<1>3. \A q \in Enroll!Request : mbox[q] = "claimed" => mbox'[q] = "claimed"
  <2>1. mbox \in [Enroll!Request -> {"unsent", "stored", "claimed", "answered"}]
    BY <1>1 DEF EnrollTyped, Typed
  <2>2. \/ mbox' = mbox
        \/ \E q : mbox' = [mbox EXCEPT ![q] = IF @ = "unsent" THEN "stored" ELSE @]
    BY DEF Enroll!Client, Enroll!Start, Enroll!Open, Enroll!Lose, Enroll!Refused, Enroll!Receive,
           Enroll!AppKill, Enroll!vars
  <2> QED
    BY <2>1, <2>2
<1>4. OneCallEach'
  <2>1. \A c \in Call : call[c].busy => call[c].req \in Enroll!Request
    BY <1>1, CallTyped
  <2> QED
    BY <1>1, <1>2, <1>3, <2>1 DEF OneCallEach
<1>5. \A c \in Call : (AtSigner(c)' <=> AtSigner(c)) /\ call'[c] = call[c]
  BY <1>2 DEF AtSigner
<1> QED
  BY <1>1, <1>2, <1>4, <1>5, SameRecord

LEMMA EnrollInvNext ==
    ASSUME Honoured, EnrollInv, [Enroll!Next]_Enroll!vars
    PROVE  EnrollInv'
<1>1. EnrollTyped'
  BY EnrollTypedNext DEF Honoured, EnrollInv
<1>2. CASE Enroll!Organizer
  <2>1. ASSUME NEW c \in Call, Enroll!Shown(c) PROVE FALSE
    BY <2>1 DEF Honoured, Enroll!Shown
  <2>2. ASSUME NEW c \in Call, NEW r \in Enroll!Request, Enroll!Paste(c, r) PROVE FALSE
    BY <2>2 DEF Honoured, Enroll!Paste
  <2> QED
    BY <1>1, <1>2, <2>1, <2>2, SignOkKeeps, SignFailKeeps, PickUpKeeps, SendKeeps, KillKeeps
    DEF Enroll!Organizer
<1> QED
  BY <1>1, <1>2, DashboardKeeps, MembersKeep DEF Enroll!Next

\* What the run checks of an invite follows.
LEMMA EnrollInvSound ==
    ASSUME EnrollFinite, EnrollInv
    PROVE  Enroll!WithinCapacity /\ Enroll!CountExact /\ Enroll!EarnedRecoverable
<1>1. EnrollTyped /\ BooksBalance /\ NeverOversold
  BY DEF EnrollInv
<1>2. issued \subseteq Promised /\ IsFiniteSet(Promised) /\ Cardinality(Promised) \in Nat
  BY <1>1, PromisedFinite DEF Promised
<1>3. Cardinality(issued) <= Cardinality(Promised) /\ Cardinality(issued) \in Nat
  BY <1>2, FS_Subset, FS_CardinalityType
<1>4. ASSUME cap # Unlimited PROVE Cardinality(issued) <= cap
  <2>1. cap \in Nat
    BY <1>1, <1>4 DEF NeverOversold
  <2>2. CASE ~inv.live
    <3>1. Cardinality(Promised) <= cap
      BY <1>1, <1>4, <2>2 DEF NeverOversold
    <3> QED
      BY <1>2, <1>3, <2>1, <3>1
  <2>3. CASE inv.live
    <3>1. Cardinality(Promised) <= inv.count /\ inv.count <= cap
      BY <1>1, <1>4, <2>3, PromisedIsCounted DEF NeverOversold
    <3>2. inv.count \in Nat
      BY <1>1 DEF EnrollTyped, Typed, IsInvite
    <3> QED
      BY <1>2, <1>3, <2>1, <3>1, <3>2
  <2> QED
    BY <2>2, <2>3
<1>5. Enroll!WithinCapacity
  BY <1>4, EnrollLibrary DEF Enroll!WithinCapacity
<1>6. Enroll!CountExact
  <2>1. SUFFICES ASSUME inv.live, kills = 0, \A c \in Call : ~call[c].busy
                 PROVE  inv.count = Cardinality(issued)
    BY EnrollLibrary DEF Enroll!CountExact
  <2>2. inv.reserved = {}
    BY <1>1, <2>1 DEF BooksBalance, AtSigner
  <2>3. Slots(inv) = issued
    BY <1>1, <2>1, <2>2 DEF Slots, BooksBalance
  <2> QED
    BY <1>1, <2>1, <2>3 DEF BooksBalance
<1>7. Enroll!EarnedRecoverable
  <2>1. ASSUME ~revoked, NEW r \in issued PROVE inv.live /\ r \in Slots(inv)
    BY <1>1, <2>1 DEF EnrollInv, BooksBalance, Slots
  <2> QED
    BY <2>1, EnrollLibrary DEF Enroll!EarnedRecoverable, Enroll!Served
<1> QED
  BY <1>5, <1>6, <1>7
=============================================================================
