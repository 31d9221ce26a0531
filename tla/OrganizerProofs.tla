-------------------------- MODULE OrganizerProofs --------------------------
(***************************************************************************)
(* Theorems about the organizer's server, for every value of its           *)
(* parameters.  Each component has an inductive invariant, stated over the *)
(* component's own instance; the theorems at the end carry them over to    *)
(* the specification that the run organizer checks.                        *)
(***************************************************************************)
EXTENDS IssuanceProofs

----------------------------------------------------------------------------
(* The library's operators mean the same inside an instance.                *)

LEMMA DrawLibrary ==
    /\ \A S : Draw!Cardinality(S) = Cardinality(S)
    /\ \A s : Draw!ToSet(s) = ToSet(s)
    /\ \A f : Draw!IsInjective(f) <=> IsInjective(f)
<1>1. \A S : Draw!Cardinality(S) = Cardinality(S)
  BY DEF Draw!Cardinality, Cardinality
<1>2. \A s : Draw!ToSet(s) = ToSet(s)
  BY DEF Draw!ToSet, ToSet
<1>3. \A f : Draw!IsInjective(f) <=> IsInjective(f)
  BY DEF Draw!IsInjective, IsInjective
<1> QED
  BY <1>1, <1>2, <1>3

LEMMA LargerOfTwo ==
    ASSUME NEW a \in Nat, NEW b \in Nat
    PROVE  Draw!Max({a, b}) \in Nat /\ Draw!Max({a, b}) >= a /\ Draw!Max({a, b}) >= b
<1>1. \E x \in {a, b} : \A y \in {a, b} : x >= y
  OBVIOUS
<1>2. Draw!Max({a, b}) \in {a, b} /\ \A y \in {a, b} : Draw!Max({a, b}) >= y
  BY <1>1 DEF Draw!Max
<1> QED
  BY <1>2

----------------------------------------------------------------------------
(* DrawQuota: what a draw counts.                                           *)

\* The organizer's settings: draws.json can be written, and there are finitely many requests.
Writable == Draw!DrawAssumption /\ ~DiskFails /\ IsFiniteSet(Req)

\* What a request is.
LEMMA BodyFacts ==
    ASSUME Writable, NEW r \in Req
    PROVE  /\ Body[r].cred \in Cred /\ Body[r].size \in Nat
           /\ Body[r].purpose \in Draw!Purpose => BucketOf[Body[r].purpose] \in Bucket
BY DEF Writable, Draw!DrawAssumption, Draw!BodyType

\* Sizes are additive: a set of requests has as many tokens as its parts.
LEMMA SizeFacts ==
    ASSUME Writable
    PROVE  /\ Draw!SizeOf({}) = 0
           /\ \A S \in SUBSET Req : Draw!SizeOf(S) \in Nat
           /\ \A S \in SUBSET Req : \A T \in SUBSET S : Draw!SizeOf(T) <= Draw!SizeOf(S)
           /\ \A S \in SUBSET Req : \A r \in Req \ S :
                 Draw!SizeOf(S \cup {r}) = Draw!SizeOf(S) + Body[r].size
<1> DEFINE T(r) == {r} \X (1..Body[r].size)
<1>1. \A S : Draw!SizeOf(S) = Cardinality(Draw!TokensOf(S))
  BY DrawLibrary DEF Draw!SizeOf
<1>2. ASSUME NEW r \in Req PROVE IsFiniteSet(T(r)) /\ Cardinality(T(r)) = Body[r].size
  <2>1. Body[r].size \in Nat
    BY BodyFacts
  <2>2. IsFiniteSet(1..Body[r].size) /\ Cardinality(1..Body[r].size) = Body[r].size
    <3> DEFINE n == Body[r].size
    <3>1. n \in Nat /\ n \in Int /\ 1 \in Int
      BY <2>1
    <3> HIDE DEF n
    <3>2. IsFiniteSet(1..n) /\ Cardinality(1..n) = IF 1 > n THEN 0 ELSE n - 1 + 1
      BY <3>1, FS_Interval
    <3>3. Cardinality(1..n) = n
      BY <3>1, <3>2
    <3> QED
      BY <3>2, <3>3 DEF n
  <2>3. IsFiniteSet({r}) /\ Cardinality({r}) = 1
    BY FS_Singleton
  <2>4. /\ IsFiniteSet({r} \X (1..Body[r].size))
        /\ Cardinality({r} \X (1..Body[r].size)) = Cardinality({r}) * Cardinality(1..Body[r].size)
    BY <2>2, <2>3, FS_Product
  <2> QED
    BY <2>1, <2>2, <2>3, <2>4
<1>3. ASSUME NEW S \in SUBSET Req PROVE IsFiniteSet(Draw!TokensOf(S))
  <2> DEFINE R == {T(r) : r \in S}
             f == [r \in S |-> T(r)]
  <2>1. IsFiniteSet(S)
    BY FS_Subset DEF Writable
  <2>2. f \in Surjection(S, R)
    BY DEF Surjection
  <2>3. IsFiniteSet(R)
    <3> HIDE DEF R, f
    <3> QED BY <2>1, <2>2, FS_Surjection
  <2>4. \A X \in R : IsFiniteSet(X)
    BY <1>2
  <2>5. Draw!TokensOf(S) = UNION R
    BY DEF Draw!TokensOf
  <2> HIDE DEF R
  <2> QED
    BY <2>3, <2>4, <2>5, FS_UNION
<1>4. Draw!SizeOf({}) = 0
  <2>1. Draw!TokensOf({}) = {}
    BY DEF Draw!TokensOf
  <2> QED
    BY <1>1, <2>1, FS_EmptySet
<1>5. \A S \in SUBSET Req : Draw!SizeOf(S) \in Nat
  BY <1>1, <1>3, FS_CardinalityType
<1>6. ASSUME NEW S \in SUBSET Req, NEW U \in SUBSET S PROVE Draw!SizeOf(U) <= Draw!SizeOf(S)
  <2>1. Draw!TokensOf(U) \in SUBSET Draw!TokensOf(S)
    BY DEF Draw!TokensOf
  <2> QED
    BY <1>1, <1>3, <2>1, FS_Subset
<1>7. ASSUME NEW S \in SUBSET Req, NEW r \in Req \ S
      PROVE  Draw!SizeOf(S \cup {r}) = Draw!SizeOf(S) + Body[r].size
  <2>1. Draw!TokensOf(S \cup {r}) = Draw!TokensOf(S) \cup T(r)
    BY DEF Draw!TokensOf
  <2>2. Draw!TokensOf(S) \cap T(r) = {}
    BY DEF Draw!TokensOf
  <2>3. IsFiniteSet(Draw!TokensOf(S)) /\ IsFiniteSet(T(r)) /\ Cardinality(T(r)) = Body[r].size
    BY <1>2, <1>3
  <2>4. Cardinality({}) = 0 /\ Cardinality(Draw!TokensOf(S)) \in Nat /\ Body[r].size \in Nat
    BY <2>3, FS_EmptySet, FS_CardinalityType, BodyFacts
  <2> HIDE DEF T
  <2>5. Cardinality(Draw!TokensOf(S) \cup T(r))
            = Cardinality(Draw!TokensOf(S)) + Cardinality(T(r)) - Cardinality(Draw!TokensOf(S) \cap T(r))
    BY <2>3, FS_Union
  <2>6. Cardinality(Draw!TokensOf(S) \cup T(r)) = Cardinality(Draw!TokensOf(S)) + Body[r].size
    <3>1. Cardinality(Draw!TokensOf(S) \cap T(r)) = 0
      BY <2>2, <2>4
    <3>2. Cardinality(T(r)) = Body[r].size
      BY <2>3
    <3> QED
      BY <2>4, <2>5, <3>1, <3>2
  <2>7. /\ Draw!SizeOf(S \cup {r}) = Cardinality(Draw!TokensOf(S \cup {r}))
        /\ Draw!SizeOf(S) = Cardinality(Draw!TokensOf(S))
    BY <1>1
  <2> QED
    BY <2>1, <2>6, <2>7
<1> QED
  BY <1>4, <1>5, <1>6, <1>7

\* The purpose's own bucket.
BucketFor(r) == BucketOf[Body[r].purpose]

\* A state is a state, whichever shape its record has.
LEMMA StateType ==
    ASSUME Writable, NEW f, Draw!IsFile(f), NEW c \in Cred, NEW d \in Int, NEW b \in Bucket
    PROVE  Draw!StateAt(f, c, d, b) \in Draw!State
<1>1. Draw!NoDraws \in Draw!State
  BY DEF Draw!NoDraws, Draw!State
<1>2. ASSUME NEW x \in Draw!Record PROVE Draw!StateOf(x, b) \in Draw!State
  BY <1>1, <1>2 DEF Draw!StateOf, Draw!Record
<1>3. Draw!Pooled(Draw!NoDraws) \in Draw!Record
  BY <1>1 DEF Draw!Pooled, Draw!Record
<1>4. Draw!RecordAt(f, c, d) \in Draw!Record
  BY <1>3 DEF Draw!RecordAt, Draw!IsFile
<1> QED
  BY <1>2, <1>4 DEF Draw!StateAt

\* Charging a request changes one bucket of one day, keeps the days that still matter, and
\* loses nothing when it turns an older record into the current shape.
LEMMA ChargeFacts ==
    ASSUME Writable, NEW f, Draw!IsFile(f), NEW d \in Int,
           NEW r \in Req, Body[r].purpose \in Draw!Purpose
    PROVE  /\ Draw!IsFile(Draw!Charge(f, r, d))
           /\ \A c \in Cred, b \in Bucket, k \in Int : k >= d - 1 =>
                 Draw!StateAt(Draw!Charge(f, r, d), c, k, b) =
                     IF c = Body[r].cred /\ b = BucketFor(r) /\ k = d
                     THEN [used |-> Draw!StateAt(f, c, k, b).used + Body[r].size,
                           seen |-> Draw!StateAt(f, c, k, b).seen \cup {r}]
                     ELSE Draw!StateAt(f, c, k, b)
<1> DEFINE cr == Body[r].cred
           old == Draw!bucketsOf(Draw!RecordAt(f, cr, d))
           add == [used |-> old[BucketFor(r)].used + Body[r].size,
                   seen |-> old[BucketFor(r)].seen \cup {r}]
           new == [old EXCEPT ![BucketFor(r)] = add]
           days == {k \in DOMAIN f[cr] \cup {d} : k >= d - 1}
           g == Draw!Charge(f, r, d)
<1>1. cr \in Cred /\ BucketFor(r) \in Bucket /\ Body[r].size \in Nat
  BY BodyFacts DEF BucketFor
<1>2. old = [b \in Bucket |-> Draw!StateAt(f, cr, d, b)]
  BY DEF Draw!bucketsOf, Draw!StateAt
<1>3. \A b \in Bucket : Draw!StateAt(f, cr, d, b) \in Draw!State
  BY <1>1, StateType
<1>4. add \in Draw!State
  BY <1>1, <1>2, <1>3 DEF Draw!State
<1>5. new \in [Bucket -> Draw!State]
  BY <1>2, <1>3, <1>4
<1>6. /\ g = [f EXCEPT ![cr] = [k \in days |-> IF k = d THEN Draw!Nested(new) ELSE f[cr][k]]]
  BY DEF Draw!Charge, BucketFor
<1>7. DOMAIN f = Cred /\ \A c \in Cred : DOMAIN f[c] \subseteq Int
  BY DEF Draw!IsFile
<1>8. /\ DOMAIN g = Cred
      /\ \A c \in Cred \ {cr} : g[c] = f[c]
      /\ DOMAIN g[cr] = days
      /\ \A k \in days : g[cr][k] = IF k = d THEN Draw!Nested(new) ELSE f[cr][k]
  <2> HIDE DEF days, new, g
  <2> QED BY <1>1, <1>6, <1>7
<1>9. Draw!Nested(new) \in Draw!Record
  <2> HIDE DEF new
  <2> QED BY <1>5 DEF Draw!Nested, Draw!Record
<1>10. days \subseteq Int /\ d \in days /\ \A k \in days : k # d => k \in DOMAIN f[cr]
  BY <1>1, <1>7
<1>11. \A k \in DOMAIN f[cr] : k >= d - 1 => k \in days
  OBVIOUS
<1>12. Draw!IsFile(g)
  <2> HIDE DEF days, new, g
  <2> QED BY <1>1, <1>8, <1>9, <1>10 DEF Draw!IsFile
<1>13. ASSUME NEW c \in Cred, NEW b \in Bucket, NEW k \in Int, k >= d - 1
       PROVE  Draw!StateAt(g, c, k, b) =
                  IF c = cr /\ b = BucketFor(r) /\ k = d
                  THEN [used |-> Draw!StateAt(f, c, k, b).used + Body[r].size,
                        seen |-> Draw!StateAt(f, c, k, b).seen \cup {r}]
                  ELSE Draw!StateAt(f, c, k, b)
  <2>1. CASE c # cr
    <3> HIDE DEF g, days, new
    <3> QED BY <1>8, <2>1 DEF Draw!StateAt, Draw!RecordAt
  <2>2. CASE c = cr /\ k # d
    <3>1. k \in DOMAIN g[c] <=> k \in DOMAIN f[c]
      <4>1. k \in days <=> k \in DOMAIN f[cr]
        BY <1>10, <1>11, <1>13, <2>2
      <4> HIDE DEF g, days, new
      <4> QED BY <1>8, <2>2, <4>1
    <3>2. k \in DOMAIN g[c] => g[c][k] = f[c][k]
      <4> HIDE DEF g, days, new
      <4> QED BY <1>8, <2>2
    <3> HIDE DEF g, days, new
    <3> QED BY <2>2, <3>1, <3>2 DEF Draw!StateAt, Draw!RecordAt
  <2>3. CASE c = cr /\ k = d
    <3>1. Draw!RecordAt(g, c, k) = Draw!Nested(new)
      <4> HIDE DEF g, days, new
      <4> QED BY <1>8, <1>10, <2>3 DEF Draw!RecordAt
    <3>2. Draw!StateAt(g, c, k, b) = new[b]
      <4> HIDE DEF g, new
      <4> QED BY <3>1 DEF Draw!StateAt, Draw!StateOf, Draw!Nested
    <3>3. new[b] = IF b = BucketFor(r) THEN add ELSE Draw!StateAt(f, cr, d, b)
      <4> HIDE DEF add
      <4> QED BY <1>2
    <3>4. add = [used |-> Draw!StateAt(f, cr, d, BucketFor(r)).used + Body[r].size,
                 seen |-> Draw!StateAt(f, cr, d, BucketFor(r)).seen \cup {r}]
      BY <1>1, <1>2
    <3> HIDE DEF g, new, add, old
    <3> QED BY <2>3, <3>2, <3>3, <3>4
  <2> QED
    BY <2>1, <2>2, <2>3
<1> QED
  BY <1>12, <1>13

----------------------------------------------------------------------------
(* DrawQuota: the inductive invariant.                                      *)

\* Types, the chain, and a highest quota that is at least the one that stands.
DrawTyped ==
    /\ today \in 1..MaxDay
    /\ budget \in [Bucket -> [quota : Quota, maxDraws : MaxDraws]]
    /\ chain \in Seq(Handler) /\ IsInjective(chain)
    /\ DOMAIN call = Handler
    /\ ToSet(chain) = {h \in Handler : Draw!Drawing(h)}
    /\ Draw!IsFile(file)
    /\ peak \in [Bucket -> Nat]
    /\ \A b \in Bucket : budget[b].quota <= peak[b]

\* What the file counts for the bucket of r on day d.
DrawnBy(r, d) == Draw!StateAt(file, Body[r].cred, d, BucketFor(r))

\* A handler under way has a request that passed the checks; one in the chain has a day that
\* still counts; the one that signs holds the lock and the file as it is, and its request is
\* in the file or fits the highest quota.
CallFacts(h) ==
    \/ call[h] = Draw!Idle
    \/ /\ call[h].pc \in {"verify", "queued", "signing"}
       /\ call[h].req \in Req /\ Body[call[h].req].purpose \in Draw!Purpose
       /\ call[h].pc \in {"queued", "signing"} => call[h].day \in (today - 1)..today
       /\ call[h].pc = "signing" =>
             /\ Draw!Locked(h) /\ call[h].draws = file
             /\ \/ call[h].req \in DrawnBy(call[h].req, call[h].day).seen
                \/ DrawnBy(call[h].req, call[h].day).used + Body[call[h].req].size
                       <= peak[BucketFor(call[h].req)]

\* What the file holds for a day that can still be drawn on: what it held at the start, every
\* answered batch, and exactly their tokens, within the highest quota once anything was added.
Counted(c, b, d) ==
    LET state == Draw!StateAt(file, c, d, b)
        start == Draw!Inherited(c, b, d)
    IN  /\ start.seen \subseteq state.seen
        /\ Draw!MintedIn(c, b, d) \subseteq state.seen
        /\ state.used = start.used + Draw!SizeOf(state.seen \ start.seen)
        /\ state.used <= start.used \/ state.used <= peak[b]

\* The answered batches of any day, within the highest quota.
Within(c, b, d) ==
    LET start == Draw!Inherited(c, b, d)
        got == start.used + Draw!SizeOf(Draw!MintedIn(c, b, d) \ start.seen)
    IN  got <= start.used \/ got <= peak[b]

DrawCounts ==
    \A c \in Cred, b \in Bucket, d \in Int :
        /\ Within(c, b, d)
        /\ d >= today - 1 => Counted(c, b, d)

DrawInv == DrawTyped /\ (\A h \in Handler : CallFacts(h)) /\ DrawCounts

\* What the counts are made of.
LEMMA CountTypes ==
    ASSUME Writable, DrawTyped, NEW c \in Cred, NEW b \in Bucket, NEW d \in Int
    PROVE  /\ Draw!StateAt(file, c, d, b) \in Draw!State
           /\ Draw!Inherited(c, b, d) \in Draw!State
           /\ Draw!MintedIn(c, b, d) \subseteq Req
           /\ peak[b] \in Nat
<1>1. Draw!IsFile(file) /\ Draw!IsFile(InitFile)
  BY DEF DrawTyped, Writable, Draw!DrawAssumption
<1>2. Draw!StateAt(file, c, d, b) \in Draw!State /\ Draw!StateAt(InitFile, c, d, b) \in Draw!State
  BY <1>1, StateType
<1> QED
  BY <1>2 DEF Draw!Inherited, Draw!MintedIn, DrawTyped

\* What a file counts bounds the batches answered from it.
LEMMA CountedBounds ==
    ASSUME Writable, NEW state \in Draw!State, NEW start \in Draw!State, NEW top \in Nat,
           NEW got \in SUBSET state.seen,
           state.used = start.used + Draw!SizeOf(state.seen \ start.seen),
           state.used <= start.used \/ state.used <= top
    PROVE  \/ start.used + Draw!SizeOf(got \ start.seen) <= start.used
           \/ start.used + Draw!SizeOf(got \ start.seen) <= top
<1>1. state.seen \subseteq Req /\ state.used \in Nat /\ start.used \in Nat
  BY DEF Draw!State
<1>2. /\ Draw!SizeOf(got \ start.seen) <= Draw!SizeOf(state.seen \ start.seen)
      /\ Draw!SizeOf(got \ start.seen) \in Nat /\ Draw!SizeOf(state.seen \ start.seen) \in Nat
  <2>1. state.seen \ start.seen \in SUBSET Req /\ got \ start.seen \in SUBSET (state.seen \ start.seen)
    BY <1>1
  <2> QED
    BY <2>1, SizeFacts
<1> QED
  BY <1>1, <1>2

LEMMA LaterDay ==
    ASSUME NEW a \in Int, NEW b \in Int, NEW d \in Int, b >= a, d >= b - 1
    PROVE  d >= a - 1
OBVIOUS

\* Steps that leave the file and the answers alone keep the counts.
LEMMA CountsStable ==
    ASSUME Writable, DrawTyped, DrawTyped', DrawCounts, file' = file, minted' = minted,
           today' >= today, \A b \in Bucket : peak[b] <= peak'[b]
    PROVE  DrawCounts'
<1> SUFFICES ASSUME NEW c \in Cred, NEW b \in Bucket, NEW d \in Int
             PROVE  Within(c, b, d)' /\ (d >= today' - 1 => Counted(c, b, d)')
  BY DEF DrawCounts
<1>1. Within(c, b, d) /\ (d >= today - 1 => Counted(c, b, d))
  BY DEF DrawCounts
<1>2. peak[b] \in Nat /\ peak'[b] \in Nat /\ peak[b] <= peak'[b] /\ today \in Int /\ today' \in Int
  BY DEF DrawTyped
<1>3. /\ Draw!StateAt(file, c, d, b) \in Draw!State /\ Draw!Inherited(c, b, d) \in Draw!State
      /\ Draw!MintedIn(c, b, d) \subseteq Req
  BY CountTypes
<1>4. /\ Draw!StateAt(file', c, d, b) = Draw!StateAt(file, c, d, b)
      /\ Draw!MintedIn(c, b, d)' = Draw!MintedIn(c, b, d)
      /\ Draw!Inherited(c, b, d)' = Draw!Inherited(c, b, d)
  BY DEF Draw!MintedIn, Draw!Inherited
<1>5. /\ Draw!StateAt(file, c, d, b).used \in Nat /\ Draw!Inherited(c, b, d).used \in Nat
  BY <1>3 DEF Draw!State
<1>6. Draw!SizeOf(Draw!MintedIn(c, b, d) \ Draw!Inherited(c, b, d).seen) \in Nat
  BY <1>3, SizeFacts
<1>7. Within(c, b, d)'
  BY <1>1, <1>2, <1>4, <1>5, <1>6 DEF Within
<1>8. ASSUME d >= today' - 1 PROVE Counted(c, b, d)'
  <2>1. d >= today - 1
    BY <1>2, <1>8, LaterDay
  <2>2. Counted(c, b, d)
    BY <1>1, <2>1
  <2> QED
    BY <1>2, <1>4, <1>5, <2>2 DEF Counted
<1> QED
  BY <1>7, <1>8

\* A handler's facts stand while its call, the file and its place in the chain do.
LEMMA CallStable ==
    ASSUME Writable, DrawTyped, DrawTyped', NEW h \in Handler, CallFacts(h), call'[h] = call[h],
           file' = file, \A b \in Bucket : peak[b] <= peak'[b],
           call[h].pc = "signing" => Draw!Locked(h)',
           call[h].pc \in {"queued", "signing"} => call[h].day \in (today' - 1)..today'
    PROVE  CallFacts(h)'
<1> SUFFICES ASSUME call[h] # Draw!Idle PROVE CallFacts(h)'
  BY DEF CallFacts, Draw!Idle
<1> DEFINE r == call[h].req
           d == call[h].day
<1>1. /\ call[h].pc \in {"verify", "queued", "signing"} /\ r \in Req /\ Body[r].purpose \in Draw!Purpose
      /\ call[h].pc = "signing" =>
             /\ call[h].draws = file /\ d \in (today - 1)..today
             /\ r \in DrawnBy(r, d).seen \/ DrawnBy(r, d).used + Body[r].size <= peak[BucketFor(r)]
  BY DEF CallFacts
<1>2. BucketFor(r) \in Bucket /\ Body[r].cred \in Cred /\ Body[r].size \in Nat
  BY <1>1, BodyFacts DEF BucketFor
<1>3. peak[BucketFor(r)] \in Nat /\ peak'[BucketFor(r)] \in Nat /\ peak[BucketFor(r)] <= peak'[BucketFor(r)]
  BY <1>2 DEF DrawTyped
<1>4. /\ DrawnBy(call[h].req, call[h].day)' = DrawnBy(r, d)
      /\ BucketFor(call[h].req)' = BucketFor(r)
  BY DEF DrawnBy, BucketFor
<1>5. call[h].pc = "signing" =>
          r \in DrawnBy(r, d).seen \/ DrawnBy(r, d).used + Body[r].size <= peak'[BucketFor(r)]
  <2> SUFFICES ASSUME call[h].pc = "signing", r \notin DrawnBy(r, d).seen
               PROVE  DrawnBy(r, d).used + Body[r].size <= peak'[BucketFor(r)]
    OBVIOUS
  <2>1. d \in Int /\ DrawnBy(r, d) \in Draw!State
    <3>1. d \in Int
      BY <1>1 DEF DrawTyped
    <3> QED
      BY <1>2, <3>1, CountTypes DEF DrawnBy
  <2>2. DrawnBy(r, d).used \in Nat
    BY <2>1 DEF Draw!State
  <2> QED
    BY <1>1, <1>2, <1>3, <2>2
<1> QED
  BY <1>1, <1>4, <1>5 DEF CallFacts, DrawnBy, BucketFor

\* The one handler that signs has the lock.
LEMMA LockFacts ==
    ASSUME DrawTyped, \A h \in Handler : CallFacts(h), NEW h \in Handler, call[h].pc = "signing"
    PROVE  /\ chain # <<>> /\ Head(chain) = h /\ Draw!Locked(h)
           /\ \A g \in Handler \ {h} : call[g].pc # "signing"
BY DEF CallFacts, Draw!Locked, Draw!Idle

LEMMA DrawInit ==
    ASSUME Writable, Draw!Init
    PROVE  DrawInv
<1>1. DrawTyped
  <2>1. today \in 1..MaxDay
    BY DEF Draw!Init, Writable, Draw!DrawAssumption
  <2>2. chain \in Seq(Handler) /\ IsInjective(chain) /\ ToSet(chain) = {}
    <3>1. chain = <<>> /\ DOMAIN chain = {}
      BY DEF Draw!Init
    <3> QED
      BY <3>1 DEF IsInjective, ToSet
  <2>3. DOMAIN call = Handler /\ \A h \in Handler : ~Draw!Drawing(h)
    BY DEF Draw!Init, Draw!Drawing, Draw!Idle
  <2>4. \A b \in Bucket : budget[b].quota \in Nat
    BY DEF Draw!Init, Writable, Draw!DrawAssumption
  <2>5. peak \in [Bucket -> Nat] /\ \A b \in Bucket : budget[b].quota <= peak[b]
    BY <2>4 DEF Draw!Init
  <2>6. Draw!IsFile(file)
    BY DEF Draw!Init, Writable, Draw!DrawAssumption
  <2> QED
    BY <2>1, <2>2, <2>3, <2>5, <2>6 DEF DrawTyped, Draw!Init
<1>2. \A h \in Handler : CallFacts(h)
  BY DEF Draw!Init, CallFacts
<1>3. DrawCounts
  <2> SUFFICES ASSUME NEW c \in Cred, NEW b \in Bucket, NEW d \in Int
               PROVE  Within(c, b, d) /\ Counted(c, b, d)
    BY DEF DrawCounts
  <2>1. Draw!StateAt(file, c, d, b) = Draw!Inherited(c, b, d)
    BY DEF Draw!Init, Draw!Inherited
  <2>2. Draw!MintedIn(c, b, d) = {}
    BY DEF Draw!Init, Draw!MintedIn
  <2>3. Draw!Inherited(c, b, d) \in Draw!State
    BY <1>1, CountTypes
  <2>4. Draw!Inherited(c, b, d).used \in Nat
    BY <2>3 DEF Draw!State
  <2>5. Draw!SizeOf(Draw!Inherited(c, b, d).seen \ Draw!Inherited(c, b, d).seen) = 0
    <3>1. Draw!Inherited(c, b, d).seen \ Draw!Inherited(c, b, d).seen = {}
      OBVIOUS
    <3> QED
      BY <3>1, SizeFacts
  <2>6. Draw!SizeOf({} \ Draw!Inherited(c, b, d).seen) = 0
    <3>1. {} \ Draw!Inherited(c, b, d).seen = {}
      OBVIOUS
    <3> QED
      BY <3>1, SizeFacts
  <2> QED
    BY <2>1, <2>2, <2>4, <2>5, <2>6 DEF Counted, Within
<1> QED
  BY <1>1, <1>2, <1>3 DEF DrawInv

\* A step of one handler that leaves the file and the answers alone.
LEMMA OneCall ==
    ASSUME Writable, DrawInv, DrawTyped', NEW h \in Handler,
           today' = today, file' = file, minted' = minted, peak' = peak, CallFacts(h)',
           \A g \in Handler \ {h} : /\ call'[g] = call[g]
                                    /\ call[g].pc = "signing" => Draw!Locked(g)'
    PROVE  DrawInv'
<1> USE DEF DrawInv
<1>1. \A b \in Bucket : peak[b] <= peak'[b]
  BY DEF DrawTyped
<1>2. ASSUME NEW g \in Handler \ {h} PROVE CallFacts(g)'
  <2>1. call[g].pc \in {"queued", "signing"} => call[g].day \in (today' - 1)..today'
    BY DEF CallFacts, Draw!Idle
  <2> QED
    BY <1>1, <2>1, CallStable
<1>3. today' >= today
  BY DEF DrawTyped
<1>4. DrawCounts'
  BY <1>1, <1>3, CountsStable
<1> QED
  BY <1>2, <1>4

\* The holder of the lock leaves the chain.
LEMMA LeaveChain ==
    ASSUME DrawTyped, NEW h \in Handler, Draw!Drawing(h), Draw!Locked(h),
           call' = [call EXCEPT ![h] = Draw!Idle], chain' = Tail(chain)
    PROVE  /\ chain' \in Seq(Handler) /\ IsInjective(chain') /\ DOMAIN call' = Handler
           /\ call'[h] = Draw!Idle /\ \A g \in Handler \ {h} : call'[g] = call[g]
           /\ ToSet(chain') = {g \in Handler : Draw!Drawing(g)'}
<1>1. /\ DOMAIN call' = Handler /\ call'[h] = Draw!Idle
      /\ \A g \in Handler \ {h} : call'[g] = call[g]
  BY DEF DrawTyped
<1>2. \A g \in Handler : Draw!Drawing(g)' <=> g # h /\ Draw!Drawing(g)
  BY <1>1 DEF Draw!Drawing, Draw!Idle
<1>3. /\ chain # <<>> /\ Head(chain) = h /\ chain \in Seq(Handler) /\ IsInjective(chain)
      /\ ToSet(chain) = {g \in Handler : Draw!Drawing(g)}
  BY DEF DrawTyped, Draw!Locked
<1>4. /\ Tail(chain) \in Seq(Handler) /\ IsInjective(Tail(chain))
      /\ ToSet(Tail(chain)) = ToSet(chain) \ {Head(chain)}
  BY <1>3, QueueFacts
<1>5. ToSet(chain') = {g \in Handler : Draw!Drawing(g)'}
  BY <1>2, <1>3, <1>4
<1> QED
  BY <1>1, <1>4, <1>5

LEMMA ReceiveStep ==
    ASSUME Writable, DrawInv, NEW h \in Handler, NEW r \in Req, Draw!Receive(h, r)
    PROVE  DrawInv'
<1>1. /\ call' = [call EXCEPT ![h] = [pc |-> "verify", req |-> r]] /\ call[h] = Draw!Idle
      /\ today' = today /\ budget' = budget /\ file' = file /\ chain' = chain
      /\ minted' = minted /\ peak' = peak /\ Body[r].purpose \in Draw!Purpose
  BY DEF Draw!Receive, Draw!WellFormed
<1>2. /\ DOMAIN call' = Handler /\ call'[h] = [pc |-> "verify", req |-> r]
      /\ \A g \in Handler \ {h} : call'[g] = call[g]
  BY <1>1 DEF DrawInv, DrawTyped
<1>3. \A g \in Handler : Draw!Drawing(g)' <=> Draw!Drawing(g)
  BY <1>1, <1>2 DEF Draw!Drawing, Draw!Idle
<1>4. DrawTyped'
  BY <1>1, <1>2, <1>3 DEF DrawInv, DrawTyped
<1>5. CallFacts(h)'
  BY <1>1, <1>2 DEF CallFacts
<1>6. \A g \in Handler : call[g].pc = "signing" => Draw!Locked(g)'
  BY <1>1, LockFacts DEF Draw!Locked, DrawInv
<1> QED
  BY <1>1, <1>2, <1>4, <1>5, <1>6, OneCall

LEMMA VerifiedStep ==
    ASSUME Writable, DrawInv, NEW h \in Handler, Draw!Verified(h)
    PROVE  DrawInv'
<1> DEFINE r == call[h].req
<1>1. /\ call[h].pc = "verify" /\ r \in Req /\ Body[r].purpose \in Draw!Purpose
      /\ today' = today /\ budget' = budget /\ file' = file /\ minted' = minted /\ peak' = peak
  BY DEF Draw!Verified, DrawInv, CallFacts, Draw!Idle
<1>2. CASE /\ call' = [call EXCEPT ![h] = [pc |-> "queued", req |-> r, day |-> today]]
           /\ chain' = Append(chain, h)
  <2>1. /\ DOMAIN call' = Handler /\ call'[h] = [pc |-> "queued", req |-> r, day |-> today]
        /\ \A g \in Handler \ {h} : call'[g] = call[g]
    BY <1>2 DEF DrawInv, DrawTyped
  <2>2. \A g \in Handler : Draw!Drawing(g)' <=> g = h \/ Draw!Drawing(g)
    BY <2>1 DEF Draw!Drawing
  <2>3. chain \in Seq(Handler) /\ IsInjective(chain) /\ h \in Handler \ ToSet(chain)
    BY <1>1 DEF DrawInv, DrawTyped, Draw!Drawing
  <2>4. /\ chain' \in Seq(Handler) /\ IsInjective(chain') /\ ToSet(chain') = ToSet(chain) \cup {h}
        /\ chain' # <<>> /\ Head(chain') = IF chain = <<>> THEN h ELSE Head(chain)
    BY <1>2, <2>3, QueueFacts
  <2>5. ToSet(chain') = {g \in Handler : Draw!Drawing(g)'}
    BY <2>2, <2>4 DEF DrawInv, DrawTyped
  <2>6. DrawTyped'
    BY <1>1, <2>1, <2>4, <2>5 DEF DrawInv, DrawTyped
  <2>7. CallFacts(h)'
    <3>1. today \in (today - 1)..today
      BY DEF DrawInv, DrawTyped
    <3> QED
      BY <1>1, <2>1, <3>1 DEF CallFacts
  <2>8. \A g \in Handler : call[g].pc = "signing" => Draw!Locked(g)'
    BY <2>4, LockFacts DEF Draw!Locked, DrawInv
  <2> QED
    BY <1>1, <2>1, <2>6, <2>7, <2>8, OneCall
<1>3. CASE call' = [call EXCEPT ![h] = Draw!Idle] /\ chain' = chain
  <2>1. /\ DOMAIN call' = Handler /\ call'[h] = Draw!Idle
        /\ \A g \in Handler \ {h} : call'[g] = call[g]
    BY <1>3 DEF DrawInv, DrawTyped
  <2>2. \A g \in Handler : Draw!Drawing(g)' <=> Draw!Drawing(g)
    BY <1>1, <2>1 DEF Draw!Drawing, Draw!Idle
  <2>3. DrawTyped'
    BY <1>1, <1>3, <2>1, <2>2 DEF DrawInv, DrawTyped
  <2>4. CallFacts(h)'
    BY <2>1 DEF CallFacts
  <2>5. \A g \in Handler : call[g].pc = "signing" => Draw!Locked(g)'
    BY <1>3, LockFacts DEF Draw!Locked, DrawInv
  <2> QED
    BY <1>1, <2>1, <2>3, <2>4, <2>5, OneCall
<1> QED
  BY <1>2, <1>3 DEF Draw!Verified

\* A step after which the holder of the lock is gone and nothing else has changed.
LEMMA GiveUp ==
    ASSUME Writable, DrawInv, NEW h \in Handler, Draw!Drawing(h), Draw!Locked(h),
           call' = [call EXCEPT ![h] = Draw!Idle], chain' = Tail(chain),
           today' = today, budget' = budget, file' = file, minted' = minted, peak' = peak
    PROVE  DrawInv'
<1>1. /\ chain' \in Seq(Handler) /\ IsInjective(chain') /\ DOMAIN call' = Handler
      /\ call'[h] = Draw!Idle /\ \A g \in Handler \ {h} : call'[g] = call[g]
      /\ ToSet(chain') = {g \in Handler : Draw!Drawing(g)'}
  BY LeaveChain DEF DrawInv
<1>2. DrawTyped'
  BY <1>1 DEF DrawInv, DrawTyped
<1>3. CallFacts(h)'
  BY <1>1 DEF CallFacts
<1>4. \A g \in Handler \ {h} : call[g].pc # "signing"
  <2>1. Head(chain) = h
    BY DEF Draw!Locked
  <2> QED
    BY <2>1, LockFacts DEF DrawInv
<1> QED
  BY <1>1, <1>2, <1>3, <1>4, OneCall

LEMMA LoadStep ==
    ASSUME Writable, DrawInv, NEW h \in Handler, Draw!Load(h)
    PROVE  DrawInv'
<1> DEFINE r == call[h].req
           d == call[h].day
<1>1. /\ call[h].pc = "queued" /\ Draw!Locked(h) /\ Draw!Drawing(h)
      /\ r \in Req /\ Body[r].purpose \in Draw!Purpose /\ d \in (today - 1)..today
      /\ today' = today /\ budget' = budget /\ file' = file /\ minted' = minted /\ peak' = peak
  BY DEF Draw!Load, DrawInv, CallFacts, Draw!Idle, Draw!Drawing
<1>2. CASE /\ Draw!WithinBudget(r, d) /\ chain' = chain
           /\ call' = [call EXCEPT ![h] = [pc |-> "signing", req |-> r, day |-> d, draws |-> file]]
  <2>1. /\ DOMAIN call' = Handler /\ call'[h] = [pc |-> "signing", req |-> r, day |-> d, draws |-> file]
        /\ \A g \in Handler \ {h} : call'[g] = call[g]
    BY <1>2 DEF DrawInv, DrawTyped
  <2>2. \A g \in Handler : Draw!Drawing(g)' <=> Draw!Drawing(g)
    BY <1>1, <2>1 DEF Draw!Drawing
  <2>3. DrawTyped'
    BY <1>1, <1>2, <2>1, <2>2 DEF DrawInv, DrawTyped
  <2>4. r \in DrawnBy(r, d).seen \/ DrawnBy(r, d).used + Body[r].size <= peak[BucketFor(r)]
    <3>1. /\ BucketFor(r) \in Bucket /\ Body[r].cred \in Cred /\ Body[r].size \in Nat
      BY <1>1, BodyFacts DEF BucketFor
    <3>2. d \in Int
      BY <1>1 DEF DrawInv, DrawTyped
    <3>3. DrawnBy(r, d) \in Draw!State /\ peak[BucketFor(r)] \in Nat
      BY <3>1, <3>2, CountTypes DEF DrawnBy, DrawInv
    <3>4. DrawnBy(r, d).used \in Nat
      BY <3>3 DEF Draw!State
    <3>5. budget[BucketFor(r)].quota \in Nat /\ budget[BucketFor(r)].quota <= peak[BucketFor(r)]
      BY <3>1 DEF DrawInv, DrawTyped, Writable, Draw!DrawAssumption
    <3>6. r \in DrawnBy(r, d).seen \/ DrawnBy(r, d).used + Body[r].size <= budget[BucketFor(r)].quota
      BY <1>2 DEF Draw!WithinBudget, DrawnBy, BucketFor
    <3> QED
      BY <3>1, <3>3, <3>4, <3>5, <3>6
  <2>5. CallFacts(h)'
    <3>1. Draw!Locked(h)'
      BY <1>1, <1>2 DEF Draw!Locked
    <3> QED
      BY <1>1, <2>1, <2>4, <3>1 DEF CallFacts, DrawnBy, BucketFor
  <2>6. \A g \in Handler : call[g].pc = "signing" => Draw!Locked(g)'
    BY <1>2, LockFacts DEF Draw!Locked, DrawInv
  <2> QED
    BY <1>1, <2>1, <2>3, <2>5, <2>6, OneCall
<1>3. CASE call' = [call EXCEPT ![h] = Draw!Idle] /\ chain' = Tail(chain)
  BY <1>1, <1>3, GiveUp
<1> QED
  BY <1>2, <1>3 DEF Draw!Load

LEMMA SignFailsStep ==
    ASSUME Writable, DrawInv, NEW h \in Handler, Draw!SignFails(h)
    PROVE  DrawInv'
<1>1. Draw!Drawing(h) /\ Draw!Locked(h)
  BY LockFacts DEF Draw!SignFails, DrawInv, Draw!Drawing
<1> QED
  BY <1>1, GiveUp DEF Draw!SignFails

\* A batch is answered: it is added to the answers of its own bucket and day, which the file
\* already counts or counts from now on.
LEMMA SignStep ==
    ASSUME Writable, DrawInv, NEW h \in Handler, Draw!Sign(h)
    PROVE  DrawInv'
<1> DEFINE r == call[h].req
           d == call[h].day
           mine(c, b, k) == c = Body[r].cred /\ b = BucketFor(r) /\ k = d
<1>1. /\ Draw!Drawing(h) /\ Draw!Locked(h) /\ call[h].draws = file
      /\ \A g \in Handler \ {h} : call[g].pc # "signing"
      /\ r \in Req /\ Body[r].purpose \in Draw!Purpose /\ d \in (today - 1)..today
      /\ r \in DrawnBy(r, d).seen \/ DrawnBy(r, d).used + Body[r].size <= peak[BucketFor(r)]
  <2>1. call[h].pc = "signing"
    BY DEF Draw!Sign
  <2>2. CallFacts(h) /\ call[h] # Draw!Idle
    BY <2>1 DEF DrawInv, Draw!Idle
  <2>3. /\ Draw!Locked(h) /\ \A g \in Handler \ {h} : call[g].pc # "signing"
    BY <2>1, LockFacts DEF DrawInv
  <2> QED
    BY <2>1, <2>2, <2>3 DEF CallFacts, Draw!Drawing
<1>2. /\ call' = [call EXCEPT ![h] = Draw!Idle] /\ chain' = Tail(chain)
      /\ minted' = minted \cup {[req |-> r, day |-> d]}
      /\ today' = today /\ budget' = budget /\ peak' = peak
  BY DEF Draw!Sign
<1>3. \/ r \in DrawnBy(r, d).seen /\ file' = file
      \/ r \notin DrawnBy(r, d).seen /\ file' = Draw!Charge(file, r, d)
  <2>1. ~DiskFails
    BY DEF Writable
  <2> QED
    BY <1>1, <2>1 DEF Draw!Sign, DrawnBy, BucketFor
<1>4. /\ Body[r].cred \in Cred /\ BucketFor(r) \in Bucket /\ Body[r].size \in Nat
  BY <1>1, BodyFacts DEF BucketFor
<1>5. d \in Int /\ today \in Int /\ d <= today
  BY <1>1 DEF DrawInv, DrawTyped
<1>6. Draw!IsFile(file)
  BY DEF DrawInv, DrawTyped
<1>7. Draw!IsFile(file')
  BY <1>1, <1>3, <1>5, <1>6, ChargeFacts
<1>8. /\ chain' \in Seq(Handler) /\ IsInjective(chain') /\ DOMAIN call' = Handler
      /\ call'[h] = Draw!Idle /\ \A g \in Handler \ {h} : call'[g] = call[g]
      /\ ToSet(chain') = {g \in Handler : Draw!Drawing(g)'}
  BY <1>1, <1>2, LeaveChain DEF DrawInv
<1>9. DrawTyped'
  BY <1>2, <1>7, <1>8 DEF DrawInv, DrawTyped
<1>10. ASSUME NEW g \in Handler PROVE CallFacts(g)'
  <2>1. CASE g = h
    BY <1>8, <2>1 DEF CallFacts
  <2>2. CASE g # h
    <3>1. call'[g] = call[g] /\ call[g].pc # "signing" /\ CallFacts(g)
      BY <1>1, <1>8, <2>2 DEF DrawInv
    <3> QED
      BY <1>2, <3>1 DEF CallFacts, Draw!Idle
  <2> QED
    BY <2>1, <2>2
<1>11. ASSUME NEW c \in Cred, NEW b \in Bucket, NEW k \in Int
       PROVE  Draw!MintedIn(c, b, k)' =
                  IF mine(c, b, k) THEN Draw!MintedIn(c, b, k) \cup {r} ELSE Draw!MintedIn(c, b, k)
  <2>1. \A q \in Req : [req |-> q, day |-> k] \in minted'
            <=> [req |-> q, day |-> k] \in minted \/ (q = r /\ k = d)
    BY <1>2
  <2> QED
    BY <1>1, <2>1 DEF Draw!MintedIn, BucketFor
<1>12. ASSUME NEW c \in Cred, NEW b \in Bucket, NEW k \in Int, k >= today - 1
       PROVE  /\ Draw!StateAt(file', c, k, b) = Draw!StateAt(file, c, k, b)
              \/ /\ mine(c, b, k) /\ r \notin Draw!StateAt(file, c, k, b).seen
                 /\ Draw!StateAt(file, c, k, b).used + Body[r].size <= peak[b]
                 /\ Draw!StateAt(file', c, k, b) =
                        [used |-> Draw!StateAt(file, c, k, b).used + Body[r].size,
                         seen |-> Draw!StateAt(file, c, k, b).seen \cup {r}]
  <2>1. CASE file' = file
    BY <2>1
  <2>2. CASE r \notin DrawnBy(r, d).seen /\ file' = Draw!Charge(file, r, d)
    <3>1. k >= d - 1
      BY <1>5, <1>12
    <3>2. Draw!StateAt(file', c, k, b) =
              IF mine(c, b, k)
              THEN [used |-> Draw!StateAt(file, c, k, b).used + Body[r].size,
                    seen |-> Draw!StateAt(file, c, k, b).seen \cup {r}]
              ELSE Draw!StateAt(file, c, k, b)
      <4> HIDE DEF r, d
      <4> QED BY <1>1, <1>5, <1>6, <2>2, <3>1, ChargeFacts
    <3>3. mine(c, b, k) => Draw!StateAt(file, c, k, b) = DrawnBy(r, d) /\ b = BucketFor(r)
      BY DEF DrawnBy
    <3> QED
      BY <1>1, <2>2, <3>2, <3>3
  <2> QED
    BY <1>3, <2>1, <2>2
<1>13. ASSUME NEW c \in Cred, NEW b \in Bucket, NEW k \in Int, mine(c, b, k)
       PROVE  r \in Draw!StateAt(file', c, k, b).seen
  <2>1. CASE r \in DrawnBy(r, d).seen /\ file' = file
    BY <1>13, <2>1 DEF DrawnBy
  <2>2. CASE file' = Draw!Charge(file, r, d)
    <3>1. k >= d - 1
      BY <1>5, <1>13
    <3>2. Draw!StateAt(file', c, k, b).seen = Draw!StateAt(file, c, k, b).seen \cup {r}
      BY <1>1, <1>5, <1>6, <1>13, <2>2, <3>1, ChargeFacts
    <3> QED
      BY <3>2
  <2> QED
    BY <1>3, <2>1, <2>2
<1>14. ASSUME NEW c \in Cred, NEW b \in Bucket, NEW k \in Int, k >= today - 1
       PROVE  Within(c, b, k)' /\ Counted(c, b, k)'
  <2> DEFINE state == Draw!StateAt(file, c, k, b)
             next == Draw!StateAt(file', c, k, b)
             start == Draw!Inherited(c, b, k)
             got == Draw!MintedIn(c, b, k)
  <2>1. /\ state \in Draw!State /\ start \in Draw!State /\ got \subseteq Req /\ peak[b] \in Nat
    BY CountTypes DEF DrawInv
  <2>2. /\ start.seen \subseteq state.seen /\ got \subseteq state.seen
        /\ state.used = start.used + Draw!SizeOf(state.seen \ start.seen)
        /\ state.used <= start.used \/ state.used <= peak[b]
    BY <1>14 DEF DrawInv, DrawCounts, Counted
  <2>3. /\ Draw!MintedIn(c, b, k)' \subseteq got \cup {r}
        /\ r \in Draw!MintedIn(c, b, k)' => r \in got \/ r \in next.seen
    BY <1>11, <1>13
  <2>4. \/ next = state
        \/ /\ r \notin state.seen /\ state.used + Body[r].size <= peak[b]
           /\ next = [used |-> state.used + Body[r].size, seen |-> state.seen \cup {r}]
    BY <1>12, <1>14
  <2>5. Draw!Inherited(c, b, k)' = start
    BY DEF Draw!Inherited
  <2> SUFFICES /\ start.seen \subseteq next.seen
               /\ Draw!MintedIn(c, b, k)' \subseteq next.seen
               /\ next.used = start.used + Draw!SizeOf(next.seen \ start.seen)
               /\ next.used <= start.used \/ next.used <= peak[b]
    <3>1. next \in Draw!State
      BY <1>7, StateType
    <3>2. Counted(c, b, k)'
      BY <1>2, <2>5 DEF Counted
    <3> DEFINE more == Draw!MintedIn(c, b, k)'
    <3> HIDE DEF next, start, state, got, more
    <3>3. more \in SUBSET next.seen
      BY DEF more
    <3>4. \/ start.used + Draw!SizeOf(more \ start.seen) <= start.used
          \/ start.used + Draw!SizeOf(more \ start.seen) <= peak[b]
      BY <2>1, <3>1, <3>3, CountedBounds
    <3>5. Within(c, b, k)'
      BY <1>2, <2>5, <3>4 DEF Within, more
    <3> QED
      BY <3>2, <3>5
  <2> HIDE DEF state, next, start, got
  <2>6. state.seen \subseteq Req /\ state.used \in Nat /\ start.used \in Nat /\ start.seen \subseteq Req
    BY <2>1 DEF Draw!State
  <2>7. CASE next = state
    BY <2>2, <2>3, <2>7
  <2>8. CASE /\ r \notin state.seen /\ state.used + Body[r].size <= peak[b]
             /\ next = [used |-> state.used + Body[r].size, seen |-> state.seen \cup {r}]
    <3>1. next.used = state.used + Body[r].size /\ next.seen = state.seen \cup {r}
      BY <2>8
    <3>2. next.seen \ start.seen = (state.seen \ start.seen) \cup {r}
      BY <2>2, <2>8, <3>1
    <3>3. /\ Draw!SizeOf((state.seen \ start.seen) \cup {r})
                 = Draw!SizeOf(state.seen \ start.seen) + Body[r].size
          /\ Draw!SizeOf(state.seen \ start.seen) \in Nat
      <4>1. state.seen \ start.seen \in SUBSET Req /\ r \in Req \ (state.seen \ start.seen)
        BY <1>1, <2>6, <2>8
      <4> QED
        BY <4>1, SizeFacts
    <3>4. next.used = start.used + Draw!SizeOf(next.seen \ start.seen)
      <4>1. Draw!SizeOf(next.seen \ start.seen) = Draw!SizeOf(state.seen \ start.seen) + Body[r].size
        BY <3>2, <3>3
      <4> QED
        BY <1>4, <2>2, <2>6, <3>1, <3>3, <4>1
    <3> QED
      BY <2>2, <2>3, <2>8, <3>1, <3>4
  <2> QED
    BY <2>4, <2>7, <2>8
<1>15. DrawCounts'
  <2> SUFFICES ASSUME NEW c \in Cred, NEW b \in Bucket, NEW k \in Int
               PROVE  Within(c, b, k)' /\ (k >= today' - 1 => Counted(c, b, k)')
    BY DEF DrawCounts
  <2>1. CASE k >= today - 1
    BY <1>14, <2>1
  <2>2. CASE ~(k >= today - 1)
    <3>1. ~mine(c, b, k)
      BY <1>1, <1>5, <2>2
    <3>2. Draw!MintedIn(c, b, k)' = Draw!MintedIn(c, b, k)
      BY <1>11, <3>1
    <3>3. Within(c, b, k)
      BY DEF DrawInv, DrawCounts
    <3> QED
      BY <1>2, <2>2, <3>2, <3>3 DEF Within, Draw!Inherited
  <2> QED
    BY <2>1, <2>2
<1> QED
  BY <1>9, <1>10, <1>15 DEF DrawInv

\* A step that leaves the draws under way, the file and the answers alone, whatever it does to
\* the limits.
LEMMA SettingsStep ==
    ASSUME Writable, DrawInv, today' = today, file' = file, chain' = chain, call' = call,
           minted' = minted,
           budget' \in [Bucket -> [quota : Quota, maxDraws : MaxDraws]], peak' \in [Bucket -> Nat],
           \A b \in Bucket : peak[b] <= peak'[b] /\ budget'[b].quota <= peak'[b]
    PROVE  DrawInv'
<1>1. \A g \in Handler : Draw!Drawing(g)' <=> Draw!Drawing(g)
  BY DEF Draw!Drawing
<1>2. DrawTyped'
  BY <1>1 DEF DrawInv, DrawTyped
<1>3. ASSUME NEW g \in Handler PROVE CallFacts(g)'
  <2>1. call[g].pc = "signing" => Draw!Locked(g)'
    BY LockFacts DEF Draw!Locked, DrawInv
  <2>2. call[g].pc \in {"queued", "signing"} => call[g].day \in (today' - 1)..today'
    BY DEF CallFacts, Draw!Idle, DrawInv
  <2> QED
    BY <1>2, <2>1, <2>2, CallStable DEF DrawInv
<1>4. today' >= today
  BY DEF DrawInv, DrawTyped
<1>5. DrawCounts'
  BY <1>2, <1>4, CountsStable DEF DrawInv
<1> QED
  BY <1>2, <1>3, <1>5 DEF DrawInv

LEMMA SetQuotaStep ==
    ASSUME Writable, DrawInv, NEW quota \in [Bucket -> Quota], Draw!SetQuota(quota)
    PROVE  DrawInv'
<1>1. \A b \in Bucket : quota[b] \in Nat /\ quota[b] \in Quota /\ peak[b] \in Nat
  BY DEF Writable, Draw!DrawAssumption, DrawInv, DrawTyped
<1>2. /\ budget' = [b \in Bucket |-> [budget[b] EXCEPT !.quota = quota[b]]]
      /\ peak' = [b \in Bucket |-> Draw!Max({peak[b], quota[b]})]
      /\ today' = today /\ file' = file /\ chain' = chain /\ call' = call /\ minted' = minted
  BY DEF Draw!SetQuota
<1>3. ASSUME NEW b \in Bucket
      PROVE  /\ peak'[b] \in Nat /\ peak[b] <= peak'[b] /\ quota[b] <= peak'[b]
             /\ budget'[b] \in [quota : Quota, maxDraws : MaxDraws] /\ budget'[b].quota = quota[b]
  <2>1. /\ Draw!Max({peak[b], quota[b]}) \in Nat /\ Draw!Max({peak[b], quota[b]}) >= peak[b]
        /\ Draw!Max({peak[b], quota[b]}) >= quota[b]
    BY <1>1, LargerOfTwo
  <2>2. budget[b] \in [quota : Quota, maxDraws : MaxDraws]
    BY DEF DrawInv, DrawTyped
  <2> QED
    BY <1>1, <1>2, <2>1, <2>2
<1>4. budget' \in [Bucket -> [quota : Quota, maxDraws : MaxDraws]] /\ peak' \in [Bucket -> Nat]
  BY <1>2, <1>3
<1> QED
  BY <1>2, <1>3, <1>4, SettingsStep

LEMMA SetMaxDrawsStep ==
    ASSUME Writable, DrawInv, NEW limit \in [Bucket -> MaxDraws], Draw!SetMaxDraws(limit)
    PROVE  DrawInv'
<1>1. /\ budget' = [b \in Bucket |-> [budget[b] EXCEPT !.maxDraws = limit[b]]] /\ peak' = peak
      /\ today' = today /\ file' = file /\ chain' = chain /\ call' = call /\ minted' = minted
  BY DEF Draw!SetMaxDraws
<1>2. ASSUME NEW b \in Bucket
      PROVE  /\ budget'[b] \in [quota : Quota, maxDraws : MaxDraws]
             /\ peak[b] <= peak'[b] /\ budget'[b].quota <= peak'[b]
  <2>1. budget[b] \in [quota : Quota, maxDraws : MaxDraws] /\ budget[b].quota <= peak[b] /\ peak[b] \in Nat
    BY DEF DrawInv, DrawTyped
  <2> QED
    BY <1>1, <2>1
<1>3. budget' \in [Bucket -> [quota : Quota, maxDraws : MaxDraws]] /\ peak' \in [Bucket -> Nat]
  BY <1>1, <1>2 DEF DrawInv, DrawTyped
<1> QED
  BY <1>1, <1>2, <1>3, SettingsStep

LEMMA NewDayStep ==
    ASSUME Writable, DrawInv, Draw!NewDay
    PROVE  DrawInv'
<1>1. /\ today' = today + 1 /\ today < MaxDay
      /\ \A h \in Handler : Draw!Drawing(h) => call[h].day = today
      /\ budget' = budget /\ file' = file /\ chain' = chain /\ call' = call
      /\ minted' = minted /\ peak' = peak
  BY DEF Draw!NewDay
<1>2. today \in Int /\ today' \in 1..MaxDay /\ today' >= today /\ today \in (today' - 1)..today'
  BY <1>1 DEF DrawInv, DrawTyped, Writable, Draw!DrawAssumption
<1>3. \A g \in Handler : Draw!Drawing(g)' <=> Draw!Drawing(g)
  BY <1>1 DEF Draw!Drawing
<1>4. DrawTyped'
  BY <1>1, <1>2, <1>3 DEF DrawInv, DrawTyped
<1>5. \A b \in Bucket : peak[b] <= peak'[b]
  BY <1>1 DEF DrawInv, DrawTyped
<1>6. ASSUME NEW g \in Handler PROVE CallFacts(g)'
  <2>1. call[g].pc = "signing" => Draw!Locked(g)'
    BY <1>1, LockFacts DEF Draw!Locked, DrawInv
  <2>2. call[g].pc \in {"queued", "signing"} => call[g].day \in (today' - 1)..today'
    BY <1>1, <1>2 DEF Draw!Drawing
  <2> QED
    BY <1>1, <1>4, <1>5, <2>1, <2>2, CallStable DEF DrawInv
<1>7. DrawCounts'
  BY <1>1, <1>2, <1>4, <1>5, CountsStable DEF DrawInv
<1> QED
  BY <1>4, <1>6, <1>7 DEF DrawInv

LEMMA CrashStep ==
    ASSUME Writable, DrawInv, Draw!Crash
    PROVE  DrawInv'
<1>1. /\ chain' = <<>> /\ call' = [h \in Handler |-> Draw!Idle]
      /\ today' = today /\ budget' = budget /\ file' = file /\ minted' = minted /\ peak' = peak
  BY DEF Draw!Crash
<1>2. chain' \in Seq(Handler) /\ IsInjective(chain') /\ ToSet(chain') = {}
  <2>1. DOMAIN chain' = {}
    BY <1>1
  <2> QED
    BY <1>1, <2>1 DEF IsInjective, ToSet
<1>3. \A g \in Handler : ~Draw!Drawing(g)'
  BY <1>1 DEF Draw!Drawing, Draw!Idle
<1>4. DrawTyped'
  BY <1>1, <1>2, <1>3 DEF DrawInv, DrawTyped
<1>5. \A g \in Handler : CallFacts(g)'
  BY <1>1 DEF CallFacts
<1>6. (\A b \in Bucket : peak[b] <= peak'[b]) /\ today' >= today
  BY <1>1 DEF DrawInv, DrawTyped
<1>7. DrawCounts'
  BY <1>1, <1>4, <1>6, CountsStable DEF DrawInv
<1> QED
  BY <1>4, <1>5, <1>7 DEF DrawInv

LEMMA DrawNext ==
    ASSUME Writable, DrawInv, [Draw!Next]_Draw!vars
    PROVE  DrawInv'
<1>1. CASE UNCHANGED Draw!vars
  <2>1. budget' \in [Bucket -> [quota : Quota, maxDraws : MaxDraws]] /\ peak' \in [Bucket -> Nat]
    BY <1>1 DEF Draw!vars, DrawInv, DrawTyped
  <2>2. \A b \in Bucket : peak[b] <= peak'[b] /\ budget'[b].quota <= peak'[b]
    BY <1>1 DEF Draw!vars, DrawInv, DrawTyped
  <2> QED
    BY <1>1, <2>1, <2>2, SettingsStep DEF Draw!vars
<1>2. ASSUME NEW h \in Handler, NEW r \in Req, Draw!Receive(h, r) PROVE DrawInv'
  BY <1>2, ReceiveStep
<1>3. ASSUME NEW h \in Handler, Draw!Verified(h) \/ Draw!Load(h) \/ Draw!SignFails(h) \/ Draw!Sign(h)
      PROVE  DrawInv'
  BY <1>3, VerifiedStep, LoadStep, SignFailsStep, SignStep
<1>4. ASSUME NEW quota \in [Bucket -> Quota], Draw!SetQuota(quota) PROVE DrawInv'
  BY <1>4, SetQuotaStep
<1>5. ASSUME NEW limit \in [Bucket -> MaxDraws], Draw!SetMaxDraws(limit) PROVE DrawInv'
  BY <1>5, SetMaxDrawsStep
<1>6. ASSUME NEW c \in Cred, Draw!SetReadAccess(c) PROVE DrawInv'
  <2>1. /\ today' = today /\ file' = file /\ chain' = chain /\ call' = call /\ minted' = minted
        /\ budget' = budget /\ peak' = peak
    BY <1>6 DEF Draw!SetReadAccess
  <2>2. /\ budget' \in [Bucket -> [quota : Quota, maxDraws : MaxDraws]] /\ peak' \in [Bucket -> Nat]
        /\ \A b \in Bucket : peak[b] <= peak'[b] /\ budget'[b].quota <= peak'[b]
    BY <2>1 DEF DrawInv, DrawTyped
  <2> QED
    BY <2>1, <2>2, SettingsStep
<1> QED
  BY <1>1, <1>2, <1>3, <1>4, <1>5, <1>6, NewDayStep, CrashStep DEF Draw!Next

\* What the invariant says of the properties the runs check.
LEMMA DrawSound ==
    ASSUME Writable, DrawInv
    PROVE  Draw!TypeOK /\ Draw!MintedIsCharged /\ Draw!QuotaKept
<1>1. Draw!TypeOK
  BY DrawLibrary DEF DrawInv, DrawTyped, Draw!TypeOK
<1>2. Draw!MintedIsCharged
  <2> SUFFICES ASSUME NEW c \in Cred, NEW b \in Bucket, NEW d \in (today - 1)..today
               PROVE  /\ Draw!MintedIn(c, b, d) \subseteq Draw!StateAt(file, c, d, b).seen
                      /\ Draw!StateAt(file, c, d, b).used =
                             Draw!Inherited(c, b, d).used +
                             Draw!SizeOf(Draw!StateAt(file, c, d, b).seen \ Draw!Inherited(c, b, d).seen)
    BY DEF Draw!MintedIsCharged
  <2>1. d \in Int /\ d >= today - 1
    BY DEF DrawInv, DrawTyped
  <2> QED
    BY <2>1 DEF DrawInv, DrawCounts, Counted
<1>3. Draw!QuotaKept
  <2> SUFFICES ASSUME NEW c \in Cred, NEW b \in Bucket, NEW d \in 1..MaxDay,
                      Draw!Inherited(c, b, d).used <= peak[b]
               PROVE  Draw!Inherited(c, b, d).used
                        + Draw!SizeOf(Draw!MintedIn(c, b, d) \ Draw!Inherited(c, b, d).seen) <= peak[b]
    BY DEF Draw!QuotaKept
  <2>1. d \in Int
    BY DEF Writable, Draw!DrawAssumption
  <2>2. Within(c, b, d)
    BY <2>1 DEF DrawInv, DrawCounts
  <2>3. /\ Draw!Inherited(c, b, d) \in Draw!State /\ peak[b] \in Nat /\ Draw!MintedIn(c, b, d) \subseteq Req
    BY <2>1, CountTypes DEF DrawInv
  <2>4. Draw!Inherited(c, b, d).used \in Nat
    BY <2>3 DEF Draw!State
  <2>5. Draw!SizeOf(Draw!MintedIn(c, b, d) \ Draw!Inherited(c, b, d).seen) \in Nat
    BY <2>3, SizeFacts
  <2> QED
    BY <2>2, <2>3, <2>4, <2>5 DEF Within
<1> QED
  BY <1>1, <1>2, <1>3


----------------------------------------------------------------------------
(* Mailbox: what is claimed, noted and answered.                            *)

\* The relay keeps finitely many requests.
MailFinite == Mail!MailboxAssumption /\ IsFiniteSet(MailRequest)

\* The requests in a handler's hands.
Busy == {r \in MailRequest : handler[r] # "idle"}

SubShape == sub = [open |-> sub.open, since |-> sub.since, wire |-> sub.wire]

\* Every claimed id is in a handler's hands or noted as processed, never both.
Claims ==
    /\ Busy \subseteq seen /\ Busy \cap DOMAIN seenAt = {}
    /\ seen \subseteq Busy \cup DOMAIN seenAt

\* A request is noted, in memory or in the sidecar, only once its response is at the relay
\* or it was dropped on purpose.
Served ==
    /\ \A r \in MailRequest : handler[r] = "stored" => r \in answered
    /\ DOMAIN seenAt \cup DOMAIN disk.seen \subseteq answered \cup Junk
    /\ DOMAIN disk.seen \subseteq Mail!Stored

\* inFlight counts the handlers at work, and stays within the cap.
SlotsExact == inFlight = Cardinality(Busy) /\ (MaxConc # 0 => inFlight <= MaxConc)

\* The inductive invariant.
MailInv == Mail!TypeOK /\ SubShape /\ Claims /\ Served /\ SlotsExact

----------------------------------------------------------------------------
(* Helpers.                                                                 *)

LEMMA MailLibrary == \A S : Mail!Cardinality(S) = Cardinality(S)
BY DEF Mail!Cardinality, Cardinality

LEMMA JoinedFacts ==
    ASSUME NEW f, NEW x, NEW v
    PROVE  /\ DOMAIN Mail!Joined(f, x, v) = DOMAIN f \cup {x}
           /\ Mail!Joined(f, x, v)[x] = v
           /\ \A y \in DOMAIN f \ {x} : Mail!Joined(f, x, v)[y] = f[y]
BY DEF Mail!Joined

\* A note joins, or leaves, a set of times.
LEMMA TimesKept ==
    ASSUME NEW f, Mail!Times(f), NEW r \in MailRequest, NEW t \in Nat, NEW S
    PROVE  Mail!Times(Mail!Joined(f, r, t)) /\ Mail!Times(Mail!Without(f, S))
<1>1. Mail!Times(Mail!Joined(f, r, t))
  BY DEF Mail!Times, Mail!Joined
<1>2. Mail!Times(Mail!Without(f, S))
  BY DEF Mail!Times, Mail!Without
<1> QED
  BY <1>1, <1>2

\* What a request is noted with is a time.
LEMMA ClampType ==
    ASSUME MailFinite, NEW t \in Nat, NEW at \in Nat
    PROVE  Mail!clampHighWater(t, at) \in Nat
BY DEF Mail!clampHighWater

LEMMA BusyFinite ==
    ASSUME MailFinite
    PROVE  IsFiniteSet(Busy) /\ Cardinality(Busy) \in Nat /\ Cardinality(Busy) <= Cardinality(MailRequest)
           /\ Cardinality(MailRequest) \in Nat
<1>1. Busy \subseteq MailRequest /\ IsFiniteSet(MailRequest)
  BY DEF Busy, MailFinite
<1> QED
  BY <1>1, FS_Subset, FS_CardinalityType

\* A handler takes a slot.
LEMMA SlotTaken ==
    ASSUME MailFinite, NEW B \in SUBSET MailRequest, NEW r \in MailRequest, r \notin B
    PROVE  /\ Cardinality(B) \in Nat
           /\ Cardinality(B \cup {r}) = Cardinality(B) + 1
           /\ Cardinality(B \cup {r}) \in 0..Cardinality(MailRequest)
<1>1. IsFiniteSet(B) /\ B \cup {r} \subseteq MailRequest /\ IsFiniteSet(MailRequest)
  BY FS_Subset DEF MailFinite
<1> QED
  BY <1>1, FS_AddElement, FS_Subset, FS_CardinalityType

\* Handlers give their slots back.
LEMMA SlotsFreed ==
    ASSUME MailFinite, NEW B \in SUBSET MailRequest, NEW S \in SUBSET B
    PROVE  /\ Cardinality(B) \in Nat /\ Cardinality(S) \in Nat
           /\ Cardinality(B \ S) = Cardinality(B) - Cardinality(S)
           /\ Cardinality(B \ S) \in 0..Cardinality(MailRequest)
<1>1. IsFiniteSet(B) /\ IsFiniteSet(S) /\ B \ S \subseteq MailRequest /\ IsFiniteSet(MailRequest)
  BY FS_Subset DEF MailFinite
<1>2. B \cap S = S
  OBVIOUS
<1>3. Cardinality(B \ S) = Cardinality(B) - Cardinality(S)
  BY <1>1, <1>2, FS_Difference
<1> QED
  BY <1>1, <1>3, FS_Subset, FS_CardinalityType

----------------------------------------------------------------------------
(* Steps that several actions share.                                        *)

\* The claims S given up, and the slots with them: Release, and the failed responses of Close.
GivesUp(S) ==
    /\ \A r \in MailRequest : handler'[r] = "idle" <=> r \in S \/ handler[r] = "idle"
    /\ \A r \in MailRequest : handler'[r] = "stored" => handler[r] = "stored"
    /\ handler' \in [MailRequest -> {"idle", "work", "orphan", "sent", "stored"}]
    /\ seen' = seen \ S /\ seenAt' = Mail!Without(seenAt, S)
    /\ inFlight' = inFlight - Cardinality(S)
    /\ SubShape' /\ sub'.open \in BOOLEAN /\ sub'.since \in Nat /\ sub'.wire \subseteq Mail!Stored
    /\ UNCHANGED <<now, created, answered, highWater, timer, disk, done, flushed>>

LEMMA GivesUpKeeps ==
    ASSUME MailFinite, MailInv, NEW S \in SUBSET Busy, GivesUp(S)
    PROVE  MailInv'
<1>1. Busy' = Busy \ S /\ Busy \subseteq MailRequest
  BY DEF GivesUp, Busy
<1>2. /\ Cardinality(Busy) \in Nat /\ Cardinality(S) \in Nat
      /\ Cardinality(Busy \ S) = Cardinality(Busy) - Cardinality(S)
      /\ Cardinality(Busy \ S) \in 0..Cardinality(MailRequest)
  BY <1>1, SlotsFreed
<1>3. DOMAIN seenAt' = DOMAIN seenAt /\ DOMAIN seenAt \cap S = {}
  BY DEF GivesUp, MailInv, Claims, Mail!Without
<1>4. SlotsExact' /\ inFlight' \in 0..Cardinality(MailRequest)
  BY <1>1, <1>2, BusyFinite DEF GivesUp, MailInv, SlotsExact, MailFinite, Mail!MailboxAssumption
<1>5. Claims'
  BY <1>1, <1>3 DEF GivesUp, MailInv, Claims
<1>6. Served'
  BY <1>3 DEF GivesUp, MailInv, Served, Mail!Stored
<1>7. Mail!Times(seenAt)'
  BY <1>3 DEF GivesUp, MailInv, Mail!TypeOK, Mail!Times, Mail!Without
<1>8. Mail!TypeOK'
  BY <1>3, <1>4, <1>7, MailLibrary DEF GivesUp, MailInv, Mail!TypeOK, Mail!Stored, Claims
<1> QED
  BY <1>4, <1>5, <1>6, <1>8 DEF MailInv, GivesUp

\* A served request is noted: the end of Drop and of Ack.
LEMMA NoteKeeps ==
    ASSUME MailFinite, MailInv, NEW r \in Busy, r \in answered \cup Junk, Mail!NoteProcessed(r),
           UNCHANGED answered
    PROVE  MailInv'
<1> DEFINE t == Mail!clampHighWater(created[r], now)
<1>1. /\ r \in MailRequest /\ r \in seen /\ r \in Mail!Stored /\ now \in Nat /\ created[r] \in Nat
      /\ r \notin DOMAIN seenAt
  BY DEF MailInv, Mail!TypeOK, Claims, Mail!Times, Mail!Stored, Busy
<1>2. t \in Nat
  BY <1>1, ClampType
<1> HIDE DEF t
<1>3. /\ seenAt' = Mail!Joined(seenAt, r, t)
      /\ highWater' = IF t > highWater THEN t ELSE highWater
      /\ timer' = TRUE /\ handler' = [handler EXCEPT ![r] = "idle"]
      /\ inFlight' = inFlight - 1 /\ done' = done \cup {r}
      /\ UNCHANGED <<now, created, sub, seen, disk, flushed, answered>>
  BY DEF Mail!NoteProcessed, t
<1>4. Busy' = Busy \ {r} /\ Busy \subseteq MailRequest
  BY <1>1, <1>3 DEF Busy, MailInv, Mail!TypeOK
<1>5. DOMAIN seenAt' = DOMAIN seenAt \cup {r}
  BY <1>3, JoinedFacts
<1>6. Cardinality({r}) = 1
  BY FS_Singleton
<1>7. /\ Cardinality(Busy) \in Nat
      /\ Cardinality(Busy \ {r}) = Cardinality(Busy) - 1
      /\ Cardinality(Busy \ {r}) \in 0..Cardinality(MailRequest)
  BY <1>4, <1>6, SlotsFreed
<1>8. SlotsExact' /\ inFlight' \in 0..Cardinality(MailRequest)
  BY <1>3, <1>4, <1>7 DEF MailInv, SlotsExact, MailFinite, Mail!MailboxAssumption
<1>9. Claims'
  BY <1>1, <1>3, <1>4, <1>5 DEF MailInv, Claims
<1>10. Served'
  BY <1>3, <1>5 DEF MailInv, Served, Mail!TypeOK, Mail!Stored
<1>11. Mail!Times(seenAt)'
  BY <1>1, <1>2, <1>3, TimesKept DEF MailInv, Mail!TypeOK
<1>12. Mail!TypeOK'
  BY <1>1, <1>2, <1>3, <1>5, <1>8, <1>11, MailLibrary DEF MailInv, Mail!TypeOK, Mail!Stored, Mail!Times
<1> QED
  BY <1>3, <1>8, <1>9, <1>10, <1>12 DEF MailInv, SubShape

\* Steps that touch neither the organizer's memory nor its sidecar.
LEMMA OutsideKeeps ==
    ASSUME MailFinite, MailInv, UNCHANGED <<answered, Mail!memory, disk, done, flushed>>,
           now' \in 0..MaxNow, Mail!Times(created'), Mail!Stored \subseteq Mail!Stored', SubShape',
           sub'.open \in BOOLEAN, sub'.since \in Nat, sub'.wire \subseteq Mail!Stored'
    PROVE  MailInv'
<1>1. UNCHANGED <<answered, seen, seenAt, highWater, inFlight, handler, timer, disk, done,
                  flushed>>
  BY DEF Mail!memory
<1>2. Mail!TypeOK'
  BY <1>1 DEF MailInv, Mail!TypeOK
<1>3. Busy' = Busy
  BY <1>1 DEF Busy
<1>4. Claims' /\ Served' /\ SlotsExact'
  BY <1>1, <1>3 DEF MailInv, Claims, Served, SlotsExact
<1> QED
  BY <1>2, <1>4 DEF MailInv

\* A handler goes on with its work.
LEMMA WorkKeeps ==
    ASSUME MailFinite, MailInv, NEW r \in Busy, NEW w \in {"sent", "stored"},
           handler' = [handler EXCEPT ![r] = w], answered \subseteq answered',
           answered' \subseteq answered \cup {r}, w = "stored" => r \in answered',
           UNCHANGED <<now, created, sub, seen, seenAt, highWater, inFlight, timer, disk, done,
                       flushed>>
    PROVE  MailInv'
<1>1. r \in MailRequest /\ r \in seen /\ r \in Mail!Stored
  BY DEF MailInv, Mail!TypeOK, Claims, Busy
<1>2. Busy' = Busy
  BY <1>1 DEF Busy, MailInv, Mail!TypeOK
<1>3. Claims' /\ SlotsExact'
  BY <1>2 DEF MailInv, Claims, SlotsExact
<1>4. Served'
  BY <1>1 DEF MailInv, Served, Mail!TypeOK, Mail!Stored
<1>5. Mail!TypeOK'
  BY <1>1 DEF MailInv, Mail!TypeOK, Mail!Stored
<1> QED
  BY <1>3, <1>4, <1>5 DEF MailInv, SubShape

\* Every step keeps the invariant.
LEMMA MailNext == MailFinite /\ MailInv /\ [Mail!Next]_Mail!vars => MailInv'
<1> SUFFICES ASSUME MailFinite, MailInv, [Mail!Next]_Mail!vars PROVE MailInv'
  OBVIOUS
<1>0. /\ Mail!TypeOK /\ SubShape /\ Claims /\ Served /\ SlotsExact
      /\ now \in Nat /\ MaxNow \in Nat /\ MaxConc \in Nat /\ Overlap \in Nat /\ Drift \subseteq Int
      /\ Busy \subseteq MailRequest
  BY DEF MailInv, Mail!TypeOK, MailFinite, Mail!MailboxAssumption, Busy
<1>1. CASE Mail!Tick
  <2>1. /\ now' \in 0..MaxNow /\ UNCHANGED <<created, sub, answered, Mail!memory, disk, done, flushed>>
    BY <1>0, <1>1 DEF Mail!Tick, Mail!hist, Mail!TypeOK
  <2> QED
    BY <1>0, <2>1, OutsideKeeps DEF Mail!TypeOK, Mail!Stored, SubShape
<1>2. CASE Mail!Connect
  <2>1. /\ sub' = [open |-> TRUE, since |-> Mail!Since, wire |-> {r \in Mail!Stored : created[r] >= Mail!Since}]
        /\ UNCHANGED <<now, created, answered, Mail!memory, disk, done, flushed>>
    BY <1>2 DEF Mail!Connect, Mail!hist
  <2>2. Mail!Since \in Nat
    BY <1>0 DEF Mail!Since, Mail!TypeOK
  <2> QED
    BY <1>0, <2>1, <2>2, OutsideKeeps DEF Mail!TypeOK, Mail!Stored, SubShape
<1>3. ASSUME NEW r \in MailRequest, NEW d \in Drift, Mail!Post(r, d) PROVE MailInv'
  <2>1. /\ r \notin Mail!Stored /\ now + d \in Nat /\ created' = Mail!Joined(created, r, now + d)
        /\ sub' = sub \/ sub' = [sub EXCEPT !.wire = @ \cup {r}]
        /\ UNCHANGED <<now, answered, Mail!memory, disk, done, flushed>>
    BY <1>0, <1>3 DEF Mail!Post, Mail!hist
  <2>2. Mail!Times(created') /\ Mail!Stored' = Mail!Stored \cup {r}
    BY <1>0, <2>1, TimesKept DEF Mail!TypeOK, Mail!Stored, Mail!Joined
  <2>3. /\ SubShape' /\ sub'.open = sub.open /\ sub'.since = sub.since
        /\ sub'.wire \subseteq sub.wire \cup {r}
    BY <1>0, <2>1 DEF SubShape
  <2> QED
    BY <1>0, <2>1, <2>2, <2>3, OutsideKeeps DEF Mail!TypeOK
<1>4. ASSUME NEW r \in MailRequest, Mail!Resend(r) PROVE MailInv'
  <2>1. UNCHANGED <<now, created, answered, sub, Mail!memory, disk, done, flushed>>
    BY <1>4 DEF Mail!Resend
  <2> QED
    BY <1>0, <2>1, OutsideKeeps DEF Mail!TypeOK, Mail!Stored, SubShape
<1>5. CASE Mail!Close
  <2> DEFINE failing == {r \in MailRequest : Mail!Waiting(handler[r])}
  <2>1. failing \in SUBSET Busy
    BY DEF Mail!Waiting, Busy
  <2>2. \A r \in MailRequest : handler'[r] = "idle" <=> r \in failing \/ handler[r] = "idle"
    BY <1>5 DEF Mail!Close, Mail!Waiting
  <2>3. \A r \in MailRequest : handler'[r] = "stored" => handler[r] = "stored"
    BY <1>5 DEF Mail!Close, Mail!Waiting
  <2>4. handler' \in [MailRequest -> {"idle", "work", "orphan", "sent", "stored"}]
    BY <1>0, <1>5 DEF Mail!Close, Mail!TypeOK
  <2>5. /\ seen' = seen \ failing /\ seenAt' = Mail!Without(seenAt, failing)
        /\ inFlight' = inFlight - Cardinality(failing)
        /\ UNCHANGED <<now, created, answered, highWater, timer, disk, done, flushed>>
    BY <1>5, MailLibrary DEF Mail!Close
  <2>6. SubShape' /\ sub'.open \in BOOLEAN /\ sub'.since \in Nat /\ sub'.wire \subseteq Mail!Stored
    BY <1>5 DEF Mail!Close, Mail!Closed, SubShape
  <2> HIDE DEF failing
  <2>7. GivesUp(failing)
    BY <2>2, <2>3, <2>4, <2>5, <2>6, Zenon DEF GivesUp
  <2> QED
    BY <2>1, <2>7, GivesUpKeeps
<1>6. ASSUME NEW r \in MailRequest, handler[r] # "idle", Mail!Release({r}),
             UNCHANGED <<now, created, answered, sub, highWater, timer, disk, done, flushed>>
      PROVE  MailInv'
  <2>1. {r} \in SUBSET Busy
    BY <1>6 DEF Busy
  <2>2. GivesUp({r})
    BY <1>0, <1>6, MailLibrary DEF Mail!Release, GivesUp, SubShape, Mail!TypeOK
  <2> QED
    BY <2>1, <2>2, GivesUpKeeps
<1>7. ASSUME NEW r \in MailRequest, Mail!Receive(r) PROVE MailInv'
  <2>1. /\ sub' = [sub EXCEPT !.wire = @ \ {r}] /\ r \in sub.wire
        /\ UNCHANGED <<now, created, answered, seenAt, highWater, timer, disk, done, flushed>>
    BY <1>7 DEF Mail!Receive
  <2>2. SubShape' /\ sub'.open = sub.open /\ sub'.since = sub.since /\ sub'.wire \subseteq sub.wire
    BY <1>0, <2>1 DEF SubShape
  <2>3. CASE UNCHANGED <<seen, inFlight, handler>>
    BY <1>0, <2>1, <2>2, <2>3, OutsideKeeps DEF Mail!TypeOK, Mail!Stored, Mail!memory
  <2>4. CASE /\ Mail!HasRoom /\ Mail!shouldProcess(r) /\ seen' = seen \cup {r}
             /\ inFlight' = inFlight + 1 /\ handler' = [handler EXCEPT ![r] = "work"]
    <3>1. r \notin seen /\ r \in Mail!Stored
      BY <1>0, <2>1, <2>4 DEF Mail!shouldProcess, Mail!TypeOK
    <3>2. Busy' = Busy \cup {r} /\ r \notin Busy
      BY <1>0, <2>4, <3>1 DEF Busy, Mail!TypeOK, Claims
    <3>3. /\ Cardinality(Busy) \in Nat /\ Cardinality(Busy \cup {r}) = Cardinality(Busy) + 1
          /\ Cardinality(Busy \cup {r}) \in 0..Cardinality(MailRequest)
      BY <1>0, <3>2, SlotTaken
    <3>4. SlotsExact' /\ inFlight' \in 0..Cardinality(MailRequest)
      BY <1>0, <2>4, <3>2, <3>3 DEF SlotsExact, Mail!HasRoom
    <3>5. Claims'
      BY <1>0, <2>1, <2>4, <3>1, <3>2 DEF Claims, Mail!TypeOK
    <3>6. Served'
      BY <1>0, <2>1, <2>4 DEF Served, Mail!TypeOK, Mail!Stored
    <3>7. Mail!TypeOK'
      BY <1>0, <2>1, <2>2, <2>4, <3>1, <3>4, MailLibrary DEF Mail!TypeOK, Mail!Stored
    <3> QED
      BY <2>2, <3>4, <3>5, <3>6, <3>7 DEF MailInv
  <2> QED
    BY <1>7, <2>3, <2>4 DEF Mail!Receive
<1>8. ASSUME NEW r \in MailRequest, Mail!Drop(r) PROVE MailInv'
  <2>1. r \in Busy /\ r \in answered \cup Junk /\ Mail!NoteProcessed(r) /\ UNCHANGED answered
    BY <1>8 DEF Mail!Drop, Busy
  <2> QED
    BY <2>1, NoteKeeps
<1>9. ASSUME NEW r \in MailRequest, Mail!Ack(r) PROVE MailInv'
  <2>1. r \in Busy /\ r \in answered \cup Junk /\ Mail!NoteProcessed(r) /\ UNCHANGED answered
    BY <1>0, <1>9 DEF Mail!Ack, Busy, Served
  <2> QED
    BY <2>1, NoteKeeps
<1>10. ASSUME NEW r \in MailRequest, Mail!Send(r) PROVE MailInv'
  <2>1. r \in Busy
    BY <1>10 DEF Mail!Send, Busy
  <2> QED
    BY <1>10, <2>1, WorkKeeps DEF Mail!Send, Mail!hist
<1>11. ASSUME NEW r \in MailRequest, Mail!RelayStores(r) PROVE MailInv'
  <2>1. r \in Busy
    BY <1>11 DEF Mail!RelayStores, Busy
  <2> QED
    BY <1>11, <2>1, WorkKeeps DEF Mail!RelayStores, Mail!hist
<1>12. ASSUME NEW r \in MailRequest, Mail!SendFails(r) PROVE MailInv'
  BY <1>6, <1>12 DEF Mail!SendFails
<1>13. ASSUME NEW r \in MailRequest, Mail!AckFails(r) PROVE MailInv'
  BY <1>6, <1>13 DEF Mail!AckFails, Mail!Waiting
<1>14. CASE Mail!Flush
  <2> DEFINE gone == DOMAIN seenAt \ Mail!Live
  <2>1. /\ seenAt' = Mail!Without(seenAt, gone) /\ seen' = seen \ gone /\ timer' = FALSE
        /\ UNCHANGED <<now, created, answered, sub, highWater, inFlight, handler, done>>
        /\ \/ disk' = [high |-> highWater, seen |-> seenAt'] /\ flushed' = done
           \/ UNCHANGED <<disk, flushed>>
    BY <1>14 DEF Mail!Flush
  <2> HIDE DEF gone
  <2>2. DOMAIN seenAt' = DOMAIN seenAt \ gone /\ Mail!Times(seenAt')
    BY <1>0, <2>1 DEF Mail!TypeOK, Mail!Times, Mail!Without
  <2>3. Busy' = Busy /\ gone \subseteq DOMAIN seenAt
    BY <2>1 DEF Busy, gone
  <2>4. Claims' /\ SlotsExact'
    BY <1>0, <2>1, <2>2, <2>3 DEF Claims, SlotsExact
  <2>5. Served'
    BY <1>0, <2>1, <2>2 DEF Served, Mail!TypeOK, Mail!Stored
  <2>6. disk'.high \in Nat /\ Mail!Times(disk'.seen) /\ flushed' \subseteq Mail!Stored
    BY <1>0, <2>1, <2>2 DEF Mail!TypeOK
  <2>7. seen' \subseteq Mail!Stored /\ DOMAIN seenAt' \subseteq seen'
    BY <1>0, <2>1, <2>2, <2>3 DEF Mail!TypeOK, Claims
  <2>8. Mail!TypeOK'
    BY <1>0, <2>1, <2>2, <2>6, <2>7 DEF Mail!TypeOK, Mail!Stored
  <2> QED
    BY <1>0, <2>1, <2>4, <2>5, <2>8 DEF MailInv, SubShape
<1>15. CASE Mail!Crash
  <2> DEFINE kept == {r \in DOMAIN disk.seen : ~Mail!Expired(disk.seen[r])}
  <2>1. /\ sub' = Mail!Closed /\ seen' = kept /\ seenAt' = [r \in kept |-> disk.seen[r]]
        /\ highWater' = IF disk.high > 0 THEN Mail!clampHighWater(disk.high, now) ELSE 0
        /\ inFlight' = 0 /\ handler' = Mail!NoHandlers /\ timer' = FALSE /\ done' = flushed
        /\ UNCHANGED <<now, created, answered, disk, flushed>>
    BY <1>15 DEF Mail!Crash
  <2>2. kept \subseteq Mail!Stored /\ Mail!Times(seenAt') /\ DOMAIN seenAt' = kept
    BY <1>0, <2>1 DEF Served, Mail!TypeOK, Mail!Times
  <2>3. highWater' \in Nat
    BY <1>0, <2>1, ClampType DEF Mail!TypeOK
  <2>4. Busy' = {} /\ Cardinality({}) = 0
    BY <2>1, FS_EmptySet DEF Busy, Mail!NoHandlers
  <2>5. SlotsExact' /\ inFlight' \in 0..Cardinality(MailRequest)
    BY <1>0, <2>1, <2>4, BusyFinite DEF SlotsExact
  <2>6. Claims'
    BY <2>1, <2>2, <2>4 DEF Claims
  <2>7. Served'
    BY <1>0, <2>1, <2>2 DEF Served, Mail!Stored, Mail!NoHandlers
  <2>8. SubShape' /\ sub'.open \in BOOLEAN /\ sub'.since \in Nat /\ sub'.wire \subseteq Mail!Stored
    BY <2>1 DEF Mail!Closed, SubShape
  <2>9. Mail!TypeOK'
    BY <1>0, <2>1, <2>2, <2>3, <2>5, <2>8, MailLibrary DEF Mail!TypeOK, Mail!Stored, Mail!NoHandlers
  <2> QED
    BY <2>5, <2>6, <2>7, <2>8, <2>9 DEF MailInv
<1>16. CASE UNCHANGED Mail!vars
  <2>1. UNCHANGED <<now, created, answered, sub, Mail!memory, disk, done, flushed>>
    BY <1>16 DEF Mail!vars, Mail!hist
  <2> QED
    BY <1>0, <2>1, OutsideKeeps DEF Mail!TypeOK, Mail!Stored, SubShape
<1>17. ASSUME NEW r \in MailRequest, Mail!Serve(r) PROVE MailInv'
  BY <1>7, <1>8, <1>9, <1>10, <1>11, <1>12, <1>17 DEF Mail!Serve
<1>18. ASSUME NEW r \in MailRequest,
              (\E d \in Drift : Mail!Post(r, d)) \/ Mail!Resend(r) \/ Mail!Serve(r) \/ Mail!AckFails(r)
       PROVE  MailInv'
  BY <1>3, <1>4, <1>13, <1>17, <1>18
<1> QED
  BY <1>1, <1>2, <1>5, <1>14, <1>15, <1>16, <1>18 DEF Mail!Next

LEMMA MailInit ==
    ASSUME MailFinite, Mail!Init
    PROVE  MailInv
<1>1. Busy = {} /\ Cardinality({}) = 0
  BY FS_EmptySet DEF Mail!Init, Busy, Mail!NoHandlers
<1>2. SlotsExact /\ inFlight \in 0..Cardinality(MailRequest)
  BY <1>1, BusyFinite DEF Mail!Init, SlotsExact, MailFinite, Mail!MailboxAssumption
<1>3. Mail!Stored = {} /\ DOMAIN seenAt = {} /\ DOMAIN disk.seen = {}
  BY DEF Mail!Init, Mail!Stored
<1>4. Claims /\ Served
  BY <1>1, <1>3 DEF Mail!Init, Claims, Served, Mail!NoHandlers
<1>5. SubShape /\ sub.open \in BOOLEAN /\ sub.since \in Nat /\ sub.wire = {}
  BY DEF Mail!Init, Mail!Closed, SubShape
<1>6. Mail!Times(created) /\ Mail!Times(seenAt) /\ Mail!Times(disk.seen)
  BY <1>3 DEF Mail!Times, Mail!Stored
<1>8. now \in 0..MaxNow
  BY DEF Mail!Init, MailFinite, Mail!MailboxAssumption
<1>9. /\ handler \in [MailRequest -> {"idle", "work", "orphan", "sent", "stored"}]
      /\ disk.high \in Nat /\ highWater \in Nat /\ timer \in BOOLEAN
  BY DEF Mail!Init, Mail!NoHandlers
<1>10. answered = {} /\ seen = {} /\ flushed = {} /\ done = {}
  BY DEF Mail!Init
<1>7. Mail!TypeOK
  BY <1>2, <1>3, <1>5, <1>6, <1>8, <1>9, <1>10, MailLibrary DEF Mail!TypeOK
<1> QED
  BY <1>2, <1>4, <1>5, <1>7 DEF MailInv

\* What the invariant says of the properties the run checks.
LEMMA MailSound ==
    ASSUME MailInv
    PROVE  Mail!TypeOK /\ Mail!SkippedOnlyIfServed
BY DEF MailInv, Claims, Served, Mail!SkippedOnlyIfServed, Busy, Mail!TypeOK

----------------------------------------------------------------------------
(* Nothing is served twice.                                                 *)

\* No member's clock is ahead by more than the skew the high-water mark forgives.
ClocksAgree == \A d \in Drift : d <= Skew

\* With such clocks a note carries the request's own time, in memory and in the sidecar, so
\* what has been pruned from either is too old to be taken up again.
Punctual ==
    /\ \A r \in Mail!Stored : created[r] <= now + Skew
    /\ \A r \in DOMAIN seenAt : seenAt[r] = created[r]
    /\ \A r \in DOMAIN disk.seen : disk.seen[r] = created[r]
    /\ \A r \in done \ DOMAIN seenAt : Mail!Expired(created[r])
    /\ \A r \in flushed \ DOMAIN disk.seen : Mail!Expired(created[r])

\* The inductive invariant.
OnceInv == Punctual /\ Mail!ServedOnce

\* A note is the request's own time.
LEMMA NoteIsOwnTime ==
    ASSUME MailFinite, MailInv, Punctual, NEW r \in Mail!Stored
    PROVE  Mail!clampHighWater(created[r], now) = created[r]
BY DEF Punctual, Mail!clampHighWater, MailInv, Mail!TypeOK, Mail!Times, Mail!Stored, MailFinite, Mail!MailboxAssumption

\* Steps that change neither notes nor handlers, while time may pass and requests arrive.
LEMMA QuietKeeps ==
    ASSUME MailFinite, MailInv, MailInv', OnceInv, UNCHANGED <<seenAt, disk, done, flushed>>,
           now <= now', \A r \in Mail!Stored : created'[r] = created[r], Mail!Stored \subseteq Mail!Stored',
           \A r \in Mail!Stored' \ Mail!Stored : created'[r] <= now' + Skew,
           \A r \in done : handler'[r] = "idle"
    PROVE  OnceInv'
<1>1. /\ now \in Nat /\ now' \in Nat /\ Window \in Nat /\ Skew \in Nat
      /\ \A r \in Mail!Stored : created[r] \in Nat
      /\ \A r \in Mail!Stored' : created'[r] \in Nat
      /\ DOMAIN seenAt \subseteq Mail!Stored /\ DOMAIN disk.seen \subseteq Mail!Stored
      /\ done \subseteq Mail!Stored /\ flushed \subseteq Mail!Stored
  BY DEF MailInv, Mail!TypeOK, Mail!Times, Mail!Stored, MailFinite, Mail!MailboxAssumption, Served
<1>2. \A r \in Mail!Stored : Mail!Expired(created[r]) => Mail!Expired(created[r])'
  BY <1>1 DEF Mail!Expired
<1>3. \A r \in Mail!Stored' : created'[r] <= now' + Skew
  BY <1>1 DEF OnceInv, Punctual
<1>4. Punctual'
  BY <1>1, <1>2, <1>3 DEF OnceInv, Punctual
<1> QED
  BY <1>4 DEF OnceInv, Mail!ServedOnce

\* A served request is noted with its own time.
LEMMA OnceNote ==
    ASSUME MailFinite, MailInv, OnceInv, NEW r \in Busy, Mail!NoteProcessed(r)
    PROVE  OnceInv'
<1>1. r \in MailRequest /\ r \in Mail!Stored /\ r \notin DOMAIN seenAt
  BY DEF MailInv, Mail!TypeOK, Claims, Busy
<1>2. /\ seenAt' = Mail!Joined(seenAt, r, created[r]) /\ done' = done \cup {r}
      /\ handler' = [handler EXCEPT ![r] = "idle"]
      /\ UNCHANGED <<now, created, disk, flushed>>
  BY <1>1, NoteIsOwnTime DEF Mail!NoteProcessed, OnceInv
<1>3. Mail!Stored' = Mail!Stored
  BY <1>2 DEF Mail!Stored
<1>4. /\ DOMAIN seenAt' = DOMAIN seenAt \cup {r}
      /\ \A q \in DOMAIN seenAt' : seenAt'[q] = created[q]
  BY <1>2 DEF Mail!Joined, OnceInv, Punctual
<1>5. Punctual'
  BY <1>2, <1>3, <1>4 DEF OnceInv, Punctual, Mail!Expired
<1>6. Mail!ServedOnce'
  BY <1>1, <1>2 DEF OnceInv, Mail!ServedOnce, MailInv, Mail!TypeOK
<1> QED
  BY <1>5, <1>6 DEF OnceInv

\* Every step keeps the invariant.
LEMMA OnceNext ==
    ClocksAgree /\ MailFinite /\ MailInv /\ MailInv' /\ OnceInv /\ [Mail!Next]_Mail!vars => OnceInv'
<1> SUFFICES ASSUME ClocksAgree, MailFinite, MailInv, MailInv', OnceInv, [Mail!Next]_Mail!vars PROVE OnceInv'
  OBVIOUS
<1>0. /\ Mail!TypeOK /\ Claims /\ Served /\ Punctual /\ Mail!ServedOnce
      /\ now \in Nat /\ Window \in Nat /\ Skew \in Nat /\ Drift \subseteq Int
      /\ \A r \in Mail!Stored : created[r] \in Nat
      /\ done \subseteq MailRequest /\ done \subseteq Mail!Stored /\ flushed \subseteq Mail!Stored
  BY DEF MailInv, OnceInv, Mail!TypeOK, Mail!Times, Mail!Stored, MailFinite, Mail!MailboxAssumption
\* A request gives its slot back, or goes on with work it has: its note does not change.
<1>a. ASSUME UNCHANGED <<now, created, disk, done, flushed, seenAt>>,
             \A q \in done : handler'[q] = "idle"
      PROVE  OnceInv'
  BY <1>0, <1>a, QuietKeeps DEF Mail!Stored
<1>1. CASE Mail!Tick
  <2>1. now' = now + 1 /\ UNCHANGED <<created, handler, seenAt, disk, done, flushed>>
    BY <1>1 DEF Mail!Tick, Mail!hist, Mail!memory
  <2> QED
    BY <1>0, <2>1, QuietKeeps DEF Mail!Stored, Mail!ServedOnce
<1>2. CASE Mail!Connect
  BY <1>0, <1>2, <1>a DEF Mail!Connect, Mail!hist, Mail!memory, Mail!ServedOnce
<1>3. ASSUME NEW r \in MailRequest, NEW d \in Drift, Mail!Post(r, d) PROVE OnceInv'
  <2>1. /\ r \notin Mail!Stored /\ now + d \in Nat /\ created' = Mail!Joined(created, r, now + d)
        /\ UNCHANGED <<now, handler, seenAt, disk, done, flushed>>
    BY <1>0, <1>3 DEF Mail!Post, Mail!hist, Mail!memory
  <2>2. /\ Mail!Stored' = Mail!Stored \cup {r} /\ created'[r] = now + d
        /\ \A q \in Mail!Stored : created'[q] = created[q]
    BY <2>1 DEF Mail!Stored, Mail!Joined
  <2>3. now + d <= now' + Skew
    BY <1>0, <2>1 DEF ClocksAgree
  <2> QED
    BY <1>0, <2>1, <2>2, <2>3, QuietKeeps DEF Mail!ServedOnce
<1>4. ASSUME NEW r \in MailRequest, Mail!Resend(r) PROVE OnceInv'
  BY <1>0, <1>4, <1>a DEF Mail!Resend, Mail!memory, Mail!ServedOnce
<1>b. ASSUME NEW S, S \cap DOMAIN seenAt = {}, seenAt' = Mail!Without(seenAt, S),
             UNCHANGED <<now, created, disk, done, flushed>>,
             \A q \in done : handler'[q] = "idle"
      PROVE  OnceInv'
  <2>1. DOMAIN seenAt' = DOMAIN seenAt /\ \A q \in DOMAIN seenAt : seenAt'[q] = seenAt[q]
    BY <1>b DEF Mail!Without
  <2>2. Punctual'
    BY <1>0, <1>b, <2>1 DEF Punctual, Mail!Stored, Mail!Expired
  <2> QED
    BY <1>b, <2>2 DEF OnceInv, Mail!ServedOnce
<1>5. CASE Mail!Close
  <2> DEFINE failing == {r \in MailRequest : Mail!Waiting(handler[r])}
  <2>1. failing \cap DOMAIN seenAt = {}
    BY <1>0 DEF Mail!Waiting, Busy, Claims
  <2>2. \A q \in done : handler'[q] = "idle"
    BY <1>0, <1>5 DEF Mail!Close, Mail!Waiting, Mail!ServedOnce
  <2> QED
    BY <1>5, <1>b, <2>1, <2>2 DEF Mail!Close
<1>6. ASSUME NEW r \in MailRequest, handler[r] # "idle", Mail!Release({r}),
             UNCHANGED <<now, created, disk, done, flushed>>
      PROVE  OnceInv'
  <2>1. {r} \cap DOMAIN seenAt = {}
    BY <1>0, <1>6 DEF Busy, Claims
  <2>2. \A q \in done : handler'[q] = "idle"
    BY <1>0, <1>6 DEF Mail!Release, Mail!ServedOnce
  <2> QED
    BY <1>6, <1>b, <2>1, <2>2 DEF Mail!Release
<1>7. ASSUME NEW r \in MailRequest, Mail!Receive(r) PROVE OnceInv'
  <2>1. /\ UNCHANGED <<now, created, disk, done, flushed, seenAt>>
        /\ \/ handler' = handler
           \/ Mail!shouldProcess(r) /\ handler' = [handler EXCEPT ![r] = "work"]
    BY <1>7 DEF Mail!Receive
  <2>2. Mail!shouldProcess(r) => r \notin done
    BY <1>0 DEF Mail!shouldProcess, Punctual, Mail!TypeOK
  <2> QED
    BY <1>0, <1>a, <2>1, <2>2 DEF Mail!ServedOnce, Mail!TypeOK
<1>8. ASSUME NEW r \in MailRequest, Mail!Drop(r) PROVE OnceInv'
  BY <1>8, OnceNote DEF Mail!Drop, Busy
<1>9. ASSUME NEW r \in MailRequest, Mail!Ack(r) PROVE OnceInv'
  BY <1>9, OnceNote DEF Mail!Ack, Busy
<1>10. ASSUME NEW r \in MailRequest, Mail!Send(r) PROVE OnceInv'
  BY <1>0, <1>10, <1>a DEF Mail!Send, Mail!hist, Mail!ServedOnce, Mail!TypeOK
<1>11. ASSUME NEW r \in MailRequest, Mail!RelayStores(r) PROVE OnceInv'
  BY <1>0, <1>11, <1>a DEF Mail!RelayStores, Mail!hist, Mail!ServedOnce, Mail!TypeOK
<1>12. ASSUME NEW r \in MailRequest, Mail!SendFails(r) PROVE OnceInv'
  BY <1>6, <1>12 DEF Mail!SendFails
<1>13. ASSUME NEW r \in MailRequest, Mail!AckFails(r) PROVE OnceInv'
  BY <1>6, <1>13 DEF Mail!AckFails, Mail!Waiting
<1>14. CASE Mail!Flush
  <2> DEFINE gone == DOMAIN seenAt \ Mail!Live
  <2>1. /\ seenAt' = Mail!Without(seenAt, gone)
        /\ UNCHANGED <<now, created, handler, done>>
        /\ \/ disk' = [high |-> highWater, seen |-> seenAt'] /\ flushed' = done
           \/ UNCHANGED <<disk, flushed>>
    BY <1>14 DEF Mail!Flush
  <2>2. \A q \in gone : q \in DOMAIN seenAt /\ Mail!Expired(seenAt[q])
    BY DEF Mail!Live
  <2> HIDE DEF gone
  <2>3. /\ DOMAIN seenAt' = DOMAIN seenAt \ gone
        /\ \A q \in DOMAIN seenAt' : seenAt'[q] = seenAt[q]
    BY <2>1 DEF Mail!Without
  <2>4. \A q \in done \ DOMAIN seenAt' : Mail!Expired(created[q])
    BY <1>0, <2>2, <2>3 DEF Punctual
  <2>5. /\ \A q \in DOMAIN disk'.seen : disk'.seen[q] = created[q]
        /\ \A q \in flushed' \ DOMAIN disk'.seen : Mail!Expired(created[q])
    BY <1>0, <2>1, <2>3, <2>4 DEF Punctual
  <2>6. Punctual'
    BY <1>0, <2>1, <2>3, <2>4, <2>5 DEF Punctual, Mail!Stored, Mail!Expired
  <2> QED
    BY <1>0, <2>1, <2>6 DEF OnceInv, Mail!ServedOnce
<1>15. CASE Mail!Crash
  <2> DEFINE kept == {r \in DOMAIN disk.seen : ~Mail!Expired(disk.seen[r])}
  <2>1. /\ seenAt' = [r \in kept |-> disk.seen[r]] /\ handler' = Mail!NoHandlers /\ done' = flushed
        /\ UNCHANGED <<now, created, disk, flushed>>
    BY <1>15 DEF Mail!Crash
  <2>2. \A q \in flushed \ kept : Mail!Expired(created[q])
    BY <1>0 DEF Punctual
  <2>3. Punctual'
    BY <1>0, <2>1, <2>2 DEF Punctual, Mail!Stored, Mail!Expired
  <2>4. Mail!ServedOnce'
    BY <2>1 DEF Mail!ServedOnce, Mail!NoHandlers, MailInv, Mail!TypeOK, Mail!Times, Mail!Stored
  <2> QED
    BY <2>3, <2>4 DEF OnceInv
<1>16. CASE UNCHANGED Mail!vars
  BY <1>0, <1>16, <1>a DEF Mail!vars, Mail!hist, Mail!memory, Mail!ServedOnce
<1>17. ASSUME NEW r \in MailRequest, Mail!Serve(r) PROVE OnceInv'
  BY <1>7, <1>8, <1>9, <1>10, <1>11, <1>12, <1>17 DEF Mail!Serve
<1>18. ASSUME NEW r \in MailRequest,
              (\E d \in Drift : Mail!Post(r, d)) \/ Mail!Resend(r) \/ Mail!Serve(r) \/ Mail!AckFails(r)
       PROVE  OnceInv'
  BY <1>3, <1>4, <1>13, <1>17, <1>18
<1> QED
  BY <1>1, <1>2, <1>5, <1>14, <1>15, <1>16, <1>18 DEF Mail!Next

LEMMA OnceInit ==
    ASSUME Mail!Init
    PROVE  OnceInv
BY DEF Mail!Init, OnceInv, Punctual, Mail!ServedOnce, Mail!Stored

----------------------------------------------------------------------------
(* The organizer's specification.                                           *)

\* A step of the organizer is one of the component that runs.
LEMMA PartSteps ==
    ASSUME [Next]_vars
    PROVE  /\ part' = part
           /\ part = "draw" => [Draw!Next]_Draw!vars
           /\ part = "mailbox" => [Mail!Next]_Mail!vars
           /\ part = "content" => [Content!Next]_Content!vars
           /\ part = "enroll" => [Enroll!Next]_Enroll!vars
           /\ part = "enroll_paste" => [EnrollPaste!Next]_EnrollPaste!vars
<1>1. CASE UNCHANGED vars
  <2>1. part' = part /\ UNCHANGED Draw!vars
    BY <1>1 DEF vars, Draw!vars
  <2>2. UNCHANGED Mail!vars
    BY <1>1 DEF vars, Mail!vars, Mail!memory, Mail!hist
  <2>3. UNCHANGED Content!vars
    BY <1>1 DEF vars, Content!vars
  <2>4. UNCHANGED Enroll!vars /\ UNCHANGED EnrollPaste!vars
    BY <1>1 DEF vars, Enroll!vars, EnrollPaste!vars
  <2> QED
    BY <2>1, <2>2, <2>3, <2>4
<1>2. CASE DrawStep
  BY <1>2 DEF DrawStep, BesideDrawQuota
<1>3. CASE MailStep
  BY <1>3 DEF MailStep, BesideMailbox
<1>4. CASE ContentStep
  BY <1>4 DEF ContentStep, BesideContentKeys
<1>5. CASE EnrollStep
  BY <1>5 DEF EnrollStep, BesideEnrollment
<1>6. CASE EnrollPasteStep
  BY <1>6 DEF EnrollPasteStep, BesideEnrollment
<1> QED
  BY <1>1, <1>2, <1>3, <1>4, <1>5, <1>6 DEF Next

\* Draws: concurrent calls, policy changes, midnights and kills never make a batch that was
\* answered disappear from draws.json, nor let a credential draw from a key more in a day than
\* the largest quota the key had (handleDraw, organizer-server.mjs:1591-1740), while the file
\* can be written.
THEOREM DrawsStayWithinQuota ==
    ASSUME Writable
    PROVE  Spec => []DrawsWithinQuota
<1> DEFINE Inv == part = "draw" => DrawInv
<1>1. Init => Inv
  BY DrawInit DEF Init
<1>2. Inv /\ [Next]_vars => Inv'
  BY PartSteps, DrawNext
<1>3. Inv => DrawsWithinQuota
  BY DrawSound DEF DrawsWithinQuota
<1> QED
  BY <1>1, <1>2, <1>3, PTL DEF Spec

\* The mailbox's invariant, in the organizer.
LEMMA MailboxKeeps ==
    ASSUME MailFinite
    PROVE  Spec => [](part = "mailbox" => MailInv)
<1> DEFINE Inv == part = "mailbox" => MailInv
<1>1. Init => Inv
  BY MailInit DEF Init
<1>2. Inv /\ [Next]_vars => Inv'
  BY PartSteps, MailNext
<1> QED
  BY <1>1, <1>2, PTL DEF Spec

\* maxConcurrent() of the mailbox (mailbox.mjs:473-486): no socket loss, refusal, missing OK or
\* restart leaks a handler's slot or gives one back twice, so the cap stays a cap and never
\* starves.
THEOREM SlotsAlwaysExact ==
    ASSUME MailFinite
    PROVE  Spec => [](part = "mailbox" => SlotsExact)
<1>1. MailInv => SlotsExact
  BY DEF MailInv
<1> QED
  BY <1>1, MailboxKeeps, PTL

\* shouldProcess() and flushSeen(): a request skipped as already handled, now or after a restart
\* from the sidecar, has its response at the relay, was meant to get none, or is being handled;
\* and while members' clocks are within the forgiven skew, none noted as processed is worked
\* on again.
THEOREM NeverSkippedUnserved ==
    ASSUME MailFinite, ClocksAgree
    PROVE  Spec => []SkippedOnlyIfServed
<1> DEFINE Inv == part = "mailbox" => MailInv
           Once == part = "mailbox" => OnceInv
<1>1. Init => Once
  BY OnceInit DEF Init
<1>2. Inv /\ Inv' /\ Once /\ [Next]_vars => Once'
  BY PartSteps, OnceNext
<1>3. Inv /\ Once => SkippedOnlyIfServed
  BY MailSound DEF SkippedOnlyIfServed, OnceInv
<1>4. Spec => []Inv
  BY MailboxKeeps
<1> QED
  BY <1>1, <1>2, <1>3, <1>4, PTL DEF Spec

\* The invariant of the content keys, in the organizer.
LEMMA ContentKeeps ==
    ASSUME Durable, RingCovers
    PROVE  Spec => [](part = "content" => KeysInv /\ WatchInv)
<1> DEFINE Inv == part = "content" => KeysInv /\ WatchInv
<1>1. Init => Inv
  BY KeysInit, WatchInit DEF Init
<1>2. ASSUME KeysInv PROVE minted \in Nat /\ announced \in Nat
  BY <1>2 DEF KeysInv, KeysTyped, IsCustody
<1>3. Inv /\ [Next]_vars => Inv'
  <2>1. SUFFICES ASSUME Inv, [Next]_vars PROVE Inv'
    OBVIOUS
  <2>2. CASE part = "content"
    <3>1. KeysInv /\ WatchInv /\ [Content!Next]_Content!vars
      BY <2>1, <2>2, PartSteps
    <3>2. KeysInv' /\ WatchInv'
      BY <1>2, <3>1, KeysNext, WatchNext
    <3> QED
      BY <3>2
  <2> QED
    BY <2>1, <2>2, PartSteps
<1> QED
  BY <1>1, <1>3, PTL DEF Spec

\* Content epochs (contentEpochKeys.mjs:153-159, 225-242; contentEpochWatcher.mjs:31): whatever
\* is lost, answered late, replayed or killed, the key of every sealed post is still sold, a
\* token buys one epoch's key, and no post is counted twice, provided the sidecar can be
\* written and the ring of seen posts holds twice what the relay replays.
THEOREM EpochKeysAlwaysSound ==
    ASSUME Durable, RingCovers
    PROVE  Spec => []EpochKeysSound
<1> DEFINE Inv == part = "content" => KeysInv /\ WatchInv
<1>1. Inv => EpochKeysSound
  BY KeysSound, WatchSound DEF EpochKeysSound
<1>2. Spec => []Inv
  BY ContentKeeps
<1> QED
  BY <1>1, <1>2, PTL

\* Invites (invite-issuance.mjs:11-13, 164-232): however calls, failures of the signer, lost
\* answers, kills and changes of the cap interleave, an invite yields no more credentials than
\* it had uses, its counter is the number handed out, and one that was handed out can be had
\* again, by a request the app can still unblind (exchange.ts:4-8).
THEOREM InvitesAlwaysHonoured ==
    ASSUME Honoured, EnrollPasteFinite
    PROVE  Spec => []InvitesHonoured
<1> DEFINE Inv == /\ part = "enroll" => EnrollInv
                  /\ part = "enroll_paste" => EnrollPasteTyped
<1>0. EnrollFinite
  BY DEF Honoured
<1>1. Init => Inv
  BY <1>0, EnrollInvInit, EnrollPasteTypedInit DEF Init
<1>2. Inv /\ [Next]_vars => Inv'
  BY PartSteps, EnrollInvNext, EnrollPasteTypedNext
<1>3. Inv => InvitesHonoured
  BY <1>0, EnrollInvSound, EnrollPasteTypedSound DEF InvitesHonoured
<1> QED
  BY <1>1, <1>2, <1>3, PTL DEF Spec

\* Every variable of the component that runs keeps its type.
THEOREM OrganizerTypeCorrect ==
    ASSUME Writable, MailFinite, Durable, RingCovers, EnrollFinite, EnrollPasteFinite
    PROVE  Spec => []TypeOK
<1> DEFINE Inv == /\ part = "draw" => DrawInv
                  /\ part = "enroll" => EnrollTyped
                  /\ part = "enroll_paste" => EnrollPasteTyped
           Mailed == part = "mailbox" => MailInv
           Kept == part = "content" => KeysInv /\ WatchInv
<1>1. Init => Inv
  BY DrawInit, EnrollTypedInit, EnrollPasteTypedInit DEF Init
<1>2. Inv /\ [Next]_vars => Inv'
  BY PartSteps, DrawNext, EnrollTypedNext, EnrollPasteTypedNext
<1>3. Inv /\ Mailed /\ Kept => TypeOK
  BY DrawSound, MailSound, WatchSound, EnrollTypedSound, EnrollPasteTypedSound DEF TypeOK
<1>4. Spec => []Mailed
  BY MailboxKeeps
<1>5. Spec => []Kept
  BY ContentKeeps
<1> QED
  BY <1>1, <1>2, <1>3, <1>4, <1>5, PTL DEF Spec
=============================================================================
