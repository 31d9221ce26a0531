-------------------------- MODULE AdmissionProofs --------------------------
(***************************************************************************)
(* Theorems about Admission, for every set of events, tokens, keys,        *)
(* configs and handlers and any number of reloads.                         *)
(***************************************************************************)
EXTENDS Admission, WellFoundedInduction, FiniteSetTheorems, TLAPS

----------------------------------------------------------------------------
(* The tokens an event carries.                                             *)

\* A set of natural numbers that is not empty has a least element: induction over data, as
\* the argument by a least counterexample.
LEMMA LeastElement ==
    ASSUME NEW T \in SUBSET Nat, T # {}
    PROVE  \E n \in T : \A m \in T : n <= m
<1> DEFINE R == OpToRel(<, Nat)
<1>1. IsWellFoundedOn(R, Nat)
  BY NatLessThanWellFounded
<1>2. \A m, n \in Nat : m < n => <<m, n>> \in R
  BY DEF OpToRel
<1> HIDE DEF R
<1>3. PICK n \in T : \A m \in T : <<m, n>> \notin R
  BY <1>1, WFMin
<1>4. n \in Nat /\ \A m \in T : m \in Nat /\ ~(m < n)
  BY <1>2, <1>3
<1> QED
  BY <1>3, <1>4

\* What an event is.
LEMMA BodyFacts ==
    ASSUME NEW e \in Event
    PROVE  /\ Body[e].class \in Class /\ Body[e].by \in Pubkey /\ Body[e].size \in Nat
           /\ Body[e].chain \in Chain /\ Body[e].dom \in {"posting", "picture", "audio"}
           /\ Body[e].creds \in Seq(Token)
BY AdmissionAssumption DEF BodyType

\* Among the elements of a finite set of positive numbers there is a k-th one.
LEMMA KthElement ==
    ASSUME NEW n \in Nat, NEW S \in SUBSET (1..n), NEW k \in 1..Cardinality(S)
    PROVE  \E i \in S : Cardinality(S \cap 1..i) = k
<1> DEFINE C(m) == Cardinality(S \cap 1..m)
           T == {m \in Nat : m <= n /\ k <= C(m)}
<1>1. IsFiniteSet(S) /\ Cardinality(S) \in Nat /\ k \in Nat /\ k >= 1
  <2>1. IsFiniteSet(1..n)
    BY FS_Interval
  <2>2. IsFiniteSet(S)
    BY <2>1, FS_Subset
  <2> QED
    BY <2>2, FS_CardinalityType
<1>2. \A m \in Nat : IsFiniteSet(S \cap 1..m) /\ C(m) \in Nat
  BY <1>1, FS_Intersection, FS_CardinalityType
<1>3. n \in T
  <2>1. S \cap 1..n = S
    OBVIOUS
  <2> QED
    BY <1>1, <2>1
<1>4. PICK m \in T : \A l \in T : m <= l
  BY <1>3, LeastElement
<1>5. m # 0
  <2>1. S \cap 1..0 = {}
    OBVIOUS
  <2> QED
    BY <1>1, <1>4, <2>1, FS_EmptySet
<1>6. m - 1 \in Nat /\ m \in Nat /\ m <= n
  BY <1>4, <1>5
<1>7. C(m - 1) < k
  BY <1>1, <1>2, <1>4, <1>6
<1>8. S \cap 1..m = IF m \in S THEN (S \cap 1..(m - 1)) \cup {m} ELSE S \cap 1..(m - 1)
  BY <1>6
<1>9. m \notin S \cap 1..(m - 1)
  BY <1>6
<1>10. m \in S
  BY <1>1, <1>2, <1>4, <1>6, <1>7, <1>8
<1>11. C(m) = C(m - 1) + 1
  BY <1>2, <1>6, <1>8, <1>9, <1>10, FS_AddElement
<1>12. C(m) = k
  BY <1>1, <1>2, <1>4, <1>6, <1>7, <1>11
<1> QED
  BY <1>10, <1>12

\* dedupeCredentials returns tokens the event carries.
LEMMA DistinctTokensType ==
    ASSUME NEW e \in Event
    PROVE  /\ DistinctTokens(e) \in Seq(Token)
           /\ Len(DistinctTokens(e)) \in Nat
           /\ \A k \in 1..Len(DistinctTokens(e)) : DistinctTokens(e)[k] \in Ids(Body[e].creds)
<1> DEFINE s == Body[e].creds
           S == FirstSeen(s)
           Pick(k) == CHOOSE i \in S : Cardinality(S \cap 1..i) = k
<1>1. s \in Seq(Token) /\ Len(s) \in Nat /\ DOMAIN s = 1..Len(s)
  BY BodyFacts
<1>2. S \in SUBSET (1..Len(s))
  BY <1>1 DEF FirstSeen
<1>3. Cardinality(S) \in Nat
  <2>1. IsFiniteSet(1..Len(s))
    BY <1>1, FS_Interval
  <2>2. IsFiniteSet(S)
    BY <1>2, <2>1, FS_Subset
  <2> QED
    BY <2>2, FS_CardinalityType
<1>4. \A k \in 1..Cardinality(S) : Pick(k) \in S
  BY <1>1, <1>2, KthElement
<1>5. DistinctTokens(e) = [k \in 1..Cardinality(S) |-> s[Pick(k)]]
  BY DEF DistinctTokens
<1> HIDE DEF Pick, S
<1>6. \A k \in 1..Cardinality(S) : s[Pick(k)] \in Ids(s) /\ s[Pick(k)] \in Token
  <2>1. \A i \in S : i \in DOMAIN s /\ s[i] \in Token
    BY <1>1, <1>2
  <2> QED
    BY <1>4, <2>1 DEF Ids
<1>7. DistinctTokens(e) \in Seq(Token) /\ Len(DistinctTokens(e)) = Cardinality(S)
  BY <1>3, <1>5, <1>6
<1> QED
  BY <1>3, <1>5, <1>6, <1>7

\* What CommitSpend burns is among the tokens the event carries.
LEMMA BatchIds ==
    ASSUME NEW e \in Event, NEW n \in 1..Len(DistinctTokens(e))
    PROVE  /\ Batch(e, n) \in Seq(Token) /\ Len(Batch(e, n)) = n /\ DOMAIN Batch(e, n) = 1..n
           /\ Ids(Batch(e, n)) \subseteq Ids(Body[e].creds)
           /\ Ids(Batch(e, n)) \subseteq Token
           /\ Ids(Batch(e, n)) # {}
<1> DEFINE d == DistinctTokens(e)
<1>1. d \in Seq(Token) /\ Len(d) \in Nat /\ \A k \in 1..Len(d) : d[k] \in Ids(Body[e].creds)
  BY DistinctTokensType
<1> HIDE DEF d
<1>2. /\ SubSeq(d, 1, n) \in Seq(Token)
      /\ Len(SubSeq(d, 1, n)) = n
      /\ \A i \in 1..n : SubSeq(d, 1, n)[i] = d[i]
  BY <1>1 DEF d
<1>3. Batch(e, n) = SubSeq(d, 1, n)
  BY DEF Batch, d
<1>4. DOMAIN SubSeq(d, 1, n) = 1..n /\ 1 \in 1..n /\ n <= Len(d) /\ n \in Nat
  BY <1>1, <1>2 DEF d
<1>5. \A i \in 1..n : d[i] \in Ids(Body[e].creds) /\ d[i] \in Token
  BY <1>1, <1>4
<1> QED
  BY <1>2, <1>3, <1>4, <1>5 DEF Ids

----------------------------------------------------------------------------
(* Prices.                                                                  *)

\* Division rounds down.
LEMMA DivFacts ==
    ASSUME NEW a \in Nat, NEW b \in Nat, b > 0
    PROVE  a \div b \in Nat /\ b * (a \div b) <= a /\ a < b * (a \div b) + b
<1>1. a = b * (a \div b) + (a % b) /\ a % b \in 0..(b - 1) /\ a \div b \in Int
  BY SMTT(30)
<1> QED
  BY <1>1, SMTT(30)

\* Multiplication by a natural number is monotonic.
LEMMA TimesMonotone ==
    ASSUME NEW k \in Nat, NEW n \in Nat, NEW b \in Nat, k <= n
    PROVE  k * b <= n * b
BY SMTT(30)

\* weight.go's rounded-up division is the least number of tokens that covers the size.
LEMMA TokenCostFair ==
    ASSUME NEW e \in Event, NEW b \in Nat
    PROVE  /\ TokenCost(e, b) \in Nat /\ TokenCost(e, b) >= 1
           /\ FairPrice(e, b) = TokenCost(e, b)
<1> DEFINE s == Body[e].size
           Fair(n) == n * b >= s /\ \A k \in 1..(n - 1) : k * b < s
<1>1. s \in Nat
  BY BodyFacts
<1>2. CASE b = 0
  BY <1>2 DEF TokenCost, FairPrice
<1>3. CASE b # 0 /\ s = 0
  <2>1. TokenCost(e, b) = 1
    BY <1>3 DEF TokenCost
  <2>2. \A n \in 1..(s + 1) : n = 1
    BY <1>3
  <2>3. Fair(1) /\ 1 \in 1..(s + 1)
    BY <1>3
  <2>4. (CHOOSE n \in 1..(s + 1) : Fair(n)) = 1
    BY <2>2, <2>3
  <2> QED
    BY <1>3, <2>1, <2>4 DEF FairPrice
<1>4. CASE b # 0 /\ s # 0
  <2> DEFINE q == (s + b - 1) \div b
  <2>1. TokenCost(e, b) = q
    BY <1>4 DEF TokenCost
  <2>2. q \in Nat /\ b * q <= s + b - 1 /\ s + b - 1 < b * q + b
    <3>1. s + b - 1 \in Nat /\ b > 0
      BY <1>1, <1>4
    <3> HIDE DEF s
    <3> QED
      BY <3>1, DivFacts
  <2> HIDE DEF q, s
  <2>3. s <= q * b /\ (q - 1) * b < s
    BY <1>1, <2>2, SMTT(30)
  <2>4. q >= 1
    BY <1>1, <1>4, <2>2, <2>3, SMTT(30)
  <2>5. q <= s
    <3>1. ASSUME q >= s + 1 PROVE FALSE
      <4>1. s * b <= (q - 1) * b /\ s <= s * b
        BY <1>1, <1>4, <2>2, <3>1, TimesMonotone, SMTT(30)
      <4>2. (q - 1) * b \in Int /\ s * b \in Int
        BY <1>1, <2>2
      <4> QED
        BY <1>1, <2>3, <4>1, <4>2
    <3> QED
      BY <1>1, <2>2, <3>1
  <2>6. ASSUME NEW k \in 1..(q - 1) PROVE k * b < s
    <3>1. k * b <= (q - 1) * b /\ k * b \in Int /\ (q - 1) * b \in Int
      BY <2>2, <2>4, TimesMonotone
    <3> QED
      BY <1>1, <2>3, <3>1
  <2>7. Fair(q) /\ q \in 1..(s + 1)
    BY <1>1, <2>2, <2>3, <2>4, <2>5, <2>6
  <2>8. ASSUME NEW n \in 1..(s + 1), Fair(n) PROVE n = q
    <3>1. n < q => n * b < s /\ n * b >= s
      BY <2>2, <2>6, <2>8
    <3>2. q < n => q * b < s /\ q * b >= s
      BY <1>1, <2>2, <2>4, <2>7, <2>8
    <3>3. n * b \in Int /\ q * b \in Int /\ n \in Nat
      BY <1>1, <2>2
    <3> QED
      BY <1>1, <2>2, <3>1, <3>2, <3>3
  <2>9. (CHOOSE n \in 1..(s + 1) : Fair(n)) = q
    BY <2>7, <2>8
  <2> QED
    BY <1>4, <2>1, <2>2, <2>4, <2>9 DEF FairPrice, s
<1> QED
  BY <1>1, <1>2, <1>3, <1>4

\* What is due is a number of tokens.
LEMMA DueType ==
    ASSUME NEW e \in Event, NEW p, p.bytesPerToken \in Nat
    PROVE  /\ Due(e, p) \in Nat
           /\ Due(e, p) <= TokenCost(e, p.bytesPerToken)
BY TokenCostFair DEF Due

----------------------------------------------------------------------------
(* Type correctness.                                                        *)

\* The live policy's fields.
Field == {"organizers", "blind", "holder", "bytesPerToken", "space",
          "posting", "picture", "audio", "spaceWrite"}

\* A config is a record of these fields.
LEMMA ConfigFields ==
    ASSUME NEW p \in ConfigType
    PROVE  /\ DOMAIN p = Field
           /\ p.bytesPerToken \in Nat
           /\ \A k \in KeySet : p[k] \subseteq Key
BY DEF ConfigType, Field, KeySet

\* Reloader.Apply installs one field of the new config.
LEMMA InstallType ==
    ASSUME NEW p \in ConfigType, NEW c \in ConfigType, NEW f \in Field
    PROVE  [p EXCEPT ![f] = c[f]] \in ConfigType
BY DEF ConfigType, Field

\* A handler inside the chain.
LEMMA CallType ==
    ASSUME TypeOK, NEW h \in Handler, call[h].pc # "idle"
    PROVE  /\ call[h] \in Call
           /\ call[h].ev \in Event /\ call[h].due \in Nat
           /\ call[h].pc \in {"route", "gate", "hooks", "commit", "store"}
<1>1. call[h] \in {Idle} \cup Call /\ Idle.pc = "idle"
  BY DEF TypeOK, Idle
<1> QED
  BY <1>1 DEF Call

\* A call that moves on, or ends, stays well typed.
LEMMA MoveType ==
    ASSUME TypeOK, NEW h \in Handler, call[h].pc # "idle",
           NEW pc \in {"route", "gate", "hooks", "commit", "store"}, Goto(h, pc) \/ End(h)
    PROVE  call' \in [Handler -> {Idle} \cup Call]
<1>1. call[h] \in Call
  BY CallType
<1>2. [call[h] EXCEPT !.pc = pc] \in Call
  BY <1>1 DEF Call
<1>3. Goto(h, pc) => call' = [call EXCEPT ![h] = [call[h] EXCEPT !.pc = pc]]
  BY DEF Goto, TypeOK
<1> QED
  BY <1>2, <1>3 DEF End, TypeOK

\* A price at which CommitSpend goes ahead.
LEMMA NeedType ==
    ASSUME TypeOK, NEW e \in Event
    PROVE  Need(e) \in Nat /\ Need(e) >= 1
BY ConfigFields, TokenCostFair DEF TypeOK, Need

\* The commit that burns is one for tokens the event carries, at the present price.
Burns(h) ==
    LET e == call[h].ev IN
    /\ call[h].pc = "commit" /\ Planned(e)
    /\ Need(e) <= Len(DistinctTokens(e))
    /\ CanSpend(spent, Batch(e, Need(e)), e)
    /\ spent' = Spend(spent, Batch(e, Need(e)), e)
    /\ price' = [price EXCEPT ![e] = Need(e)]
    /\ Goto(h, "store")

\* Every other step leaves the spent set and the prices alone.
LEMMA CommitCases ==
    ASSUME NEW h \in Handler, CommitSpend(h)
    PROVE  \/ Burns(h)
           \/ /\ UNCHANGED <<spent, price>>
              /\ End(h) \/ (~Planned(call[h].ev) /\ Goto(h, "store"))
BY DEF CommitSpend, Burns

\* Every variable keeps its type, and an event is charged for tokens it carries, across
\* reloads that change its price between verify and commit.
THEOREM TypeCorrect == Spec => []TypeOK
<1>1. Init => TypeOK
  <2> SUFFICES ASSUME Init PROVE TypeOK
    OBVIOUS
  <2>1. policy \in ConfigType /\ configFile \in Config /\ reload \in Seq(DOMAIN policy)
    BY AdmissionAssumption DEF Init
  <2>2. \A e \in Event : 0 <= Len(DistinctTokens(e))
    BY DistinctTokensType
  <2>3. price \in [Event -> Nat] /\ \A e \in Event : price[e] <= Len(DistinctTokens(e))
    BY <2>2 DEF Init
  <2> QED
    BY <2>1, <2>3, AdmissionAssumption DEF Init, TypeOK
<1>2. TypeOK /\ [Next]_vars => TypeOK'
  <2> SUFFICES ASSUME TypeOK, [Next]_vars PROVE TypeOK'
    OBVIOUS
  <2>0. /\ policy \in ConfigType /\ DOMAIN policy = Field
        /\ configFile \in ConfigType
    BY AdmissionAssumption, ConfigFields DEF TypeOK
  <2>1. ASSUME NEW h \in Handler, NEW e \in Event, Arrive(h, e) PROVE TypeOK'
    <3>1. Due(e, policy) \in Nat
      BY <2>0, DueType, ConfigFields
    <3>2. [pc |-> "route", ev |-> e, path |-> "none", due |-> Due(e, policy)] \in Call
      BY <3>1 DEF Call
    <3> QED
      BY <2>1, <3>2 DEF Arrive, TypeOK
  <2>2. ASSUME NEW h \in Handler, Route(h) PROVE TypeOK'
    <3> DEFINE path == Path(call[h].ev, policy)
    <3>1. call[h] \in Call /\ Body[call[h].ev].class \in Class
      BY <2>2, CallType, BodyFacts DEF Route
    <3>2. path \in {"none", "mailbox", "wrap", "space", "blind", "plain"}
      BY <3>1 DEF Path, Class
    <3> HIDE DEF path
    <3>3. [call[h] EXCEPT !.pc = "gate", !.path = path] \in Call
      BY <3>1, <3>2 DEF Call
    <3>4. call' = [call EXCEPT ![h] = [call[h] EXCEPT !.pc = "gate", !.path = path]]
      BY <2>2 DEF Route, TypeOK, path
    <3> QED
      BY <2>2, <3>3, <3>4 DEF Route, TypeOK
  <2>3. ASSUME NEW h \in Handler, Gate(h) PROVE TypeOK'
    <3>1. call' \in [Handler -> {Idle} \cup Call]
      BY <2>3, MoveType DEF Gate
    <3> QED
      BY <2>3, <3>1 DEF Gate, TypeOK
  <2>4. ASSUME NEW h \in Handler, LaterHooks(h) PROVE TypeOK'
    <3>1. call' \in [Handler -> {Idle} \cup Call] /\ call[h].ev \in Event
      BY <2>4, MoveType, CallType DEF LaterHooks
    <3> QED
      BY <2>4, <3>1 DEF LaterHooks, TypeOK
  <2>5. ASSUME NEW h \in Handler, CommitSpend(h) PROVE TypeOK'
    <3> DEFINE e == call[h].ev
    <3>1. call[h].pc # "idle" /\ e \in Event
      BY <2>5, CallType DEF CommitSpend
    <3>2. call' \in [Handler -> {Idle} \cup Call]
      BY <2>5, <3>1, CommitCases, MoveType DEF Burns
    <3>3. UNCHANGED <<policy, configFile, reload, reloads, cleared>>
      BY <2>5 DEF CommitSpend
    <3>4. CASE Burns(h)
      <4>1. /\ spent' \in [Token -> Event \cup {NoOwner}]
        BY <3>1, <3>4 DEF Burns, Spend, TypeOK
      <4>2. price' \in [Event -> Nat] /\ \A f \in Event : price'[f] <= Len(DistinctTokens(f))
        BY <3>1, <3>4, NeedType DEF Burns, TypeOK
      <4> QED
        BY <3>2, <3>3, <4>1, <4>2 DEF TypeOK
    <3>5. CASE UNCHANGED <<spent, price>>
      BY <3>2, <3>3, <3>5 DEF TypeOK
    <3> QED
      BY <2>5, <3>4, <3>5, CommitCases
  <2>6. ASSUME NEW h \in Handler, StoreEvent(h) PROVE TypeOK'
    BY <2>6 DEF StoreEvent, End, TypeOK
  <2>7. ASSUME NEW c \in Config, Sighup(c) PROVE TypeOK'
    <3>1. ReloadOrder \in Seq(Field)
      BY DEF ReloadOrder, Field
    <3>2. reloads' \in 0..MaxReload
      BY <2>7, AdmissionAssumption DEF Sighup, TypeOK
    <3> QED
      BY <2>0, <2>7, <3>1, <3>2 DEF Sighup, TypeOK
  <2>8. CASE ApplyField
    <3> DEFINE f == Head(reload)
    <3>1. f \in Field /\ reload' \in Seq(Field)
      BY <2>0, <2>8 DEF ApplyField, TypeOK
    <3>2. policy' \in ConfigType
      BY <2>0, <2>8, <3>1, InstallType DEF ApplyField
    <3>3. DOMAIN policy' = Field /\ policy'.bytesPerToken \in Nat
      BY <3>2, ConfigFields
    <3>4. call' \in [Handler -> {Idle} \cup Call]
      <4>1. ASSUME NEW h \in Handler, call[h] # Idle
            PROVE  [call[h] EXCEPT !.due = Lesser(@, Due(call[h].ev, policy'))] \in Call
        <5>1. call[h] \in Call /\ call[h].ev \in Event /\ call[h].due \in Nat
          BY <4>1 DEF TypeOK, Call
        <5>2. Lesser(call[h].due, Due(call[h].ev, policy')) \in Nat
          BY <3>3, <5>1, DueType DEF Lesser
        <5> QED
          BY <5>1, <5>2 DEF Call
      <4> QED
        BY <2>8, <4>1 DEF ApplyField, Repriced
    <3> QED
      BY <2>8, <3>1, <3>2, <3>3, <3>4 DEF ApplyField, TypeOK
  <2>9. CASE Restart
    <3>1. policy' \in ConfigType /\ reload' \in Seq(DOMAIN policy')
      BY <2>0, <2>9 DEF Restart
    <3> QED
      BY <2>9, <3>1 DEF Restart, TypeOK
  <2>10. CASE UNCHANGED vars
    BY <2>10 DEF vars, TypeOK
  <2> QED
    BY <2>1, <2>2, <2>3, <2>4, <2>5, <2>6, <2>7, <2>8, <2>9, <2>10 DEF Next, Step
<1> QED
  BY <1>1, <1>2, PTL DEF Spec

----------------------------------------------------------------------------
(* What is burned, and for what.                                            *)

\* The live key sets come from configs.
PolicyKeys == \A k \in KeySet : policy[k] \subseteq KeysOf(k)

\* VerifyEvent's routing: which events a path is for.
RightPath(e, path) ==
    /\ path \in {"mailbox", "wrap", "space", "blind", "plain"}
    /\ path \in {"mailbox", "wrap"} => Body[e].class = path
    /\ path = "space" => Body[e].class \in {"space", "reaction"}
    /\ path = "blind" => HasToken(e)
    /\ path = "plain" => ~HasToken(e) /\ Body[e].class \in {"reaction", "blind", "attributed"}

Routed ==
    \A h \in Handler : call[h].pc \in {"gate", "hooks", "commit", "store"}
        => RightPath(call[h].ev, call[h].path)

\* Past the gate, an event's tokens are all of its domain.
Verified ==
    \A h \in Handler : call[h].pc \in {"hooks", "commit"} /\ Planned(call[h].ev)
        => \A t \in Ids(Body[call[h].ev].creds) : KeyOf[t] \in DomainKeys(call[h].ev)

\* Past the hooks, an event has cleared them.
HooksPassed == \A h \in Handler : call[h].pc \in {"commit", "store"} => call[h].ev \in cleared

\* An event owns the whole batch of its last commit.
Paid ==
    \A e \in Event : price[e] > 0 => /\ Distinct(Batch(e, price[e]))
                                     /\ \A t \in Ids(Batch(e, price[e])) : spent[t] = e

\* The inductive invariant.
BurnInv == PolicyKeys /\ Routed /\ Verified /\ HooksPassed /\ BurnedRightly /\ Paid

\* What Goto and End do to the calls.
LEMMA MoveFacts ==
    ASSUME TypeOK, NEW h \in Handler, call[h].pc # "idle", NEW pc
    PROVE  /\ Goto(h, pc) => /\ call'[h].pc = pc /\ call'[h].ev = call[h].ev
                             /\ call'[h].path = call[h].path /\ call'[h].due = call[h].due
                             /\ \A k \in Handler \ {h} : call'[k] = call[k]
           /\ End(h) => /\ call'[h].pc = "idle"
                        /\ \A k \in Handler \ {h} : call'[k] = call[k]
<1>1. call[h] \in Call
  BY CallType
<1>2. ASSUME Goto(h, pc) PROVE call' = [call EXCEPT ![h] = [call[h] EXCEPT !.pc = pc]]
  BY <1>2 DEF Goto, TypeOK
<1>3. Goto(h, pc) => /\ call'[h] = [call[h] EXCEPT !.pc = pc]
                     /\ \A k \in Handler \ {h} : call'[k] = call[k]
  BY <1>2 DEF TypeOK
<1>4. End(h) => call'[h] = Idle /\ \A k \in Handler \ {h} : call'[k] = call[k]
  BY DEF End, TypeOK
<1> QED
  BY <1>1, <1>3, <1>4 DEF Call, Idle

\* VerifyEvent routes an event to a path that is for it.
LEMMA PathRight ==
    ASSUME NEW e \in Event, NEW p
    PROVE  RightPath(e, Path(e, p))
BY BodyFacts DEF RightPath, Path, Class

\* The gate passes a token-bearing event only if its tokens are of its domain.
LEMMA GateVerifies ==
    ASSUME TypeOK, PolicyKeys, NEW e \in Event, NEW path, RightPath(e, path),
           Admits(e, path, policy), Planned(e), NEW t \in Ids(Body[e].creds)
    PROVE  KeyOf[t] \in DomainKeys(e)
<1>1. /\ policy.spaceWrite \subseteq KeysOf("spaceWrite")
      /\ policy.posting \subseteq KeysOf("posting")
      /\ policy[Body[e].dom] \subseteq KeysOf(Body[e].dom)
  BY BodyFacts DEF PolicyKeys, KeySet
<1>2. PostingKeys(policy, Body[e].dom)
          \subseteq GeneralKeys \cup KeysOf("posting") \cup KeysOf(Body[e].dom)
  BY <1>1 DEF PostingKeys
<1>3. HasToken(e) /\ Body[e].class # "mailbox"
  BY DEF Planned
<1>4. CASE path = "wrap"
  <2>1. Body[e].class = "wrap" /\ KeyOf[t] \in policy.spaceWrite
    BY <1>3, <1>4 DEF RightPath, Admits, GateSpaceTokens, TokensVerify
  <2> QED
    BY <1>1, <2>1 DEF DomainKeys
<1>5. CASE path = "space"
  <2>1. Body[e].class \in {"space", "reaction"} /\ KeyOf[t] \in policy.spaceWrite
    BY <1>3, <1>5 DEF RightPath, Admits, GateSpaceTokens, TokensVerify
  <2> QED
    BY <1>1, <2>1 DEF DomainKeys
<1>6. CASE path = "blind"
  <2>1. Body[e].class \in {"blind", "reaction"} /\ KeyOf[t] \in PostingKeys(policy, Body[e].dom)
    BY <1>6 DEF Admits, BlindPost, TokensVerify
  <2> QED
    BY <1>2, <2>1 DEF DomainKeys
<1> QED
  BY <1>3, <1>4, <1>5, <1>6 DEF RightPath

\* A commit burns tokens nobody owns, or that are the event's own.
LEMMA BurnsOwn ==
    ASSUME TypeOK, NEW h \in Handler, Burns(h)
    PROVE  LET e == call[h].ev
               b == Batch(e, Need(e)) IN
           /\ e \in Event /\ Need(e) \in 1..Len(DistinctTokens(e))
           /\ Distinct(b) /\ Ids(b) \subseteq Token /\ Ids(b) \subseteq Ids(Body[e].creds)
           /\ \A t \in Ids(b) : spent[t] \in {NoOwner, e}
           /\ \A t \in Token : spent'[t] = IF t \in Ids(b) THEN e ELSE spent[t]
<1> DEFINE e == call[h].ev
           b == Batch(e, Need(e))
<1>1. e \in Event
  BY CallType DEF Burns
<1>2. Need(e) \in 1..Len(DistinctTokens(e))
  BY <1>1, NeedType, DistinctTokensType DEF Burns
<1>3. Ids(b) \subseteq Token /\ Ids(b) \subseteq Ids(Body[e].creds)
  BY <1>1, <1>2, BatchIds
<1>4. Distinct(b) /\ \A t \in Ids(b) : spent[t] \in {NoOwner, e}
  BY DEF Burns, CanSpend, Foreign
<1>5. \A t \in Token : spent'[t] = IF t \in Ids(b) THEN e ELSE spent[t]
  BY DEF Burns, Spend, TypeOK
<1> QED
  BY <1>1, <1>2, <1>3, <1>4, <1>5

\* A burn keeps what is burned right, and what was paid.
LEMMA BurnKeeps ==
    ASSUME TypeOK, BurnInv, NEW h \in Handler, Burns(h), cleared' = cleared
    PROVE  BurnedRightly' /\ Paid'
<1> DEFINE e == call[h].ev
           b == Batch(e, Need(e))
<1>1. /\ e \in Event /\ Need(e) \in 1..Len(DistinctTokens(e))
      /\ Distinct(b) /\ Ids(b) \subseteq Token /\ Ids(b) \subseteq Ids(Body[e].creds)
      /\ \A t \in Ids(b) : spent[t] \in {NoOwner, e}
      /\ \A t \in Token : spent'[t] = IF t \in Ids(b) THEN e ELSE spent[t]
  BY BurnsOwn
<1>2. e \in cleared /\ \A t \in Ids(Body[e].creds) : KeyOf[t] \in DomainKeys(e)
  BY DEF Burns, BurnInv, HooksPassed, Verified
<1>3. BurnedOnlyIfCleared'
  <2> SUFFICES ASSUME NEW f \in Event, NEW t \in Token, spent'[t] = f PROVE f \in cleared
    BY DEF BurnedOnlyIfCleared, Owned
  <2>1. f = e \/ spent[t] = f
    BY <1>1
  <2> QED
    BY <1>2, <2>1 DEF BurnInv, BurnedRightly, BurnedOnlyIfCleared, Owned
<1>4. SpentInDomain'
  <2> SUFFICES ASSUME NEW t \in Token, spent'[t] # NoOwner PROVE KeyOf[t] \in DomainKeys(spent'[t])
    BY DEF SpentInDomain
  <2>1. CASE t \in Ids(b)
    BY <1>1, <1>2, <2>1
  <2>2. CASE t \notin Ids(b)
    BY <1>1, <2>2 DEF BurnInv, BurnedRightly, SpentInDomain
  <2> QED
    BY <2>1, <2>2
<1>5. Paid'
  <2> SUFFICES ASSUME NEW f \in Event, price'[f] > 0
               PROVE  /\ Distinct(Batch(f, price'[f]))
                      /\ \A t \in Ids(Batch(f, price'[f])) : spent'[t] = f
    BY DEF Paid, Batch
  <2>1. price'[e] = Need(e) /\ \A g \in Event \ {e} : price'[g] = price[g]
    BY <1>1 DEF Burns, TypeOK
  <2>2. CASE f = e
    BY <1>1, <2>1, <2>2
  <2>3. CASE f # e
    <3>1. /\ Distinct(Batch(f, price[f])) /\ \A t \in Ids(Batch(f, price[f])) : spent[t] = f
          /\ price'[f] = price[f]
      BY <2>1, <2>3 DEF BurnInv, Paid
    <3>2. price[f] \in 1..Len(DistinctTokens(f))
      BY <2>1, <2>3, DistinctTokensType DEF TypeOK
    <3>3. Ids(Batch(f, price[f])) \subseteq Token /\ f # NoOwner
      BY <3>2, BatchIds, AdmissionAssumption
    <3> QED
      BY <1>1, <2>3, <3>1, <3>3
  <2> QED
    BY <2>2, <2>3
<1> QED
  BY <1>3, <1>4, <1>5 DEF BurnedRightly

\* Steps that leave the spent set, the prices and the clearances alone keep what is burned
\* right; those that only clear one more event, too.
LEMMA UnburnedKeeps ==
    ASSUME TypeOK, BurnInv, UNCHANGED <<spent, price>>, cleared \subseteq cleared'
    PROVE  BurnedRightly' /\ Paid'
<1>1. BurnedOnlyIfCleared' /\ SpentInDomain'
  BY DEF BurnInv, BurnedRightly, BurnedOnlyIfCleared, SpentInDomain, Owned
<1>2. Paid'
  BY DEF BurnInv, Paid, Batch
<1> QED
  BY <1>1, <1>2 DEF BurnedRightly

\* Every step keeps the invariant.
LEMMA BurnStep == TypeOK /\ BurnInv /\ [Next]_vars => BurnInv'
<1> SUFFICES ASSUME TypeOK, BurnInv, [Next]_vars PROVE BurnInv'
  OBVIOUS
<1> DEFINE Calls == Routed' /\ Verified' /\ HooksPassed'
<1>1. ASSUME NEW h \in Handler, NEW e \in Event, Arrive(h, e) PROVE BurnInv'
  <2>1. UNCHANGED <<policy, spent, cleared, price>>
    BY <1>1 DEF Arrive
  <2>2. call'[h].pc = "route" /\ \A k \in Handler \ {h} : call'[k] = call[k]
    BY <1>1 DEF Arrive, TypeOK
  <2>3. Calls
    BY <2>1, <2>2 DEF BurnInv, Routed, Verified, HooksPassed
  <2>4. PolicyKeys'
    BY <2>1 DEF BurnInv, PolicyKeys
  <2> QED
    BY <2>1, <2>3, <2>4, UnburnedKeeps DEF BurnInv
<1>2. ASSUME NEW h \in Handler, Route(h) PROVE BurnInv'
  <2> DEFINE path == Path(call[h].ev, policy)
  <2>1. UNCHANGED <<policy, spent, cleared, price>>
    BY <1>2 DEF Route
  <2>2. call[h] \in Call /\ call[h].ev \in Event
    BY <1>2, CallType DEF Route
  <2>3. RightPath(call[h].ev, path)
    BY <2>2, PathRight
  <2> HIDE DEF path
  <2>4. call' = [call EXCEPT ![h] = [call[h] EXCEPT !.pc = "gate", !.path = path]]
    BY <1>2 DEF Route, TypeOK, path
  <2>5. /\ call'[h] = [call[h] EXCEPT !.pc = "gate", !.path = path]
        /\ \A k \in Handler \ {h} : call'[k] = call[k]
    BY <2>4 DEF TypeOK
  <2>6. call'[h].pc = "gate" /\ call'[h].path = path /\ call'[h].ev = call[h].ev
    BY <2>2, <2>5 DEF Call
  <2>7. Calls
    BY <2>1, <2>3, <2>5, <2>6 DEF BurnInv, Routed, Verified, HooksPassed
  <2>8. PolicyKeys'
    BY <2>1 DEF BurnInv, PolicyKeys
  <2> QED
    BY <2>1, <2>7, <2>8, UnburnedKeeps DEF BurnInv
<1>3. ASSUME NEW h \in Handler, Gate(h) PROVE BurnInv'
  <2>1. UNCHANGED <<policy, spent, cleared, price>> /\ call[h].pc = "gate"
    BY <1>3 DEF Gate
  <2>2. call[h].ev \in Event /\ RightPath(call[h].ev, call[h].path)
    BY <2>1, CallType DEF BurnInv, Routed
  <2>3. \A k \in Handler \ {h} : call'[k] = call[k]
    BY <1>3, <2>1, MoveFacts DEF Gate
  <2>4. CASE Admits(call[h].ev, call[h].path, policy) /\ Goto(h, "hooks")
    <3>1. call'[h].pc = "hooks" /\ call'[h].ev = call[h].ev /\ call'[h].path = call[h].path
      BY <2>1, <2>4, MoveFacts
    <3>2. Planned(call[h].ev) => \A t \in Ids(Body[call[h].ev].creds) :
                                      KeyOf[t] \in DomainKeys(call[h].ev)
      BY <2>2, <2>4, GateVerifies DEF BurnInv
    <3>3. Calls
      BY <2>1, <2>2, <2>3, <3>1, <3>2 DEF BurnInv, Routed, Verified, HooksPassed
    <3> QED
      BY <2>1, <3>3, UnburnedKeeps DEF BurnInv, PolicyKeys
  <2>5. CASE End(h)
    <3>1. call'[h].pc = "idle"
      BY <2>1, <2>5, MoveFacts
    <3>2. Calls
      BY <2>1, <2>3, <3>1 DEF BurnInv, Routed, Verified, HooksPassed
    <3> QED
      BY <2>1, <3>2, UnburnedKeeps DEF BurnInv, PolicyKeys
  <2> QED
    BY <1>3, <2>4, <2>5 DEF Gate
<1>4. ASSUME NEW h \in Handler, LaterHooks(h) PROVE BurnInv'
  <2>1. UNCHANGED <<policy, spent, price>> /\ call[h].pc = "hooks" /\ cleared \subseteq cleared'
    BY <1>4 DEF LaterHooks
  <2>2. \A k \in Handler \ {h} : call'[k] = call[k]
    BY <1>4, <2>1, MoveFacts DEF LaterHooks
  <2>3. \/ call'[h].pc = "idle"
        \/ /\ call'[h].pc = "commit" /\ call'[h].ev = call[h].ev
           /\ call'[h].path = call[h].path /\ call[h].ev \in cleared'
    BY <1>4, <2>1, MoveFacts DEF LaterHooks
  <2>4. Calls
    BY <2>1, <2>2, <2>3 DEF BurnInv, Routed, Verified, HooksPassed
  <2> QED
    BY <2>1, <2>4, UnburnedKeeps DEF BurnInv, PolicyKeys
<1>5. ASSUME NEW h \in Handler, CommitSpend(h) PROVE BurnInv'
  <2>1. UNCHANGED <<policy, cleared>> /\ call[h].pc = "commit"
    BY <1>5 DEF CommitSpend
  <2>2. Goto(h, "store") \/ End(h)
    BY <1>5, CommitCases DEF Burns
  <2>3. \A k \in Handler \ {h} : call'[k] = call[k]
    BY <2>1, <2>2, MoveFacts
  <2>4. \/ call'[h].pc = "idle"
        \/ /\ call'[h].pc = "store" /\ call'[h].ev = call[h].ev
           /\ call'[h].path = call[h].path
    BY <2>1, <2>2, MoveFacts
  <2>5. Calls
    BY <2>1, <2>3, <2>4 DEF BurnInv, Routed, Verified, HooksPassed
  <2>6. BurnedRightly' /\ Paid'
    BY <1>5, <2>1, CommitCases, BurnKeeps, UnburnedKeeps
  <2> QED
    BY <2>1, <2>5, <2>6 DEF BurnInv, PolicyKeys
<1>6. ASSUME NEW h \in Handler, StoreEvent(h) PROVE BurnInv'
  <2>1. UNCHANGED <<policy, spent, cleared, price>> /\ call[h].pc = "store"
    BY <1>6 DEF StoreEvent
  <2>2. call'[h].pc = "idle" /\ \A k \in Handler \ {h} : call'[k] = call[k]
    BY <1>6, <2>1, MoveFacts DEF StoreEvent
  <2>3. Calls
    BY <2>1, <2>2 DEF BurnInv, Routed, Verified, HooksPassed
  <2> QED
    BY <2>1, <2>3, UnburnedKeeps DEF BurnInv, PolicyKeys
<1>7. ASSUME NEW c \in Config, Sighup(c) PROVE BurnInv'
  <2>1. UNCHANGED <<policy, spent, call, cleared, price>>
    BY <1>7 DEF Sighup
  <2> QED
    BY <2>1, UnburnedKeeps DEF BurnInv, PolicyKeys, Routed, Verified, HooksPassed
<1>8. CASE ApplyField
  <2>1. UNCHANGED <<spent, cleared, price>> /\ call' = Repriced(call, policy')
    BY <1>8 DEF ApplyField
  <2>2. \A h \in Handler : /\ call'[h].pc = call[h].pc
                           /\ call[h] # Idle => /\ call'[h].ev = call[h].ev
                                                /\ call'[h].path = call[h].path
    <3> SUFFICES ASSUME NEW h \in Handler, call[h] # Idle
                 PROVE  /\ call'[h].pc = call[h].pc /\ call'[h].ev = call[h].ev
                        /\ call'[h].path = call[h].path
      BY <2>1 DEF Repriced
    <3>1. call[h] \in Call
      BY DEF TypeOK
    <3> QED
      BY <2>1, <3>1 DEF Repriced, Call
  <2>3. Idle.pc = "idle"
    BY DEF Idle
  <2>4. Calls
    BY <2>1, <2>2, <2>3 DEF BurnInv, Routed, Verified, HooksPassed
  <2>5. PolicyKeys'
    <3> DEFINE f == Head(reload)
    <3>1. f \in Field /\ DOMAIN policy = Field /\ configFile \in Config
      BY <1>8, ConfigFields DEF ApplyField, TypeOK
    <3>2. \A k \in KeySet : k \in Field /\ configFile[k] \subseteq KeysOf(k)
      BY <3>1 DEF KeySet, Field, KeysOf
    <3>3. policy' = policy \/ policy' = [policy EXCEPT ![f] = configFile[f]]
      BY <1>8 DEF ApplyField
    <3>4. ASSUME NEW k \in KeySet, policy' = [policy EXCEPT ![f] = configFile[f]]
          PROVE  policy'[k] \in {policy[k], configFile[k]}
      BY <3>1, <3>2, <3>4
    <3> QED
      BY <3>2, <3>3, <3>4 DEF BurnInv, PolicyKeys
  <2> QED
    BY <2>1, <2>4, <2>5, UnburnedKeeps DEF BurnInv
<1>9. CASE Restart
  <2>1. UNCHANGED <<spent, cleared, price>> /\ policy' = configFile /\ configFile \in Config
        /\ \A h \in Handler : call'[h].pc = "idle"
    BY <1>9 DEF Restart, TypeOK, Idle
  <2>2. Calls
    BY <2>1 DEF Routed, Verified, HooksPassed
  <2>3. PolicyKeys'
    BY <2>1 DEF PolicyKeys, KeysOf
  <2> QED
    BY <2>1, <2>2, <2>3, UnburnedKeeps DEF BurnInv
<1>10. CASE UNCHANGED vars
  <2>1. UNCHANGED <<policy, spent, call, cleared, price>>
    BY <1>10 DEF vars
  <2> QED
    BY <2>1, UnburnedKeeps DEF BurnInv, PolicyKeys, Routed, Verified, HooksPassed
<1> QED
  BY <1>1, <1>2, <1>3, <1>4, <1>5, <1>6, <1>7, <1>8, <1>9, <1>10 DEF Next, Step

\* The invariant holds in every reachable state.
LEMMA BurnInvariant == Spec => []BurnInv
<1>1. Init => BurnInv
  <2> SUFFICES ASSUME Init PROVE BurnInv
    OBVIOUS
  <2>1. PolicyKeys
    BY DEF Init, PolicyKeys, KeysOf
  <2>2. \A h \in Handler : call[h].pc = "idle"
    BY DEF Init, Idle
  <2>3. Routed /\ Verified /\ HooksPassed
    BY <2>2 DEF Routed, Verified, HooksPassed
  <2>4. BurnedRightly
    BY AdmissionAssumption DEF Init, BurnedRightly, BurnedOnlyIfCleared, SpentInDomain, Owned
  <2>5. Paid
    BY DEF Init, Paid
  <2> QED
    BY <2>1, <2>3, <2>4, <2>5 DEF BurnInv
<1> QED
  BY <1>1, BurnStep, TypeCorrect, PTL DEF Spec

\* relay.go: a token is burned only for an event that passed every hook, and CommitSpend,
\* which verifies nothing, burns only tokens of the event's own domain, whatever reload came
\* between routing, gate and commit.
THEOREM AlwaysBurnedRightly == Spec => []BurnedRightly
<1>1. BurnInv => BurnedRightly
  BY DEF BurnInv
<1> QED
  BY <1>1, BurnInvariant, PTL

\* CommitSpend: an event that has paid can commit again at the price it paid, whatever rivals
\* presented its tokens since.
THEOREM RetryAlwaysIdempotent == Spec => []RetryIdempotent
<1>1. BurnInv => RetryIdempotent
  <2> SUFFICES ASSUME BurnInv, NEW e \in Event, price[e] > 0
               PROVE  CanSpend(spent, Batch(e, price[e]), e)
    BY DEF RetryIdempotent
  <2>1. e # Strict
    BY AdmissionAssumption
  <2> QED
    BY <2>1 DEF BurnInv, Paid, CanSpend, Foreign
<1> QED
  BY <1>1, BurnInvariant, PTL

----------------------------------------------------------------------------
(* What an event pays.                                                      *)

\* The operator's configs agree on space tokens.
SameSpace == \A c, d \in Config : c.space = d.space /\ c.spaceWrite = d.spaceWrite

\* No reload can turn space tokens on or off while a tokenless group reaction is between its
\* routing and its gate: the one race in which content passes below every rule in force.
NoSpaceRace == SameSpace \/ \A e \in Event : Body[e].class = "reaction" => HasToken(e)

\* An event owns tokens it carries.
OwnedCarried == \A t \in Token : spent[t] # NoOwner => t \in Ids(Body[spent[t]].creds)

\* A handler's event is due no more than the present policy asks.
DueNow == \A h \in Handler : call[h].pc # "idle" => call[h].due <= Due(call[h].ev, policy)

\* Past the gate, an event that commits no spend is due nothing.
FreeIsFree ==
    \A h \in Handler : call[h].pc \in {"hooks", "commit", "store"} /\ ~Planned(call[h].ev)
        => call[h].due = 0

\* When the configs agree on space tokens, so does the live policy, and a group reaction is
\* gated as it was routed.
SpaceSettled ==
    SameSpace =>
        /\ \A c \in Config : policy.space = c.space /\ policy.spaceWrite = c.spaceWrite
        /\ \A h \in Handler :
              /\ call[h].pc \in {"gate", "hooks", "commit", "store"}
              /\ Body[call[h].ev].class = "reaction"
              => (call[h].path = "space" <=> SpaceEnforced(policy))

\* The inductive invariant.
PayInv == OwnedCarried /\ DueNow /\ FreeIsFree /\ SpaceSettled /\ EventsPay

\* An event carries finitely many tokens.
LEMMA CarriedFinite ==
    ASSUME NEW e \in Event, NEW S \in SUBSET Ids(Body[e].creds)
    PROVE  IsFiniteSet(S) /\ Cardinality(S) \in Nat
<1> DEFINE s == Body[e].creds
           n == Len(s)
<1>1. s \in Seq(Token) /\ n \in Nat /\ DOMAIN s = 1..n
  BY BodyFacts
<1>2. s \in Surjection(1..n, Ids(s))
  BY <1>1 DEF Surjection, Ids
<1> HIDE DEF s, n
<1>3. IsFiniteSet(1..n)
  BY <1>1, FS_Interval
<1>4. IsFiniteSet(Ids(s))
  BY <1>2, <1>3, FS_Surjection
<1>5. IsFiniteSet(S)
  BY <1>4, FS_Subset DEF s
<1> QED
  BY <1>5, FS_CardinalityType

\* A batch without repetition holds as many tokens as it is long.
LEMMA BatchCardinality ==
    ASSUME NEW e \in Event, NEW n \in 1..Len(DistinctTokens(e)), Distinct(Batch(e, n))
    PROVE  Cardinality(Ids(Batch(e, n))) = n
<1> DEFINE b == Batch(e, n)
<1>1. DOMAIN b = 1..n /\ b \in Seq(Token) /\ Len(b) = n /\ n \in Nat
  BY BatchIds, DistinctTokensType
<1> HIDE DEF b
<1>2. b \in Bijection(1..n, Ids(b))
  BY <1>1 DEF Bijection, Injection, Surjection, Ids, Distinct, b, IsInjective
<1>3. ExistsBijection(1..n, Ids(b))
  BY <1>2 DEF ExistsBijection
<1> QED
  BY <1>1, <1>3, FS_CountingElements DEF b

\* A tokenless event passes the gate only where some rule lets it in free, and a mailbox
\* event is free.
LEMMA GateFree ==
    ASSUME NEW e \in Event, NEW path, NEW p, RightPath(e, path), Admits(e, path, p), ~Planned(e),
           Body[e].class = "reaction" /\ ~HasToken(e) => (path = "space" <=> SpaceEnforced(p))
    PROVE  Due(e, p) = 0
<1>1. Body[e].class \in Class
  BY BodyFacts
<1>2. CASE Body[e].class = "mailbox"
  BY <1>2 DEF Due
<1>3. CASE Body[e].class # "mailbox"
  <2>1. ~HasToken(e)
    BY <1>3 DEF Planned
  <2>2. CASE path \in {"wrap", "space"}
    <3>1. ~SpaceEnforced(p)
      BY <2>1, <2>2 DEF Admits, GateSpaceTokens
    <3>2. Body[e].class \in {"wrap", "space"}
      BY <2>1, <2>2, <3>1 DEF RightPath
    <3> QED
      BY <2>1, <3>1, <3>2 DEF Due, Free
  <2>3. CASE path = "plain"
    <3>1. ~(p.blind /\ Body[e].class \in {"blind", "reaction"})
      BY <2>3 DEF Admits
    <3>2. Body[e].class \in {"reaction", "blind", "attributed"}
      BY <2>3 DEF RightPath
    <3>3. Free(e, p)
      BY <2>1, <2>3, <3>1, <3>2 DEF Free
    <3> QED
      BY <2>1, <3>3 DEF Due
  <2> QED
    BY <1>3, <2>1, <2>2, <2>3 DEF RightPath
<1> QED
  BY <1>2, <1>3

\* Owned tokens stay owned.
LEMMA OwnedGrows ==
    ASSUME TypeOK, [Next]_vars, NEW e \in Event
    PROVE  Owned(e) \subseteq Owned(e)'
<1>1. CASE spent' = spent
  BY <1>1 DEF Owned
<1>2. ASSUME NEW h \in Handler, Burns(h) PROVE Owned(e) \subseteq Owned(e)'
  BY <1>2, BurnsOwn, AdmissionAssumption DEF Owned
<1>3. ASSUME NEW h \in Handler, CommitSpend(h) PROVE Owned(e) \subseteq Owned(e)'
  BY <1>1, <1>2, <1>3, CommitCases
<1> QED
  BY <1>1, <1>3 DEF Next, vars, Step, Arrive, Route, Gate, LaterHooks, StoreEvent, Sighup,
                    ApplyField, Restart

\* What an event owns never falls, in number.
LEMMA OwnedCount ==
    ASSUME TypeOK, TypeOK', OwnedCarried', [Next]_vars, NEW e \in Event
    PROVE  /\ Cardinality(Owned(e)) \in Nat /\ Cardinality(Owned(e)') \in Nat
           /\ Cardinality(Owned(e)) <= Cardinality(Owned(e)')
<1>1. Owned(e) \subseteq Owned(e)'
  BY OwnedGrows
<1>2. IsFiniteSet(Owned(e)') /\ Cardinality(Owned(e)') \in Nat
  <2>1. Owned(e)' \subseteq Ids(Body[e].creds)
    BY AdmissionAssumption DEF Owned, OwnedCarried
  <2> QED
    BY <2>1, CarriedFinite
<1>3. IsFiniteSet(Owned(e)) /\ Cardinality(Owned(e)) <= Cardinality(Owned(e)')
  BY <1>1, <1>2, FS_Subset
<1> QED
  BY <1>2, <1>3, FS_CardinalityType

\* An event owns only tokens it carries, whatever is burned.
LEMMA CarriedStep ==
    ASSUME TypeOK, OwnedCarried, [Next]_vars
    PROVE  OwnedCarried'
<1>1. CASE spent' = spent
  BY <1>1 DEF OwnedCarried
<1>2. ASSUME NEW h \in Handler, Burns(h) PROVE OwnedCarried'
  BY <1>2, BurnsOwn DEF OwnedCarried
<1>3. ASSUME NEW h \in Handler, CommitSpend(h) PROVE OwnedCarried'
  BY <1>1, <1>2, <1>3, CommitCases
<1> QED
  BY <1>1, <1>3 DEF Next, vars, Step, Arrive, Route, Gate, LaterHooks, StoreEvent, Sighup,
                    ApplyField, Restart

\* A burn covers what the event is due.
LEMMA BurnPays ==
    ASSUME TypeOK, TypeOK', PayInv, OwnedCarried', NEW h \in Handler, Burns(h),
           NEW e, e = call[h].ev
    PROVE  Cardinality(Owned(e)') >= call[h].due
<1> DEFINE b == Batch(e, Need(e))
<1>1. /\ e \in Event /\ Need(e) \in 1..Len(DistinctTokens(e)) /\ Need(e) \in Nat
      /\ Distinct(b) /\ Ids(b) \subseteq Token
      /\ \A t \in Token : spent'[t] = IF t \in Ids(b) THEN e ELSE spent[t]
  BY BurnsOwn, CallType, NeedType DEF Burns
<1>2. Cardinality(Ids(b)) = Need(e)
  BY <1>1, BatchCardinality
<1>3. call[h].due <= Due(e, policy) /\ call[h].due \in Nat
  BY CallType DEF Burns, PayInv, DueNow
<1>4. Due(e, policy) <= Need(e) /\ Due(e, policy) \in Nat
  BY <1>1, DueType, ConfigFields DEF Need, TypeOK
<1>5. Ids(b) \subseteq Owned(e)' /\ Owned(e)' \subseteq Ids(Body[e].creds)
  BY <1>1, AdmissionAssumption DEF OwnedCarried, Owned
<1>6. IsFiniteSet(Owned(e)') /\ Cardinality(Owned(e)') \in Nat
  BY <1>1, <1>5, CarriedFinite
<1>7. Cardinality(Ids(b)) <= Cardinality(Owned(e)')
  BY <1>5, <1>6, FS_Subset
<1> QED
  BY <1>1, <1>2, <1>3, <1>4, <1>6, <1>7

\* The parts of the invariant that are about one handler.
PayCall(h) ==
    /\ call[h].pc # "idle" => call[h].due <= Due(call[h].ev, policy)
    /\ call[h].pc \in {"hooks", "commit", "store"} /\ ~Planned(call[h].ev) => call[h].due = 0
    /\ /\ SameSpace
       /\ call[h].pc \in {"gate", "hooks", "commit", "store"}
       /\ Body[call[h].ev].class = "reaction"
       => (call[h].path = "space" <=> SpaceEnforced(policy))
    /\ call[h].pc = "store" => Cardinality(Owned(call[h].ev)) >= call[h].due

LEMMA PayByCall ==
    PayInv <=> /\ OwnedCarried
               /\ SameSpace => \A c \in Config : /\ policy.space = c.space
                                                 /\ policy.spaceWrite = c.spaceWrite
               /\ \A h \in Handler : PayCall(h)
BY DEF PayInv, DueNow, FreeIsFree, SpaceSettled, EventsPay, PayCall

\* A handler that stays where it is, with an event due no more than before and no more than
\* the policy now asks, keeps its part.
LEMMA StillPays ==
    ASSUME TypeOK, TypeOK', PayInv, OwnedCarried', [Next]_vars, NEW h \in Handler,
           call'[h].pc = call[h].pc,
           call[h].pc # "idle" => /\ call'[h].ev = call[h].ev /\ call'[h].path = call[h].path
                                  /\ call'[h].due <= call[h].due
                                  /\ call'[h].due <= Due(call[h].ev, policy'),
           SameSpace => (SpaceEnforced(policy') <=> SpaceEnforced(policy))
    PROVE  PayCall(h)'
<1>1. CASE call[h].pc = "idle"
  BY <1>1 DEF PayCall
<1>2. ASSUME call[h].pc # "idle", NEW e \in Event, e = call[h].ev PROVE PayCall(h)'
  <2>1. call[h].due \in Nat /\ call'[h].due \in Nat
    <3>1. call'[h] \in {Idle} \cup Call /\ Idle.pc = "idle"
      BY DEF TypeOK, Idle
    <3> QED
      BY <1>2, <3>1, CallType DEF Call
  <2>2. /\ Cardinality(Owned(e)) \in Nat /\ Cardinality(Owned(e)') \in Nat
        /\ Cardinality(Owned(e)) <= Cardinality(Owned(e)')
    BY OwnedCount
  <2>3. PayCall(h) /\ call'[h].ev = e
    BY <1>2, PayByCall
  <2>4. call'[h].pc = "store" => Cardinality(Owned(e)') >= call'[h].due
    BY <1>2, <2>1, <2>2, <2>3 DEF PayCall
  <2>5. call'[h].pc = "store" => (Cardinality(Owned(call[h].ev)) >= call[h].due)'
    BY <2>3, <2>4 DEF Owned
  <2>6. /\ call'[h].pc # "idle" => call'[h].due <= Due(call'[h].ev, policy')
        /\ call'[h].pc \in {"hooks", "commit", "store"} /\ ~Planned(call'[h].ev)
              => call'[h].due = 0
        /\ /\ SameSpace
           /\ call'[h].pc \in {"gate", "hooks", "commit", "store"}
           /\ Body[call'[h].ev].class = "reaction"
           => (call'[h].path = "space" <=> SpaceEnforced(policy'))
    BY <1>2, <2>1, <2>3 DEF PayCall
  <2> QED
    BY <2>5, <2>6 DEF PayCall
<1> QED
  BY <1>1, <1>2, CallType

\* Every step keeps the invariant.
LEMMA PayStep == NoSpaceRace /\ TypeOK /\ TypeOK' /\ BurnInv /\ PayInv /\ [Next]_vars => PayInv'
<1> SUFFICES ASSUME NoSpaceRace, TypeOK, TypeOK', BurnInv, PayInv, [Next]_vars PROVE PayInv'
  OBVIOUS
<1> DEFINE Agreed == SameSpace => \A c \in Config : /\ policy.space = c.space
                                                    /\ policy.spaceWrite = c.spaceWrite
<1>0. OwnedCarried' /\ Agreed /\ \A h \in Handler : PayCall(h)
  BY CarriedStep, PayByCall DEF PayInv
<1>a. Agreed' /\ (\A h \in Handler : PayCall(h)') => PayInv'
  BY <1>0, PayByCall DEF PayInv, DueNow, FreeIsFree, SpaceSettled, EventsPay, PayCall
\* Where one handler moves and the policy stays, the moving handler is all there is to see to.
<1>b. ASSUME NEW h \in Handler, policy' = policy, PayCall(h)',
             \A k \in Handler \ {h} : call'[k] = call[k]
      PROVE  PayInv'
  <2>1. ASSUME NEW k \in Handler \ {h} PROVE PayCall(k)'
    <3>1. call[k].pc # "idle" => call[k].due \in Nat /\ call[k].due <= Due(call[k].ev, policy)
      BY <1>0, CallType DEF PayCall
    <3> QED
      BY <1>0, <1>b, <3>1, StillPays
  <2> QED
    BY <1>0, <1>a, <1>b, <2>1
<1>c. ASSUME NEW h \in Handler, call'[h].pc = "idle" PROVE PayCall(h)'
  BY <1>c DEF PayCall
<1>1. ASSUME NEW h \in Handler, NEW e \in Event, Arrive(h, e) PROVE PayInv'
  <2>1. policy' = policy /\ \A k \in Handler \ {h} : call'[k] = call[k]
    BY <1>1 DEF Arrive, TypeOK
  <2>2. call'[h].pc = "route" /\ call'[h].ev = e /\ call'[h].due = Due(e, policy)
    BY <1>1 DEF Arrive, TypeOK
  <2>3. Due(e, policy) \in Nat
    BY DueType, ConfigFields DEF TypeOK
  <2>4. PayCall(h)'
    BY <2>1, <2>2, <2>3 DEF PayCall
  <2> QED
    BY <1>b, <2>1, <2>4
<1>2. ASSUME NEW h \in Handler, Route(h) PROVE PayInv'
  <2> DEFINE path == Path(call[h].ev, policy)
  <2>1. policy' = policy /\ call[h].pc = "route" /\ call[h] \in Call /\ call[h].ev \in Event
    BY <1>2, CallType DEF Route
  <2>2. Body[call[h].ev].class = "reaction" => (path = "space" <=> SpaceEnforced(policy))
    BY DEF Path
  <2> HIDE DEF path
  <2>3. call' = [call EXCEPT ![h] = [call[h] EXCEPT !.pc = "gate", !.path = path]]
    BY <1>2 DEF Route, TypeOK, path
  <2>4. /\ call'[h] = [call[h] EXCEPT !.pc = "gate", !.path = path]
        /\ \A k \in Handler \ {h} : call'[k] = call[k]
    BY <2>3 DEF TypeOK
  <2>5. /\ call'[h].pc = "gate" /\ call'[h].path = path
        /\ call'[h].ev = call[h].ev /\ call'[h].due = call[h].due
    BY <2>1, <2>4 DEF Call
  <2>6. PayCall(h)'
    BY <1>0, <2>1, <2>2, <2>5 DEF PayCall
  <2> QED
    BY <1>b, <2>1, <2>4, <2>6
<1>3. ASSUME NEW h \in Handler, Gate(h) PROVE PayInv'
  <2>1. policy' = policy /\ call[h].pc = "gate" /\ call[h].ev \in Event /\ call[h].due \in Nat
    BY <1>3, CallType DEF Gate
  <2>2. \A k \in Handler \ {h} : call'[k] = call[k]
    BY <1>3, <2>1, MoveFacts DEF Gate
  <2>3. CASE Admits(call[h].ev, call[h].path, policy) /\ Goto(h, "hooks")
    <3>1. /\ call'[h].pc = "hooks" /\ call'[h].ev = call[h].ev
          /\ call'[h].path = call[h].path /\ call'[h].due = call[h].due
      BY <2>1, <2>3, MoveFacts
    <3>2. ASSUME ~Planned(call[h].ev) PROVE Due(call[h].ev, policy) = 0
      <4>1. RightPath(call[h].ev, call[h].path)
        BY <2>1 DEF BurnInv, Routed
      <4>2. Body[call[h].ev].class = "reaction" /\ ~HasToken(call[h].ev)
               => (call[h].path = "space" <=> SpaceEnforced(policy))
        BY <1>0, <2>1 DEF PayCall, NoSpaceRace
      <4> QED
        BY <2>1, <2>3, <3>2, <4>1, <4>2, GateFree
    <3>3. PayCall(h)'
      BY <1>0, <2>1, <3>1, <3>2 DEF PayCall
    <3> QED
      BY <1>b, <2>1, <2>2, <3>3
  <2>4. CASE End(h)
    <3>1. call'[h].pc = "idle"
      BY <2>1, <2>4, MoveFacts
    <3> QED
      BY <1>b, <1>c, <2>1, <2>2, <3>1
  <2> QED
    BY <1>3, <2>3, <2>4 DEF Gate
<1>4. ASSUME NEW h \in Handler, LaterHooks(h) PROVE PayInv'
  <2>1. policy' = policy /\ call[h].pc = "hooks"
    BY <1>4 DEF LaterHooks
  <2>2. \A k \in Handler \ {h} : call'[k] = call[k]
    BY <1>4, <2>1, MoveFacts DEF LaterHooks
  <2>3. CASE Goto(h, "commit")
    <3>1. /\ call'[h].pc = "commit" /\ call'[h].ev = call[h].ev
          /\ call'[h].path = call[h].path /\ call'[h].due = call[h].due
      BY <2>1, <2>3, MoveFacts
    <3>2. PayCall(h)'
      BY <1>0, <2>1, <3>1 DEF PayCall
    <3> QED
      BY <1>b, <2>1, <2>2, <3>2
  <2>4. CASE End(h)
    <3>1. call'[h].pc = "idle"
      BY <2>1, <2>4, MoveFacts
    <3> QED
      BY <1>b, <1>c, <2>1, <2>2, <3>1
  <2> QED
    BY <1>4, <2>3, <2>4 DEF LaterHooks
<1>5. ASSUME NEW h \in Handler, CommitSpend(h) PROVE PayInv'
  <2>1. /\ policy' = policy /\ call[h].pc = "commit" /\ call[h].ev \in Event
        /\ call[h].due \in Nat
    BY <1>5, CallType DEF CommitSpend
  <2>2. Goto(h, "store") \/ End(h)
    BY <1>5, CommitCases DEF Burns
  <2>3. \A k \in Handler \ {h} : call'[k] = call[k]
    BY <2>1, <2>2, MoveFacts
  <2>4. CASE End(h)
    <3>1. call'[h].pc = "idle"
      BY <2>1, <2>4, MoveFacts
    <3> QED
      BY <1>b, <1>c, <2>1, <2>3, <3>1
  <2>5. CASE Goto(h, "store") /\ ~End(h)
    <3>1. /\ call'[h].pc = "store" /\ call'[h].ev = call[h].ev
          /\ call'[h].path = call[h].path /\ call'[h].due = call[h].due
      BY <2>1, <2>5, MoveFacts
    <3>2. ASSUME NEW e \in Event, e = call[h].ev
          PROVE  Cardinality(Owned(e)') >= call[h].due
      <4>1. Cardinality(Owned(e)') \in Nat
        BY <1>0, OwnedCount
      <4>2. CASE Burns(h)
        BY <1>0, <3>2, <4>2, BurnPays
      <4>3. CASE ~Planned(call[h].ev)
        BY <1>0, <2>1, <4>1, <4>3 DEF PayCall
      <4> QED
        BY <1>5, <2>5, <4>2, <4>3, CommitCases
    <3>3. (Cardinality(Owned(call[h].ev)) >= call[h].due)'
      <4>1. PICK e \in Event : e = call[h].ev
        BY <2>1
      <4>2. Cardinality(Owned(e)') >= call'[h].due /\ call'[h].ev = e
        BY <3>1, <3>2, <4>1
      <4> QED
        BY <4>2 DEF Owned
    <3>4. PayCall(h)'
      BY <1>0, <2>1, <3>1, <3>3 DEF PayCall
    <3> QED
      BY <1>b, <2>1, <2>3, <3>4
  <2> QED
    BY <2>2, <2>4, <2>5
<1>6. ASSUME NEW h \in Handler, StoreEvent(h) PROVE PayInv'
  <2>1. policy' = policy /\ call[h].pc = "store"
    BY <1>6 DEF StoreEvent
  <2>2. call'[h].pc = "idle" /\ \A k \in Handler \ {h} : call'[k] = call[k]
    BY <1>6, <2>1, MoveFacts DEF StoreEvent
  <2> QED
    BY <1>b, <1>c, <2>1, <2>2
\* Where no handler moves, each keeps its part.
<1>d. ASSUME UNCHANGED <<policy, call>> PROVE PayInv'
  <2>1. ASSUME NEW k \in Handler PROVE PayCall(k)'
    <3>1. call[k].pc # "idle" => call[k].due \in Nat /\ call[k].due <= Due(call[k].ev, policy)
      BY <1>0, CallType DEF PayCall
    <3> QED
      BY <1>0, <1>d, <3>1, StillPays
  <2> QED
    BY <1>0, <1>a, <1>d, <2>1
<1>7. ASSUME NEW c \in Config, Sighup(c) PROVE PayInv'
  BY <1>7, <1>d DEF Sighup
<1>8. CASE ApplyField
  <2> DEFINE f == Head(reload)
  <2>1. call' = Repriced(call, policy') /\ configFile \in Config
    BY <1>8 DEF ApplyField, TypeOK
  <2>2. f \in Field /\ DOMAIN policy = Field
    BY <1>8, ConfigFields DEF ApplyField, TypeOK
  <2>3. policy' = policy \/ policy' = [policy EXCEPT ![f] = configFile[f]]
    BY <1>8 DEF ApplyField
  <2> HIDE DEF f
  <2>4. \A g \in {"space", "spaceWrite"} : policy'[g] \in {policy[g], configFile[g]}
    BY <2>2, <2>3 DEF Field
  <2>5. SameSpace => policy'.space = policy.space /\ policy'.spaceWrite = policy.spaceWrite
    BY <1>0, <2>1, <2>4
  <2>6. Agreed'
    BY <1>0, <2>5
  <2>7. ASSUME NEW k \in Handler PROVE PayCall(k)'
    <3>1. CASE call[k] = Idle
      <4>1. call'[k].pc = "idle"
        BY <2>1, <3>1 DEF Repriced, Idle
      <4> QED
        BY <1>c, <4>1
    <3>2. CASE call[k] # Idle
      <4> DEFINE d == Due(call[k].ev, policy')
      <4>1. call[k] \in Call
        BY <3>2 DEF TypeOK
      <4>2. call'[k] = [call[k] EXCEPT !.due = Lesser(call[k].due, d)]
        BY <2>1, <3>2 DEF Repriced
      <4>3. policy'.bytesPerToken \in Nat
        BY ConfigFields DEF TypeOK
      <4>4. d \in Nat /\ call[k].due \in Nat
        BY <4>1, <4>3, DueType DEF Call
      <4> HIDE DEF d
      <4>5. /\ call'[k].pc = call[k].pc /\ call'[k].ev = call[k].ev
            /\ call'[k].path = call[k].path
            /\ call'[k].due = Lesser(call[k].due, d)
        BY <4>1, <4>2 DEF Call
      <4>6. call'[k].due <= call[k].due /\ call'[k].due <= d
        BY <4>4, <4>5 DEF Lesser
      <4>7. SameSpace => (SpaceEnforced(policy') <=> SpaceEnforced(policy))
        BY <2>5 DEF SpaceEnforced
      <4> QED
        BY <1>0, <4>5, <4>6, <4>7, StillPays DEF d
    <3> QED
      BY <3>1, <3>2
  <2> QED
    BY <1>a, <2>6, <2>7
<1>9. CASE Restart
  <2>1. policy' = configFile /\ configFile \in Config
    BY <1>9 DEF Restart, TypeOK
  <2>2. Agreed'
    BY <2>1 DEF SameSpace
  <2>3. \A h \in Handler : call'[h].pc = "idle"
    BY <1>9 DEF Restart, Idle
  <2> QED
    BY <1>a, <1>c, <2>2, <2>3
<1>10. CASE UNCHANGED vars
  BY <1>10, <1>d DEF vars
<1> QED
  BY <1>1, <1>2, <1>3, <1>4, <1>5, <1>6, <1>7, <1>8, <1>9, <1>10 DEF Next, Step

\* CommitSpend prices an event anew, after the gate priced it and perhaps after a reload, and
\* a retry may find its tokens already its own: with space tokens settled, an event about to
\* be stored still owns at least what it was due at the cheapest instant of its handling.
THEOREM EventsAlwaysPay ==
    ASSUME NoSpaceRace
    PROVE  Spec => []EventsPay
<1>1. Init => PayInv
  <2> SUFFICES ASSUME Init PROVE PayInv
    OBVIOUS
  <2>1. \A h \in Handler : call[h].pc = "idle"
    BY DEF Init, Idle
  <2>2. OwnedCarried
    BY DEF Init, OwnedCarried
  <2>3. SpaceSettled
    BY <2>1 DEF Init, SpaceSettled, SameSpace
  <2> QED
    BY <2>1, <2>2, <2>3 DEF PayInv, DueNow, FreeIsFree, EventsPay
<1>2. NoSpaceRace
  OBVIOUS
<1>3. PayInv => EventsPay
  BY DEF PayInv
<1> QED
  BY <1>1, <1>2, <1>3, PayStep, BurnInvariant, TypeCorrect, PTL DEF Spec
============================================================================
