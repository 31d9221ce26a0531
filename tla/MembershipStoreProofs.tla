----------------------- MODULE MembershipStoreProofs -----------------------
(***************************************************************************)
(* Proofs about the membership store, for any sets of tokens, pubkeys,     *)
(* events and handlers and any bounds.                                     *)
(***************************************************************************)
EXTENDS MembershipStore, TLAPS

\* What Spend returns is a spent set again.
LEMMA SpendType ==
    ASSUME NEW s \in [Token -> Owner \cup {NoOwner}], NEW batch, NEW o \in Owner
    PROVE  Spend(s, batch, o) \in [Token -> Owner \cup {NoOwner}]
BY DEF Spend

\* An event is charged for tokens it carries.
LEMMA BatchIds ==
    ASSUME NEW e \in Event, NEW n \in 1..Len(TokensOf[e])
    PROVE  /\ Ids(SubSeq(TokensOf[e], 1, n)) \subseteq Token
           /\ TokensOf[e][1] \in Ids(SubSeq(TokensOf[e], 1, n))
<1> DEFINE s == TokensOf[e]
<1>1. s \in Seq(Token) /\ Len(s) \in Nat
  BY StoreAssumption
<1>2. /\ SubSeq(s, 1, n) \in Seq(Token)
      /\ Len(SubSeq(s, 1, n)) = n
      /\ \A i \in 1..n : SubSeq(s, 1, n)[i] = s[i]
  BY <1>1
<1>3. DOMAIN SubSeq(s, 1, n) = 1..n /\ 1 \in 1..n
  BY <1>1, <1>2
<1>4. \A i \in 1..n : s[i] \in Token
  BY <1>1
<1> QED
  BY <1>2, <1>3, <1>4 DEF Ids

\* What a handler inside handleBinding holds.
LEMMA CallType ==
    ASSUME TypeOK, NEW h \in Handler, call[h].pc # "idle"
    PROVE  /\ call[h] \in BindCall
           /\ call[h].pk \in Pubkey /\ call[h].tok \in Token
           /\ call[h].fast \in BOOLEAN /\ call[h].pc \in {"spend", "record"}
<1>1. call[h] \in {Idle} \cup BindCall
  BY DEF TypeOK
<1>2. Idle.pc = "idle"
  BY DEF Idle
<1>3. call[h] \in BindCall
  BY <1>1, <1>2
<1> QED
  BY <1>3 DEF BindCall

\* Answer ends the call and only adds the caller to told.
LEMMA AnswerType ==
    ASSUME TypeOK, NEW h \in Handler, call[h].pc # "idle", NEW err, Answer(h, err)
    PROVE  call' \in [Handler -> {Idle} \cup BindCall] /\ told' \in SUBSET Pubkey
<1>1. call[h].pk \in Pubkey
  BY CallType
<1> QED
  BY <1>1 DEF TypeOK, Answer

\* A save writes a well-formed file, or fails within its budget.
LEMMA SaveType ==
    ASSUME TypeOK, Saved \/ SaveFailed,
           bound' \in SUBSET Pubkey, boundAt' \in [Pubkey -> Time \cup {NoTime}],
           spent' \in [Token -> Owner \cup {NoOwner}]
    PROVE  /\ file' \in [bound : SUBSET Pubkey, boundAt : [Pubkey -> Time \cup {NoTime}],
                         spent : [Token -> Owner \cup {NoOwner}]]
           /\ ioFails' \in 0..MaxIoFail
<1>1. CASE Saved
  BY <1>1 DEF Saved, Snapshot, Unspent, TypeOK
<1>2. CASE SaveFailed
  BY <1>2, StoreAssumption DEF SaveFailed, IoFailure, TypeOK
<1> QED
  BY <1>1, <1>2

\* Recording a member keeps the types of bound and boundAt.
LEMMA RecordType ==
    ASSUME TypeOK, NEW p \in Pubkey, Record(p)
    PROVE  bound' \in SUBSET Pubkey /\ boundAt' \in [Pubkey -> Time \cup {NoTime}]
BY DEF Record, MarkBoundAt, TypeOK

\* Every variable of the store keeps its type: MemStore, the JSON file, the handlers.
THEOREM TypeCorrect == Spec => []TypeOK
<1>1. Init => TypeOK
  <2> SUFFICES ASSUME Init PROVE TypeOK
    OBVIOUS
  <2>1. 0 \in Time /\ 0 \in 0..MaxIoFail /\ 0 \in 0..MaxRestart
    BY StoreAssumption DEF Time
  <2>2. file \in [bound : SUBSET Pubkey, boundAt : [Pubkey -> Time \cup {NoTime}],
                  spent : [Token -> Owner \cup {NoOwner}]]
    BY StoreAssumption DEF Init, LegacyFile, NoTimes, Owner
  <2>3. spent \in [Token -> Owner \cup {NoOwner}]
    BY <2>2 DEF Init, LoadSpent, Unspent
  <2> QED
    BY <2>1, <2>2, <2>3 DEF Init, TypeOK
<1>2. TypeOK /\ [Next]_vars => TypeOK'
  <2> SUFFICES ASSUME TypeOK, [Next]_vars PROVE TypeOK'
    OBVIOUS
  <2>1. ASSUME NEW h \in Handler, NEW p \in Pubkey, NEW t \in Credential, Present(h, p, t)
        PROVE  TypeOK'
    <3>1. [pc |-> "spend", pk |-> p, tok |-> t, fast |-> p \in bound] \in BindCall
      BY StoreAssumption DEF BindCall
    <3> QED
      BY <2>1, <3>1 DEF Present, TypeOK
  <2>2. ASSUME NEW h \in Handler, BindSpend(h) PROVE TypeOK'
    <3>1. call[h] \in BindCall /\ call[h].pk \in Owner
      BY <2>2, CallType DEF BindSpend, Owner
    <3>2. spent' \in [Token -> Owner \cup {NoOwner}]
      BY <2>2, <3>1, SpendType DEF BindSpend, TypeOK
    <3>3. [call[h] EXCEPT !.pc = "record"] \in BindCall
      BY <3>1 DEF BindCall
    <3>4. call' = [call EXCEPT ![h] = [call[h] EXCEPT !.pc = "record"]]
      BY <2>2 DEF BindSpend, TypeOK
    <3> QED
      BY <2>2, <3>2, <3>3, <3>4 DEF BindSpend, TypeOK
  <2>3. ASSUME NEW h \in Handler, BindRefused(h) PROVE TypeOK'
    <3>1. PICK err : Answer(h, err)
      BY <2>3 DEF BindRefused
    <3>2. call' \in [Handler -> {Idle} \cup BindCall] /\ told' \in SUBSET Pubkey
      BY <2>3, <3>1, AnswerType DEF BindRefused
    <3>3. ioFails' \in 0..MaxIoFail
      BY <2>3, StoreAssumption DEF BindRefused, IoFailure, TypeOK
    <3> QED
      BY <2>3, <3>2, <3>3 DEF BindRefused, TypeOK
  <2>4. ASSUME NEW h \in Handler, BindRecord(h) PROVE TypeOK'
    <3>1. call[h].pc # "idle" /\ call[h].pk \in Pubkey /\ call[h].tok \in Token
      BY <2>4, CallType DEF BindRecord
    <3>2. PICK err : Answer(h, err)
      BY <2>4 DEF BindRecord
    <3>3. call' \in [Handler -> {Idle} \cup BindCall] /\ told' \in SUBSET Pubkey
      BY <3>1, <3>2, AnswerType
    <3>4. bound' \in SUBSET Pubkey /\ boundAt' \in [Pubkey -> Time \cup {NoTime}]
      BY <2>4, <3>1, RecordType DEF BindRecord
    <3>5. /\ file' \in [bound : SUBSET Pubkey, boundAt : [Pubkey -> Time \cup {NoTime}],
                        spent : [Token -> Owner \cup {NoOwner}]]
          /\ ioFails' \in 0..MaxIoFail
      BY <2>4, <3>4, SaveType DEF BindRecord, TypeOK
    <3>6. minted' \in SUBSET (Token \X Pubkey)
      BY <2>4, <3>1 DEF BindRecord, TypeOK
    <3> QED
      BY <2>4, <3>3, <3>4, <3>5, <3>6 DEF BindRecord, TypeOK
  <2>5. ASSUME NEW h \in Handler, BindInline(h) PROVE TypeOK'
    <3>1. call[h].pc # "idle" /\ call[h].pk \in Pubkey /\ call[h].tok \in Token
      BY <2>5, CallType DEF BindInline
    <3>2. PICK err : Answer(h, err)
      BY <2>5 DEF BindInline
    <3>3. call' \in [Handler -> {Idle} \cup BindCall] /\ told' \in SUBSET Pubkey
      BY <3>1, <3>2, AnswerType
    <3>4. bound' \in SUBSET Pubkey /\ boundAt' \in [Pubkey -> Time \cup {NoTime}]
      BY <2>5, <3>1, RecordType DEF BindInline
    <3>5. spent' \in [Token -> Owner \cup {NoOwner}]
      BY <2>5, SpendType DEF BindInline, Owner, TypeOK
    <3>6. /\ file' \in [bound : SUBSET Pubkey, boundAt : [Pubkey -> Time \cup {NoTime}],
                        spent : [Token -> Owner \cup {NoOwner}]]
          /\ ioFails' \in 0..MaxIoFail
      BY <2>5, <3>4, <3>5, SaveType DEF BindInline
    <3>7. minted' \in SUBSET (Token \X Pubkey)
      BY <2>5, <3>1 DEF BindInline, TypeOK
    <3> QED
      BY <2>5, <3>3, <3>4, <3>5, <3>6, <3>7 DEF BindInline, TypeOK
  <2>6. ASSUME NEW e \in Event, NEW n \in 1..Len(TokensOf[e]), SpendAllForEvent(e, n)
        PROVE  TypeOK'
    <3> DEFINE batch == SubSeq(TokensOf[e], 1, n)
    <3>1. Ids(batch) \subseteq Token
      BY BatchIds
    <3>2. spent' \in [Token -> Owner \cup {NoOwner}]
      BY <2>6, SpendType DEF SpendAllForEvent, Owner, TypeOK
    <3>3. paid' \in [Event -> SUBSET Token]
      BY <2>6, <3>1 DEF SpendAllForEvent, TypeOK
    <3>4. (UNCHANGED <<file, ioFails>>) \/ Saved \/ SaveFailed
      BY <2>6 DEF SpendAllForEvent, SaveSpend
    <3>5. /\ file' \in [bound : SUBSET Pubkey, boundAt : [Pubkey -> Time \cup {NoTime}],
                        spent : [Token -> Owner \cup {NoOwner}]]
          /\ ioFails' \in 0..MaxIoFail
      BY <2>6, <3>2, <3>4, SaveType DEF SpendAllForEvent, TypeOK
    <3> QED
      BY <2>6, <3>2, <3>3, <3>5 DEF SpendAllForEvent, TypeOK
  <2>7. CASE Tick
    BY <2>7, StoreAssumption DEF Tick, TypeOK, Time
  <2>8. CASE Restart
    <3>1. spent' \in [Token -> Owner \cup {NoOwner}]
      BY <2>8 DEF Restart, LoadSpent, Unspent, TypeOK
    <3>2. bound' \in SUBSET Pubkey /\ boundAt' \in [Pubkey -> Time \cup {NoTime}]
      BY <2>8 DEF Restart, TypeOK
    <3>3. restarts' \in 0..MaxRestart
      BY <2>8, StoreAssumption DEF Restart, TypeOK
    <3> QED
      BY <2>8, <3>1, <3>2, <3>3 DEF Restart, TypeOK
  <2>9. CASE UNCHANGED vars
    BY <2>9 DEF vars, TypeOK
  <2> QED
    BY <2>1, <2>2, <2>3, <2>4, <2>5, <2>6, <2>7, <2>8, <2>9 DEF Next, Bind
<1> QED
  BY <1>1, <1>2, PTL DEF Spec

----------------------------------------------------------------------------
(***************************************************************************)
(* The inductive invariant.  The promises alone are not inductive: what a  *)
(* step may spend or record depends on what is spent, so each history is   *)
(* tied to the records that justify it, and each record to its copy in the *)
(* file, from which a restart rebuilds the inline store.                   *)
(***************************************************************************)

\* A handler past Bind's first step owns its credential.
InFlight ==
    \A h \in Handler : call[h].pc = "record" => badger /\ spent[call[h].tok] = call[h].pk

\* A restart loses no spent record: badger holds every record of the file, and an inline
\* store whose saves all succeeded equals its file.
FileBacked ==
    /\ badger => \A t \in Token : file.spent[t] # NoOwner => spent[t] # NoOwner
    /\ ~badger /\ ioFails = 0 => file.spent = spent

\* The file's members are members, and so are those who were answered OK.
FileBehind == file.bound \subseteq bound /\ told \subseteq file.bound

\* A recorded bind's credential is held by that pubkey (badger) or strictly (inline).
MintBacked ==
    Reliable => \A m \in minted : spent[m[1]] = IF badger THEN m[2] ELSE Strict

\* Every member other than those of an older file was minted.
MemberMinted ==
    Reliable => \A p \in bound \ LegacyBound : \E t \in Token : <<t, p>> \in minted

\* An event owns exactly the tokens it was told it paid, the first of its tags included.
Charged ==
    /\ Reliable => \A e \in Event, t \in Token : spent[t] = e <=> t \in paid[e]
    /\ \A e \in Event : paid[e] # {} => TokensOf[e][1] \in paid[e]

StoreInv ==
    /\ InFlight /\ FileBacked /\ FileBehind /\ MintBacked /\ MemberMinted /\ Charged
    /\ OneAccountPerCredential

\* What a successful spend changes: the tokens of the batch, to the owner.
LEMMA SpendEffect ==
    ASSUME NEW s \in [Token -> Owner \cup {NoOwner}], NEW batch, NEW o \in Owner,
           NEW t \in Token
    PROVE  Spend(s, batch, o)[t] = IF t \in Ids(batch) THEN o ELSE s[t]
BY DEF Spend

\* A one-token batch.
LEMMA SingleIds == ASSUME NEW t PROVE Ids(<<t>>) = {t}
BY DEF Ids

\* A failed save leaves the inline store unreliable.
LEMMA FailedSave ==
    ASSUME TypeOK, IoFailure
    PROVE  ioFails' # 0
BY DEF IoFailure, TypeOK

\* The owners of events, pubkeys and strict records are told apart.
LEMMA Owners ==
    /\ Strict # NoOwner
    /\ \A p \in Pubkey, e \in Event : p # e
    /\ \A o \in Pubkey \cup Event : o # NoOwner /\ o # Strict
BY StoreAssumption, SpentSetAssumption

\* The store starts in the invariant: nothing minted, told or paid; records from the file.
LEMMA StoreInit == Init => StoreInv
<1> SUFFICES ASSUME Init PROVE StoreInv
  OBVIOUS
<1> USE DEF Init, LegacyFile
<1>1. \A t \in Token : spent[t] = file.spent[t] /\ spent[t] \in {NoOwner, Strict}
  BY DEF LoadSpent, Unspent
<1>2. InFlight
  BY DEF InFlight, Idle
<1>3. FileBacked
  <2>1. spent = [t \in Token |-> file.spent[t]]
    BY DEF LoadSpent, Unspent
  <2>2. spent = file.spent
    BY <2>1
  <2> QED
    BY <1>1, <2>2 DEF FileBacked
<1>4. FileBehind /\ MintBacked /\ MemberMinted /\ OneAccountPerCredential
  BY DEF FileBehind, MintBacked, MemberMinted, OneAccountPerCredential
<1>5. Charged
  <2>1. \A e \in Event : e \notin {NoOwner, Strict}
    BY Owners
  <2> QED
    BY <1>1, <2>1 DEF Charged
<1> QED
  BY <1>2, <1>3, <1>4, <1>5 DEF StoreInv

\* Bind's first durable step: only the credential changes hands, from nobody to the caller.
LEMMA BindSpendKeeps ==
    ASSUME TypeOK, StoreInv, NEW h \in Handler, BindSpend(h)
    PROVE  StoreInv'
<1> DEFINE p == call[h].pk
           t == call[h].tok
<1>1. p \in Pubkey /\ t \in Token /\ call[h] \in BindCall
  BY CallType DEF BindSpend
<1>2. /\ badger /\ badger'
      /\ UNCHANGED <<file, bound, told, minted, paid, ioFails>>
  BY DEF BindSpend
<1>3. spent[t] \in {NoOwner, p}
  BY SingleIds DEF BindSpend, CanSpend
<1>4. \A u \in Token : spent'[u] = IF u = t THEN p ELSE spent[u]
  <2>1. p \in Owner
    BY <1>1 DEF Owner
  <2> QED
    BY <1>1, <2>1, SpendEffect, SingleIds DEF BindSpend, TypeOK
<1>5. /\ call'[h].pk = p /\ call'[h].tok = t
      /\ \A g \in Handler \ {h} : call'[g] = call[g]
  BY <1>1 DEF BindSpend, TypeOK, BindCall
<1>6. InFlight'
  <2> SUFFICES ASSUME NEW g \in Handler, call'[g].pc = "record"
               PROVE  spent'[call'[g].tok] = call'[g].pk
    BY <1>2 DEF InFlight
  <2>1. CASE g = h
    BY <2>1, <1>1, <1>4, <1>5
  <2>2. CASE g # h
    <3>1. call'[g] = call[g]
      BY <2>2, <1>5
    <3>2. call[g].pc = "record"
      BY <3>1
    <3>3. call[g].pk \in Pubkey /\ call[g].tok \in Token
      BY <3>2, CallType
    <3>4. spent[call[g].tok] = call[g].pk
      BY <3>2 DEF StoreInv, InFlight
    <3>5. spent'[call[g].tok] = call[g].pk
      BY <3>3, <3>4, <1>3, <1>4, Owners
    <3> QED
      BY <3>1, <3>5
  <2> QED
    BY <2>1, <2>2
<1>7. FileBacked'
  BY <1>1, <1>2, <1>4, Owners DEF StoreInv, FileBacked
<1>8. FileBehind' /\ MemberMinted' /\ OneAccountPerCredential'
  BY <1>2 DEF StoreInv, FileBehind, MemberMinted, OneAccountPerCredential, Reliable
<1>9. MintBacked'
  <2> SUFFICES ASSUME NEW m \in minted PROVE spent'[m[1]] = m[2]
    BY <1>2 DEF MintBacked
  <2>1. m[1] \in Token /\ m[2] \in Pubkey /\ spent[m[1]] = m[2]
    BY <1>2 DEF StoreInv, MintBacked, Reliable, TypeOK
  <2> QED
    BY <2>1, <1>3, <1>4, Owners
<1>10. Charged'
  <2>1. \A e \in Event, u \in Token : spent'[u] = e <=> spent[u] = e
    BY <1>1, <1>3, <1>4, Owners
  <2> QED
    BY <2>1, <1>2 DEF StoreInv, Charged, Reliable
<1> QED
  BY <1>6, <1>7, <1>8, <1>9, <1>10 DEF StoreInv

\* A handler that begins or ends a call leaves the others where they are; the call it ends
\* is no longer in flight.
LEMMA InFlightKept ==
    ASSUME TypeOK, StoreInv, NEW h \in Handler, NEW c \in {Idle} \cup BindCall,
           c.pc # "record", call' = [call EXCEPT ![h] = c],
           UNCHANGED badger, 
           \A t \in Token : spent[t] # NoOwner => spent'[t] = spent[t]
    PROVE  InFlight'
<1> SUFFICES ASSUME NEW g \in Handler, call'[g].pc = "record"
             PROVE  badger /\ spent'[call'[g].tok] = call'[g].pk
  BY DEF InFlight
<1>1. call'[h] = c /\ g # h
  BY DEF TypeOK
<1>2. call'[g] = call[g]
  BY <1>1 DEF TypeOK
<1>3. call[g].pc = "record"
  BY <1>2
<1>4. call[g].pk \in Pubkey /\ call[g].tok \in Token
  BY <1>3, CallType
<1>5. badger /\ spent[call[g].tok] = call[g].pk
  BY <1>3 DEF StoreInv, InFlight
<1>6. spent'[call[g].tok] = call[g].pk
  BY <1>4, <1>5, Owners
<1> QED
  BY <1>2, <1>5, <1>6

\* The parts of the invariant that look only at records, members and histories.
LEMMA RestKept ==
    ASSUME TypeOK, StoreInv,
           UNCHANGED <<badger, spent, bound, file, minted, told, paid>>, ioFails' >= ioFails
    PROVE  /\ FileBacked' /\ FileBehind' /\ MintBacked' /\ MemberMinted' /\ Charged'
           /\ OneAccountPerCredential'
<1>1. Reliable' => Reliable
  BY DEF TypeOK, Reliable
<1>2. FileBacked' /\ FileBehind'
  BY DEF StoreInv, FileBacked, FileBehind, TypeOK
<1> QED
  BY <1>1, <1>2 DEF StoreInv, MintBacked, MemberMinted, Charged, OneAccountPerCredential

\* handleBinding's IsBound test changes only the handler's own call.
LEMMA PresentKeeps ==
    ASSUME TypeOK, StoreInv, NEW h \in Handler, NEW p \in Pubkey, NEW t \in Credential,
           Present(h, p, t)
    PROVE  StoreInv'
<1> DEFINE c == [pc |-> "spend", pk |-> p, tok |-> t, fast |-> p \in bound]
<1>1. c \in BindCall /\ c.pc # "record"
  BY StoreAssumption DEF BindCall
<1>2. InFlight'
  BY <1>1, InFlightKept DEF Present
<1>3. /\ UNCHANGED <<badger, spent, bound, file, minted, told, paid>>
      /\ ioFails' >= ioFails
  BY DEF Present, TypeOK
<1> QED
  BY <1>2, <1>3, RestKept DEF StoreInv

\* A refused bind ends the call; told is unchanged, since no error is nil.
LEMMA BindRefusedKeeps ==
    ASSUME TypeOK, StoreInv, NEW h \in Handler, BindRefused(h)
    PROVE  StoreInv'
<1>1. call' = [call EXCEPT ![h] = Idle] /\ told' = told
  BY DEF BindRefused, Answer
<1>2. Idle.pc # "record"
  BY DEF Idle
<1>3. InFlight'
  BY <1>1, <1>2, InFlightKept DEF BindRefused
<1>4. ioFails' >= ioFails
  BY DEF BindRefused, IoFailure, TypeOK
<1> QED
  BY <1>1, <1>3, <1>4, RestKept DEF StoreInv, BindRefused

\* The clock moves nothing else.
LEMMA TickKeeps == ASSUME TypeOK, StoreInv, Tick PROVE StoreInv'
<1>1. InFlight'
  BY DEF Tick, StoreInv, InFlight
<1>2. ioFails' >= ioFails
  BY DEF Tick, TypeOK
<1> QED
  BY <1>1, <1>2, RestKept DEF StoreInv, Tick

\* Recording a member and saving it, or failing to, keeps the file behind the memory.
LEMMA SaveKeeps ==
    ASSUME TypeOK, StoreInv, NEW h \in Handler, call[h].pc # "idle", Record(call[h].pk),
           \/ Saved /\ Answer(h, "nil")
           \/ SaveFailed /\ Answer(h, "io")
    PROVE  FileBehind' /\ call' = [call EXCEPT ![h] = Idle]
<1>1. bound' = bound \cup {call[h].pk}
  BY DEF Record
<1>2. CASE Saved /\ Answer(h, "nil")
  BY <1>1, <1>2 DEF Saved, Snapshot, Answer, StoreInv, FileBehind
<1>3. CASE SaveFailed /\ Answer(h, "io")
  <2>1. told' = told /\ file' = file
    BY <1>3 DEF Answer, SaveFailed
  <2> QED
    BY <1>1, <1>3, <2>1 DEF Answer, StoreInv, FileBehind
<1> QED
  BY <1>2, <1>3

\* Bind's second step: the credential recorded in flight becomes the member's.
LEMMA BindRecordKeeps ==
    ASSUME TypeOK, StoreInv, NEW h \in Handler, BindRecord(h)
    PROVE  StoreInv'
<1> DEFINE p == call[h].pk
           t == call[h].tok
<1>1. p \in Pubkey /\ t \in Token /\ call[h].pc # "idle"
  BY CallType DEF BindRecord
<1>2. badger /\ badger' /\ spent[t] = p /\ spent' = spent /\ paid' = paid
  BY DEF BindRecord, StoreInv, InFlight
<1>3. /\ bound' = bound \cup {p}
      /\ minted' = minted \cup {<<t, p>>}
  BY DEF BindRecord, Record
<1>4. FileBehind' /\ call' = [call EXCEPT ![h] = Idle]
  BY <1>1, SaveKeeps DEF BindRecord
<1>5. InFlight'
  <2>1. Idle.pc # "record"
    BY DEF Idle
  <2> QED
    BY <1>2, <1>4, <2>1, InFlightKept
<1>6. FileBacked'
  <2>1. CASE Saved
    BY <1>2, <2>1 DEF Saved, Snapshot, Unspent, FileBacked
  <2>2. CASE SaveFailed
    BY <1>2, <2>2 DEF SaveFailed, StoreInv, FileBacked
  <2> QED
    BY <2>1, <2>2 DEF BindRecord
<1>7. MintBacked'
  <2> SUFFICES ASSUME NEW m \in minted' PROVE spent'[m[1]] = m[2]
    BY <1>2 DEF MintBacked
  <2>1. CASE m = <<t, p>>
    BY <2>1, <1>2
  <2>2. CASE m \in minted
    BY <2>2, <1>2 DEF StoreInv, MintBacked, Reliable
  <2> QED
    BY <2>1, <2>2, <1>3
<1>8. MemberMinted'
  <2> SUFFICES ASSUME NEW q \in bound' \ LegacyBound
               PROVE  \E u \in Token : <<u, q>> \in minted'
    BY DEF MemberMinted
  <2>1. CASE q = p
    BY <2>1, <1>1, <1>3
  <2>2. CASE q # p
    BY <2>2, <1>2, <1>3 DEF StoreInv, MemberMinted, Reliable
  <2> QED
    BY <2>1, <2>2
<1>9. OneAccountPerCredential'
  BY <1>2, <1>7 DEF OneAccountPerCredential, MintBacked, Reliable
<1>10. Charged'
  BY <1>2 DEF StoreInv, Charged, Reliable
<1> QED
  BY <1>4, <1>5, <1>6, <1>7, <1>8, <1>9, <1>10 DEF StoreInv

\* Bind without badger: an unspent credential becomes strict and the caller a member.
LEMMA BindInlineKeeps ==
    ASSUME TypeOK, StoreInv, NEW h \in Handler, BindInline(h)
    PROVE  StoreInv'
<1> DEFINE p == call[h].pk
           t == call[h].tok
<1>1. p \in Pubkey /\ t \in Token /\ call[h].pc # "idle"
  BY CallType DEF BindInline
<1>2. ~badger /\ ~badger' /\ spent[t] = NoOwner /\ paid' = paid
  BY DEF BindInline
<1>3. \A u \in Token : spent'[u] = IF u = t THEN Strict ELSE spent[u]
  BY SpendEffect, SingleIds DEF BindInline, TypeOK, Owner
<1>4. /\ bound' = bound \cup {p}
      /\ minted' = minted \cup {<<t, p>>}
  BY DEF BindInline, Record
<1>5. FileBehind' /\ call' = [call EXCEPT ![h] = Idle]
  BY <1>1, SaveKeeps DEF BindInline
<1>6. InFlight'
  <2>1. Idle.pc # "record"
    BY DEF Idle
  <2>2. \A u \in Token : spent[u] # NoOwner => spent'[u] = spent[u]
    BY <1>2, <1>3
  <2> QED
    BY <1>5, <2>1, <2>2, InFlightKept DEF BindInline
<1>7. CASE Saved
  <2>1. FileBacked'
    BY <1>2, <1>7 DEF Saved, Snapshot, FileBacked
  <2>2. Reliable' => Reliable
    BY <1>2, <1>7 DEF Saved, Reliable
  <2>3. MintBacked'
    <3> SUFFICES ASSUME Reliable, NEW m \in minted' PROVE spent'[m[1]] = Strict
      BY <1>2, <2>2 DEF MintBacked
    <3>1. CASE m = <<t, p>>
      BY <3>1, <1>1, <1>3
    <3>2. CASE m \in minted
      <4>1. m[1] \in Token /\ spent[m[1]] = Strict
        BY <3>2, <1>2 DEF StoreInv, MintBacked, TypeOK
      <4> QED
        BY <4>1, <1>2, <1>3
    <3> QED
      BY <3>1, <3>2, <1>4
  <2>4. MemberMinted'
    <3> SUFFICES ASSUME Reliable, NEW q \in bound' \ LegacyBound
                 PROVE  \E u \in Token : <<u, q>> \in minted'
      BY <2>2 DEF MemberMinted
    <3>1. CASE q = p
      BY <3>1, <1>1, <1>4
    <3>2. CASE q # p
      BY <3>2, <1>4 DEF StoreInv, MemberMinted
    <3> QED
      BY <3>1, <3>2
  <2>5. OneAccountPerCredential'
    <3> SUFFICES ASSUME Reliable PROVE \A a, b \in minted' : a[1] = b[1] => a[2] = b[2]
      BY <2>2 DEF OneAccountPerCredential
    <3>1. \A m \in minted : m[1] # t
      BY <1>2, Owners DEF StoreInv, MintBacked
    <3> QED
      BY <3>1, <1>4 DEF StoreInv, OneAccountPerCredential
  <2>6. Charged'
    <3>1. \A e \in Event, u \in Token : spent'[u] = e <=> spent[u] = e
      BY <1>2, <1>3, Owners
    <3> QED
      BY <3>1, <1>2, <2>2 DEF StoreInv, Charged
  <2> QED
    BY <1>5, <1>6, <2>1, <2>3, <2>4, <2>5, <2>6 DEF StoreInv
<1>8. CASE SaveFailed
  <2>1. ~Reliable' /\ ioFails' # 0
    BY <1>2, <1>8, FailedSave DEF SaveFailed, Reliable
  <2>2. FileBacked' /\ MintBacked' /\ MemberMinted' /\ OneAccountPerCredential' /\ Charged'
    BY <1>2, <2>1 DEF FileBacked, MintBacked, MemberMinted, OneAccountPerCredential, Charged,
                      StoreInv
  <2> QED
    BY <1>5, <1>6, <2>2 DEF StoreInv
<1> QED
  BY <1>7, <1>8 DEF BindInline

\* SpendAllForEvent: the batch goes from nobody to the event, or was the event's already.
LEMMA SpendAllKeeps ==
    ASSUME TypeOK, StoreInv, NEW e \in Event, NEW n \in 1..Len(TokensOf[e]),
           SpendAllForEvent(e, n)
    PROVE  StoreInv'
<1> DEFINE batch == SubSeq(TokensOf[e], 1, n)
           B == Ids(batch)
<1>1. B \subseteq Token /\ TokensOf[e][1] \in B
  BY BatchIds
<1>2. \A t \in Token : spent'[t] = IF t \in B THEN e ELSE spent[t]
  BY SpendEffect DEF SpendAllForEvent, TypeOK, Owner
<1>3. \A t \in B : spent[t] \in {NoOwner, e}
  BY DEF SpendAllForEvent, CanSpend
<1>4. UNCHANGED <<badger, bound, call, minted, told>>
  BY DEF SpendAllForEvent
<1>5. InFlight'
  <2> SUFFICES ASSUME NEW g \in Handler, call[g].pc = "record"
               PROVE  badger /\ spent'[call[g].tok] = call[g].pk
    BY <1>4 DEF InFlight
  <2>1. call[g].pk \in Pubkey /\ call[g].tok \in Token
    BY CallType
  <2>2. badger /\ spent[call[g].tok] = call[g].pk
    BY DEF StoreInv, InFlight
  <2> QED
    BY <2>1, <2>2, <1>2, <1>3, Owners
<1>6. FileBehind'
  <2>1. file'.bound = file.bound \/ file'.bound = bound'
    BY DEF SpendAllForEvent, SaveSpend, Saved, Snapshot, SaveFailed
  <2> QED
    BY <2>1, <1>4 DEF StoreInv, FileBehind
<1>7. ASSUME SaveSpend(TRUE), paid' = [paid EXCEPT ![e] = @ \cup B] PROVE StoreInv'
  <2>1. ioFails' = ioFails /\ (Reliable' <=> Reliable)
    BY <1>4, <1>7 DEF SaveSpend, Saved, SaveFailed, Reliable
  <2>2. FileBacked'
    <3>1. CASE badger
      <4>1. file' = file
        BY <3>1, <1>7 DEF SaveSpend
      <4> QED
        BY <3>1, <4>1, <1>2, <1>4, Owners DEF StoreInv, FileBacked
    <3>2. CASE ~badger /\ spent' = spent
      BY <3>2, <1>4, <1>7, <2>1 DEF SaveSpend, StoreInv, FileBacked
    <3>3. CASE ~badger /\ spent' # spent
      BY <3>3, <1>4, <1>7 DEF SaveSpend, Saved, Snapshot, FileBacked
    <3> QED
      BY <3>1, <3>2, <3>3
  <2>3. MintBacked'
    <3> SUFFICES ASSUME Reliable, NEW m \in minted
                 PROVE  spent'[m[1]] = IF badger THEN m[2] ELSE Strict
      BY <1>4, <2>1 DEF MintBacked
    <3>1. /\ m[1] \in Token /\ m[2] \in Pubkey
          /\ spent[m[1]] = IF badger THEN m[2] ELSE Strict
      BY DEF StoreInv, MintBacked, TypeOK
    <3> QED
      BY <3>1, <1>2, <1>3, Owners
  <2>4. Charged'
    <3>1. paid'[e] = paid[e] \cup B /\ \A f \in Event \ {e} : paid'[f] = paid[f]
      BY <1>7 DEF TypeOK
    <3>2. ASSUME Reliable PROVE \A f \in Event, t \in Token : spent'[t] = f <=> t \in paid'[f]
      <4> TAKE f \in Event, t \in Token
      <4>1. spent[t] = f <=> t \in paid[f]
        BY <3>2 DEF StoreInv, Charged
      <4>2. CASE f = e
        BY <4>1, <4>2, <3>1, <1>2
      <4>3. CASE f # e
        BY <4>1, <4>3, <3>1, <1>2, <1>3, Owners
      <4> QED
        BY <4>2, <4>3
    <3>3. \A f \in Event : paid'[f] # {} => TokensOf[f][1] \in paid'[f]
      BY <1>1, <3>1 DEF StoreInv, Charged
    <3> QED
      BY <2>1, <3>2, <3>3 DEF Charged
  <2>5. MemberMinted' /\ OneAccountPerCredential'
    BY <1>4, <2>1 DEF StoreInv, MemberMinted, OneAccountPerCredential
  <2> QED
    BY <1>5, <1>6, <2>2, <2>3, <2>4, <2>5 DEF StoreInv
<1>8. ASSUME SaveSpend(FALSE), paid' = paid PROVE StoreInv'
  <2>1. ~badger' /\ ~badger /\ ioFails' # 0 /\ ~Reliable'
    BY <1>4, <1>8, FailedSave DEF SaveSpend, SaveFailed, Reliable
  <2>2. FileBacked' /\ MintBacked' /\ MemberMinted' /\ OneAccountPerCredential' /\ Charged'
    BY <1>8, <2>1 DEF FileBacked, MintBacked, MemberMinted, OneAccountPerCredential, Charged,
                      StoreInv
  <2> QED
    BY <1>5, <1>6, <2>2 DEF StoreInv
<1> QED
  BY <1>7, <1>8 DEF SpendAllForEvent

\* A restart loses no spent record of a reliable store.
LEMMA RestartSpent ==
    ASSUME TypeOK, StoreInv, Restart, Reliable
    PROVE  \A t \in Token : spent'[t] = spent[t]
<1>1. CASE badger
  BY <1>1 DEF Restart, LoadSpent, StoreInv, FileBacked
<1>2. CASE ~badger
  <2>1. file.spent = spent
    BY <1>2 DEF Reliable, StoreInv, FileBacked
  <2> QED
    BY <1>2, <2>1 DEF Restart, LoadSpent, Unspent
<1> QED
  BY <1>1, <1>2

\* loadFrom rebuilds a store that keeps every promise.
LEMMA RestartKeeps == ASSUME TypeOK, StoreInv, Restart PROVE StoreInv'
<1>1. /\ UNCHANGED <<badger, file, ioFails, minted, told, paid>>
      /\ bound' = file.bound /\ bound' \subseteq bound
  BY DEF Restart, StoreInv, FileBehind
<1>2. Reliable' <=> Reliable
  BY <1>1 DEF Reliable
<1>3. InFlight'
  BY DEF Restart, InFlight, Idle
<1>4. FileBacked'
  <2>1. CASE badger
    BY <2>1, <1>1 DEF Restart, LoadSpent, FileBacked
  <2>2. CASE ~badger
    <3>1. spent' = [t \in Token |-> file.spent[t]]
      BY <2>2 DEF Restart, LoadSpent, Unspent
    <3>2. spent' = file.spent
      BY <3>1 DEF TypeOK
    <3> QED
      BY <2>2, <3>2, <1>1 DEF FileBacked
  <2> QED
    BY <2>1, <2>2
<1>5. FileBehind'
  BY <1>1 DEF StoreInv, FileBehind
<1>6. MintBacked'
  <2> SUFFICES ASSUME Reliable, NEW m \in minted
               PROVE  spent'[m[1]] = IF badger THEN m[2] ELSE Strict
    BY <1>1, <1>2 DEF MintBacked
  <2>1. m[1] \in Token /\ spent[m[1]] = IF badger THEN m[2] ELSE Strict
    BY DEF StoreInv, MintBacked, TypeOK
  <2> QED
    BY <2>1, RestartSpent
<1>7. MemberMinted' /\ OneAccountPerCredential'
  BY <1>1, <1>2 DEF StoreInv, MemberMinted, OneAccountPerCredential
<1>8. Charged'
  BY <1>1, <1>2, RestartSpent DEF StoreInv, Charged
<1> QED
  BY <1>3, <1>4, <1>5, <1>6, <1>7, <1>8 DEF StoreInv

\* Every step keeps the invariant.
LEMMA StoreStep == TypeOK /\ StoreInv /\ [Next]_vars => StoreInv'
<1> SUFFICES ASSUME TypeOK, StoreInv, [Next]_vars PROVE StoreInv'
  OBVIOUS
<1>1. CASE UNCHANGED vars
  BY <1>1 DEF vars, StoreInv, InFlight, FileBacked, FileBehind, MintBacked, MemberMinted,
              Charged, OneAccountPerCredential, Reliable
<1>2. CASE Next
  BY <1>2, PresentKeeps, BindSpendKeeps, BindRefusedKeeps, BindRecordKeeps, BindInlineKeeps,
     SpendAllKeeps, TickKeeps, RestartKeeps DEF Next, Bind
<1> QED
  BY <1>1, <1>2

\* The invariant holds in every reachable state.
LEMMA StoreInvariant == Spec => []StoreInv
BY StoreInit, StoreStep, TypeCorrect, PTL DEF Spec

\* store.go: a credential can never mint two accounts, through every interleaving of Bind's
\* two steps, failed saves, retries and restarts.
THEOREM CredentialMintsOneAccount == Spec => []OneAccountPerCredential
<1>1. StoreInv => OneAccountPerCredential
  BY DEF StoreInv
<1> QED
  BY <1>1, StoreInvariant, PTL

\* SpendAllForEvent: a token is honoured for one event only, and never for a bind as well.
THEOREM TokenHonoredOnce == Spec => []HonoredOnce
<1>1. TypeOK /\ StoreInv => HonoredOnce
  <2> SUFFICES ASSUME TypeOK, StoreInv, Reliable
               PROVE  /\ \A e, f \in Event : e # f => paid[e] \cap paid[f] = {}
                      /\ \A m \in minted, e \in Event : m[1] \notin paid[e]
    BY DEF HonoredOnce
  <2>1. \A e \in Event : \A t \in paid[e] : t \in Token /\ spent[t] = e
    BY DEF StoreInv, Charged, TypeOK
  <2>2. \A m \in minted : spent[m[1]] \in Pubkey \cup {Strict}
    BY DEF StoreInv, MintBacked, TypeOK
  <2> QED
    BY <2>1, <2>2, Owners
<1> QED
  BY <1>1, StoreInvariant, TypeCorrect, PTL

\* SpendAllForEvent: an event owns exactly the tokens it was told are paid, all or none.
THEOREM EventChargedWhole == Spec => []ChargedIffTold
<1>1. TypeOK /\ StoreInv => ChargedIffTold
  <2> SUFFICES ASSUME TypeOK, StoreInv, Reliable, NEW e \in Event
               PROVE  {t \in Token : spent[t] = e} = paid[e]
    BY DEF ChargedIffTold
  <2>1. \A t \in Token : spent[t] = e <=> t \in paid[e]
    BY DEF StoreInv, Charged
  <2>2. paid[e] \subseteq Token
    BY DEF TypeOK
  <2> QED
    BY <2>1, <2>2
<1> QED
  BY <1>1, StoreInvariant, TypeCorrect, PTL

\* No failure or restart turns into a free account: a member's credential is spent on it.
THEOREM MemberHasPaid == Spec => []MemberPaid
<1>1. StoreInv => MemberPaid
  <2> SUFFICES ASSUME StoreInv, Reliable, NEW p \in (bound \cup file.bound) \ LegacyBound
               PROVE  \E t \in Token : <<t, p>> \in minted /\ spent[t] \in {p, Strict}
    BY DEF MemberPaid
  <2>1. PICK t \in Token : <<t, p>> \in minted
    BY DEF StoreInv, FileBehind, MemberMinted
  <2>2. spent[t] \in {p, Strict}
    BY <2>1 DEF StoreInv, MintBacked
  <2> QED
    BY <2>1, <2>2
<1> QED
  BY <1>1, StoreInvariant, PTL

\* handleBinding's OK to a first bind survives every restart.
THEOREM OkIsDurable == Spec => []AckDurable
<1>1. StoreInv => AckDurable
  BY DEF StoreInv, FileBehind, AckDurable
<1> QED
  BY <1>1, StoreInvariant, PTL

----------------------------------------------------------------------------
(* The badger store implements the abstract ledger.                         *)

\* The ledger as the refinement mapping shows it.
View == IF badger THEN spent ELSE Unspent

\* A batch of unspent tokens taken by one owner is one claim of the ledger.
LEMMA ClaimStep ==
    ASSUME TypeOK, badger, badger', NEW batch, Ids(batch) \subseteq Token, NEW o \in Owner,
           \A t \in Ids(batch) : spent[t] = NoOwner,
           o \in Event => \A t \in Token : spent[t] # o,
           spent' = Spend(spent, batch, o)
    PROVE  Ledger!Next
<1>1. Ledger!Claim(Ids(batch), o)
  BY DEF Ledger!Claim, Spend, TypeOK
<1> QED
  BY <1>1 DEF Ledger!Next, Owner

\* Every step of the store is a claim or leaves the ledger as it is.
LEMMA LedgerStep ==
    TypeOK /\ StoreInv /\ [Next]_vars => Ledger!Next \/ View' = View
<1> SUFFICES ASSUME TypeOK, StoreInv, [Next]_vars PROVE Ledger!Next \/ View' = View
  OBVIOUS
<1>1. ASSUME spent' = spent, badger' = badger PROVE View' = View
  BY <1>1 DEF View, Unspent
<1>2. ASSUME ~badger, badger' = badger PROVE View' = View
  BY <1>2 DEF View, Unspent
<1>3. ASSUME NEW h \in Handler, BindSpend(h) PROVE Ledger!Next \/ View' = View
  <2> DEFINE p == call[h].pk
             t == call[h].tok
  <2>1. p \in Pubkey /\ p \in Owner /\ t \in Token /\ p \notin Event
    BY <1>3, CallType, Owners DEF BindSpend, Owner
  <2>2. badger /\ badger' /\ spent' = Spend(spent, <<t>>, p) /\ Ids(<<t>>) = {t}
    BY <1>3, SingleIds DEF BindSpend
  <2>3. CASE spent[t] = NoOwner
    BY <2>1, <2>2, <2>3, ClaimStep
  <2>4. CASE spent[t] = p
    <3>1. spent' = spent
      BY <2>1, <2>2, <2>4 DEF Spend, TypeOK
    <3> QED
      BY <3>1, <2>2, <1>1
  <2> QED
    BY <1>3, <2>2, <2>3, <2>4 DEF BindSpend, CanSpend
<1>4. ASSUME NEW e \in Event, NEW n \in 1..Len(TokensOf[e]), SpendAllForEvent(e, n)
      PROVE  Ledger!Next \/ View' = View
  <2> DEFINE batch == SubSeq(TokensOf[e], 1, n)
  <2>1. Ids(batch) \subseteq Token /\ TokensOf[e][1] \in Ids(batch) /\ e \in Owner
    BY BatchIds DEF Owner
  <2>2. badger' = badger /\ spent' = Spend(spent, batch, e)
    BY <1>4 DEF SpendAllForEvent
  <2>3. CASE badger /\ \A t \in Ids(batch) : spent[t] = NoOwner
    <3>1. \A t \in Token : spent[t] # e
      BY <2>1, <2>3, Owners DEF StoreInv, Charged, Reliable
    <3> QED
      BY <2>1, <2>2, <2>3, <3>1, ClaimStep
  <2>4. CASE \A t \in Ids(batch) : spent[t] = e
    <3>1. spent' = spent
      BY <2>2, <2>4 DEF Spend, TypeOK
    <3> QED
      BY <3>1, <2>2, <1>1
  <2> QED
    BY <1>2, <1>4, <2>2, <2>3, <2>4 DEF SpendAllForEvent, CanSpend
<1>5. ASSUME Restart PROVE View' = View
  <2>1. CASE badger
    <3>1. \A t \in Token : spent'[t] = spent[t]
      BY <1>5, <2>1, RestartSpent DEF Reliable
    <3>2. spent' \in [Token -> Owner \cup {NoOwner}]
      BY <1>5 DEF Restart, LoadSpent, Unspent, TypeOK
    <3>3. spent' = spent
      BY <3>1, <3>2 DEF TypeOK
    <3> QED
      BY <1>1, <1>5, <3>3 DEF Restart
  <2> QED
    BY <1>2, <1>5, <2>1 DEF Restart
<1>6. ASSUME NEW h \in Handler, BindRefused(h) \/ BindRecord(h) PROVE View' = View
  BY <1>1, <1>6 DEF BindRefused, BindRecord
<1>7. ASSUME NEW h \in Handler, BindInline(h) PROVE View' = View
  BY <1>2, <1>7 DEF BindInline
<1>8. ASSUME NEW h \in Handler, NEW p, NEW t, Present(h, p, t) PROVE View' = View
  BY <1>1, <1>8 DEF Present
<1>9. ASSUME Tick \/ UNCHANGED vars PROVE View' = View
  BY <1>1, <1>9 DEF Tick, vars
<1> QED
  BY <1>3, <1>4, <1>5, <1>6, <1>7, <1>8, <1>9 DEF Next, Bind

\* The badger store is a ledger: a token gets one owner, for ever, and an event is charged
\* once and whole.
THEOREM StoreImplementsLedger == Spec => LedgerSpec
<1>1. Init => Ledger!Init
  BY SpentSetAssumption DEF Init, LoadSpent, LegacyFile, Unspent, Ledger!Init
<1>2. TypeOK /\ StoreInv /\ [Next]_vars => [Ledger!Next]_View
  BY LedgerStep
<1> QED
  BY <1>1, <1>2, TypeCorrect, StoreInvariant, PTL DEF Spec, LedgerSpec, Ledger!Spec, View

----------------------------------------------------------------------------
(* Seniority: bind times are set once and survive a restart.                *)

\* The bind times of the file are those of memory, and every member that does not come from
\* an older file has one, in memory and in the file.
Stamped ==
    /\ \A p \in Pubkey : file.boundAt[p] # NoTime => boundAt[p] = file.boundAt[p]
    /\ \A p \in bound \ LegacyBound : boundAt[p] # NoTime
    /\ \A p \in file.bound \ LegacyBound : file.boundAt[p] # NoTime

\* markBoundAt sets a missing bind time to the clock and changes no other.
LEMMA RecordStamps ==
    ASSUME TypeOK, NEW p \in Pubkey, Record(p)
    PROVE  /\ \A q \in Pubkey : boundAt[q] # NoTime => boundAt'[q] = boundAt[q]
           /\ boundAt'[p] # NoTime
           /\ bound' = bound \cup {p}
<1>1. now # NoTime
  BY StoreAssumption DEF TypeOK, Time
<1> QED
  BY <1>1 DEF Record, MarkBoundAt, TypeOK

\* A member recorded and saved, or not saved, is stamped in memory and, if saved, in the file.
LEMMA RecordStamped ==
    ASSUME TypeOK, Stamped, NEW p \in Pubkey, Record(p), Saved \/ SaveFailed
    PROVE  Stamped'
<1>1. /\ \A q \in Pubkey : boundAt[q] # NoTime => boundAt'[q] = boundAt[q]
      /\ boundAt'[p] # NoTime
      /\ bound' = bound \cup {p}
  BY RecordStamps
<1>2. bound \subseteq Pubkey /\ file.bound \subseteq Pubkey
  BY DEF TypeOK
<1>3. \A q \in bound' \ LegacyBound : boundAt'[q] # NoTime
  BY <1>1, <1>2 DEF Stamped
<1>4. CASE Saved
  <2>1. file'.bound = bound' /\ file'.boundAt = boundAt'
    BY <1>4 DEF Saved, Snapshot
  <2> QED
    BY <1>3, <2>1 DEF Stamped
<1>5. CASE SaveFailed
  <2>1. file' = file
    BY <1>5 DEF SaveFailed
  <2> QED
    BY <1>1, <1>2, <1>3, <2>1 DEF Stamped
<1> QED
  BY <1>4, <1>5

\* What the steps do to the bind times: nothing, a rewrite of the file (a spend without
\* badger), a member recorded, or a restart from the file.
LEMMA StampSteps ==
    ASSUME TypeOK, [Next]_vars
    PROVE  \/ UNCHANGED <<bound, boundAt>> /\ (file' = file \/ Saved)
           \/ /\ \E p \in Pubkey : Record(p)
              /\ Saved \/ SaveFailed
              /\ now' = now
           \/ Restart
<1>1. ASSUME NEW h \in Handler, BindRecord(h) \/ BindInline(h)
      PROVE  /\ \E p \in Pubkey : Record(p)
             /\ Saved \/ SaveFailed
             /\ now' = now
  <2>1. call[h].pk \in Pubkey
    BY <1>1, CallType DEF BindRecord, BindInline
  <2> QED
    BY <1>1, <2>1 DEF BindRecord, BindInline
<1>2. ASSUME NEW e \in Event, NEW n, SpendAllForEvent(e, n)
      PROVE  UNCHANGED <<bound, boundAt>> /\ (file' = file \/ Saved)
  BY <1>2 DEF SpendAllForEvent, SaveSpend, SaveFailed
<1>3. ASSUME NEW h \in Handler, BindSpend(h) \/ BindRefused(h)
      PROVE  UNCHANGED <<bound, boundAt, file>>
  BY <1>3 DEF BindSpend, BindRefused
<1>4. ASSUME NEW h, NEW p, NEW t, Present(h, p, t)
      PROVE  UNCHANGED <<bound, boundAt, file>>
  BY <1>4 DEF Present
<1>5. ASSUME Tick \/ UNCHANGED vars
      PROVE  UNCHANGED <<bound, boundAt, file>>
  BY <1>5 DEF Tick, vars
<1> QED
  BY <1>1, <1>2, <1>3, <1>4, <1>5 DEF Next, Bind

\* Every step keeps the bind times of file and memory together.
LEMMA StampStep == TypeOK /\ Stamped /\ [Next]_vars => Stamped'
<1> SUFFICES ASSUME TypeOK, Stamped, [Next]_vars PROVE Stamped'
  OBVIOUS
<1>1. CASE UNCHANGED <<bound, boundAt>> /\ file' = file
  BY <1>1 DEF Stamped
<1>2. CASE UNCHANGED <<bound, boundAt>> /\ Saved
  <2>1. file'.bound = bound' /\ file'.boundAt = boundAt'
    BY <1>2 DEF Saved, Snapshot
  <2> QED
    BY <1>2, <2>1 DEF Stamped
<1>3. CASE Restart
  BY <1>3 DEF Restart, Stamped
<1> QED
  BY <1>1, <1>2, <1>3, StampSteps, RecordStamped

\* The invariant holds in every reachable state.
LEMMA StampInvariant == Spec => []Stamped
<1>1. Init => Stamped
  BY StoreAssumption DEF Init, LegacyFile, NoTimes, Stamped
<1> QED
  BY <1>1, StampStep, TypeCorrect, PTL DEF Spec

\* The clock never runs back.
LEMMA ClockForward == ASSUME TypeOK, [Next]_vars PROVE now' \in Nat /\ now \in Nat /\ now <= now'
<1>1. now \in Nat
  BY StoreAssumption DEF TypeOK, Time
<1>2. now' = now \/ now' = now + 1
  BY DEF Next, vars, Bind, Present, BindSpend, BindRefused, BindRecord, BindInline,
         SpendAllForEvent, Tick, Restart
<1> QED
  BY <1>1, <1>2

\* markBoundAt and loadFrom: a member past the newcomer window is never put back in it, by a
\* re-bind, a second credential, a failed save or a restart.
THEOREM SeniorityIsKept == Spec => SeniorityKept
<1> DEFINE Kept == \A p \in (bound \cap bound') \ LegacyBound : IsNewcomer(p)' => IsNewcomer(p)
<1>1. TypeOK /\ TypeOK' /\ Stamped /\ [Next]_vars => [Kept]_vars
  <2> SUFFICES ASSUME TypeOK, TypeOK', Stamped, [Next]_vars,
                      NEW p \in (bound \cap bound') \ LegacyBound, IsNewcomer(p)'
               PROVE  IsNewcomer(p)
    OBVIOUS
  <2>1. p \in Pubkey /\ boundAt[p] # NoTime
    BY DEF TypeOK, Stamped
  <2>2. boundAt'[p] = boundAt[p]
    <3>1. CASE Restart
      <4>1. p \in file.bound /\ boundAt'[p] = file.boundAt[p]
        BY <3>1 DEF Restart
      <4> QED
        BY <2>1, <4>1 DEF Stamped
    <3>2. CASE \E q \in Pubkey : Record(q)
      BY <2>1, <3>2, RecordStamps
    <3> QED
      BY <3>1, <3>2, StampSteps
  <2>3. boundAt[p] \in Nat
    BY <2>1, StoreAssumption DEF TypeOK, Time
  <2>4. now' - boundAt[p] < NewcomerWindow
    BY <2>2 DEF IsNewcomer
  <2>5. now - boundAt[p] < NewcomerWindow
    BY <2>3, <2>4, ClockForward, StoreAssumption
  <2> QED
    BY <2>1, <2>5 DEF IsNewcomer
<1> QED
  BY <1>1, TypeCorrect, StampInvariant, PTL DEF Spec, SeniorityKept
============================================================================
