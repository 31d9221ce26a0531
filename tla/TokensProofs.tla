---------------------------- MODULE TokensProofs ----------------------------
(***************************************************************************)
(* What the member's tokens promise for any batches, callers, prices, key  *)
(* changes, kills, accounts and epochs: the draw of Draw, which steps may  *)
(* remove a marker and when a charged batch can be lost; the unlock of     *)
(* Unlock, what a card shows and that no epoch is parked; and, with what   *)
(* WalletProofs proves of a wallet, the properties of the composition.     *)
(***************************************************************************)
EXTENDS Tokens, FiniteSetTheorems, TLAPS

----------------------------------------------------------------------------
(* The draw.                                                                *)

\* The draws of a purpose run one at a time, and the member switches accounts between draws, by
\* what Draw gives the parameters; of the others only their types are assumed.
OneAtATime == Draw!TokenDrawAssumption

Phase == {"idle", "load", "resume", "resumeAdd", "resumeClear", "fresh", "try", "add", "clear"}

Answers == {"none", "signed", "cap", "error", "spoiled"}
Declined == {"cap", "error", "spoiled"}

Progress == [pc : Phase, batch : DrawBatch \cup {NoBatch}, ns : Slot \cup {NoBatch},
             mine : Slot \cup {NoBatch}, caps : 0..MaxCap, healed : BOOLEAN, staged : BOOLEAN]

DrawType ==
    draw \in [DrawCaller -> Progress]

\* Every batch a marker or a record names was blinded for some account.
Blinded ==
    /\ \A s \in Slot : marker[s] # NoBatch => owner[marker[s]] # NoBatch
    /\ sent \cup deposited \cup abandoned \subseteq {b \in DrawBatch : owner[b] # NoBatch}

\* One draw at a time.
Alone == \A c, d \in DrawCaller : draw[c].pc # "idle" /\ draw[d].pc # "idle" => c = d

\* While a draw runs, its account stays active, and the marker it resumes or has staged is in
\* place until it removes it.
Resuming == {"resume", "resumeAdd", "resumeClear"}

InPlace(c) ==
    /\ draw[c].pc # "idle" => draw[c].mine = slot
    /\ draw[c].pc \in Resuming \cup {"try", "add"}
          => draw[c].batch # NoBatch /\ owner[draw[c].batch] # NoBatch
    /\ draw[c].pc \in Resuming => draw[c].ns = slot /\ marker[slot] = draw[c].batch
    /\ draw[c].pc \in {"try", "add", "clear"} /\ draw[c].staged
          => draw[c].batch # NoBatch /\ marker[slot] = draw[c].batch

\* A draw about to remove the marker of its batch has put the batch into the wallet, or was
\* refused it.
Settled(c) ==
    /\ draw[c].pc = "resumeClear" => draw[c].batch \in deposited
    /\ draw[c].pc = "clear" /\ draw[c].staged
          => \/ draw[c].batch \in deposited \cup refused
             \/ answer[draw[c].batch] \in Declined

\* The inductive invariant.
DrawInv ==
    /\ Draw!TypeOK /\ DrawType /\ Blinded /\ Alone /\ Draw!MarkerSiloed
    /\ \A c \in DrawCaller : InPlace(c) /\ Settled(c)

\* Nothing is lost with the active account's marker.
Spare ==
    \/ marker[slot] = NoBatch \/ answer[marker[slot]] \in Declined
    \/ marker[slot] \in deposited \cup refused \cup exposed

\* If no resume times out: a draw about to write over a marker, or to remove one it did not
\* write, finds a spare one, and a request the organizer has, or may still charge for, is not
\* lost.
Kept ==
    /\ \A c \in DrawCaller :
          /\ draw[c].pc = "fresh" \/ (draw[c].pc \in {"try", "add", "clear"} /\ ~draw[c].staged)
                => Spare
          /\ draw[c].pc \in {"try", "add"} /\ ~draw[c].staged => draw[c].batch \in exposed
    /\ \A b \in sent : answer[b] \notin Declined =>
          Draw!Staged(b) \/ b \in deposited \cup abandoned \cup refused \cup exposed
    /\ \A b \in DrawBatch : answer[b] # "none" => b \in sent

----------------------------------------------------------------------------
\* What one draw's step does to the draws.
LEMMA Moves ==
    ASSUME OneAtATime, DrawType, NEW c \in DrawCaller, NEW pc \in Phase
    PROVE  /\ Draw!Goto(c, pc) => /\ DrawType' /\ draw'[c] = [draw[c] EXCEPT !.pc = pc]
                                  /\ draw'[c].pc = pc /\ draw'[c].batch = draw[c].batch
                                  /\ draw'[c].ns = draw[c].ns /\ draw'[c].mine = draw[c].mine
                                  /\ draw'[c].staged = draw[c].staged
                                  /\ \A k \in DrawCaller \ {c} : draw'[k] = draw[k]
           /\ Draw!Return(c) => /\ DrawType' /\ draw'[c].pc = "idle"
                                /\ \A k \in DrawCaller \ {c} : draw'[k] = draw[k]
<1>1. draw[c] \in Progress /\ [draw[c] EXCEPT !.pc = pc] \in Progress
  BY DEF DrawType, Progress
<1>2. Draw!Idle \in Progress /\ Draw!Idle.pc = "idle"
  BY DEF Draw!Idle, Progress, Phase, OneAtATime, Draw!TokenDrawAssumption
<1>3. ASSUME Draw!Goto(c, pc) PROVE draw' = [draw EXCEPT ![c] = [draw[c] EXCEPT !.pc = pc]]
  BY <1>3 DEF Draw!Goto, DrawType
<1>4. Draw!Goto(c, pc) => /\ DrawType' /\ draw'[c] = [draw[c] EXCEPT !.pc = pc]
                          /\ \A k \in DrawCaller \ {c} : draw'[k] = draw[k]
  BY <1>1, <1>3 DEF DrawType
<1>5. Draw!Return(c) => DrawType' /\ draw'[c] = Draw!Idle /\ \A k \in DrawCaller \ {c} : draw'[k] = draw[k]
  BY <1>2 DEF Draw!Return, DrawType
<1> QED
  BY <1>1, <1>2, <1>4, <1>5 DEF Progress

\* A step of one draw, the others being idle: its own part is all there is to see to.
LEMMA OneMoves ==
    ASSUME DrawInv, NEW c \in DrawCaller, \A k \in DrawCaller \ {c} : draw'[k] = draw[k] /\ draw[k].pc = "idle",
           DrawType', slot' = slot,
           marker' \in [Slot -> DrawBatch \cup {NoBatch}],
           answer' \in [DrawBatch -> Answers], owner' \in [DrawBatch -> Slot \cup {NoBatch}],
           Blinded', Draw!MarkerSiloed', InPlace(c)', Settled(c)'
    PROVE  DrawInv'
<1>1. Draw!TypeOK'
  BY DEF DrawInv, Draw!TypeOK, DrawType, Progress, Blinded, Answers
<1>2. Alone'
  BY DEF Alone
<1>3. ASSUME NEW k \in DrawCaller \ {c} PROVE InPlace(k)' /\ Settled(k)'
  <2>1. draw'[k].pc = "idle"
    OBVIOUS
  <2> QED
    BY <2>1 DEF InPlace, Settled, Resuming
<1> QED
  BY <1>1, <1>2, <1>3 DEF DrawInv

\* Every step keeps the invariant.
LEMMA DrawStepKeeps == OneAtATime /\ DrawInv /\ [Draw!Next]_Draw!vars => DrawInv'
<1> SUFFICES ASSUME OneAtATime, DrawInv, [Draw!Next]_Draw!vars PROVE DrawInv'
  OBVIOUS
<1>0. /\ Draw!TypeOK /\ DrawType /\ Blinded /\ Alone /\ Draw!MarkerSiloed
      /\ NoBatch \notin DrawBatch \cup Slot /\ MaxCap \in Nat
      /\ slot \in Slot /\ marker \in [Slot -> DrawBatch \cup {NoBatch}]
      /\ answer \in [DrawBatch -> Answers] /\ owner \in [DrawBatch -> Slot \cup {NoBatch}]
      /\ \A c \in DrawCaller : draw[c] \in Progress /\ draw[c].batch \in DrawBatch \cup {NoBatch}
                           /\ draw[c].pc \in Phase
  BY DEF DrawInv, Draw!TypeOK, Answers, OneAtATime, Draw!TokenDrawAssumption, DrawType, Progress
<1>a. ASSUME NEW c \in DrawCaller, draw[c].pc # "idle"
      PROVE  \A k \in DrawCaller \ {c} : draw[k].pc = "idle"
  BY <1>0, <1>a DEF Alone
<1>b. ASSUME NEW c \in DrawCaller PROVE InPlace(c) /\ Settled(c)
  BY DEF DrawInv
\* Steps that only move the draw on.
<1>c. ASSUME NEW c \in DrawCaller, draw[c].pc # "idle", NEW pc \in Phase, Draw!Goto(c, pc) \/ Draw!Return(c),
             UNCHANGED <<slot, marker, answer, owner, sent, deposited, abandoned>>,
             Draw!Goto(c, pc) => InPlace(c)' /\ Settled(c)'
      PROVE  DrawInv'
  <2>1. DrawType' /\ \A k \in DrawCaller \ {c} : draw'[k] = draw[k] /\ draw[k].pc = "idle"
    BY <1>0, <1>a, <1>c, Moves
  <2>2. Blinded' /\ Draw!MarkerSiloed'
    BY <1>0, <1>c DEF Blinded, Draw!MarkerSiloed
  <2>3. Draw!Return(c) => draw'[c].pc = "idle"
    BY <1>0, <1>c, Moves
  <2>4. InPlace(c)' /\ Settled(c)'
    BY <1>c, <2>3 DEF InPlace, Settled, Resuming
  <2> QED
    BY <1>0, <1>c, <2>1, <2>2, <2>4, OneMoves
<1>1. ASSUME NEW c \in DrawCaller, Draw!Begin(c) PROVE DrawInv'
  <2> DEFINE rec == [Draw!Idle EXCEPT !.pc = "load", !.mine = slot]
  <2>1. /\ \A k \in DrawCaller : draw[k].pc = "idle"
        /\ draw' = [draw EXCEPT ![c] = rec]
        /\ UNCHANGED <<slot, marker, answer, owner, sent, deposited, abandoned>>
    BY <1>0, <1>1 DEF Draw!Begin, Draw!At, Draw!hist
  <2>a. 0 \in 0..MaxCap /\ "load" \in Phase
    BY <1>0 DEF Phase
  <2>2. rec \in Progress /\ rec.pc = "load" /\ rec.mine = slot
    BY <1>0, <2>a DEF Draw!Idle, Progress
  <2> HIDE DEF rec
  <2>3. DrawType' /\ draw'[c] = rec /\ \A k \in DrawCaller \ {c} : draw'[k] = draw[k]
    BY <1>0, <2>1, <2>2 DEF DrawType
  <2>4. Blinded' /\ Draw!MarkerSiloed'
    BY <1>0, <2>1 DEF Blinded, Draw!MarkerSiloed
  <2>5. InPlace(c)' /\ Settled(c)'
    BY <2>1, <2>2, <2>3 DEF InPlace, Settled, Resuming
  <2> QED
    BY <1>0, <2>1, <2>3, <2>4, <2>5, OneMoves
<1>2. ASSUME NEW c \in DrawCaller, Draw!LoadMarker(c) PROVE DrawInv'
  <2>1. /\ draw[c].pc = "load" /\ draw[c].mine = slot
        /\ UNCHANGED <<slot, answer, owner, sent, deposited>>
    BY <1>2, <1>b DEF Draw!LoadMarker, Draw!At, InPlace, Resuming
  <2>2. CASE marker[slot] = NoBatch /\ Draw!Goto(c, "fresh") /\ UNCHANGED <<marker, abandoned>>
    <3>1. InPlace(c)' /\ Settled(c)'
      BY <1>0, <2>1, <2>2, Moves DEF InPlace, Settled, Phase, Resuming
    <3> QED
      BY <1>c, <2>1, <2>2, <3>1 DEF Phase
  <2>3. CASE /\ marker[slot] # NoBatch /\ UNCHANGED <<marker, abandoned>>
             /\ draw' = [draw EXCEPT ![c] = [@ EXCEPT !.pc = "resume", !.batch = marker[slot],
                                                      !.ns = slot]]
    <3> DEFINE rec == [draw[c] EXCEPT !.pc = "resume", !.batch = marker[slot], !.ns = slot]
    <3>1. /\ rec \in Progress /\ rec.pc = "resume" /\ rec.batch = marker[slot] /\ rec.ns = slot
          /\ rec.mine = slot
      BY <1>0, <2>1 DEF Progress, Phase
    <3>2. draw' = [draw EXCEPT ![c] = rec]
      BY <1>0, <2>3 DEF DrawType
    <3> HIDE DEF rec
    <3>3. DrawType' /\ draw'[c] = rec /\ \A k \in DrawCaller \ {c} : draw'[k] = draw[k]
      BY <1>0, <3>1, <3>2 DEF DrawType
    <3>4. Blinded' /\ Draw!MarkerSiloed'
      BY <1>0, <2>1, <2>3 DEF Blinded, Draw!MarkerSiloed
    <3>5. InPlace(c)' /\ Settled(c)'
      BY <1>0, <2>1, <2>3, <3>1, <3>3 DEF InPlace, Settled, Resuming, Blinded
    <3> QED
      BY <1>0, <1>a, <2>1, <2>3, <3>3, <3>4, <3>5, OneMoves
  <2>4. CASE /\ marker[slot] # NoBatch /\ abandoned' = abandoned \cup {marker[slot]}
             /\ marker' = [marker EXCEPT ![slot] = NoBatch] /\ Draw!Goto(c, "fresh")
    <3>1. DrawType' /\ \A k \in DrawCaller \ {c} : draw'[k] = draw[k] /\ draw[k].pc = "idle"
      BY <1>0, <1>a, <2>1, <2>4, Moves DEF Phase
    <3>2. Blinded'
      BY <1>0, <2>1, <2>4 DEF Blinded
    <3>3. Draw!MarkerSiloed'
      BY <1>0, <2>1, <2>4 DEF Draw!MarkerSiloed
    <3>4. InPlace(c)' /\ Settled(c)'
      BY <1>0, <2>1, <2>4, Moves DEF InPlace, Settled, Phase, Resuming
    <3> QED
      BY <1>0, <2>1, <2>4, <3>1, <3>2, <3>3, <3>4, OneMoves
  <2> QED
    BY <1>2, <2>2, <2>3, <2>4 DEF Draw!LoadMarker, Draw!hist
\* Steps that remove the active account's marker.
<1>d. ASSUME NEW c \in DrawCaller, draw[c].pc # "idle",
             marker' = [marker EXCEPT ![slot] = NoBatch], Draw!Goto(c, "fresh") \/ Draw!Return(c),
             UNCHANGED <<slot, answer, owner, sent, deposited, abandoned>>
      PROVE  DrawInv'
  <2>1. /\ DrawType' /\ \A k \in DrawCaller \ {c} : draw'[k] = draw[k] /\ draw[k].pc = "idle"
        /\ draw'[c].pc = "idle" \/ (draw'[c].pc = "fresh" /\ draw'[c].mine = draw[c].mine)
    BY <1>0, <1>a, <1>d, Moves DEF Phase
  <2>2. Blinded' /\ Draw!MarkerSiloed' /\ marker' \in [Slot -> DrawBatch \cup {NoBatch}]
    BY <1>0, <1>d DEF Blinded, Draw!MarkerSiloed
  <2>3. InPlace(c)' /\ Settled(c)'
    BY <1>b, <1>d, <2>1 DEF InPlace, Settled, Resuming
  <2> QED
    BY <1>0, <1>d, <2>1, <2>2, <2>3, OneMoves
\* Steps that put the batch into the wallet.
<1>e. ASSUME NEW c \in DrawCaller, NEW pc \in {"resumeClear", "clear"}, Draw!Goto(c, pc),
             draw[c].pc = IF pc = "clear" THEN "add" ELSE "resumeAdd",
             deposited' = deposited \cup {draw[c].batch},
             UNCHANGED <<slot, marker, answer, owner, sent, abandoned>>
      PROVE  DrawInv'
  <2>1. /\ DrawType' /\ \A k \in DrawCaller \ {c} : draw'[k] = draw[k] /\ draw[k].pc = "idle"
        /\ draw'[c].pc = pc /\ draw'[c].batch = draw[c].batch
        /\ draw'[c].ns = draw[c].ns /\ draw'[c].mine = draw[c].mine
        /\ draw'[c].staged = draw[c].staged
    BY <1>0, <1>a, <1>e, Moves DEF Phase
  <2>2. draw[c].batch \in DrawBatch /\ owner[draw[c].batch] # NoBatch
    BY <1>0, <1>b, <1>e DEF InPlace, Resuming
  <2>3. Blinded' /\ Draw!MarkerSiloed'
    BY <1>0, <1>e, <2>2 DEF Blinded, Draw!MarkerSiloed
  <2>4. InPlace(c)' /\ Settled(c)'
    BY <1>b, <1>e, <2>1 DEF InPlace, Settled, Resuming
  <2> QED
    BY <1>0, <1>e, <2>1, <2>3, <2>4, OneMoves
<1>3. ASSUME NEW c \in DrawCaller, Draw!Attempt(c) PROVE DrawInv'
  <2>1. /\ draw[c].pc \in {"resume", "try"} /\ sent' = sent \cup {draw[c].batch}
        /\ UNCHANGED <<slot, marker, draw, answer, owner, deposited, abandoned>>
    BY <1>3 DEF Draw!Attempt, Draw!Trying, Draw!hist
  <2>2. draw[c].batch \in DrawBatch /\ owner[draw[c].batch] # NoBatch
    BY <1>0, <1>b, <2>1 DEF InPlace, Resuming
  <2>3. Blinded' /\ Draw!MarkerSiloed' /\ DrawType'
    BY <1>0, <2>1, <2>2 DEF Blinded, Draw!MarkerSiloed, DrawType
  <2>4. InPlace(c)' /\ Settled(c)'
    BY <1>b, <2>1 DEF InPlace, Settled, Resuming
  <2> QED
    BY <1>0, <1>a, <2>1, <2>3, <2>4, OneMoves
<1>4. ASSUME NEW c \in DrawCaller, Draw!ResumeCollects(c) PROVE DrawInv'
  <2>1. /\ draw[c].pc = "resume" /\ Draw!Goto(c, "resumeAdd")
        /\ UNCHANGED <<slot, marker, answer, owner, sent, deposited, abandoned>>
    BY <1>4 DEF Draw!ResumeCollects, Draw!At, Draw!hist
  <2>2. InPlace(c)' /\ Settled(c)'
    BY <1>0, <1>b, <2>1, Moves DEF InPlace, Settled, Phase, Resuming
  <2> QED
    BY <1>c, <2>1, <2>2 DEF Phase
\* The draw goes on to a fresh batch and leaves the marker it found.
<1>5. ASSUME NEW c \in DrawCaller,
             \/ Draw!ResumeTimesOut(c) \/ Draw!LoadFails(c) \/ Draw!ResumeDropFails(c)
             \/ Draw!ResumeAddFails(c) \/ Draw!ResumeClearFails(c)
      PROVE  DrawInv'
  <2>1. /\ draw[c].pc # "idle" /\ Draw!Goto(c, "fresh")
        /\ UNCHANGED <<slot, marker, answer, owner, sent, deposited, abandoned>>
    BY <1>5 DEF Draw!ResumeTimesOut, Draw!LoadFails, Draw!ResumeDropFails, Draw!ResumeAddFails,
                Draw!ResumeClearFails, Draw!Fail, Draw!At, Draw!hist
  <2>2. InPlace(c)' /\ Settled(c)'
    BY <1>0, <1>b, <2>1, Moves DEF InPlace, Settled, Phase, Resuming
  <2> QED
    BY <1>c, <2>1, <2>2 DEF Phase
<1>6. ASSUME NEW c \in DrawCaller, Draw!Collect(c) PROVE DrawInv'
  <2>1. /\ draw[c].pc = "try" /\ Draw!Goto(c, "add")
        /\ UNCHANGED <<slot, marker, answer, owner, sent, deposited, abandoned>>
    BY <1>6 DEF Draw!Collect, Draw!At, Draw!hist
  <2>a. /\ draw'[c].pc = "add" /\ draw'[c].batch = draw[c].batch
        /\ draw'[c].mine = draw[c].mine /\ draw'[c].staged = draw[c].staged
    BY <1>0, <2>1, Moves DEF Phase
  <2>2. InPlace(c)' /\ Settled(c)'
    BY <1>b, <2>1, <2>a DEF InPlace, Settled, Resuming
  <2> QED
    BY <1>c, <2>1, <2>2 DEF Phase
<1>7. ASSUME NEW c \in DrawCaller, Draw!ResumeFails(c) \/ Draw!ResumeRefused(c) PROVE DrawInv'
  <2>1. /\ draw[c].pc = "resume" /\ marker' = [marker EXCEPT ![slot] = NoBatch]
        /\ Draw!Goto(c, "fresh") /\ UNCHANGED <<slot, answer, owner, sent, deposited, abandoned>>
    BY <1>7, <1>b
       DEF Draw!ResumeFails, Draw!ResumeRefused, Draw!Refusal, Draw!At, Draw!hist, InPlace, Resuming
  <2> QED
    BY <1>d, <2>1
<1>8. ASSUME NEW c \in DrawCaller, Draw!ResumeClear(c) PROVE DrawInv'
  <2>1. /\ draw[c].pc = "resumeClear" /\ marker' = [marker EXCEPT ![slot] = NoBatch]
        /\ Draw!Goto(c, "fresh") /\ UNCHANGED <<slot, answer, owner, sent, deposited, abandoned>>
    BY <1>8, <1>b DEF Draw!ResumeClear, Draw!At, InPlace, Draw!hist, Resuming
  <2> QED
    BY <1>d, <2>1
<1>9. ASSUME NEW c \in DrawCaller, Draw!Clear(c) PROVE DrawInv'
  <2>1. /\ draw[c].pc = "clear" /\ marker' = [marker EXCEPT ![slot] = NoBatch]
        /\ Draw!Return(c) /\ UNCHANGED <<slot, answer, owner, sent, deposited, abandoned>>
    BY <1>9 DEF Draw!Clear, Draw!At, Draw!hist
  <2> QED
    BY <1>d, <2>1
<1>10. ASSUME NEW c \in DrawCaller, Draw!ResumeAdd(c) PROVE DrawInv'
  BY <1>10, <1>e DEF Draw!ResumeAdd, Draw!At, Draw!hist
<1>11. ASSUME NEW c \in DrawCaller, Draw!Add(c) PROVE DrawInv'
  BY <1>11, <1>e DEF Draw!Add, Draw!At, Draw!hist
<1>12. ASSUME NEW c \in DrawCaller, Draw!Stage(c) PROVE DrawInv'
  <2>1. PICK b \in DrawBatch :
            /\ owner[b] = NoBatch
            /\ owner' = [owner EXCEPT ![b] = draw[c].mine]
            /\ marker' = [marker EXCEPT ![slot] = b]
            /\ draw' = [draw EXCEPT ![c] = [@ EXCEPT !.pc = "try", !.batch = b, !.staged = TRUE]]
    BY <1>12 DEF Draw!Stage
  <2>2. /\ draw[c].pc = "fresh" /\ draw[c].mine = slot
        /\ UNCHANGED <<slot, answer, sent, deposited, abandoned>>
    BY <1>12, <1>b DEF Draw!Stage, Draw!At, InPlace, Draw!hist, Resuming
  <2> DEFINE rec == [draw[c] EXCEPT !.pc = "try", !.batch = b, !.staged = TRUE]
  <2>3. rec \in Progress /\ rec.pc = "try" /\ rec.batch = b /\ rec.mine = slot
    BY <1>0, <2>2 DEF Progress, Phase
  <2>4. draw' = [draw EXCEPT ![c] = rec]
    BY <1>0, <2>1 DEF DrawType
  <2> HIDE DEF rec
  <2>5. DrawType' /\ draw'[c] = rec /\ \A k \in DrawCaller \ {c} : draw'[k] = draw[k]
    BY <1>0, <2>3, <2>4 DEF DrawType
  <2>6. /\ owner' \in [DrawBatch -> Slot \cup {NoBatch}] /\ marker' \in [Slot -> DrawBatch \cup {NoBatch}]
        /\ owner'[b] = slot /\ \A a \in DrawBatch \ {b} : owner'[a] = owner[a]
        /\ marker'[slot] = b /\ \A s \in Slot \ {slot} : marker'[s] = marker[s]
    BY <1>0, <2>1, <2>2
  <2>7. Blinded'
    BY <1>0, <2>1, <2>2, <2>6 DEF Blinded
  <2>8. Draw!MarkerSiloed'
    BY <1>0, <2>1, <2>6 DEF Draw!MarkerSiloed
  <2>9. InPlace(c)' /\ Settled(c)'
    BY <1>0, <2>2, <2>3, <2>5, <2>6 DEF InPlace, Settled, Resuming
  <2> QED
    BY <1>0, <1>a, <2>2, <2>5, <2>6, <2>7, <2>8, <2>9, OneMoves
<1>13. ASSUME NEW c \in DrawCaller,
              Draw!GiveUp(c) \/ Draw!TimeOut(c) \/ Draw!AddFails(c) \/ Draw!ClearFails(c)
       PROVE  DrawInv'
  <2>1. /\ draw[c].pc # "idle" /\ Draw!Return(c)
        /\ UNCHANGED <<slot, marker, answer, owner, sent, deposited, abandoned>>
    BY <1>13 DEF Draw!GiveUp, Draw!TimeOut, Draw!AddFails, Draw!ClearFails, Draw!Fail, Draw!At, Draw!hist
  <2>2. ~Draw!Goto(c, "fresh")
    <3>1. Draw!Return(c) => draw'[c].pc = "idle"
      BY <1>0, Moves DEF Phase
    <3>2. Draw!Goto(c, "fresh") => draw'[c].pc = "fresh"
      BY <1>0, Moves DEF Phase
    <3> QED
      BY <2>1, <3>1, <3>2
  <2> QED
    BY <1>c, <2>1, <2>2 DEF Phase
\* A refusal, or a smaller allowance: another batch, or the end.
<1>14. ASSUME NEW c \in DrawCaller, Draw!Shrink(c) \/ Draw!Heal(c) PROVE DrawInv'
  <2>1. /\ draw[c].pc = "try" /\ answer[draw[c].batch] \in Declined
        /\ UNCHANGED <<slot, marker, answer, owner, sent, deposited, abandoned>>
    BY <1>14 DEF Draw!Shrink, Draw!Heal, Draw!At, Declined, Draw!hist
  <2>2. CASE Draw!Goto(c, "clear")
    <3>1. InPlace(c)' /\ Settled(c)'
      BY <1>0, <1>b, <2>1, <2>2, Moves DEF InPlace, Settled, Phase, Resuming
    <3> QED
      BY <1>c, <2>1, <2>2, <3>1 DEF Phase
  <2>3. ASSUME NEW rec \in Progress, draw' = [draw EXCEPT ![c] = rec], rec.pc = "fresh",
               rec.mine = draw[c].mine
        PROVE  DrawInv'
    <3>1. DrawType' /\ draw'[c] = rec /\ \A k \in DrawCaller \ {c} : draw'[k] = draw[k]
      BY <1>0, <2>3 DEF DrawType
    <3>2. Blinded' /\ Draw!MarkerSiloed'
      BY <1>0, <2>1 DEF Blinded, Draw!MarkerSiloed
    <3>3. InPlace(c)' /\ Settled(c)'
      BY <1>b, <2>1, <2>3, <3>1 DEF InPlace, Settled, Resuming
    <3> QED
      BY <1>0, <1>a, <2>1, <3>1, <3>2, <3>3, OneMoves
  <2>4. CASE /\ draw[c].caps < MaxCap
             /\ draw' = [draw EXCEPT ![c].pc = "fresh", ![c].caps = @ + 1]
    <3>0. PICK n \in 0..MaxCap : n = draw[c].caps + 1
      <4>1. draw[c].caps \in 0..MaxCap
        BY <1>0 DEF Progress
      <4> QED
        BY <1>0, <2>4, <4>1
    <3> DEFINE rec == [draw[c] EXCEPT !.pc = "fresh", !.caps = n]
    <3>1. rec \in Progress /\ rec.pc = "fresh" /\ rec.mine = draw[c].mine
      BY <1>0 DEF Progress, Phase
    <3>2. draw' = [draw EXCEPT ![c] = rec]
      BY <1>0, <2>4, <3>0 DEF DrawType, Progress
    <3> QED
      BY <2>3, <3>1, <3>2
  <2>5. CASE draw' = [draw EXCEPT ![c] = [@ EXCEPT !.pc = "fresh", !.healed = TRUE, !.caps = 0]]
    <3> DEFINE rec == [draw[c] EXCEPT !.pc = "fresh", !.healed = TRUE, !.caps = 0]
    <3>0. 0 \in 0..MaxCap /\ "fresh" \in Phase
      BY <1>0 DEF Phase
    <3>1. rec \in Progress /\ rec.pc = "fresh" /\ rec.mine = draw[c].mine
      BY <1>0, <3>0 DEF Progress
    <3>2. draw' = [draw EXCEPT ![c] = rec]
      BY <1>0, <2>5 DEF DrawType
    <3> QED
      BY <2>3, <3>1, <3>2
  <2> QED
    BY <1>14, <2>2, <2>4, <2>5 DEF Draw!Shrink, Draw!Heal
\* A fresh batch whose marker could not be written.
<1>19. ASSUME NEW c \in DrawCaller, Draw!StageFails(c) PROVE DrawInv'
  <2>1. PICK b \in DrawBatch :
            /\ owner[b] = NoBatch
            /\ owner' = [owner EXCEPT ![b] = draw[c].mine]
            /\ draw' = [draw EXCEPT ![c] = [@ EXCEPT !.pc = "try", !.batch = b, !.staged = FALSE]]
    BY <1>19 DEF Draw!StageFails
  <2>2. /\ draw[c].pc = "fresh" /\ draw[c].mine = slot
        /\ UNCHANGED <<slot, marker, answer, sent, deposited, abandoned>>
    BY <1>19, <1>b DEF Draw!StageFails, Draw!Fail, Draw!At, InPlace, Resuming
  <2> DEFINE rec == [draw[c] EXCEPT !.pc = "try", !.batch = b, !.staged = FALSE]
  <2>3. rec \in Progress /\ rec.pc = "try" /\ rec.batch = b /\ rec.mine = slot /\ ~rec.staged
    BY <1>0, <2>2 DEF Progress, Phase
  <2>4. draw' = [draw EXCEPT ![c] = rec]
    BY <1>0, <2>1 DEF DrawType
  <2> HIDE DEF rec
  <2>5. DrawType' /\ draw'[c] = rec /\ \A k \in DrawCaller \ {c} : draw'[k] = draw[k]
    BY <1>0, <2>3, <2>4 DEF DrawType
  <2>6. /\ owner' \in [DrawBatch -> Slot \cup {NoBatch}]
        /\ owner'[b] = slot /\ \A a \in DrawBatch \ {b} : owner'[a] = owner[a]
    BY <1>0, <2>1, <2>2
  <2>7. Blinded' /\ Draw!MarkerSiloed'
    BY <1>0, <2>1, <2>2, <2>6 DEF Blinded, Draw!MarkerSiloed
  <2>8. InPlace(c)' /\ Settled(c)'
    BY <1>0, <2>2, <2>3, <2>5, <2>6 DEF InPlace, Settled, Resuming
  <2> QED
    BY <1>0, <1>a, <2>2, <2>5, <2>6, <2>7, <2>8, OneMoves
\* The end of a draw that staged nothing.
<1>20. ASSUME NEW c \in DrawCaller, Draw!MisProvisioned(c) PROVE DrawInv'
  <2>1. /\ draw[c].pc = "fresh" /\ draw[c].mine = slot
        /\ draw' = [draw EXCEPT ![c] = [@ EXCEPT !.pc = "clear", !.staged = FALSE]]
        /\ UNCHANGED <<slot, marker, answer, owner, sent, deposited, abandoned>>
    BY <1>20, <1>b DEF Draw!MisProvisioned, Draw!At, Draw!hist, InPlace, Resuming
  <2> DEFINE rec == [draw[c] EXCEPT !.pc = "clear", !.staged = FALSE]
  <2>2. rec \in Progress /\ rec.pc = "clear" /\ rec.mine = slot /\ ~rec.staged
    BY <1>0, <2>1 DEF Progress, Phase
  <2>3. draw' = [draw EXCEPT ![c] = rec]
    BY <1>0, <2>1 DEF DrawType
  <2> HIDE DEF rec
  <2>4. DrawType' /\ draw'[c] = rec /\ \A k \in DrawCaller \ {c} : draw'[k] = draw[k]
    BY <1>0, <2>2, <2>3 DEF DrawType
  <2>5. Blinded' /\ Draw!MarkerSiloed'
    BY <1>0, <2>1 DEF Blinded, Draw!MarkerSiloed
  <2>6. InPlace(c)' /\ Settled(c)'
    BY <2>1, <2>2, <2>4 DEF InPlace, Settled, Resuming
  <2> QED
    BY <1>0, <1>a, <2>1, <2>4, <2>5, <2>6, OneMoves
\* The relay's refusal ends the draw.
<1>21. ASSUME NEW c \in DrawCaller, Draw!Refused(c) PROVE DrawInv'
  <2>1. /\ draw[c].pc = "try" /\ Draw!Goto(c, "clear") /\ draw[c].batch \in refused'
        /\ UNCHANGED <<slot, marker, answer, owner, sent, deposited, abandoned>>
    BY <1>21 DEF Draw!Refused, Draw!Refusal, Draw!At
  <2>2. InPlace(c)' /\ Settled(c)'
    BY <1>0, <1>b, <2>1, Moves DEF InPlace, Settled, Phase, Resuming
  <2> QED
    BY <1>c, <2>1, <2>2 DEF Phase
<1>15. ASSUME NEW b \in DrawBatch, Draw!Answer(b) PROVE DrawInv'
  <2>1. PICK a \in {"signed", "cap", "error", "spoiled"} : answer' = [answer EXCEPT ![b] = a]
    BY <1>15 DEF Draw!Answer
  <2>2. /\ answer[b] = "none"
        /\ UNCHANGED <<slot, marker, draw, owner, sent, deposited, abandoned, refused>>
    BY <1>15 DEF Draw!Answer, Draw!hist
  <2>3. answer' \in [DrawBatch -> Answers] /\ \A x \in DrawBatch : answer[x] # "none" => answer'[x] = answer[x]
    BY <1>0, <2>1, <2>2 DEF Answers
  <2>4. Draw!TypeOK' /\ DrawType'
    BY <1>0, <2>2, <2>3 DEF Draw!TypeOK, DrawType, Answers
  <2>5. Blinded' /\ Alone' /\ Draw!MarkerSiloed'
    BY <1>0, <2>2 DEF Blinded, Alone, Draw!MarkerSiloed
  <2>6. \A c \in DrawCaller : InPlace(c)'
    BY <1>b, <2>2 DEF InPlace, Resuming
  <2>7. ASSUME NEW c \in DrawCaller PROVE Settled(c)'
    <3>1. draw[c].pc = "clear" /\ draw[c].staged => draw[c].batch \in DrawBatch
      BY <1>0, <1>b DEF InPlace, Resuming
    <3> QED
      BY <1>b, <2>2, <2>3, <3>1 DEF Settled, Declined
  <2> QED
    BY <2>4, <2>5, <2>6, <2>7 DEF DrawInv
<1>16. CASE Draw!Switch
  <2>1. /\ \A c \in DrawCaller : draw[c].pc = "idle"
        /\ slot' \in Slot
        /\ UNCHANGED <<marker, draw, answer, owner, sent, deposited, abandoned>>
    BY <1>0, <1>16 DEF Draw!Switch, Draw!At, Draw!hist
  <2>2. Draw!TypeOK' /\ DrawType' /\ Blinded' /\ Alone' /\ Draw!MarkerSiloed'
    BY <1>0, <2>1 DEF Draw!TypeOK, DrawType, Blinded, Alone, Draw!MarkerSiloed
  <2>3. \A c \in DrawCaller : InPlace(c)' /\ Settled(c)'
    BY <2>1 DEF InPlace, Settled, Resuming
  <2> QED
    BY <2>2, <2>3 DEF DrawInv
<1>17. CASE Draw!Kill
  <2>1. /\ draw' = [c \in DrawCaller |-> Draw!Idle]
        /\ UNCHANGED <<slot, marker, answer, owner, sent, deposited, abandoned>>
    BY <1>17 DEF Draw!Kill
  <2>2. Draw!Idle \in Progress /\ Draw!Idle.pc = "idle"
    BY <1>0 DEF Draw!Idle, Progress, Phase
  <2>3. DrawType' /\ \A c \in DrawCaller : draw'[c].pc = "idle"
    BY <2>1, <2>2 DEF DrawType
  <2>4. Draw!TypeOK'
    BY <1>0, <2>1, <2>3 DEF Draw!TypeOK, DrawType, Progress
  <2>5. Blinded' /\ Alone' /\ Draw!MarkerSiloed'
    BY <1>0, <2>1, <2>3 DEF Blinded, Alone, Draw!MarkerSiloed
  <2>6. \A c \in DrawCaller : InPlace(c)' /\ Settled(c)'
    BY <2>3 DEF InPlace, Settled, Resuming
  <2> QED
    BY <2>3, <2>4, <2>5, <2>6 DEF DrawInv
<1>18. CASE UNCHANGED Draw!vars
  <2>1. UNCHANGED <<slot, marker, draw, answer, owner, sent, deposited, abandoned, refused>>
    BY <1>18 DEF Draw!vars, Draw!hist
  <2>2. Draw!TypeOK' /\ DrawType' /\ Blinded' /\ Alone' /\ Draw!MarkerSiloed'
    BY <1>0, <2>1 DEF Draw!TypeOK, DrawType, Blinded, Alone, Draw!MarkerSiloed
  <2>3. \A c \in DrawCaller : InPlace(c)' /\ Settled(c)'
    BY <1>b, <2>1 DEF InPlace, Settled, Resuming
  <2> QED
    BY <2>2, <2>3 DEF DrawInv
<1> QED
  BY <1>1, <1>2, <1>3, <1>4, <1>5, <1>6, <1>7, <1>8, <1>9, <1>10, <1>11, <1>12, <1>13, <1>14,
     <1>15, <1>16, <1>17, <1>18, <1>19, <1>20, <1>21 DEF Draw!Next, Draw!Step, Draw!Trouble

LEMMA DrawStarts == OneAtATime /\ Draw!Init => DrawInv
<1> SUFFICES ASSUME OneAtATime, Draw!Init PROVE DrawInv
  OBVIOUS
<1>0. NoBatch \notin DrawBatch \cup Slot /\ 0 \in 0..MaxCap
  BY DEF OneAtATime, Draw!TokenDrawAssumption
<1>1. Draw!Idle \in Progress /\ Draw!Idle.pc = "idle"
  BY <1>0 DEF Draw!Idle, Progress, Phase
<1>2. DrawType /\ \A c \in DrawCaller : draw[c].pc = "idle"
  BY <1>1 DEF Draw!Init, DrawType
<1>3. Draw!TypeOK
  BY <1>2 DEF Draw!Init, Draw!TypeOK, DrawType, Progress
<1>4. Blinded /\ Alone /\ Draw!MarkerSiloed
  BY <1>2 DEF Draw!Init, Blinded, Alone, Draw!MarkerSiloed
<1>5. \A c \in DrawCaller : InPlace(c) /\ Settled(c)
  BY <1>2 DEF InPlace, Settled, Resuming
<1> QED
  BY <1>2, <1>3, <1>4, <1>5 DEF DrawInv

\* The invariant holds in every reachable state.
LEMMA DrawInvariant ==
    ASSUME OneAtATime
    PROVE  Draw!Spec => []DrawInv
<1>1. OneAtATime
  OBVIOUS
<1> QED
  BY <1>1, DrawStarts, DrawStepKeeps, PTL DEF Draw!Spec

\* drawStaging.ts: a marker lies in the namespace of the account that paid for its batch.
THEOREM MarkerAlwaysSiloed ==
    ASSUME OneAtATime
    PROVE  Draw!Spec => []Draw!MarkerSiloed
<1>1. DrawInv => Draw!MarkerSiloed
  BY DEF DrawInv
<1> QED
  BY <1>1, DrawInvariant, PTL

\* Every step either keeps an account's marker, or removes one whose batch is in the wallet, was
\* not charged for, has outlived its marker or was refused by the relay; or it ends a draw that
\* has no marker of its own.
LEMMA MarkerStep == OneAtATime /\ DrawInv /\ [Draw!Next]_Draw!vars => \A s \in Slot : Draw!MarkerKept(s)
<1> SUFFICES ASSUME OneAtATime, DrawInv, [Draw!Next]_Draw!vars, NEW s \in Slot,
                    marker[s] # NoBatch, marker'[s] = NoBatch
             PROVE  \/ answer[marker[s]] # "signed" \/ marker[s] \in deposited \cup abandoned' \cup refused'
                    \/ \E c \in DrawCaller : Draw!At(c, "clear") /\ ~draw[c].staged
  BY DEF Draw!MarkerKept
<1>0. /\ marker \in [Slot -> DrawBatch \cup {NoBatch}] /\ slot \in Slot /\ NoBatch \notin DrawBatch
      /\ \A c \in DrawCaller : InPlace(c) /\ Settled(c)
  BY DEF DrawInv, Draw!TypeOK, OneAtATime, Draw!TokenDrawAssumption
<1>1. ASSUME NEW c \in DrawCaller, Draw!LoadMarker(c) PROVE marker[s] \in abandoned'
  BY <1>0, <1>1 DEF Draw!LoadMarker
<1>2. ASSUME NEW c \in DrawCaller, Draw!ResumeFails(c) PROVE answer[marker[s]] # "signed"
  BY <1>0, <1>2 DEF Draw!ResumeFails, Draw!At, InPlace, Resuming
<1>3. ASSUME NEW c \in DrawCaller, Draw!ResumeRefused(c) PROVE marker[s] \in refused'
  BY <1>0, <1>3 DEF Draw!ResumeRefused, Draw!Refusal, Draw!At, InPlace, Resuming
<1>4. ASSUME NEW c \in DrawCaller, Draw!ResumeClear(c) PROVE marker[s] \in deposited
  BY <1>0, <1>4 DEF Draw!ResumeClear, Draw!At, InPlace, Settled, Resuming
<1>5. ASSUME NEW c \in DrawCaller, Draw!Clear(c), draw[c].staged
      PROVE  answer[marker[s]] # "signed" \/ marker[s] \in deposited \cup refused'
  <2>1. draw[c].pc = "clear" /\ refused' = refused /\ marker[s] = draw[c].batch
    BY <1>0, <1>5 DEF Draw!Clear, Draw!At, Draw!hist, InPlace
  <2> QED
    BY <1>0, <1>5, <2>1 DEF Settled, Declined
<1>6. ASSUME NEW c \in DrawCaller, Draw!Clear(c), ~draw[c].staged
      PROVE  \E d \in DrawCaller : Draw!At(d, "clear") /\ ~draw[d].staged
  BY <1>6 DEF Draw!Clear
<1>7. ASSUME NEW c \in DrawCaller, Draw!Stage(c) PROVE FALSE
  BY <1>0, <1>7 DEF Draw!Stage
<1>8. CASE UNCHANGED marker
  BY <1>8
<1>9. ASSUME NEW c \in DrawCaller, Draw!Trouble(c), ~Draw!ResumeRefused(c) PROVE UNCHANGED marker
  BY <1>9 DEF Draw!Trouble, Draw!ResumeTimesOut, Draw!TimeOut, Draw!Refused, Draw!MisProvisioned,
              Draw!LoadFails, Draw!ResumeDropFails, Draw!ResumeAddFails, Draw!ResumeClearFails,
              Draw!StageFails,
              Draw!AddFails, Draw!ClearFails
<1> QED
  BY <1>1, <1>2, <1>3, <1>4, <1>5, <1>6, <1>7, <1>8, <1>9
     DEF Draw!Next, Draw!Step, Draw!vars, Draw!Begin, Draw!Attempt, Draw!ResumeCollects,
         Draw!ResumeAdd, Draw!GiveUp, Draw!Collect, Draw!Shrink, Draw!Heal, Draw!Add, Draw!Answer,
         Draw!Switch, Draw!Kill

----------------------------------------------------------------------------
(* Without impatient resumes no charged batch is lost, but by a refusal of  *)
(* the relay, a failure of storage or its age.                              *)

\* Every step keeps it.
LEMMA KeptStep ==
    OneAtATime /\ ~Impatient /\ DrawInv /\ DrawInv' /\ Kept /\ [Draw!Next]_Draw!vars => Kept'
<1> SUFFICES ASSUME OneAtATime, ~Impatient, DrawInv, DrawInv', Kept, [Draw!Next]_Draw!vars PROVE Kept'
  OBVIOUS
<1> DEFINE Safe(b) == Draw!Staged(b) \/ b \in deposited \cup abandoned \cup refused \cup exposed
           Open(c) == \/ draw[c].pc = "fresh"
                      \/ draw[c].pc \in {"try", "add", "clear"} /\ ~draw[c].staged
           Bare(c) == draw[c].pc \in {"try", "add"} /\ ~draw[c].staged => draw[c].batch \in exposed
<1>0. /\ marker \in [Slot -> DrawBatch \cup {NoBatch}] /\ slot \in Slot /\ NoBatch \notin DrawBatch
      /\ answer \in [DrawBatch -> Answers] /\ DrawType /\ Alone /\ sent \subseteq DrawBatch
      /\ \A c \in DrawCaller : InPlace(c) /\ Settled(c) /\ draw[c].pc \in Phase
  BY DEF DrawInv, Draw!TypeOK, OneAtATime, Draw!TokenDrawAssumption, Answers, Blinded, DrawType, Progress
<1>k. /\ \A c \in DrawCaller : (Open(c) => Spare) /\ Bare(c)
      /\ \A b \in sent : answer[b] \notin Declined => Safe(b)
      /\ \A b \in DrawBatch : answer[b] # "none" => b \in sent
  BY DEF Kept
<1>h. ASSUME /\ \A c \in DrawCaller : (Open(c)' => Spare') /\ Bare(c)'
             /\ \A b \in sent' : answer'[b] \notin Declined => Safe(b)'
             /\ \A b \in DrawBatch : answer'[b] # "none" => b \in sent'
      PROVE  Kept'
  BY <1>h DEF Kept
<1> DEFINE Grows == /\ deposited \subseteq deposited' /\ abandoned \subseteq abandoned'
                    /\ refused \subseteq refused' /\ exposed \subseteq exposed'
\* A draw about to remove the marker it staged finds a spare one.
<1>s. ASSUME NEW c \in DrawCaller, draw[c].pc = "clear" PROVE Spare
  <2>1. CASE draw[c].staged
    BY <1>0, <1>s, <2>1 DEF InPlace, Settled, Spare
  <2> QED
    BY <1>k, <1>s, <2>1
<1> HIDE DEF Safe, Open, Bare
\* Steps that leave markers and answers alone.
<1>a. ASSUME UNCHANGED <<slot, marker, answer, sent>>, Grows,
             \A c \in DrawCaller : (Open(c)' => Spare \/ Spare') /\ Bare(c)'
      PROVE  Kept'
  <2>1. \A b \in DrawBatch : Safe(b) => Safe(b)'
    BY <1>a DEF Draw!Staged, Safe
  <2>2. Spare => Spare'
    BY <1>a DEF Spare
  <2> QED
    BY <1>0, <1>k, <1>h, <1>a, <2>1, <2>2
<1>b. ASSUME NEW c \in DrawCaller, NEW pc \in Phase, Draw!Goto(c, pc) \/ Draw!Return(c),
             UNCHANGED <<slot, marker, answer, sent>>, Grows,
             pc = "fresh" => Spare \/ Spare',
             pc \in {"add", "clear"} => draw[c].pc \in {"try", "add"},
             pc # "try"
      PROVE  Kept'
  <2>1. \A k \in DrawCaller : \/ draw'[k] = draw[k]
                              \/ /\ draw'[k].pc \in {pc, "idle"} /\ k = c
                                 /\ draw'[k].pc = "idle" \/ /\ draw'[k].batch = draw[k].batch
                                                            /\ draw'[k].staged = draw[k].staged
    BY <1>0, <1>b, Moves
  <2>2. ASSUME NEW k \in DrawCaller PROVE (Open(k)' => Spare \/ Spare') /\ Bare(k)'
    <3>1. CASE draw'[k] = draw[k]
      BY <1>k, <1>b, <3>1 DEF Open, Bare
    <3>2. CASE draw'[k].pc = "idle"
      BY <3>2 DEF Open, Bare
    <3>3. CASE draw'[k].pc = pc /\ k = c /\ draw'[k].batch = draw[k].batch /\ draw'[k].staged = draw[k].staged
      BY <1>k, <1>b, <3>3 DEF Open, Bare
    <3> QED
      BY <2>1, <3>1, <3>2, <3>3
  <2> QED
    BY <1>a, <1>b, <2>2
\* Steps that remove the active account's marker.
<1>d. ASSUME NEW c \in DrawCaller, Draw!Goto(c, "fresh") \/ Draw!Return(c), draw[c].pc # "idle",
             marker' = [marker EXCEPT ![slot] = NoBatch],
             UNCHANGED <<slot, answer, sent>>, Grows,
             Spare \/ marker[slot] \in abandoned' \cup refused'
      PROVE  Kept'
  <2>1. marker'[slot] = NoBatch /\ \A s \in Slot \ {slot} : marker'[s] = marker[s]
    BY <1>0, <1>d
  <2>2. ASSUME NEW b \in sent, answer[b] \notin Declined PROVE Safe(b)'
    <3>1. Safe(b) /\ b \in DrawBatch
      BY <1>0, <1>k, <2>2
    <3>2. ASSUME NEW s \in Slot, marker[s] = b,
                 b \notin deposited \cup abandoned' \cup refused' \cup exposed
          PROVE  marker'[s] = b
      BY <1>0, <1>d, <2>1, <2>2, <3>1, <3>2 DEF Spare
    <3> QED
      BY <1>d, <3>1, <3>2 DEF Draw!Staged, Safe
  <2>3. \A k \in DrawCaller : draw'[k] = draw[k] \/ draw'[k].pc \in {"fresh", "idle"}
    BY <1>0, <1>d, Moves DEF Phase
  <2>4. \A k \in DrawCaller : Bare(k)'
    BY <1>k, <1>d, <2>3 DEF Bare
  <2>5. Spare'
    BY <1>d, <2>1 DEF Spare
  <2> QED
    BY <1>h, <1>k, <1>d, <2>2, <2>4, <2>5
<1>1. ASSUME NEW c \in DrawCaller, Draw!Begin(c) PROVE Kept'
  <2> DEFINE rec == [Draw!Idle EXCEPT !.pc = "load", !.mine = slot]
  <2>1. draw' = [draw EXCEPT ![c] = rec]
        /\ UNCHANGED <<slot, marker, answer, sent, deposited, abandoned, refused, exposed>>
    BY <1>1 DEF Draw!Begin, Draw!hist
  <2>2. rec.pc = "load"
    BY DEF Draw!Idle
  <2> HIDE DEF rec
  <2>3. \A k \in DrawCaller : draw'[k] = draw[k] \/ draw'[k].pc = "load"
    BY <1>0, <2>1, <2>2 DEF DrawType
  <2>4. \A k \in DrawCaller : (Open(k)' => Spare) /\ Bare(k)'
    BY <1>k, <2>1, <2>3 DEF Open, Bare
  <2> QED
    BY <1>a, <2>1, <2>4
<1>2. ASSUME NEW c \in DrawCaller, Draw!LoadMarker(c) PROVE Kept'
  <2>1. draw[c].pc = "load" /\ UNCHANGED <<slot, answer, sent, deposited>>
    BY <1>2 DEF Draw!LoadMarker, Draw!At
  <2>2. CASE marker[slot] = NoBatch /\ Draw!Goto(c, "fresh") /\ UNCHANGED <<marker, Draw!hist>>
    BY <1>b, <2>1, <2>2 DEF Phase, Spare, Draw!hist
  <2>3. CASE /\ marker[slot] # NoBatch /\ UNCHANGED <<marker, Draw!hist>>
             /\ draw' = [draw EXCEPT ![c] = [@ EXCEPT !.pc = "resume", !.batch = marker[slot],
                                                      !.ns = slot]]
    <3>1. \A k \in DrawCaller : draw'[k] = draw[k] \/ draw'[k].pc = "resume"
      BY <1>0, <2>3 DEF DrawType, Progress
    <3>2. Grows
      BY <2>1, <2>3 DEF Draw!hist
    <3>3. \A k \in DrawCaller : (Open(k)' => Spare) /\ Bare(k)'
      BY <1>k, <2>3, <3>1, <3>2 DEF Open, Bare
    <3> QED
      BY <1>a, <2>1, <2>3, <3>2, <3>3
  <2>4. CASE /\ marker[slot] # NoBatch /\ abandoned' = abandoned \cup {marker[slot]}
             /\ marker' = [marker EXCEPT ![slot] = NoBatch] /\ Draw!Goto(c, "fresh")
             /\ UNCHANGED <<refused, exposed>>
    BY <1>d, <2>1, <2>4
  <2> QED
    BY <1>2, <2>2, <2>3, <2>4 DEF Draw!LoadMarker
<1>3. ASSUME NEW c \in DrawCaller, Draw!Attempt(c) PROVE Kept'
  <2>1. /\ draw[c].pc \in {"resume", "try"} /\ sent' = sent \cup {draw[c].batch}
        /\ UNCHANGED <<slot, marker, draw, answer, deposited, abandoned, refused, exposed>>
    BY <1>3 DEF Draw!Attempt, Draw!Trying, Draw!hist
  <2>2. Safe(draw[c].batch)
    BY <1>0, <1>k, <2>1 DEF InPlace, Resuming, Draw!Staged, Safe, Bare
  <2>3. \A b \in DrawBatch : Safe(b) => Safe(b)'
    BY <2>1 DEF Draw!Staged, Safe
  <2>4. draw[c].batch \in DrawBatch
    BY <1>0, <2>1 DEF InPlace, Resuming, DrawType, Progress
  <2>5. \A k \in DrawCaller : (Open(k)' => Spare') /\ Bare(k)'
    BY <1>k, <2>1 DEF Open, Bare, Spare
  <2> QED
    BY <1>0, <1>k, <1>h, <2>1, <2>2, <2>3, <2>4, <2>5
<1>4. ASSUME NEW c \in DrawCaller, Draw!ResumeCollects(c) \/ Draw!Collect(c) PROVE Kept'
  BY <1>4, <1>b DEF Draw!ResumeCollects, Draw!Collect, Draw!At, Draw!hist, Phase
<1>5. ASSUME NEW c \in DrawCaller, Draw!ResumeFails(c) \/ Draw!ResumeRefused(c) PROVE Kept'
  <2>1. draw[c].pc = "resume" /\ marker[slot] = draw[c].batch /\ draw[c].ns = slot
    BY <1>0, <1>5 DEF Draw!ResumeFails, Draw!ResumeRefused, Draw!At, InPlace, Resuming
  <2>2. CASE Draw!ResumeFails(c)
    BY <1>d, <2>1, <2>2 DEF Draw!ResumeFails, Draw!hist, Declined, Spare
  <2>3. CASE Draw!ResumeRefused(c)
    BY <1>d, <2>1, <2>3 DEF Draw!ResumeRefused, Draw!Refusal
  <2> QED
    BY <1>5, <2>2, <2>3
<1>6. ASSUME NEW c \in DrawCaller, Draw!ResumeTimesOut(c) PROVE Kept'
  BY <1>6 DEF Draw!ResumeTimesOut
<1>7. ASSUME NEW c \in DrawCaller, Draw!ResumeAdd(c) \/ Draw!Add(c) PROVE Kept'
  BY <1>7, <1>b DEF Draw!ResumeAdd, Draw!Add, Draw!At, Draw!hist, Phase
<1>8. ASSUME NEW c \in DrawCaller, Draw!ResumeClear(c) PROVE Kept'
  <2>1. draw[c].pc = "resumeClear" /\ Spare /\ draw[c].ns = slot
    BY <1>0, <1>8 DEF Draw!ResumeClear, Draw!At, InPlace, Settled, Resuming, Spare
  <2> QED
    BY <1>8, <1>d, <2>1 DEF Draw!ResumeClear, Draw!hist
<1>9. ASSUME NEW c \in DrawCaller, Draw!Clear(c) PROVE Kept'
  <2>1. draw[c].pc = "clear" /\ Spare
    BY <1>9, <1>s DEF Draw!Clear, Draw!At
  <2> QED
    BY <1>9, <1>d, <2>1 DEF Draw!Clear, Draw!hist
<1>10. ASSUME NEW c \in DrawCaller,
              Draw!GiveUp(c) \/ Draw!TimeOut(c) \/ Draw!AddFails(c) \/ Draw!ClearFails(c)
       PROVE  Kept'
  <2>1. "idle" \in Phase
    BY DEF Phase
  <2> QED
    BY <1>10, <1>b, <2>1 DEF Draw!GiveUp, Draw!TimeOut, Draw!AddFails, Draw!ClearFails, Draw!Fail, Draw!hist
<1>11. ASSUME NEW c \in DrawCaller, Draw!Stage(c) PROVE Kept'
  <2>1. PICK b \in DrawBatch :
            /\ marker' = [marker EXCEPT ![slot] = b]
            /\ draw' = [draw EXCEPT ![c] = [@ EXCEPT !.pc = "try", !.batch = b, !.staged = TRUE]]
    BY <1>11 DEF Draw!Stage
  <2>2. /\ draw[c].pc = "fresh"
        /\ UNCHANGED <<slot, answer, sent, deposited, abandoned, refused, exposed>>
    BY <1>11 DEF Draw!Stage, Draw!At, Draw!hist
  <2>3. /\ draw'[c].pc = "try" /\ draw'[c].staged
        /\ \A k \in DrawCaller \ {c} : draw'[k] = draw[k] /\ draw[k].pc = "idle"
    BY <1>0, <2>1, <2>2 DEF Alone, DrawType, Progress
  <2>4. marker'[slot] = b /\ \A s \in Slot \ {slot} : marker'[s] = marker[s]
    BY <1>0, <2>1
  <2>5. ASSUME NEW x \in sent, answer[x] \notin Declined PROVE Safe(x)'
    <3>1. Safe(x) /\ x \in DrawBatch /\ Spare
      BY <1>0, <1>k, <2>2, <2>5 DEF Open
    <3>2. ASSUME NEW s \in Slot, marker[s] = x, x \notin deposited \cup refused \cup exposed
          PROVE marker'[s] = x
      BY <1>0, <2>4, <2>5, <3>1, <3>2 DEF Spare
    <3> QED
      BY <2>2, <3>1, <3>2 DEF Draw!Staged, Safe
  <2>6. \A k \in DrawCaller : ~Open(k)' /\ Bare(k)'
    BY <2>3 DEF Open, Bare
  <2> QED
    BY <1>k, <1>h, <2>2, <2>5, <2>6
<1>12. ASSUME NEW c \in DrawCaller, Draw!Shrink(c) \/ Draw!Heal(c) PROVE Kept'
  <2>1. /\ draw[c].pc = "try" /\ answer[draw[c].batch] \in Declined
        /\ UNCHANGED <<slot, marker, answer, sent, deposited, abandoned, refused, exposed>>
    BY <1>12 DEF Draw!Shrink, Draw!Heal, Draw!At, Draw!hist, Declined
  <2>2. Spare
    <3>1. CASE draw[c].staged
      BY <1>0, <2>1, <3>1 DEF InPlace, Spare
    <3>2. CASE ~draw[c].staged
      BY <1>k, <2>1, <3>2 DEF Open
    <3> QED
      BY <3>1, <3>2
  <2>3. \A k \in DrawCaller : draw'[k] = draw[k] \/ draw'[k].pc \in {"fresh", "clear"}
    <3>1. CASE Draw!Goto(c, "clear")
      BY <1>0, <3>1, Moves DEF Phase
    <3>2. CASE draw' = [draw EXCEPT ![c].pc = "fresh", ![c].caps = @ + 1]
      BY <1>0, <3>2 DEF DrawType, Progress
    <3>3. CASE draw' = [draw EXCEPT ![c] = [@ EXCEPT !.pc = "fresh", !.healed = TRUE, !.caps = 0]]
      BY <1>0, <3>3 DEF DrawType, Progress
    <3> QED
      BY <1>12, <3>1, <3>2, <3>3 DEF Draw!Shrink, Draw!Heal
  <2>4. \A k \in DrawCaller : (Open(k)' => Spare) /\ Bare(k)'
    BY <1>k, <2>1, <2>2, <2>3 DEF Bare
  <2> QED
    BY <1>a, <2>1, <2>4
<1>13. ASSUME NEW b \in DrawBatch, Draw!Answer(b) PROVE Kept'
  <2>1. PICK a \in {"signed", "cap", "error", "spoiled"} : answer' = [answer EXCEPT ![b] = a]
    BY <1>13 DEF Draw!Answer
  <2>2. /\ b \in sent /\ answer[b] = "none"
        /\ UNCHANGED <<slot, marker, draw, sent, deposited, abandoned, refused, exposed>>
    BY <1>13 DEF Draw!Answer, Draw!hist
  <2>3. answer'[b] = a /\ \A x \in DrawBatch \ {b} : answer'[x] = answer[x]
    BY <1>0, <2>1
  <2>4. \A x \in DrawBatch : Safe(x) => Safe(x)'
    BY <2>2 DEF Draw!Staged, Safe
  <2>5. \A x \in DrawBatch : answer[x] \in Declined => answer'[x] \in Declined
    BY <2>2, <2>3 DEF Declined
  <2>6. marker[slot] # NoBatch => marker[slot] \in DrawBatch
    BY <1>0
  <2>7. ASSUME NEW x \in sent, answer'[x] \notin Declined PROVE Safe(x)'
    BY <1>0, <1>k, <2>4, <2>5, <2>7
  <2>8. \A k \in DrawCaller : (Open(k)' => Spare') /\ Bare(k)'
    BY <1>0, <1>k, <2>2, <2>5, <2>6 DEF Open, Bare, Spare
  <2> QED
    BY <1>0, <1>h, <1>k, <2>2, <2>3, <2>7, <2>8
<1>14. CASE Draw!Switch
  <2>1. /\ \A c \in DrawCaller : draw[c].pc = "idle"
        /\ UNCHANGED <<marker, draw, answer, sent, deposited, abandoned, refused, exposed>>
    BY <1>14 DEF Draw!Switch, Draw!At, Draw!hist
  <2>2. \A b \in DrawBatch : Safe(b) => Safe(b)'
    BY <2>1 DEF Draw!Staged, Safe
  <2>3. \A k \in DrawCaller : ~Open(k)' /\ Bare(k)'
    BY <2>1 DEF Open, Bare
  <2> QED
    BY <1>0, <1>h, <1>k, <2>1, <2>2, <2>3
<1>15. CASE Draw!Kill
  <2>1. /\ \A c \in DrawCaller : draw'[c].pc = "idle"
        /\ UNCHANGED <<slot, marker, answer, sent, deposited, abandoned, refused, exposed>>
    BY <1>15 DEF Draw!Kill, Draw!Idle
  <2>2. \A k \in DrawCaller : ~Open(k)' /\ Bare(k)'
    BY <2>1 DEF Open, Bare
  <2> QED
    BY <1>a, <2>1, <2>2
<1>16. CASE UNCHANGED Draw!vars
  <2>1. UNCHANGED <<slot, marker, draw, answer, sent, deposited, abandoned, refused, exposed>>
    BY <1>16 DEF Draw!vars, Draw!hist
  <2>2. \A k \in DrawCaller : (Open(k)' => Spare) /\ Bare(k)'
    BY <1>k, <2>1 DEF Open, Bare
  <2> QED
    BY <1>a, <2>1, <2>2
\* Failures of storage: the batch and the marker at stake are exposed.
<1>17. ASSUME NEW c \in DrawCaller,
              \/ Draw!LoadFails(c) \/ Draw!ResumeDropFails(c)
              \/ Draw!ResumeAddFails(c) \/ Draw!ResumeClearFails(c)
       PROVE  Kept'
  <2>1. /\ Draw!Goto(c, "fresh") /\ UNCHANGED <<slot, marker, answer, sent, deposited, abandoned>>
        /\ refused \subseteq refused' /\ exposed \subseteq exposed'
    BY <1>17 DEF Draw!LoadFails, Draw!ResumeDropFails, Draw!ResumeAddFails, Draw!ResumeClearFails,
                 Draw!Fail
  <2>2. Spare'
    BY <1>0, <1>17, <2>1
       DEF Draw!LoadFails, Draw!ResumeDropFails, Draw!ResumeAddFails, Draw!ResumeClearFails, Draw!At,
           InPlace, Settled, Resuming, Spare, Declined
  <2> QED
    BY <1>b, <2>1, <2>2 DEF Phase
<1>18. ASSUME NEW c \in DrawCaller, Draw!StageFails(c) PROVE Kept'
  <2>1. PICK b \in DrawBatch :
            /\ draw' = [draw EXCEPT ![c] = [@ EXCEPT !.pc = "try", !.batch = b, !.staged = FALSE]]
            /\ exposed' = exposed \cup ({b, marker[slot]} \ {NoBatch})
    BY <1>18 DEF Draw!StageFails
  <2>2. draw[c].pc = "fresh" /\ UNCHANGED <<slot, marker, answer, sent, deposited, abandoned, refused>>
    BY <1>18 DEF Draw!StageFails, Draw!Fail, Draw!At
  <2>3. Spare' /\ b \in exposed'
    BY <1>0, <2>1, <2>2 DEF Spare
  <2>4. \A k \in DrawCaller : draw'[k] = draw[k] \/ draw'[k].batch = b
    BY <1>0, <2>1 DEF DrawType, Progress
  <2>5. \A k \in DrawCaller : Bare(k)'
    BY <1>k, <2>1, <2>3, <2>4 DEF Bare
  <2> QED
    BY <1>a, <2>1, <2>2, <2>3, <2>5
\* The end of a draw that staged nothing, or that the relay refused.
<1>19. ASSUME NEW c \in DrawCaller, Draw!MisProvisioned(c) PROVE Kept'
  <2>1. /\ draw[c].pc = "fresh"
        /\ draw' = [draw EXCEPT ![c] = [@ EXCEPT !.pc = "clear", !.staged = FALSE]]
        /\ UNCHANGED <<slot, marker, answer, sent, deposited, abandoned, refused, exposed>>
    BY <1>19 DEF Draw!MisProvisioned, Draw!At, Draw!hist
  <2>2. Spare
    BY <1>k, <2>1 DEF Open
  <2>3. \A k \in DrawCaller : draw'[k] = draw[k] \/ draw'[k].pc = "clear"
    BY <1>0, <2>1 DEF DrawType, Progress
  <2>4. \A k \in DrawCaller : Bare(k)'
    BY <1>k, <2>1, <2>3 DEF Bare
  <2> QED
    BY <1>a, <2>1, <2>2, <2>4
<1>20. ASSUME NEW c \in DrawCaller, Draw!Refused(c) PROVE Kept'
  BY <1>20, <1>b DEF Draw!Refused, Draw!Refusal, Draw!At, Phase
<1> QED
  BY <1>1, <1>2, <1>3, <1>4, <1>5, <1>6, <1>7, <1>8, <1>9, <1>10, <1>11, <1>12, <1>13, <1>14,
     <1>15, <1>16, <1>17, <1>18, <1>19, <1>20 DEF Draw!Next, Draw!Step, Draw!Trouble

\* drawStaging.ts, "resume instead of losing the batch": while no resume times out, a batch the
\* organizer has charged for is in the wallet, or its marker is stored, through kills, refusals
\* by the organizer, cap adjustments, timeouts of fresh draws and account switches; unless it
\* was given up as stale, the relay once refused its request, as it may with one it has stored
\* before (drawExchange.ts:622-624), or storage failed to read or write its marker or the wallet.
THEOREM PaidBatchAlwaysKept ==
    ASSUME OneAtATime, ~Impatient
    PROVE  Draw!Spec => []Draw!PaidBatchKept
<1>1. Draw!Init => Kept
  BY DEF Draw!Init, Kept, Draw!Idle
<1>2. OneAtATime /\ ~Impatient
  OBVIOUS
<1>3. Kept => Draw!PaidBatchKept
  BY DEF Kept, Draw!PaidBatchKept, Declined
<1> QED
  BY <1>1, <1>2, <1>3, KeptStep, DrawInvariant, PTL DEF Draw!Spec

----------------------------------------------------------------------------
(* The unlock of sealed epochs.                                             *)

EntryType == [known : {TRUE}, inFlight : BOOLEAN, attempts : 0..MaxAttempts,
              wait : {"none", "later", "due"}, fatal : BOOLEAN]

\* The unlocks that account a queued before the n-th switch was made.
JobType(a, n) == [epoch : Epoch, by : {a}, turn : {n}, st : {"queued", "sent"}, attempts : Nat]

\* The types, with what a switch between unlocks gives: every unlock on the chain, and the one
\* for writing, is the active account's.
UnlockTyped ==
    /\ account \in Account /\ held \in [Account -> SUBSET Epoch] /\ unavailable \subseteq Epoch
    /\ timer \in BOOLEAN /\ switches \in Nat
    /\ entry \in [Epoch -> EntryType \cup {Unlock!NoEntry}]
    /\ chain \in Seq(JobType(account, switches))
    /\ \A i \in DOMAIN chain : i > 1 => chain[i].st = "queued"
    /\ write = Unlock!NoWrite \/ (write.st = "sent" /\ write.epoch \in Epoch /\ write.by = account)

\* An epoch has an unlock on the chain exactly while its entry says so, and never two.
Asked ==
    /\ \A e \in Epoch : entry[e].known /\ entry[e].inFlight
                            <=> \E i \in DOMAIN chain : chain[i].epoch = e
    /\ \A i, j \in DOMAIN chain : chain[i].epoch = chain[j].epoch => i = j

\* An entry off the chain whose key is missing has a time, and the timer is armed.
Awaited ==
    \A e \in Epoch : entry[e].known /\ ~entry[e].inFlight /\ ~Unlock!Has(e)
                        => timer /\ entry[e].wait # "none"

\* The inductive invariant.
UnlockInv == UnlockTyped /\ Asked /\ Awaited /\ Unlock!CardMatchesLadder

LEMMA UnlockLibrary ==
    /\ \A S : Unlock!Cardinality(S) = Cardinality(S)
    /\ \A S : Unlock!IsFiniteSet(S) <=> IsFiniteSet(S)
BY DEF Unlock!Cardinality, Cardinality, Unlock!IsFiniteSet, IsFiniteSet

\* What is assumed of the constants.
LEMMA UnlockConstants ==
    /\ IsFiniteSet(Epoch) /\ WriteEpoch \subseteq Epoch /\ MaxAttempts \in Nat \ {0}
    /\ SealedIn \in [Account -> SUBSET Epoch]
BY TokensAssumption, UnlockLibrary DEF Unlock!EpochUnlockAssumption

\* The unlocks that join the chain: one for each epoch queued.
LEMMA ChainedFacts ==
    ASSUME NEW ent, NEW E \in SUBSET Epoch
    PROVE  /\ Unlock!Chained(ent, E) \in Seq({Unlock!Job(ent, e) : e \in Unlock!Queued(ent, E)})
           /\ {Unlock!Chained(ent, E)[i].epoch : i \in DOMAIN Unlock!Chained(ent, E)}
                  = Unlock!Queued(ent, E)
           /\ \A i, j \in DOMAIN Unlock!Chained(ent, E) :
                  Unlock!Chained(ent, E)[i].epoch = Unlock!Chained(ent, E)[j].epoch => i = j
<1> DEFINE Q == Unlock!Queued(ent, E)
           n == Cardinality(Q)
           J == {Unlock!Job(ent, e) : e \in Q}
           s == Unlock!Chained(ent, E)
<1>1. Q \in SUBSET Epoch
  BY DEF Unlock!Queued
<1>2. IsFiniteSet(Q)
  BY <1>1, UnlockConstants, FS_Subset
<1>3. n \in Nat /\ ExistsBijection(1..n, Q)
  BY <1>2, FS_CardinalityType
<1>4. PICK f \in [1..n -> Q] : \A e \in Q : \E i \in 1..n : f[i] = e
  BY <1>3 DEF ExistsBijection, Bijection, Injection, Surjection
<1>5. \E t \in [1..n -> J] : {t[i].epoch : i \in DOMAIN t} = Q
  <2> DEFINE t == [i \in 1..n |-> Unlock!Job(ent, f[i])]
  <2>1. t \in [1..n -> J]
    BY <1>4
  <2>2. \A i \in 1..n : t[i].epoch = f[i]
    BY DEF Unlock!Job
  <2>3. DOMAIN t = 1..n
    OBVIOUS
  <2> HIDE DEF t
  <2>4. {t[i].epoch : i \in DOMAIN t} = Q
    BY <1>4, <2>2, <2>3
  <2> QED
    BY <2>1, <2>4
<1>6. s \in [1..n -> J] /\ {s[i].epoch : i \in DOMAIN s} = Q
  BY <1>5, UnlockLibrary DEF Unlock!Chained
<1> HIDE DEF s, n, J
<1>7. \A i, j \in DOMAIN s : s[i].epoch = s[j].epoch => i = j
  <2> DEFINE g == [i \in 1..n |-> s[i].epoch]
  <2>1. g \in Surjection(1..n, Q)
    BY <1>6 DEF Surjection
  <2>2. IsFiniteSet(1..n) /\ Cardinality(1..n) = n
    BY <1>3, FS_Interval
  <2>3. g \in Injection(1..n, Q)
    BY <2>1, <2>2, FS_SurjSameCardinalityImpliesInj DEF n
  <2>4. \A i, j \in 1..n : g[i] = g[j] => i = j
    BY <2>3 DEF Injection, IsInjective
  <2>5. DOMAIN s = 1..n /\ \A i \in 1..n : g[i] = s[i].epoch
    BY <1>6
  <2> QED
    BY <2>4, <2>5
<1>8. s \in Seq(J)
  BY <1>3, <1>6
<1> QED
  BY <1>6, <1>7, <1>8 DEF s, J

\* What Kick does, for entries that differ from the stored ones in a reset only.
LEMMA KickFacts ==
    ASSUME UnlockTyped, Asked, NEW E \in SUBSET Epoch,
           NEW ent \in [Epoch -> EntryType \cup {Unlock!NoEntry}],
           \A e \in Epoch : ent[e].known = entry[e].known,
           \A e \in Epoch : ent[e].known => (ent[e].inFlight <=> entry[e].inFlight),
           Unlock!Kick(ent, E), UNCHANGED <<account, switches>>
    PROVE  /\ entry' \in [Epoch -> EntryType \cup {Unlock!NoEntry}]
           /\ \A e \in Epoch : e \notin Unlock!Queued(ent, E) => entry'[e] = ent[e]
           /\ \A e \in Unlock!Queued(ent, E) :
                 /\ e \in Epoch /\ ~Unlock!Has(e) /\ (ent[e].known => ~ent[e].inFlight)
                 /\ entry'[e].known /\ entry'[e].inFlight
                 /\ entry'[e].fatal <=> ent[e].known /\ ent[e].fatal
           /\ chain' \in Seq(JobType(account, switches))
           /\ \A i \in DOMAIN chain' : i > 1 => chain'[i].st = "queued"
           /\ Asked'
<1> DEFINE Q == Unlock!Queued(ent, E)
<1>1. /\ Q \in SUBSET Epoch
      /\ \A e \in Q : ~Unlock!Has(e) /\ (ent[e].known => ~ent[e].inFlight)
  BY DEF Unlock!Queued
<1>2. entry' = Unlock!Entered(ent, E) /\ chain' = chain \o Unlock!Chained(ent, E)
  BY DEF Unlock!Kick
<1>3. MaxAttempts \in Nat
  BY UnlockConstants
<1>4. ASSUME NEW e \in Q
      PROVE  /\ entry'[e] \in EntryType /\ entry'[e].known /\ entry'[e].inFlight
             /\ entry'[e].fatal <=> ent[e].known /\ ent[e].fatal
  <2>1. CASE ent[e].known
    <3>1. ent[e] \in EntryType
      BY <1>1, <2>1 DEF Unlock!NoEntry
    <3>2. entry'[e] = [ent[e] EXCEPT !.inFlight = TRUE]
      BY <1>1, <1>2, <2>1 DEF Unlock!Entered
    <3> QED
      BY <2>1, <3>1, <3>2 DEF EntryType
  <2>2. CASE ~ent[e].known
    <3>1. entry'[e] = [Unlock!NewEntry EXCEPT !.inFlight = TRUE]
      BY <1>1, <1>2, <2>2 DEF Unlock!Entered
    <3>2. 0 \in 0..MaxAttempts
      BY <1>3
    <3> QED
      BY <2>2, <3>1, <3>2 DEF Unlock!NewEntry, EntryType
  <2> QED
    BY <2>1, <2>2
<1>5. \A e \in Epoch : e \notin Q => entry'[e] = ent[e]
  BY <1>2 DEF Unlock!Entered
<1>6. entry' \in [Epoch -> EntryType \cup {Unlock!NoEntry}]
  <2>1. DOMAIN entry' = Epoch /\ entry' = [e \in Epoch |-> entry'[e]]
    BY <1>2 DEF Unlock!Entered
  <2> QED
    BY <1>4, <1>5, <2>1
<1>7. PICK s : /\ chain' = chain \o s /\ s \in Seq({Unlock!Job(ent, e) : e \in Q})
               /\ {s[i].epoch : i \in DOMAIN s} = Q
               /\ \A i, j \in DOMAIN s : s[i].epoch = s[j].epoch => i = j
  BY <1>2, ChainedFacts
<1>8. \A e \in Q : Unlock!Job(ent, e) \in JobType(account, switches) /\ Unlock!Job(ent, e).st = "queued"
  <2> SUFFICES ASSUME NEW e \in Q
               PROVE  Unlock!Job(ent, e) \in JobType(account, switches) /\ Unlock!Job(ent, e).st = "queued"
    OBVIOUS
  <2>1. (IF ent[e].known THEN ent[e].attempts ELSE 0) \in Nat
    <3>1. CASE ent[e].known
      <4>1. ent[e] \in EntryType
        BY <1>1, <3>1 DEF Unlock!NoEntry
      <4>2. ent[e].attempts \in 0..MaxAttempts
        BY <4>1 DEF EntryType
      <4> QED
        BY <1>3, <3>1, <4>2
    <3> QED
      BY <3>1
  <2> QED
    BY <1>1, <2>1 DEF Unlock!Job, JobType
<1>9. \A i \in DOMAIN s : s[i] \in JobType(account, switches) /\ s[i].st = "queued" /\ s[i].epoch \in Q
  BY <1>7, <1>8
<1>10. s \in Seq(JobType(account, switches)) /\ chain \in Seq(JobType(account, switches))
  BY <1>7, <1>9 DEF UnlockTyped
<1> HIDE DEF Q
<1>11. /\ chain' \in Seq(JobType(account, switches))
       /\ Len(chain') = Len(chain) + Len(s)
       /\ DOMAIN chain' = 1..(Len(chain) + Len(s))
       /\ \A i \in DOMAIN chain' : IF i <= Len(chain) THEN i \in DOMAIN chain /\ chain'[i] = chain[i]
                                   ELSE i - Len(chain) \in DOMAIN s /\ chain'[i] = s[i - Len(chain)]
       /\ \A i \in DOMAIN chain : i \in DOMAIN chain' /\ i <= Len(chain)
       /\ \A i \in DOMAIN s : i + Len(chain) \in DOMAIN chain' /\ ~(i + Len(chain) <= Len(chain))
  BY <1>7, <1>10
<1>12. \A i \in DOMAIN chain' : i > 1 => chain'[i].st = "queued"
  BY <1>9, <1>11 DEF UnlockTyped
<1>13. \A i \in DOMAIN chain : chain[i].epoch \notin Q
  <2>1. ASSUME NEW i \in DOMAIN chain, chain[i].epoch \in Q PROVE FALSE
    BY <1>1, <2>1 DEF Asked
  <2> QED
    BY <2>1
<1>14. ASSUME NEW i \in DOMAIN chain', NEW j \in DOMAIN chain', chain'[i].epoch = chain'[j].epoch
       PROVE  i = j
  <2>1. CASE i <= Len(chain) /\ j <= Len(chain)
    BY <1>11, <1>14, <2>1 DEF Asked
  <2>2. CASE ~(i <= Len(chain)) /\ ~(j <= Len(chain))
    <3>1. /\ i - Len(chain) \in DOMAIN s /\ chain'[i] = s[i - Len(chain)]
          /\ j - Len(chain) \in DOMAIN s /\ chain'[j] = s[j - Len(chain)]
      BY <1>11, <2>2
    <3>2. i - Len(chain) = j - Len(chain)
      BY <1>7, <1>14, <3>1
    <3> QED
      BY <1>10, <1>11, <3>2
  <2>3. CASE i <= Len(chain) /\ ~(j <= Len(chain))
    BY <1>9, <1>11, <1>13, <1>14, <2>3
  <2>4. CASE ~(i <= Len(chain)) /\ j <= Len(chain)
    BY <1>9, <1>11, <1>13, <1>14, <2>4
  <2> QED
    BY <2>1, <2>2, <2>3, <2>4
<1>15. ASSUME NEW e \in Epoch
       PROVE  (\E i \in DOMAIN chain' : chain'[i].epoch = e)
                  <=> e \in Q \/ \E i \in DOMAIN chain : chain[i].epoch = e
  <2>1. ASSUME NEW i \in DOMAIN chain', chain'[i].epoch = e
        PROVE  e \in Q \/ \E k \in DOMAIN chain : chain[k].epoch = e
    BY <1>9, <1>11, <2>1
  <2>2. ASSUME NEW k \in DOMAIN chain, chain[k].epoch = e PROVE \E i \in DOMAIN chain' : chain'[i].epoch = e
    BY <1>11, <2>2
  <2>3. ASSUME e \in Q PROVE \E i \in DOMAIN chain' : chain'[i].epoch = e
    <3>1. PICK k \in DOMAIN s : s[k].epoch = e
      BY <1>7, <2>3
    <3>2. k + Len(chain) \in DOMAIN chain' /\ chain'[k + Len(chain)] = s[(k + Len(chain)) - Len(chain)]
      BY <1>11
    <3>3. (k + Len(chain)) - Len(chain) = k
      BY <1>10
    <3> QED
      BY <3>1, <3>2, <3>3
  <2> QED
    BY <2>1, <2>2, <2>3
<1>16. ASSUME NEW e \in Epoch
       PROVE  entry'[e].known /\ entry'[e].inFlight
                  <=> e \in Q \/ \E i \in DOMAIN chain : chain[i].epoch = e
  BY <1>4, <1>5 DEF Asked
<1>17. Asked'
  BY <1>14, <1>15, <1>16 DEF Asked
<1> QED
  BY <1>1, <1>4, <1>5, <1>6, <1>11, <1>12, <1>17 DEF Q

\* The head of the chain: the active account's, with its entry in the map.
LEMMA HeadFacts ==
    ASSUME UnlockTyped, Asked, chain # <<>>
    PROVE  /\ Head(chain) = chain[1] /\ 1 \in DOMAIN chain /\ chain[1] \in JobType(account, switches)
           /\ chain[1].epoch \in Epoch /\ chain[1].by = account
           /\ entry[chain[1].epoch] \in EntryType /\ entry[chain[1].epoch].inFlight
           /\ Unlock!Current(chain[1])
<1>1. Head(chain) = chain[1] /\ 1 \in DOMAIN chain /\ chain[1] \in JobType(account, switches)
  BY DEF UnlockTyped
<1>2. chain[1].epoch \in Epoch /\ chain[1].by = account /\ chain[1].turn = switches
  BY <1>1 DEF JobType
<1>3. entry[chain[1].epoch].known /\ entry[chain[1].epoch].inFlight
  BY <1>1, <1>2 DEF Asked
<1>4. entry[chain[1].epoch] \in EntryType
  BY <1>2, <1>3 DEF UnlockTyped, Unlock!NoEntry
<1> QED
  BY <1>1, <1>2, <1>3, <1>4 DEF Unlock!Current

\* An unlock ends: it leaves the chain, and its entry is no longer in flight.
LEMMA Dequeued ==
    ASSUME UnlockTyped, Asked, chain # <<>>, chain' = Tail(chain),
           NEW r \in EntryType \cup {Unlock!NoEntry}, r.known => ~r.inFlight,
           entry' = [entry EXCEPT ![chain[1].epoch] = r], UNCHANGED <<account, switches>>
    PROVE  /\ entry' \in [Epoch -> EntryType \cup {Unlock!NoEntry}]
           /\ entry'[chain[1].epoch] = r
           /\ \A e \in Epoch \ {chain[1].epoch} : entry'[e] = entry[e]
           /\ chain' \in Seq(JobType(account, switches))
           /\ \A i \in DOMAIN chain' : i > 1 => chain'[i].st = "queued"
           /\ Asked'
<1>1. chain[1].epoch \in Epoch /\ 1 \in DOMAIN chain
  BY HeadFacts
<1>2. /\ entry' \in [Epoch -> EntryType \cup {Unlock!NoEntry}]
      /\ entry'[chain[1].epoch] = r
      /\ \A e \in Epoch \ {chain[1].epoch} : entry'[e] = entry[e]
  BY <1>1 DEF UnlockTyped
<1>3. /\ chain' \in Seq(JobType(account, switches))
      /\ \A i \in DOMAIN chain' : i \in Nat /\ i + 1 \in DOMAIN chain /\ i + 1 > 1 /\ chain'[i] = chain[i + 1]
      /\ \A i \in DOMAIN chain : i \in Nat /\ (i # 1 => i - 1 \in DOMAIN chain' /\ chain'[i - 1] = chain[i])
  BY DEF UnlockTyped
<1>4. \A i \in DOMAIN chain' : i > 1 => chain'[i].st = "queued"
  BY <1>3 DEF UnlockTyped
<1>5. ASSUME NEW i \in DOMAIN chain', NEW j \in DOMAIN chain', chain'[i].epoch = chain'[j].epoch
      PROVE  i = j
  <2>1. i + 1 = j + 1
    BY <1>3, <1>5 DEF Asked
  <2> QED
    BY <1>3, <2>1
<1>6. \A i \in DOMAIN chain' : chain'[i].epoch # chain[1].epoch
  <2> SUFFICES ASSUME NEW i \in DOMAIN chain', chain'[i].epoch = chain[1].epoch PROVE FALSE
    OBVIOUS
  <2>1. i + 1 = 1
    BY <1>1, <1>3 DEF Asked
  <2> QED
    BY <1>3, <2>1
<1>7. ASSUME NEW e \in Epoch \ {chain[1].epoch}
      PROVE  (\E i \in DOMAIN chain' : chain'[i].epoch = e) <=> (\E i \in DOMAIN chain : chain[i].epoch = e)
  <2>1. ASSUME NEW i \in DOMAIN chain, chain[i].epoch = e PROVE \E k \in DOMAIN chain' : chain'[k].epoch = e
    BY <1>3, <1>7, <2>1
  <2>2. ASSUME NEW k \in DOMAIN chain', chain'[k].epoch = e PROVE \E i \in DOMAIN chain : chain[i].epoch = e
    BY <1>3, <2>2
  <2> QED
    BY <2>1, <2>2
<1>8. \A e \in Epoch : entry'[e].known /\ entry'[e].inFlight <=> \E i \in DOMAIN chain' : chain'[i].epoch = e
  <2> SUFFICES ASSUME NEW e \in Epoch
               PROVE  entry'[e].known /\ entry'[e].inFlight <=> \E i \in DOMAIN chain' : chain'[i].epoch = e
    OBVIOUS
  <2>1. CASE e = chain[1].epoch
    BY <1>2, <1>6, <2>1
  <2>2. CASE e # chain[1].epoch
    BY <1>2, <1>7, <2>2 DEF Asked
  <2> QED
    BY <2>1, <2>2
<1> QED
  BY <1>2, <1>3, <1>4, <1>5, <1>8 DEF Asked

\* A key lands with the active account.
LEMMA LandsFacts ==
    ASSUME UnlockTyped, NEW e \in Epoch, Unlock!Lands(account, e), account' = account
    PROVE  /\ held' \in [Account -> SUBSET Epoch] /\ unavailable' = unavailable \ {e}
           /\ Unlock!Has(e)' /\ \A f \in Epoch : Unlock!Has(f) => Unlock!Has(f)'
           /\ \A f \in Epoch \ {e} : Unlock!Has(f)' => Unlock!Has(f)
BY DEF UnlockTyped, Unlock!Lands, Unlock!Has

\* Entries off the chain are reset, their cards are taken down, and they are kicked.
LEMMA ResetKeeps ==
    ASSUME UnlockInv, NEW S \in SUBSET Epoch,
           NEW ent \in [Epoch -> EntryType \cup {Unlock!NoEntry}],
           \A e \in Epoch \ S : ent[e] = entry[e],
           \A e \in S : ent[e].known = entry[e].known,
           \A e \in S : entry[e].known => ~entry[e].inFlight,
           \A e \in S : ent[e].known => ~ent[e].inFlight /\ ~ent[e].fatal /\ ent[e].wait # "later",
           unavailable' = unavailable \ S, Unlock!Kick(ent, S),
           UNCHANGED <<account, held, write, timer, switches>>
    PROVE  UnlockInv'
<1> DEFINE Q == Unlock!Queued(ent, S)
<1>0. UnlockTyped /\ Asked /\ Awaited /\ Unlock!CardMatchesLadder
  BY DEF UnlockInv
<1>1. /\ \A e \in Epoch : ent[e].known = entry[e].known
      /\ \A e \in Epoch : ent[e].known => (ent[e].inFlight <=> entry[e].inFlight)
  OBVIOUS
<1>2. /\ entry' \in [Epoch -> EntryType \cup {Unlock!NoEntry}]
      /\ \A e \in Epoch : e \notin Q => entry'[e] = ent[e]
      /\ \A e \in Q : /\ ~Unlock!Has(e) /\ entry'[e].known /\ entry'[e].inFlight
                      /\ entry'[e].fatal <=> ent[e].known /\ ent[e].fatal
      /\ chain' \in Seq(JobType(account, switches))
      /\ \A i \in DOMAIN chain' : i > 1 => chain'[i].st = "queued"
      /\ Asked'
  BY <1>0, <1>1, KickFacts
<1>3. Q \subseteq S /\ \A e \in S : ~Unlock!Has(e) => e \in Q
  BY DEF Unlock!Queued
<1> HIDE DEF Q
<1>4. UnlockTyped'
  BY <1>0, <1>2 DEF UnlockTyped
<1>5. Awaited'
  BY <1>0, <1>2, <1>3 DEF Awaited, Unlock!Has
<1>6. Unlock!CardMatchesLadder'
  <2> SUFFICES ASSUME NEW e \in Epoch, ~Unlock!Has(e)
               PROVE  e \in unavailable' <=> entry'[e].known /\ entry'[e].fatal
    BY DEF Unlock!CardMatchesLadder, Unlock!Has
  <2>1. CASE e \in S
    BY <1>2, <1>3, <2>1
  <2>2. CASE e \notin S
    BY <1>0, <1>2, <1>3, <2>2 DEF Unlock!CardMatchesLadder
  <2> QED
    BY <2>1, <2>2
<1> QED
  BY <1>2, <1>4, <1>5, <1>6 DEF UnlockInv

\* Every step keeps the invariant.
LEMMA UnlockStepKeeps == UnlockInv /\ [Unlock!Next]_Unlock!vars => UnlockInv'
<1> SUFFICES ASSUME UnlockInv, [Unlock!Next]_Unlock!vars PROVE UnlockInv'
  OBVIOUS
<1>0. /\ UnlockTyped /\ Asked /\ Awaited /\ Unlock!CardMatchesLadder
      /\ account \in Account /\ held \in [Account -> SUBSET Epoch] /\ unavailable \subseteq Epoch
      /\ timer \in BOOLEAN /\ switches \in Nat
      /\ entry \in [Epoch -> EntryType \cup {Unlock!NoEntry}]
  BY DEF UnlockInv, UnlockTyped
<1>a. ASSUME NEW e \in Epoch, entry[e].known PROVE entry[e] \in EntryType
  BY <1>0, <1>a DEF Unlock!NoEntry
<1>b. \A e \in Epoch : entry[e].known => (entry[e].inFlight <=> entry[e].inFlight)
  OBVIOUS
<1>1. CASE Unlock!Start
  <2>1. /\ chain # <<>> /\ chain' = [chain EXCEPT ![1].st = "sent", ![1].by = account]
        /\ UNCHANGED <<account, held, entry, unavailable, write, timer, switches>>
    BY <1>1 DEF Unlock!Start
  <2> DEFINE job == [chain[1] EXCEPT !.st = "sent", !.by = account]
  <2>2. job \in JobType(account, switches) /\ job.epoch = chain[1].epoch
    BY <1>0, <2>1, HeadFacts DEF JobType
  <2>3. /\ DOMAIN chain' = DOMAIN chain /\ chain'[1] = job
        /\ \A i \in DOMAIN chain : i # 1 => chain'[i] = chain[i]
    BY <1>0, <2>1, HeadFacts
  <2>4. chain \in Seq(JobType(account, switches)) /\ \A i \in DOMAIN chain : i > 1 => i # 1
    BY <1>0 DEF UnlockTyped
  <2> HIDE DEF job
  <2>5. chain' \in Seq(JobType(account, switches))
    <3>1. DOMAIN chain = 1..Len(chain) /\ Len(chain) \in Nat
          /\ \A i \in DOMAIN chain : chain[i] \in JobType(account, switches)
      BY <2>4
    <3>2. chain' = [i \in 1..Len(chain) |-> chain'[i]]
      BY <2>1, <3>1
    <3>3. chain' \in [1..Len(chain) -> JobType(account, switches)]
      BY <2>2, <2>3, <3>1, <3>2
    <3> QED
      BY <3>1, <3>3
  <2>6. \A i \in DOMAIN chain' : chain'[i].epoch = chain[i].epoch
    BY <2>2, <2>3
  <2>7. UnlockTyped'
    BY <1>0, <2>1, <2>3, <2>4, <2>5 DEF UnlockTyped
  <2>8. Asked'
    BY <1>0, <2>1, <2>3, <2>6 DEF Asked
  <2>9. Awaited' /\ Unlock!CardMatchesLadder'
    BY <1>0, <2>1 DEF Awaited, Unlock!CardMatchesLadder, Unlock!Has
  <2> QED
    BY <2>7, <2>8, <2>9 DEF UnlockInv
<1>2. CASE Unlock!FinishOk
  <2>0. chain # <<>> /\ Head(chain) = chain[1] /\ chain[1].epoch \in Epoch /\ chain[1].by = account
    BY <1>0, <1>2, HeadFacts DEF Unlock!FinishOk
  <2>1. PICK e \in Epoch : e = chain[1].epoch
    BY <2>0
  <2>2. /\ chain' = Tail(chain) /\ entry' = [entry EXCEPT ![e] = Unlock!NoEntry]
        /\ UNCHANGED <<account, write, timer, switches>>
        /\ Unlock!Lands(account, e) \/ (Unlock!Has(e) /\ UNCHANGED <<held, unavailable>>)
    BY <1>2, <2>0, <2>1 DEF Unlock!FinishOk
  <2>3. /\ entry' \in [Epoch -> EntryType \cup {Unlock!NoEntry}]
        /\ entry'[e] = Unlock!NoEntry /\ \A f \in Epoch \ {e} : entry'[f] = entry[f]
        /\ chain' \in Seq(JobType(account, switches))
        /\ \A i \in DOMAIN chain' : i > 1 => chain'[i].st = "queued"
        /\ Asked'
    BY <1>0, <2>0, <2>1, <2>2, Dequeued DEF Unlock!NoEntry
  <2>4. /\ held' \in [Account -> SUBSET Epoch] /\ unavailable' \subseteq Epoch
        /\ Unlock!Has(e)' /\ \A f \in Epoch \ {e} : Unlock!Has(f)' <=> Unlock!Has(f)
        /\ \A f \in Epoch \ {e} : f \in unavailable' <=> f \in unavailable
    <3>1. CASE Unlock!Lands(account, e)
      BY <1>0, <2>2, <3>1, LandsFacts
    <3>2. CASE Unlock!Has(e) /\ UNCHANGED <<held, unavailable>>
      BY <1>0, <2>2, <3>2 DEF Unlock!Has
    <3> QED
      BY <2>2, <3>1, <3>2
  <2>5. UnlockTyped'
    BY <1>0, <2>2, <2>3, <2>4 DEF UnlockTyped
  <2>6. Awaited'
    BY <1>0, <2>2, <2>3, <2>4 DEF Awaited
  <2>7. Unlock!CardMatchesLadder'
    BY <1>0, <2>3, <2>4 DEF Unlock!CardMatchesLadder
  <2> QED
    BY <2>3, <2>5, <2>6, <2>7 DEF UnlockInv
<1>3. ASSUME NEW final \in BOOLEAN, Unlock!Fails(final) PROVE UnlockInv'
  <2> DEFINE e == chain[1].epoch
             tries == IF entry[e].attempts < MaxAttempts THEN entry[e].attempts + 1 ELSE entry[e].attempts
             terminal == final \/ tries >= MaxAttempts
             r == Unlock!Failed(entry[e], tries, terminal)
  <2>1. /\ chain # <<>> /\ Head(chain) = chain[1] /\ e \in Epoch /\ Unlock!Current(chain[1])
        /\ entry[e] \in EntryType
    BY <1>0, <1>3, HeadFacts DEF Unlock!Fails
  <2>2. /\ chain' = Tail(chain) /\ entry' = [entry EXCEPT ![e] = r]
        /\ unavailable' = IF terminal THEN unavailable \cup {e} ELSE unavailable
        /\ timer' = Unlock!Scheduled(entry')
        /\ UNCHANGED <<account, held, write, switches>>
    BY <1>3, <2>1 DEF Unlock!Fails, Unlock!Armed
  <2>3. tries \in 0..MaxAttempts /\ terminal \in BOOLEAN
    <3>1. entry[e].attempts \in 0..MaxAttempts /\ MaxAttempts \in Nat
      BY <2>1, UnlockConstants DEF EntryType
    <3> QED
      BY <3>1
  <2> HIDE DEF terminal, tries
  <2>4. r \in EntryType /\ ~r.inFlight /\ r.known /\ r.wait = "later" /\ (r.fatal <=> entry[e].fatal \/ terminal)
    BY <2>1, <2>3 DEF Unlock!Failed, EntryType
  <2> HIDE DEF r, e
  <2>5. /\ entry' \in [Epoch -> EntryType \cup {Unlock!NoEntry}]
        /\ entry'[e] = r /\ \A f \in Epoch \ {e} : entry'[f] = entry[f]
        /\ chain' \in Seq(JobType(account, switches))
        /\ \A i \in DOMAIN chain' : i > 1 => chain'[i].st = "queued"
        /\ Asked'
    BY <1>0, <2>1, <2>2, <2>4, Dequeued DEF e
  <2>6. timer' = TRUE
    <3>1. Unlock!Scheduled(entry')
      BY <2>1, <2>4, <2>5 DEF Unlock!Scheduled
    <3>2. Unlock!Scheduled(entry') \in BOOLEAN
      BY DEF Unlock!Scheduled
    <3> QED
      BY <2>2, <3>1, <3>2
  <2>7. UnlockTyped'
    BY <1>0, <2>1, <2>2, <2>5, <2>6 DEF UnlockTyped
  <2>8. Awaited'
    BY <1>0, <2>2, <2>4, <2>5, <2>6 DEF Awaited, Unlock!Has
  <2>9. Unlock!CardMatchesLadder'
    <3> SUFFICES ASSUME NEW f \in Epoch, ~Unlock!Has(f)
                 PROVE  f \in unavailable' <=> entry'[f].known /\ entry'[f].fatal
      BY <2>2 DEF Unlock!CardMatchesLadder, Unlock!Has
    <3>1. f \in unavailable <=> entry[f].known /\ entry[f].fatal
      BY <1>0 DEF Unlock!CardMatchesLadder
    <3>2. CASE f = e
      <4>1. entry[e].known
        BY <2>1 DEF EntryType
      <4> QED
        BY <2>2, <2>4, <2>5, <3>1, <3>2, <4>1
    <3>3. CASE f # e
      BY <2>2, <2>5, <3>1, <3>3
    <3> QED
      BY <3>2, <3>3
  <2> QED
    BY <2>5, <2>7, <2>8, <2>9 DEF UnlockInv
<1>4. CASE Unlock!Fire
  <2>1. /\ Unlock!Kick(entry, Unlock!Due) /\ timer' = Unlock!Scheduled(Unlock!Entered(entry, Unlock!Due))
        /\ UNCHANGED <<account, held, unavailable, write, switches>>
    BY <1>4 DEF Unlock!Fire
  <2> DEFINE Q == Unlock!Queued(entry, Unlock!Due)
  <2>2. Unlock!Due \in SUBSET Epoch
    BY DEF Unlock!Due
  <2>3. /\ entry' \in [Epoch -> EntryType \cup {Unlock!NoEntry}]
        /\ \A e \in Epoch : e \notin Q => entry'[e] = entry[e]
        /\ \A e \in Q : /\ ~Unlock!Has(e) /\ entry'[e].known /\ entry'[e].inFlight
                        /\ entry'[e].fatal <=> entry[e].known /\ entry[e].fatal
        /\ chain' \in Seq(JobType(account, switches))
        /\ \A i \in DOMAIN chain' : i > 1 => chain'[i].st = "queued"
        /\ Asked'
    BY <1>0, <1>b, <2>1, <2>2, KickFacts
  <2>4. timer' = Unlock!Scheduled(entry') /\ timer' \in BOOLEAN
    BY <2>1 DEF Unlock!Kick, Unlock!Scheduled
  <2> HIDE DEF Q
  <2>5. UnlockTyped'
    BY <1>0, <2>1, <2>3, <2>4 DEF UnlockTyped
  <2>6. Awaited'
    <3> SUFFICES ASSUME NEW e \in Epoch, entry'[e].known, ~entry'[e].inFlight, ~Unlock!Has(e)
                 PROVE  timer' /\ entry'[e].wait # "none"
      BY <2>1 DEF Awaited, Unlock!Has
    <3>1. entry'[e] = entry[e]
      BY <2>3
    <3>2. entry'[e].wait # "none"
      BY <1>0, <3>1 DEF Awaited
    <3>3. Unlock!Scheduled(entry')
      BY <3>2 DEF Unlock!Scheduled
    <3> QED
      BY <2>4, <3>2, <3>3
  <2>7. Unlock!CardMatchesLadder'
    BY <1>0, <2>1, <2>3 DEF Unlock!CardMatchesLadder, Unlock!Has
  <2> QED
    BY <2>3, <2>5, <2>6, <2>7 DEF UnlockInv
<1>5. ASSUME NEW e \in Epoch, Unlock!Note(e) PROVE UnlockInv'
  <2>1. /\ Unlock!Kick(entry, {e})
        /\ UNCHANGED <<account, held, unavailable, write, timer, switches>>
    BY <1>5 DEF Unlock!Note
  <2> DEFINE Q == Unlock!Queued(entry, {e})
  <2>2. {e} \in SUBSET Epoch
    OBVIOUS
  <2>3. /\ entry' \in [Epoch -> EntryType \cup {Unlock!NoEntry}]
        /\ \A f \in Epoch : f \notin Q => entry'[f] = entry[f]
        /\ \A f \in Q : /\ ~Unlock!Has(f) /\ entry'[f].known /\ entry'[f].inFlight
                        /\ entry'[f].fatal <=> entry[f].known /\ entry[f].fatal
        /\ chain' \in Seq(JobType(account, switches))
        /\ \A i \in DOMAIN chain' : i > 1 => chain'[i].st = "queued"
        /\ Asked'
    BY <1>0, <1>b, <2>1, <2>2, KickFacts
  <2> HIDE DEF Q
  <2>5. UnlockTyped'
    BY <1>0, <2>1, <2>3 DEF UnlockTyped
  <2>6. Awaited'
    BY <1>0, <2>1, <2>3 DEF Awaited, Unlock!Has
  <2>7. Unlock!CardMatchesLadder'
    BY <1>0, <2>1, <2>3 DEF Unlock!CardMatchesLadder, Unlock!Has
  <2> QED
    BY <2>3, <2>5, <2>6, <2>7 DEF UnlockInv
<1>6. ASSUME NEW e \in Epoch, Unlock!Retry(e) PROVE UnlockInv'
  <2> DEFINE reset == [entry EXCEPT ![e] = IF @.known THEN [@ EXCEPT !.attempts = 0, !.fatal = FALSE, !.wait = "none"]
                                           ELSE @]
  <2>1. /\ entry[e].known => ~entry[e].inFlight
        /\ unavailable' = unavailable \ {e} /\ Unlock!Kick(reset, {e})
        /\ UNCHANGED <<account, held, write, timer, switches>>
    BY <1>6 DEF Unlock!Retry
  <2>2. \A f \in Epoch \ {e} : reset[f] = entry[f]
    BY <1>0
  <2>3. /\ reset[e] \in EntryType \cup {Unlock!NoEntry}
        /\ reset[e].known = entry[e].known
        /\ reset[e].known => ~reset[e].inFlight /\ ~reset[e].fatal /\ reset[e].wait = "none"
    <3>1. CASE entry[e].known
      <4>1. entry[e] \in EntryType /\ 0 \in 0..MaxAttempts
        BY <1>a, <3>1, UnlockConstants
      <4>2. reset[e] = [entry[e] EXCEPT !.attempts = 0, !.fatal = FALSE, !.wait = "none"]
        BY <1>0, <3>1
      <4> HIDE DEF reset
      <4> QED
        BY <2>1, <3>1, <4>1, <4>2 DEF EntryType
    <3>2. CASE ~entry[e].known
      BY <1>0, <3>2
    <3> QED
      BY <3>1, <3>2
  <2>4. reset \in [Epoch -> EntryType \cup {Unlock!NoEntry}]
    <3>1. reset = [f \in Epoch |-> reset[f]]
      BY <1>0
    <3> HIDE DEF reset
    <3> QED
      BY <1>0, <2>2, <2>3, <3>1
  <2> HIDE DEF reset
  <2> QED
    BY <2>1, <2>2, <2>3, <2>4, ResetKeeps
<1>7. CASE Unlock!Revive
  <2> DEFINE reset == [e \in Epoch |-> IF e \in Unlock!Stuck
                                       THEN [entry[e] EXCEPT !.attempts = 0, !.fatal = FALSE, !.wait = "none"]
                                       ELSE entry[e]]
  <2>1. /\ unavailable' = unavailable \ Unlock!Stuck /\ Unlock!Kick(reset, Unlock!Stuck)
        /\ UNCHANGED <<account, held, write, timer, switches>>
    BY <1>7 DEF Unlock!Revive
  <2>2. /\ Unlock!Stuck \in SUBSET Epoch /\ \A e \in Epoch \ Unlock!Stuck : reset[e] = entry[e]
        /\ \A e \in Unlock!Stuck : entry[e].known /\ ~entry[e].inFlight
    BY DEF Unlock!Stuck
  <2>3. ASSUME NEW e \in Unlock!Stuck
        PROVE  /\ reset[e] \in EntryType /\ reset[e].known = entry[e].known
               /\ ~reset[e].inFlight /\ ~reset[e].fatal /\ reset[e].wait = "none"
    <3>1. entry[e] \in EntryType /\ 0 \in 0..MaxAttempts
      BY <1>a, <2>2, UnlockConstants
    <3>2. reset[e] = [entry[e] EXCEPT !.attempts = 0, !.fatal = FALSE, !.wait = "none"]
      BY <2>2
    <3> QED
      BY <2>2, <3>1, <3>2 DEF EntryType
  <2>4. reset \in [Epoch -> EntryType \cup {Unlock!NoEntry}]
    <3>1. reset = [e \in Epoch |-> reset[e]]
      OBVIOUS
    <3> HIDE DEF reset
    <3> QED
      BY <1>0, <2>2, <2>3, <3>1
  <2> HIDE DEF reset
  <2> QED
    BY <2>1, <2>2, <2>3, <2>4, ResetKeeps
<1>8. ASSUME NEW e \in Epoch, Unlock!Elapse(e) PROVE UnlockInv'
  <2>1. /\ entry[e].known /\ entry' = [entry EXCEPT ![e].wait = "due"]
        /\ UNCHANGED <<account, held, unavailable, chain, write, timer, switches>>
    BY <1>8 DEF Unlock!Elapse
  <2> DEFINE r == [entry[e] EXCEPT !.wait = "due"]
  <2>2. /\ r \in EntryType /\ r.known /\ (r.inFlight <=> entry[e].inFlight)
        /\ r.wait = "due" /\ (r.fatal <=> entry[e].fatal)
    BY <1>a, <2>1 DEF EntryType
  <2>3. entry'[e] = r /\ \A f \in Epoch \ {e} : entry'[f] = entry[f]
    BY <1>0, <2>1
  <2>4. entry' = [f \in Epoch |-> entry'[f]]
    BY <1>0, <2>1
  <2> HIDE DEF r
  <2>5. entry' \in [Epoch -> EntryType \cup {Unlock!NoEntry}]
    BY <1>0, <2>2, <2>3, <2>4
  <2>6. UnlockTyped'
    BY <1>0, <2>1, <2>5 DEF UnlockTyped
  <2>7. Asked'
    BY <1>0, <2>1, <2>2, <2>3 DEF Asked
  <2>8. Awaited' /\ Unlock!CardMatchesLadder'
    <3> SUFFICES ASSUME NEW f \in Epoch
                 PROVE  /\ entry'[f].known /\ ~entry'[f].inFlight /\ ~Unlock!Has(f)
                              => timer /\ entry'[f].wait # "none"
                        /\ ~Unlock!Has(f) => (f \in unavailable <=> entry'[f].known /\ entry'[f].fatal)
      BY <2>1 DEF Awaited, Unlock!CardMatchesLadder, Unlock!Has
    <3> QED
      BY <1>0, <2>1, <2>2, <2>3 DEF Awaited, Unlock!CardMatchesLadder
  <2> QED
    BY <2>6, <2>7, <2>8 DEF UnlockInv
<1>9. ASSUME NEW e \in Epoch, Unlock!WriteStart(e) PROVE UnlockInv'
  <2>1. /\ write' = [st |-> "sent", epoch |-> e, by |-> account]
        /\ UNCHANGED <<account, held, entry, unavailable, chain, timer, switches>>
    BY <1>9 DEF Unlock!WriteStart
  <2>2. write'.st = "sent" /\ write'.epoch \in Epoch /\ write'.by = account
    BY <2>1
  <2> QED
    BY <1>0, <2>1, <2>2 DEF UnlockInv, UnlockTyped, Asked, Awaited, Unlock!CardMatchesLadder, Unlock!Has
<1>10. ASSUME NEW ok \in BOOLEAN, Unlock!WriteEnd(ok) PROVE UnlockInv'
  <2>1. /\ write.st = "sent" /\ write' = Unlock!NoWrite
        /\ UNCHANGED <<account, entry, chain, timer, switches>>
        /\ Unlock!Lands(write.by, write.epoch) \/ UNCHANGED <<held, unavailable>>
    BY <1>10 DEF Unlock!WriteEnd
  <2>2. write.epoch \in Epoch /\ write.by = account
    BY <1>0, <2>1 DEF UnlockTyped, Unlock!NoWrite
  <2>3. PICK S \in SUBSET Epoch :
            /\ held' \in [Account -> SUBSET Epoch] /\ unavailable' = unavailable \ S
            /\ \A f \in Epoch : Unlock!Has(f)' <=> Unlock!Has(f) \/ f \in S
    <3>1. CASE Unlock!Lands(write.by, write.epoch)
      <4>1. PICK e \in Epoch : e = write.epoch
        BY <2>2
      <4>2. Unlock!Lands(account, e)
        BY <2>2, <3>1, <4>1
      <4>3. /\ {e} \in SUBSET Epoch /\ unavailable' = unavailable \ {e}
            /\ \A f \in Epoch : Unlock!Has(f)' <=> Unlock!Has(f) \/ f \in {e}
            /\ held' \in [Account -> SUBSET Epoch]
        BY <1>0, <2>1, <4>2, LandsFacts
      <4> QED
        BY <4>3
    <3>2. CASE UNCHANGED <<held, unavailable>>
      <4>1. unavailable' = unavailable \ {} /\ \A f \in Epoch : Unlock!Has(f)' <=> Unlock!Has(f) \/ f \in {}
        BY <2>1, <3>2 DEF Unlock!Has
      <4>2. {} \in SUBSET Epoch /\ held' \in [Account -> SUBSET Epoch]
        BY <1>0, <3>2
      <4> QED
        BY <4>1, <4>2
    <3> QED
      BY <2>1, <3>1, <3>2
  <2>4. UnlockTyped' /\ Asked'
    BY <1>0, <2>1, <2>3 DEF UnlockTyped, Asked
  <2>5. Awaited' /\ Unlock!CardMatchesLadder'
    BY <1>0, <2>1, <2>3 DEF Awaited, Unlock!CardMatchesLadder
  <2> QED
    BY <2>4, <2>5 DEF UnlockInv
<1>11. ASSUME NEW a \in Account, Unlock!Switch(a) PROVE UnlockInv'
  <2>1. /\ chain = <<>> /\ write = Unlock!NoWrite /\ account' = a /\ switches' = switches + 1
        /\ entry' = [e \in Epoch |-> Unlock!NoEntry] /\ timer' = FALSE /\ unavailable' = {}
        /\ UNCHANGED <<held, chain, write>>
    BY <1>11 DEF Unlock!Switch
  <2>2. \A e \in Epoch : ~entry'[e].known
    BY <2>1 DEF Unlock!NoEntry
  <2>3. UnlockTyped'
    <3>1. chain' \in Seq(JobType(account', switches')) /\ DOMAIN chain' = {}
      BY <2>1
    <3>2. entry' \in [Epoch -> EntryType \cup {Unlock!NoEntry}]
      BY <2>1
    <3>3. /\ account' \in Account /\ held' \in [Account -> SUBSET Epoch] /\ unavailable' \subseteq Epoch
          /\ timer' \in BOOLEAN /\ write' = Unlock!NoWrite
      BY <1>0, <2>1
    <3>4. switches' \in Nat
      BY <1>0, <2>1
    <3> QED
      BY <3>1, <3>2, <3>3, <3>4 DEF UnlockTyped
  <2>4. Asked' /\ Awaited' /\ Unlock!CardMatchesLadder'
    BY <2>1, <2>2 DEF Asked, Awaited, Unlock!CardMatchesLadder
  <2> QED
    BY <2>3, <2>4 DEF UnlockInv
<1>12. CASE UNCHANGED Unlock!vars
  BY <1>0, <1>12
     DEF UnlockInv, Unlock!vars, UnlockTyped, Asked, Awaited, Unlock!CardMatchesLadder, Unlock!Has
<1> QED
  BY <1>1, <1>2, <1>3, <1>4, <1>5, <1>6, <1>7, <1>8, <1>9, <1>10, <1>11, <1>12
     DEF Unlock!Next, Unlock!FinishTransient, Unlock!FinishRefused

LEMMA UnlockStarts == Unlock!Init => UnlockInv
<1> SUFFICES ASSUME Unlock!Init PROVE UnlockInv
  OBVIOUS
<1>1. \A e \in Epoch : ~entry[e].known
  BY DEF Unlock!Init, Unlock!NoEntry
<1>2. UnlockTyped
  <2>1. chain \in Seq(JobType(account, switches)) /\ DOMAIN chain = {}
    BY DEF Unlock!Init
  <2>2. entry \in [Epoch -> EntryType \cup {Unlock!NoEntry}]
    BY DEF Unlock!Init
  <2> QED
    BY <2>1, <2>2 DEF Unlock!Init, UnlockTyped
<1>3. Asked /\ Awaited /\ Unlock!CardMatchesLadder
  BY <1>1 DEF Unlock!Init, Asked, Awaited, Unlock!CardMatchesLadder
<1> QED
  BY <1>2, <1>3 DEF UnlockInv

\* What the invariant says of the ladder.
LEMMA UnlockShows == UnlockInv => Unlock!TypeOK /\ Unlock!CardMatchesLadder /\ Unlock!NeverParked
<1> SUFFICES ASSUME UnlockInv PROVE Unlock!TypeOK /\ Unlock!CardMatchesLadder /\ Unlock!NeverParked
  OBVIOUS
<1>0. UnlockTyped /\ Asked /\ Awaited /\ Unlock!CardMatchesLadder
  BY DEF UnlockInv
<1>1. ASSUME NEW e \in Epoch, entry[e].known
      PROVE  entry[e].attempts \in Nat /\ entry[e].wait \in {"none", "later", "due"}
  <2>1. entry[e] \in EntryType
    BY <1>0, <1>1 DEF UnlockTyped, Unlock!NoEntry
  <2>2. entry[e].attempts \in 0..MaxAttempts /\ entry[e].wait \in {"none", "later", "due"}
    BY <2>1 DEF EntryType
  <2> QED
    BY <2>2, UnlockConstants
<1>2. \A i \in DOMAIN chain : chain[i].epoch \in Epoch
  <2>1. \A i \in DOMAIN chain : chain[i] \in JobType(account, switches)
    BY <1>0 DEF UnlockTyped
  <2> QED
    BY <2>1 DEF JobType
<1>3. Unlock!TypeOK
  BY <1>0, <1>1, <1>2 DEF Unlock!TypeOK, UnlockTyped
<1>4. Unlock!NeverParked
  BY <1>0 DEF Unlock!NeverParked, Asked, Awaited
<1> QED
  BY <1>0, <1>3, <1>4

----------------------------------------------------------------------------
(* The wallet, whose proofs are in WalletProofs.                            *)

HeldP == INSTANCE WalletProofs WITH
    Instance <- {TheWallet}, Overlap <- FALSE, Replay <- FALSE, StorageFails <- FALSE
FailingP == INSTANCE WalletProofs WITH
    Instance <- {TheWallet}, Overlap <- FALSE, Replay <- FALSE, StorageFails <- TRUE,
    BatchTokens <- FailingBatchTokens, Key <- FailingKey, Need <- FailingNeed,
    MaxBind <- FailingMaxBind

\* The wallet the proofs speak of takes the same steps.
LEMMA HeldSame == Held!Next <=> HeldP!Next
<1>1. \A s : HeldP!ToSet(s) = Held!ToSet(s)
  BY DEF HeldP!ToSet, Held!ToSet
<1>2. \A S : HeldP!Cardinality(S) = Held!Cardinality(S)
  BY DEF HeldP!Cardinality, Held!Cardinality
<1>3. HeldP!Token = Held!Token
  BY <1>1 DEF HeldP!Token, Held!Token
<1>4. HeldP!hist = Held!hist
  BY DEF HeldP!hist, Held!hist
<1>5. HeldP!Idle = Held!Idle
  BY DEF HeldP!Idle, Held!Idle
<1>6. HeldP!NotReading = Held!NotReading
  BY DEF HeldP!NotReading, Held!NotReading
<1>7. HeldP!Fresh = Held!Fresh
  BY <1>6 DEF HeldP!Fresh, Held!Fresh
<1>8. \A i : HeldP!MayMutate(i) <=> Held!MayMutate(i)
  BY DEF HeldP!MayMutate, Held!MayMutate
<1>9. \A i, h, t : HeldP!Enqueue(i, h, t) <=> Held!Enqueue(i, h, t)
  BY DEF HeldP!Enqueue, Held!Enqueue
<1>10. \A c, h : HeldP!WriteTask(c, h) = Held!WriteTask(c, h)
  BY DEF HeldP!WriteTask, Held!WriteTask
<1>11. \A i, k : HeldP!Running(i, k) <=> Held!Running(i, k)
  BY DEF HeldP!Running, Held!Running
<1>12. \A i : HeldP!ChainAfter(i) = Held!ChainAfter(i)
  BY DEF HeldP!ChainAfter, Held!ChainAfter
<1>13. \A g : HeldP!Returning(g) = Held!Returning(g)
  BY <1>3, <1>1 DEF HeldP!Returning, Held!Returning
<1>14. \A c, w : HeldP!Begin(c, w) <=> Held!Begin(c, w)
  BY <1>5 DEF HeldP!Begin, Held!Begin
<1>15. \A c, i, b : HeldP!BeginAdd(c, i, b) <=> Held!BeginAdd(c, i, b)
  BY <1>14, <1>1 DEF HeldP!BeginAdd, Held!BeginAdd
<1>16. \A c, i, n : HeldP!BeginSpend(c, i, n) <=> Held!BeginSpend(c, i, n)
  BY <1>14 DEF HeldP!BeginSpend, Held!BeginSpend, HeldP!hist, Held!hist
<1>17. \A c, i : HeldP!BeginCount(c, i) <=> Held!BeginCount(c, i)
  BY <1>14 DEF HeldP!BeginCount, Held!BeginCount, HeldP!hist, Held!hist
<1>18. \A c, i : HeldP!BeginClear(c, i) <=> Held!BeginClear(c, i)
  BY <1>14, <1>5 DEF HeldP!BeginClear, Held!BeginClear, HeldP!hist, Held!hist
<1>19. \A i : HeldP!HydrateLoad(i) <=> Held!HydrateLoad(i)
  BY DEF HeldP!HydrateLoad, Held!HydrateLoad, HeldP!hist, Held!hist
<1>20. \A i : HeldP!Kept(i) <=> Held!Kept(i)
  BY DEF HeldP!Kept, Held!Kept
<1>46. \A i : HeldP!Mistaken(i) <=> Held!Mistaken(i)
  BY DEF HeldP!Mistaken, Held!Mistaken
<1>47. \A i : HeldP!Drop(i) <=> Held!Drop(i)
  BY <1>20, <1>1 DEF HeldP!Drop, Held!Drop
<1>21. \A i, k : HeldP!Reconcile(i, k) <=> Held!Reconcile(i, k)
  BY <1>20, <1>46, <1>47 DEF HeldP!Reconcile, Held!Reconcile
<1>48. \A i : HeldP!ReconcileThrows(i) <=> Held!ReconcileThrows(i)
  BY <1>47 DEF HeldP!ReconcileThrows, Held!ReconcileThrows
<1>49. \A i : HeldP!HydrateFails(i) <=> Held!HydrateFails(i)
  BY <1>1 DEF HeldP!HydrateFails, Held!HydrateFails, HeldP!hist, Held!hist
<1>50. \A i : HeldP!HydrateThrows(i) <=> Held!HydrateThrows(i)
  BY <1>48 DEF HeldP!HydrateThrows, Held!HydrateThrows
<1>22. \A i : HeldP!HydrateReconcile(i) <=> Held!HydrateReconcile(i)
  BY <1>21 DEF HeldP!HydrateReconcile, Held!HydrateReconcile
<1>23. \A c, o : HeldP!Ready(c, o) <=> Held!Ready(c, o)
  BY <1>8 DEF HeldP!Ready, Held!Ready
<1>24. \A s, h : HeldP!NotHeld(s, h) = Held!NotHeld(s, h)
  BY <1>1 DEF HeldP!NotHeld, Held!NotHeld
<1>25. \A s, h : HeldP!New(s, h) = Held!New(s, h)
  BY DEF HeldP!New, Held!New, HeldP!NotHeld, Held!NotHeld, HeldP!ToSet, Held!ToSet, HeldP!Cardinality, Held!Cardinality
<1>26. \A c : HeldP!Add(c) <=> Held!Add(c)
  BY <1>25, <1>23, <1>9, <1>10 DEF HeldP!Add, Held!Add, HeldP!hist, Held!hist
<1>27. \A c : HeldP!Take(c) <=> Held!Take(c)
  BY <1>9, <1>10, <1>1 DEF HeldP!Take, Held!Take
<1>28. \A c, i : HeldP!Resync(c, i) <=> Held!Resync(c, i)
  BY <1>9 DEF HeldP!Resync, Held!Resync, HeldP!hist, Held!hist
<1>29. \A c : HeldP!Spend(c) <=> Held!Spend(c)
  BY <1>23, <1>28, <1>27 DEF HeldP!Spend, Held!Spend
<1>30. \A c : HeldP!SpendAgain(c) <=> Held!SpendAgain(c)
  BY <1>8, <1>5, <1>27 DEF HeldP!SpendAgain, Held!SpendAgain, HeldP!hist, Held!hist
<1>31. \A c : HeldP!Count(c) <=> Held!Count(c)
  BY <1>23, <1>28 DEF HeldP!Count, Held!Count
<1>32. \A c : HeldP!Clear(c) <=> Held!Clear(c)
  BY <1>23, <1>9, <1>1 DEF HeldP!Clear, Held!Clear
<1>33. \A i, k : HeldP!SetKeyFingerprint(i, k) <=> Held!SetKeyFingerprint(i, k)
  BY DEF HeldP!SetKeyFingerprint, Held!SetKeyFingerprint
<1>34. \A c : HeldP!Return(c) <=> Held!Return(c)
  BY <1>5, <1>1, <1>13 DEF HeldP!Return, Held!Return
<1>35. \A c : HeldP!Landed(c) <=> Held!Landed(c)
  BY DEF HeldP!Landed, Held!Landed
<1>51. \A i : HeldP!StoreList(i) <=> Held!StoreList(i)
  BY <1>1, <1>12 DEF HeldP!StoreList, Held!StoreList
<1>36. \A i : HeldP!WriteLands(i) <=> Held!WriteLands(i)
  BY <1>11, <1>35, <1>51 DEF HeldP!WriteLands, Held!WriteLands
<1>52. \A i : HeldP!WriteHalfLands(i) <=> Held!WriteHalfLands(i)
  BY <1>5, <1>11, <1>51 DEF HeldP!WriteHalfLands, Held!WriteHalfLands
<1>53. \A i : HeldP!RemoveFails(i) <=> Held!RemoveFails(i)
  BY <1>5, <1>11, <1>12 DEF HeldP!RemoveFails, Held!RemoveFails, HeldP!hist, Held!hist
<1>54. \A i : HeldP!ReconcileFails(i) <=> Held!ReconcileFails(i)
  BY <1>6, <1>11, <1>12, <1>48 DEF HeldP!ReconcileFails, Held!ReconcileFails
<1>37. \A i : HeldP!RemoveLands(i) <=> Held!RemoveLands(i)
  BY <1>11, <1>12, <1>35 DEF HeldP!RemoveLands, Held!RemoveLands, HeldP!hist, Held!hist
<1>38. \A i : HeldP!ResyncRead(i) <=> Held!ResyncRead(i)
  BY <1>11, <1>6 DEF HeldP!ResyncRead, Held!ResyncRead, HeldP!hist, Held!hist
<1>39. \A i : HeldP!Adopt(i) <=> Held!Adopt(i)
  BY <1>11, <1>6, <1>12, <1>5 DEF HeldP!Adopt, Held!Adopt, HeldP!hist, Held!hist
<1>40. \A i : HeldP!ReconcileRun(i) <=> Held!ReconcileRun(i)
  BY <1>11, <1>6, <1>21 DEF HeldP!ReconcileRun, Held!ReconcileRun
<1>41. \A i : HeldP!TaskFails(i) <=> Held!TaskFails(i)
  BY <1>11, <1>6, <1>12, <1>5 DEF HeldP!TaskFails, Held!TaskFails, HeldP!hist, Held!hist
<1>42. HeldP!Crash <=> Held!Crash
  BY <1>7, <1>5 DEF HeldP!Crash, Held!Crash
<1>43. \A c : HeldP!CallStep(c) <=> Held!CallStep(c)
  BY <1>26, <1>29, <1>30, <1>31, <1>32, <1>34 DEF HeldP!CallStep, Held!CallStep
<1>44. \A i : HeldP!TaskStep(i) <=> Held!TaskStep(i)
  BY <1>19, <1>22, <1>36, <1>37, <1>38, <1>40, <1>39, <1>41, <1>49, <1>50, <1>52, <1>53, <1>54
     DEF HeldP!TaskStep, Held!TaskStep
<1>45. HeldP!Next <=> Held!Next
  BY <1>15, <1>16, <1>17, <1>18, <1>43, <1>44, <1>33, <1>42 DEF HeldP!Next, Held!Next
<1> QED
  BY <1>45

\* The invariant of the wallet.
HeldInv ==
    /\ HeldP!OnceInv /\ HeldP!WipeInv /\ HeldP!NoTokenTwice /\ HeldP!KeptInv /\ HeldP!MatchInv
    /\ HeldP!Reads

LEMMA HeldLibrary ==
    /\ \A s : HeldP!ToSet(s) = Held!ToSet(s)
    /\ \A s : HeldP!IsInjective(s) <=> Held!IsInjective(s)
    /\ HeldP!Token = Held!Token
<1>1. \A s : HeldP!ToSet(s) = Held!ToSet(s)
  BY DEF HeldP!ToSet, Held!ToSet
<1>2. HeldP!Token = Held!Token
  BY <1>1 DEF HeldP!Token, Held!Token
<1> QED
  BY <1>1, <1>2 DEF HeldP!IsInjective, Held!IsInjective

LEMMA HeldSingle == HeldP!Single
<1>1. HeldP!WalletAssumption
  BY TokensAssumption DEF Held!WalletAssumption, HeldP!WalletAssumption
<1>2. /\ \A b \in Batch : BatchTokens[b] \in Seq(HeldP!Token)
      /\ \A a, b \in Batch : a # b => HeldP!ToSet(BatchTokens[a]) \cap HeldP!ToSet(BatchTokens[b]) = {}
  BY BatchesAssumption, HeldLibrary, HeldLibrary DEF Held!Token, Held!Token, Held!ToSet, Held!ToSet
<1> QED
  BY <1>1, <1>2 DEF HeldP!Single

LEMMA HeldStarts == Held!Init => HeldInv
<1> SUFFICES ASSUME Held!Init PROVE HeldInv
  OBVIOUS
<1>1. HeldP!Init
  BY HeldLibrary DEF Held!Init, HeldP!Init, Held!Fresh, HeldP!Fresh, Held!NotReading, HeldP!NotReading,
                    Held!Idle, HeldP!Idle
<1>2. HeldP!NoTokenTwice
  BY <1>1 DEF HeldP!Init, HeldP!NoTokenTwice
<1>3. HeldP!Reads
  BY <1>1 DEF HeldP!Init, HeldP!Fresh, HeldP!Reads
<1> QED
  BY <1>1, <1>2, <1>3, HeldSingle, HeldP!StartsOnce, HeldP!KeptStarts, HeldP!MatchStarts DEF HeldInv

LEMMA HeldKeeps == HeldInv /\ [Held!Next]_Held!vars => HeldInv'
<1> SUFFICES ASSUME HeldInv, [Held!Next]_Held!vars PROVE HeldInv'
  OBVIOUS
<1>1. [HeldP!Next]_HeldP!vars
  BY HeldSame DEF Held!vars, HeldP!vars
<1>2. /\ HeldP!OnceInv /\ HeldP!WipeInv /\ HeldP!NoTokenTwice /\ HeldP!KeptInv /\ HeldP!MatchInv
      /\ HeldP!Reads
  BY DEF HeldInv
<1>3. HeldP!OnceInv' /\ HeldP!WipeInv'
  BY <1>1, <1>2, HeldSingle, HeldP!StepKeeps
<1>4. HeldP!NoTokenTwice'
  BY <1>1, <1>2, HeldSingle, HeldP!StaysOnce
<1>5. HeldP!KeptInv'
  BY <1>1, <1>2, HeldSingle, HeldP!StepKeepsDeposits
<1>6. HeldP!MatchInv'
  BY <1>1, <1>2, HeldSingle, HeldP!StepKeepsMatch
<1>7. HeldP!Reads'
  BY <1>1, <1>2, HeldSingle, HeldP!StepKeepsReads
<1> QED
  BY <1>3, <1>4, <1>5, <1>6, <1>7 DEF HeldInv

\* What the invariant says of the wallet.
LEMMA HeldShows == HeldInv => /\ Held!TypeOK /\ Held!NoTokenTwice /\ Held!SpentIsGone
                              /\ Held!DepositKept /\ forgotten = {} /\ Held!MemoryMatchesStorage
<1> SUFFICES ASSUME HeldInv PROVE /\ Held!TypeOK /\ Held!NoTokenTwice /\ Held!SpentIsGone
                                  /\ Held!DepositKept /\ forgotten = {} /\ Held!MemoryMatchesStorage
  OBVIOUS
<1>1. HeldP!TypeOK /\ HeldP!SpentIsGone /\ HeldP!NoTokenTwice /\ HeldP!DepositKept
  BY HeldSingle, HeldP!OnceShows, HeldP!KeptShows DEF HeldInv
<1>2. Held!TypeOK
  BY <1>1, HeldLibrary DEF Held!TypeOK, HeldP!TypeOK
<1>3. Held!NoTokenTwice /\ Held!SpentIsGone /\ Held!DepositKept
  BY <1>1, HeldLibrary
     DEF Held!NoTokenTwice, HeldP!NoTokenTwice, Held!SpentIsGone, HeldP!SpentIsGone, Held!DepositKept,
         HeldP!DepositKept
<1>4. HeldP!MemoryMatchesStorage
  BY HeldP!MatchShows DEF HeldInv
<1>5. Held!MemoryMatchesStorage
  BY <1>4 DEF Held!MemoryMatchesStorage, HeldP!MemoryMatchesStorage
<1>6. forgotten = {}
  BY DEF HeldInv, HeldP!Reads
<1> QED
  BY <1>2, <1>3, <1>5, <1>6

\* The same of the other wallet.
LEMMA FailingSame == Failing!Next <=> FailingP!Next
<1>1. \A s : FailingP!ToSet(s) = Failing!ToSet(s)
  BY DEF FailingP!ToSet, Failing!ToSet
<1>2. \A S : FailingP!Cardinality(S) = Failing!Cardinality(S)
  BY DEF FailingP!Cardinality, Failing!Cardinality
<1>3. FailingP!Token = Failing!Token
  BY <1>1 DEF FailingP!Token, Failing!Token
<1>4. FailingP!hist = Failing!hist
  BY DEF FailingP!hist, Failing!hist
<1>5. FailingP!Idle = Failing!Idle
  BY DEF FailingP!Idle, Failing!Idle
<1>6. FailingP!NotReading = Failing!NotReading
  BY DEF FailingP!NotReading, Failing!NotReading
<1>7. FailingP!Fresh = Failing!Fresh
  BY <1>6 DEF FailingP!Fresh, Failing!Fresh
<1>8. \A i : FailingP!MayMutate(i) <=> Failing!MayMutate(i)
  BY DEF FailingP!MayMutate, Failing!MayMutate
<1>9. \A i, h, t : FailingP!Enqueue(i, h, t) <=> Failing!Enqueue(i, h, t)
  BY DEF FailingP!Enqueue, Failing!Enqueue
<1>10. \A c, h : FailingP!WriteTask(c, h) = Failing!WriteTask(c, h)
  BY DEF FailingP!WriteTask, Failing!WriteTask
<1>11. \A i, k : FailingP!Running(i, k) <=> Failing!Running(i, k)
  BY DEF FailingP!Running, Failing!Running
<1>12. \A i : FailingP!ChainAfter(i) = Failing!ChainAfter(i)
  BY DEF FailingP!ChainAfter, Failing!ChainAfter
<1>13. \A g : FailingP!Returning(g) = Failing!Returning(g)
  BY <1>3, <1>1 DEF FailingP!Returning, Failing!Returning
<1>14. \A c, w : FailingP!Begin(c, w) <=> Failing!Begin(c, w)
  BY <1>5 DEF FailingP!Begin, Failing!Begin
<1>15. \A c, i, b : FailingP!BeginAdd(c, i, b) <=> Failing!BeginAdd(c, i, b)
  BY <1>14, <1>1 DEF FailingP!BeginAdd, Failing!BeginAdd
<1>16. \A c, i, n : FailingP!BeginSpend(c, i, n) <=> Failing!BeginSpend(c, i, n)
  BY <1>14 DEF FailingP!BeginSpend, Failing!BeginSpend, FailingP!hist, Failing!hist
<1>17. \A c, i : FailingP!BeginCount(c, i) <=> Failing!BeginCount(c, i)
  BY <1>14 DEF FailingP!BeginCount, Failing!BeginCount, FailingP!hist, Failing!hist
<1>18. \A c, i : FailingP!BeginClear(c, i) <=> Failing!BeginClear(c, i)
  BY <1>14, <1>5 DEF FailingP!BeginClear, Failing!BeginClear, FailingP!hist, Failing!hist
<1>19. \A i : FailingP!HydrateLoad(i) <=> Failing!HydrateLoad(i)
  BY DEF FailingP!HydrateLoad, Failing!HydrateLoad, FailingP!hist, Failing!hist
<1>20. \A i : FailingP!Kept(i) <=> Failing!Kept(i)
  BY DEF FailingP!Kept, Failing!Kept
<1>46. \A i : FailingP!Mistaken(i) <=> Failing!Mistaken(i)
  BY DEF FailingP!Mistaken, Failing!Mistaken
<1>47. \A i : FailingP!Drop(i) <=> Failing!Drop(i)
  BY <1>20, <1>1 DEF FailingP!Drop, Failing!Drop
<1>21. \A i, k : FailingP!Reconcile(i, k) <=> Failing!Reconcile(i, k)
  BY <1>20, <1>46, <1>47 DEF FailingP!Reconcile, Failing!Reconcile
<1>48. \A i : FailingP!ReconcileThrows(i) <=> Failing!ReconcileThrows(i)
  BY <1>47 DEF FailingP!ReconcileThrows, Failing!ReconcileThrows
<1>49. \A i : FailingP!HydrateFails(i) <=> Failing!HydrateFails(i)
  BY <1>1 DEF FailingP!HydrateFails, Failing!HydrateFails, FailingP!hist, Failing!hist
<1>50. \A i : FailingP!HydrateThrows(i) <=> Failing!HydrateThrows(i)
  BY <1>48 DEF FailingP!HydrateThrows, Failing!HydrateThrows
<1>22. \A i : FailingP!HydrateReconcile(i) <=> Failing!HydrateReconcile(i)
  BY <1>21 DEF FailingP!HydrateReconcile, Failing!HydrateReconcile
<1>23. \A c, o : FailingP!Ready(c, o) <=> Failing!Ready(c, o)
  BY <1>8 DEF FailingP!Ready, Failing!Ready
<1>24. \A s, h : FailingP!NotHeld(s, h) = Failing!NotHeld(s, h)
  BY <1>1 DEF FailingP!NotHeld, Failing!NotHeld
<1>25. \A s, h : FailingP!New(s, h) = Failing!New(s, h)
  BY DEF FailingP!New, Failing!New, FailingP!NotHeld, Failing!NotHeld, FailingP!ToSet, Failing!ToSet, FailingP!Cardinality, Failing!Cardinality
<1>26. \A c : FailingP!Add(c) <=> Failing!Add(c)
  BY <1>25, <1>23, <1>9, <1>10 DEF FailingP!Add, Failing!Add, FailingP!hist, Failing!hist
<1>27. \A c : FailingP!Take(c) <=> Failing!Take(c)
  BY <1>9, <1>10, <1>1 DEF FailingP!Take, Failing!Take
<1>28. \A c, i : FailingP!Resync(c, i) <=> Failing!Resync(c, i)
  BY <1>9 DEF FailingP!Resync, Failing!Resync, FailingP!hist, Failing!hist
<1>29. \A c : FailingP!Spend(c) <=> Failing!Spend(c)
  BY <1>23, <1>28, <1>27 DEF FailingP!Spend, Failing!Spend
<1>30. \A c : FailingP!SpendAgain(c) <=> Failing!SpendAgain(c)
  BY <1>8, <1>5, <1>27 DEF FailingP!SpendAgain, Failing!SpendAgain, FailingP!hist, Failing!hist
<1>31. \A c : FailingP!Count(c) <=> Failing!Count(c)
  BY <1>23, <1>28 DEF FailingP!Count, Failing!Count
<1>32. \A c : FailingP!Clear(c) <=> Failing!Clear(c)
  BY <1>23, <1>9, <1>1 DEF FailingP!Clear, Failing!Clear
<1>33. \A i, k : FailingP!SetKeyFingerprint(i, k) <=> Failing!SetKeyFingerprint(i, k)
  BY DEF FailingP!SetKeyFingerprint, Failing!SetKeyFingerprint
<1>34. \A c : FailingP!Return(c) <=> Failing!Return(c)
  BY <1>5, <1>1, <1>13 DEF FailingP!Return, Failing!Return
<1>35. \A c : FailingP!Landed(c) <=> Failing!Landed(c)
  BY DEF FailingP!Landed, Failing!Landed
<1>51. \A i : FailingP!StoreList(i) <=> Failing!StoreList(i)
  BY <1>1, <1>12 DEF FailingP!StoreList, Failing!StoreList
<1>36. \A i : FailingP!WriteLands(i) <=> Failing!WriteLands(i)
  BY <1>11, <1>35, <1>51 DEF FailingP!WriteLands, Failing!WriteLands
<1>52. \A i : FailingP!WriteHalfLands(i) <=> Failing!WriteHalfLands(i)
  BY <1>5, <1>11, <1>51 DEF FailingP!WriteHalfLands, Failing!WriteHalfLands
<1>53. \A i : FailingP!RemoveFails(i) <=> Failing!RemoveFails(i)
  BY <1>5, <1>11, <1>12 DEF FailingP!RemoveFails, Failing!RemoveFails, FailingP!hist, Failing!hist
<1>54. \A i : FailingP!ReconcileFails(i) <=> Failing!ReconcileFails(i)
  BY <1>6, <1>11, <1>12, <1>48 DEF FailingP!ReconcileFails, Failing!ReconcileFails
<1>37. \A i : FailingP!RemoveLands(i) <=> Failing!RemoveLands(i)
  BY <1>11, <1>12, <1>35 DEF FailingP!RemoveLands, Failing!RemoveLands, FailingP!hist, Failing!hist
<1>38. \A i : FailingP!ResyncRead(i) <=> Failing!ResyncRead(i)
  BY <1>11, <1>6 DEF FailingP!ResyncRead, Failing!ResyncRead, FailingP!hist, Failing!hist
<1>39. \A i : FailingP!Adopt(i) <=> Failing!Adopt(i)
  BY <1>11, <1>6, <1>12, <1>5 DEF FailingP!Adopt, Failing!Adopt, FailingP!hist, Failing!hist
<1>40. \A i : FailingP!ReconcileRun(i) <=> Failing!ReconcileRun(i)
  BY <1>11, <1>6, <1>21 DEF FailingP!ReconcileRun, Failing!ReconcileRun
<1>41. \A i : FailingP!TaskFails(i) <=> Failing!TaskFails(i)
  BY <1>11, <1>6, <1>12, <1>5 DEF FailingP!TaskFails, Failing!TaskFails, FailingP!hist, Failing!hist
<1>42. FailingP!Crash <=> Failing!Crash
  BY <1>7, <1>5 DEF FailingP!Crash, Failing!Crash
<1>43. \A c : FailingP!CallStep(c) <=> Failing!CallStep(c)
  BY <1>26, <1>29, <1>30, <1>31, <1>32, <1>34 DEF FailingP!CallStep, Failing!CallStep
<1>44. \A i : FailingP!TaskStep(i) <=> Failing!TaskStep(i)
  BY <1>19, <1>22, <1>36, <1>37, <1>38, <1>40, <1>39, <1>41, <1>49, <1>50, <1>52, <1>53, <1>54
     DEF FailingP!TaskStep, Failing!TaskStep
<1>45. FailingP!Next <=> Failing!Next
  BY <1>15, <1>16, <1>17, <1>18, <1>43, <1>44, <1>33, <1>42 DEF FailingP!Next, Failing!Next
<1> QED
  BY <1>45

\* The invariant of the wallet whose storage may fail.
FailingInv == FailingP!OnceInv /\ FailingP!WipeInv /\ FailingP!NoTokenTwice /\ FailingP!KeptInv

LEMMA FailingLibrary ==
    /\ \A s : FailingP!ToSet(s) = Failing!ToSet(s)
    /\ \A s : FailingP!IsInjective(s) <=> Failing!IsInjective(s)
    /\ FailingP!Token = Failing!Token
<1>1. \A s : FailingP!ToSet(s) = Failing!ToSet(s)
  BY DEF FailingP!ToSet, Failing!ToSet
<1>2. FailingP!Token = Failing!Token
  BY <1>1 DEF FailingP!Token, Failing!Token
<1> QED
  BY <1>1, <1>2 DEF FailingP!IsInjective, Failing!IsInjective

LEMMA FailingSingle == FailingP!Single
<1>1. FailingP!WalletAssumption
  BY TokensAssumption DEF Failing!WalletAssumption, FailingP!WalletAssumption
<1>2. /\ \A b \in Batch : FailingBatchTokens[b] \in Seq(FailingP!Token)
      /\ \A a, b \in Batch : a # b =>
            FailingP!ToSet(FailingBatchTokens[a]) \cap FailingP!ToSet(FailingBatchTokens[b]) = {}
  BY BatchesAssumption, FailingLibrary DEF Held!ToSet, Failing!ToSet
<1> QED
  BY <1>1, <1>2 DEF FailingP!Single

LEMMA FailingStarts == Failing!Init => FailingInv
<1> SUFFICES ASSUME Failing!Init PROVE FailingInv
  OBVIOUS
<1>1. FailingP!Init
  BY FailingLibrary DEF Failing!Init, FailingP!Init, Failing!Fresh, FailingP!Fresh, Failing!NotReading, FailingP!NotReading,
                    Failing!Idle, FailingP!Idle
<1>2. FailingP!NoTokenTwice
  BY <1>1 DEF FailingP!Init, FailingP!NoTokenTwice
<1> QED
  BY <1>1, <1>2, FailingSingle, FailingP!StartsOnce, FailingP!KeptStarts DEF FailingInv

LEMMA FailingKeeps == FailingInv /\ [Failing!Next]_Failing!vars => FailingInv'
<1> SUFFICES ASSUME FailingInv, [Failing!Next]_Failing!vars PROVE FailingInv'
  OBVIOUS
<1>1. [FailingP!Next]_FailingP!vars
  BY FailingSame DEF Failing!vars, FailingP!vars
<1>2. FailingP!OnceInv /\ FailingP!WipeInv /\ FailingP!NoTokenTwice /\ FailingP!KeptInv
  BY DEF FailingInv
<1>3. FailingP!OnceInv' /\ FailingP!WipeInv'
  BY <1>1, <1>2, FailingSingle, FailingP!StepKeeps
<1>4. FailingP!NoTokenTwice'
  BY <1>1, <1>2, FailingSingle, FailingP!StaysOnce
<1>5. FailingP!KeptInv'
  BY <1>1, <1>2, FailingSingle, FailingP!StepKeepsDeposits
<1> QED
  BY <1>3, <1>4, <1>5 DEF FailingInv

\* What the invariant says of the wallet.
LEMMA FailingShows == FailingInv => /\ Failing!TypeOK /\ Failing!NoTokenTwice
                                    /\ Failing!SpentIsGone /\ Failing!DepositKept
<1> SUFFICES ASSUME FailingInv PROVE /\ Failing!TypeOK /\ Failing!NoTokenTwice
                                     /\ Failing!SpentIsGone /\ Failing!DepositKept
  OBVIOUS
<1>1. FailingP!TypeOK /\ FailingP!SpentIsGone /\ FailingP!NoTokenTwice /\ FailingP!DepositKept
  BY FailingSingle, FailingP!OnceShows, FailingP!KeptShows DEF FailingInv
<1>2. Failing!TypeOK
  BY <1>1, FailingLibrary DEF Failing!TypeOK, FailingP!TypeOK
<1>3. Failing!NoTokenTwice /\ Failing!SpentIsGone /\ Failing!DepositKept
  BY <1>1, FailingLibrary
     DEF Failing!NoTokenTwice, FailingP!NoTokenTwice, Failing!SpentIsGone, FailingP!SpentIsGone,
         Failing!DepositKept, FailingP!DepositKept
<1> QED
  BY <1>2, <1>3

----------------------------------------------------------------------------
(* The composition.                                                         *)

\* The invariant of the component that runs.
TokensInv ==
    /\ part = "wallet" => HeldInv
    /\ part = "wallet_failing" => FailingInv
    /\ part = "draw" => DrawInv
    /\ part = "unlock" => UnlockInv

LEMMA DrawsAssumed == OneAtATime
BY TokensAssumption DEF OneAtATime

LEMMA TokensStart == Init => TokensInv
<1>1. ASSUME part = "wallet", Held!Init PROVE TokensInv
  BY <1>1, HeldStarts DEF TokensInv
<1>2. ASSUME part = "wallet_failing", Failing!Init PROVE TokensInv
  BY <1>2, FailingStarts DEF TokensInv
<1>3. ASSUME part = "draw", Draw!Init PROVE TokensInv
  BY <1>3, DrawsAssumed, DrawStarts DEF TokensInv
<1>4. ASSUME part = "unlock", Unlock!Init PROVE TokensInv
  BY <1>4, UnlockStarts DEF TokensInv
<1> QED
  BY <1>1, <1>2, <1>3, <1>4 DEF Init

LEMMA TokensStep == TokensInv /\ [Next]_vars => TokensInv'
<1> SUFFICES ASSUME TokensInv, [Next]_vars PROVE TokensInv'
  OBVIOUS
<1>1. CASE HeldStep
  <2>1. part = "wallet" /\ part' = part /\ [Held!Next]_Held!vars
    BY <1>1 DEF HeldStep, BesideWallet
  <2> QED
    BY <2>1, HeldKeeps DEF TokensInv
<1>2. CASE FailingStep
  <2>1. part = "wallet_failing" /\ part' = part /\ [Failing!Next]_Failing!vars
    BY <1>2 DEF FailingStep, BesideWallet
  <2> QED
    BY <2>1, FailingKeeps DEF TokensInv
<1>3. CASE DrawStep
  <2>1. part = "draw" /\ part' = part /\ [Draw!Next]_Draw!vars
    BY <1>3 DEF DrawStep, BesideTokenDraw
  <2> QED
    BY <2>1, DrawsAssumed, DrawStepKeeps DEF TokensInv
<1>4. CASE UnlockStep
  <2>1. part = "unlock" /\ part' = part /\ [Unlock!Next]_Unlock!vars
    BY <1>4 DEF UnlockStep, BesideEpochUnlock
  <2> QED
    BY <2>1, UnlockStepKeeps DEF TokensInv
<1>5. CASE UNCHANGED vars
  <2>1. part' = part
    BY <1>5 DEF vars
  <2>2. /\ UNCHANGED Held!vars /\ UNCHANGED Failing!vars
        /\ UNCHANGED Draw!vars /\ UNCHANGED Unlock!vars
    BY <1>5 DEF vars, Held!vars, Held!hist, Failing!vars, Failing!hist, Draw!vars, Draw!hist, Unlock!vars
  <2> QED
    BY <2>1, <2>2, HeldKeeps, FailingKeeps, DrawsAssumed, DrawStepKeeps, UnlockStepKeeps DEF TokensInv
<1> QED
  BY <1>1, <1>2, <1>3, <1>4, <1>5 DEF Next

LEMMA TokensInvariant == Spec => []TokensInv
BY TokensStart, TokensStep, PTL DEF Spec

\* Every variable of the wallet, the draw and the unlock keeps its type.
THEOREM TokensTypeCorrect == Spec => []TypeOK
<1>1. TokensInv => TypeOK
  BY HeldShows, FailingShows, UnlockShows DEF TokensInv, DrawInv, TypeOK
<1> QED
  BY <1>1, TokensInvariant, PTL

\* wallet.ts: no token is handed out twice, and none handed out is still stored for a restart to
\* bring back, for any batches, callers, prices, key changes and kills, also when reads, writes
\* and removals fail.
THEOREM TokensSpentOnce == Spec => []SpentOnce
<1>1. TokensInv => SpentOnce
  BY HeldShows, FailingShows DEF TokensInv, SpentOnce
<1> QED
  BY <1>1, TokensInvariant, PTL

\* wallet.ts: an acknowledged deposit is stored until a spend takes it or a key change or a wipe
\* drops it, through any kills and any writes and removals that fail; a failed read is the only
\* other way to lose one, and while storage works there is none.  Then the list of a wallet whose
\* task chain is drained is the stored one, too.
THEOREM DepositsStayKept == Spec => []DepositKept
<1>1. TokensInv => DepositKept
  BY HeldShows, FailingShows DEF TokensInv, DepositKept
<1> QED
  BY <1>1, TokensInvariant, PTL

\* AppRuntime.ts, the retry ladder: for any epochs, accounts, attempts and switches between
\* unlocks, a card says "unavailable" exactly when the attempts were refused or exhausted, and an
\* epoch still wanted has an unlock queued or a time that the armed timer will honour.
THEOREM LadderAlwaysHonest == Spec => []LadderHonest
<1>1. TokensInv => LadderHonest
  BY UnlockShows DEF TokensInv, LadderHonest
<1> QED
  BY <1>1, TokensInvariant, PTL

\* AppRuntime.ts: of the steps that remove a marker, only the purge of a stale one, the end of a
\* request the relay refused and the end of a draw that has no marker of its own may take the
\* marker of a charged batch that is not in the wallet yet, whatever resumes time out, storage
\* fails and kills there are.
THEOREM MarkersAlwaysKept == Spec => MarkersKept
<1>1. TokensInv /\ [Next]_vars => (part = "draw" => \A s \in Slot : Draw!MarkerKept(s))
  <2> SUFFICES ASSUME TokensInv, [Next]_vars, part = "draw" PROVE \A s \in Slot : Draw!MarkerKept(s)
    OBVIOUS
  <2>1. [Draw!Next]_Draw!vars
    BY DEF Next, HeldStep, FailingStep, DrawStep, UnlockStep, vars, Draw!vars, Draw!hist
  <2> QED
    BY <2>1, DrawsAssumed, MarkerStep DEF TokensInv
<1> QED
  BY <1>1, TokensInvariant, PTL DEF Spec, MarkersKept
=============================================================================
