------------------------------ MODULE MCClient ------------------------------
(***************************************************************************)
(* The member's app, each component under the overlaps and failures that   *)
(* its properties are about.                                               *)
(***************************************************************************)
EXTENDS Client, TLC

CONSTANTS
    post, b1, note, d1, d2, w1, w2, north, south, a1, a2, z1, c1, u, v, NoOne

\* The two blobs of one post are alike.
Symmetry == Permutations({d1, d2})

OnePost == [
    Event |-> {post, b1}, DependsOn |-> (post :> {b1}) @@ (b1 :> {}), MaxResend |-> 1,
    MaxKill |-> 1, MemberActs |-> TRUE, EarlyFlush |-> FALSE, RelayVerdicts |-> {"no", "later"}]

\* A post with one blob, a relay that says no, not now or nothing, and a kill; one with two blobs;
\* and one with one blob and connections that come up at any time.
TheBoxes == {
    OnePost,
    [Event |-> {note, d1, d2}, DependsOn |-> (note :> {d1, d2}) @@ (d1 :> {}) @@ (d2 :> {}),
     MaxResend |-> 0, MaxKill |-> 0, MemberActs |-> FALSE, EarlyFlush |-> FALSE,
     RelayVerdicts |-> {"later"}],
    [OnePost EXCEPT !.MaxResend = 0, !.MemberActs = FALSE, !.EarlyFlush = TRUE]}

\* A write of each of two accounts and switches between them; two writes with media of one
\* account; and a write with media and kills.
TheQueues == {
    [Write |-> {w1, w2}, Account |-> {north, south}, Owner |-> (w1 :> north) @@ (w2 :> south),
     HasBlobs |-> FALSE, MaxRun |-> 3, MaxKill |-> 0, MaxSwitch |-> 2],
    [Write |-> {w1, w2}, Account |-> {north}, Owner |-> (w1 :> north) @@ (w2 :> north),
     HasBlobs |-> TRUE, MaxRun |-> 3, MaxKill |-> 0, MaxSwitch |-> 0],
    [Write |-> {w1}, Account |-> {north}, Owner |-> w1 :> north, HasBlobs |-> TRUE,
     MaxRun |-> 3, MaxKill |-> 4, MaxSwitch |-> 0]}

Device == [
    Slot |-> {a1, a2, z1}, Community |-> {north, south},
    Home |-> (a1 :> north) @@ (a2 :> north) @@ (z1 :> south), None |-> NoOne,
    Patient |-> TRUE, Overlap |-> FALSE, MaxSwitch |-> 1, MaxKill |-> 1]

\* Two accounts of one community and one of another, a switch and a kill; an account of each of
\* two communities, left while a switch is under way; and three accounts without a kill.
TheRings == {
    Device,
    [Device EXCEPT !.Slot = {a1, z1}, !.Home = (a1 :> north) @@ (z1 :> south), !.Overlap = TRUE],
    [Device EXCEPT !.MaxKill = 0]}

\* Overlapping writes, a switch under way and a kill; and every kind of write, one call at a time.
TheLists == {
    [Community |-> {north, south}, Kinds |-> {"labels", "known", "blocked"}, MaxWrite |-> 3,
     MaxAtOnce |-> 2, MidSwitch |-> TRUE, MaxSwitch |-> 1, MaxKill |-> 1],
    [Community |-> {north, south}, Kinds |-> {"labels", "org", "known", "user", "blocked"},
     MaxWrite |-> 3, MaxAtOnce |-> 1, MidSwitch |-> FALSE, MaxSwitch |-> 2, MaxKill |-> 0]}

\* Overlapping calls of connect, disconnect and the rest; one call at a time; and two credentials.
TheManagers == {
    [Cred |-> {c1}, MaxCall |-> 3, MaxBoot |-> 1, MaxInstall |-> 1, Overlap |-> TRUE],
    [Cred |-> {c1}, MaxCall |-> 3, MaxBoot |-> 1, MaxInstall |-> 1, Overlap |-> FALSE],
    [Cred |-> {u, v}, MaxCall |-> 3, MaxBoot |-> 0, MaxInstall |-> 0, Overlap |-> FALSE]}

\* A rung that fails and two that may be condemned.
TheLadders == {
    [Fails |-> {3}, Condemnable |-> {1, 2}, Good |-> {}, Acts |-> {"drop", "escalate", "network"},
     MaxAct |-> 3, QuickConnect |-> FALSE]}
=============================================================================
