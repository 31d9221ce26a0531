---------------------------- MODULE MCOrganizer -----------------------------
(***************************************************************************)
(* The organizer with two or three concurrent requests per component.      *)
(***************************************************************************)
EXTENDS Organizer, TLC

CONSTANTS
    alice, bob, k1, a1, a2, b1, s1, t1, t2, q1, q2, q3

\* Two purposes on one key.  Alice posts and reads, Bob posts, and one request is blinded
\* under a key of the past.
Asked(c, purpose, size, current, auth) ==
    [cred |-> c, valid |-> TRUE, purpose |-> purpose, size |-> size, current |-> current,
     auth |-> auth]
Bodies ==
    (a1 :> Asked(alice, "post", 2, TRUE, -1)) @@ (a2 :> Asked(alice, "read", 1, TRUE, 1))
    @@ (b1 :> Asked(bob, "post", 2, TRUE, -1)) @@ (s1 :> Asked(bob, "read", 1, FALSE, -1))
SharedKey == ("post" :> k1) @@ ("read" :> k1)

\* A file of before the buckets, in which Alice has drawn a batch today.
OldFile ==
    (alice :> (1 :> [shape |-> "pooled", state |-> [used |-> 2, seen |-> {a1}]]))
    @@ (bob :> << >>)

\* Two unlock requests with one token.
TokenOfRequest == (q1 :> t1) @@ (q2 :> t1) @@ (q3 :> t2)
=============================================================================
