------------------------- MODULE MCMembershipStore -------------------------
(* Small instances of MembershipStore: two devices, two events of two tokens *)
(* that share one, which is also a credential; t3 is spent in an older file. *)
EXTENDS MembershipStore, TLC

CONSTANTS p1, p2, t1, t2, t3, e1, e2

MCTokensOf == (e1 :> <<t1, t2>>) @@ (e2 :> <<t2, t3>>)
============================================================================
