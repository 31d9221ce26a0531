---------------------------- MODULE MCGroupGuard ----------------------------
(* Small instances of GroupGuard: two users and two handlers on one group    *)
(* with one post.                                                            *)
EXTENDS GroupGuard, TLC

MCSymmetry == Permutations(User) \cup Permutations(Handler)
=============================================================================
