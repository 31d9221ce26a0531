------------------------------ MODULE MCGroups ------------------------------
(* Small instances of Groups: three interchangeable users, one group.        *)
EXTENDS Groups, TLC

UserSymmetry == Permutations(User)
=============================================================================
