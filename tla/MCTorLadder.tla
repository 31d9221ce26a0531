---------------------------- MODULE MCTorLadder -----------------------------
(* Instances of TorLadder: the four rungs of the code. *)
EXTENDS TorLadder
=============================================================================
