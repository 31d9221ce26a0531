------------------------------ MODULE MCWallet ------------------------------
(* Small instances of Wallet: two batches of three tokens in all, drawn under *)
(* the first of two keys.                                                     *)
EXTENDS Wallet, TLC

CONSTANTS w1, w2, c1, c2, b1, b2, t1, t2, t3, k1, k2

MCBatchTokens == (b1 :> <<t1, t2>>) @@ (b2 :> <<t3>>)
MCKeyOf == (t1 :> k1) @@ (t2 :> k1) @@ (t3 :> k1)
============================================================================
