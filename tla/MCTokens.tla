------------------------------ MODULE MCTokens ------------------------------
(***************************************************************************)
(* The member's tokens with two callers, two batches of three tokens, a    *)
(* change of key, two drawn batches and two epochs.                        *)
(***************************************************************************)
EXTENDS Tokens, TLC

CONSTANTS
    c1, c2, b1, b2, t1, t2, t3, k1, n1, n2, e1, e2, x, y

\* Two batches of three tokens in all, drawn under the first of two keys; of two where storage
\* may fail.
TokensOf == (b1 :> <<t1, t2>>) @@ (b2 :> <<t3>>)
FailingTokensOf == (b1 :> <<t1>>) @@ (b2 :> <<t3>>)
KeyOfToken == (t1 :> k1) @@ (t2 :> k1) @@ (t3 :> k1)

\* Two epochs; account y is refused what account x may read.
Sealed == (x :> {e1, e2}) @@ (y :> {e2})
Readable == (x :> {e1, e2}) @@ (y :> {})

\* The callers of the wallet, and the batches of the draw, are alike.
Symmetry == Permutations({c1, c2}) \cup Permutations({n1, n2})
=============================================================================
