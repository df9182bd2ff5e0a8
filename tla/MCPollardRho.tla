----------------------------- MODULE MCPollardRho -----------------------------
(* The group of 7 = 2 * 3 + 1 with the generator 3, and header hashes that *)
(* are affine in the nonce.                                                *)
EXTENDS PollardRho

AffineHashes ==
    {[w \in 1..6 |-> (c * w + d) % 7] : c \in 0..6, d \in 0..6}

(* Distinguished by nonce and work as hash_encode is; all of them; none.   *)
SomePoints ==
    {{pt \in (1..6) \X (1..6) : (pt[1] + pt[2]) % 3 = 0}, (1..6) \X (1..6), {}}
=============================================================================
