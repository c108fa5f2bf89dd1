-------------------------- MODULE MCRevealService ---------------------------
(***************************************************************************)
(* A fork at height 2.  Reference r1 is minted after it, on both sides:    *)
(* revealed in the very block of its commit on the a-side, a block later   *)
(* on the b-side.  Reference r2 is minted in g1 and revealed in b2 only.   *)
(***************************************************************************)
EXTENDS RevealService, TLC

CONSTANTS g1, a2, a3, b2, b3, b4, r1, r2

RequestSymmetry == Permutations(Requests)

ForkBlocks == {g1, a2, a3, b2, b3, b4}
ForkChains == {<<g1>>, <<g1, a2>>, <<g1, a2, a3>>, <<g1, b2, b3, b4>>}
ForkMints == [b \in ForkBlocks |-> IF b = g1 THEN {r2} ELSE IF b \in {a2, b2} THEN {r1} ELSE {}]
ForkReveals == [b \in ForkBlocks |-> IF b \in {a2, b3} THEN {r1} ELSE IF b = b2 THEN {r2} ELSE {}]
=============================================================================
