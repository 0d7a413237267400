-------------------------- MODULE MCBitswapEngine --------------------------
(***************************************************************************)
(* Instances of BitswapEngine for TLC: two peers, two blocks.              *)
(***************************************************************************)
EXTENDS BitswapEngine, TLC

CONSTANTS a, b, x, y, w1, w2

\* One block is there from the start and may go, the other may come.
MCStores == {{x}}

=============================================================================
