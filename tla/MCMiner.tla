------------------------------ MODULE MCMiner ------------------------------
(***************************************************************************)
(* Instances of the CPU miner for TLC.                                     *)
(***************************************************************************)
EXTENDS Miner, TLC

CONSTANTS w1, w2, w3

Two   == {w1, w2}
Three == {w1, w2, w3}

\* The threads run the same code and main treats them alike.
Threads == Permutations(Workers)
=============================================================================
