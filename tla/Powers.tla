------------------------------- MODULE Powers -------------------------------
(***************************************************************************)
(* The powers of two: what a number is shifted by, and the sizes of        *)
(* complete binary trees.  They are written as a recursive function, about *)
(* which there is something to prove.                                      *)
(***************************************************************************)
EXTENDS Integers

Two[d \in Nat] == IF d = 0 THEN 1 ELSE 2 * Two[d - 1]
=============================================================================
