---------------------------- MODULE MCController ----------------------------
(***************************************************************************)
(* Instances of the controller for TLC.                                    *)
(***************************************************************************)
EXTENDS Controller, TLC

CONSTANTS c1, c2

OneMiner    == {c1}
TwoMiners   == {c1, c2}

\* Connections differ in nothing but the order in which they are accepted.
Miners == Permutations(Conns)
=============================================================================
