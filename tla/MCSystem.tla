------------------------------ MODULE MCSystem ------------------------------
(***************************************************************************)
(* An instance of the composition for TLC.                                 *)
(***************************************************************************)
EXTENDS System

OneMiner == {Conn}
=============================================================================
