---------------------------- MODULE MCStateChain ----------------------------
(***************************************************************************)
(* Instances of the stored history for TLC.  Requests are interchangeable, *)
(* which the runs that check no liveness use.                              *)
(***************************************************************************)
EXTENDS ChainProperties, TLC

Symmetry == Permutations(Request)
=============================================================================
