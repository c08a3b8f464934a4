------------------------- MODULE MCWorkflowVersion --------------------------
(***************************************************************************)
(* A workflow of at most two phases, with one handler and one text, a      *)
(* cosmetic key and another, for TLC.                                      *)
(***************************************************************************)
EXTENDS WorkflowVersion

MCVersions == {<<0, 9, 0>>, <<1, 0, 1>>, <<1, 1, 0>>, <<2, 0, 0>>}
=============================================================================
