------------------------ MODULE MCChangeStateDialog -------------------------
(***************************************************************************)
(* Instances of the dialog, at the desk and in the office of               *)
(* MCWorkflowEngine, there also with two admins of whom one may act as the *)
(* other.                                                                  *)
(***************************************************************************)
EXTENDS MCWorkflowEngine, DialogProperties

AdminsMembership == [u \in MCUser |-> IF u = ed THEN {"eds"} ELSE {"adms"}]
=============================================================================
