-------------------------- MODULE MCWorkflowEngine --------------------------
(***************************************************************************)
(* Small instances of the engine.  The desk: two phases, release and       *)
(* delegation set differently in each; an editor of both, an editor of the *)
(* first only, and an admin of both who may act as anyone.  The office:    *)
(* three phases, of which the last sends back to both others, and an admin *)
(* of the first phase who is an ordinary editor, without admins above him, *)
(* in the second.                                                          *)
(***************************************************************************)
EXTENDS EngineProperties

CONSTANTS ed, ann, adm

MCGroup == {"eds", "anns", "adms"}
MCPhaseOrder == <<"draft", "review">>
MCUser == {ed, ann, adm}
MCUsername == [u \in MCUser |-> CASE u = adm -> 1 [] u = ann -> 2 [] u = ed -> 3]
MCImpersonator == {adm}
MCMembership == [u \in MCUser |-> CASE u = ed -> {"eds"}
                                    [] u = ann -> {"anns"}
                                    [] u = adm -> {"adms"}]

MCTo(groups, allowReject, mode) ==
    [reject |-> FALSE, groups |-> groups, allowReject |-> allowReject, mode |-> mode]

MCDeclared ==
    [draft |-> [edit |-> {"eds", "anns"}, admin |-> {"adms"}, release |-> "strict",
                delegate |-> TRUE, reach |-> [review |-> MCTo({}, "yes", "assign")]],
     review |-> [edit |-> {"eds"}, admin |-> {"adms"}, release |-> "no",
                 delegate |-> FALSE, reach |-> <<>>]]

-----------------------------------------------------------------------------
OfficeGroup == {"eds", "adms"}
OfficePhaseOrder == <<"draft", "review", "done">>
OfficeMembership == [u \in MCUser |-> IF u = adm THEN {"adms"} ELSE {"eds"}]

OfficeDeclared ==
    [draft |-> [edit |-> {"eds"}, admin |-> {"adms"}, release |-> "strict", delegate |-> TRUE,
                reach |-> [review |-> MCTo({}, "yes", "assign"), done |-> MCTo({"adms"}, "yes", "assign-optional")]],
     review |-> [edit |-> {"adms"}, admin |-> {}, release |-> "no", delegate |-> FALSE,
                 reach |-> [done |-> MCTo({}, "no", "last_owner")]],
     done |-> [edit |-> {"eds", "adms"}, admin |-> {}, release |-> "always", delegate |-> TRUE,
               reach |-> <<>>]]
=============================================================================
