--------------------------- MODULE WorkflowConfig ---------------------------
(***************************************************************************)
(* The configuration that configure_workflow() builds for a model          *)
(* (workflango/wf_config.py), as far as the transition engine consults it: *)
(* who may edit and administer a phase, which phases it reaches, and the   *)
(* reject transitions that are added to the declared ones.  Captions,      *)
(* descriptions, free properties and snapshots are left out.               *)
(***************************************************************************)
EXTENDS Naturals, Sequences, FiniteSets

CONSTANTS
    Group,       \* the group names of settings.WF_USERS_GROUPS
    PhaseOrder,  \* _model_phases: the phases in the order of their declaration
    Declared     \* the phase configurations given to configure_workflow()

Phase == {PhaseOrder[i] : i \in DOMAIN PhaseOrder}

\* Records not yet in the workflow reach only the first declared phase.
StartPhase == PhaseOrder[1]

ReleaseMode == {"no", "always", "strict"}

\* 'allow-reject' of a declared transition: True, False or 'admin'.
RejectMode == {"yes", "no", "admin"}

\* 'owner_mode': who is to own the record in the destination phase.
OwnerModes == {"none", "user", "last_owner", "assign", "assign-optional"}

TransitionConf ==
    [reject : BOOLEAN, groups : SUBSET Group, allowReject : RejectMode, mode : OwnerModes]

IsPhaseConf(c) ==
    /\ c.edit \subseteq Group
    /\ c.admin \subseteq Group
    /\ c.release \in ReleaseMode
    /\ c.delegate \in BOOLEAN
    /\ DOMAIN c.reach \subseteq Phase
    /\ \A p \in DOMAIN c.reach : c.reach[p] \in TransitionConf

\* What WorkflowConfig.check() enforces of the keys above: declared groups,
\* known phases as destinations, allow_release and allow_delegate in range.
ASSUME ConfigAssumption ==
    /\ 1 \in DOMAIN PhaseOrder
    /\ \A p \in Phase : IsPhaseConf(Declared[p])

-----------------------------------------------------------------------------
DeclaredReach(p) == DOMAIN Declared[p].reach

\* The sources a for which _autoconfig_reject_transitions() gives phase b a
\* way back: a declares a -> b, does not forbid its reject, and b does not
\* declare its own transition to a.  An added entry never makes another one,
\* since the transition it mirrors is already there: the order of the loop
\* does not matter.
AutoRejects == [b \in Phase |->
    {a \in Phase : /\ b \in DeclaredReach(a)
                   /\ Declared[a].reach[b].allowReject # "no"
                   /\ a \notin DeclaredReach(b)}]

Reach(p) == DeclaredReach(p) \cup AutoRejects[p]

\* config[p]['reachable_phases'][q], for q in Reach(p).
TransitionOf(p, q) ==
    IF q \in DeclaredReach(p)
    THEN Declared[p].reach[q]
    ELSE [reject |-> TRUE,
          groups |-> IF Declared[q].reach[p].allowReject = "admin"
                     THEN Declared[p].admin ELSE {},
          allowReject |-> "yes",
          mode |-> "none"]
=============================================================================
