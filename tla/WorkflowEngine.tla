--------------------------- MODULE WorkflowEngine ---------------------------
(***************************************************************************)
(* The life of one record under the workflow engine: every way that code   *)
(* and REST clients move it (InstanceWorkflowManager of                    *)
(* workflango/models.py), and what happens around it: accounts are         *)
(* deactivated or deleted, groups change, the record's data becomes        *)
(* invalid.  Users who go through the pages are the subject of the module  *)
(* ChangeStateDialog.  Calls are atomic here; their interleaving is the    *)
(* subject of the module StateChain.  A refused call leaves everything as  *)
(* it is, and is no step; so is a call that a custom validator or an       *)
(* after_state_transition hook refuses.                                    *)
(***************************************************************************)
EXTENDS TransitionDescriptor

CONSTANTS
    Membership, \* the groups of each user, to begin with
    MaxStates,  \* bound of the history
    Unstable,   \* the users whose account or groups may change
    Deletable   \* the users an administrator may delete

ASSUME EngineAssumption ==
    /\ Membership \in [User -> SUBSET Group]
    /\ MaxStates \in Nat
    /\ Unstable \subseteq User
    /\ Deletable \subseteq User

\* Accounts exist and no record does.
Init ==
    /\ states = <<>>
    /\ member = Membership
    /\ account = [u \in User |-> "active"]
    /\ clean = "returns"

-----------------------------------------------------------------------------
(* InstanceWorkflowManager                                                 *)

\* transition(): check, insert the new State, move the pointer, link.
Perform(r, forced) ==
    /\ Len(states) < MaxStates
    /\ r.imp \in Contexts(r.user)
    /\ Passes(r)
    /\ states' = Append(states, StateOf(r, forced))
    /\ UNCHANGED <<member, account, clean>>

Create(u, imp) ==
    ~Tracked /\ Perform(Ask(u, StartPhase, u, FALSE, imp), "")

\* transition() called from code, or change_state of workflango/drf.py, with
\* any phase, owner and suspension flag.
ChangeState(u, p, o, s, imp) ==
    Tracked /\ Perform(Ask(u, p, o, s, imp), "")

ReleaseRecord(u, imp) ==
    /\ Tracked
    /\ CanRelease
    /\ Perform(Ask(u, Current.phase, NoUser, FALSE, imp), "")

RejectRecord(u, imp) ==
    /\ Len(states) > 1
    /\ Perform(Ask(u, Previous.phase, Current.user, FALSE, imp), "")

RejectToPhase(u, p, imp) ==
    /\ Tracked
    /\ \E i \in LastIn(p) : Perform(Ask(u, p, states[i].owner, FALSE, imp), "")

TakeOwnership(u, imp) ==
    /\ Tracked
    /\ ~OwnedBy(Current, u, imp)
    /\ Perform(Ask(u, Current.phase, u, FALSE, imp), "")

\* The acting user defaults to the current owner.
Assign(o, u, imp) ==
    /\ Tracked
    /\ LET actor == IF u = NoUser THEN Current.owner ELSE u
       IN  /\ actor # NoUser
           /\ Perform(Ask(actor, Current.phase, o, FALSE, imp), "")

-----------------------------------------------------------------------------
(* Around the record                                                       *)

\* delete_with_states(), once user_can_delete_error() has nothing to say:
\* the holder deletes the record together with its history.
DeleteRecord(u, imp) ==
    /\ Tracked
    /\ imp \in Contexts(u)
    /\ account[u] = "active"
    /\ OwnedBy(Current, u, imp)
    /\ states' = <<>>
    /\ clean' = "returns"
    /\ UNCHANGED <<member, account>>

\* The record, or another object or file that its clean() looks at, is edited.
DataChanges ==
    /\ Tracked
    /\ clean' \in CleanOutcome \ {clean}
    /\ UNCHANGED <<states, member, account>>

ToggleActive(u) ==
    /\ u \in Unstable
    /\ account[u] # "deleted"
    /\ account' = [account EXCEPT ![u] = IF @ = "active" THEN "inactive" ELSE "active"]
    /\ UNCHANGED <<states, member, clean>>

ChangeGroups(u, groups) ==
    /\ u \in Unstable
    /\ groups # member[u]
    /\ member' = [member EXCEPT ![u] = groups]
    /\ UNCHANGED <<states, account, clean>>

\* owner and user are PROTECTed, impersonated_by is SET_NULL: an account that
\* only ever acted as others can be deleted, and its name disappears.
DeleteAccount(u) ==
    /\ u \in Deletable
    /\ account[u] # "deleted"
    /\ \A i \in DOMAIN states : u \notin {states[i].owner, states[i].user}
    /\ account' = [account EXCEPT ![u] = "deleted"]
    /\ member' = [member EXCEPT ![u] = {}]
    /\ states' = [i \in DOMAIN states |->
                    IF states[i].imp = u THEN [states[i] EXCEPT !.imp = NoUser] ELSE states[i]]
    /\ UNCHANGED clean

Moves ==
    \E u \in User, imp \in Owner :
        \/ Create(u, imp)
        \/ \E p \in Phase, o \in Owner, s \in BOOLEAN : ChangeState(u, p, o, s, imp)
        \/ ReleaseRecord(u, imp)
        \/ RejectRecord(u, imp)
        \/ \E p \in Phase : RejectToPhase(u, p, imp)
        \/ TakeOwnership(u, imp)
        \/ \E o \in Owner : Assign(o, u, imp) \/ Assign(o, NoUser, imp)

Around ==
    \/ \E u \in User, imp \in Owner : DeleteRecord(u, imp)
    \/ DataChanges
    \/ \E u \in User : ToggleActive(u) \/ DeleteAccount(u)
    \/ \E u \in User, groups \in SUBSET Group : ChangeGroups(u, groups)

Next == Moves \/ Around

Spec == Init /\ [][Next]_vars
=============================================================================
