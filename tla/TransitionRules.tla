--------------------------- MODULE TransitionRules --------------------------
(***************************************************************************)
(* The state of one workflow record and the rules that decide about a      *)
(* transition: State's predicates, InstanceWorkflowManager's permission    *)
(* checks, transition_allowed() and get_transition_type() of               *)
(* workflango/models.py.                                                   *)
(*                                                                         *)
(* The history of the record is the sequence of its State rows: the last   *)
(* one is the current state (next_state is None), the one before it is its *)
(* previous_state.  That the rows form such a sequence is the subject of   *)
(* the module StateChain.                                                  *)
(***************************************************************************)
EXTENDS WorkflowConfig

CONSTANTS
    User,         \* the accounts
    NoUser,       \* None as an owner or as an impersonator
    Username,     \* the order of the user names, by which users are listed
    Impersonator  \* who get_impersonable_users() lets act as another user

ASSUME UserAssumption ==
    /\ NoUser \notin User
    /\ Username \in [User -> Nat]
    /\ Impersonator \subseteq User

VARIABLES
    states,   \* the State rows of the record, oldest first; <<>>: untracked
    member,   \* the groups of each user
    account,  \* user.is_active, or "deleted"
    clean     \* how full_clean() of the record ends

vars == <<states, member, account, clean>>

Owner == User \cup {NoUser}

\* It returns, or raises an exception of one of the two classes that _transition()
\* tells apart, or any other.
CleanOutcome == {"returns", "ValidationError", "FileNotFoundError", "Exception"}

Valid == clean = "returns"

Kinds == {"new", "suspend", "resubmit", "reject", "change", "change_assign", "release",
          "impersonate", "reclaim", "resume", "snatch", "take", "assign", "reassign",
          "delegate", "undefined"}

StateRow == [phase : Phase, owner : Owner, user : User, imp : Owner,
             suspended : BOOLEAN, kind : Kinds]

\* The arguments of a call of transition(): the acting identity, the target
\* phase and owner, the suspension flag and the real actor, if impersonating.
Ask(u, p, o, s, imp) == [user |-> u, phase |-> p, owner |-> o, suspended |-> s, imp |-> imp]

Contexts(u) == {NoUser} \cup {a \in Impersonator \ {u} : account[a] = "active"}

Tracked == states # <<>>
Current == states[Len(states)]
Previous == states[Len(states) - 1]

\* find_last_state(): the nearest earlier state with the phase.
LastIn(p) == {i \in 1..(Len(states) - 1) :
                /\ states[i].phase = p
                /\ \A j \in (i + 1)..(Len(states) - 1) : states[j].phase # p}

-----------------------------------------------------------------------------
(* Permissions                                                             *)

InGroups(u, groups) == member[u] \cap groups # {}
IsEditor(u, p) == InGroups(u, Declared[p].edit)
IsAdmin(u, p) == InGroups(u, Declared[p].admin)
Qualified(u, p) == IsEditor(u, p) \/ IsAdmin(u, p)

\* 'a' and 'e' in user_permissions(): admin groups imply edit permission.
CanAdmin(u) == IsAdmin(u, Current.phase)
CanEdit(u) == Qualified(u, Current.phase)

\* owner_impersonated_by: the context in which the owner holds the state.
HolderContext(st) ==
    IF st.owner # NoUser /\ st.owner = st.user THEN st.imp ELSE NoUser

\* Mutant: whoever acts as the owner counts as the owner.
OwnedByIdentity(st, u, imp) == st.owner = u

OwnedBy(st, u, imp) == st.owner = u /\ HolderContext(st) = imp

\* Mutant: 'strict' treated as 'always'.
CanReleaseLoosely ==
    ~Current.suspended /\ Declared[Current.phase].release # "no" /\ Current.owner # NoUser

CanRelease ==
    /\ ~Current.suspended
    /\ Declared[Current.phase].release # "no"
    /\ Current.owner # NoUser
    /\ \/ Declared[Current.phase].release = "always"
       \/ CanAdmin(Current.owner)
       \/ Current.kind \notin {"delegate", "assign", "change_assign", "reassign"}

CanReject == Current.kind \in {"assign", "reassign", "change_assign", "delegate", "resubmit"}

CanDelegate ==
    /\ ~Current.suspended
    /\ Declared[Current.phase].delegate \/ CanAdmin(Current.owner)

-----------------------------------------------------------------------------
(* transition_allowed()                                                    *)

BothActive(r) ==
    /\ account[r.user] = "active"
    /\ r.owner # NoUser => account[r.owner] = "active"

\* A record enters the workflow in the first phase, owned by whoever creates it.
CreateAllowed(r) ==
    /\ BothActive(r)
    /\ r.user = r.owner
    /\ ~r.suspended
    /\ r.phase = StartPhase
    /\ Qualified(r.user, StartPhase)

\* Mutant: the owner is compared with who moved the record last.
IsChangeOfActor(r) ==
    \/ r.phase # Current.phase
    \/ r.owner # Current.user
    \/ r.suspended # Current.suspended
    \/ r.imp # HolderContext(Current)

\* Something must change: phase, owner, suspension or the owner's context.
IsChange(r) ==
    \/ r.phase # Current.phase
    \/ r.owner # Current.owner
    \/ r.suspended # Current.suspended
    \/ r.imp # HolderContext(Current)

\* Mutant: the phase may change as well.
SuspensionAnyPhase(r) ==
    OwnedBy(Current, r.user, r.imp) \/ (~r.suspended /\ CanAdmin(r.user))

\* Suspending and resuming: this branch returns before the checks of
\* OrdinaryAllowed are reached.
SuspensionAllowed(r) ==
    /\ r.phase = Current.phase
    /\ \/ OwnedBy(Current, r.user, r.imp)
       \/ ~r.suspended /\ CanAdmin(r.user)

\* Mutants: nothing for the owner who is not the holder; everything for him; a
\* record without an owner needs an admin.
RoleWithoutReclaim(r) ==
    \/ OwnedBy(Current, r.user, r.imp)
    \/ r.phase = Current.phase /\ CanAdmin(r.user)
    \/ r.phase = Current.phase /\ Current.owner = NoUser /\ r.user = r.owner
RoleByIdentity(r) ==
    \/ OwnedBy(Current, r.user, r.imp)
    \/ r.phase = Current.phase /\ (CanAdmin(r.user) \/ r.user = Current.owner)
    \/ r.phase = Current.phase /\ Current.owner = NoUser /\ r.user = r.owner
RoleFreeByAdmin(r) ==
    \/ OwnedBy(Current, r.user, r.imp)
    \/ r.phase = Current.phase /\ (CanAdmin(r.user) \/ (r.user = r.owner /\ r.owner = Current.owner))

RoleAllows(r) ==
    IF r.phase # Current.phase
    THEN OwnedBy(Current, r.user, r.imp)
    ELSE IF Current.owner # NoUser
    THEN \/ CanAdmin(r.user)
         \/ OwnedBy(Current, r.user, r.imp)
         \/ r.user = r.owner /\ r.owner = Current.owner   \* reclaiming_own_identity
    ELSE r.user = r.owner \/ CanAdmin(r.user)

IsHandOver(r) ==
    /\ r.phase = Current.phase
    /\ Current.owner # NoUser
    /\ r.owner \notin {NoUser, Current.owner}

DelegationAllowed(r) == IsHandOver(r) => CanDelegate \/ CanAdmin(r.user)

\* 'allowed_groups' of the transition; an empty list restricts nothing.
GateOpen(u, p, q) ==
    q \in Reach(p) => \/ TransitionOf(p, q).groups = {}
                      \/ InGroups(u, TransitionOf(p, q).groups)

PhaseAllowed(r) ==
    /\ r.phase \in Reach(Current.phase) \cup {Current.phase}
    /\ GateOpen(r.user, Current.phase, r.phase)

\* Mutant: the new owner is looked up in the phase the record leaves.
NewOwnerInSource(r) ==
    IF r.owner = NoUser THEN Declared[r.phase].release # "no" ELSE Qualified(r.owner, Current.phase)

NewOwnerAllowed(r) ==
    IF r.owner = NoUser THEN Declared[r.phase].release # "no" ELSE Qualified(r.owner, r.phase)

OrdinaryAllowed(r) ==
    RoleAllows(r) /\ DelegationAllowed(r) /\ PhaseAllowed(r) /\ NewOwnerAllowed(r)

MoveAllowed(r) ==
    /\ BothActive(r)
    /\ ~(Current.suspended /\ r.suspended)
    /\ IsChange(r)
    /\ IF r.suspended # Current.suspended THEN SuspensionAllowed(r) ELSE OrdinaryAllowed(r)

\* Mutant: the engine waives what the page waives (check_transition_is_valid()).
WaivedAsByPage(r) ==
    /\ clean = "ValidationError"
    /\ Tracked /\ r.user = r.owner /\ r.phase = Current.phase /\ CanAdmin(r.user)

\* _transition() ignores two kinds of errors of full_clean() for an admin of the
\* phase who makes himself the owner without leaving it; all others it raises.
Waived(r) ==
    /\ clean \in {"ValidationError", "FileNotFoundError"}
    /\ Tracked /\ r.user = r.owner /\ r.phase = Current.phase /\ CanAdmin(r.user)

\* Everything _transition() checks before it writes, custom validators apart.
Passes(r) ==
    /\ Valid \/ Waived(r)
    /\ IF Tracked THEN MoveAllowed(r) ELSE CreateAllowed(r)

-----------------------------------------------------------------------------
(* get_transition_type()                                                   *)

\* The record goes back to who handed it over, in the phase it came from.
IsReturn(r) ==
    /\ Len(states) > 1
    /\ r.owner = Current.user
    /\ r.user = Current.owner
    /\ r.phase = Previous.phase

\* Mutant: a change of context is labelled as a resumption.
HeldAlwaysResumes(r) == "resume"

\* Same owner and actor as before: only context or suspension has changed.
HeldKind(r) ==
    CASE r.imp # NoUser /\ r.imp # HolderContext(Current) -> "impersonate"
      [] r.imp = NoUser /\ HolderContext(Current) # NoUser -> "reclaim"
      [] OTHER -> "resume"

SamePhaseKind(r) ==
    CASE r.owner = NoUser -> "release"
      [] r.owner = r.user /\ Current.owner = NoUser -> "take"
      [] r.owner = r.user /\ Current.owner = r.user -> HeldKind(r)
      [] r.owner = r.user /\ Current.owner \notin {NoUser, r.user} -> "snatch"
      [] r.owner \notin {NoUser, r.user, Current.owner} ->
            (CASE r.user = Current.owner -> "delegate"
               [] Current.owner = NoUser -> "assign"
               [] OTHER -> "reassign")
      [] OTHER -> "undefined"

ComputedKind(r) ==
    CASE ~Tracked -> "new"
      [] Tracked /\ r.suspended -> "suspend"
      [] Tracked /\ ~r.suspended /\ IsReturn(r) /\ Current.kind = "reject" -> "resubmit"
      [] /\ Tracked /\ ~r.suspended /\ IsReturn(r)
         /\ Current.kind \in {"delegate", "change_assign", "assign", "reassign", "resubmit"}
         -> "reject"
      [] OTHER -> IF r.phase = Current.phase THEN SamePhaseKind(r)
                  ELSE IF r.owner = NoUser THEN "change" ELSE "change_assign"

\* Mutant: the row is saved with the forced kind, even if there is none.
KindAsForced(r, forced) == forced

\* force_transition_type first, then the 'reject' flag of the transition.
KindOf(r, forced) ==
    IF forced # "" THEN forced
    ELSE IF Tracked /\ r.phase # Current.phase /\ TransitionOf(Current.phase, r.phase).reject
    THEN "reject"
    ELSE ComputedKind(r)

StateOf(r, forced) ==
    [phase |-> r.phase, owner |-> r.owner, user |-> r.user, imp |-> r.imp,
     suspended |-> r.suspended, kind |-> KindOf(r, forced)]

=============================================================================
