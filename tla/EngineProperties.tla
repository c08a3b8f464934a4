-------------------------- MODULE EngineProperties --------------------------
(***************************************************************************)
(* What the workflow engine promises about one record.  The properties are *)
(* about pairs of states, about who may do what from a state that a whole  *)
(* history led to, and about what the pages offer compared with what the   *)
(* engine accepts.                                                         *)
(***************************************************************************)
EXTENDS WorkflowEngine

TypeOK ==
    /\ states \in Seq(StateRow)
    /\ Len(states) <= MaxStates
    /\ member \in [User -> SUBSET Group]
    /\ account \in [User -> {"active", "inactive", "deleted"}]
    /\ clean \in CleanOutcome

\* A transition of a record that has a history; Newest' is the state it adds.
Newest == states[Len(states)]
Transits == Tracked /\ Len(states') > Len(states)

-----------------------------------------------------------------------------
(* Who may act                                                             *)

\* Whatever the order of calls, and whoever is deleted later, each change of
\* phase was made by the user who held the record, in the context in which he
\* held it: an administrator acting as somebody else had to take the record
\* first, and it shows in the history (State.owned_by, models.py 274-288).
PhaseMovesByHolder ==
    \A i \in 2..Len(states) :
        states[i].phase # states[i - 1].phase =>
            /\ states[i].user = states[i - 1].owner
            /\ states[i].imp = HolderContext(states[i - 1])
            /\ ~states[i - 1].suspended

\* Nobody takes a record away: the owner changes only when the holder, in his
\* own context, or an administrator of the phase hands it over
\* (transition_allowed, models.py 796-835).
OwnerLetsGo ==
    [][Transits /\ Current.owner # NoUser /\ Newest'.owner # Current.owner
         => OwnedBy(Current, Newest'.user, Newest'.imp) \/ CanAdmin(Newest'.user)]_vars

\* A record that is suspended stays where it is until it is resumed: no
\* history holds a change of phase out of a suspension, or two suspensions in a
\* row, whichever of the entry points was used (models.py 762-769, 796-805).
SuspendedFrozen ==
    \A i \in 2..Len(states) :
        states[i - 1].suspended =>
            ~states[i].suspended /\ states[i].phase = states[i - 1].phase

\* Whoever receives a record can work on it: a new owner is in the edit or
\* admin groups of the phase he gets the record in ("otherwise the record will
\* not be editable by its owner", models.py 851-857).
HandOversReachEditors ==
    [][Transits /\ Newest'.owner \notin {NoUser, Current.owner}
         => Qualified(Newest'.owner, Newest'.phase)]_vars

\* Where allow_release is 'strict', the owner of a record that somebody gave him
\* does not release it without having taken it first, unless he is an admin
\* (docs/wf-configuration.md 92; can_release, models.py 233-250).
StrictReleaseHonoured ==
    [][/\ Transits
       /\ Newest'.kind = "release"
       /\ Declared[Current.phase].release = "strict"
       /\ Newest'.user = Current.owner
       /\ ~CanAdmin(Current.owner)
       => Current.kind \notin {"delegate", "assign", "change_assign", "reassign"}]_vars

-----------------------------------------------------------------------------
(* Records never get stuck                                                 *)

Rescues(a) == Ask(a, Current.phase, a, FALSE, NoUser)

\* An active admin of the current phase can always get the record in his own
\* hands in one step: whoever owns it, in whatever context, suspended or not,
\* and even if the record no longer validates or a file of it is gone (models.py
\* 796-825, 950-957).  Not so when full_clean() fails in any other way, which
\* stops him as it does everybody, nor where a transition of the phase to itself
\* is declared and kept from him by its allowed_groups.
AdminCanRecover ==
    Tracked /\ clean # "Exception" =>
        \A a \in User :
            account[a] = "active" /\ CanAdmin(a) /\ GateOpen(a, Current.phase, Current.phase)
                => (OwnedBy(Current, a, NoUser) /\ ~Current.suspended) \/ Passes(Rescues(a))

\* u, acting in the context imp, holds the record or may claim it.
HoldsOrClaims(u, imp) ==
    OwnedBy(Current, u, imp) \/ Passes(Ask(u, Current.phase, u, FALSE, imp))

\* Whoever owns the record, acting in person or through any impersonator, can
\* take it over from the one who has claimed it in his name: "always allowed,
\* without needing group membership", as the engine says of it (models.py
\* 815-824).
OwnerCanReclaim ==
    Tracked /\ Valid /\ ~Current.suspended =>
        \A u \in User : \A imp \in Contexts(u) :
            account[u] = "active" /\ Current.owner = u => HoldsOrClaims(u, imp)

\* The same of an owner who is still in an edit or admin group of the phase, and
\* not kept out by the allowed_groups of a transition of the phase to itself:
\* the engine asks these of him too, a few lines further on (models.py 839-857).
\* While the record is suspended only who holds it or an admin can act on it.
EditorCanReclaim ==
    Tracked /\ Valid /\ ~Current.suspended =>
        \A u \in User : \A imp \in Contexts(u) :
            /\ account[u] = "active"
            /\ Current.owner = u
            /\ CanEdit(u)
            /\ GateOpen(u, Current.phase, Current.phase)
            => HoldsOrClaims(u, imp)

\* Without a suspension, a record without an owner is within reach of every
\* active editor of its phase (models.py 826-828).
FreeCanBeTaken ==
    Tracked /\ Valid /\ Current.owner = NoUser /\ ~Current.suspended =>
        \A u \in User :
            /\ account[u] = "active"
            /\ CanEdit(u)
            /\ GateOpen(u, Current.phase, Current.phase)
            => Passes(Rescues(u))

-----------------------------------------------------------------------------
(* The pages and the engine agree                                          *)

\* Every command that a page offers, with any owner its form lists, is accepted
\* by the engine when it comes: as long as the record validates and the account
\* that would own it may still work in the phase (wf_transition.py 421-495 and
\* workflow_buttons.html against models.py 742-862).  Picking the owner the
\* record has already, which the form may list by mistake, is not a promise of
\* the page.
OfferedIsAllowed ==
    Tracked /\ Valid =>
        \A pack \in Packs, c \in Commands, u \in User : \A imp \in Contexts(u) :
            \A o \in IF HandsOver(c) THEN PotentialOwners(c, u) ELSE {DescribedOwner(c, u)} :
                /\ account[u] = "active"
                /\ Offers(pack, c, u, imp)
                /\ o # NoUser => Qualified(o, Current.phase)
                /\ HandsOver(c) => o # Current.owner
                /\ GateOpen(u, Current.phase, Current.phase)
                => Passes(DescribedAsk(c, u, o, imp))

\* The reject button works whenever it is shown, unless who handed the record
\* over can no longer work in that phase.  Within a phase it needs
\* allow_delegate, for the engine takes the return for a delegation.
RejectIsAllowed ==
    Tracked /\ Valid =>
        \A u \in User, imp \in Owner :
            /\ account[u] = "active"
            /\ imp \in Contexts(u)
            /\ OffersReject(u, imp)
            /\ Previous.phase = Current.phase => Declared[Current.phase].delegate
            /\ account[Current.user] = "active"
            /\ Qualified(Current.user, Previous.phase)
            /\ GateOpen(u, Current.phase, Previous.phase)
            => Passes(DescribedAsk("reject", u, DescribedOwner("reject", u), imp))

-----------------------------------------------------------------------------
(* The history tells what happened                                         *)

\* What a transition of kind n.kind must have been, when it led from p to n.
KindHolds(p, n) ==
    LET stays == n.phase = p.phase
        self == n.owner = n.user
        other == n.owner \notin {NoUser, n.user, p.owner}
    IN  CASE n.kind = "suspend" -> n.suspended
          [] n.kind = "resume" -> p.suspended /\ ~n.suspended /\ n.owner = p.owner
          [] n.kind = "take" -> stays /\ self /\ p.owner = NoUser
          [] n.kind = "snatch" -> stays /\ self /\ p.owner \notin {NoUser, n.user}
          [] n.kind = "impersonate" -> stays /\ self /\ n.imp \notin {NoUser, HolderContext(p)}
          [] n.kind = "reclaim" -> stays /\ self /\ n.imp = NoUser /\ HolderContext(p) # NoUser
          [] n.kind = "release" -> stays /\ n.owner = NoUser /\ p.owner # NoUser
          [] n.kind = "assign" -> stays /\ other /\ p.owner = NoUser
          [] n.kind = "delegate" -> stays /\ other /\ n.user = p.owner
          [] n.kind = "reassign" -> stays /\ other /\ n.user # p.owner
          [] n.kind = "change" -> ~stays /\ n.owner = NoUser
          [] n.kind = "change_assign" -> ~stays /\ n.owner # NoUser
          [] n.kind = "resubmit" -> p.kind = "reject" /\ n.owner = p.user /\ n.user = p.owner
          [] n.kind = "reject" -> ~stays \/ (n.owner = p.user /\ n.user = p.owner)
          [] n.kind = "undefined" -> stays /\ n.owner = p.owner /\ n.user # n.owner
          [] OTHER -> FALSE

\* The kind that the history shows for a transition is what the transition did:
\* a resumption follows a suspension, a reclaim ends an impersonation, a
\* resubmission answers a reject (get_transition_type, models.py 308-356).
LabelsTell == [][Transits => KindHolds(Current, Newest')]_vars
=============================================================================
