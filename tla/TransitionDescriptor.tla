------------------------ MODULE TransitionDescriptor -------------------------
(***************************************************************************)
(* What the pages make of the rules (workflango/wf_transition.py): the     *)
(* buttons that a user is offered in each of the two GUI packs, and, for a *)
(* button, the WFTransitionDescriptor: where it leads, who is to own the   *)
(* record there, whom its form lists as owners and whether it asks for a   *)
(* message.  All of it is worked out anew at each request, from the        *)
(* current state.  Captions, styles and the keys hidden, disabled,         *)
(* default_owner and require_message of a transition are left out.         *)
(***************************************************************************)
EXTENDS TransitionRules

Commands == {"take-ownership", "suspend", "resume", "release", "delegate", "reassign", "assign"}

\* What a change-state URL or form may name.
Buttons == Commands \cup {"reject"} \cup Phase

Packs == {"django", "sebastian"}

\* A phase with the name of a command would be taken for the command.
ASSUME ButtonAssumption == Phase \cap (Commands \cup {"reject"}) = {}

HandsOver(b) == b \in {"delegate", "reassign", "assign"}

-----------------------------------------------------------------------------
(* The transition that a button stands for                                 *)

Destination(b) ==
    IF b = "reject" THEN Previous.phase
    ELSE IF b \in Commands THEN Current.phase
    ELSE b

\* Is there a configuration for it, and what does it say?
Configured(b) == Destination(b) \in Reach(Current.phase)
Configuration(b) == TransitionOf(Current.phase, Destination(b))

IsReject(b) == Configured(b) /\ Configuration(b).reject
OwnerMode(b) == IF Configured(b) THEN Configuration(b).mode ELSE "none"

LastOwner(p) ==
    IF LastIn(p) = {} THEN NoUser ELSE states[CHOOSE i \in LastIn(p) : TRUE].owner

LikelyOwner(b, u) ==
    IF IsReject(b) THEN LastOwner(Destination(b))
    ELSE CASE OwnerMode(b) = "user" -> u
           [] OwnerMode(b) = "last_owner" -> LastOwner(Destination(b))
           [] OTHER -> NoUser

\* guess_owner(): nobody, if the likely owner cannot work there any more.
GuessedOwner(b, u) ==
    LET o == LikelyOwner(b, u)
    IN  IF o # NoUser /\ account[o] = "active" /\ Qualified(o, Destination(b)) THEN o ELSE NoUser

\* Mutant: 'suspend' is not among the commands that set the owner.
DescribedNotSuspend(b, u) ==
    CASE b = "reject" -> Current.user
      [] b \in {"release", "suspend"} -> NoUser
      [] b \in {"take-ownership", "resume"} -> u
      [] OTHER -> GuessedOwner(b, u)

DescribedOwner(b, u) ==
    CASE b = "reject" -> Current.user
      [] b = "release" -> NoUser
      [] b \in {"take-ownership", "suspend", "resume"} -> u
      [] OTHER -> GuessedOwner(b, u)

\* The call that the descriptor makes, or tries with allowed(), for an owner.
DescribedAsk(b, u, o, imp) == Ask(u, Destination(b), o, b = "suspend", imp)

-----------------------------------------------------------------------------
(* Its form                                                                *)

ShowsOwner(b, u) ==
    /\ b \notin {"take-ownership", "reject", "release", "suspend", "resume"}
    /\ CanAdmin(u) \/ HandsOver(b) \/ OwnerMode(b) \in {"assign", "assign-optional"}

\* Mutant: accounts that were deactivated are still listed.
CandidatesOfAnyAccount(u, p) == {o \in User : Qualified(o, p)}

\* Mutant: an admin may choose anybody.
CandidatesAtWill(u, p) == {o \in User : account[o] = "active" /\ (CanAdmin(u) \/ IsEditor(o, p))}

\* The active editors of the phase; for an admin of the current phase also the
\* admins of the other.
Candidates(u, p) ==
    {o \in User : /\ account[o] = "active"
                  /\ IF CanAdmin(u) THEN Qualified(o, p) ELSE IsEditor(o, p)}

\* _remove_users_from_owners() takes the acting user and the owner out of the
\* very list it runs through: the one listed right after the other is passed
\* over, and stays.
Follows(a, b, listed) ==
    /\ Username[b] < Username[a]
    /\ ~\E n \in listed : Username[b] < Username[n] /\ Username[n] < Username[a]

OthersThan(u, listed) ==
    LET out == {u, Current.owner} \cap listed
    IN  listed \ {o \in out : ~\E b \in out : Follows(o, b, listed)}

\* get_potential_owners(); NoUser is the entry '---'.
PotentialOwners(b, u) ==
    IF HandsOver(b) THEN OthersThan(u, Candidates(u, Destination(b)))
    ELSE Candidates(u, Destination(b))
            \cup (IF OwnerMode(b) \in {"none", "assign-optional"} THEN {NoUser} ELSE {})

\* A reason is due for taking a record back or away, and for giving it up.
NeedsMessage(b, u) ==
    \/ IsReject(b)
    \/ b \in {"delegate", "reassign", "reject", "release", "suspend"}
    \/ b \in {"take-ownership", "assign"} /\ Current.owner \notin {NoUser, u}

-----------------------------------------------------------------------------
(* Which buttons there are                                                 *)

\* Can the user take the record as it is?  can_take_ownership().
CanTake(u, imp) == MoveAllowed(Ask(u, Current.phase, u, FALSE, imp))

\* workflow_buttons.html.  A suspended record can only be resumed, but the
\* buttons of the admins stay when somebody else has suspended it.
DjangoCommand(c, u, imp) ==
    LET holds == OwnedBy(Current, u, imp)
        open == holds \/ Current.owner = NoUser
    IN  \/ /\ ~(open /\ Current.suspended)
           /\ \/ c = "take-ownership" /\ CanTake(u, imp)
              \/ c = "assign" /\ CanAdmin(u) /\ Current.owner # u
        \/ c = "resume" /\ holds /\ Current.suspended
        \/ /\ holds /\ ~Current.suspended
           /\ \/ c = "suspend"
              \/ c = "delegate" /\ CanDelegate
              \/ c = "release" /\ CanRelease

\* The command_transitions of get_workflow_transitions().
SebastianCommand(c, u, imp) ==
    LET holds == OwnedBy(Current, u, imp)
        taken == Current.owner # NoUser /\ ~holds
    IN  IF Current.suspended THEN c = "resume" /\ (holds \/ CanAdmin(u))
        ELSE \/ c = "take-ownership" /\ Current.owner = NoUser /\ CanEdit(u)
             \/ c = "take-ownership" /\ taken /\ (CanAdmin(u) \/ Current.owner = u)
             \/ c = "reassign" /\ taken /\ CanAdmin(u)
             \/ c = "suspend" /\ holds
             \/ c = "delegate" /\ holds /\ CanDelegate
             \/ c = "release" /\ holds /\ CanRelease

OffersCommand(pack, c, u, imp) ==
    \/ pack = "django" /\ DjangoCommand(c, u, imp)
    \/ pack = "sebastian" /\ SebastianCommand(c, u, imp)

\* Is the transition that returns to the phase just left a reject?
ReturnIsReject ==
    /\ Previous.phase \in Reach(Current.phase)
    /\ TransitionOf(Current.phase, Previous.phase).reject

\* The phases offered to the holder of a record that is not suspended.  A
\* reject needs an earlier state to go back to, and is not listed here when it
\* leads to the phase just left: that one is the reject button.
OffersPhase(p, u, imp) ==
    /\ ~Current.suspended
    /\ OwnedBy(Current, u, imp)
    /\ p \in Reach(Current.phase)
    /\ TransitionOf(Current.phase, p).reject =>
          /\ ~(Len(states) > 1 /\ Previous.phase = p)
          /\ \E i \in 1..(Len(states) - 1) : states[i].phase = p

OffersReject(u, imp) ==
    /\ ~Current.suspended
    /\ OwnedBy(Current, u, imp)
    /\ CanReject
    /\ Len(states) > 1
    /\ Previous.phase = Current.phase \/ ReturnIsReject

\* The buttons of each pack.  Django greys out a phase whose groups the user is
\* not in; Sebastian's reject button asks for the phase it leads to.
Offers(pack, b, u, imp) ==
    \/ b \in Commands /\ OffersCommand(pack, b, u, imp)
    \/ /\ b \in Phase
       /\ OffersPhase(b, u, imp)
       /\ pack = "django" => GateOpen(u, Current.phase, b)
    \/ pack = "django" /\ b = "reject" /\ OffersReject(u, imp)
    \/ pack = "sebastian" /\ OffersReject(u, imp) /\ b = Previous.phase
=============================================================================
