---------------------------- MODULE EngineProofs ----------------------------
(***************************************************************************)
(* Proofs about the workflow engine, for every configuration, every set of *)
(* users and every bound of the history.  Every way to move a record comes *)
(* down to one call of transition(), Perform: MovesPerform says so, and    *)
(* the invariants are then proved for that one step and for what happens   *)
(* around the record.                                                      *)
(***************************************************************************)
EXTENDS EngineProperties, TLAPS

\* The calls of transition() and the kinds that its callers force.
Call == [user : User, phase : Phase, owner : Owner, suspended : BOOLEAN, imp : Owner]
Unforced == ""
Forced == {Unforced, "delegate", "reject"}

\* The manager forces no kind.  Every step is a call of transition() or happens
\* around the record.
PlainCalls == \E r \in Call : Perform(r, Unforced)
Calls == \E r \in Call, forced \in Forced : Perform(r, forced)
Steps == Calls \/ Around \/ UNCHANGED vars

-----------------------------------------------------------------------------
(* Types                                                                   *)

\* Whatever is decided about the kind of a transition, it is a declared one
\* (get_transition_type and _transition, models.py 308-356, 963-968).
LEMMA KindIsKnown ==
    ASSUME NEW r, NEW forced \in Forced
    PROVE  KindOf(r, forced) \in Kinds
<1>1. HeldKind(r) \in Kinds
  BY DEF HeldKind, Kinds
<1>2. SamePhaseKind(r) \in Kinds
  BY <1>1 DEF SamePhaseKind, Kinds
<1>3. ComputedKind(r) \in Kinds
  BY <1>2 DEF ComputedKind, Kinds
<1>4. QED
  BY <1>3 DEF KindOf, Forced, Unforced, Kinds

\* So the row that a call of transition() adds is a State row.
LEMMA RowIsTyped ==
    ASSUME NEW r \in Call, NEW forced \in Forced
    PROVE  StateOf(r, forced) \in StateRow
BY KindIsKnown DEF StateOf, StateRow, Call

\* The current state of a tracked record is one of its rows.
LEMMA CurrentIsTyped ==
    ASSUME TypeOK, Tracked
    PROVE  /\ Len(states) \in Nat \ {0}
           /\ Current \in StateRow
           /\ Len(states) > 1 => Previous \in StateRow
BY DEF TypeOK, Tracked, Current, Previous

\* Each entry point of the manager makes one call of transition(), or none.
LEMMA MovesPerform ==
    ASSUME TypeOK, Moves
    PROVE  PlainCalls
<1>1. StartPhase \in Phase
  BY ConfigAssumption DEF StartPhase, Phase
<1> SUFFICES ASSUME NEW u \in User, NEW imp \in Owner,
                    \/ Create(u, imp)
                    \/ \E p \in Phase, o \in Owner, s \in BOOLEAN : ChangeState(u, p, o, s, imp)
                    \/ ReleaseRecord(u, imp)
                    \/ RejectRecord(u, imp)
                    \/ \E p \in Phase : RejectToPhase(u, p, imp)
                    \/ TakeOwnership(u, imp)
                    \/ \E o \in Owner : Assign(o, u, imp) \/ Assign(o, NoUser, imp)
             PROVE  \E r \in Call : Perform(r, "")
  BY DEF Moves, PlainCalls, Unforced
<1>2. \A x \in User, p \in Phase, o \in Owner, s \in BOOLEAN, i \in Owner :
          Ask(x, p, o, s, i) \in Call
  BY DEF Ask, Call
<1>3. u \in Owner /\ NoUser \in Owner
  BY DEF Owner
<1>4. Tracked => Current.phase \in Phase /\ Current.owner \in Owner /\ Current.user \in Owner
  BY CurrentIsTyped DEF StateRow, Owner
<1>5. Len(states) > 1 => Tracked /\ Previous.phase \in Phase
  BY CurrentIsTyped DEF TypeOK, Tracked, StateRow
<1>6. CASE Create(u, imp)
  BY <1>1, <1>2, <1>3, <1>6 DEF Create
<1>7. CASE \E p \in Phase, o \in Owner, s \in BOOLEAN : ChangeState(u, p, o, s, imp)
  BY <1>2, <1>7 DEF ChangeState
<1>8. CASE ReleaseRecord(u, imp)
  BY <1>2, <1>3, <1>4, <1>8 DEF ReleaseRecord
<1>9. CASE RejectRecord(u, imp)
  BY <1>2, <1>4, <1>5, <1>9 DEF RejectRecord
<1>10. CASE \E p \in Phase : RejectToPhase(u, p, imp)
  <2>1. PICK p \in Phase : RejectToPhase(u, p, imp)
    BY <1>10
  <2>2. PICK i \in LastIn(p) : Perform(Ask(u, p, states[i].owner, FALSE, imp), "")
    BY <2>1 DEF RejectToPhase
  <2>3. states[i].owner \in Owner
    <3>1. Len(states) \in Nat /\ i \in 1..Len(states)
      BY DEF LastIn, TypeOK
    <3>2. states[i] \in StateRow
      BY <3>1 DEF TypeOK
    <3>3. QED
      BY <3>2 DEF StateRow
  <2>4. QED
    BY <1>2, <2>2, <2>3
<1>11. CASE TakeOwnership(u, imp)
  BY <1>2, <1>3, <1>4, <1>11 DEF TakeOwnership
<1>12. CASE \E o \in Owner : Assign(o, u, imp) \/ Assign(o, NoUser, imp)
  <2>1. PICK o \in Owner, x \in Owner : Assign(o, x, imp)
    BY <1>3, <1>12
  <2>2. PICK actor \in User : Perform(Ask(actor, Current.phase, o, FALSE, imp), "") /\ Tracked
    BY <2>1, <1>4 DEF Assign, Owner
  <2>3. QED
    BY <1>2, <1>4, <2>2
<1>13. QED
  BY <1>6, <1>7, <1>8, <1>9, <1>10, <1>11, <1>12

LEMMA NextSteps ==
    ASSUME TypeOK, [Next]_vars
    PROVE  Steps
<1>1. PlainCalls => Calls
  BY DEF PlainCalls, Calls, Forced
<1>2. QED
  BY <1>1, MovesPerform DEF Next, Steps

\* What a call of transition() does to the history.
LEMMA PerformAppends ==
    ASSUME TypeOK, NEW r \in Call, NEW forced \in Forced, Perform(r, forced)
    PROVE  /\ states' \in Seq(StateRow)
           /\ Len(states') = Len(states) + 1
           /\ Len(states') <= MaxStates
           /\ \A i \in 1..Len(states) : states'[i] = states[i]
           /\ states'[Len(states) + 1] = StateOf(r, forced)
           /\ UNCHANGED <<member, account, clean>>
<1>1. StateOf(r, forced) \in StateRow
  BY RowIsTyped
<1>2. QED
  BY <1>1, EngineAssumption DEF Perform, TypeOK

\* Deleting an account replaces it by NoUser where it acted as somebody else.
LEMMA DeletionKeepsRows ==
    ASSUME TypeOK, NEW u \in User, DeleteAccount(u)
    PROVE  /\ states' \in Seq(StateRow)
           /\ Len(states') = Len(states)
           /\ \A i \in 1..Len(states) :
                 /\ states'[i] = IF states[i].imp = u THEN [states[i] EXCEPT !.imp = NoUser]
                                                      ELSE states[i]
                 /\ states[i] \in StateRow
<1>1. DOMAIN states = 1..Len(states) /\ Len(states) \in Nat
  BY DEF TypeOK
<1>2. \A i \in 1..Len(states) : states[i] \in StateRow
  BY DEF TypeOK
<1>3. \A s \in StateRow : [s EXCEPT !.imp = NoUser] \in StateRow
  BY DEF StateRow, Owner
<1>4. states' = [i \in 1..Len(states) |->
                    IF states[i].imp = u THEN [states[i] EXCEPT !.imp = NoUser] ELSE states[i]]
  BY <1>1 DEF DeleteAccount
<1>5. \A i \in 1..Len(states) : states'[i] \in StateRow
  BY <1>2, <1>3, <1>4
<1>6. states' \in Seq(StateRow) /\ Len(states') = Len(states)
  BY <1>1, <1>4, <1>5
<1>7. QED
  BY <1>2, <1>4, <1>6

LEMMA TypeStep ==
    ASSUME TypeOK, Steps
    PROVE  TypeOK'
<1>1. CASE Calls
  <2>1. PICK r \in Call, forced \in Forced : Perform(r, forced)
    BY <1>1 DEF Calls
  <2>2. QED
    BY <2>1, PerformAppends DEF TypeOK
<1>2. CASE \E u \in User, imp \in Owner : DeleteRecord(u, imp)
  BY <1>2, EngineAssumption DEF DeleteRecord, TypeOK, CleanOutcome
<1>3. CASE DataChanges
  BY <1>3 DEF DataChanges, TypeOK
<1>4. CASE \E u \in User : ToggleActive(u)
  BY <1>4 DEF ToggleActive, TypeOK
<1>5. CASE \E u \in User : DeleteAccount(u)
  <2>1. PICK u \in User : DeleteAccount(u)
    BY <1>5
  <2>2. states' \in Seq(StateRow) /\ Len(states') = Len(states)
    BY <2>1, DeletionKeepsRows
  <2>3. account' \in [User -> {"active", "inactive", "deleted"}]
    BY <2>1 DEF DeleteAccount, TypeOK
  <2>4. member' \in [User -> SUBSET Group] /\ clean' \in CleanOutcome
    BY <2>1 DEF DeleteAccount, TypeOK
  <2>5. QED
    BY <2>2, <2>3, <2>4 DEF TypeOK
<1>6. CASE \E u \in User, groups \in SUBSET Group : ChangeGroups(u, groups)
  BY <1>6 DEF ChangeGroups, TypeOK
<1>7. CASE UNCHANGED vars
  BY <1>7 DEF vars, TypeOK
<1>8. QED
  BY <1>1, <1>2, <1>3, <1>4, <1>5, <1>6, <1>7 DEF Steps, Around

LEMMA InitTyped == Init => TypeOK
BY EngineAssumption DEF Init, TypeOK, CleanOutcome

\* Type correctness, for every configuration and every bound.
THEOREM TypeCorrect == Spec => []TypeOK
<1>1. TypeOK /\ [Next]_vars => TypeOK'
  BY NextSteps, TypeStep
<1>2. QED
  BY <1>1, InitTyped, PTL DEF Spec
-----------------------------------------------------------------------------
(* The history                                                             *)

\* What transition_allowed() lets through: out of a suspension nothing but a
\* resumption, into another phase nobody but the holder in his own context.
LEMMA MoveRespectsHolder ==
    ASSUME TypeOK, Tracked, NEW r \in Call, MoveAllowed(r)
    PROVE  /\ Current.suspended => ~r.suspended /\ r.phase = Current.phase
           /\ r.phase # Current.phase =>
                 /\ r.user = Current.owner
                 /\ r.imp = HolderContext(Current)
                 /\ ~Current.suspended
<1>1. Current.suspended \in BOOLEAN /\ r.suspended \in BOOLEAN
  BY CurrentIsTyped DEF StateRow, Call
<1>2. CASE r.suspended # Current.suspended
  <2>1. r.phase = Current.phase
    BY <1>2 DEF MoveAllowed, SuspensionAllowed
  <2>2. QED
    BY <1>1, <1>2, <2>1
<1>3. CASE r.suspended = Current.suspended
  <2>1. ~Current.suspended
    BY <1>1, <1>3 DEF MoveAllowed
  <2>2. r.phase # Current.phase => OwnedBy(Current, r.user, r.imp)
    BY <1>3 DEF MoveAllowed, OrdinaryAllowed, RoleAllows
  <2>3. QED
    BY <2>1, <2>2 DEF OwnedBy
<1>4. QED
  BY <1>2, <1>3

\* The same, of the last two rows of the history after a call.
LEMMA PerformRespectsHolder ==
    ASSUME TypeOK, NEW r \in Call, NEW forced \in Forced, Perform(r, forced),
           NEW i \in 2..Len(states'), i = Len(states')
    PROVE  /\ states'[i - 1].suspended =>
                 ~states'[i].suspended /\ states'[i].phase = states'[i - 1].phase
           /\ states'[i].phase # states'[i - 1].phase =>
                 /\ states'[i].user = states'[i - 1].owner
                 /\ states'[i].imp = HolderContext(states'[i - 1])
                 /\ ~states'[i - 1].suspended
<1>1. Len(states) \in Nat /\ i = Len(states) + 1 /\ Len(states) \in 1..Len(states)
  BY PerformAppends DEF TypeOK
<1>2. Tracked
  BY <1>1 DEF Tracked, TypeOK
<1>3. states'[i] = StateOf(r, forced)
  BY <1>1, PerformAppends
<1>4. states'[i - 1] = Current
  BY <1>1, PerformAppends DEF Current
<1>5. MoveAllowed(r)
  BY <1>2 DEF Perform, Passes
<1>6. /\ states'[i].phase = r.phase
      /\ states'[i].user = r.user
      /\ states'[i].imp = r.imp
      /\ states'[i].suspended = r.suspended
  BY <1>3 DEF StateOf
<1>7. QED
  BY <1>2, <1>4, <1>5, <1>6, MoveRespectsHolder

\* Once an account is deleted, the context in which a row is held is the old
\* one, unless the account that is gone was that context.
LEMMA DeletionKeepsHolder ==
    ASSUME TypeOK, NEW u \in User, DeleteAccount(u), NEW i \in 1..Len(states)
    PROVE  /\ states'[i].phase = states[i].phase
           /\ states'[i].owner = states[i].owner
           /\ states'[i].user = states[i].user
           /\ states'[i].suspended = states[i].suspended
           /\ states'[i].imp = IF states[i].imp = u THEN NoUser ELSE states[i].imp
           /\ HolderContext(states'[i]) =
                 IF HolderContext(states[i]) = u THEN NoUser ELSE HolderContext(states[i])
<1>1. states[i] \in StateRow
  BY DeletionKeepsRows
<1>2. states'[i] = IF states[i].imp = u THEN [states[i] EXCEPT !.imp = NoUser] ELSE states[i]
  BY DeletionKeepsRows
<1>3. /\ states'[i].phase = states[i].phase
      /\ states'[i].owner = states[i].owner
      /\ states'[i].user = states[i].user
      /\ states'[i].suspended = states[i].suspended
      /\ states'[i].imp = IF states[i].imp = u THEN NoUser ELSE states[i].imp
  BY <1>1, <1>2 DEF StateRow
<1>4. u # NoUser
  BY UserAssumption
<1>5. QED
  BY <1>3, <1>4 DEF HolderContext

\* What happens around a record empties its history, leaves it alone, or
\* forgets an impersonator.
LEMMA AroundKeepsHistory ==
    ASSUME TypeOK, Around
    PROVE  \/ states' = <<>>
           \/ states' = states
           \/ \E u \in User : DeleteAccount(u)
BY DEF Around, DeleteRecord, DataChanges, ToggleActive, ChangeGroups

\* One step keeps both history invariants.
LEMMA HistoryStep ==
    ASSUME TypeOK, SuspendedFrozen, PhaseMovesByHolder, Steps
    PROVE  SuspendedFrozen' /\ PhaseMovesByHolder'
<1>1. CASE Calls
  <2>1. PICK r \in Call, forced \in Forced : Perform(r, forced)
    BY <1>1 DEF Calls
  <2>2. Len(states) \in Nat /\ Len(states') = Len(states) + 1
    BY <2>1, PerformAppends DEF TypeOK
  <2> SUFFICES ASSUME NEW i \in 2..Len(states')
               PROVE  /\ states'[i - 1].suspended =>
                            ~states'[i].suspended /\ states'[i].phase = states'[i - 1].phase
                      /\ states'[i].phase # states'[i - 1].phase =>
                            /\ states'[i].user = states'[i - 1].owner
                            /\ states'[i].imp = HolderContext(states'[i - 1])
                            /\ ~states'[i - 1].suspended
    BY DEF SuspendedFrozen, PhaseMovesByHolder, HolderContext
  <2>3. CASE i = Len(states')
    BY <2>1, <2>3, PerformRespectsHolder
  <2>4. CASE i # Len(states')
    <3>1. i \in 2..Len(states) /\ i \in 1..Len(states) /\ i - 1 \in 1..Len(states)
      BY <2>2, <2>4
    <3>2. states'[i] = states[i] /\ states'[i - 1] = states[i - 1]
      BY <2>1, <3>1, PerformAppends
    <3>3. QED
      BY <3>1, <3>2 DEF SuspendedFrozen, PhaseMovesByHolder
  <2>5. QED
    BY <2>3, <2>4
<1>2. CASE states' = <<>>
  BY <1>2 DEF SuspendedFrozen, PhaseMovesByHolder
<1>3. CASE states' = states
  BY <1>3 DEF SuspendedFrozen, PhaseMovesByHolder, HolderContext
<1>4. CASE \E u \in User : DeleteAccount(u)
  <2>1. PICK u \in User : DeleteAccount(u)
    BY <1>4
  <2>2. Len(states) \in Nat /\ Len(states') = Len(states)
    BY <2>1, DeletionKeepsRows DEF TypeOK
  <2> SUFFICES ASSUME NEW i \in 2..Len(states')
               PROVE  /\ states'[i - 1].suspended =>
                            ~states'[i].suspended /\ states'[i].phase = states'[i - 1].phase
                      /\ states'[i].phase # states'[i - 1].phase =>
                            /\ states'[i].user = states'[i - 1].owner
                            /\ states'[i].imp = HolderContext(states'[i - 1])
                            /\ ~states'[i - 1].suspended
    BY DEF SuspendedFrozen, PhaseMovesByHolder, HolderContext
  <2>3. i \in 2..Len(states) /\ i \in 1..Len(states) /\ i - 1 \in 1..Len(states)
    BY <2>2
  <2>4. /\ states[i - 1].suspended =>
              ~states[i].suspended /\ states[i].phase = states[i - 1].phase
        /\ states[i].phase # states[i - 1].phase =>
              /\ states[i].user = states[i - 1].owner
              /\ states[i].imp = HolderContext(states[i - 1])
              /\ ~states[i - 1].suspended
    BY <2>3 DEF SuspendedFrozen, PhaseMovesByHolder
  <2>5. QED
    BY <2>1, <2>3, <2>4, DeletionKeepsHolder
<1>5. QED
  BY <1>1, <1>2, <1>3, <1>4, AroundKeepsHistory DEF Steps, vars

LEMMA InitHistory == Init => SuspendedFrozen /\ PhaseMovesByHolder
BY DEF Init, SuspendedFrozen, PhaseMovesByHolder

\* Out of a suspension there is only a resumption, in the same phase.
THEOREM SuspensionFreezes == Spec => []SuspendedFrozen
<1>1. TypeOK /\ SuspendedFrozen /\ PhaseMovesByHolder /\ [Next]_vars
        => (SuspendedFrozen /\ PhaseMovesByHolder)'
  BY NextSteps, HistoryStep
<1>2. QED
  BY <1>1, InitHistory, TypeCorrect, PTL DEF Spec

\* Every change of phase was made by the holder, in the context of his claim,
\* and the history goes on saying so when accounts are deleted.
THEOREM HolderMovesPhases == Spec => []PhaseMovesByHolder
<1>1. TypeOK /\ SuspendedFrozen /\ PhaseMovesByHolder /\ [Next]_vars
        => (SuspendedFrozen /\ PhaseMovesByHolder)'
  BY NextSteps, HistoryStep
<1>2. QED
  BY <1>1, InitHistory, TypeCorrect, PTL DEF Spec

-----------------------------------------------------------------------------
(* Nobody is locked out, nobody is robbed                                  *)

\* A call that leaves the record in its phase, and does not suspend it: somebody
\* who may act on it, something that changes, and a new owner who can work there.
LEMMA StayPasses ==
    ASSUME TypeOK, Tracked, Valid, ~Current.suspended,
           NEW u \in User, NEW o \in Owner, NEW imp \in Owner,
           account[u] = "active",
           o # NoUser => account[o] = "active" /\ Qualified(o, Current.phase),
           o = NoUser => Declared[Current.phase].release # "no",
           GateOpen(u, Current.phase, Current.phase),
           o # Current.owner \/ imp # HolderContext(Current),
           \/ CanAdmin(u)
           \/ OwnedBy(Current, u, imp) /\ (o = NoUser \/ CanDelegate)
           \/ u = o /\ Current.owner \in {NoUser, o}
    PROVE  Passes(Ask(u, Current.phase, o, FALSE, imp))
<1> DEFINE r == Ask(u, Current.phase, o, FALSE, imp)
<1>1. /\ r.user = u
      /\ r.phase = Current.phase
      /\ r.owner = o
      /\ r.suspended = FALSE
      /\ r.imp = imp
  BY DEF Ask
<1> HIDE DEF r
<1>2. RoleAllows(r)
  BY <1>1, UserAssumption DEF RoleAllows, OwnedBy
<1>3. DelegationAllowed(r)
  BY <1>1 DEF DelegationAllowed, IsHandOver
<1>4. PhaseAllowed(r) /\ NewOwnerAllowed(r)
  BY <1>1 DEF PhaseAllowed, NewOwnerAllowed
<1>5. BothActive(r) /\ IsChange(r)
  BY <1>1 DEF BothActive, IsChange
<1>6. Current.suspended = FALSE
  BY CurrentIsTyped DEF StateRow
<1>7. MoveAllowed(r)
  BY <1>1, <1>2, <1>3, <1>4, <1>5, <1>6 DEF MoveAllowed, OrdinaryAllowed
<1>8. QED
  BY <1>7 DEF Passes, r

\* From any state the types allow, the rules let an admin of the phase recover
\* the record, unless full_clean() fails as it should not.
LEMMA RescuePasses ==
    ASSUME TypeOK, Tracked, NEW a \in User,
           account[a] = "active",
           clean # "Exception",
           CanAdmin(a),
           GateOpen(a, Current.phase, Current.phase),
           ~(OwnedBy(Current, a, NoUser) /\ ~Current.suspended)
    PROVE  Passes(Rescues(a))
<1>1. a # NoUser
  BY UserAssumption
<1>2. Current.suspended \in BOOLEAN
  BY CurrentIsTyped DEF StateRow
<1>3. /\ Rescues(a).user = a
      /\ Rescues(a).phase = Current.phase
      /\ Rescues(a).owner = a
      /\ Rescues(a).suspended = FALSE
      /\ Rescues(a).imp = NoUser
  BY DEF Rescues, Ask
<1> HIDE DEF Rescues
<1>4. Valid \/ Waived(Rescues(a))
  BY <1>3 DEF TypeOK, Waived, Valid, CleanOutcome
<1>5. BothActive(Rescues(a))
  BY <1>3 DEF BothActive
<1>6. IsChange(Rescues(a))
  BY <1>2, <1>3 DEF IsChange, OwnedBy
<1>7. CASE Current.suspended
  <2>1. SuspensionAllowed(Rescues(a))
    BY <1>3, <1>7 DEF SuspensionAllowed
  <2>2. MoveAllowed(Rescues(a))
    BY <1>3, <1>5, <1>6, <1>7, <2>1 DEF MoveAllowed
  <2>3. QED
    BY <1>4, <2>2 DEF Passes
<1>8. CASE ~Current.suspended
  <2>1. RoleAllows(Rescues(a))
    BY <1>3 DEF RoleAllows
  <2>2. DelegationAllowed(Rescues(a))
    BY <1>1, <1>3 DEF DelegationAllowed, IsHandOver
  <2>3. PhaseAllowed(Rescues(a))
    BY <1>3 DEF PhaseAllowed
  <2>4. NewOwnerAllowed(Rescues(a))
    BY <1>1, <1>3 DEF NewOwnerAllowed, Qualified, CanAdmin
  <2>5. OrdinaryAllowed(Rescues(a))
    BY <2>1, <2>2, <2>3, <2>4 DEF OrdinaryAllowed
  <2>6. MoveAllowed(Rescues(a))
    BY <1>2, <1>3, <1>5, <1>6, <1>8, <2>5 DEF MoveAllowed
  <2>7. QED
    BY <1>4, <2>6 DEF Passes
<1>9. QED
  BY <1>7, <1>8

\* Records never get stuck while their phase has an active admin.
THEOREM AdminRecovers == Spec => []AdminCanRecover
<1>1. TypeOK => AdminCanRecover
  BY RescuePasses DEF AdminCanRecover
<1>2. QED
  BY <1>1, TypeCorrect, PTL

\* An owner who may still work in the phase gets his record back from whoever
\* acts in his name, and so does who acts in his name, as long as the record is
\* not suspended.  An owner who may not work there is refused.
THEOREM OwnerReclaims == Spec => []EditorCanReclaim
<1>1. TypeOK => EditorCanReclaim
  <2> SUFFICES ASSUME TypeOK, Tracked, Valid, ~Current.suspended,
                      NEW u \in User, NEW imp \in Contexts(u),
                      account[u] = "active",
                      Current.owner = u,
                      CanEdit(u),
                      GateOpen(u, Current.phase, Current.phase),
                      ~OwnedBy(Current, u, imp)
               PROVE  Passes(Ask(u, Current.phase, u, FALSE, imp))
    BY DEF EditorCanReclaim, HoldsOrClaims
  <2>1. u \in Owner /\ imp \in Owner /\ u # NoUser
    BY UserAssumption DEF Owner, Contexts
  <2>2. imp # HolderContext(Current)
    BY DEF OwnedBy
  <2>3. Qualified(u, Current.phase)
    BY DEF CanEdit
  <2>4. QED
    BY <2>1, <2>2, <2>3, StayPasses
<1>2. QED
  BY <1>1, TypeCorrect, PTL

\* A record that nobody owns is there for every editor of its phase.
THEOREM FreeRecordsAreTaken == Spec => []FreeCanBeTaken
<1>1. TypeOK => FreeCanBeTaken
  <2> SUFFICES ASSUME TypeOK, Tracked, Valid, Current.owner = NoUser, ~Current.suspended,
                      NEW u \in User,
                      account[u] = "active",
                      CanEdit(u),
                      GateOpen(u, Current.phase, Current.phase)
               PROVE  Passes(Ask(u, Current.phase, u, FALSE, NoUser))
    BY DEF FreeCanBeTaken, Rescues
  <2>1. u \in Owner /\ NoUser \in Owner /\ u # NoUser
    BY UserAssumption DEF Owner
  <2>2. Qualified(u, Current.phase)
    BY DEF CanEdit
  <2>3. QED
    BY <2>1, <2>2, StayPasses
<1>2. QED
  BY <1>1, TypeCorrect, PTL

\* A record changes hands only by an act of its holder or of an admin.
THEOREM OwnersLetGo == Spec => OwnerLetsGo
<1>1. TypeOK /\ [Next]_vars =>
        [Transits /\ Current.owner # NoUser /\ Newest'.owner # Current.owner
           => OwnedBy(Current, Newest'.user, Newest'.imp) \/ CanAdmin(Newest'.user)]_vars
  <2> SUFFICES ASSUME TypeOK, [Next]_vars, Tracked, Len(states') > Len(states),
                      Current.owner # NoUser, Newest'.owner # Current.owner
               PROVE  OwnedBy(Current, Newest'.user, Newest'.imp) \/ CanAdmin(Newest'.user)
    BY DEF Transits
  <2>1. Len(states) \in Nat
    BY DEF TypeOK
  <2>2. Moves
    <3>1. states' # <<>> /\ states' # states
      BY <2>1
    <3>2. ~\E u \in User : DeleteAccount(u)
      BY <2>1, DeletionKeepsRows
    <3>3. QED
      BY <3>1, <3>2, AroundKeepsHistory DEF Next, vars
  <2>3. PICK r \in Call : Perform(r, Unforced)
    BY <2>2, MovesPerform DEF PlainCalls
  <2>4. Newest' = StateOf(r, Unforced)
    BY <2>3, PerformAppends DEF Newest, Forced
  <2>5. Newest'.owner = r.owner /\ Newest'.user = r.user /\ Newest'.imp = r.imp
    BY <2>4 DEF StateOf
  <2>6. MoveAllowed(r)
    BY <2>3 DEF Perform, Passes
  <2>7. CASE r.suspended # Current.suspended
    BY <2>5, <2>6, <2>7 DEF MoveAllowed, SuspensionAllowed
  <2>8. CASE r.suspended = Current.suspended
    BY <2>5, <2>6, <2>8 DEF MoveAllowed, OrdinaryAllowed, RoleAllows
  <2>9. QED
    BY <2>7, <2>8
<1>2. QED
  BY <1>1, TypeCorrect, PTL DEF Spec, OwnerLetsGo
-----------------------------------------------------------------------------
(* The pages and the engine agree                                          *)

\* The commands leave the record in its phase.
LEMMA CommandsStay ==
    ASSUME NEW c \in Commands
    PROVE  Destination(c) = Current.phase
BY DEF Destination, Commands

\* Whom a form lists as owners of a record that is handed over.
LEMMA ListedAreActive ==
    ASSUME NEW c \in Commands, HandsOver(c), NEW u \in User, NEW o \in PotentialOwners(c, u)
    PROVE  o \in User /\ account[o] = "active"
BY DEF PotentialOwners, OthersThan, Candidates

\* Suspending and resuming in place, by the holder or an admin of the phase.
LEMMA SuspensionPasses ==
    ASSUME Tracked, Valid, NEW u \in User, NEW o \in Owner, NEW s \in BOOLEAN, NEW imp \in Owner,
           account[u] = "active",
           o # NoUser => account[o] = "active",
           Current.suspended = ~s,
           OwnedBy(Current, u, imp) \/ (~s /\ CanAdmin(u))
    PROVE  Passes(Ask(u, Current.phase, o, s, imp))
BY DEF Ask, Passes, MoveAllowed, BothActive, IsChange, SuspensionAllowed

\* No page offers a command that the engine then refuses.
THEOREM OffersAreKept == Spec => []OfferedIsAllowed
<1>1. TypeOK => OfferedIsAllowed
  <2> SUFFICES ASSUME TypeOK, Tracked, Valid,
                      NEW pack \in Packs, NEW c \in Commands, NEW u \in User,
                      NEW imp \in Contexts(u),
                      NEW o \in IF HandsOver(c) THEN PotentialOwners(c, u)
                                                ELSE {DescribedOwner(c, u)},
                      account[u] = "active",
                      Offers(pack, c, u, imp),
                      o # NoUser => Qualified(o, Current.phase),
                      HandsOver(c) => o # Current.owner,
                      GateOpen(u, Current.phase, Current.phase)
               PROVE  Passes(DescribedAsk(c, u, o, imp))
    BY DEF OfferedIsAllowed
  <2>1. DescribedAsk(c, u, o, imp) = Ask(u, Current.phase, o, c = "suspend", imp)
    BY CommandsStay DEF DescribedAsk
  <2>2. imp \in Owner
    BY UserAssumption DEF Contexts, Owner
  <2>3. HandsOver(c) => o \in User /\ account[o] = "active"
    BY ListedAreActive
  <2>4. o \in Owner /\ (o # NoUser => account[o] = "active")
    <3>1. ~HandsOver(c) => o \in {NoUser, u}
      BY DEF HandsOver, DescribedOwner, Commands
    <3>2. QED
      BY <2>3, <3>1 DEF Owner
  <2>5. OffersCommand(pack, c, u, imp)
    <3>1. Len(states) > 1 => Previous.phase \in Phase
      BY CurrentIsTyped DEF StateRow
    <3>2. OffersReject(u, imp) => Len(states) > 1
      BY DEF OffersReject
    <3>3. c \notin Phase /\ c # "reject"
      BY ButtonAssumption DEF Commands
    <3>4. QED
      BY <3>1, <3>2, <3>3 DEF Offers
  <2>6. Current.suspended \in BOOLEAN
    BY CurrentIsTyped DEF StateRow
  <2>7. u # NoUser
    BY UserAssumption
  <2>8. ASSUME ~Current.suspended,
               o = NoUser => Declared[Current.phase].release # "no",
               o # Current.owner \/ imp # HolderContext(Current),
               \/ CanAdmin(u)
               \/ OwnedBy(Current, u, imp) /\ (o = NoUser \/ CanDelegate)
               \/ u = o /\ Current.owner \in {NoUser, o}
        PROVE  Passes(Ask(u, Current.phase, o, FALSE, imp))
    <3>1. o # NoUser => account[o] = "active" /\ Qualified(o, Current.phase)
      BY <2>4
    <3>2. QED
      BY <2>2, <2>4, <2>8, <3>1, StayPasses
  <2>9. CASE pack = "django"
    <3>1. DjangoCommand(c, u, imp)
      BY <2>5, <2>9 DEF OffersCommand
    <3>2. CASE c = "take-ownership"
      <4>1. o = u
        BY <3>2 DEF HandsOver, DescribedOwner
      <4>2. CanTake(u, imp)
        BY <3>1, <3>2 DEF DjangoCommand
      <4>3. QED
        BY <2>1, <3>2, <4>1, <4>2 DEF CanTake, Passes
    <3>3. CASE c = "assign"
      <4>1. CanAdmin(u) /\ o # Current.owner /\ o \in User
        BY <2>3, <3>1, <3>3 DEF DjangoCommand, HandsOver
      <4>2. Ask(u, Current.phase, o, c = "suspend", imp) = Ask(u, Current.phase, o, FALSE, imp)
        BY <3>3 DEF Ask
      <4>3. CASE Current.suspended
        <5>1. Current.suspended = TRUE
          BY <2>6, <4>3
        <5>2. Passes(Ask(u, Current.phase, o, FALSE, imp))
          BY <2>2, <2>4, <4>1, <5>1, SuspensionPasses
        <5>3. QED
          BY <2>1, <4>2, <5>2
      <4>4. CASE ~Current.suspended
        BY <2>1, <2>8, <4>1, <4>2, <4>4, UserAssumption
      <4>5. QED
        BY <4>3, <4>4
    <3>4. CASE c \in {"suspend", "resume"}
      <4>1. OwnedBy(Current, u, imp) /\ (Current.suspended <=> c # "suspend")
        BY <3>1, <3>4 DEF DjangoCommand
      <4>2. QED
        BY <2>1, <2>2, <2>4, <2>6, <4>1, SuspensionPasses
    <3>5. CASE c = "delegate"
      <4>1. OwnedBy(Current, u, imp) /\ ~Current.suspended /\ CanDelegate /\ o # Current.owner
        BY <3>1, <3>5 DEF DjangoCommand, HandsOver
      <4>2. o \in User
        BY <2>3, <3>5 DEF HandsOver
      <4>3. Ask(u, Current.phase, o, c = "suspend", imp) = Ask(u, Current.phase, o, FALSE, imp)
        BY <3>5 DEF Ask
      <4>4. QED
        BY <2>1, <2>8, <4>1, <4>2, <4>3, UserAssumption
    <3>6. CASE c = "release"
      <4>1. OwnedBy(Current, u, imp) /\ CanRelease /\ o = NoUser
        BY <3>1, <3>6 DEF DjangoCommand, HandsOver, DescribedOwner
      <4>2. Ask(u, Current.phase, o, c = "suspend", imp) = Ask(u, Current.phase, o, FALSE, imp)
        BY <3>6 DEF Ask
      <4>3. QED
        BY <2>1, <2>8, <4>1, <4>2 DEF CanRelease
    <3>7. c # "reassign"
      BY <3>1 DEF DjangoCommand
    <3>8. QED
      BY <3>2, <3>3, <3>4, <3>5, <3>6, <3>7 DEF Commands
  <2>10. CASE pack = "sebastian"
    <3>1. SebastianCommand(c, u, imp)
      BY <2>5, <2>10 DEF OffersCommand
    <3>2. CASE c \in {"suspend", "resume"}
      <4>1. /\ Current.suspended <=> c # "suspend"
            /\ OwnedBy(Current, u, imp) \/ (c # "suspend" /\ CanAdmin(u))
        BY <3>1, <3>2 DEF SebastianCommand
      <4>2. QED
        BY <2>1, <2>2, <2>4, <2>6, <4>1, SuspensionPasses
    <3>3. CASE c \notin {"suspend", "resume"}
      <4>1. ~Current.suspended
        BY <3>1, <3>3 DEF SebastianCommand
      <4>2. Ask(u, Current.phase, o, c = "suspend", imp) = Ask(u, Current.phase, o, FALSE, imp)
        BY <3>3 DEF Ask
      <4>3. CASE c = "take-ownership"
        <5>1. o = u
          BY <4>3 DEF HandsOver, DescribedOwner
        <5>2. \/ Current.owner = NoUser
              \/ ~OwnedBy(Current, u, imp) /\ (CanAdmin(u) \/ Current.owner = u)
          BY <3>1, <4>1, <4>3 DEF SebastianCommand
        <5>3. u # Current.owner \/ imp # HolderContext(Current)
          BY <2>7, <5>2 DEF OwnedBy
        <5>4. QED
          BY <2>1, <2>7, <2>8, <4>1, <4>2, <5>1, <5>2, <5>3
      <4>4. CASE c \in {"reassign", "delegate"}
        <5>1. CanAdmin(u) \/ (OwnedBy(Current, u, imp) /\ CanDelegate)
          BY <3>1, <4>1, <4>4 DEF SebastianCommand
        <5>2. o \in User /\ o # Current.owner
          BY <2>3, <4>4 DEF HandsOver
        <5>3. QED
          BY <2>1, <2>8, <4>1, <4>2, <5>1, <5>2, UserAssumption
      <4>5. CASE c = "release"
        <5>1. OwnedBy(Current, u, imp) /\ CanRelease /\ o = NoUser
          BY <3>1, <4>1, <4>5 DEF SebastianCommand, HandsOver, DescribedOwner
        <5>2. QED
          BY <2>1, <2>8, <4>1, <4>2, <5>1 DEF CanRelease
      <4>6. c # "assign"
        BY <3>1, <4>1 DEF SebastianCommand
      <4>7. QED
        BY <3>3, <4>3, <4>4, <4>5, <4>6 DEF Commands
    <3>4. QED
      BY <3>2, <3>3
  <2>11. QED
    BY <2>9, <2>10 DEF Packs
<1>2. QED
  BY <1>1, TypeCorrect, PTL

\* The kinds from which a reject leads back, and the reject itself: within a
\* phase they are given to a record that changes hands.
ReturnKinds == {"assign", "reassign", "change_assign", "delegate", "resubmit", "reject"}

HandedOver ==
    \A i \in 2..Len(states) :
        states[i].kind \in ReturnKinds /\ states[i].phase = states[i - 1].phase
            => states[i].owner # states[i].user

LEMMA StayingKinds ==
    ASSUME TypeOK, HandedOver, Tracked, NEW r \in Call, r.phase = Current.phase,
           KindOf(r, Unforced) \in ReturnKinds
    PROVE  r.owner # r.user
<1>1. ComputedKind(r) \in ReturnKinds
  BY DEF KindOf, Unforced
<1>2. ~r.suspended
  BY <1>1 DEF ComputedKind, ReturnKinds
<1>3. CASE IsReturn(r) /\ Current.kind \in ReturnKinds
  <2>1. Len(states) \in 2..Len(states) /\ Previous.phase = Current.phase
    <3>1. Len(states) \in Nat /\ Len(states) > 1
      BY <1>3, CurrentIsTyped DEF IsReturn
    <3>2. Previous.phase = Current.phase
      BY <1>3 DEF IsReturn
    <3>3. Len(states) \in 2..Len(states)
      BY <3>1 DEF TypeOK
    <3>4. QED
      BY <3>2, <3>3
  <2>2. Current.owner # Current.user
    BY <1>3, <2>1 DEF HandedOver, Current, Previous
  <2>3. QED
    BY <1>3, <2>2 DEF IsReturn
<1>4. CASE ~(IsReturn(r) /\ Current.kind \in ReturnKinds)
  <2>1. ComputedKind(r) = SamePhaseKind(r)
    BY <1>2, <1>4 DEF ComputedKind, ReturnKinds
  <2>2. HeldKind(r) \notin ReturnKinds
    BY DEF HeldKind, ReturnKinds
  <2>3. QED
    BY <1>1, <2>1, <2>2, UserAssumption DEF SamePhaseKind, ReturnKinds
<1>5. QED
  BY <1>3, <1>4

LEMMA HandedOverStep ==
    ASSUME TypeOK, HandedOver, [Next]_vars
    PROVE  HandedOver'
<1>1. CASE Moves
  <2>1. PICK r \in Call : Perform(r, Unforced)
    BY <1>1, MovesPerform DEF PlainCalls
  <2>2. Unforced \in Forced
    BY DEF Forced
  <2>3. Len(states) \in Nat /\ Len(states') = Len(states) + 1
    BY <2>1, <2>2, PerformAppends DEF TypeOK
  <2> SUFFICES ASSUME NEW i \in 2..Len(states'), states'[i].kind \in ReturnKinds,
                      states'[i].phase = states'[i - 1].phase
               PROVE  states'[i].owner # states'[i].user
    BY DEF HandedOver
  <2>4. CASE i = Len(states')
    <3>1. i = Len(states) + 1 /\ i - 1 = Len(states) /\ Len(states) \in 1..Len(states)
      BY <2>3, <2>4
    <3>2. Tracked /\ states'[i - 1] = Current
      BY <2>1, <2>2, <3>1, PerformAppends DEF Tracked, Current, TypeOK
    <3>3. states'[i] = StateOf(r, Unforced)
      BY <2>1, <2>2, <3>1, PerformAppends
    <3>4. /\ states'[i].kind = KindOf(r, Unforced)
          /\ states'[i].phase = r.phase
          /\ states'[i].owner = r.owner
          /\ states'[i].user = r.user
      BY <3>3 DEF StateOf
    <3>5. QED
      BY <3>2, <3>4, StayingKinds
  <2>5. CASE i # Len(states')
    <3>1. i \in 2..Len(states) /\ i \in 1..Len(states) /\ i - 1 \in 1..Len(states)
      BY <2>3, <2>5
    <3>2. states'[i] = states[i] /\ states'[i - 1] = states[i - 1]
      BY <2>1, <2>2, <3>1, PerformAppends
    <3>3. QED
      BY <3>1, <3>2 DEF HandedOver
  <2>6. QED
    BY <2>4, <2>5
<1>2. CASE states' = <<>> \/ states' = states
  BY <1>2 DEF HandedOver
<1>3. CASE \E u \in User : DeleteAccount(u)
  <2>1. PICK u \in User : DeleteAccount(u)
    BY <1>3
  <2>2. Len(states) \in Nat /\ Len(states') = Len(states)
    BY <2>1, DeletionKeepsRows DEF TypeOK
  <2>3. \A i \in 1..Len(states) : /\ states'[i].kind = states[i].kind
                                  /\ states'[i].phase = states[i].phase
                                  /\ states'[i].owner = states[i].owner
                                  /\ states'[i].user = states[i].user
    BY <2>1, DeletionKeepsRows DEF StateRow
  <2>4. \A i \in 2..Len(states) : i \in 1..Len(states) /\ i - 1 \in 1..Len(states)
    BY <2>2
  <2>5. QED
    BY <2>2, <2>3, <2>4 DEF HandedOver
<1>4. QED
  BY <1>1, <1>2, <1>3, AroundKeepsHistory DEF Next, vars

\* The reject button does what it says: the return to who handed the record
\* over is a change of hands or of phase, and the holder is allowed to make it.
THEOREM RejectsAreKept == Spec => []RejectIsAllowed
<1>1. TypeOK /\ HandedOver => RejectIsAllowed
  <2> SUFFICES ASSUME TypeOK, HandedOver, Tracked, Valid,
                      NEW u \in User, NEW imp \in Owner,
                      account[u] = "active",
                      OffersReject(u, imp),
                      Previous.phase = Current.phase => Declared[Current.phase].delegate,
                      account[Current.user] = "active",
                      Qualified(Current.user, Previous.phase),
                      GateOpen(u, Current.phase, Previous.phase)
               PROVE  Passes(DescribedAsk("reject", u, DescribedOwner("reject", u), imp))
    BY DEF RejectIsAllowed
  <2> DEFINE r == DescribedAsk("reject", u, DescribedOwner("reject", u), imp)
  <2>1. /\ r.user = u
        /\ r.phase = Previous.phase
        /\ r.owner = Current.user
        /\ r.suspended = FALSE
        /\ r.imp = imp
    BY DEF DescribedAsk, DescribedOwner, Destination, Ask
  <2> HIDE DEF r
  <2>2. /\ OwnedBy(Current, u, imp)
        /\ Len(states) > 1
        /\ Current.suspended = FALSE
        /\ CanReject
        /\ Previous.phase \in Reach(Current.phase) \cup {Current.phase}
    BY CurrentIsTyped DEF OffersReject, ReturnIsReject, StateRow
  <2>3. Current.owner = u /\ HolderContext(Current) = imp
    BY <2>2 DEF OwnedBy
  <2>4. Current.user \in User /\ Current.user # NoUser
    BY CurrentIsTyped, UserAssumption DEF StateRow
  <2>5. Previous.phase = Current.phase => Current.user # Current.owner
    <3>1. Len(states) \in 2..Len(states)
      BY <2>2 DEF TypeOK
    <3>2. Current.kind \in ReturnKinds
      BY <2>2 DEF CanReject, ReturnKinds
    <3>3. QED
      BY <3>1, <3>2 DEF HandedOver, Current, Previous
  <2>6. BothActive(r) /\ IsChange(r)
    BY <2>1, <2>5 DEF BothActive, IsChange
  <2>7. RoleAllows(r)
    BY <2>1, <2>3, UserAssumption DEF RoleAllows, OwnedBy
  <2>8. DelegationAllowed(r)
    BY <2>1, <2>2 DEF DelegationAllowed, IsHandOver, CanDelegate
  <2>9. PhaseAllowed(r) /\ NewOwnerAllowed(r)
    BY <2>1, <2>2, <2>4 DEF PhaseAllowed, NewOwnerAllowed
  <2>10. MoveAllowed(r)
    BY <2>1, <2>2, <2>6, <2>7, <2>8, <2>9 DEF MoveAllowed, OrdinaryAllowed
  <2>11. QED
    BY <2>10 DEF Passes, r
<1>2. Init => HandedOver
  BY DEF Init, HandedOver
<1>3. TypeOK /\ HandedOver /\ [Next]_vars => HandedOver'
  BY HandedOverStep
<1>4. QED
  BY <1>1, <1>2, <1>3, TypeCorrect, PTL DEF Spec
=============================================================================
