---------------------------- MODULE DialogProofs ----------------------------
(***************************************************************************)
(* Proofs about the pages, for every configuration, every set of users and *)
(* any number of forms left open.  A form that is posted makes one call of *)
(* transition(), so what EngineProofs shows of such calls holds here too;  *)
(* the rest is about what the forms still say when they are posted.        *)
(***************************************************************************)
EXTENDS DialogProperties, EngineProofs

\* What a form has been filled with: a hand-over names somebody.
IsFilling(f) == f \in Form /\ (HandsOver(f.button) => f.asks /\ f.pick # NoUser)

FormsOK ==
    /\ DOMAIN form \subseteq User
    /\ \A u \in DOMAIN form : IsFilling(form[u]) /\ form[u].seen <= Len(states)

-----------------------------------------------------------------------------
(* A form that is posted makes one call of transition()                    *)

LEMMA LastOwnerIsTyped ==
    ASSUME TypeOK, NEW p \in Phase
    PROVE  LastOwner(p) \in Owner
<1>1. CASE LastIn(p) = {}
  BY <1>1 DEF LastOwner, Owner
<1>2. CASE LastIn(p) # {}
  <2>1. PICK i \in LastIn(p) : LastOwner(p) = states[i].owner
    BY <1>2 DEF LastOwner
  <2>2. Len(states) \in Nat /\ i \in 1..Len(states)
    BY <2>1 DEF LastIn, TypeOK
  <2>3. states[i] \in StateRow
    BY <2>2 DEF TypeOK
  <2>4. QED
    BY <2>1, <2>3 DEF StateRow
<1>3. QED
  BY <1>1, <1>2

LEMMA DestinationIsTyped ==
    ASSUME TypeOK, Tracked, NEW b \in Buttons, b = "reject" => Len(states) > 1
    PROVE  Destination(b) \in Phase
<1>1. Current.phase \in Phase
  BY CurrentIsTyped DEF StateRow
<1>2. Len(states) > 1 => Previous.phase \in Phase
  BY CurrentIsTyped DEF StateRow
<1>3. QED
  BY <1>1, <1>2 DEF Destination, Buttons

LEMMA DescribedIsTyped ==
    ASSUME TypeOK, Tracked, NEW b \in Buttons, b = "reject" => Len(states) > 1, NEW u \in User
    PROVE  DescribedOwner(b, u) \in Owner
<1>1. Current.user \in Owner /\ u \in Owner /\ NoUser \in Owner
  BY CurrentIsTyped DEF StateRow, Owner
<1>2. LastOwner(Destination(b)) \in Owner
  BY DestinationIsTyped, LastOwnerIsTyped
<1>3. LikelyOwner(b, u) \in Owner
  BY <1>1, <1>2 DEF LikelyOwner
<1>4. GuessedOwner(b, u) \in Owner
  BY <1>1, <1>3 DEF GuessedOwner
<1>5. QED
  BY <1>1, <1>4 DEF DescribedOwner

\* What a page gives the user to post.
LEMMA FreshIsFilling ==
    ASSUME TypeOK, NEW u \in User, NEW f \in Fresh(u)
    PROVE  /\ IsFilling(f)
           /\ f.posted = FALSE
           /\ f.seen = Len(states)
           /\ f.imp \in Contexts(u)
           /\ f.asks = ShowsOwner(f.button, u)
           /\ f.pick \in Picks(f.button, u)
           /\ f.pack \in Pages
           /\ Offers(f.pack, f.button, u, f.imp)
<1>1. PICK s \in Shown(u) : f \in Fillings(s, u)
  BY DEF Fresh
<1>2. PICK pick \in Picks(s.button, u), msg \in Messages(s.button, u) : f = Filled(s, u, pick, msg)
  BY <1>1 DEF Fillings
<1>3. /\ s.pack \in Pages
      /\ s.button \in Buttons
      /\ s.imp \in Contexts(u)
      /\ Offers(s.pack, s.button, u, s.imp)
  BY DEF Shown
<1>4. /\ f.pack = s.pack
      /\ f.button = s.button
      /\ f.imp = s.imp
      /\ f.asks = ShowsOwner(s.button, u)
      /\ f.pick = pick
      /\ f.msg = msg
      /\ f.posted = FALSE
      /\ f.seen = Len(states)
  BY <1>2 DEF Filled
<1>5. pick \in Owner
  BY DEF Picks, PotentialOwners, OthersThan, Candidates, Owner
<1>6. HandsOver(s.button) => ShowsOwner(s.button, u) /\ pick # NoUser
  BY UserAssumption DEF HandsOver, ShowsOwner, Picks, PotentialOwners, OthersThan, Candidates
<1>7. s.pack \in Packs
  BY <1>3, DialogAssumption
<1>8. s.imp \in Owner
  BY <1>3, UserAssumption DEF Contexts, Owner
<1>9. ShowsOwner(s.button, u) \in BOOLEAN
  BY DEF ShowsOwner
<1>10. msg \in BOOLEAN
  BY DEF Messages
<1>11. Len(states) \in Nat
  BY DEF TypeOK
<1>12. f \in Form
  BY <1>2, <1>3, <1>5, <1>7, <1>8, <1>9, <1>10, <1>11 DEF Filled, Form
<1>13. QED
  BY <1>2, <1>3, <1>4, <1>6, <1>7, <1>12 DEF IsFilling

LEMMA PostIsCall ==
    ASSUME TypeOK, NEW u \in User, NEW f, IsFilling(f), Submits(u, f)
    PROVE  PostedAsk(u, f) \in Call /\ ForcedKind(f) \in Forced
<1>1. f.button \in Buttons /\ f.pick \in Owner /\ f.imp \in Owner
  BY DEF IsFilling, Form
<1>2. Tracked /\ (f.button = "reject" => Len(states) > 1)
  BY DEF Submits
<1>3. Destination(f.button) \in Phase
  BY <1>1, <1>2, DestinationIsTyped
<1>4. PostedOwner(u, f) \in Owner
  <2>1. DescribedOwner(f.button, u) \in Owner
    BY <1>1, <1>2, DescribedIsTyped
  <2>2. QED
    BY <1>1, <2>1 DEF PostedOwner, Owner
<1>5. PostedAsk(u, f) \in Call
  BY <1>1, <1>3, <1>4 DEF PostedAsk, DescribedAsk, Ask, Call
<1>6. ForcedKind(f) \in Forced
  BY DEF ForcedKind, Forced, Unforced
<1>7. QED
  BY <1>5, <1>6

LEMMA PressPosts ==
    ASSUME TypeOK, NEW u \in User, Press(u)
    PROVE  /\ UNCHANGED form
           /\ \E f \in Fresh(u) : IsFilling(f) /\ Post(u, f)
BY FreshIsFilling DEF Press

LEMMA SubmitPosts ==
    ASSUME FormsOK, NEW u \in User, Submit(u)
    PROVE  /\ u \in DOMAIN form
           /\ IsFilling(form[u])
           /\ Post(u, form[u])
           /\ form' = [form EXCEPT ![u] = Sent(form[u], Len(states'))]
BY DEF Submit, FormsOK

\* Whatever users and administrators do, it is a call of transition(), or
\* happens around the record, or leaves it alone.
LEMMA DialogSteps ==
    ASSUME TypeOK, FormsOK, [DialogNext]_dialogVars
    PROVE  Steps
<1>1. ASSUME NEW u \in User, NEW f, IsFilling(f), Post(u, f)
      PROVE  Calls
  <2>1. Perform(PostedAsk(u, f), ForcedKind(f)) /\ Submits(u, f)
    BY <1>1 DEF Post
  <2>2. PostedAsk(u, f) \in Call /\ ForcedKind(f) \in Forced
    BY <1>1, <2>1, PostIsCall
  <2>3. QED
    BY <2>1, <2>2 DEF Calls
<1>2. CASE \E u \in User, imp \in Owner : Enter(u, imp)
  <2>1. Moves
    BY <1>2 DEF Enter, Moves
  <2>2. QED
    BY <2>1, NextSteps DEF Next
<1>3. CASE \E u \in User : Press(u)
  BY <1>1, <1>3, PressPosts DEF Steps
<1>4. CASE \E u \in User : Submit(u)
  BY <1>1, <1>4, SubmitPosts DEF Steps
<1>5. CASE \E u \in User : Open(u) \/ Cancel(u)
  BY <1>5 DEF Open, Cancel, Steps
<1>6. CASE Elsewhere
  BY <1>6 DEF Elsewhere, Steps
<1>7. CASE UNCHANGED dialogVars
  BY <1>7 DEF dialogVars, vars, Steps
<1>8. QED
  BY <1>2, <1>3, <1>4, <1>5, <1>6, <1>7 DEF DialogNext, DialogMoves

\* The history grows by a call, and only the deletion of the record shortens it.
LEMMA HistoryGrows ==
    ASSUME TypeOK, Steps
    PROVE  /\ Len(states) \in Nat /\ Len(states') \in Nat
           /\ Calls => Len(states') = Len(states) + 1
           /\ Len(states') >= Len(states) \/ (Around /\ Tracked /\ states' = <<>>)
<1>1. Len(states) \in Nat
  BY DEF TypeOK
<1>2. TypeOK' => Len(states') \in Nat
  BY DEF TypeOK
<1>3. Calls => Len(states') = Len(states) + 1
  BY PerformAppends DEF Calls
<1>4. CASE Calls
  BY <1>1, <1>2, <1>3, <1>4, TypeStep
<1>5. CASE Around
  <2>1. states' = <<>> /\ ~Tracked => states' = states
    BY DEF Tracked
  <2>2. (\E u \in User : DeleteAccount(u)) => Len(states') = Len(states)
    BY DeletionKeepsRows
  <2>3. QED
    BY <1>1, <1>2, <1>3, <1>5, <2>1, <2>2, AroundKeepsHistory, TypeStep
<1>6. CASE UNCHANGED vars
  BY <1>1, <1>2, <1>3, <1>6, TypeStep DEF vars
<1>7. QED
  BY <1>4, <1>5, <1>6 DEF Steps

\* A form stays what it is, until it is posted or closed.
LEMMA FormsStep ==
    ASSUME TypeOK, FormsOK, [DialogNext]_dialogVars
    PROVE  FormsOK'
<1>1. Steps
  BY DialogSteps
<1>2. Len(states) \in Nat /\ Len(states') \in Nat
  BY <1>1, HistoryGrows
<1>3. ASSUME UNCHANGED form, Len(states') >= Len(states)
      PROVE  FormsOK'
  BY <1>2, <1>3 DEF FormsOK, IsFilling, Form
<1>4. Calls \/ UNCHANGED vars => Len(states') >= Len(states)
  BY <1>1, <1>2, HistoryGrows DEF vars
<1>5. ASSUME NEW u \in User, NEW f, IsFilling(f), Post(u, f)
      PROVE  Calls
  BY <1>5, PostIsCall DEF Post, Calls
<1>6. CASE \E u \in User, imp \in Owner : Enter(u, imp)
  <2>1. Moves /\ UNCHANGED form
    BY <1>6 DEF Enter, Moves
  <2>2. Calls
    BY <2>1, MovesPerform DEF PlainCalls, Calls, Forced
  <2>3. QED
    BY <1>3, <1>4, <2>1, <2>2
<1>7. CASE \E u \in User : Press(u)
  BY <1>3, <1>4, <1>5, <1>7, PressPosts
<1>8. CASE \E u \in User : Submit(u)
  <2>1. PICK u \in User : Submit(u)
    BY <1>8
  <2>2. /\ u \in DOMAIN form
        /\ IsFilling(form[u])
        /\ form' = [form EXCEPT ![u] = Sent(form[u], Len(states'))]
        /\ Len(states') >= Len(states)
    BY <1>4, <1>5, <2>1, SubmitPosts
  <2>3. IsFilling(Sent(form[u], Len(states')))
    BY <1>2, <2>2 DEF Sent, IsFilling, Form
  <2>4. DOMAIN form' = DOMAIN form
    BY <2>2
  <2>5. form'[u] = Sent(form[u], Len(states'))
    BY <2>2
  <2>6. Sent(form[u], Len(states')).seen = Len(states')
    BY DEF Sent
  <2>7. ASSUME NEW v \in DOMAIN form
        PROVE  IsFilling(form'[v]) /\ form'[v].seen <= Len(states')
    <3>1. CASE v = u
      BY <1>2, <2>3, <2>5, <2>6, <3>1
    <3>2. CASE v # u
      <4>1. form'[v] = form[v]
        BY <2>2, <3>2
      <4>2. IsFilling(form[v]) /\ form[v].seen <= Len(states)
        BY DEF FormsOK
      <4>3. QED
        BY <1>2, <2>2, <4>1, <4>2 DEF IsFilling, Form
    <3>3. QED
      BY <3>1, <3>2
  <2>8. QED
    BY <2>4, <2>7 DEF FormsOK
<1>9. CASE \E u \in User : Open(u)
  <2>1. PICK u \in User : Open(u)
    BY <1>9
  <2>2. PICK f \in Fresh(u) :
            form' = [v \in DOMAIN form \cup {u} |-> IF v = u THEN f ELSE form[v]]
    BY <2>1 DEF Open
  <2>3. states' = states
    BY <2>1 DEF Open, vars
  <2>4. IsFilling(f) /\ f.seen = Len(states)
    BY FreshIsFilling
  <2>5. QED
    BY <1>2, <2>2, <2>3, <2>4 DEF FormsOK
<1>10. CASE \E u \in User : Cancel(u)
  BY <1>10 DEF Cancel, FormsOK, vars
<1>11. CASE Elsewhere
  <2>1. CASE Tracked /\ states' = <<>>
    <3>1. form' = [u \in {} |-> <<>>]
      BY <1>11, <2>1 DEF Elsewhere
    <3>2. DOMAIN form' = {}
      BY <3>1
    <3>3. QED
      BY <3>2 DEF FormsOK
  <2>2. CASE ~(Tracked /\ states' = <<>>)
    <3>1. UNCHANGED form
      BY <1>11, <2>2 DEF Elsewhere
    <3>2. QED
      BY <1>1, <1>3, <2>2, <3>1, HistoryGrows
  <2>3. QED
    BY <2>1, <2>2
<1>12. CASE UNCHANGED dialogVars
  BY <1>3, <1>4, <1>12 DEF dialogVars, vars
<1>13. QED
  BY <1>6, <1>7, <1>8, <1>9, <1>10, <1>11, <1>12 DEF DialogNext, DialogMoves

LEMMA DialogStarts == DialogInit => TypeOK /\ FormsOK /\ Init
<1> SUFFICES ASSUME DialogInit PROVE TypeOK /\ FormsOK /\ Init
  OBVIOUS
<1>1. Init /\ form = [u \in {} |-> <<>>]
  BY DEF DialogInit
<1>2. DOMAIN form = {}
  BY <1>1
<1>3. QED
  BY <1>1, <1>2, InitTyped DEF FormsOK

LEMMA FormsHold == DialogSpec => [](TypeOK /\ FormsOK)
<1>1. TypeOK /\ FormsOK /\ [DialogNext]_dialogVars => (TypeOK /\ FormsOK)'
  BY DialogSteps, TypeStep, FormsStep
<1>2. QED
  BY <1>1, DialogStarts, PTL DEF DialogSpec

\* Type correctness of the dialog, and no form runs ahead of the history.
THEOREM DialogTypeCorrect == DialogSpec => []DialogTypeOK
<1>1. TypeOK /\ FormsOK => DialogTypeOK
  BY DEF DialogTypeOK, FormsOK, IsFilling
<1>2. QED
  BY <1>1, FormsHold, PTL

-----------------------------------------------------------------------------
(* The history, when it is written through the pages                       *)

LEMMA DialogHistory == DialogSpec => [](SuspendedFrozen /\ PhaseMovesByHolder)
<1>1. TypeOK /\ FormsOK /\ SuspendedFrozen /\ PhaseMovesByHolder /\ [DialogNext]_dialogVars
        => (SuspendedFrozen /\ PhaseMovesByHolder)'
  BY DialogSteps, HistoryStep
<1>2. DialogInit => SuspendedFrozen /\ PhaseMovesByHolder
  BY DialogStarts, InitHistory
<1>3. QED
  BY <1>1, <1>2, FormsHold, PTL DEF DialogSpec

\* No form, however old, moves a suspended record out of its phase.
THEOREM DialogKeepsSuspensions == DialogSpec => []SuspendedFrozen
BY DialogHistory, PTL

\* No form, however old, moves a record for somebody who does not hold it.
THEOREM DialogMovesByHolder == DialogSpec => []PhaseMovesByHolder
BY DialogHistory, PTL
-----------------------------------------------------------------------------
(* What the pages keep users from                                          *)

\* What a call leaves behind.
LEMMA PostAppends ==
    ASSUME TypeOK, NEW u \in User, NEW f, IsFilling(f), Post(u, f)
    PROVE  /\ Tracked
           /\ Tracked'
           /\ Len(states') = Len(states) + 1
           /\ Current' = StateOf(PostedAsk(u, f), ForcedKind(f))
<1>1. Perform(PostedAsk(u, f), ForcedKind(f)) /\ Submits(u, f)
  BY DEF Post
<1>2. PostedAsk(u, f) \in Call /\ ForcedKind(f) \in Forced
  BY <1>1, PostIsCall
<1>3. Tracked
  BY <1>1 DEF Submits
<1>4. /\ Len(states) \in Nat
      /\ Len(states') = Len(states) + 1
      /\ states' \in Seq(StateRow)
      /\ states'[Len(states) + 1] = StateOf(PostedAsk(u, f), ForcedKind(f))
  BY <1>1, <1>2, PerformAppends DEF TypeOK
<1>5. Tracked'
  BY <1>4 DEF Tracked
<1>6. QED
  BY <1>3, <1>4, <1>5 DEF Current

\* What happens around the record changes the current state only in that the
\* name of an impersonator may disappear.
LEMMA AroundKeepsCurrent ==
    ASSUME TypeOK, Around, Tracked, states' # <<>>
    PROVE  /\ Len(states') = Len(states)
           /\ Current'.phase = Current.phase
           /\ Current'.owner = Current.owner
           /\ Current'.suspended = Current.suspended
           /\ HolderContext(Current)' \in {HolderContext(Current), NoUser}
<1>1. Len(states) \in 1..Len(states)
  BY CurrentIsTyped
<1>2. CASE states' = states
  BY <1>2 DEF Current, HolderContext
<1>3. CASE \E u \in User : DeleteAccount(u)
  <2>1. PICK u \in User : DeleteAccount(u)
    BY <1>3
  <2>2. Len(states') = Len(states)
    BY <2>1, DeletionKeepsRows
  <2>3. Current' = states'[Len(states)]
    BY <2>2 DEF Current
  <2>4. HolderContext(Current)' = HolderContext(states'[Len(states)])
    BY <2>3 DEF HolderContext
  <2>5. QED
    BY <1>1, <2>1, <2>2, <2>3, <2>4, DeletionKeepsHolder DEF Current
<1>4. QED
  BY <1>2, <1>3, AroundKeepsHistory

\* Who is to own the record once a form is posted, other than by owner_mode.
LEMMA SuspenderOwns ==
    ASSUME TypeOK, NEW u \in User, NEW f, IsFilling(f), f.button = "suspend"
    PROVE  PostedOwner(u, f) # NoUser
<1>1. f.button \notin Phase \cup {"release"}
  BY ButtonAssumption DEF Commands
<1>2. DescribedOwner(f.button, u) = u
  BY DEF DescribedOwner
<1>3. QED
  BY <1>1, <1>2, UserAssumption DEF PostedOwner

LEMMA SuspendersStep ==
    ASSUME TypeOK, FormsOK, SuspendedIsHeld, [DialogNext]_dialogVars
    PROVE  SuspendedIsHeld'
<1>1. ASSUME NEW u \in User, NEW f, IsFilling(f), Post(u, f)
      PROVE  SuspendedIsHeld'
  <2>1. Current' = StateOf(PostedAsk(u, f), ForcedKind(f))
    BY <1>1, PostAppends
  <2>2. Current'.owner = PostedOwner(u, f) /\ Current'.suspended = (f.button = "suspend")
    BY <2>1 DEF StateOf, PostedAsk, DescribedAsk, Ask
  <2>3. QED
    BY <1>1, <2>2, SuspenderOwns DEF SuspendedIsHeld
<1>2. CASE \E u \in User, imp \in Owner : Enter(u, imp)
  <2>1. PICK u \in User, imp \in Owner : Create(u, imp)
    BY <1>2 DEF Enter
  <2>2. ~Tracked /\ Perform(Ask(u, StartPhase, u, FALSE, imp), Unforced)
    BY <2>1 DEF Create, Unforced
  <2>3. states' = Append(states, StateOf(Ask(u, StartPhase, u, FALSE, imp), Unforced))
    BY <2>2 DEF Perform
  <2>4. Current' = StateOf(Ask(u, StartPhase, u, FALSE, imp), Unforced)
    BY <2>2, <2>3 DEF Current, Tracked, TypeOK
  <2>5. Current'.suspended = FALSE
    BY <2>4 DEF StateOf, Ask
  <2>6. QED
    BY <2>5 DEF SuspendedIsHeld
<1>3. CASE \E u \in User : Press(u)
  BY <1>1, <1>3, PressPosts
<1>4. CASE \E u \in User : Submit(u)
  BY <1>1, <1>4, SubmitPosts
<1>5. CASE states' = states
  BY <1>5 DEF SuspendedIsHeld, Tracked, Current
<1>6. CASE Around
  <2>1. CASE states' = <<>>
    BY <2>1 DEF SuspendedIsHeld, Tracked
  <2>2. CASE states' # <<>> /\ Tracked
    BY <1>6, <2>2, AroundKeepsCurrent DEF SuspendedIsHeld
  <2>3. CASE states' # <<>> /\ ~Tracked
    <3>1. Len(states) = 0
      BY <2>3 DEF Tracked
    <3>2. ~\E u \in User : DeleteAccount(u)
      BY <2>3, <3>1, DeletionKeepsRows
    <3>3. QED
      BY <1>5, <1>6, <2>3, <3>2, AroundKeepsHistory
  <2>4. QED
    BY <2>1, <2>2, <2>3
<1>7. QED
  BY <1>2, <1>3, <1>4, <1>5, <1>6
     DEF DialogNext, DialogMoves, Open, Cancel, Elsewhere, dialogVars, vars

\* A suspended record always has an owner who can resume it.
THEOREM SuspendersStay == DialogSpec => []SuspendedIsHeld
<1>1. TypeOK /\ FormsOK /\ SuspendedIsHeld /\ [DialogNext]_dialogVars => SuspendedIsHeld'
  BY SuspendersStep
<1>2. DialogInit => SuspendedIsHeld
  BY DEF DialogInit, Init, SuspendedIsHeld, Tracked
<1>3. QED
  BY <1>1, <1>2, FormsHold, PTL DEF DialogSpec

-----------------------------------------------------------------------------
(* Posting twice                                                           *)

\* The forms that RepostRefused is about, posted, when nothing came after.
Done(f) ==
    /\ f.posted
    /\ f.seen = Len(states)
    /\ f.imp = NoUser
    /\ f.button # "reject"
    /\ f.button \in Phase => f.pack = "django"

\* For these the owner does not depend on the state in which they are posted.
FormOwner(u, f) ==
    IF f.asks /\ f.pick # NoUser THEN f.pick
    ELSE IF f.button \in Phase \cup {"release"} THEN NoUser
    ELSE u

LEMMA OwnerIsFixed ==
    ASSUME NEW u \in User, NEW f, IsFilling(f), f.button # "reject",
           f.button \in Phase => f.pack = "django"
    PROVE  PostedOwner(u, f) = FormOwner(u, f)
<1>1. f.button \in Commands \cup Phase
  BY DEF IsFilling, Form, Buttons
<1>2. f.button \in Commands => f.button \notin Phase
  BY ButtonAssumption
<1>3. CASE f.asks /\ f.pick # NoUser
  BY <1>3 DEF PostedOwner, FormOwner
<1>4. CASE ~(f.asks /\ f.pick # NoUser) /\ f.button \in Phase
  BY <1>4 DEF PostedOwner, FormOwner
<1>5. CASE ~(f.asks /\ f.pick # NoUser) /\ f.button \notin Phase
  <2>1. f.button \in {"take-ownership", "suspend", "resume", "release"}
    BY <1>1, <1>5 DEF Commands, HandsOver, IsFilling
  <2>2. QED
    BY <1>5, <2>1 DEF PostedOwner, FormOwner, DescribedOwner
<1>6. QED
  BY <1>3, <1>4, <1>5

\* The record is as the form wants it.
AsWanted(u, f, st) ==
    /\ f.button \in Phase => st.phase = f.button
    /\ st.owner = FormOwner(u, f)
    /\ st.suspended = (f.button = "suspend")
    /\ HolderContext(st) = NoUser

DoneIsAsWanted ==
    \A u \in DOMAIN form : Done(form[u]) => Tracked /\ AsWanted(u, form[u], Current)

\* There is nothing left to change for a form that has been posted.
LEMMA NothingLeft ==
    ASSUME Tracked, NEW u \in User, NEW f, IsFilling(f), Done(f), AsWanted(u, f, Current)
    PROVE  ~Accepts(u, f)
<1>1. PostedOwner(u, f) = Current.owner
  BY OwnerIsFixed DEF Done, AsWanted
<1>2. Destination(f.button) = Current.phase
  <2>1. f.button \in Commands \cup Phase
    BY DEF Done, IsFilling, Form, Buttons
  <2>2. f.button \in Phase => f.button \notin Commands
    BY ButtonAssumption
  <2>3. QED
    BY <2>1, <2>2 DEF Destination, Done, AsWanted
<1>3. /\ PostedAsk(u, f).phase = Current.phase
      /\ PostedAsk(u, f).owner = Current.owner
      /\ PostedAsk(u, f).suspended = Current.suspended
      /\ PostedAsk(u, f).imp = HolderContext(Current)
  BY <1>1, <1>2 DEF PostedAsk, DescribedAsk, Ask, Done, AsWanted
<1>4. ~IsChange(PostedAsk(u, f))
  BY <1>3 DEF IsChange
<1>5. QED
  BY <1>4 DEF Accepts, Passes, MoveAllowed

LEMMA PostDoes ==
    ASSUME TypeOK, NEW u \in User, NEW f, IsFilling(f), Post(u, f),
           f.imp = NoUser, f.button # "reject", f.button \in Phase => f.pack = "django"
    PROVE  Tracked' /\ AsWanted(u, f, Current')
<1>1. Tracked' /\ Current' = StateOf(PostedAsk(u, f), ForcedKind(f))
  BY PostAppends
<1>2. PostedOwner(u, f) = FormOwner(u, f)
  BY OwnerIsFixed
<1>3. f.button \in Phase => Destination(f.button) = f.button
  BY ButtonAssumption DEF Destination
<1>4. /\ Current'.phase = Destination(f.button)
      /\ Current'.owner = FormOwner(u, f)
      /\ Current'.suspended = (f.button = "suspend")
      /\ Current'.imp = NoUser
  BY <1>1, <1>2 DEF StateOf, PostedAsk, DescribedAsk, Ask
<1>5. HolderContext(Current') = NoUser
  BY <1>4 DEF HolderContext
<1>6. QED
  BY <1>1, <1>3, <1>4, <1>5 DEF AsWanted

LEMMA DoneStep ==
    ASSUME TypeOK, FormsOK, DoneIsAsWanted, [DialogNext]_dialogVars
    PROVE  DoneIsAsWanted'
<1>1. Steps
  BY DialogSteps
<1>2. /\ Len(states) \in Nat
      /\ Calls => Len(states') = Len(states) + 1
  BY <1>1, HistoryGrows
<1>3. \A u \in DOMAIN form : u \in User /\ form[u].seen \in Nat /\ form[u].seen <= Len(states)
  BY DEF FormsOK, IsFilling, Form
<1>4. ASSUME Calls, UNCHANGED form
      PROVE  DoneIsAsWanted'
  <2>1. \A u \in DOMAIN form : form[u].seen # Len(states')
    BY <1>2, <1>3, <1>4
  <2>2. QED
    BY <1>4, <2>1 DEF DoneIsAsWanted, Done
<1>5. ASSUME NEW u \in User, NEW f, IsFilling(f), Post(u, f)
      PROVE  Calls
  BY <1>5, PostIsCall DEF Post, Calls
<1>6. CASE \E u \in User, imp \in Owner : Enter(u, imp)
  <2>1. Moves /\ UNCHANGED form
    BY <1>6 DEF Enter, Moves
  <2>2. Calls
    BY <2>1, MovesPerform DEF PlainCalls, Calls, Forced
  <2>3. QED
    BY <1>4, <2>1, <2>2
<1>7. CASE \E u \in User : Press(u)
  BY <1>4, <1>5, <1>7, PressPosts
<1>8. CASE \E u \in User : Submit(u)
  <2>1. PICK u \in User : Submit(u)
    BY <1>8
  <2>2. /\ u \in DOMAIN form
        /\ IsFilling(form[u])
        /\ Post(u, form[u])
        /\ form' = [form EXCEPT ![u] = Sent(form[u], Len(states'))]
    BY <2>1, SubmitPosts
  <2>3. Len(states') = Len(states) + 1
    BY <1>2, <1>5, <2>2
  <2>4. /\ DOMAIN form' = DOMAIN form
        /\ form'[u] = Sent(form[u], Len(states'))
        /\ \A v \in DOMAIN form : v # u => form'[v] = form[v]
    BY <2>2
  <2>5. \A v \in DOMAIN form : v # u => form'[v].seen # Len(states')
    BY <1>2, <1>3, <2>3, <2>4
  <2>6. ASSUME Done(form[u])' PROVE Tracked' /\ AsWanted(u, form'[u], Current')
    <3>1. /\ form'[u].imp = form[u].imp
          /\ form'[u].button = form[u].button
          /\ form'[u].pack = form[u].pack
          /\ form'[u].asks = form[u].asks
          /\ form'[u].pick = form[u].pick
      BY <2>4 DEF Sent
    <3>2. /\ form[u].imp = NoUser
          /\ form[u].button # "reject"
          /\ form[u].button \in Phase => form[u].pack = "django"
      BY <2>6, <3>1 DEF Done
    <3>3. Tracked' /\ AsWanted(u, form[u], Current')
      BY <2>2, <3>2, PostDoes
    <3>4. QED
      BY <3>1, <3>3 DEF AsWanted, FormOwner
  <2>7. QED
    BY <2>4, <2>5, <2>6 DEF DoneIsAsWanted, Done, AsWanted, FormOwner, HolderContext
<1>9. CASE \E u \in User : Open(u)
  <2>1. PICK u \in User : Open(u)
    BY <1>9
  <2>2. PICK f \in Fresh(u) :
            form' = [v \in DOMAIN form \cup {u} |-> IF v = u THEN f ELSE form[v]]
    BY <2>1 DEF Open
  <2>3. states' = states /\ f.posted = FALSE
    BY <2>1, FreshIsFilling DEF Open, vars
  <2>4. \A v \in DOMAIN form' : v # u => v \in DOMAIN form /\ form'[v] = form[v]
    BY <2>2
  <2>5. u \in DOMAIN form' => form'[u] = f
    BY <2>2
  <2>6. QED
    BY <2>3, <2>4, <2>5
       DEF DoneIsAsWanted, Done, AsWanted, FormOwner, HolderContext, Tracked, Current
<1>10. CASE \E u \in User : Cancel(u)
  BY <1>10 DEF Cancel, vars, DoneIsAsWanted, Done, AsWanted, FormOwner, HolderContext,
               Tracked, Current
<1>11. CASE Elsewhere
  <2>1. CASE Tracked /\ states' = <<>>
    <3>1. form' = [u \in {} |-> <<>>]
      BY <1>11, <2>1 DEF Elsewhere
    <3>2. DOMAIN form' = {}
      BY <3>1
    <3>3. QED
      BY <3>2 DEF DoneIsAsWanted
  <2>2. CASE Tracked /\ states' # <<>>
    <3>1. UNCHANGED form /\ Around
      BY <1>11, <2>2 DEF Elsewhere
    <3>2. /\ Len(states') = Len(states)
          /\ Current'.phase = Current.phase
          /\ Current'.owner = Current.owner
          /\ Current'.suspended = Current.suspended
          /\ HolderContext(Current)' \in {HolderContext(Current), NoUser}
      BY <2>2, <3>1, AroundKeepsCurrent
    <3>3. HolderContext(Current)' = HolderContext(Current')
      BY DEF HolderContext
    <3>4. ASSUME NEW u \in DOMAIN form, Done(form[u])'
          PROVE  Tracked' /\ AsWanted(u, form[u], Current')
      <4>1. Done(form[u])
        BY <3>1, <3>2, <3>4 DEF Done
      <4>2. AsWanted(u, form[u], Current)
        BY <4>1 DEF DoneIsAsWanted
      <4>3. QED
        BY <2>2, <3>2, <3>3, <4>2 DEF AsWanted, Tracked
    <3>5. QED
      BY <3>1, <3>4 DEF DoneIsAsWanted, AsWanted, FormOwner, HolderContext
  <2>3. CASE ~Tracked
    <3>1. UNCHANGED form /\ Around
      BY <1>11, <2>3 DEF Elsewhere
    <3>2. states = <<>>
      BY <2>3 DEF Tracked
    <3>3. Len(states) = 0
      BY <3>2
    <3>4. ~\E u \in User : DeleteAccount(u) /\ states' # <<>>
      BY <3>3, DeletionKeepsRows
    <3>5. states' = states
      BY <3>1, <3>2, <3>4, AroundKeepsHistory
    <3>6. QED
      BY <3>1, <3>5
         DEF DoneIsAsWanted, Done, AsWanted, FormOwner, HolderContext, Tracked, Current
  <2>4. QED
    BY <2>1, <2>2, <2>3
<1>12. CASE UNCHANGED dialogVars
  BY <1>12 DEF dialogVars, DoneIsAsWanted, Done, AsWanted, FormOwner, HolderContext,
               Tracked, Current
<1>13. QED
  BY <1>6, <1>7, <1>8, <1>9, <1>10, <1>11, <1>12 DEF DialogNext, DialogMoves

\* A form that is posted twice in a row moves the record once.
THEOREM RepostsFail == DialogSpec => []RepostRefused
<1>1. ASSUME FormsOK, DoneIsAsWanted
      PROVE  RepostRefused
  <2> SUFFICES ASSUME NEW u \in DOMAIN form, Done(form[u])
               PROVE  ~Accepts(u, form[u])
    BY DEF RepostRefused, Done
  <2>1. u \in User /\ IsFilling(form[u])
    BY <1>1 DEF FormsOK
  <2>2. Tracked /\ AsWanted(u, form[u], Current)
    BY <1>1 DEF DoneIsAsWanted
  <2>3. QED
    BY <2>1, <2>2, NothingLeft
<1>2. DialogInit => DoneIsAsWanted
  <2>1. DialogInit => DOMAIN form = {}
    BY DEF DialogInit
  <2>2. QED
    BY <2>1 DEF DoneIsAsWanted
<1>3. TypeOK /\ FormsOK /\ DoneIsAsWanted /\ [DialogNext]_dialogVars => DoneIsAsWanted'
  BY DoneStep
<1>4. QED
  BY <1>1, <1>2, <1>3, FormsHold, PTL DEF DialogSpec

-----------------------------------------------------------------------------
(* Without stale forms                                                     *)

LEMMA NobodyWaits ==
    ASSUME Slow = {}
    PROVE  DialogSpec => [](DOMAIN form = {})
<1>1. DialogInit => DOMAIN form = {}
  BY DEF DialogInit
<1>2. DOMAIN form = {} /\ [DialogNext]_dialogVars => (DOMAIN form = {})'
  <2> SUFFICES ASSUME DOMAIN form = {}, [DialogNext]_dialogVars
               PROVE  UNCHANGED form \/ form' = [u \in {} |-> <<>>]
    OBVIOUS
  <2>1. ~\E u \in User : Open(u) \/ Cancel(u) \/ Submit(u)
    BY DEF Open, Cancel, Submit
  <2>2. QED
    BY <2>1 DEF DialogNext, DialogMoves, Enter, Press, Elsewhere, dialogVars
<1>3. QED
  BY <1>1, <1>2, PTL DEF DialogSpec

\* What a page offers for a suspended record hands it to its holder or to an
\* admin, or to somebody from the list of those who can work there.
LEMMA ResumedByEditor ==
    ASSUME TypeOK, Tracked, NEW u \in User, NEW f \in Fresh(u), Post(u, f),
           Current.suspended # (f.button = "suspend"),
           PostedOwner(u, f) \notin {NoUser, Current.owner}
    PROVE  Qualified(PostedOwner(u, f), Destination(f.button))
<1>1. /\ IsFilling(f)
      /\ f.asks = ShowsOwner(f.button, u)
      /\ f.pick \in Picks(f.button, u)
  BY FreshIsFilling
<1>2. Offers(f.pack, f.button, u, f.imp)
  BY FreshIsFilling
<1>3. MoveAllowed(PostedAsk(u, f))
  BY DEF Post, Perform, Passes
<1>4. PostedAsk(u, f).suspended = (f.button = "suspend") /\ PostedAsk(u, f).user = u
  BY DEF PostedAsk, DescribedAsk, Ask
<1>5. SuspensionAllowed(PostedAsk(u, f))
  BY <1>3, <1>4 DEF MoveAllowed
<1>6. /\ Destination(f.button) = Current.phase
      /\ Current.owner = u \/ (f.button # "suspend" /\ CanAdmin(u))
  BY <1>4, <1>5 DEF SuspensionAllowed, PostedAsk, DescribedAsk, Ask, OwnedBy
<1>7. CASE f.button = "suspend"
  <2>1. PostedOwner(u, f) = u
    <3>1. ~f.asks /\ DescribedOwner(f.button, u) = u
      BY <1>1, <1>7 DEF ShowsOwner, DescribedOwner
    <3>2. f.button \notin Phase \cup {"release"}
      BY <1>7, ButtonAssumption DEF Commands
    <3>3. QED
      BY <3>1, <3>2 DEF PostedOwner
  <2>2. QED
    BY <1>6, <1>7, <2>1
<1>8. CASE f.button # "suspend"
  <2>1. Current.suspended = TRUE
    BY <1>8, CurrentIsTyped DEF StateRow
  <2>2. ~OffersReject(u, f.imp) /\ ~OffersPhase(f.button, u, f.imp)
    BY <2>1 DEF OffersReject, OffersPhase
  <2>3. f.button \in Commands
    BY <1>2, <2>2 DEF Offers
  <2>4. CASE HandsOver(f.button)
    <3>1. f.asks /\ f.pick # NoUser
      BY <1>1, <2>4 DEF IsFilling
    <3>2. PostedOwner(u, f) = f.pick
      BY <3>1 DEF PostedOwner
    <3>3. f.pick \in OthersThan(u, Candidates(u, Destination(f.button)))
      BY <1>1, <2>4, <3>1 DEF Picks, PotentialOwners
    <3>4. f.pick \in Candidates(u, Destination(f.button))
      BY <3>3 DEF OthersThan
    <3>5. QED
      BY <3>2, <3>4 DEF Candidates, Qualified
  <2>5. CASE ~HandsOver(f.button)
    <3>1. f.button \in {"take-ownership", "resume", "release"}
      BY <1>8, <2>3, <2>5 DEF Commands, HandsOver
    <3>2. ~f.asks
      BY <1>1, <3>1 DEF ShowsOwner
    <3>3. PostedOwner(u, f) \in {NoUser, u}
      BY <3>1, <3>2 DEF PostedOwner, DescribedOwner
    <3>4. CanAdmin(u) /\ PostedOwner(u, f) = u
      BY <1>6, <3>3
    <3>5. QED
      BY <1>6, <3>4 DEF CanAdmin, Qualified
  <2>6. QED
    BY <2>4, <2>5
<1>9. QED
  BY <1>7, <1>8

\* Without open forms, the history grows by a form that is posted as soon as it
\* is shown.
LEMMA FreshTransit ==
    ASSUME TypeOK, FormsOK, DOMAIN form = {}, [DialogNext]_dialogVars, Transits
    PROVE  \E u \in User : \E f \in Fresh(u) :
              /\ IsFilling(f)
              /\ Post(u, f)
              /\ MoveAllowed(PostedAsk(u, f))
              /\ Newest' = StateOf(PostedAsk(u, f), ForcedKind(f))
<1>1. Tracked /\ Len(states') > Len(states) /\ Len(states) \in Nat
  BY DEF Transits, TypeOK
<1>2. states' # states /\ ~Around
  <2>1. states' # <<>> /\ states' # states
    BY <1>1
  <2>2. ~\E u \in User : DeleteAccount(u)
    BY <1>1, DeletionKeepsRows
  <2>3. QED
    BY <2>1, <2>2, AroundKeepsHistory
<1>3. ~\E u \in User, imp \in Owner : Enter(u, imp)
  BY <1>1 DEF Enter, Create
<1>4. ~\E u \in User : Submit(u) \/ Open(u) \/ Cancel(u)
  BY <1>2 DEF Submit, Open, Cancel, vars
<1>5. PICK u \in User : Press(u)
  BY <1>2, <1>3, <1>4 DEF DialogNext, DialogMoves, Elsewhere, dialogVars
<1>6. PICK f \in Fresh(u) : IsFilling(f) /\ Post(u, f)
  BY <1>5, PressPosts
<1>7. MoveAllowed(PostedAsk(u, f))
  BY <1>1, <1>6 DEF Post, Perform, Passes
<1>8. Newest' = StateOf(PostedAsk(u, f), ForcedKind(f))
  BY <1>6, PostAppends DEF Newest, Current
<1>9. QED
  BY <1>6, <1>7, <1>8

\* Whoever gets a record through a page that was up to date can work on it,
\* also when he gets it by a resumption, which the engine does not check.
THEOREM HandOversAreQualified ==
    ASSUME Slow = {}
    PROVE  DialogSpec => HandOversReachEditors
<1>1. TypeOK /\ FormsOK /\ DOMAIN form = {} /\ [DialogNext]_dialogVars
        => [Transits /\ Newest'.owner \notin {NoUser, Current.owner}
              => Qualified(Newest'.owner, Newest'.phase)]_vars
  <2> SUFFICES ASSUME TypeOK, FormsOK, DOMAIN form = {}, [DialogNext]_dialogVars,
                      Transits, Newest'.owner \notin {NoUser, Current.owner}
               PROVE  Qualified(Newest'.owner, Newest'.phase)
    OBVIOUS
  <2>1. PICK u \in User : \E f \in Fresh(u) :
            /\ Post(u, f)
            /\ MoveAllowed(PostedAsk(u, f))
            /\ Newest' = StateOf(PostedAsk(u, f), ForcedKind(f))
    BY FreshTransit
  <2>2. PICK f \in Fresh(u) :
            /\ Post(u, f)
            /\ MoveAllowed(PostedAsk(u, f))
            /\ Newest' = StateOf(PostedAsk(u, f), ForcedKind(f))
    BY <2>1
  <2>3. /\ PostedAsk(u, f).suspended = (f.button = "suspend")
        /\ PostedAsk(u, f).owner = PostedOwner(u, f)
        /\ PostedAsk(u, f).phase = Destination(f.button)
    BY DEF PostedAsk, DescribedAsk, Ask
  <2>4. /\ Newest'.owner = PostedOwner(u, f)
        /\ Newest'.phase = Destination(f.button)
    BY <2>2, <2>3 DEF StateOf
  <2>5. CASE Current.suspended # (f.button = "suspend")
    BY <2>2, <2>4, <2>5, ResumedByEditor DEF Transits
  <2>6. CASE Current.suspended = (f.button = "suspend")
    <3>1. NewOwnerAllowed(PostedAsk(u, f))
      BY <2>2, <2>3, <2>6 DEF MoveAllowed, OrdinaryAllowed
    <3>2. QED
      BY <2>3, <2>4, <3>1 DEF NewOwnerAllowed
  <2>7. QED
    BY <2>5, <2>6
<1>2. QED
  BY <1>1, FormsHold, NobodyWaits, PTL DEF DialogSpec, HandOversReachEditors

\* Only who holds a record leaves it without an owner: with the release button,
\* which is there if he may, or by sending it to a phase.
LEMMA NobodyAfter ==
    ASSUME TypeOK, Tracked, NEW u \in User, NEW f \in Fresh(u), PostedOwner(u, f) = NoUser
    PROVE  /\ OwnedBy(Current, u, f.imp)
           /\ (f.button = "release" /\ CanRelease) \/ f.button \in Phase
<1>1. /\ IsFilling(f)
      /\ f.asks = ShowsOwner(f.button, u)
      /\ Offers(f.pack, f.button, u, f.imp)
  BY FreshIsFilling
<1>2. f.button \in Commands \cup {"reject"} \cup Phase
  BY <1>1 DEF IsFilling, Form, Buttons
<1>3. ~HandsOver(f.button)
  BY <1>1 DEF IsFilling, PostedOwner
<1>4. u # NoUser /\ Current.user # NoUser
  BY UserAssumption, CurrentIsTyped DEF StateRow
<1>5. f.button \notin {"take-ownership", "suspend", "resume", "reject"}
  <2>1. f.button \in {"take-ownership", "suspend", "resume", "reject"}
            => DescribedOwner(f.button, u) # NoUser
    BY <1>4 DEF DescribedOwner
  <2>2. f.button \in {"take-ownership", "suspend", "resume", "reject"}
            => ~f.asks /\ f.button \notin Phase \cup {"release"}
    BY <1>1, ButtonAssumption DEF ShowsOwner, Commands
  <2>3. QED
    BY <2>1, <2>2 DEF PostedOwner
<1>6. CASE f.button = "release"
  <2>1. f.button \notin Phase /\ f.button # "reject" /\ f.button \in Commands
    BY <1>6, ButtonAssumption DEF Commands
  <2>2. OffersCommand(f.pack, f.button, u, f.imp) \/ (OffersReject(u, f.imp) /\ f.button = Previous.phase)
    BY <1>1, <2>1 DEF Offers
  <2>3. ~(OffersReject(u, f.imp) /\ f.button = Previous.phase)
    BY <2>1, CurrentIsTyped DEF OffersReject, StateRow
  <2>4. QED
    BY <1>6, <2>2, <2>3 DEF OffersCommand, DjangoCommand, SebastianCommand
<1>7. CASE f.button \in Phase
  <2>1. f.button \notin Commands /\ f.button # "reject"
    BY <1>7, ButtonAssumption
  <2>2. QED
    BY <1>1, <1>7, <2>1 DEF Offers, OffersPhase, OffersReject
<1>8. QED
  BY <1>2, <1>3, <1>5, <1>6, <1>7 DEF Commands, HandsOver

\* What a transition without a forced kind is called is what it does, unless it
\* leaves without an owner, in its phase, a record that had none.
LEMMA ComputedTells ==
    ASSUME TypeOK, Tracked, NEW r \in Call, MoveAllowed(r),
           r.owner = NoUser /\ r.phase = Current.phase => Current.owner # NoUser
    PROVE  KindHolds(Current, StateOf(r, Unforced))
<1> DEFINE n == StateOf(r, Unforced)
<1>1. /\ n.phase = r.phase /\ n.owner = r.owner /\ n.user = r.user
      /\ n.imp = r.imp /\ n.suspended = r.suspended /\ n.kind = KindOf(r, Unforced)
  BY DEF StateOf
<1>2. r.user \in User /\ r.user # NoUser /\ r.suspended \in BOOLEAN /\ Current.suspended \in BOOLEAN
  BY UserAssumption, CurrentIsTyped DEF Call, StateRow
<1> HIDE DEF n
<1>3. CASE r.phase # Current.phase /\ TransitionOf(Current.phase, r.phase).reject
  <2>1. n.kind = "reject"
    BY <1>1, <1>3 DEF KindOf, Unforced
  <2>2. QED
    BY <1>1, <1>3, <2>1 DEF KindHolds, n
<1>4. CASE ~(r.phase # Current.phase /\ TransitionOf(Current.phase, r.phase).reject)
  <2>1. n.kind = ComputedKind(r)
    BY <1>1, <1>4 DEF KindOf, Unforced
  <2>2. CASE r.suspended
    <3>1. n.kind = "suspend"
      BY <2>1, <2>2 DEF ComputedKind
    <3>2. QED
      BY <1>1, <2>2, <3>1 DEF KindHolds, n
  <2>3. CASE ~r.suspended /\ IsReturn(r)
             /\ Current.kind \in {"reject", "delegate", "change_assign", "assign", "reassign", "resubmit"}
    <3>1. (n.kind = "resubmit" /\ Current.kind = "reject") \/ n.kind = "reject"
      BY <2>1, <2>3 DEF ComputedKind
    <3>2. n.owner = Current.user /\ n.user = Current.owner
      BY <1>1, <2>3 DEF IsReturn
    <3>3. QED
      BY <3>1, <3>2 DEF KindHolds, n
  <2>4. CASE /\ ~r.suspended
             /\ ~(IsReturn(r) /\ Current.kind \in {"reject", "delegate", "change_assign",
                                                   "assign", "reassign", "resubmit"})
    <3>1. n.kind = IF r.phase = Current.phase THEN SamePhaseKind(r)
                   ELSE IF r.owner = NoUser THEN "change" ELSE "change_assign"
      BY <2>1, <2>4 DEF ComputedKind
    <3>2. CASE r.phase # Current.phase
      BY <1>1, <3>1, <3>2 DEF KindHolds, n
    <3>3. CASE r.phase = Current.phase /\ r.owner = NoUser
      <4>1. n.kind = "release"
        BY <1>2, <3>1, <3>3 DEF SamePhaseKind
      <4>2. QED
        BY <1>1, <3>3, <4>1 DEF KindHolds, n
    <3>4. CASE r.phase = Current.phase /\ r.owner = r.user /\ Current.owner = NoUser
      <4>1. n.kind = "take"
        BY <1>2, <3>1, <3>4 DEF SamePhaseKind
      <4>2. QED
        BY <1>1, <3>4, <4>1 DEF KindHolds, n
    <3>5. CASE r.phase = Current.phase /\ r.owner = r.user /\ Current.owner = r.user
      <4>1. n.kind = HeldKind(r)
        BY <1>2, <3>1, <3>5 DEF SamePhaseKind
      <4>2. r.suspended # Current.suspended \/ r.imp # HolderContext(Current)
        BY <3>5 DEF MoveAllowed, IsChange
      <4>3. CASE n.kind = "impersonate"
        BY <1>1, <3>5, <4>1, <4>3 DEF HeldKind, KindHolds, n
      <4>4. CASE n.kind = "reclaim"
        BY <1>1, <3>5, <4>1, <4>4 DEF HeldKind, KindHolds, n
      <4>5. CASE n.kind \notin {"impersonate", "reclaim"}
        <5>1. n.kind = "resume" /\ r.imp = HolderContext(Current)
          BY <4>1, <4>5 DEF HeldKind
        <5>2. Current.suspended
          BY <1>2, <2>4, <4>2, <5>1
        <5>3. QED
          BY <1>1, <2>4, <3>5, <5>1, <5>2 DEF KindHolds, n
      <4>6. QED
        BY <4>3, <4>4, <4>5
    <3>6. CASE r.phase = Current.phase /\ r.owner = r.user /\ Current.owner \notin {NoUser, r.user}
      <4>1. n.kind = "snatch"
        BY <1>2, <3>1, <3>6 DEF SamePhaseKind
      <4>2. QED
        BY <1>1, <3>6, <4>1 DEF KindHolds, n
    <3>7. CASE r.phase = Current.phase /\ r.owner \notin {NoUser, r.user, Current.owner}
      <4>1. n.kind = IF r.user = Current.owner THEN "delegate"
                     ELSE IF Current.owner = NoUser THEN "assign" ELSE "reassign"
        BY <1>2, <3>1, <3>7 DEF SamePhaseKind
      <4>2. QED
        BY <1>1, <1>2, <3>7, <4>1 DEF KindHolds, n
    <3>8. CASE r.phase = Current.phase /\ r.owner = Current.owner /\ r.owner \notin {NoUser, r.user}
      <4>1. n.kind = "undefined"
        BY <3>1, <3>8 DEF SamePhaseKind
      <4>2. QED
        BY <1>1, <3>8, <4>1 DEF KindHolds, n
    <3>9. QED
      BY <3>2, <3>3, <3>4, <3>5, <3>6, <3>7, <3>8
  <2>5. QED
    BY <2>2, <2>3, <2>4
<1>5. QED
  BY <1>3, <1>4

\* The kinds that a page forces: what the delegate and the reject buttons do.
LEMMA ForcedTells ==
    ASSUME TypeOK, Tracked, NEW u \in User, NEW f \in Fresh(u), ForcedKind(f) # Unforced
    PROVE  KindHolds(Current, StateOf(PostedAsk(u, f), ForcedKind(f)))
<1> DEFINE n == StateOf(PostedAsk(u, f), ForcedKind(f))
<1>1. /\ IsFilling(f)
      /\ f.asks = ShowsOwner(f.button, u)
      /\ f.pick \in Picks(f.button, u)
      /\ Offers(f.pack, f.button, u, f.imp)
  BY FreshIsFilling
<1>2. f.pack = "django" /\ f.button \in {"delegate", "reject"} /\ ForcedKind(f) = f.button
  BY DEF ForcedKind, Unforced
<1>3. f.button \notin Phase \cup {"release"}
  BY <1>2, ButtonAssumption DEF Commands
<1>4. /\ n.owner = PostedOwner(u, f)
      /\ n.user = u
      /\ n.phase = Destination(f.button)
      /\ n.kind = f.button
  BY <1>2 DEF StateOf, PostedAsk, DescribedAsk, Ask, KindOf, Unforced
<1> HIDE DEF n
<1>5. CASE f.button = "delegate"
  <2>1. OwnedBy(Current, u, f.imp)
    BY <1>1, <1>2, <1>3, <1>5 DEF Offers, OffersCommand, DjangoCommand, Commands
  <2>2. Current.owner = u
    BY <2>1 DEF OwnedBy
  <2>3. f.asks /\ f.pick # NoUser /\ HandsOver(f.button)
    BY <1>1, <1>5 DEF IsFilling, HandsOver
  <2>4. n.owner = f.pick
    BY <1>4, <2>3 DEF PostedOwner
  <2>5. f.pick \in OthersThan(u, Candidates(u, Destination(f.button)))
    BY <1>1, <2>3 DEF Picks, PotentialOwners
  <2>6. f.pick # u
    <3>1. Username[u] \in Nat
      BY UserAssumption
    <3>2. ~Follows(u, u, Candidates(u, Destination(f.button)))
      BY <3>1 DEF Follows
    <3>3. QED
      BY <2>2, <2>5, <3>2 DEF OthersThan
  <2>7. n.phase = Current.phase
    BY <1>4, <1>5 DEF Destination, Commands
  <2>8. QED
    BY <1>4, <1>5, <2>2, <2>3, <2>4, <2>6, <2>7 DEF KindHolds, n
<1>6. CASE f.button = "reject"
  <2>1. OffersReject(u, f.imp)
    BY <1>1, <1>2, <1>3, <1>6 DEF Offers, Commands
  <2>2. Current.owner = u
    BY <2>1 DEF OffersReject, OwnedBy
  <2>3. n.owner = Current.user
    BY <1>1, <1>3, <1>4, <1>6 DEF PostedOwner, DescribedOwner, ShowsOwner
  <2>4. QED
    BY <1>4, <1>6, <2>2, <2>3 DEF KindHolds, n
<1>7. QED
  BY <1>2, <1>5, <1>6

\* Through pages that are up to date, whatever their pack, the history says what
\* was done: a form that is posted late may call a delegation what is none.
THEOREM HistoryTells ==
    ASSUME Slow = {}
    PROVE  DialogSpec => LabelsTell
<1>1. TypeOK /\ FormsOK /\ DOMAIN form = {} /\ [DialogNext]_dialogVars
        => [Transits => KindHolds(Current, Newest')]_vars
  <2> SUFFICES ASSUME TypeOK, FormsOK, DOMAIN form = {}, [DialogNext]_dialogVars, Transits
               PROVE  KindHolds(Current, Newest')
    OBVIOUS
  <2>1. PICK u \in User : \E f \in Fresh(u) :
            /\ IsFilling(f)
            /\ Post(u, f)
            /\ MoveAllowed(PostedAsk(u, f))
            /\ Newest' = StateOf(PostedAsk(u, f), ForcedKind(f))
    BY FreshTransit
  <2>2. PICK f \in Fresh(u) :
            /\ IsFilling(f)
            /\ Post(u, f)
            /\ MoveAllowed(PostedAsk(u, f))
            /\ Newest' = StateOf(PostedAsk(u, f), ForcedKind(f))
    BY <2>1
  <2>3. Tracked
    BY DEF Transits
  <2>4. CASE ForcedKind(f) # Unforced
    BY <2>2, <2>3, <2>4, ForcedTells
  <2>5. CASE ForcedKind(f) = Unforced
    <3>1. PostedAsk(u, f) \in Call
      BY <2>2, PostIsCall DEF Post
    <3>2. PostedAsk(u, f).owner = NoUser => Current.owner # NoUser
      <4>1. PostedAsk(u, f).owner = PostedOwner(u, f)
        BY DEF PostedAsk, DescribedAsk, Ask
      <4>2. QED
        BY <2>3, <4>1, NobodyAfter, UserAssumption DEF OwnedBy
    <3>3. KindHolds(Current, StateOf(PostedAsk(u, f), Unforced))
      BY <2>2, <2>3, <3>1, <3>2, ComputedTells
    <3>4. QED
      BY <2>2, <2>5, <3>3
  <2>6. QED
    BY <2>4, <2>5
<1>2. QED
  BY <1>1, FormsHold, NobodyWaits, PTL DEF DialogSpec, LabelsTell

\* With Django's pages, up to date, no owner gives up by a release what he was
\* given to do where allow_release is 'strict': it needs that no phase declares
\* a transition to itself, for that is offered as any other change of phase,
\* and makes a release of one that names no owner.
THEOREM StrictReleases ==
    ASSUME Slow = {}, Pages = {"django"}, \A p \in Phase : p \notin DeclaredReach(p)
    PROVE  DialogSpec => StrictReleaseHonoured
<1> DEFINE Wrong == /\ Transits
                    /\ Newest'.kind = "release"
                    /\ Declared[Current.phase].release = "strict"
                    /\ Newest'.user = Current.owner
                    /\ ~CanAdmin(Current.owner)
           Handed == {"delegate", "assign", "change_assign", "reassign"}
<1>1. TypeOK /\ FormsOK /\ DOMAIN form = {} /\ [DialogNext]_dialogVars
        => [Wrong => Current.kind \notin Handed]_vars
  <2> SUFFICES ASSUME TypeOK, FormsOK, DOMAIN form = {}, [DialogNext]_dialogVars, Wrong
               PROVE  Current.kind \notin Handed
    OBVIOUS
  <2>1. PICK u \in User : \E f \in Fresh(u) :
            /\ IsFilling(f)
            /\ Post(u, f)
            /\ MoveAllowed(PostedAsk(u, f))
            /\ Newest' = StateOf(PostedAsk(u, f), ForcedKind(f))
    BY FreshTransit
  <2>2. PICK f \in Fresh(u) :
            /\ IsFilling(f)
            /\ Post(u, f)
            /\ MoveAllowed(PostedAsk(u, f))
            /\ Newest' = StateOf(PostedAsk(u, f), ForcedKind(f))
    BY <2>1
  <2>3. Tracked /\ Current.phase \in Phase
    BY CurrentIsTyped DEF Transits, StateRow
  <2>4. ForcedKind(f) = Unforced /\ KindOf(PostedAsk(u, f), Unforced) = "release"
    BY <2>2 DEF StateOf, ForcedKind, KindOf, Unforced
  <2>5. PostedAsk(u, f) \in Call
    BY <2>2, PostIsCall DEF Post
  <2>6. PostedAsk(u, f).phase = Current.phase /\ PostedAsk(u, f).owner = NoUser
    BY <2>4 DEF KindOf, Unforced, ComputedKind, SamePhaseKind, HeldKind
  <2>7. PostedOwner(u, f) = NoUser /\ Destination(f.button) = Current.phase
    BY <2>6 DEF PostedAsk, DescribedAsk, Ask
  <2>8. f.button \notin Phase
    <3>1. SUFFICES ASSUME f.button \in Phase PROVE FALSE
      OBVIOUS
    <3>2. f.button \notin Commands /\ f.button # "reject"
      BY <3>1, ButtonAssumption
    <3>3. f.button = Current.phase
      BY <2>7, <3>2 DEF Destination
    <3>4. f.pack = "django" /\ Offers(f.pack, f.button, u, f.imp)
      BY FreshIsFilling
    <3>5. f.button \in Reach(Current.phase)
      BY <3>2, <3>4 DEF Offers, OffersPhase
    <3>6. QED
      BY <2>3, <3>3, <3>5 DEF Reach, AutoRejects
  <2>9. CanRelease
    BY <2>3, <2>7, <2>8, NobodyAfter
  <2>10. QED
    BY <2>9 DEF CanRelease
<1>2. QED
  BY <1>1, FormsHold, NobodyWaits, PTL DEF DialogSpec, StrictReleaseHonoured

-----------------------------------------------------------------------------
(* Reasons                                                                 *)

\* A form without a message takes nothing from the user who holds a record by
\* the time it is posted: the requirement is worked out anew, whatever the form
\* said when it was shown (require_message, wf_transition.py 273-278).
THEOREM TakersExplain == DialogSpec => []TakenWithReason
<1>1. ASSUME NEW u, NEW f, ~f.msg, Submits(u, f),
             f.button \in (Commands \cup {"reject"}) \ {"resume"}
      PROVE  Current.owner \in {NoUser, u}
  <2>1. ~NeedsMessage(f.button, u)
    BY <1>1 DEF Submits, MessageFilled
  <2>2. f.button \in {"take-ownership", "assign"}
    BY <1>1, <2>1 DEF NeedsMessage, Commands
  <2>3. QED
    BY <2>1, <2>2 DEF NeedsMessage
<1>2. TakenWithReason
  BY <1>1 DEF TakenWithReason, Accepts
<1>3. QED
  BY <1>2, PTL
=============================================================================
