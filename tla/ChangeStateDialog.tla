------------------------- MODULE ChangeStateDialog --------------------------
(***************************************************************************)
(* Moving a record through the pages: a button opens a form (GET), and the *)
(* form makes the transition (POST).  Two packs do it in their own ways:   *)
(* ChangeStateView with ChangeStateForm (workflango/views.py, forms.py),   *)
(* and change_state_form (workflango/contrib/sebastian.py).  Nothing of    *)
(* the GET is remembered but what the form holds: the POST works out the   *)
(* destination, the owner and the requirements anew, from the state that   *)
(* the record is in by then, and the form is still there to be posted once *)
(* more.  A user keeps to one impersonation while a form is open.          *)
(***************************************************************************)
EXTENDS WorkflowEngine

CONSTANTS
    Pages, \* the GUI packs in use
    Slow   \* the users who may leave a form open; the others post it at once

ASSUME DialogAssumption ==
    /\ Pages \subseteq Packs
    /\ Slow \subseteq User

VARIABLE form \* the form that each user in its domain has open

dialogVars == <<states, member, account, clean, form>>

\* "asks": has it a field for the owner, filled with "pick" (NoUser: '---')?
\* "msg": has a message been written, required or not when the form was shown?
\* "seen": the length of the history when the form was shown, or last posted.
Form == [pack : Packs, button : Buttons, imp : Owner, asks : BOOLEAN, pick : Owner,
         msg : BOOLEAN, posted : BOOLEAN, seen : Nat]

DialogInit == Init /\ form = [u \in {} |-> <<>>]

-----------------------------------------------------------------------------
(* GET                                                                     *)

\* access_denied_error() of WorkflowModelChangeState; check_wf_permission() of
\* workflango/drf.py admits the same users.
ViewAdmits(u, imp) ==
    \/ OwnedBy(Current, u, imp)
    \/ Current.owner = u
    \/ IF Current.owner # NoUser THEN CanAdmin(u) ELSE CanEdit(u)

\* Django validates the record, and shows no form if that fails, except for a
\* ValidationError to an admin who is to own it; Sebastian tries the transition
\* with the owner it describes, and shows none if that fails.
Shows(pack, b, u, imp) ==
    IF pack = "django"
    THEN /\ ViewAdmits(u, imp)
         /\ Valid \/ (clean = "ValidationError" /\ CanAdmin(u) /\ DescribedOwner(b, u) = u)
    ELSE MoveAllowed(DescribedAsk(b, u, DescribedOwner(b, u), imp))

Picks(b, u) == IF ShowsOwner(b, u) THEN PotentialOwners(b, u) ELSE {NoUser}

\* What the buttons of the page show to u.
Shown(u) ==
    {s \in [pack : Pages, button : Buttons, imp : Contexts(u)] :
        Offers(s.pack, s.button, u, s.imp) /\ Shows(s.pack, s.button, u, s.imp)}

\* A message may be written where none is required.
Messages(b, u) == {m \in BOOLEAN : NeedsMessage(b, u) => m}

Filled(s, u, pick, msg) ==
    [pack |-> s.pack, button |-> s.button, imp |-> s.imp,
     asks |-> ShowsOwner(s.button, u), pick |-> pick, msg |-> msg,
     posted |-> FALSE, seen |-> Len(states)]

\* The ways of filling what was shown, and all that u may have in front of him.
Fillings(s, u) ==
    {Filled(s, u, pick, msg) : pick \in Picks(s.button, u), msg \in Messages(s.button, u)}

Fresh(u) == UNION {Fillings(s, u) : s \in Shown(u)}

-----------------------------------------------------------------------------
(* POST                                                                    *)

\* A Django form that was shown without the owner field fails when the field is
\* due by now; '---' counts as filled.
OwnerFieldFilled(u, f) ==
    f.pack = "django" /\ ShowsOwner(f.button, u) /\ OwnerMode(f.button) # "assign-optional"
        => f.asks

\* Mutant: the attribute 'required' of the field is all there is.
MessageAsShown(u, f) == TRUE

MessageFilled(u, f) == NeedsMessage(f.button, u) => f.msg

\* Django's form_valid() takes the described owner back if the form has none,
\* for a change of phase as for a release.
PostedOwner(u, f) ==
    IF f.asks /\ f.pick # NoUser THEN f.pick
    ELSE IF f.pack = "django" /\ f.button \in Phase \cup {"release"} THEN NoUser
    ELSE DescribedOwner(f.button, u)

PostedAsk(u, f) == DescribedAsk(f.button, u, PostedOwner(u, f), f.imp)

\* ChangeStateView records delegations and rejects as such, whatever
\* get_transition_type() says; change_state_form leaves the kind to it.
ForcedKind(f) ==
    IF f.pack = "django" /\ f.button \in {"delegate", "reject"} THEN f.button ELSE ""

\* What the view checks before it calls transition().  Without a previous state
\* there is no reject, but an error.
Submits(u, f) ==
    /\ Tracked
    /\ f.button = "reject" => Len(states) > 1
    /\ ViewAdmits(u, f.imp)
    /\ OwnerFieldFilled(u, f)
    /\ MessageFilled(u, f)

Post(u, f) == Submits(u, f) /\ Perform(PostedAsk(u, f), ForcedKind(f))

-----------------------------------------------------------------------------
(* Users                                                                   *)

\* The record is entered in a page of its own, WorkflowModelCreate.
Enter(u, imp) == Create(u, imp) /\ UNCHANGED form

\* A button is pressed and its form posted before anything else happens.
Press(u) ==
    /\ Tracked
    /\ account[u] = "active"
    /\ \E f \in Fresh(u) : Post(u, f)
    /\ UNCHANGED form

Open(u) ==
    /\ Tracked
    /\ u \in Slow \ DOMAIN form
    /\ account[u] = "active"
    /\ \E f \in Fresh(u) :
          form' = [v \in DOMAIN form \cup {u} |-> IF v = u THEN f ELSE form[v]]
    /\ UNCHANGED vars

\* The form after it was posted, which led to a history of n states.
Sent(f, n) ==
    [pack |-> f.pack, button |-> f.button, imp |-> f.imp, asks |-> f.asks, pick |-> f.pick,
     msg |-> f.msg, posted |-> TRUE, seen |-> n]

\* The open form is posted, perhaps not for the first time.
Submit(u) ==
    /\ u \in DOMAIN form
    /\ Post(u, form[u])
    /\ form' = [form EXCEPT ![u] = Sent(form[u], Len(states'))]

Cancel(u) ==
    /\ u \in DOMAIN form
    /\ form' = [v \in DOMAIN form \ {u} |-> form[v]]
    /\ UNCHANGED vars

\* Mutant: the forms of a deleted record can be posted to the next one.
ElsewhereKeepsForms == Around /\ UNCHANGED form

\* The forms of a record that is gone lead nowhere.
Elsewhere == Around /\ form' = IF Tracked /\ states' = <<>> THEN [u \in {} |-> <<>>] ELSE form

DialogMoves ==
    \/ \E u \in User, imp \in Owner : Enter(u, imp)
    \/ \E u \in User : Press(u) \/ Submit(u)

DialogNext ==
    \/ DialogMoves
    \/ \E u \in User : Open(u) \/ Cancel(u)
    \/ Elsewhere

DialogSpec == DialogInit /\ [][DialogNext]_dialogVars
=============================================================================
