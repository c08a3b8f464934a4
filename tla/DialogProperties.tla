-------------------------- MODULE DialogProperties --------------------------
(***************************************************************************)
(* What the dialog promises to users who follow the pages, also when the   *)
(* record has moved on while their form was open.                          *)
(***************************************************************************)
EXTENDS EngineProperties, ChangeStateDialog

\* No form was shown or posted after the last state of the record it is about.
DialogTypeOK ==
    /\ TypeOK
    /\ DOMAIN form \subseteq User
    /\ \A u \in DOMAIN form : form[u] \in Form /\ form[u].seen <= Len(states)

Accepts(u, f) == Submits(u, f) /\ Passes(PostedAsk(u, f))

\* Users who only follow the pages never leave a suspended record without an
\* owner, which only an admin could resume; nor does a form shown before the
\* record was suspended, released or handed over (views.py 122-172).
SuspendedIsHeld == Tracked /\ Current.suspended => Current.owner # NoUser

\* No command takes a record from the user who holds it, or disposes of it,
\* without a word to him: a form that asked for no message, because the record
\* was free when it was shown, is refused once it is not (require_message,
\* wf_transition.py 273-278).  Resuming needs no reason, whoever does it.
TakenWithReason ==
    \A u \in DOMAIN form :
        LET f == form[u]
        IN  /\ f.button \in (Commands \cup {"reject"}) \ {"resume"}
            /\ ~f.msg
            /\ Tracked
            /\ Current.owner \notin {NoUser, u}
            => ~Accepts(u, f)

\* A form that is posted twice does its work once: as long as nothing happened
\* in between, the second POST is refused (transition_allowed, models.py
\* 777-784).  Three are not safe to post again: a reject, whose way back leads
\* forward once it is done; the phase forms of Sebastian, which then name the
\* phase the record is in, where the described owner is nobody; and a hand-over
\* by an impersonated admin, since his context is then the only change left.
RepostRefused ==
    \A u \in DOMAIN form :
        LET f == form[u]
        IN  /\ f.posted /\ f.seen = Len(states)
            /\ f.imp = NoUser
            /\ f.button # "reject"
            /\ f.button \in Phase => f.pack = "django"
            => ~Accepts(u, f)
=============================================================================
