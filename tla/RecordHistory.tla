---------------------------- MODULE RecordHistory ---------------------------
(***************************************************************************)
(* What the history of a record promises to the requests that use it: it   *)
(* is a single chain of states that only ever grows at its end, and nobody *)
(* adds to it but from the last state, having seen that it was the last.   *)
(***************************************************************************)
EXTENDS Naturals, Sequences, FiniteSets

CONSTANTS
    Request,  \* who uses the record
    StateId,  \* the states it may ever get
    NoState,  \* the record is not tracked yet
    Nothing   \* what a request knows of the record once it has failed half-way

VARIABLES
    trail,  \* the previous state of each state, NoState for the first
    last,   \* the current state
    seen    \* what each request takes for the current state, if anything

hvars == <<trail, last, seen>>

HInit ==
    /\ trail = [i \in {} |-> NoState]
    /\ last = NoState
    /\ seen = [r \in Request |-> NoState]

Look(r) ==
    /\ seen' = [seen EXCEPT ![r] = last]
    /\ UNCHANGED <<trail, last>>

Forget(r) ==
    /\ seen' = [seen EXCEPT ![r] = Nothing]
    /\ UNCHANGED <<trail, last>>

\* The states a call may add: one, and those of the calls nested in its hook.
Additions == UNION {[1..n -> StateId \ DOMAIN trail] : n \in 1..Cardinality(StateId)}

\* One whose nested call has failed and was caught is left with nothing.
Extend(r) ==
    /\ seen[r] = last
    /\ \E added \in Additions :
          /\ \A i, j \in DOMAIN added : i # j => added[i] # added[j]
          /\ trail' = [k \in DOMAIN trail \cup {added[i] : i \in DOMAIN added} |->
                         IF k \in DOMAIN trail THEN trail[k]
                         ELSE IF k = added[1] THEN last
                         ELSE added[(CHOOSE i \in DOMAIN added : added[i] = k) - 1]]
          /\ last' = added[Len(added)]
          /\ \E knows \in {last', Nothing} : seen' = [seen EXCEPT ![r] = knows]

HNext == \E r \in Request : Look(r) \/ Forget(r) \/ Extend(r)

HSpec == HInit /\ [][HNext]_hvars
=============================================================================
