-------------------------- MODULE ChainProperties ---------------------------
(***************************************************************************)
(* What the stored history promises whatever the requests interleave, and  *)
(* that the transitions implement RecordHistory: to the requests, each of  *)
(* them happens at once, from the state its caller has seen.               *)
(***************************************************************************)
EXTENDS StateChain

AreRows(rs) == DOMAIN rs \subseteq Pk /\ rs \in [DOMAIN rs -> Row]
IsWork(w) == AreRows(w.rows) /\ w.pointer \in 0..MaxPk
Savepoints(r) == {saved[r][i] : i \in DOMAIN saved[r]}
TransactionOK(r) ==
    /\ IsWork(work[r])
    /\ saved[r] \in Seq(Savepoints(r))
    /\ \A w \in Savepoints(r) : IsWork(w)

TypeOK ==
    /\ AreRows(rows)
    /\ pointer \in 0..MaxPk
    /\ seq \in 0..MaxPk
    /\ lock \in Request \cup {Free}
    /\ pc \in [Request -> Steps]
    /\ mem \in [Request -> 0..MaxPk]
    /\ copy \in [Request -> [pk : 0..MaxPk, row : Row]]
    /\ asked \in [Request -> 0..MaxPk]
    /\ DOMAIN work = Request /\ DOMAIN saved = Request
    /\ \A r \in Request : TransactionOK(r)

\* One committed state, and only one, has no next state: the current one
\* (State, "the node where next_state is None is the current state",
\* models.py 57-58).
SingleCurrent ==
    /\ \A a, b \in Currents(rows) : a = b
    /\ rows # NoRows => Currents(rows) # {}

\* "A denormalised pointer wfm_state on the owner instance always points to the
\* current State" (models.py 58-59).
PointerIsCurrent == IF rows = NoRows THEN pointer = 0 ELSE pointer \in Currents(rows)

\* The states form a doubly linked list in the order of their keys.
LinkedBothWays ==
    \A k \in DOMAIN rows :
        /\ rows[k].next # 0 =>
              rows[k].next \in DOMAIN rows /\ rows[rows[k].next].prev = k /\ k < rows[k].next
        /\ rows[k].prev # 0 => rows[k].prev \in DOMAIN rows /\ rows[rows[k].prev].next = k

\* "Previous states are always cleared" (models.py 68-69): only the current
\* state can be unread.
HistoryIsRead == \A k \in DOMAIN rows : rows[k].next # 0 => ~rows[k].unread

\* check_wf_objects takes the state with the highest key for the current one
\* (check_wf_objects.py 92); the engine takes the one without a next state.
LatestIsCurrent ==
    \A k \in DOMAIN rows : (\A n \in DOMAIN rows : n <= k) => k \in Currents(rows)

\* Whatever the pages overwrite, the links back are a chain through all the
\* states: each names the one committed before it, so none is named twice.
BackLinks ==
    \A k \in DOMAIN rows :
        IF rows[k].prev = 0 THEN \A n \in DOMAIN rows : k <= n
        ELSE /\ rows[k].prev \in DOMAIN rows
             /\ rows[k].prev < k
             /\ \A n \in DOMAIN rows : ~(rows[k].prev < n /\ n < k)

\* No request is left hanging: whatever holds the locks lets go of them.
RequestsEnd == \A r \in Request : pc[r] # "ready" ~> pc[r] = "ready"

\* The command that repairs stale pointers moves them forward, whatever is
\* committed between its statements: to a state that came after the one it found
\* the record pointing at (check_wf_objects.py 86-96).
FixMovesForward ==
    [][\A r \in Request :
          pc[r] = "found" /\ pc'[r] = "ready" => pointer' \in DOMAIN rows /\ pointer' > mem[r]]_vars

-----------------------------------------------------------------------------
(* Refinement                                                              *)

\* A caller has seen what it had loaded when it called, until the call ends; a
\* wfm_state that was rolled back, with its call or with a nested one, is no
\* state at all.
Seen(r) ==
    IF work[r] # NoWork THEN asked[r]
    ELSE IF mem[r] \in DOMAIN rows \cup {0} THEN mem[r] ELSE MaxPk + 1

History == INSTANCE RecordHistory WITH
    StateId <- Pk,
    NoState <- 0,
    Nothing <- MaxPk + 1,
    trail <- [k \in DOMAIN rows |-> rows[k].prev],
    last <- pointer,
    seen <- [r \in Request |-> Seen(r)]

\* A history that several requests use grows as if one at a time did, each from
\* the last state and having seen it.
ImplementsHistory == History!HSpec
=============================================================================
