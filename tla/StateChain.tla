----------------------------- MODULE StateChain -----------------------------
(***************************************************************************)
(* The rows that one record and its history are stored in, and the         *)
(* requests that read and write them concurrently: transitions, which lock *)
(* the record (WorkflowModel.lock_instance and _transition of              *)
(* workflango/models.py), and the pages and commands that do not.          *)
(*                                                                         *)
(* The database runs at READ COMMITTED, Django's default with PostgreSQL   *)
(* and MySQL: a statement sees what is committed and what its own          *)
(* transaction wrote, and waits for a row that another transaction has     *)
(* written or locked.  Statements outside a transaction commit at once.    *)
(* Each request works on a record object of its own, loaded before.        *)
(***************************************************************************)
EXTENDS Naturals, Sequences, FiniteSets

CONSTANTS
    Request,  \* the requests (or scripts, or commands) at work on the record
    Free,     \* not a request: nobody holds the lock of the record's row
    MaxPk,    \* bound of the primary keys given to states
    Nowait,   \* has the database SELECT FOR UPDATE NOWAIT?
    Jobs      \* what requests do beside transitions: "edit", "view", "mark", "fix"

ASSUME ChainAssumption ==
    /\ Free \notin Request
    /\ MaxPk \in Nat
    /\ Nowait \in BOOLEAN
    /\ Jobs \subseteq {"edit", "view", "mark", "fix"}

VARIABLES
    rows,     \* the committed State rows, by primary key
    pointer,  \* the committed wfm_state of the record; 0: NULL
    seq,      \* the last primary key given: rollbacks do not give it back
    lock,     \* who has locked the record's row
    pc,       \* where each request is
    mem,      \* wfm_state in the record object of each request
    copy,     \* the State object each request holds
    work,     \* the rows and the wfm_state (0: not yet) that the transaction of
              \* each request has written and not committed
    saved,    \* its savepoints: the work of the calls around a nested one
    asked     \* history: the wfm_state each caller of transition() had loaded

vars == <<rows, pointer, seq, lock, pc, mem, copy, work, saved, asked>>

Pk == 1..MaxPk
Row == [prev : 0..MaxPk, next : 0..MaxPk, unread : BOOLEAN]
NoRow == [prev |-> 0, next |-> 0, unread |-> FALSE]
NoRows == [k \in {} |-> NoRow]
NoWork == [rows |-> NoRows, pointer |-> 0]
Steps == {"ready", "asking", "locked", "checked", "written",
          "editing", "opened", "fetched", "fixing", "found"}

Over(new, old) ==
    [k \in DOMAIN new \cup DOMAIN old |-> IF k \in DOMAIN new THEN new[k] ELSE old[k]]

\* What the transaction of r sees, and the rows with next_state NULL.
Sees(r) == Over(work[r].rows, rows)
Currents(rs) == {k \in DOMAIN rs : rs[k].next = 0}

\* The rows another transaction has written: an UPDATE of them waits.
Written == UNION {DOMAIN work[r].rows : r \in Request}

Init ==
    /\ rows = NoRows
    /\ pointer = 0
    /\ seq = 0
    /\ lock = Free
    /\ pc = [r \in Request |-> "ready"]
    /\ mem = [r \in Request |-> 0]
    /\ copy = [r \in Request |-> [pk |-> 0, row |-> NoRow]]
    /\ work = [r \in Request |-> NoWork]
    /\ saved = [r \in Request |-> <<>>]
    /\ asked = [r \in Request |-> 0]

Goes(r, from, to) == pc[r] = from /\ pc' = [pc EXCEPT ![r] = to]

\* The record object is loaded, or loaded again (reload_from_db).
Load(r) ==
    /\ pc[r] = "ready"
    /\ mem[r] # pointer
    /\ mem' = [mem EXCEPT ![r] = pointer]
    /\ UNCHANGED <<rows, pointer, seq, lock, pc, copy, work, saved, asked>>

-----------------------------------------------------------------------------
(* transition(), on the record object as it was loaded                     *)

Call(r) ==
    /\ Goes(r, "ready", "asking")
    /\ asked' = [asked EXCEPT ![r] = mem[r]]
    /\ UNCHANGED <<rows, pointer, seq, lock, mem, copy, work, saved>>

\* Mutant: no SELECT FOR UPDATE.
LockIgnored(r) ==
    /\ Goes(r, "asking", "locked")
    /\ lock' = r
    /\ UNCHANGED <<rows, pointer, seq, mem, copy, work, saved, asked>>

\* lock_instance(): the row is locked, or the call fails at once, or waits.
Lock(r) ==
    /\ lock = Free
    /\ Goes(r, "asking", "locked")
    /\ lock' = r
    /\ UNCHANGED <<rows, pointer, seq, mem, copy, work, saved, asked>>

LockRefused(r) ==
    /\ Nowait
    /\ lock # Free
    /\ Goes(r, "asking", "ready")
    /\ asked' = [asked EXCEPT ![r] = 0]
    /\ UNCHANGED <<rows, pointer, seq, lock, mem, copy, work, saved>>

\* Mutant: the transaction stays open.
RollbackKeepsLock(r) ==
    /\ pc' = [pc EXCEPT ![r] = "ready"]
    /\ work' = [work EXCEPT ![r] = NoWork]
    /\ saved' = [saved EXCEPT ![r] = <<>>]
    /\ asked' = [asked EXCEPT ![r] = 0]
    /\ UNCHANGED <<rows, pointer, seq, lock, mem, copy>>

\* The transaction ends; what it wrote is gone, but the record object keeps
\* the wfm_state that materialize_current_state() put there.
Rollback(r) ==
    /\ pc' = [pc EXCEPT ![r] = "ready"]
    /\ lock' = Free
    /\ work' = [work EXCEPT ![r] = NoWork]
    /\ saved' = [saved EXCEPT ![r] = <<>>]
    /\ asked' = [asked EXCEPT ![r] = 0]
    /\ UNCHANGED <<rows, pointer, seq, mem, copy>>

\* The hook that made a nested call catches its failure and goes on: the
\* savepoint is restored, but not the wfm_state of the record object.
Caught(r) ==
    /\ saved[r] # <<>>
    /\ pc' = [pc EXCEPT ![r] = "written"]
    /\ work' = [work EXCEPT ![r] = saved[r][Len(saved[r])]]
    /\ saved' = [saved EXCEPT ![r] = SubSeq(@, 1, Len(@) - 1)]
    /\ UNCHANGED <<rows, pointer, seq, lock, mem, copy, asked>>

Fails(r) == Rollback(r) \/ Caught(r)

\* reload_current_state(): the state without a next one, 0 for None; with more
\* than one, the query fails.
Reloaded(rs) == IF Currents(rs) = {} THEN {0} ELSE Currents(rs)

\* Mutant: whoever calls from an old state goes on from the new one.
FreshEnough(r) == Cardinality(Reloaded(Sees(r))) = 1

\* The current state is the one the caller has seen.
Fresh(r) == Reloaded(Sees(r)) = {mem[r]}

Check(r) ==
    /\ Fresh(r)
    /\ Goes(r, "locked", "checked")
    /\ \E k \in Reloaded(Sees(r)) :
          copy' = [copy EXCEPT ![r] = [pk |-> k, row |-> IF k = 0 THEN NoRow ELSE Sees(r)[k]]]
    /\ UNCHANGED <<rows, pointer, seq, lock, mem, work, saved, asked>>

\* StaleObject, or MultipleObjectsReturned.
CheckFails(r) ==
    /\ pc[r] = "locked"
    /\ ~Fresh(r)
    /\ Fails(r)

\* full_clean(), transition_allowed() or a validator says no.
Refuse(r) ==
    /\ pc[r] = "checked"
    /\ Fails(r)

NewRow(r, unread) == [prev |-> copy[r].pk, next |-> 0, unread |-> unread]
OldRow(r, pk) == [prev |-> copy[r].row.prev, next |-> pk, unread |-> FALSE]

\* The new row and, but for the first state of the record, that of the old one.
Rows(r, pk, new, old) == [k \in {pk} \cup ({copy[r].pk} \ {0}) |-> IF k = pk THEN new ELSE old]

\* Mutants: the old state is not saved; the new one does not name it; the two
\* links are swapped; the link is one off; the flag of the old state stays.
LinkedNewOnly(r, pk, unread) == [k \in {pk} |-> NewRow(r, unread)]
LinkedNoPrev(r, pk, unread) == Rows(r, pk, [NewRow(r, unread) EXCEPT !.prev = 0], OldRow(r, pk))
LinkedSwapped(r, pk, unread) ==
    Rows(r, pk, [prev |-> 0, next |-> copy[r].pk, unread |-> unread],
         [copy[r].row EXCEPT !.prev = pk, !.unread = FALSE])
LinkedOneOff(r, pk, unread) == Rows(r, pk, NewRow(r, unread), OldRow(r, pk + 1))
LinkedUnread(r, pk, unread) == Rows(r, pk, NewRow(r, unread), [copy[r].row EXCEPT !.next = pk])

\* The rows as next_state.save() and current_state.save() leave them.  The
\* latter writes every column of the object loaded by Check.
Linked(r, pk, unread) == Rows(r, pk, NewRow(r, unread), OldRow(r, pk))

\* The new state is inserted, the pointer moved and the old state linked; the
\* first state of a record is never unread, its owner being who creates it.
\* That previous_state is unique is left to the property BackLinks.
Write(r) ==
    /\ seq < MaxPk
    /\ Goes(r, "checked", "written")
    /\ seq' = seq + 1
    /\ \E unread \in BOOLEAN :
          /\ copy[r].pk = 0 => ~unread
          /\ work' = [work EXCEPT ![r] = [rows |-> Over(Linked(r, seq + 1, unread), @.rows), pointer |-> seq + 1]]
    /\ mem' = [mem EXCEPT ![r] = seq + 1]
    /\ UNCHANGED <<rows, pointer, lock, copy, saved, asked>>

\* after_state_transition() moves the same record object again, inside, in an
\* atomic() of its own.
Nest(r) ==
    /\ Goes(r, "written", "locked")
    /\ saved' = [saved EXCEPT ![r] = Append(@, work[r])]
    /\ UNCHANGED <<rows, pointer, seq, lock, mem, copy, work, asked>>

\* The nested call returns to the hook that made it.
Return(r) ==
    /\ pc[r] = "written"
    /\ saved[r] # <<>>
    /\ saved' = [saved EXCEPT ![r] = SubSeq(@, 1, Len(@) - 1)]
    /\ UNCHANGED <<rows, pointer, seq, lock, pc, mem, copy, work, asked>>

\* The hook or a receiver of transition_done raises, or the connection is lost.
HookFails(r) ==
    /\ pc[r] = "written"
    /\ Fails(r)

Saves(r) ==
    /\ saved[r] = <<>>
    /\ Goes(r, "written", "ready")
    /\ rows' = Sees(r)
    /\ lock' = Free
    /\ work' = [work EXCEPT ![r] = NoWork]
    /\ asked' = [asked EXCEPT ![r] = 0]
    /\ UNCHANGED <<seq, mem, copy, saved>>

\* Mutants: the pointer is set in memory only; it is saved as it is there.
CommitRowsOnly(r) == Saves(r) /\ UNCHANGED pointer
CommitMemory(r) == Saves(r) /\ pointer' = mem[r]

Commit(r) == Saves(r) /\ pointer' = work[r].pointer

-----------------------------------------------------------------------------
(* The pages and commands that take no lock                                *)

Starts(r, job, step) ==
    /\ job \in Jobs
    /\ pointer # 0
    /\ Goes(r, "ready", step)
    /\ mem' = [mem EXCEPT ![r] = pointer]
    /\ UNCHANGED <<rows, pointer, seq, lock, copy, work, saved, asked>>

\* A view with WorkflowModelUpdate: the form saves the whole record object that
\* the request loaded, wfm_state among its columns.
StartEdit(r) == Starts(r, "edit", "editing")

SaveForm(r) ==
    /\ lock = Free
    /\ Goes(r, "editing", "ready")
    /\ pointer' = mem[r]
    /\ UNCHANGED <<rows, seq, lock, mem, copy, work, saved, asked>>

\* WorkflowDetailMixin and mark_read() load the record, then its state.
StartRead(r) == Starts(r, "view", "opened") \/ Starts(r, "mark", "opened")

FetchState(r) ==
    /\ Goes(r, "opened", "fetched")
    /\ copy' = [copy EXCEPT ![r] = [pk |-> mem[r], row |-> rows[mem[r]]]]
    /\ UNCHANGED <<rows, pointer, seq, lock, mem, work, saved, asked>>

\* The detail page saves every column of the state with the flag changed.
SaveState(r) ==
    /\ "view" \in Jobs
    /\ copy[r].pk \notin Written
    /\ Goes(r, "fetched", "ready")
    /\ rows' = [rows EXCEPT ![copy[r].pk] = [copy[r].row EXCEPT !.unread = ~@]]
    /\ UNCHANGED <<pointer, seq, lock, mem, copy, work, saved, asked>>

\* mark_read saves the flag only.
MarkRead(r) ==
    /\ "mark" \in Jobs
    /\ copy[r].pk \notin Written
    /\ Goes(r, "fetched", "ready")
    /\ \E unread \in BOOLEAN : rows' = [rows EXCEPT ![copy[r].pk].unread = unread]
    /\ UNCHANGED <<pointer, seq, lock, mem, copy, work, saved, asked>>

\* check_wf_objects --fix-stale-states: a record whose state has a successor
\* gets the state with the highest key.
FindStale(r) ==
    /\ pointer # 0 /\ rows[pointer].next # 0
    /\ Starts(r, "fix", "fixing")

\* Mutant: the states are sorted the other way.
FindFirst(r) ==
    /\ Goes(r, "fixing", "found")
    /\ \E k \in DOMAIN rows :
          /\ \A n \in DOMAIN rows : n >= k
          /\ copy' = [copy EXCEPT ![r] = [pk |-> k, row |-> rows[k]]]
    /\ UNCHANGED <<rows, pointer, seq, lock, mem, work, saved, asked>>

FindLast(r) ==
    /\ Goes(r, "fixing", "found")
    /\ \E k \in DOMAIN rows :
          /\ \A n \in DOMAIN rows : n <= k
          /\ copy' = [copy EXCEPT ![r] = [pk |-> k, row |-> rows[k]]]
    /\ UNCHANGED <<rows, pointer, seq, lock, mem, work, saved, asked>>

FixPointer(r) ==
    /\ lock = Free
    /\ Goes(r, "found", "ready")
    /\ pointer' = copy[r].pk
    /\ mem' = [mem EXCEPT ![r] = copy[r].pk]
    /\ UNCHANGED <<rows, seq, lock, copy, work, saved, asked>>

-----------------------------------------------------------------------------
Transition(r) ==
    Call(r) \/ Lock(r) \/ LockRefused(r) \/ Check(r) \/ CheckFails(r) \/ Refuse(r)
        \/ Write(r) \/ Nest(r) \/ Return(r) \/ HookFails(r) \/ Commit(r)

Page(r) ==
    StartEdit(r) \/ SaveForm(r) \/ StartRead(r) \/ FetchState(r) \/ SaveState(r) \/ MarkRead(r)
        \/ FindStale(r) \/ FindLast(r) \/ FixPointer(r)

Next == \E r \in Request : Load(r) \/ Transition(r) \/ Page(r)

\* What a request that has started goes on to do.
Proceeds(r) ==
    LockRefused(r) \/ Check(r) \/ CheckFails(r) \/ Refuse(r) \/ Write(r) \/ FetchState(r) \/ FindLast(r)

\* A hook that makes calls, and catches what they raise, stops in the end.
HookEnds(r) == Return(r) \/ HookFails(r) \/ Commit(r)

\* The statements that may have to wait for a row; databases serve those that
\* wait in turn.
Waits(r) == Lock(r) \/ SaveForm(r) \/ SaveState(r) \/ MarkRead(r) \/ FixPointer(r)

Spec == Init /\ [][Next]_vars

FairSpec ==
    Spec /\ \A r \in Request : WF_vars(Proceeds(r)) /\ SF_vars(HookEnds(r)) /\ SF_vars(Waits(r))
=============================================================================
