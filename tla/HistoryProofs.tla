---------------------------- MODULE HistoryProofs ----------------------------
(***************************************************************************)
(* Proof that transitions implement RecordHistory: to the requests, each   *)
(* transition with those nested in it happens at once, when it is          *)
(* committed, from the state that its caller has seen.                     *)
(*                                                                         *)
(* The argument: the keys that a transaction has added, in order, are a    *)
(* witness for Extend; what every other request takes for current is no    *)
(* such key; and the record object of the request itself is ahead of its   *)
(* transaction, so that it is the new current state or nothing.            *)
(***************************************************************************)
EXTENDS LinkProofs, FiniteSetTheorems

\* The wfm_state that a transaction which has done the work w sees.
PointerAfter(w) == IF w.pointer = 0 THEN pointer ELSE w.pointer

EndsIn(rs, p) ==
    /\ p \in DOMAIN rs \/ (p = 0 /\ DOMAIN rs = {})
    /\ AtTop(rs, p)

\* What w would leave ends in the wfm_state that it would leave.
Commits(w) == EndsIn(Over(w.rows, rows), PointerAfter(w)) /\ w.pointer <= seq

\* What Check has read is the current state, as Write will find it.
CopyIsCurrent(r) ==
    /\ copy[r].pk = PointerAfter(work[r])
    /\ copy[r].pk # 0 => copy[r].row.prev = Sees(r)[copy[r].pk].prev

Outside(r) ==
    /\ pc[r] \notin {"locked", "checked", "written"}
    /\ work[r] = NoWork
    /\ saved[r] = <<>>

Inside(r) ==
    /\ pc[r] \in {"locked", "checked", "written"}
    /\ Commits(work[r])
    /\ \A i \in 1..Len(saved[r]) : Commits(saved[r][i]) /\ saved[r][i].pointer # 0
    /\ pc[r] = "checked" => CopyIsCurrent(r)
    /\ pc[r] = "written" => work[r].pointer # 0

\* What LinkProofs show where the pointer is always at the end.
TInv ==
    /\ TypeOK
    /\ EndsIn(rows, pointer)
    /\ pointer <= seq
    /\ \A r \in Request : IF lock = r THEN Inside(r) ELSE Outside(r)

\* The work w, over the rows rs with p for the current one, appends added.
Lengthens(added, w, rs, p) ==
    /\ Len(added) # 0
    /\ added[Len(added)] = w.pointer
    /\ \A i \in 1..Len(added) :
          /\ i <= added[i]
          /\ added[i] \notin DOMAIN rs
          /\ Over(w.rows, rs)[added[i]].prev = IF i = 1 THEN p ELSE added[i - 1]
    /\ \A i, j \in 1..Len(added) : i # j => added[i] # added[j]
    /\ DOMAIN Over(w.rows, rs) = DOMAIN rs \cup {added[i] : i \in 1..Len(added)}
    /\ \A k \in DOMAIN rs : Over(w.rows, rs)[k].prev = rs[k].prev

Adds(w, rs, p) == \E added \in Seq(Pk) : Lengthens(added, w, rs, p)

\* The request r has done w, over the rows rs with p for the current one; m and
\* a are what the requests have loaded and asked.  None but r has loaded a key
\* that w adds.
DoneOver(r, w, rs, p, m, a) ==
    /\ Adds(w, rs, p)
    /\ \A q \in Request \ {r} : m[q] \in DOMAIN w.rows => m[q] \in DOMAIN rs
    /\ p < w.pointer /\ w.pointer <= m[r]
    /\ a[r] = p

Done(r, w) == DoneOver(r, w, rows, pointer, mem, asked)

Knowing(r) ==
    /\ IF work[r] = NoWork THEN mem[r] = asked[r] /\ saved[r] = <<>> ELSE Done(r, work[r])
    /\ \A i \in 1..Len(saved[r]) : Done(r, saved[r][i])
    /\ pc[r] = "checked" => mem[r] = copy[r].pk

KInv ==
    /\ \A r \in Request : mem[r] <= seq
    /\ \A r \in Request : pc[r] = "asking" => mem[r] = asked[r]
    /\ \A r \in Request : lock = r => Knowing(r)

-----------------------------------------------------------------------------
(* What each request knows                                                 *)

LEMMA PointerIsEnd ==
    ASSUME "edit" \notin Jobs, QInv
    PROVE  TInv
<1>1. /\ seq \in Nat /\ pointer \in Nat
      /\ DOMAIN rows \subseteq Nat \ {0} /\ AreRows(rows)
  BY ChainAssumption DEF QInv, PInv, TypeOK, AreRows, Pk
<1>2. EndsIn(rows, pointer) /\ pointer <= seq
  <2>1. PICK p \in 0..seq : Chained(rows, p)
    BY DEF QInv, PInv, IsChain
  <2>2. pointer \in DOMAIN rows \cup {0} /\ AtTop(rows, pointer)
    BY DEF QInv, PInv
  <2>3. \A k \in DOMAIN rows : k <= p
    BY <2>1 DEF Chained, ChainedRow
  <2>4. pointer \in DOMAIN rows \/ (pointer = 0 /\ DOMAIN rows = {})
    BY <1>1, <2>2 DEF AtTop
  <2>5. QED
    BY <1>1, <2>1, <2>2, <2>3, <2>4 DEF EndsIn
<1>3. ASSUME NEW w, IsWork(w), LeavesOver(w, rows, seq), KeptOver(w, rows)
      PROVE  Commits(w)
  <2>1. CASE w.pointer = 0
    <3>1. w = NoWork
      BY <1>3, <2>1 DEF LeavesOver
    <3>2. Over(w.rows, rows) = rows
      BY <1>1, <3>1, OverNothing DEF NoWork
    <3>3. QED
      BY <1>1, <1>2, <2>1, <3>2 DEF Commits, PointerAfter
  <2>2. CASE w.pointer # 0
    <3>1. w.pointer \in DOMAIN w.rows /\ w.pointer \in DOMAIN Over(w.rows, rows)
      BY <1>3, <2>2 DEF LeavesOver, Over
    <3>2. AtTop(Over(w.rows, rows), w.pointer)
      BY <1>3, <2>2 DEF KeptOver
    <3>3. PICK p \in 0..seq : Chained(Over(w.rows, rows), p)
      BY <1>3 DEF LeavesOver, IsChain
    <3>4. w.pointer <= p /\ w.pointer \in Nat
      BY <1>3, <3>1, <3>3, ChainAssumption DEF Chained, ChainedRow, IsWork
    <3>5. w.pointer <= seq
      BY <1>1, <3>3, <3>4
    <3>6. QED
      BY <2>2, <3>1, <3>2, <3>5 DEF Commits, PointerAfter, EndsIn
  <2>3. QED
    BY <2>1, <2>2
<1>4. ASSUME NEW r \in Request, lock = r
      PROVE  Inside(r)
  <2>1. InCall(r) /\ KeptPart(r)
    BY <1>4 DEF QInv, PInv, Part
  <2>2. Commits(work[r])
    BY <1>3, <2>1, RequestTypes DEF InCall, KeptPart, QInv, PInv
  <2>3. \A i \in 1..Len(saved[r]) : Commits(saved[r][i]) /\ saved[r][i].pointer # 0
    BY <1>3, <2>1, RequestTypes DEF InCall, KeptPart, QInv, PInv
  <2>4. ASSUME TopCopy(r)
        PROVE  CopyIsCurrent(r)
    <3>1. EndsIn(Sees(r), PointerAfter(work[r]))
      BY <2>2 DEF Commits, Sees
    <3>2. DOMAIN Sees(r) \subseteq Nat \ {0}
      <4>1. AreRows(Sees(r))
        BY SeenTyped DEF QInv, PInv
      <4>2. QED
        BY <4>1, RowsFacts, ChainAssumption DEF Pk
    <3>3. copy[r].pk = PointerAfter(work[r])
      BY <2>4, <3>1, <3>2 DEF TopCopy, Chained, ChainedRow, EndsIn, AtTop
    <3>4. QED
      BY <2>4, <3>3 DEF TopCopy, CopyIsCurrent
  <2>5. QED
    BY <2>1, <2>2, <2>3, <2>4 DEF InCall, Inside
<1>5. ASSUME NEW r \in Request, lock # r
      PROVE  Outside(r)
  BY <1>5 DEF QInv, PInv, Part, OffCall, Outside
<1>6. QED
  BY <1>2, <1>4, <1>5 DEF TInv, QInv, PInv

\* Only who is inside a call has the lock.
LEMMA WhoIsInside ==
    ASSUME TInv, NEW r \in Request
    PROVE  /\ pc[r] \notin {"locked", "checked", "written"} => lock # r /\ Outside(r)
           /\ pc[r] \in {"locked", "checked", "written"} => lock = r /\ Inside(r)
BY DEF TInv, Outside, Inside

LEMMA Numbers ==
    ASSUME TInv
    PROVE  /\ MaxPk \in Nat /\ seq \in Nat /\ pointer \in Nat
           /\ \A r \in Request : mem[r] \in Nat /\ asked[r] \in Nat
           /\ DOMAIN rows \subseteq Pk /\ 0 \notin Pk
           /\ \A k \in DOMAIN rows : k <= pointer
           /\ pointer # 0 => pointer \in DOMAIN rows
<1>1. MaxPk \in Nat /\ seq \in 0..MaxPk /\ pointer \in 0..MaxPk
      /\ mem \in [Request -> 0..MaxPk] /\ asked \in [Request -> 0..MaxPk]
  BY ChainAssumption DEF TInv, TypeOK
<1>2. DOMAIN rows \subseteq Pk
  BY DEF TInv, TypeOK, AreRows
<1>3. QED
  BY <1>1, <1>2 DEF TInv, EndsIn, AtTop, Pk

\* Rows that keep their links back lengthen as they did before.
SameTrail(new, old) ==
    /\ DOMAIN new = DOMAIN old
    /\ \A k \in DOMAIN old : new[k].prev = old[k].prev

LEMMA LengthensStill ==
    ASSUME NEW old, NEW new, SameTrail(new, old), NEW w, NEW p, NEW added,
           Lengthens(added, w, old, p)
    PROVE  Lengthens(added, w, new, p)
<1>1. DOMAIN new = DOMAIN old /\ DOMAIN Over(w.rows, new) = DOMAIN Over(w.rows, old)
  BY DEF SameTrail, Over
<1>2. \A k \in DOMAIN Over(w.rows, old) : Over(w.rows, new)[k].prev = Over(w.rows, old)[k].prev
  BY DEF SameTrail, Over
<1>3. /\ \A k \in DOMAIN old : k \in DOMAIN Over(w.rows, old)
      /\ \A k \in DOMAIN old : new[k].prev = old[k].prev
  BY DEF SameTrail, Over
<1>4. QED
  BY <1>1, <1>2, <1>3 DEF Lengthens

\* What a request has done stays done while nothing is committed.
LEMMA DoneStays ==
    ASSUME TInv, NEW r \in Request, NEW w, IsWork(w), Done(r, w),
           SameTrail(rows', rows), pointer' = pointer, asked'[r] = asked[r],
           mem'[r] \in Nat, mem[r] <= mem'[r],
           \A q \in Request \ {r} : mem'[q] \in {mem[q], pointer}
    PROVE  DoneOver(r, w, rows', pointer', mem', asked')
<1>1. w.pointer \in Nat /\ DOMAIN w.rows \subseteq Pk
  BY Numbers DEF IsWork, AreRows
<1>2. Adds(w, rows', pointer)
  BY LengthensStill DEF Done, DoneOver, Adds
<1>3. DOMAIN rows' = DOMAIN rows
  BY DEF SameTrail
<1>4. QED
  BY <1>1, <1>2, <1>3, Numbers DEF Done, DoneOver

\* So does all that it knows, if another request moves.
LEMMA KnowingStays ==
    ASSUME TInv, NEW q \in Request, Knowing(q), SameTrail(rows', rows), pointer' = pointer,
           pc'[q] = pc[q], copy'[q] = copy[q], work'[q] = work[q], saved'[q] = saved[q],
           asked'[q] = asked[q], mem'[q] = mem[q],
           \A o \in Request \ {q} : mem'[o] \in {mem[o], pointer}
    PROVE  Knowing(q)'
<1>1. mem'[q] \in Nat /\ mem[q] <= mem'[q]
  BY Numbers
<1>2. work[q] # NoWork => DoneOver(q, work[q], rows', pointer', mem', asked')
  BY <1>1, DoneStays, RequestTypes DEF TInv, Knowing
<1>3. \A i \in 1..Len(saved[q]) : DoneOver(q, saved[q][i], rows', pointer', mem', asked')
  BY <1>1, DoneStays, RequestTypes DEF TInv, Knowing
<1>4. QED
  BY <1>2, <1>3 DEF Knowing, Done

\* What is left to show where nothing is committed.
LEMMA OneKnows ==
    ASSUME TInv, KInv, NEW r \in Request, Load(r) \/ Transition(r) \/ Page(r),
           SameTrail(rows', rows), pointer' = pointer,
           seq <= seq', seq' \in Nat, mem'[r] <= seq', pc'[r] = "asking" => mem'[r] = asked'[r],
           lock' \in {lock, r, Free}, lock' = r => Knowing(r)',
           lock # r => mem'[r] \in {mem[r], pointer}
    PROVE  KInv'
<1>1. Others(r)
  BY OthersStay DEF TInv
<1>2. \A q \in Request : mem'[q] <= seq'
  BY <1>1, Numbers DEF KInv, Others
<1>3. \A q \in Request : pc'[q] = "asking" => mem'[q] = asked'[q]
  BY <1>1 DEF KInv, Others
<1>4. ASSUME NEW q \in Request \ {r}, lock' = q
      PROVE  Knowing(q)'
  <2>1. lock = q /\ Knowing(q)
    BY <1>4, ChainAssumption DEF KInv
  <2>2. QED
    BY <1>1, <1>4, <2>1, KnowingStays DEF Others
<1>5. QED
  BY <1>2, <1>3, <1>4 DEF KInv

LEMMA NothingMoves ==
    ASSUME NEW rs
    PROVE  SameTrail(rs, rs)
BY DEF SameTrail

LEMMA LoadKnows ==
    ASSUME TInv, KInv, NEW r \in Request, Load(r)
    PROVE  KInv'
<1>1. UNCHANGED <<rows, pointer, seq, lock, pc>> /\ pc[r] = "ready" /\ mem'[r] = pointer
  BY DEF Load, TInv, TypeOK
<1>2. lock # r /\ pointer <= seq
  BY <1>1, WhoIsInside DEF TInv
<1>3. QED
  BY <1>1, <1>2, Numbers, NothingMoves, OneKnows

LEMMA CallKnows ==
    ASSUME TInv, KInv, NEW r \in Request, Call(r) \/ LockRefused(r)
    PROVE  KInv'
<1>1. /\ UNCHANGED <<rows, pointer, seq, lock, mem>>
      /\ pc[r] \in {"ready", "asking"}
      /\ pc'[r] = "asking" => mem'[r] = asked'[r]
  BY DEF Call, LockRefused, Goes, TInv, TypeOK
<1>2. lock # r
  BY <1>1, WhoIsInside
<1>3. QED
  BY <1>1, <1>2, Numbers, NothingMoves, OneKnows DEF KInv, Transition

LEMMA LockKnows ==
    ASSUME TInv, KInv, NEW r \in Request, Lock(r)
    PROVE  KInv'
<1>1. /\ UNCHANGED <<rows, pointer, seq, mem, copy, work, saved, asked>>
      /\ pc[r] = "asking" /\ pc'[r] = "locked" /\ lock' = r
  BY DEF Lock, Goes, TInv, TypeOK
<1>2. work[r] = NoWork /\ saved[r] = <<>> /\ mem[r] = asked[r]
  BY <1>1, WhoIsInside DEF Outside, KInv
<1>3. Knowing(r)'
  BY <1>1, <1>2 DEF Knowing
<1>4. QED
  BY <1>1, <1>3, Numbers, NothingMoves, OneKnows DEF KInv, Transition

LEMMA FailureKnows ==
    ASSUME TInv, KInv, NEW r \in Request, CheckFails(r) \/ Refuse(r) \/ HookFails(r)
    PROVE  KInv'
<1>1. /\ UNCHANGED <<rows, pointer, seq, mem, copy>>
      /\ lock = r /\ Inside(r) /\ Knowing(r) /\ pc'[r] \in {"ready", "written"}
      /\ Fails(r)
  BY WhoIsInside DEF CheckFails, Refuse, HookFails, Fails, Rollback, Caught, TInv, KInv, TypeOK
<1>2. CASE Rollback(r)
  BY <1>1, <1>2, Numbers, ChainAssumption, NothingMoves, OneKnows DEF Rollback, KInv, Transition
<1>3. CASE Caught(r)
  <2> DEFINE n == Len(saved[r])
  <2>1. /\ UNCHANGED <<lock, asked>> /\ work'[r] = saved[r][n] /\ pc'[r] = "written"
        /\ saved'[r] = SubSeq(saved[r], 1, n - 1)
    BY <1>3 DEF Caught, TInv, TypeOK
  <2>2. saved[r] \in Seq(Savepoints(r)) /\ n \in Nat \ {0}
    BY <1>3, RequestTypes, EmptySeq DEF TInv, Caught
  <2>3. Len(saved'[r]) = n - 1 /\ \A i \in 1..(n - 1) : saved'[r][i] = saved[r][i]
    BY <2>1, <2>2
  <2>4. \A i \in 1..n : DoneOver(r, saved[r][i], rows', pointer', mem', asked')
    BY <1>1, <2>1 DEF Knowing, Done
  <2>5. DoneOver(r, work'[r], rows', pointer', mem', asked') /\ work'[r] # NoWork
    BY <1>1, <2>1, <2>2, <2>4 DEF Inside, NoWork
  <2>6. Knowing(r)'
    <3>1. \A i \in 1..Len(saved'[r]) : DoneOver(r, saved'[r][i], rows', pointer', mem', asked')
      BY <2>2, <2>3, <2>4
    <3>2. QED
      BY <2>1, <2>5, <3>1 DEF Knowing, Done
  <2>7. QED
    BY <1>1, <2>1, <2>6, Numbers, NothingMoves, OneKnows DEF KInv, Transition
<1>4. QED
  BY <1>1, <1>2, <1>3 DEF Fails

\* The caller has seen what is the current state, or the check fails.
LEMMA CheckKnows ==
    ASSUME TInv, KInv, NEW r \in Request, Check(r)
    PROVE  KInv'
<1>1. /\ UNCHANGED <<rows, pointer, seq, lock, mem, work, saved, asked>>
      /\ pc[r] = "locked" /\ pc'[r] = "checked"
  BY DEF Check, Goes, TInv, TypeOK
<1>2. lock = r /\ Knowing(r)
  BY <1>1, WhoIsInside DEF KInv
<1>3. copy'[r].pk = mem[r]
  BY DEF Check, Fresh, TInv, TypeOK
<1>4. Knowing(r)'
  BY <1>1, <1>2, <1>3 DEF Knowing, Done
<1>5. QED
  BY <1>1, <1>2, <1>4, Numbers, NothingMoves, OneKnows DEF KInv, Transition

LEMMA NestKnows ==
    ASSUME TInv, KInv, NEW r \in Request, Nest(r)
    PROVE  KInv'
<1> DEFINE n == Len(saved[r])
<1>1. /\ UNCHANGED <<rows, pointer, seq, lock, mem, copy, work, asked>>
      /\ pc[r] = "written" /\ pc'[r] = "locked"
      /\ saved'[r] = Append(saved[r], work[r])
  BY DEF Nest, Goes, TInv, TypeOK
<1>2. lock = r /\ Knowing(r) /\ Inside(r) /\ work[r] # NoWork
  BY <1>1, WhoIsInside DEF KInv, Inside, NoWork
<1>3. saved[r] \in Seq(Savepoints(r)) /\ n \in Nat
  BY RequestTypes DEF TInv
<1>4. /\ Len(saved'[r]) = n + 1 /\ saved'[r][n + 1] = work[r]
      /\ \A i \in 1..n : saved'[r][i] = saved[r][i]
  BY <1>1, <1>3, SeqMonotonic, AppendProperties
<1>5. \A i \in 1..(n + 1) : DoneOver(r, saved'[r][i], rows', pointer', mem', asked')
  <2> TAKE i \in 1..(n + 1)
  <2>1. CASE i = n + 1
    BY <1>1, <1>2, <1>4, <2>1 DEF Knowing, Done
  <2>2. CASE i # n + 1
    BY <1>1, <1>2, <1>3, <1>4, <2>2 DEF Knowing, Done
  <2>3. QED
    BY <2>1, <2>2
<1>6. Knowing(r)'
  BY <1>1, <1>2, <1>4, <1>5 DEF Knowing, Done
<1>7. QED
  BY <1>1, <1>2, <1>6, Numbers, NothingMoves, OneKnows DEF KInv, Transition

LEMMA ReturnKnows ==
    ASSUME TInv, KInv, NEW r \in Request, Return(r)
    PROVE  KInv'
<1> DEFINE n == Len(saved[r])
<1>1. /\ UNCHANGED <<rows, pointer, seq, lock, pc, mem, copy, work, asked>>
      /\ pc[r] = "written" /\ saved'[r] = SubSeq(saved[r], 1, n - 1)
  BY DEF Return, TInv, TypeOK
<1>2. lock = r /\ Knowing(r)
  BY <1>1, WhoIsInside DEF KInv
<1>3. saved[r] \in Seq(Savepoints(r)) /\ n \in Nat \ {0}
  BY RequestTypes, EmptySeq DEF TInv, Return
<1>4. Len(saved'[r]) = n - 1 /\ \A i \in 1..(n - 1) : saved'[r][i] = saved[r][i]
  BY <1>1, <1>3
<1>5. \A i \in 1..(n - 1) : DoneOver(r, saved'[r][i], rows', pointer', mem', asked')
  BY <1>1, <1>2, <1>3, <1>4 DEF Knowing, Done
<1>6. Knowing(r)'
  BY <1>1, <1>2, <1>4, <1>5 DEF Knowing, Done
<1>7. QED
  BY <1>1, <1>2, <1>6, Numbers, NothingMoves, OneKnows DEF KInv, Transition

LEMMA CommitKnows ==
    ASSUME TInv, KInv, NEW r \in Request, Commit(r)
    PROVE  KInv'
<1>1. /\ UNCHANGED <<seq, mem>> /\ lock' = Free /\ pc'[r] = "ready" /\ Others(r)
  BY OthersStay DEF Commit, Saves, Goes, TInv, TypeOK, Transition
<1>2. QED
  BY <1>1, ChainAssumption DEF KInv, Others

\* A state more behind those that w adds, all the keys given so far below it.
LEMMA AddsOneMore ==
    ASSUME NEW rs, AreRows(rs), NEW p \in 0..MaxPk, NEW w, IsWork(w),
           w = NoWork \/ (Adds(w, rs, p) /\ w.pointer # 0),
           NEW q \in Pk, \A k \in DOMAIN Over(w.rows, rs) : k < q,
           NEW t \in 0..MaxPk, t = IF w.pointer = 0 THEN p ELSE w.pointer,
           t # 0 => t \in DOMAIN Over(w.rows, rs),
           NEW new, AreRows(new), DOMAIN new = {q} \cup ({t} \ {0}), new[q].prev = t,
           t # 0 => new[t].prev = Over(w.rows, rs)[t].prev
    PROVE  Adds([rows |-> Over(new, w.rows), pointer |-> q], rs, p)
<1> DEFINE old == Over(w.rows, rs)
           after == [rows |-> Over(new, w.rows), pointer |-> q]
           all == Over(after.rows, rs)
<1>1. all = Over(new, old) /\ AreRows(old) /\ DOMAIN old = DOMAIN w.rows \cup DOMAIN rs
  <2>1. all = Over(new, old)
    BY OverOver
  <2>2. QED
    BY <2>1, OverFacts DEF IsWork
<1>2. /\ DOMAIN all = DOMAIN old \cup {q} /\ q \notin DOMAIN old
      /\ all[q].prev = t
      /\ \A k \in DOMAIN old : all[k].prev = old[k].prev
  <2>1. /\ DOMAIN all = DOMAIN new \cup DOMAIN old
        /\ \A k \in DOMAIN new : all[k] = new[k]
        /\ \A k \in DOMAIN old \ DOMAIN new : all[k] = old[k]
    BY <1>1, OverFacts
  <2> HIDE DEF all, old
  <2>2. q \notin DOMAIN old
    BY DEF Pk, old
  <2>3. DOMAIN all = DOMAIN old \cup {q}
    BY <2>1 DEF old
  <2>4. \A k \in DOMAIN old : all[k].prev = old[k].prev
    BY <2>1, <2>2 DEF old
  <2>5. QED
    BY <2>1, <2>2, <2>3, <2>4
<1>3. DOMAIN rs \subseteq DOMAIN old /\ q \in Nat \ {0} /\ MaxPk \in Nat
  BY <1>1, ChainAssumption DEF Pk
<1>4. CASE w = NoWork
  <2> DEFINE added == <<q>>
  <2>1. old = rs /\ t = p
    BY <1>4, OverNothing DEF NoWork
  <2>2. added \in Seq(Pk) /\ Len(added) = 1 /\ added[1] = q
    OBVIOUS
  <2> HIDE DEF added, old, all
  <2>3. \A i \in 1..Len(added) :
          i <= added[i] /\ added[i] \notin DOMAIN rs /\ all[added[i]].prev = IF i = 1 THEN p ELSE added[i - 1]
    BY <1>2, <1>3, <2>1, <2>2
  <2>4. DOMAIN all = DOMAIN rs \cup {added[i] : i \in 1..Len(added)}
    BY <1>2, <2>1, <2>2
  <2>5. Lengthens(added, after, rs, p)
    BY <1>2, <2>1, <2>2, <2>3, <2>4 DEF Lengthens, all
  <2>6. QED
    BY <2>2, <2>5 DEF Adds
<1>5. CASE Adds(w, rs, p) /\ w.pointer # 0
  <2>1. PICK before \in Seq(Pk) : Lengthens(before, w, rs, p)
    BY <1>5 DEF Adds
  <2> DEFINE n == Len(before)
             added == Append(before, q)
  <2>2. /\ n \in Nat \ {0} /\ t = before[n]
        /\ added \in Seq(Pk) /\ Len(added) = n + 1 /\ added[n + 1] = q
        /\ \A i \in 1..n : added[i] = before[i] /\ before[i] \in Pk
    BY <1>5, <2>1, AppendProperties, ElementOfSeq DEF Lengthens
  <2>3. /\ \A i \in 1..n : i <= before[i] /\ before[i] \in DOMAIN old /\ before[i] \notin DOMAIN rs
        /\ \A i \in 1..n : old[before[i]].prev = IF i = 1 THEN p ELSE before[i - 1]
        /\ \A i, j \in 1..n : i # j => before[i] # before[j]
        /\ DOMAIN old = DOMAIN rs \cup {before[i] : i \in 1..n}
        /\ \A k \in DOMAIN rs : old[k].prev = rs[k].prev
    BY <2>1 DEF Lengthens
  <2>4. n < q
    <3>1. before[n] < q /\ n <= before[n] /\ before[n] \in Nat
      BY <1>3, <2>2, <2>3 DEF Pk
    <3>2. QED
      BY <1>3, <2>2, <3>1
  <2> HIDE DEF n, added, old, all
  <2>5. ASSUME NEW i \in 1..(n + 1)
        PROVE  i <= added[i] /\ added[i] \notin DOMAIN rs
                 /\ all[added[i]].prev = IF i = 1 THEN p ELSE added[i - 1]
    <3>1. CASE i = n + 1
      BY <1>2, <1>3, <2>2, <2>4, <3>1
    <3>2. CASE i # n + 1
      <4>1. i \in 1..n /\ (i # 1 => i - 1 \in 1..n)
        BY <2>2, <3>2
      <4>2. i <= added[i] /\ added[i] \notin DOMAIN rs /\ all[added[i]].prev = old[before[i]].prev
        BY <1>2, <2>2, <2>3, <4>1
      <4>3. i # 1 => added[i - 1] = before[i - 1]
        BY <2>2, <4>1
      <4>4. QED
        BY <2>3, <4>1, <4>2, <4>3
    <3>3. QED
      BY <3>1, <3>2
  <2>6. ASSUME NEW i \in 1..(n + 1), NEW j \in 1..(n + 1), i # j
        PROVE  added[i] # added[j]
    <3>1. \A k \in 1..n : added[k] # q
      BY <1>2, <2>2, <2>3
    <3>2. \A k \in 1..(n + 1) : k = n + 1 \/ k \in 1..n
      BY <2>2
    <3>3. QED
      BY <2>2, <2>3, <2>6, <3>1, <3>2
  <2>7. DOMAIN all = DOMAIN rs \cup {added[i] : i \in 1..(n + 1)}
    <3>1. {added[i] : i \in 1..(n + 1)} = {before[i] : i \in 1..n} \cup {q}
      <4>1. 1..(n + 1) = 1..n \cup {n + 1}
        BY <2>2
      <4>2. QED
        BY <2>2, <4>1
    <3>2. QED
      BY <1>2, <2>3, <3>1
  <2>8. \A k \in DOMAIN rs : all[k].prev = rs[k].prev
    BY <1>2, <1>3, <2>3
  <2>9. Lengthens(added, after, rs, p)
    BY <2>2, <2>5, <2>6, <2>7, <2>8 DEF Lengthens, all
  <2>10. QED
    BY <2>2, <2>9 DEF Adds
<1>6. QED
  BY <1>4, <1>5

LEMMA WriteKnows ==
    ASSUME TInv, KInv, NEW r \in Request, Write(r)
    PROVE  KInv'
<1> DEFINE q == seq + 1
           w == work[r]
           p == PointerAfter(w)
<1>1. /\ UNCHANGED <<rows, pointer, lock, copy, saved, asked>>
      /\ seq' = q /\ mem'[r] = q /\ pc[r] = "checked" /\ pc'[r] = "written"
  BY DEF Write, Goes, TInv, TypeOK
<1>2. lock = r /\ Inside(r) /\ Knowing(r) /\ CopyIsCurrent(r)
  BY <1>1, WhoIsInside DEF KInv, Inside
<1>3. PICK u \in BOOLEAN : work'[r] = [rows |-> Over(Linked(r, q, u), w.rows), pointer |-> q]
  BY DEF Write, TInv, TypeOK
<1>4. q \in Pk /\ q \in Nat \ {0} /\ seq < q /\ pointer < q
  BY Numbers DEF Pk, Write, TInv
<1>5. /\ AreRows(rows) /\ IsWork(w) /\ AreRows(Sees(r)) /\ p \in 0..MaxPk
      /\ EndsIn(Sees(r), p) /\ p <= seq
  BY <1>2, OverFacts, RequestTypes
     DEF TInv, TypeOK, Inside, Commits, IsWork, Sees, PointerAfter
<1>6. /\ \A k \in DOMAIN Sees(r) : k < q
      /\ p # 0 => p \in DOMAIN Sees(r)
  <2>1. DOMAIN Sees(r) \subseteq Nat /\ p \in Nat
    BY <1>5, Numbers DEF AreRows, Pk
  <2>2. QED
    BY <1>4, <1>5, <2>1, Numbers DEF EndsIn, AtTop
<1>7. Adds(work'[r], rows, pointer)
  <2> DEFINE new == Linked(r, q, u)
  <2>1. AreRows(new) /\ DOMAIN new = {q} \cup ({p} \ {0})
    BY <1>2, <1>4, LinkedTyped DEF TInv, CopyIsCurrent
  <2>2. new[q].prev = p
    BY <1>2 DEF Linked, Rows, NewRow, CopyIsCurrent
  <2>3. p # 0 => new[p].prev = Sees(r)[p].prev
    <3>1. p # q
      BY <1>4, <1>5, Numbers
    <3>2. QED
      BY <1>2, <3>1 DEF Linked, Rows, OldRow, CopyIsCurrent
  <2>4. w = NoWork \/ (Adds(w, rows, pointer) /\ w.pointer # 0)
    BY <1>2, <1>5, Numbers DEF Knowing, Done, DoneOver, IsWork
  <2>5. pointer \in 0..MaxPk /\ p = IF w.pointer = 0 THEN pointer ELSE w.pointer
    BY DEF PointerAfter, TInv, TypeOK
  <2> HIDE DEF new, p, q, w
  <2>6. QED
    BY <1>3, <1>4, <1>5, <1>6, <2>1, <2>2, <2>3, <2>4, <2>5, AddsOneMore DEF Sees, w, new
<1>8. DoneOver(r, work'[r], rows', pointer', mem', asked')
  <2>1. ASSUME NEW o \in Request \ {r}, mem'[o] \in DOMAIN work'[r].rows
        PROVE  mem'[o] \in DOMAIN rows
    <3>1. mem'[o] = mem[o] /\ mem[o] # q
      BY <1>4, OthersStay, Numbers DEF TInv, KInv, Transition, Others
    <3>2. DOMAIN work'[r].rows \subseteq {q} \cup DOMAIN Sees(r)
      <4>1. DOMAIN work'[r].rows = DOMAIN Linked(r, q, u) \cup DOMAIN w.rows
        BY <1>3 DEF Over
      <4>2. DOMAIN Linked(r, q, u) = {q} \cup ({p} \ {0})
        BY <1>2, <1>4, LinkedTyped DEF TInv, CopyIsCurrent
      <4>3. DOMAIN Sees(r) = DOMAIN w.rows \cup DOMAIN rows
        BY DEF Sees, Over
      <4>4. QED
        BY <1>6, <4>1, <4>2, <4>3
    <3>3. mem[o] \in DOMAIN w.rows \cup DOMAIN rows
      BY <2>1, <3>1, <3>2 DEF Sees, Over
    <3>4. w = NoWork => DOMAIN w.rows = {}
      BY DEF NoWork, NoRows
    <3>5. QED
      BY <1>2, <3>1, <3>3, <3>4 DEF Knowing, Done, DoneOver
  <2>2. asked[r] = pointer
    <3>1. w = NoWork => p = pointer
      BY DEF PointerAfter, NoWork
    <3>2. QED
      BY <1>1, <1>2, <3>1 DEF Knowing, Done, DoneOver, CopyIsCurrent
  <2>3. QED
    BY <1>1, <1>3, <1>4, <1>7, <2>1, <2>2 DEF DoneOver
<1>9. \A i \in 1..Len(saved[r]) : DoneOver(r, saved[r][i], rows', pointer', mem', asked')
  <2>1. mem'[r] \in Nat /\ mem[r] <= mem'[r]
    BY <1>1, <1>4, Numbers DEF KInv
  <2>2. \A o \in Request \ {r} : mem'[o] = mem[o]
    BY OthersStay DEF TInv, Transition, Others
  <2>3. QED
    BY <1>1, <1>2, <2>1, <2>2, NothingMoves, DoneStays, RequestTypes DEF TInv, Knowing
<1>10. work'[r] # NoWork
  BY <1>3, <1>4 DEF NoWork
<1>11. Knowing(r)'
  BY <1>1, <1>8, <1>9, <1>10 DEF Knowing, Done
<1>12. QED
  BY <1>1, <1>2, <1>4, <1>11, Numbers, NothingMoves, OneKnows DEF Transition

LEMMA KInvInit == Init => KInv
BY ChainAssumption DEF Init, KInv

\* A page that loads the record knows it as it is.
LEMMA PageKnows ==
    ASSUME "edit" \notin Jobs, QInv, TInv, KInv, NEW r \in Request, Page(r)
    PROVE  KInv'
<1>1. StartRead(r) \/ FetchState(r) \/ SaveState(r) \/ MarkRead(r)
  BY PagesOnlyMark
<1>2. /\ UNCHANGED <<pointer, seq, lock>> /\ mem'[r] \in {mem[r], pointer} /\ pc'[r] # "asking"
      /\ lock # r
  BY <1>1, PageIsOff DEF QInv, TInv, TypeOK, StartRead, Starts, FetchState, SaveState, MarkRead, Goes
<1>3. SameTrail(rows', rows)
  BY PageAmends DEF QInv, Amends, SameTrail
<1>4. QED
  BY <1>2, <1>3, Numbers, OneKnows DEF KInv, TInv

LEMMA KInvStep ==
    ASSUME "edit" \notin Jobs, QInv, KInv, [Next]_vars
    PROVE  KInv'
<1>1. TInv
  BY PointerIsEnd
<1>2. CASE UNCHANGED vars
  BY <1>2 DEF vars, KInv, Knowing, Done
<1>3. ASSUME NEW r \in Request, Load(r) \/ Transition(r) \/ Page(r)
      PROVE  KInv'
  BY <1>1, <1>3, LoadKnows, CallKnows, LockKnows, CheckKnows, WriteKnows, NestKnows, ReturnKnows,
     CommitKnows, FailureKnows, PageKnows DEF Transition
<1>4. QED
  BY <1>2, <1>3 DEF Next

LEMMA BothAlways ==
    ASSUME "edit" \notin Jobs
    PROVE  Spec => [](QInv /\ KInv)
BY QInvInit, QInvStep, KInvInit, KInvStep, PTL DEF Spec

-----------------------------------------------------------------------------
(* Refinement                                                              *)

\* The links back are the trail of RecordHistory.
LEMMA TrailStays ==
    ASSUME SameTrail(rows', rows)
    PROVE  [k \in DOMAIN rows |-> rows[k].prev]' = [k \in DOMAIN rows |-> rows[k].prev]
BY DEF SameTrail

\* Nothing is committed and every request takes the same state for current.
LEMMA Stutters ==
    ASSUME SameTrail(rows', rows), pointer' = pointer, \A q \in Request : Seen(q)' = Seen(q)
    PROVE  UNCHANGED History!hvars
BY TrailStays DEF History!hvars

\* While nothing is committed the others keep what they have seen.
LEMMA OthersSee ==
    ASSUME TypeOK, NEW r \in Request, Load(r) \/ Transition(r) \/ Page(r), SameTrail(rows', rows)
    PROVE  \A q \in Request \ {r} : Seen(q)' = Seen(q)
BY OthersStay DEF Others, Seen, SameTrail

LEMMA LoadLooks ==
    ASSUME TInv, NEW r \in Request, Load(r)
    PROVE  History!Look(r)
<1>1. UNCHANGED <<rows, pointer, work>> /\ mem'[r] = pointer /\ work[r] = NoWork
  BY WhoIsInside DEF Load, Outside, TInv, TypeOK
<1>2. Seen(r)' = pointer
  BY <1>1, Numbers DEF Seen
<1>3. \A q \in Request \ {r} : Seen(q)' = Seen(q)
  BY <1>1, NothingMoves, OthersSee DEF TInv
<1>4. QED
  BY <1>1, <1>2, <1>3 DEF History!Look

\* A failure leaves the record object with a state that is none, unless it goes
\* back to a savepoint, or nothing was written.
LEMMA FailureForgets ==
    ASSUME TInv, KInv, NEW r \in Request, CheckFails(r) \/ Refuse(r) \/ HookFails(r)
    PROVE  History!Forget(r) \/ UNCHANGED History!hvars
<1>1. UNCHANGED <<rows, pointer, mem>> /\ lock = r /\ Inside(r) /\ Knowing(r)
  BY WhoIsInside DEF CheckFails, Refuse, HookFails, Fails, Rollback, Caught, KInv
<1>2. \A q \in Request \ {r} : Seen(q)' = Seen(q)
  BY <1>1, NothingMoves, OthersSee DEF TInv, Transition
<1>3. CASE Rollback(r)
  <2>1. work'[r] = NoWork
    BY <1>3 DEF Rollback, TInv, TypeOK
  <2>2. CASE work[r] = NoWork
    <3>1. Seen(r)' = Seen(r)
      BY <1>1, <2>1, <2>2 DEF Seen
    <3>2. QED
      BY <1>1, <1>2, <3>1, NothingMoves, Stutters
  <2>3. CASE work[r] # NoWork
    <3>1. pointer < mem[r]
      <4>1. pointer < work[r].pointer /\ work[r].pointer <= mem[r]
        BY <1>1, <2>3 DEF Knowing, Done, DoneOver
      <4>2. work[r].pointer \in Nat
        BY RequestTypes, Numbers DEF TInv, IsWork
      <4>3. QED
        BY <4>1, <4>2, Numbers
    <3>2. mem[r] \notin DOMAIN rows \cup {0}
      BY <3>1, Numbers DEF Pk
    <3>3. Seen(r)' = MaxPk + 1
      BY <1>1, <2>1, <3>2 DEF Seen
    <3>4. QED
      BY <1>1, <1>2, <3>3 DEF History!Forget
  <2>4. QED
    BY <2>2, <2>3
<1>4. CASE Caught(r)
  <2>1. work'[r] = saved[r][Len(saved[r])] /\ asked' = asked
    BY <1>4 DEF Caught, TInv, TypeOK
  <2>2. Len(saved[r]) \in 1..Len(saved[r])
    BY <1>4, RequestTypes, EmptySeq DEF Caught, TInv
  <2>3. work'[r] # NoWork /\ work[r] # NoWork => Seen(r)' = Seen(r)
    BY <2>1 DEF Seen
  <2>4. work'[r] # NoWork
    BY <1>1, <2>1, <2>2 DEF Inside, NoWork
  <2>5. work[r] # NoWork
    BY <1>1, <1>4 DEF Knowing, Caught
  <2>6. QED
    BY <1>1, <1>2, <2>3, <2>4, <2>5, NothingMoves, Stutters
<1>5. QED
  BY <1>3, <1>4 DEF CheckFails, Refuse, HookFails, Fails

\* Neither what a request reads nor what it writes shows before it commits.
LEMMA QuietSteps ==
    ASSUME TInv, KInv, NEW r \in Request,
           Call(r) \/ Lock(r) \/ LockRefused(r) \/ Check(r) \/ Write(r) \/ Nest(r) \/ Return(r)
    PROVE  UNCHANGED History!hvars
<1>1. UNCHANGED <<rows, pointer>>
  BY DEF Call, Lock, LockRefused, Check, Write, Nest, Return
<1>2. \A q \in Request \ {r} : Seen(q)' = Seen(q)
  BY <1>1, NothingMoves, OthersSee DEF TInv, Transition
<1>3. Seen(r)' = Seen(r)
  <2>1. CASE Call(r) \/ LockRefused(r)
    <3>1. pc[r] \in {"ready", "asking"} /\ UNCHANGED <<rows, mem, work>>
      BY <2>1 DEF Call, LockRefused, Goes
    <3>2. work[r] = NoWork
      BY <3>1, WhoIsInside DEF Outside
    <3>3. QED
      BY <3>1, <3>2 DEF Seen
  <2>2. CASE Lock(r) \/ Check(r) \/ Nest(r) \/ Return(r)
    BY <2>2 DEF Lock, Check, Nest, Return, Seen
  <2>3. CASE Write(r)
    <3>1. lock = r /\ Knowing(r) /\ UNCHANGED <<rows, asked>>
      BY <2>3, WhoIsInside DEF KInv, Write, Goes
    <3>2. work'[r] # NoWork
      <4>1. work'[r].pointer = seq + 1
        BY <2>3 DEF Write, TInv, TypeOK
      <4>2. QED
        BY <4>1, Numbers DEF NoWork
    <3>3. work[r] = NoWork => mem[r] = asked[r] /\ mem[r] = pointer
      <4>1. work[r] = NoWork => PointerAfter(work[r]) = pointer
        BY DEF PointerAfter, NoWork
      <4>2. mem[r] = PointerAfter(work[r])
        BY <2>3, <3>1, WhoIsInside DEF Write, Goes, Knowing, Inside, CopyIsCurrent
      <4>3. QED
        BY <3>1, <4>1, <4>2 DEF Knowing
    <3>4. QED
      BY <3>1, <3>2, <3>3, Numbers DEF Seen
  <2>4. QED
    BY <2>1, <2>2, <2>3
<1>4. QED
  BY <1>1, <1>2, <1>3, NothingMoves, Stutters

\* What a transaction adds, in order, is among the additions of RecordHistory.
LEMMA AddedIsAddition ==
    ASSUME TInv, NEW w, NEW added \in Seq(Pk), Lengthens(added, w, rows, pointer)
    PROVE  added \in History!Additions
<1> DEFINE n == Len(added)
<1>1. n \in Nat \ {0} /\ DOMAIN added = 1..n /\ added \in [1..n -> Pk]
  BY DEF Lengthens
<1>2. n <= added[n] /\ added[n] \in 1..MaxPk
  BY <1>1 DEF Lengthens, Pk
<1>3. n \in 1..MaxPk
  BY <1>1, <1>2, ChainAssumption
<1>4. Cardinality(Pk) = MaxPk
  BY FS_Interval, Numbers DEF Pk
<1>5. added \in [1..n -> Pk \ DOMAIN rows]
  BY <1>1 DEF Lengthens
<1>6. added \in UNION {[1..m -> Pk \ DOMAIN rows] : m \in 1..MaxPk}
  BY <1>3, <1>5
<1>7. History!Additions = UNION {[1..m -> Pk \ DOMAIN rows] : m \in 1..MaxPk}
  <2>1. History!Cardinality(Pk) = MaxPk
    BY <1>4 DEF History!Cardinality, Cardinality
  <2>2. DOMAIN [k \in DOMAIN rows |-> rows[k].prev] = DOMAIN rows
    OBVIOUS
  <2>3. QED
    BY <2>1, <2>2 DEF History!Additions
<1>8. QED
  BY <1>6, <1>7

LEMMA CommitExtends ==
    ASSUME TInv, KInv, NEW r \in Request, Commit(r)
    PROVE  History!Extend(r)
<1> DEFINE w == work[r]
<1>1. /\ rows' = Over(w.rows, rows) /\ pointer' = w.pointer /\ mem' = mem
      /\ pc[r] = "written" /\ work'[r] = NoWork
      /\ \A q \in Request \ {r} : work'[q] = work[q] /\ asked'[q] = asked[q]
  BY DEF Commit, Saves, Goes, Sees, TInv, TypeOK
<1>2. lock = r /\ Inside(r) /\ Knowing(r) /\ w # NoWork
  BY <1>1, WhoIsInside DEF KInv, Inside, NoWork
<1>3. /\ Adds(w, rows, pointer) /\ pointer < w.pointer /\ w.pointer <= mem[r] /\ asked[r] = pointer
      /\ \A q \in Request \ {r} : mem[q] \in DOMAIN w.rows => mem[q] \in DOMAIN rows
  BY <1>2 DEF Knowing, Done, DoneOver
<1>4. PICK added \in Seq(Pk) : Lengthens(added, w, rows, pointer)
  BY <1>3 DEF Adds
<1> DEFINE n == Len(added)
<1>5. n \in Nat \ {0} /\ DOMAIN added = 1..n /\ added[n] = pointer'
  BY <1>1, <1>4 DEF Lengthens
<1>6. added \in History!Additions
  BY <1>4, AddedIsAddition
<1>7. \A i, j \in DOMAIN added : i # j => added[i] # added[j]
  BY <1>4, <1>5 DEF Lengthens
<1> DEFINE t == [k \in DOMAIN rows |-> rows[k].prev]
           f(k) == IF k \in DOMAIN t THEN t[k]
                   ELSE IF k = added[1] THEN pointer
                   ELSE added[(CHOOSE i \in DOMAIN added : added[i] = k) - 1]
<1>8. t' = [k \in DOMAIN t \cup {added[i] : i \in DOMAIN added} |-> f(k)]
  <2>1. DOMAIN rows' = DOMAIN rows \cup {added[i] : i \in DOMAIN added}
    BY <1>1, <1>4, <1>5 DEF Lengthens
  <2>2. ASSUME NEW k \in DOMAIN rows
        PROVE  rows'[k].prev = rows[k].prev
    BY <1>1, <1>4 DEF Lengthens
  <2>3. DOMAIN t = DOMAIN rows /\ \A k \in DOMAIN rows : t[k] = rows[k].prev
    OBVIOUS
  <2> HIDE DEF t
  <2>4. ASSUME NEW i \in DOMAIN added
        PROVE  rows'[added[i]].prev = f(added[i])
    <3>1. /\ added[i] \notin DOMAIN rows
          /\ rows'[added[i]].prev = IF i = 1 THEN pointer ELSE added[i - 1]
      BY <1>1, <1>4, <1>5 DEF Lengthens
    <3>2. (CHOOSE j \in DOMAIN added : added[j] = added[i]) = i
      BY <1>7
    <3>3. added[i] = added[1] <=> i = 1
      BY <1>5, <1>7
    <3>4. f(added[i]) = IF i = 1 THEN pointer ELSE added[i - 1]
      BY <2>3, <3>1, <3>2, <3>3
    <3>5. QED
      BY <3>1, <3>4
  <2>5. \A k \in DOMAIN rows : rows'[k].prev = f(k)
    BY <2>2, <2>3
  <2> HIDE DEF f
  <2>6. \A k \in DOMAIN rows' : rows'[k].prev = f(k)
    BY <2>1, <2>4, <2>5
  <2>7. [k \in DOMAIN rows' |-> rows'[k].prev] = [k \in DOMAIN rows' |-> f(k)]
    BY <2>6
  <2>8. QED
    BY <2>1, <2>3, <2>7 DEF t
<1> DEFINE s == [q \in Request |-> Seen(q)]
<1>9. Seen(r) = pointer
  BY <1>2, <1>3 DEF Seen
<1>10. Seen(r)' \in {pointer', MaxPk + 1}
  <2>1. mem[r] \in DOMAIN rows' => mem[r] <= pointer'
    BY <1>1, <1>2 DEF Inside, Commits, EndsIn, AtTop, PointerAfter, Sees
  <2>2. mem[r] # 0
    BY <1>3, Numbers, RequestTypes DEF TInv, IsWork
  <2>3. mem[r] \in DOMAIN rows' => mem[r] = pointer'
    BY <1>1, <1>3, <2>1, Numbers, RequestTypes DEF TInv, IsWork
  <2>4. QED
    BY <1>1, <2>2, <2>3 DEF Seen
<1>11. \A q \in Request \ {r} : Seen(q)' = Seen(q)
  <2> TAKE q \in Request \ {r}
  <2>1. mem[q] \in DOMAIN rows' <=> mem[q] \in DOMAIN rows
    BY <1>1, <1>3 DEF Over
  <2>2. QED
    BY <1>1, <2>1 DEF Seen
<1>12. \E knows \in {pointer', MaxPk + 1} :
         s' = [s EXCEPT ![r] = knows]
  <2>1. s' = [s EXCEPT ![r] = Seen(r)']
    BY <1>11
  <2>2. QED
    BY <1>10, <2>1
<1>13. s[r] = pointer /\ pointer' = added[Len(added)]
  BY <1>5, <1>9
<1> HIDE DEF w, n
<1>14. QED
  BY <1>6, <1>7, <1>8, <1>12, <1>13, Zenon DEF History!Extend

LEMMA HistoryInit == Init => History!HInit
BY DEF Init, History!HInit, Seen, NoRows

\* A page looks at the record when it loads it, and does nothing else to it.
LEMMA PageLooks ==
    ASSUME "edit" \notin Jobs, QInv, TInv, NEW r \in Request, Page(r)
    PROVE  History!Look(r) \/ UNCHANGED History!hvars
<1>1. StartRead(r) \/ FetchState(r) \/ SaveState(r) \/ MarkRead(r)
  BY PagesOnlyMark
<1>2. pointer' = pointer /\ UNCHANGED <<work, asked>> /\ work[r] = NoWork
  BY <1>1, PageIsOff DEF QInv, OffCall, StartRead, Starts, FetchState, SaveState, MarkRead
<1>3. SameTrail(rows', rows)
  BY PageAmends DEF QInv, Amends, SameTrail
<1>4. \A q \in Request \ {r} : Seen(q)' = Seen(q)
  BY <1>3, OthersSee DEF TInv
<1>5. CASE StartRead(r)
  <2>1. mem'[r] = pointer /\ pointer \in DOMAIN rows' \cup {0}
    BY <1>3, <1>5, Numbers DEF StartRead, Starts, TInv, TypeOK, SameTrail
  <2>2. Seen(r)' = pointer
    BY <1>2, <2>1 DEF Seen
  <2>3. QED
    BY <1>2, <1>3, <1>4, <2>2, TrailStays DEF History!Look
<1>6. CASE FetchState(r) \/ SaveState(r) \/ MarkRead(r)
  <2>1. mem'[r] = mem[r]
    BY <1>6 DEF FetchState, SaveState, MarkRead
  <2>2. Seen(r)' = Seen(r)
    BY <1>2, <1>3, <2>1 DEF Seen, SameTrail
  <2>3. QED
    BY <1>2, <1>3, <1>4, <2>2, Stutters
<1>7. QED
  BY <1>1, <1>5, <1>6

LEMMA HistoryStep ==
    ASSUME "edit" \notin Jobs, QInv, KInv, [Next]_vars
    PROVE  [History!HNext]_(History!hvars)
<1>0. TInv
  BY PointerIsEnd
<1>1. CASE UNCHANGED vars
  <2>1. UNCHANGED History!hvars
    BY <1>1, NothingMoves, Stutters DEF vars, Seen
  <2>2. QED
    BY <2>1
<1>2. ASSUME NEW r \in Request, Load(r) \/ Transition(r) \/ Page(r)
      PROVE  (\E q \in Request : History!Look(q) \/ History!Forget(q) \/ History!Extend(q))
               \/ UNCHANGED History!hvars
  BY <1>0, <1>2, LoadLooks, QuietSteps, FailureForgets, CommitExtends, PageLooks DEF Transition
<1>3. QED
  BY <1>1, <1>2 DEF Next, History!HNext

\* However many requests make transitions of a record at once, nest them, fail,
\* catch failures and roll back, its history grows as if they took turns, each
\* from the current state and having seen it (lock_instance and the StaleObject
\* check of _transition, models.py 945-963); the pages that save states over do
\* not change that, unless edit forms save the record as well.
THEOREM TransitionsAreAtomic ==
    ASSUME "edit" \notin Jobs
    PROVE  Spec => ImplementsHistory
BY HistoryInit, HistoryStep, BothAlways, PTL DEF Spec, ImplementsHistory, History!HSpec
=============================================================================
