----------------------------- MODULE LinkProofs -----------------------------
(***************************************************************************)
(* Proofs about the stored history of a record where not every page is in  *)
(* use: only the detail page undoes links, only it and mark_read leave     *)
(* unread states behind, and only edit forms put the pointer back.         *)
(*                                                                         *)
(* The argument: without the page that spoils it, the committed rows with  *)
(* the pointer are as they should be, and would still be if a transaction  *)
(* committed its work now, or that of any of its savepoints.               *)
(***************************************************************************)
EXTENDS ChainProofs

\* Without the detail page, only the last state has no next one, and links on are
\* links back the other way; if none marks states, only the last is unread.
Tight(rs) ==
    /\ "view" \notin Jobs =>
          \A k \in DOMAIN rs :
              IF rs[k].next = 0 THEN \A n \in DOMAIN rs : n <= k
              ELSE rs[k].next \in DOMAIN rs /\ rs[rs[k].next].prev = k
    /\ {"view", "mark"} \cap Jobs = {} =>
          \A k \in DOMAIN rs : rs[k].next # 0 => ~rs[k].unread

AtTop(rs, p) == \A k \in DOMAIN rs : k <= p

\* So they are when the work w is committed, with the pointer at the last state.
KeptOver(w, rs) ==
    /\ Tight(Over(w.rows, rs))
    /\ "edit" \notin Jobs => (w.pointer # 0 => AtTop(Over(w.rows, rs), w.pointer))

KeptPart(r) ==
    /\ KeptOver(work[r], rows)
    /\ \A i \in 1..Len(saved[r]) : KeptOver(saved[r][i], rows)
    /\ "edit" \notin Jobs => pc[r] \notin {"editing", "fixing", "found"}

QInv ==
    /\ PInv
    /\ Tight(rows)
    /\ "edit" \notin Jobs => AtTop(rows, pointer)
    /\ \A r \in Request : KeptPart(r)

\* Rows written over by the pages that there are.
SameLinks(new, old) ==
    /\ DOMAIN new = DOMAIN old
    /\ "view" \notin Jobs =>
          \A k \in DOMAIN old : new[k].prev = old[k].prev /\ new[k].next = old[k].next
    /\ {"view", "mark"} \cap Jobs = {} =>
          \A k \in DOMAIN old : new[k].next = old[k].next /\ new[k].unread = old[k].unread

LEMMA SameIsTight ==
    ASSUME NEW old, NEW new, SameLinks(new, old), Tight(old)
    PROVE  Tight(new)
<1>1. ASSUME "view" \notin Jobs, NEW k \in DOMAIN new
      PROVE  IF new[k].next = 0 THEN \A n \in DOMAIN new : n <= k
             ELSE new[k].next \in DOMAIN new /\ new[new[k].next].prev = k
  BY <1>1 DEF SameLinks, Tight
<1>2. ASSUME {"view", "mark"} \cap Jobs = {}, NEW k \in DOMAIN new, new[k].next # 0
      PROVE  ~new[k].unread
  BY <1>2 DEF SameLinks, Tight
<1>3. QED
  BY <1>1, <1>2 DEF Tight

LEMMA SameUnder ==
    ASSUME NEW top, NEW old, NEW new, SameLinks(new, old)
    PROVE  SameLinks(Over(top, new), Over(top, old))
<1>1. /\ DOMAIN new = DOMAIN old
      /\ DOMAIN Over(top, new) = DOMAIN top \cup DOMAIN old
      /\ DOMAIN Over(top, old) = DOMAIN top \cup DOMAIN old
  BY DEF SameLinks, Over
<1>2. ASSUME NEW k \in DOMAIN top \cup DOMAIN old
      PROVE  IF k \in DOMAIN top THEN Over(top, new)[k] = top[k] /\ Over(top, old)[k] = top[k]
             ELSE Over(top, new)[k] = new[k] /\ Over(top, old)[k] = old[k]
  BY <1>1, <1>2 DEF Over
<1>3. QED
  BY <1>1, <1>2 DEF SameLinks

LEMMA SameIsKept ==
    ASSUME NEW w, NEW old, NEW new, SameLinks(new, old), KeptOver(w, old)
    PROVE  KeptOver(w, new)
<1>1. SameLinks(Over(w.rows, new), Over(w.rows, old))
  BY SameUnder
<1>2. Tight(Over(w.rows, new))
  BY <1>1, SameIsTight DEF KeptOver
<1>3. DOMAIN Over(w.rows, new) = DOMAIN Over(w.rows, old)
  BY <1>1 DEF SameLinks
<1>4. QED
  BY <1>2, <1>3 DEF KeptOver, AtTop

LEMMA SameAsItWas ==
    ASSUME NEW rs
    PROVE  SameLinks(rs, rs)
BY DEF SameLinks

\* Nothing written is nothing spoilt.
LEMMA NothingIsKept ==
    ASSUME NEW rs, AreRows(rs), Tight(rs)
    PROVE  KeptOver(NoWork, rs)
BY OverNothing DEF KeptOver, NoWork

LEMMA LinkedIsTight ==
    ASSUME NEW rs, AreRows(rs), NEW p \in 0..MaxPk, Chained(rs, p), Tight(rs),
           NEW q \in Pk, p < q, NEW new, AreRows(new),
           DOMAIN new = {q} \cup ({p} \ {0}),
           new[q].prev = p, new[q].next = 0,
           p # 0 => new[p].prev = rs[p].prev /\ new[p].next = q /\ ~new[p].unread
    PROVE  Tight(Over(new, rs))
<1> DEFINE all == Over(new, rs)
<1>1. /\ DOMAIN rs \subseteq Nat \ {0} /\ q \in Nat \ {0} /\ p \in Nat
      /\ \A k \in DOMAIN rs : k <= p
      /\ p # 0 => p \in DOMAIN rs
      /\ p = 0 => DOMAIN rs = {}
      /\ q \notin DOMAIN rs
  BY RowsFacts, ChainAssumption DEF Chained, ChainedRow, Pk
<1>2. /\ DOMAIN all = DOMAIN rs \cup {q}
      /\ all[q].prev = p /\ all[q].next = 0
      /\ p # 0 => all[p].prev = rs[p].prev /\ all[p].next = q /\ ~all[p].unread
      /\ \A k \in DOMAIN rs \ {p} : all[k] = rs[k]
  <2>0. /\ DOMAIN all = DOMAIN new \cup DOMAIN rs
        /\ \A k \in DOMAIN new : all[k] = new[k]
        /\ \A k \in DOMAIN rs \ DOMAIN new : all[k] = rs[k]
    BY DEF Over
  <2> HIDE DEF all
  <2>1. DOMAIN all = DOMAIN rs \cup {q}
    BY <1>1, <2>0
  <2>2. all[q] = new[q] /\ (p # 0 => all[p] = new[p])
    BY <2>0
  <2>3. \A k \in DOMAIN rs \ {p} : all[k] = rs[k]
    BY <1>1, <2>0
  <2>4. QED
    BY <2>1, <2>2, <2>3
<1> HIDE DEF all
<1>3. \A k \in DOMAIN all : k <= q
  BY <1>1, <1>2
<1>4. ASSUME "view" \notin Jobs, NEW k \in DOMAIN all
      PROVE  IF all[k].next = 0 THEN \A n \in DOMAIN all : n <= k
             ELSE all[k].next \in DOMAIN all /\ all[all[k].next].prev = k
  <2>1. CASE k = q
    BY <1>2, <1>3, <2>1
  <2>2. CASE k = p /\ k # q
    BY <1>1, <1>2, <1>4, <2>2
  <2>3. CASE k # p /\ k # q
    <3>1. k \in DOMAIN rs /\ all[k] = rs[k] /\ k < p
      BY <1>1, <1>2, <1>4, <2>3
    <3>2. IF rs[k].next = 0 THEN \A n \in DOMAIN rs : n <= k
          ELSE rs[k].next \in DOMAIN rs /\ rs[rs[k].next].prev = k
      BY <1>4, <3>1 DEF Tight
    <3>3. rs[k].next # 0
      BY <1>1, <3>1, <3>2
    <3>4. all[rs[k].next].prev = k
      BY <1>1, <1>2, <3>2, <3>3
    <3>5. QED
      BY <1>2, <3>1, <3>2, <3>3, <3>4
  <2>4. QED
    BY <2>1, <2>2, <2>3
<1>5. ASSUME {"view", "mark"} \cap Jobs = {}, NEW k \in DOMAIN all, all[k].next # 0
      PROVE  ~all[k].unread
  <2>1. CASE k = p /\ k # q
    BY <1>1, <1>2, <1>5, <2>1
  <2>2. CASE k # p /\ k # q
    BY <1>2, <1>5, <2>2 DEF Tight
  <2>3. QED
    BY <1>2, <1>5, <2>1, <2>2
<1>6. QED
  BY <1>4, <1>5 DEF Tight, all

\* A step of one request keeps what is kept of the others.
LEMMA OthersKept ==
    ASSUME QInv, NEW r \in Request, NEW q \in Request \ {r}, Others(r), SameLinks(rows', rows)
    PROVE  KeptPart(q)'
<1>1. KeptPart(q) /\ work'[q] = work[q] /\ saved'[q] = saved[q] /\ pc'[q] = pc[q]
  BY DEF QInv, Others
<1>2. KeptOver(work'[q], rows')
  BY <1>1, SameIsKept DEF KeptPart
<1>3. \A i \in 1..Len(saved'[q]) : KeptOver(saved'[q][i], rows')
  BY <1>1, SameIsKept DEF KeptPart
<1>4. QED
  BY <1>1, <1>2, <1>3 DEF KeptPart

\* What is left to show of a step that writes rows over at most.
LEMMA KeptStep ==
    ASSUME QInv, PInv', NEW r \in Request, Others(r), SameLinks(rows', rows), KeptPart(r)',
           "edit" \notin Jobs => pointer' = pointer
    PROVE  QInv'
<1>1. Tight(rows')
  BY SameIsTight DEF QInv
<1>2. "edit" \notin Jobs => AtTop(rows', pointer')
  BY DEF QInv, AtTop, SameLinks
<1>3. \A q \in Request : KeptPart(q)'
  BY OthersKept
<1>4. QED
  BY <1>1, <1>2, <1>3 DEF QInv

\* The steps that leave the transaction alone.
LEMMA QuietKept ==
    ASSUME QInv, PInv', NEW r \in Request, Others(r), SameLinks(rows', rows),
           work'[r] = work[r], saved'[r] = saved[r],
           "edit" \notin Jobs =>
               pointer' = pointer /\ pc'[r] \notin {"editing", "fixing", "found"}
    PROVE  QInv'
<1>1. KeptOver(work'[r], rows')
  BY SameIsKept DEF QInv, KeptPart
<1>2. \A i \in 1..Len(saved'[r]) : KeptOver(saved'[r][i], rows')
  BY SameIsKept DEF QInv, KeptPart
<1>3. KeptPart(r)'
  BY <1>1, <1>2 DEF KeptPart
<1>4. QED
  BY <1>3, KeptStep

LEMMA QuietTransitionKept ==
    ASSUME QInv, PInv', NEW r \in Request,
           Load(r) \/ Call(r) \/ LockRefused(r) \/ Lock(r) \/ Check(r)
    PROVE  QInv'
<1>1. Others(r)
  BY OthersStay DEF QInv, PInv, Transition
<1>2. UNCHANGED <<rows, pointer, work, saved>>
  BY DEF Load, Call, LockRefused, Lock, Check
<1>3. pc'[r] \in {pc[r], "asking", "ready", "locked", "checked"}
  BY DEF QInv, PInv, TypeOK, Load, Call, LockRefused, Lock, Check, Goes
<1>4. "edit" \notin Jobs => pc'[r] \notin {"editing", "fixing", "found"}
  BY <1>3 DEF QInv, KeptPart
<1>5. SameLinks(rows', rows)
  BY <1>2, SameAsItWas
<1>6. QED
  BY <1>1, <1>2, <1>4, <1>5, QuietKept

\* Without the edit page the pointer never lags, so there is nothing to repair.
LEMMA PagesOnlyMark ==
    ASSUME QInv, "edit" \notin Jobs, NEW r \in Request, Page(r)
    PROVE  StartRead(r) \/ FetchState(r) \/ SaveState(r) \/ MarkRead(r)
<1>1. pc[r] \notin {"editing", "fixing", "found"}
  BY DEF QInv, KeptPart
<1>2. ~StartEdit(r)
  BY DEF StartEdit, Starts
<1>3. ~FindStale(r)
  <2>1. SUFFICES ASSUME pointer # 0, rows[pointer].next # 0
                 PROVE  FALSE
    BY DEF FindStale
  <2>2. PICK p \in 0..seq : Chained(rows, p)
    BY DEF QInv, PInv, IsChain
  <2>3. pointer \in DOMAIN rows /\ rows[pointer].next \in DOMAIN rows
          /\ pointer < rows[pointer].next
    BY <2>1, <2>2 DEF QInv, PInv, Chained, ChainedRow
  <2>4. rows[pointer].next <= pointer
    BY <2>3 DEF QInv, AtTop
  <2>5. DOMAIN rows \subseteq Nat
    BY ChainAssumption DEF QInv, PInv, TypeOK, AreRows, Pk
  <2>6. QED
    BY <2>3, <2>4, <2>5
<1>4. QED
  BY <1>1, <1>2, <1>3 DEF Page, SaveForm, FindLast, FixPointer, Goes

LEMMA PageKept ==
    ASSUME QInv, PInv', NEW r \in Request, Page(r)
    PROVE  QInv'
<1>1. Others(r) /\ UNCHANGED <<work, saved>>
  BY PageIsOff DEF QInv
<1>2. SameLinks(rows', rows)
  <2>1. CASE SaveState(r)
    BY <2>1 DEF SaveState, SameLinks
  <2>2. CASE MarkRead(r)
    <3>1. PICK u \in BOOLEAN : rows' = [rows EXCEPT ![copy[r].pk].unread = u]
      BY <2>2 DEF MarkRead
    <3>2. \A k \in DOMAIN rows : rows[k] \in Row
      BY RowsFacts DEF QInv, PInv, TypeOK
    <3>3. \A k \in DOMAIN rows : rows'[k].prev = rows[k].prev /\ rows'[k].next = rows[k].next
      BY <3>1, <3>2 DEF Row
    <3>4. QED
      BY <2>2, <3>1, <3>3 DEF MarkRead, SameLinks
  <2>3. CASE UNCHANGED rows
    BY <2>3, SameAsItWas
  <2>4. QED
    BY <2>1, <2>2, <2>3 DEF Page, StartEdit, SaveForm, StartRead, FetchState, FindStale, FindLast,
                            FixPointer, Starts
<1>3. ASSUME "edit" \notin Jobs
      PROVE  pointer' = pointer /\ pc'[r] \notin {"editing", "fixing", "found"}
  <2>1. StartRead(r) \/ FetchState(r) \/ SaveState(r) \/ MarkRead(r)
    BY <1>3, PagesOnlyMark
  <2>2. UNCHANGED pointer /\ pc'[r] \in {"opened", "fetched", "ready"}
    BY <2>1 DEF StartRead, Starts, FetchState, SaveState, MarkRead, Goes, QInv, PInv, TypeOK
  <2>3. QED
    BY <2>2
<1>4. QED
  BY <1>1, <1>2, <1>3, QuietKept

LEMMA WriteKept ==
    ASSUME QInv, PInv', NEW r \in Request, Write(r)
    PROVE  QInv'
<1> DEFINE q == seq + 1
           p == copy[r].pk
           w == work[r]
<1>1. Others(r)
  BY OthersStay DEF QInv, PInv, Transition
<1>2. /\ UNCHANGED <<rows, pointer, lock, copy, saved>> /\ seq' = q
      /\ pc[r] = "checked" /\ pc'[r] = "written"
      /\ seq \in Nat /\ q \in Pk
  BY ChainAssumption DEF QInv, PInv, TypeOK, Write, Goes, Pk
<1>3. InCall(r) /\ TopCopy(r)
  BY <1>2, WhoIsInCall DEF QInv, InCall
<1>4. PICK u \in BOOLEAN :
        work' = [work EXCEPT ![r] = [rows |-> Over(Linked(r, q, u), w.rows), pointer |-> q]]
  BY DEF Write
<1> DEFINE new == Linked(r, q, u)
           after == [rows |-> Over(new, w.rows), pointer |-> q]
<1>5. work'[r] = after
  BY <1>4 DEF QInv, PInv, TypeOK
<1>6. Over(after.rows, rows) = Over(new, Sees(r))
  BY OverOver DEF Sees
<1>7. AtTop(Over(after.rows, rows), q)
  <2>1. InCall(r)'
    BY <1>2, WhoIsInCall DEF PInv, Part, InCall, OffCall
  <2>2. LeavesOver(after, rows, q)
    BY <1>2, <1>5, <2>1 DEF InCall
  <2>3. PICK e \in 0..q : Chained(Over(after.rows, rows), e)
    BY <2>2 DEF LeavesOver, IsChain
  <2>4. AreRows(Sees(r)) /\ AreRows(new)
    BY <1>2, SeenTyped, LinkedTyped DEF QInv, PInv
  <2>5. DOMAIN Over(new, Sees(r)) \subseteq Nat
    <3>1. DOMAIN new \subseteq Nat /\ DOMAIN Sees(r) \subseteq Nat
      BY <2>4, RowsFacts, ChainAssumption DEF Pk
    <3>2. DOMAIN Over(new, Sees(r)) = DOMAIN new \cup DOMAIN Sees(r)
      BY DEF Over
    <3>3. QED
      BY <3>1, <3>2
  <2>6. \A k \in DOMAIN Over(after.rows, rows) : k <= e
    BY <2>3 DEF Chained, ChainedRow
  <2>7. QED
    BY <1>2, <1>6, <2>5, <2>6 DEF AtTop
<1>8. Tight(Over(new, Sees(r)))
  <2>1. p \in 0..MaxPk /\ copy[r].row \in Row
    BY DEF QInv, PInv, TypeOK
  <2>2. AreRows(Sees(r)) /\ Chained(Sees(r), p) /\ Tight(Sees(r))
    BY <1>3, SeenTyped DEF TopCopy, QInv, PInv, KeptPart, KeptOver, Sees
  <2>3. p < q
    <3>1. PICK e \in 0..seq : Chained(Sees(r), e)
      BY <1>3 DEF InCall, LeavesOver, IsChain, Sees
    <3>2. p \in Nat /\ e \in Nat
      BY <1>2, <2>1, <3>1, ChainAssumption
    <3>3. p = e
      BY <2>2, <3>1, <3>2, OneEnd
    <3>4. QED
      BY <1>2, <3>1, <3>3
  <2>4. AreRows(new) /\ DOMAIN new = {q} \cup ({p} \ {0})
    BY <1>2, LinkedTyped DEF QInv, PInv
  <2>5. p # q
    BY <1>2, <2>1, <2>3, ChainAssumption
  <2>6. new[q] = NewRow(r, u) /\ (p # 0 => new[p] = OldRow(r, q))
    BY <2>5 DEF Linked, Rows
  <2>7. new[q].prev = p /\ new[q].next = 0
    BY <2>6 DEF NewRow
  <2>8. p # 0 => new[p].prev = Sees(r)[p].prev /\ new[p].next = q /\ ~new[p].unread
    BY <1>3, <2>6 DEF OldRow, TopCopy
  <2> HIDE DEF new, p, q
  <2>9. QED
    BY <1>2, <2>1, <2>2, <2>3, <2>4, <2>7, <2>8, LinkedIsTight
<1>9. KeptOver(work'[r], rows')
  BY <1>2, <1>5, <1>6, <1>7, <1>8 DEF KeptOver
<1>10. \A i \in 1..Len(saved'[r]) : KeptOver(saved'[r][i], rows')
  BY <1>2 DEF QInv, KeptPart
<1>11. KeptPart(r)'
  BY <1>2, <1>9, <1>10 DEF KeptPart
<1>12. SameLinks(rows', rows)
  BY <1>2, SameAsItWas
<1>13. QED
  BY <1>1, <1>2, <1>11, <1>12, KeptStep

LEMMA NestKept ==
    ASSUME QInv, PInv', NEW r \in Request, Nest(r)
    PROVE  QInv'
<1> DEFINE n == Len(saved[r])
<1>1. Others(r)
  BY OthersStay DEF QInv, PInv, Transition
<1>2. /\ UNCHANGED <<rows, pointer, work>> /\ pc'[r] = "locked"
      /\ saved'[r] = Append(saved[r], work[r])
  BY DEF QInv, PInv, TypeOK, Nest, Goes
<1>3. saved[r] \in Seq(Savepoints(r) \cup {work[r]}) /\ n \in Nat
  BY RequestTypes, SeqMonotonic DEF QInv, PInv
<1>4. /\ Len(saved'[r]) = n + 1 /\ saved'[r][n + 1] = work[r]
      /\ \A i \in 1..n : saved'[r][i] = saved[r][i]
  BY <1>2, <1>3, AppendProperties
<1>5. \A i \in 1..(n + 1) : KeptOver(saved'[r][i], rows)
  <2> TAKE i \in 1..(n + 1)
  <2>1. CASE i = n + 1
    BY <1>4, <2>1 DEF QInv, KeptPart
  <2>2. CASE i # n + 1
    BY <1>3, <1>4, <2>2 DEF QInv, KeptPart
  <2>3. QED
    BY <2>1, <2>2
<1>6. KeptPart(r)'
  BY <1>2, <1>4, <1>5 DEF QInv, KeptPart
<1>7. SameLinks(rows', rows)
  BY <1>2, SameAsItWas
<1>8. QED
  BY <1>1, <1>2, <1>6, <1>7, KeptStep

LEMMA ReturnKept ==
    ASSUME QInv, PInv', NEW r \in Request, Return(r) \/ Caught(r), Others(r)
    PROVE  QInv'
<1> DEFINE n == Len(saved[r])
<1>1. /\ UNCHANGED <<rows, pointer>> /\ saved[r] # <<>> /\ pc'[r] = "written"
      /\ saved'[r] = SubSeq(saved[r], 1, n - 1)
      /\ work'[r] \in {work[r], saved[r][n]}
  BY DEF QInv, PInv, TypeOK, Return, Caught
<1>2. /\ n \in 1..n /\ n \in Nat /\ Len(saved'[r]) = n - 1
      /\ \A i \in 1..(n - 1) : saved'[r][i] = saved[r][i]
  BY <1>1, LastSavepoint DEF QInv, PInv
<1>3. KeptOver(work[r], rows) /\ \A i \in 1..n : KeptOver(saved[r][i], rows)
  BY DEF QInv, KeptPart
<1>4. KeptOver(work'[r], rows')
  BY <1>1, <1>2, <1>3
<1>5. \A i \in 1..(n - 1) : KeptOver(saved'[r][i], rows')
  BY <1>1, <1>2, <1>3
<1>6. KeptPart(r)'
  BY <1>1, <1>2, <1>4, <1>5 DEF KeptPart
<1>7. SameLinks(rows', rows)
  BY <1>1, SameAsItWas
<1>8. QED
  BY <1>1, <1>6, <1>7, KeptStep

LEMMA RollbackKept ==
    ASSUME QInv, PInv', NEW r \in Request, Rollback(r), Others(r)
    PROVE  QInv'
<1>1. /\ UNCHANGED <<rows, pointer>>
      /\ pc'[r] = "ready" /\ work'[r] = NoWork /\ saved'[r] = <<>>
  BY DEF QInv, PInv, TypeOK, Rollback
<1>2. KeptOver(NoWork, rows)
  BY NothingIsKept DEF QInv, PInv, TypeOK
<1>3. KeptPart(r)'
  BY <1>1, <1>2 DEF KeptPart
<1>4. SameLinks(rows', rows)
  BY <1>1, SameAsItWas
<1>5. QED
  BY <1>1, <1>3, <1>4, KeptStep

\* Whoever commits is alone in having written anything.
LEMMA CommitKept ==
    ASSUME QInv, PInv', NEW r \in Request, Commit(r)
    PROVE  QInv'
<1>1. Others(r)
  BY OthersStay DEF QInv, PInv, Transition
<1>2. /\ rows' = Over(work[r].rows, rows) /\ pointer' = work[r].pointer /\ lock' = Free
      /\ pc[r] = "written" /\ pc'[r] = "ready"
  BY DEF QInv, PInv, TypeOK, Commit, Saves, Goes, Sees
<1>3. work[r].pointer # 0
  BY <1>2, WhoIsInCall DEF QInv, InCall
<1>4. Tight(rows') /\ ("edit" \notin Jobs => AtTop(rows', pointer'))
  BY <1>2, <1>3 DEF QInv, KeptPart, KeptOver
<1>5. KeptOver(NoWork, rows')
  <2>1. AreRows(rows)'
    BY DEF PInv, TypeOK
  <2>2. QED
    BY <1>4, <2>1, NothingIsKept
<1>6. ASSUME NEW q \in Request
      PROVE  KeptPart(q)'
  <2>1. work'[q] = NoWork /\ saved'[q] = <<>>
    BY <1>2, ChainAssumption DEF PInv, Part, OffCall
  <2>2. "edit" \notin Jobs => pc'[q] \notin {"editing", "fixing", "found"}
    BY <1>1, <1>2 DEF QInv, KeptPart, Others
  <2>3. QED
    BY <1>5, <2>1, <2>2 DEF KeptPart
<1>7. QED
  BY <1>4, <1>6 DEF QInv

LEMMA QInvInit == Init => QInv
<1> SUFFICES ASSUME Init PROVE QInv
  OBVIOUS
<1>1. PInv
  BY PInvInit
<1>2. rows = NoRows /\ DOMAIN rows = {} /\ pointer = 0
  BY DEF Init, NoRows
<1>3. Tight(rows) /\ AtTop(rows, pointer)
  BY <1>2 DEF Tight, AtTop
<1>4. KeptOver(NoWork, rows)
  BY <1>3, NothingIsKept, <1>1 DEF PInv, TypeOK
<1>5. \A r \in Request : KeptPart(r)
  BY <1>4 DEF Init, KeptPart
<1>6. QED
  BY <1>1, <1>3, <1>5 DEF QInv

LEMMA QInvStep ==
    ASSUME QInv, [Next]_vars
    PROVE  QInv'
<1>0. PInv'
  BY PInvStep DEF QInv
<1>1. CASE UNCHANGED vars
  BY <1>0, <1>1 DEF vars, QInv, KeptPart
<1>2. ASSUME NEW r \in Request, Load(r) \/ Transition(r) \/ Page(r)
      PROVE  QInv'
  <2>1. Others(r)
    BY <1>2, OthersStay DEF QInv, PInv, Others
  <2>2. CASE Rollback(r) \/ Caught(r) \/ Return(r)
    BY <1>0, <2>1, <2>2, RollbackKept, ReturnKept
  <2>3. QED
    BY <1>0, <1>2, <2>2, QuietTransitionKept, WriteKept, NestKept, CommitKept, PageKept
       DEF Transition, CheckFails, Refuse, HookFails, Fails
<1>3. QED
  BY <1>1, <1>2 DEF Next

LEMMA QInvAlways == Spec => []QInv
BY QInvInit, QInvStep, PTL DEF Spec

\* What is kept, of the committed rows.
LEMMA KeptIsLinked ==
    ASSUME QInv
    PROVE  /\ "view" \notin Jobs => SingleCurrent /\ LinkedBothWays
           /\ {"view", "mark"} \cap Jobs = {} => HistoryIsRead
           /\ "edit" \notin Jobs => PointerIsCurrent
<1>1. PICK p \in 0..seq : Chained(rows, p)
  BY DEF QInv, PInv, IsChain
<1>2. DOMAIN rows \subseteq Nat \ {0} /\ \A k \in DOMAIN rows : rows[k] \in Row
  BY RowsFacts, ChainAssumption DEF QInv, PInv, TypeOK, Pk
<1>3. \A k \in DOMAIN rows : ChainedRow(rows, p, k)
  BY <1>1 DEF Chained
<1>4. (rows = NoRows) <=> (DOMAIN rows = {})
  <2>1. DOMAIN rows = {} => rows = NoRows
    BY DEF QInv, PInv, TypeOK, AreRows, NoRows
  <2>2. QED
    BY <2>1 DEF NoRows
<1>5. p \in DOMAIN rows => rows[p].next = 0
  BY <1>2, <1>3 DEF ChainedRow
<1>6. ASSUME "view" \notin Jobs
      PROVE  SingleCurrent /\ LinkedBothWays
  <2>1. \A k \in DOMAIN rows :
            IF rows[k].next = 0 THEN \A n \in DOMAIN rows : n <= k
            ELSE rows[k].next \in DOMAIN rows /\ rows[rows[k].next].prev = k
    BY <1>6 DEF QInv, Tight
  <2>2. SingleCurrent
    <3>1. \A a, b \in Currents(rows) : a = b
      BY <1>2, <2>1 DEF Currents
    <3>2. rows # NoRows => p \in Currents(rows)
      BY <1>1, <1>4, <1>5 DEF Chained, Currents
    <3>3. QED
      BY <3>1, <3>2 DEF SingleCurrent
  <2>3. ASSUME NEW k \in DOMAIN rows, rows[k].prev # 0
        PROVE  rows[k].prev \in DOMAIN rows /\ rows[rows[k].prev].next = k
    <3> DEFINE j == rows[k].prev
               m == rows[j].next
    <3>1. j \in DOMAIN rows /\ j < k /\ \A n \in DOMAIN rows : ~(j < n /\ n < k)
      BY <1>3, <2>3 DEF ChainedRow
    <3>2. m # 0
      BY <1>2, <2>1, <2>3, <3>1
    <3>3. m \in DOMAIN rows /\ rows[m].prev = j
      BY <2>1, <3>1, <3>2
    <3>4. j # 0 /\ j < m /\ \A n \in DOMAIN rows : ~(j < n /\ n < m)
      BY <1>3, <2>3, <3>3 DEF ChainedRow
    <3>5. m = k
      BY <1>2, <2>3, <3>1, <3>3, <3>4
    <3>6. QED
      BY <3>1, <3>5
  <2>4. LinkedBothWays
    BY <1>3, <2>1, <2>3 DEF LinkedBothWays, ChainedRow
  <2>5. QED
    BY <2>2, <2>4
<1>7. ASSUME {"view", "mark"} \cap Jobs = {}
      PROVE  HistoryIsRead
  BY <1>7 DEF QInv, Tight, HistoryIsRead
<1>8. ASSUME "edit" \notin Jobs
      PROVE  PointerIsCurrent
  <2>1. pointer \in DOMAIN rows \cup {0} /\ \A k \in DOMAIN rows : k <= pointer
    BY <1>8 DEF QInv, PInv, AtTop
  <2>2. CASE rows = NoRows
    BY <1>4, <2>1, <2>2 DEF PointerIsCurrent
  <2>3. CASE rows # NoRows
    <3>1. p \in DOMAIN rows
      BY <1>1, <1>4, <2>3 DEF Chained
    <3>2. pointer \in DOMAIN rows /\ pointer <= p /\ p <= pointer
      BY <1>2, <1>3, <2>1, <3>1 DEF ChainedRow
    <3>3. pointer = p
      BY <1>2, <3>1, <3>2
    <3>4. QED
      BY <1>5, <2>3, <3>1, <3>3 DEF PointerIsCurrent, Currents
  <2>4. QED
    BY <2>2, <2>3
<1>9. QED
  BY <1>6, <1>7, <1>8

\* Exactly one committed state of a tracked record is without a next one, so
\* reload_current_state() never fails, whatever runs at once, unless detail pages
\* save states (views_mixins.py, WorkflowDetailMixin).
THEOREM OneCurrentState ==
    ASSUME "view" \notin Jobs
    PROVE  Spec => []SingleCurrent
BY QInvAlways, KeptIsLinked, PTL

\* Unless they do, the stored history is a doubly linked list in the order of the
\* keys.
THEOREM HistoryIsLinked ==
    ASSUME "view" \notin Jobs
    PROVE  Spec => []LinkedBothWays
BY QInvAlways, KeptIsLinked, PTL

\* Only pages that mark states leave an unread one in the history.
THEOREM PastIsRead ==
    ASSUME {"view", "mark"} \cap Jobs = {}
    PROVE  Spec => []HistoryIsRead
BY QInvAlways, KeptIsLinked, PTL

\* wfm_state is never behind the current state, even when states are saved over
\* by the pages, unless edit forms save the record (WorkflowModelUpdate).
THEOREM PointerFollows ==
    ASSUME "edit" \notin Jobs
    PROVE  Spec => []PointerIsCurrent
BY QInvAlways, KeptIsLinked, PTL
=============================================================================
