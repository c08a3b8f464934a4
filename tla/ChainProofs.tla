----------------------------- MODULE ChainProofs ----------------------------
(***************************************************************************)
(* Proofs about the stored history of a record, for any number of requests *)
(* and any length of the history, whatever the requests do: transitions,   *)
(* nested, failing and caught, and the pages and commands that write its   *)
(* rows without the lock.                                                  *)
(*                                                                         *)
(* The argument: the pages write back rows and pointers that they read     *)
(* before, so they may undo a link to the next state.  But a link back     *)
(* never changes once it is written, and a link on that a page restores    *)
(* leads to a later state.  So the keys and the links back stay a chain.   *)
(* Only the request that holds the lock has written rows that are not      *)
(* committed; what it would leave if it committed now, or after going back *)
(* to any of its savepoints, is a chain too, and as it goes on only from a *)
(* single current state, it goes on from the end.                          *)
(***************************************************************************)
EXTENDS ChainProperties, SequenceTheorems, TLAPS

\* In the rows rs, p is the last key, each link back leads to the key before,
\* and a link on, if there is one, to a later key.
ChainedRow(rs, p, k) ==
    /\ k <= p
    /\ rs[k].next # 0 => rs[k].next \in DOMAIN rs /\ k < rs[k].next
    /\ IF rs[k].prev = 0 THEN \A n \in DOMAIN rs : k <= n
       ELSE /\ rs[k].prev \in DOMAIN rs
            /\ rs[k].prev < k
            /\ \A n \in DOMAIN rs : ~(rs[k].prev < n /\ n < k)

Chained(rs, p) ==
    /\ p \in DOMAIN rs \/ (p = 0 /\ DOMAIN rs = {})
    /\ \A k \in DOMAIN rs : ChainedRow(rs, p, k)

\* It ends in one of the keys that have been given, the last of which is s.
IsChain(rs, s) == \E p \in 0..s : Chained(rs, p)

SamePrevs(new, old) == \A k \in DOMAIN new \cap DOMAIN old : new[k].prev = old[k].prev

\* The work w of a transaction, committed over the rows rs, leaves a chain; what
\* has moved no pointer has written nothing.
LeavesOver(w, rs, s) ==
    /\ IsChain(Over(w.rows, rs), s)
    /\ SamePrevs(w.rows, rs)
    /\ IF w.pointer = 0 THEN w = NoWork ELSE w.pointer \in DOMAIN w.rows

\* What a page has read of a state, as far as it still holds when it saves it.
IsCopyOver(c, rs) ==
    /\ c.pk \in DOMAIN rs
    /\ c.row.prev = rs[c.pk].prev
    /\ c.row.next # 0 => c.row.next \in DOMAIN rs /\ c.pk < c.row.next

\* What Check has read is the end of the chain, as Write will find it.
TopCopy(r) ==
    /\ Chained(Sees(r), copy[r].pk)
    /\ copy[r].pk # 0 => copy[r].row.prev = Sees(r)[copy[r].pk].prev

InCall(r) ==
    /\ pc[r] \in {"locked", "checked", "written"}
    /\ LeavesOver(work[r], rows, seq)
    /\ \A i \in 1..Len(saved[r]) : LeavesOver(saved[r][i], rows, seq) /\ saved[r][i].pointer # 0
    /\ pc[r] = "checked" => TopCopy(r)
    /\ pc[r] = "written" => work[r].pointer # 0

OnPageOver(at, m, c, rs) ==
    /\ at \in {"editing", "opened", "fixing", "found"} => m \in DOMAIN rs
    /\ at = "fetched" => IsCopyOver(c, rs)
    /\ at = "fixing" => \E n \in DOMAIN rs : m < n
    /\ at = "found" => c.pk \in DOMAIN rs /\ m < c.pk

OffCall(r) ==
    /\ pc[r] \notin {"locked", "checked", "written"}
    /\ work[r] = NoWork
    /\ saved[r] = <<>>
    /\ OnPageOver(pc[r], mem[r], copy[r], rows)

Part(r) == IF lock = r THEN InCall(r) ELSE OffCall(r)

PInv ==
    /\ TypeOK
    /\ IsChain(rows, seq)
    /\ pointer \in DOMAIN rows \cup {0}
    /\ \A r \in Request : Part(r)

-----------------------------------------------------------------------------
(* Rows                                                                    *)

LEMMA RowsFacts ==
    ASSUME NEW rs, AreRows(rs)
    PROVE  /\ DOMAIN rs \subseteq Pk
           /\ \A k \in DOMAIN rs : rs[k] \in Row
           /\ rs = [k \in DOMAIN rs |-> rs[k]]
BY DEF AreRows

\* What is put over rows are rows again.
LEMMA OverFacts ==
    ASSUME NEW new, AreRows(new), NEW old, AreRows(old)
    PROVE  /\ AreRows(Over(new, old))
           /\ DOMAIN Over(new, old) = DOMAIN new \cup DOMAIN old
           /\ \A k \in DOMAIN new : Over(new, old)[k] = new[k]
           /\ \A k \in DOMAIN old \ DOMAIN new : Over(new, old)[k] = old[k]
<1> DEFINE keys == DOMAIN new \cup DOMAIN old
<1>1. keys \in SUBSET Pk
  BY RowsFacts
<1>2. \A k \in keys : (IF k \in DOMAIN new THEN new[k] ELSE old[k]) \in Row
  BY RowsFacts
<1>3. Over(new, old) \in [keys -> Row]
  BY <1>2 DEF Over
<1>4. QED
  BY <1>1, <1>3 DEF Over, AreRows

LEMMA OverNothing ==
    ASSUME NEW rs, AreRows(rs)
    PROVE  AreRows(NoRows) /\ Over(NoRows, rs) = rs
<1>1. NoRows \in [{} -> Row] /\ DOMAIN NoRows = {}
  BY DEF NoRows
<1>2. AreRows(NoRows)
  BY <1>1 DEF AreRows
<1>3. Over(NoRows, rs) = [k \in DOMAIN rs |-> rs[k]]
  BY <1>1 DEF Over
<1>4. QED
  BY <1>2, <1>3, RowsFacts

\* The rows of a transaction lie over each other as it wrote them.
LEMMA OverOver ==
    ASSUME NEW a, NEW b, NEW c
    PROVE  Over(Over(a, b), c) = Over(a, Over(b, c))
BY DEF Over

\* A chain has one end, and if only one state is current, it is that end.
LEMMA OneEnd ==
    ASSUME NEW rs, AreRows(rs), NEW p \in Nat, Chained(rs, p)
    PROVE  /\ \A q \in Nat : Chained(rs, q) => q = p
           /\ \A k : Reloaded(rs) = {k} => k = p
<1>1. DOMAIN rs \subseteq Nat \ {0} /\ \A k \in DOMAIN rs : rs[k] \in Row
  BY RowsFacts, ChainAssumption DEF Pk
<1>2. \A q \in Nat : Chained(rs, q) => q = p
  BY <1>1 DEF Chained, ChainedRow
<1>3. p \in DOMAIN rs => p \in Currents(rs)
  BY <1>1 DEF Chained, ChainedRow, Currents
<1>4. p \notin DOMAIN rs => p = 0 /\ Currents(rs) = {}
  BY DEF Chained, Currents
<1>5. p \in Reloaded(rs)
  BY <1>3, <1>4 DEF Reloaded
<1>6. QED
  BY <1>2, <1>5

\* Rows that were written over keep their links back, and their links on lead to
\* later keys.
Amends(new, old) ==
    /\ DOMAIN new = DOMAIN old
    /\ \A k \in DOMAIN old :
          /\ new[k].prev = old[k].prev
          /\ \/ new[k].next = old[k].next
             \/ new[k].next # 0 => new[k].next \in DOMAIN old /\ k < new[k].next

LEMMA AmendedIsChained ==
    ASSUME NEW old, NEW new, Amends(new, old), NEW p, Chained(old, p)
    PROVE  Chained(new, p)
<1>1. /\ DOMAIN new = DOMAIN old
      /\ p \in DOMAIN old \/ (p = 0 /\ DOMAIN old = {})
  BY DEF Amends, Chained
<1>2. ASSUME NEW k \in DOMAIN old
      PROVE  ChainedRow(new, p, k)
  <2>1. ChainedRow(old, p, k)
    BY <1>2 DEF Chained
  <2>2. /\ new[k].prev = old[k].prev
        /\ \/ new[k].next = old[k].next
           \/ new[k].next # 0 => new[k].next \in DOMAIN old /\ k < new[k].next
    BY <1>2 DEF Amends
  <2>3. QED
    BY <1>1, <2>1, <2>2 DEF ChainedRow
<1>3. QED
  BY <1>1, <1>2 DEF Chained

LEMMA AmendedUnder ==
    ASSUME NEW top, NEW old, NEW new, Amends(new, old)
    PROVE  Amends(Over(top, new), Over(top, old))
<1>1. /\ DOMAIN new = DOMAIN old
      /\ DOMAIN Over(top, new) = DOMAIN top \cup DOMAIN old
      /\ DOMAIN Over(top, old) = DOMAIN top \cup DOMAIN old
  BY DEF Amends, Over
<1>2. ASSUME NEW k \in DOMAIN top \cup DOMAIN old
      PROVE  IF k \in DOMAIN top THEN Over(top, new)[k] = top[k] /\ Over(top, old)[k] = top[k]
             ELSE Over(top, new)[k] = new[k] /\ Over(top, old)[k] = old[k]
  BY <1>1, <1>2 DEF Over
<1>3. QED
  BY <1>1, <1>2 DEF Amends

\* The rows that a transition writes over the end of a chain make it longer by
\* one (_transition, models.py 969-983).
LEMMA LinkedIsChained ==
    ASSUME NEW rs, AreRows(rs), NEW p \in 0..MaxPk, Chained(rs, p),
           NEW q \in Pk, p < q, NEW new, AreRows(new),
           DOMAIN new = {q} \cup ({p} \ {0}),
           new[q].prev = p, new[q].next = 0,
           p # 0 => new[p].prev = rs[p].prev /\ new[p].next = q
    PROVE  Chained(Over(new, rs), q)
<1> DEFINE all == Over(new, rs)
<1>1. /\ DOMAIN rs \subseteq Nat \ {0} /\ q \in Nat \ {0} /\ p \in Nat
      /\ \A k \in DOMAIN rs : rs[k] \in Row /\ k <= p
      /\ p # 0 => p \in DOMAIN rs
      /\ p = 0 => DOMAIN rs = {}
      /\ q \notin DOMAIN rs
  BY RowsFacts, ChainAssumption DEF Chained, ChainedRow, Pk
<1>2. /\ DOMAIN all = DOMAIN rs \cup {q}
      /\ all[q].prev = p /\ all[q].next = 0
      /\ p # 0 => all[p].prev = rs[p].prev /\ all[p].next = q
      /\ \A k \in DOMAIN rs \ {p} : all[k] = rs[k]
  <2>0. /\ DOMAIN all = DOMAIN new \cup DOMAIN rs
        /\ \A k \in DOMAIN new : all[k] = new[k]
        /\ \A k \in DOMAIN rs \ DOMAIN new : all[k] = rs[k]
    BY DEF Over
  <2> HIDE DEF all
  <2>1. DOMAIN all = DOMAIN rs \cup {q}
    BY <1>1, <2>0
  <2>2. all[q] = new[q] /\ (p # 0 => all[p] = new[p])
    BY <2>0
  <2>3. \A k \in DOMAIN rs \ {p} : all[k] = rs[k]
    BY <1>1, <2>0
  <2>4. QED
    BY <2>1, <2>2, <2>3
<1>3. \A k \in DOMAIN rs : ChainedRow(rs, p, k)
  BY DEF Chained
<1> HIDE DEF all
<1>4. ChainedRow(all, q, q)
  BY <1>1, <1>2 DEF ChainedRow
<1>5. ASSUME NEW k \in DOMAIN rs
      PROVE  ChainedRow(all, q, k)
  <2> USE <1>1, <1>2, <1>3, <1>5
  <2>1. k <= q /\ all[k].prev = rs[k].prev /\ k # q
    OBVIOUS
  <2>2. all[k].next # 0 => all[k].next \in DOMAIN all /\ k < all[k].next
    <3>1. CASE k = p
      BY <3>1
    <3>2. CASE k # p
      BY <3>2 DEF ChainedRow
    <3>3. QED
      BY <3>1, <3>2
  <2>3. IF all[k].prev = 0 THEN \A n \in DOMAIN all : k <= n
        ELSE /\ all[k].prev \in DOMAIN all
             /\ all[k].prev < k
             /\ \A n \in DOMAIN all : ~(all[k].prev < n /\ n < k)
    BY <2>1 DEF ChainedRow
  <2>4. QED
    BY <2>1, <2>2, <2>3 DEF ChainedRow
<1>6. QED
  BY <1>2, <1>4, <1>5 DEF Chained, all

-----------------------------------------------------------------------------
(* Types                                                                   *)

\* What TypeOK says of the transaction of one request.
LEMMA RequestTypes ==
    ASSUME TypeOK, NEW r \in Request
    PROVE  /\ IsWork(work[r])
           /\ Len(saved[r]) \in Nat
           /\ DOMAIN saved[r] = 1..Len(saved[r])
           /\ saved[r] \in Seq(Savepoints(r))
           /\ \A i \in 1..Len(saved[r]) : saved[r][i] \in Savepoints(r) /\ IsWork(saved[r][i])
<1>1. IsWork(work[r]) /\ saved[r] \in Seq(Savepoints(r)) /\ \A w \in Savepoints(r) : IsWork(w)
  BY DEF TypeOK, TransactionOK
<1>2. Len(saved[r]) \in Nat /\ DOMAIN saved[r] = 1..Len(saved[r])
  BY <1>1
<1>3. \A i \in 1..Len(saved[r]) : saved[r][i] \in Savepoints(r)
  BY <1>1
<1>4. QED
  BY <1>1, <1>2, <1>3

LEMMA TransactionFromParts ==
    ASSUME NEW r, NEW S, saved'[r] \in Seq(S), \A w \in S : IsWork(w), IsWork(work'[r])
    PROVE  TransactionOK(r)'
<1>1. saved'[r] \in Seq(Savepoints(r)')
  BY SeqOfRange DEF Savepoints, Range
<1>2. \A w \in Savepoints(r)' : IsWork(w)
  BY ElementOfSeq, LenProperties DEF Savepoints
<1>3. QED
  BY <1>1, <1>2 DEF TransactionOK

\* A step of one request leaves the others where they are.
Others(r) ==
    \A q \in Request \ {r} :
        /\ pc'[q] = pc[q] /\ mem'[q] = mem[q] /\ copy'[q] = copy[q]
        /\ work'[q] = work[q] /\ saved'[q] = saved[q] /\ asked'[q] = asked[q]

LEMMA OthersStay ==
    ASSUME TypeOK, NEW r \in Request, Load(r) \/ Transition(r) \/ Page(r)
    PROVE  Others(r)
<1> USE DEF TypeOK, Goes, Others, Starts
<1>1. CASE Load(r) BY <1>1 DEF Load
<1>2. CASE Transition(r)
  <2>1. CASE Call(r) BY <2>1 DEF Call
  <2>2. CASE Lock(r) BY <2>2 DEF Lock
  <2>3. CASE LockRefused(r) BY <2>3 DEF LockRefused
  <2>4. CASE Check(r) BY <2>4 DEF Check
  <2>5. CASE Fails(r) BY <2>5 DEF Fails, Rollback, Caught
  <2>6. CASE Write(r) BY <2>6 DEF Write
  <2>7. CASE Nest(r) BY <2>7 DEF Nest
  <2>8. CASE Return(r) BY <2>8 DEF Return
  <2>9. CASE Commit(r) BY <2>9 DEF Commit, Saves
  <2>10. QED
    BY <1>2, <2>1, <2>2, <2>3, <2>4, <2>5, <2>6, <2>7, <2>8, <2>9
       DEF Transition, CheckFails, Refuse, HookFails
<1>3. CASE Page(r)
  <2>1. CASE StartEdit(r) BY <2>1 DEF StartEdit
  <2>2. CASE SaveForm(r) BY <2>2 DEF SaveForm
  <2>3. CASE StartRead(r) BY <2>3 DEF StartRead
  <2>4. CASE FetchState(r) BY <2>4 DEF FetchState
  <2>5. CASE SaveState(r) BY <2>5 DEF SaveState
  <2>6. CASE MarkRead(r) BY <2>6 DEF MarkRead
  <2>7. CASE FindStale(r) BY <2>7 DEF FindStale
  <2>8. CASE FindLast(r) BY <2>8 DEF FindLast
  <2>9. CASE FixPointer(r) BY <2>9 DEF FixPointer
  <2>10. QED
    BY <1>3, <2>1, <2>2, <2>3, <2>4, <2>5, <2>6, <2>7, <2>8, <2>9 DEF Page
<1>4. QED
  BY <1>1, <1>2, <1>3

\* What is left to show of TypeOK when the others stay.
LEMMA TypeOfOne ==
    ASSUME TypeOK, NEW r \in Request, Others(r), TransactionOK(r)',
           DOMAIN work' = Request, DOMAIN saved' = Request,
           AreRows(rows)', (pointer \in 0..MaxPk)', (seq \in 0..MaxPk)',
           (lock \in Request \cup {Free})', (pc \in [Request -> Steps])',
           (mem \in [Request -> 0..MaxPk])', (asked \in [Request -> 0..MaxPk])',
           (copy \in [Request -> [pk : 0..MaxPk, row : Row]])'
    PROVE  TypeOK'
<1>1. \A q \in Request : TransactionOK(q)'
  <2> TAKE q \in Request
  <2>1. CASE q = r
    BY <2>1
  <2>2. CASE q # r
    <3>1. work'[q] = work[q] /\ saved'[q] = saved[q] /\ TransactionOK(q)
      BY <2>2 DEF Others, TypeOK
    <3>2. QED
      BY <3>1 DEF TransactionOK, Savepoints
  <2>3. QED
    BY <2>1, <2>2
<1>2. QED
  BY <1>1 DEF TypeOK

\* Write puts typed rows over what the transaction has written.
LEMMA LinkedTyped ==
    ASSUME TypeOK, NEW r \in Request, NEW pk \in Pk, NEW u \in BOOLEAN
    PROVE  /\ AreRows(Linked(r, pk, u))
           /\ DOMAIN Linked(r, pk, u) = {pk} \cup ({copy[r].pk} \ {0})
<1> DEFINE l == Linked(r, pk, u)
<1>1. copy[r].pk \in 0..MaxPk /\ copy[r].row \in Row /\ MaxPk \in Nat
  BY ChainAssumption DEF TypeOK
<1>2. DOMAIN l = {pk} \cup ({copy[r].pk} \ {0})
  BY DEF Linked, Rows
<1>3. NewRow(r, u) \in Row
  BY <1>1 DEF NewRow, Row
<1>4. OldRow(r, pk) \in Row
  BY <1>1 DEF OldRow, Row, Pk
<1>5. l \in [DOMAIN l -> Row]
  BY <1>2, <1>3, <1>4 DEF Linked, Rows
<1>6. QED
  BY <1>1, <1>2, <1>5 DEF AreRows, Pk

\* The rows that one transaction sees, and their keys.
LEMMA SeenTyped ==
    ASSUME TypeOK, NEW r \in Request
    PROVE  /\ AreRows(Sees(r)) /\ AreRows(rows) /\ AreRows(work[r].rows)
           /\ DOMAIN Sees(r) = DOMAIN work[r].rows \cup DOMAIN rows
           /\ \A k \in DOMAIN work[r].rows : Sees(r)[k] = work[r].rows[k]
           /\ \A k \in DOMAIN rows \ DOMAIN work[r].rows : Sees(r)[k] = rows[k]
           /\ \A k \in DOMAIN Sees(r) : Sees(r)[k] \in Row
           /\ Reloaded(Sees(r)) \subseteq 0..MaxPk
<1>1. AreRows(work[r].rows) /\ AreRows(rows)
  BY RequestTypes DEF TypeOK, IsWork
<1>2. /\ AreRows(Sees(r))
      /\ DOMAIN Sees(r) = DOMAIN work[r].rows \cup DOMAIN rows
      /\ \A k \in DOMAIN work[r].rows : Sees(r)[k] = work[r].rows[k]
      /\ \A k \in DOMAIN rows \ DOMAIN work[r].rows : Sees(r)[k] = rows[k]
  BY <1>1, OverFacts DEF Sees
<1>3. DOMAIN Sees(r) \subseteq Pk /\ \A k \in DOMAIN Sees(r) : Sees(r)[k] \in Row
  BY <1>2, RowsFacts
<1>4. Reloaded(Sees(r)) \subseteq 0..MaxPk
  BY <1>3, ChainAssumption DEF Reloaded, Currents, Pk
<1>5. QED
  BY <1>1, <1>2, <1>3, <1>4

\* A transaction keeps its type where it is left alone, or ended.
LEMMA SameTransaction ==
    ASSUME TypeOK, NEW r \in Request, work'[r] = work[r], saved'[r] = saved[r]
    PROVE  TransactionOK(r)'
<1>1. TransactionOK(r)
  BY DEF TypeOK
<1>2. QED
  BY <1>1 DEF TransactionOK, Savepoints

LEMMA NoTransaction ==
    ASSUME TypeOK, NEW r \in Request, work'[r] = NoWork, saved'[r] = <<>>
    PROVE  TransactionOK(r)'
<1>1. IsWork(NoWork)
  BY OverNothing, ChainAssumption DEF TypeOK, IsWork, NoWork
<1>2. QED
  BY <1>1 DEF TransactionOK, Savepoints

\* The last savepoint, and those under it.
LEMMA LastSavepoint ==
    ASSUME TypeOK, NEW r \in Request, saved[r] # <<>>
    PROVE  LET n == Len(saved[r])
               s == SubSeq(saved[r], 1, n - 1)
           IN  /\ n \in Nat \ {0}
               /\ saved[r][n] \in Savepoints(r) /\ IsWork(saved[r][n])
               /\ s \in Seq(Savepoints(r)) /\ Len(s) = n - 1
               /\ \A i \in 1..(n - 1) : s[i] = saved[r][i]
<1>1. saved[r] \in Seq(Savepoints(r)) /\ Len(saved[r]) \in Nat \ {0}
  BY RequestTypes, EmptySeq
<1>2. \A i \in 1..Len(saved[r]) : saved[r][i] \in Savepoints(r) /\ IsWork(saved[r][i])
  BY RequestTypes
<1>3. QED
  BY <1>1, <1>2, SubSeqProperties

LEMMA TransitionTypes ==
    ASSUME TypeOK, NEW r \in Request, Load(r) \/ Transition(r)
    PROVE  TypeOK'
<1> USE ChainAssumption
<1>0. Others(r)
  BY OthersStay
<1>1. CASE Load(r)
  <2>1. work'[r] = work[r] /\ saved'[r] = saved[r]
    BY <1>1 DEF Load
  <2>2. TransactionOK(r)'
    BY <2>1, SameTransaction
  <2>3. QED
    BY <1>0, <1>1, <2>2, TypeOfOne DEF TypeOK, Load
<1>2. CASE Call(r) \/ LockRefused(r) \/ Lock(r)
  <2>1. work'[r] = work[r] /\ saved'[r] = saved[r]
    BY <1>2 DEF Call, LockRefused, Lock
  <2>2. TransactionOK(r)'
    BY <2>1, SameTransaction
  <2>3. UNCHANGED <<rows, pointer, seq, mem, copy, work, saved>> /\ lock' \in {lock, r}
    BY <1>2 DEF Call, LockRefused, Lock
  <2>4. pc' \in [Request -> Steps] /\ asked' \in [Request -> 0..MaxPk]
    <3>1. CASE Call(r)
      BY <3>1 DEF TypeOK, Call, Goes, Steps
    <3>2. CASE LockRefused(r)
      BY <3>2 DEF TypeOK, LockRefused, Goes, Steps
    <3>3. CASE Lock(r)
      BY <3>3 DEF TypeOK, Lock, Goes, Steps
    <3>4. QED
      BY <1>2, <3>1, <3>2, <3>3
  <2>5. QED
    BY <1>0, <2>2, <2>3, <2>4, TypeOfOne DEF TypeOK
<1>3. CASE Check(r)
  <2>1. PICK k \in Reloaded(Sees(r)) :
          copy' = [copy EXCEPT ![r] = [pk |-> k, row |-> IF k = 0 THEN NoRow ELSE Sees(r)[k]]]
    BY <1>3 DEF Check
  <2>2. k \in 0..MaxPk /\ (k # 0 => k \in DOMAIN Sees(r))
    BY <2>1, SeenTyped DEF Reloaded, Currents
  <2>3. (IF k = 0 THEN NoRow ELSE Sees(r)[k]) \in Row
    BY <2>2, SeenTyped DEF NoRow, Row
  <2>4. copy' \in [Request -> [pk : 0..MaxPk, row : Row]]
    BY <2>1, <2>2, <2>3 DEF TypeOK
  <2>5. work'[r] = work[r] /\ saved'[r] = saved[r]
    BY <1>3 DEF Check
  <2>6. TransactionOK(r)'
    BY <2>5, SameTransaction
  <2>7. QED
    BY <1>0, <1>3, <2>4, <2>6, TypeOfOne DEF TypeOK, Check, Goes, Steps
<1>4. CASE Write(r)
  <2>1. PICK u \in BOOLEAN :
          work' = [work EXCEPT ![r] =
                     [rows |-> Over(Linked(r, seq + 1, u), work[r].rows), pointer |-> seq + 1]]
    BY <1>4 DEF Write
  <2>2. seq + 1 \in Pk /\ seq + 1 \in 0..MaxPk
    BY <1>4 DEF Write, TypeOK, Pk
  <2>3. AreRows(Linked(r, seq + 1, u)) /\ AreRows(work[r].rows)
    BY <2>2, LinkedTyped, SeenTyped
  <2>4. AreRows(Over(Linked(r, seq + 1, u), work[r].rows))
    BY <2>3, OverFacts
  <2>5. IsWork(work'[r]) /\ DOMAIN work' = Request /\ saved' = saved
    BY <1>4, <2>1, <2>2, <2>4 DEF IsWork, TypeOK, Write
  <2>6. TransactionOK(r)'
    <3>1. TransactionOK(r)
      BY DEF TypeOK
    <3>2. QED
      BY <2>5, <3>1 DEF TransactionOK, Savepoints
  <2>7. QED
    BY <1>0, <1>4, <2>2, <2>5, <2>6, TypeOfOne DEF TypeOK, Write, Goes, Steps
<1>5. CASE Nest(r)
  <2> DEFINE all == Savepoints(r) \cup {work[r]}
  <2>1. /\ \A v \in all : IsWork(v)
        /\ IsWork(work'[r]) /\ saved[r] \in Seq(Savepoints(r))
        /\ saved'[r] = Append(saved[r], work[r])
    BY <1>5 DEF TypeOK, TransactionOK, Nest
  <2>2. saved'[r] \in Seq(all)
    BY <2>1, SeqMonotonic, AppendProperties
  <2>3. TransactionOK(r)'
    BY <2>1, <2>2, TransactionFromParts
  <2>4. QED
    BY <1>0, <1>5, <2>3, TypeOfOne DEF TypeOK, Nest, Goes, Steps
<1>6. CASE Return(r) \/ Caught(r)
  <2>1. saved[r] # <<>> /\ saved'[r] = SubSeq(saved[r], 1, Len(saved[r]) - 1)
        /\ work'[r] \in {work[r], saved[r][Len(saved[r])]}
    BY <1>6 DEF Return, Caught, TypeOK
  <2>2. saved'[r] \in Seq(Savepoints(r)) /\ IsWork(work'[r])
    BY <2>1, LastSavepoint, RequestTypes
  <2>3. TransactionOK(r)'
    BY <2>2, TransactionFromParts DEF TypeOK, TransactionOK
  <2>4. /\ UNCHANGED <<rows, pointer, seq, lock, mem, copy, asked>>
        /\ pc' \in [Request -> Steps] /\ DOMAIN work' = Request /\ DOMAIN saved' = Request
    BY <1>6 DEF TypeOK, Return, Caught, Steps
  <2>5. QED
    BY <1>0, <2>3, <2>4, TypeOfOne DEF TypeOK
<1>7. CASE Rollback(r)
  <2>1. /\ UNCHANGED <<rows, pointer, seq, mem, copy>> /\ lock' = Free
        /\ pc' \in [Request -> Steps] /\ asked' \in [Request -> 0..MaxPk]
        /\ DOMAIN work' = Request /\ DOMAIN saved' = Request
        /\ work'[r] = NoWork /\ saved'[r] = <<>>
    BY <1>7 DEF TypeOK, Rollback, Steps
  <2>2. TransactionOK(r)'
    BY <2>1, NoTransaction
  <2>3. QED
    BY <1>0, <2>1, <2>2, TypeOfOne DEF TypeOK
<1>8. CASE Commit(r)
  <2>1. AreRows(rows') /\ pointer' \in 0..MaxPk
    BY <1>8, SeenTyped, RequestTypes DEF Commit, Saves, IsWork
  <2>2. work'[r] = NoWork /\ saved'[r] = <<>>
    BY <1>8 DEF Commit, Saves, TypeOK
  <2>3. TransactionOK(r)'
    BY <2>2, NoTransaction
  <2>4. /\ UNCHANGED <<seq, mem, copy>> /\ lock' = Free
        /\ pc' \in [Request -> Steps] /\ asked' \in [Request -> 0..MaxPk]
        /\ DOMAIN work' = Request /\ DOMAIN saved' = Request
    BY <1>8 DEF TypeOK, Commit, Saves, Goes, Steps
  <2>5. QED
    BY <1>0, <2>1, <2>3, <2>4, TypeOfOne DEF TypeOK
<1>9. QED
  BY <1>1, <1>2, <1>3, <1>4, <1>5, <1>6, <1>7, <1>8
     DEF Transition, CheckFails, Refuse, HookFails, Fails

\* A page reads the state that it has found the record pointing at.
LEMMA PageTypes ==
    ASSUME TypeOK, NEW r \in Request, Page(r), pc[r] = "opened" => mem[r] \in DOMAIN rows
    PROVE  TypeOK'
<1> USE ChainAssumption
<1>0. Others(r) /\ UNCHANGED <<seq, lock, work, saved, asked>>
  BY OthersStay DEF Others, Page, StartEdit, SaveForm, StartRead, FetchState, SaveState,
     MarkRead, FindStale, FindLast, FixPointer, Starts
<1>1. TransactionOK(r)'
  <2>1. work'[r] = work[r] /\ saved'[r] = saved[r]
    BY <1>0
  <2>2. QED
    BY <2>1, SameTransaction
<1>2. /\ DOMAIN rows \subseteq Pk /\ rows \in [DOMAIN rows -> Row]
      /\ copy[r] \in [pk : 0..MaxPk, row : Row]
      /\ DOMAIN work' = Request /\ DOMAIN saved' = Request
  BY <1>0 DEF TypeOK, AreRows
<1>3. CASE StartEdit(r) \/ StartRead(r) \/ FindStale(r)
  <2>1. PICK job \in Jobs, step \in {"editing", "opened", "fixing"} : Starts(r, job, step)
    BY <1>3 DEF StartEdit, StartRead, FindStale, Starts
  <2>2. /\ pc' \in [Request -> Steps] /\ mem' \in [Request -> 0..MaxPk]
        /\ UNCHANGED <<rows, pointer, copy>>
    BY <2>1 DEF TypeOK, Starts, Goes, Steps
  <2>3. QED
    BY <1>0, <1>1, <1>2, <2>2, TypeOfOne DEF TypeOK
<1>4. CASE SaveForm(r) \/ FixPointer(r)
  <2>1. /\ pc' \in [Request -> Steps] /\ mem' \in [Request -> 0..MaxPk]
        /\ UNCHANGED <<rows, copy>> /\ pointer' \in 0..MaxPk
    BY <1>2, <1>4 DEF TypeOK, SaveForm, FixPointer, Goes, Steps
  <2>2. QED
    BY <1>0, <1>1, <1>2, <2>1, TypeOfOne DEF TypeOK
<1>5. CASE FetchState(r)
  <2>1. copy' \in [Request -> [pk : 0..MaxPk, row : Row]]
    BY <1>2, <1>5 DEF FetchState, Goes, TypeOK
  <2>2. QED
    BY <1>0, <1>1, <1>5, <2>1, TypeOfOne DEF TypeOK, FetchState, Goes, Steps
<1>6. CASE FindLast(r)
  <2>1. copy' \in [Request -> [pk : 0..MaxPk, row : Row]]
    BY <1>2, <1>6 DEF FindLast, TypeOK, Pk
  <2>2. QED
    BY <1>0, <1>1, <1>6, <2>1, TypeOfOne DEF TypeOK, FindLast, Goes, Steps
<1>7. CASE SaveState(r)
  <2>1. [copy[r].row EXCEPT !.unread = ~copy[r].row.unread] \in Row
    BY <1>2 DEF Row
  <2>2. AreRows(rows')
    BY <1>2, <1>7, <2>1 DEF SaveState, AreRows
  <2>3. QED
    BY <1>0, <1>1, <1>7, <2>2, TypeOfOne DEF TypeOK, SaveState, Goes, Steps
<1>8. CASE MarkRead(r)
  <2>1. PICK u \in BOOLEAN : rows' = [rows EXCEPT ![copy[r].pk].unread = u]
    BY <1>8 DEF MarkRead
  <2>2. \A k \in DOMAIN rows : [rows[k] EXCEPT !.unread = u] \in Row
    BY <1>2 DEF Row
  <2>3. AreRows(rows')
    BY <1>2, <2>1, <2>2 DEF AreRows
  <2>4. QED
    BY <1>0, <1>1, <1>8, <2>3, TypeOfOne DEF TypeOK, MarkRead, Goes, Steps
<1>9. QED
  BY <1>3, <1>4, <1>5, <1>6, <1>7, <1>8 DEF Page

-----------------------------------------------------------------------------
(* Steps                                                                   *)

\* What a page has read stays true of rows that get more, and keep their links
\* back.
Grows(new, old) ==
    /\ DOMAIN old \subseteq DOMAIN new
    /\ \A k \in DOMAIN old : new[k].prev = old[k].prev

LEMMA PageStays ==
    ASSUME NEW at, NEW m, NEW c, NEW old, NEW new, Grows(new, old), OnPageOver(at, m, c, old)
    PROVE  OnPageOver(at, m, c, new)
BY DEF OnPageOver, IsCopyOver, Grows

LEMMA ChainStays ==
    ASSUME NEW old, NEW new, Amends(new, old), NEW s \in Nat, NEW t \in Nat, s <= t,
           IsChain(old, s)
    PROVE  IsChain(new, t)
<1>1. PICK p \in 0..s : Chained(old, p)
  BY DEF IsChain
<1>2. p \in 0..t /\ Chained(new, p)
  BY <1>1, AmendedIsChained
<1>3. QED
  BY <1>2 DEF IsChain

LEMMA LeavesStays ==
    ASSUME NEW w, NEW old, NEW new, Amends(new, old), NEW s \in Nat, NEW t \in Nat, s <= t,
           LeavesOver(w, old, s)
    PROVE  LeavesOver(w, new, t)
<1>1. Amends(Over(w.rows, new), Over(w.rows, old))
  BY AmendedUnder
<1>2. IsChain(Over(w.rows, new), t)
  BY <1>1, ChainStays DEF LeavesOver
<1>3. SamePrevs(w.rows, new)
  BY DEF LeavesOver, SamePrevs, Amends
<1>4. QED
  BY <1>2, <1>3 DEF LeavesOver

LEMMA NothingChanges ==
    ASSUME NEW rs
    PROVE  Amends(rs, rs)
BY DEF Amends

\* A request keeps its part while others amend the rows.
LEMMA PartStays ==
    ASSUME TypeOK, NEW q \in Request, Part(q), Amends(rows', rows), seq' \in Nat, seq <= seq',
           (lock' = q) <=> (lock = q), pc'[q] = pc[q], mem'[q] = mem[q], copy'[q] = copy[q],
           work'[q] = work[q], saved'[q] = saved[q]
    PROVE  Part(q)'
<1>1. seq \in Nat
  BY ChainAssumption DEF TypeOK
<1>2. CASE lock = q
  <2>1. InCall(q)
    BY <1>2 DEF Part
  <2>2. LeavesOver(work[q], rows, seq)'
    BY <1>1, <2>1, LeavesStays DEF InCall
  <2>3. \A i \in 1..Len(saved'[q]) :
          LeavesOver(saved'[q][i], rows', seq') /\ saved'[q][i].pointer # 0
    BY <1>1, <2>1, LeavesStays DEF InCall
  <2>4. ASSUME TopCopy(q)
        PROVE  TopCopy(q)'
    <3>1. Amends(Over(work[q].rows, rows'), Sees(q))
      BY AmendedUnder DEF Sees
    <3>2. Over(work[q].rows, rows') = Sees(q)'
      BY DEF Sees
    <3>3. Amends(Sees(q)', Sees(q))
      BY <3>1, <3>2
    <3>4. Chained(Sees(q)', copy[q].pk)
      BY <2>4, <3>3, AmendedIsChained DEF TopCopy
    <3>5. copy[q].pk # 0 => copy[q].row.prev = Sees(q)'[copy[q].pk].prev
      BY <2>4, <3>3 DEF TopCopy, Amends, Chained
    <3>6. QED
      BY <3>4, <3>5 DEF TopCopy
  <2>5. InCall(q)'
    BY <2>1, <2>2, <2>3, <2>4 DEF InCall
  <2>6. QED
    BY <1>2, <2>5 DEF Part
<1>3. CASE lock # q
  <2>1. OffCall(q)
    BY <1>3 DEF Part
  <2>2. Grows(rows', rows)
    BY DEF Amends, Grows
  <2>3. OnPageOver(pc[q], mem[q], copy[q], rows')
    BY <2>1, <2>2, PageStays DEF OffCall
  <2>4. OffCall(q)'
    BY <2>1, <2>3 DEF OffCall
  <2>5. QED
    BY <1>3, <2>4 DEF Part
<1>4. QED
  BY <1>2, <1>3

\* What is left to show of a step of one request that only amends the rows.
LEMMA OneStep ==
    ASSUME PInv, TypeOK', NEW r \in Request, Others(r), Amends(rows', rows),
           pointer' \in DOMAIN rows' \cup {0}, seq <= seq',
           \A q \in Request \ {r} : (lock' = q) <=> (lock = q), Part(r)'
    PROVE  PInv'
<1>1. seq \in Nat /\ seq' \in Nat
  BY ChainAssumption DEF PInv, TypeOK
<1>2. ASSUME NEW q \in Request \ {r}
      PROVE  Part(q)'
  BY <1>1, <1>2, PartStays DEF PInv, Others
<1>3. IsChain(rows', seq')
  BY <1>1, ChainStays DEF PInv
<1>4. QED
  BY <1>2, <1>3 DEF PInv

\* Only who is in a call has the lock.
LEMMA WhoIsInCall ==
    ASSUME PInv, NEW r \in Request
    PROVE  IF pc[r] \in {"locked", "checked", "written"} THEN lock = r /\ InCall(r)
           ELSE lock # r /\ OffCall(r)
BY DEF PInv, Part, InCall, OffCall

LEMMA LoadStays ==
    ASSUME PInv, NEW r \in Request, Load(r) \/ Call(r) \/ LockRefused(r)
    PROVE  PInv'
<1>1. Others(r) /\ TypeOK'
  BY OthersStay, TransitionTypes DEF PInv, Transition
<1>2. UNCHANGED <<rows, pointer, seq, lock, copy, work, saved>>
  BY DEF Load, Call, LockRefused
<1>3. pc[r] \in {"ready", "asking"} /\ pc'[r] \in {"ready", "asking"}
  BY DEF PInv, TypeOK, Load, Call, LockRefused, Goes
<1>4. lock # r /\ OffCall(r)
  BY <1>3, WhoIsInCall
<1>5. Part(r)'
  BY <1>2, <1>3, <1>4 DEF Part, OffCall, OnPageOver
<1>6. Amends(rows', rows) /\ seq <= seq'
  BY <1>2, NothingChanges, ChainAssumption DEF PInv, TypeOK
<1>7. QED
  BY <1>1, <1>2, <1>5, <1>6, OneStep DEF PInv

LEMMA LockStays ==
    ASSUME PInv, NEW r \in Request, Lock(r)
    PROVE  PInv'
<1>1. Others(r) /\ TypeOK'
  BY OthersStay, TransitionTypes DEF PInv, Transition
<1>2. /\ UNCHANGED <<rows, pointer, seq, work, saved>>
      /\ lock = Free /\ lock' = r /\ pc[r] = "asking" /\ pc'[r] = "locked"
  BY DEF PInv, TypeOK, Lock, Goes
<1>3. OffCall(r)
  BY <1>2, WhoIsInCall
<1>4. LeavesOver(NoWork, rows, seq)
  <2>1. Over(NoRows, rows) = rows
    BY OverNothing DEF PInv, TypeOK
  <2>2. SamePrevs(NoRows, rows)
    BY DEF SamePrevs, NoRows
  <2>3. QED
    BY <2>1, <2>2 DEF PInv, LeavesOver, NoWork
<1>5. InCall(r)'
  <2>1. LeavesOver(work[r], rows, seq)'
    BY <1>2, <1>3, <1>4 DEF OffCall
  <2>2. Len(saved'[r]) = 0
    BY <1>2, <1>3 DEF OffCall
  <2>3. QED
    BY <1>2, <2>1, <2>2 DEF InCall
<1>6. Part(r)'
  BY <1>2, <1>5 DEF Part
<1>7. Amends(rows', rows) /\ seq <= seq'
  BY <1>2, NothingChanges, ChainAssumption DEF PInv, TypeOK
<1>8. \A q \in Request \ {r} : (lock' = q) <=> (lock = q)
  BY <1>2, ChainAssumption
<1>9. QED
  BY <1>1, <1>2, <1>6, <1>7, <1>8, OneStep DEF PInv

\* The check lets through only who has seen the one current state, and that is
\* the end of the chain.
LEMMA CheckStays ==
    ASSUME PInv, NEW r \in Request, Check(r)
    PROVE  PInv'
<1>1. Others(r) /\ TypeOK'
  BY OthersStay, TransitionTypes DEF PInv, Transition
<1>2. /\ UNCHANGED <<rows, pointer, seq, lock, work, saved>>
      /\ pc[r] = "locked" /\ pc'[r] = "checked" /\ Reloaded(Sees(r)) = {mem[r]}
  BY DEF PInv, TypeOK, Check, Goes, Fresh
<1>3. lock = r /\ InCall(r)
  BY <1>2, WhoIsInCall
<1>4. PICK p \in 0..seq : Chained(Sees(r), p)
  BY <1>3 DEF InCall, LeavesOver, IsChain, Sees
<1>5. p \in Nat /\ AreRows(Sees(r))
  <2>1. p \in Nat
    BY <1>4, ChainAssumption DEF PInv, TypeOK
  <2>2. QED
    BY <2>1, SeenTyped DEF PInv
<1>6. p = mem[r]
  BY <1>2, <1>4, <1>5, OneEnd
<1>7. copy'[r] = [pk |-> p, row |-> IF p = 0 THEN NoRow ELSE Sees(r)[p]]
  BY <1>2, <1>6 DEF PInv, TypeOK, Check
<1>8. TopCopy(r)'
  <2>1. Sees(r)' = Sees(r)
    BY <1>2 DEF Sees
  <2>2. QED
    BY <1>4, <1>7, <2>1 DEF TopCopy
<1>9. InCall(r)'
  BY <1>2, <1>3, <1>8 DEF InCall
<1>10. Part(r)'
  BY <1>2, <1>3, <1>9 DEF Part
<1>11. Amends(rows', rows) /\ seq <= seq'
  BY <1>2, NothingChanges, ChainAssumption DEF PInv, TypeOK
<1>12. QED
  BY <1>1, <1>2, <1>10, <1>11, OneStep DEF PInv

\* A transition writes a key that is later than all the others, and the link
\* back of the state it came from as that was.
LEMMA WriteStays ==
    ASSUME PInv, NEW r \in Request, Write(r)
    PROVE  PInv'
<1> DEFINE q == seq + 1
           p == copy[r].pk
           w == work[r]
<1>1. Others(r) /\ TypeOK'
  BY OthersStay, TransitionTypes DEF PInv, Transition
<1>2. /\ UNCHANGED <<rows, pointer, lock, copy, saved>> /\ seq' = q
      /\ pc[r] = "checked" /\ pc'[r] = "written"
      /\ seq \in Nat /\ q \in Pk
  BY ChainAssumption DEF PInv, TypeOK, Write, Goes, Pk
<1>3. lock = r /\ InCall(r)
  BY <1>2, WhoIsInCall
<1>4. PICK u \in BOOLEAN :
        work' = [work EXCEPT ![r] = [rows |-> Over(Linked(r, q, u), w.rows), pointer |-> q]]
  BY DEF Write
<1> DEFINE new == Linked(r, q, u)
           after == [rows |-> Over(new, w.rows), pointer |-> q]
<1>5. work'[r] = after
  BY <1>4 DEF PInv, TypeOK
<1>6. TopCopy(r) /\ LeavesOver(w, rows, seq)
  BY <1>2, <1>3 DEF InCall
<1>7. p \in 0..MaxPk /\ copy[r].row \in Row
  BY DEF PInv, TypeOK
<1>8. p < q
  <2>1. PICK e \in 0..seq : Chained(Sees(r), e)
    BY <1>6 DEF LeavesOver, IsChain, Sees
  <2>2. AreRows(Sees(r))
    BY SeenTyped DEF PInv
  <2>3. p \in Nat /\ e \in Nat
    BY <1>2, <1>7, <2>1, ChainAssumption
  <2>4. p = e
    BY <1>6, <2>1, <2>2, <2>3, OneEnd DEF TopCopy
  <2>5. QED
    BY <1>2, <2>1, <2>4
<1>9. AreRows(new) /\ DOMAIN new = {q} \cup ({p} \ {0})
  BY <1>2, LinkedTyped DEF PInv
<1>10. /\ new[q] = [prev |-> p, next |-> 0, unread |-> u]
       /\ p # 0 => new[p] = [prev |-> Sees(r)[p].prev, next |-> q, unread |-> FALSE]
  <2>1. p # q
    BY <1>2, <1>7, <1>8, ChainAssumption
  <2>2. new[q] = NewRow(r, u) /\ (p # 0 => new[p] = OldRow(r, q))
    BY <2>1 DEF Linked, Rows
  <2>3. QED
    BY <1>6, <2>2 DEF NewRow, OldRow, TopCopy
<1>11. Chained(Over(new, Sees(r)), q)
  <2>1. Chained(Sees(r), p) /\ AreRows(Sees(r))
    BY <1>6, SeenTyped DEF TopCopy, PInv
  <2>2. new[q].prev = p /\ new[q].next = 0
    BY <1>10
  <2>3. p # 0 => new[p].prev = Sees(r)[p].prev /\ new[p].next = q
    BY <1>10
  <2> HIDE DEF new, p, q
  <2>4. QED
    BY <1>2, <1>7, <1>8, <1>9, <2>1, <2>2, <2>3, LinkedIsChained
<1>12. IsChain(Over(after.rows, rows), q)
  <2>1. Over(after.rows, rows) = Over(new, Sees(r))
    BY OverOver DEF Sees
  <2>2. q \in 0..q
    BY <1>2
  <2>3. QED
    BY <1>11, <2>1, <2>2 DEF IsChain
<1>13. SamePrevs(after.rows, rows)
  <2>1. /\ AreRows(w.rows) /\ AreRows(rows)
        /\ DOMAIN Sees(r) = DOMAIN w.rows \cup DOMAIN rows
        /\ \A k \in DOMAIN w.rows : Sees(r)[k] = w.rows[k]
        /\ \A k \in DOMAIN rows \ DOMAIN w.rows : Sees(r)[k] = rows[k]
    BY SeenTyped DEF PInv
  <2>2. /\ \A k \in DOMAIN new : after.rows[k] = new[k]
        /\ \A k \in DOMAIN w.rows \ DOMAIN new : after.rows[k] = w.rows[k]
        /\ DOMAIN after.rows = DOMAIN new \cup DOMAIN w.rows
    BY DEF Over
  <2>3. \A k \in DOMAIN Sees(r) : k <= p /\ k \in Nat /\ k # q
    <3>1. DOMAIN Sees(r) \subseteq Pk
      BY SeenTyped, RowsFacts DEF PInv
    <3>2. \A k \in DOMAIN Sees(r) : k <= p
      BY <1>6 DEF TopCopy, Chained, ChainedRow
    <3>3. QED
      BY <1>2, <1>7, <1>8, <3>1, <3>2, ChainAssumption DEF Pk
  <2>4. ASSUME NEW k \in DOMAIN after.rows, k \in DOMAIN rows
        PROVE  after.rows[k].prev = rows[k].prev
    <3>1. k \in DOMAIN w.rows => w.rows[k].prev = rows[k].prev
      BY <1>6, <2>4 DEF LeavesOver, SamePrevs
    <3>2. k # q /\ Sees(r)[k].prev = rows[k].prev
      BY <2>1, <2>3, <2>4, <3>1
    <3>3. CASE k \in DOMAIN new
      <4>1. k = p /\ p # 0
        BY <1>9, <3>2, <3>3
      <4>2. after.rows[k] = new[k] /\ new[k].prev = Sees(r)[k].prev
        BY <1>10, <2>2, <3>3, <4>1
      <4>3. QED
        BY <3>2, <4>2
    <3>4. CASE k \notin DOMAIN new
      BY <2>2, <2>4, <3>1, <3>4
    <3>5. QED
      BY <3>3, <3>4
  <2>5. QED
    BY <2>4 DEF SamePrevs
<1>14. LeavesOver(work[r], rows, seq)' /\ work'[r].pointer # 0
  <2>1. q \in DOMAIN after.rows /\ q # 0
    <3>1. DOMAIN after.rows = DOMAIN new \cup DOMAIN w.rows
      BY DEF Over
    <3>2. QED
      BY <1>2, <1>9, <3>1
  <2>2. LeavesOver(after, rows, q)
    BY <1>12, <1>13, <2>1 DEF LeavesOver
  <2>3. QED
    BY <1>2, <1>5, <2>1, <2>2
<1>15. \A i \in 1..Len(saved[r]) : LeavesOver(saved[r][i], rows, q) /\ saved[r][i].pointer # 0
  <2>1. seq <= q /\ q \in Nat
    BY <1>2
  <2>2. QED
    BY <1>2, <1>3, <2>1, LeavesStays, NothingChanges DEF InCall
<1>16. InCall(r)'
  BY <1>2, <1>14, <1>15 DEF InCall
<1>17. Part(r)'
  BY <1>2, <1>3, <1>16 DEF Part
<1>18. Amends(rows', rows) /\ seq <= seq'
  BY <1>2, NothingChanges
<1>19. QED
  BY <1>1, <1>2, <1>17, <1>18, OneStep DEF PInv

LEMMA NestStays ==
    ASSUME PInv, NEW r \in Request, Nest(r)
    PROVE  PInv'
<1> DEFINE n == Len(saved[r])
<1>1. Others(r) /\ TypeOK'
  BY OthersStay, TransitionTypes DEF PInv, Transition
<1>2. /\ UNCHANGED <<rows, pointer, seq, lock, work>>
      /\ pc[r] = "written" /\ pc'[r] = "locked" /\ saved'[r] = Append(saved[r], work[r])
  BY DEF PInv, TypeOK, Nest, Goes
<1>3. lock = r /\ InCall(r)
  BY <1>2, WhoIsInCall
<1>4. saved[r] \in Seq(Savepoints(r)) /\ n \in Nat
  BY RequestTypes DEF PInv
<1>5. /\ Len(saved'[r]) = n + 1 /\ saved'[r][n + 1] = work[r]
      /\ \A i \in 1..n : saved'[r][i] = saved[r][i]
  <2>1. saved[r] \in Seq(Savepoints(r) \cup {work[r]})
    BY <1>4, SeqMonotonic
  <2>2. QED
    BY <1>2, <2>1, AppendProperties
<1>6. \A i \in 1..(n + 1) : LeavesOver(saved'[r][i], rows, seq) /\ saved'[r][i].pointer # 0
  <2> TAKE i \in 1..(n + 1)
  <2>1. CASE i = n + 1
    BY <1>2, <1>3, <1>5, <2>1 DEF InCall
  <2>2. CASE i # n + 1
    BY <1>3, <1>4, <1>5, <2>2 DEF InCall
  <2>3. QED
    BY <2>1, <2>2
<1>7. InCall(r)'
  BY <1>2, <1>3, <1>5, <1>6 DEF InCall
<1>8. Part(r)'
  BY <1>2, <1>3, <1>7 DEF Part
<1>9. Amends(rows', rows) /\ seq <= seq'
  BY <1>2, NothingChanges, ChainAssumption DEF PInv, TypeOK
<1>10. QED
  BY <1>1, <1>2, <1>8, <1>9, OneStep DEF PInv

\* A nested call returns, or its failure is caught: either way its transaction
\* goes on from what it had written, now or when the call was made.
LEMMA ReturnStays ==
    ASSUME PInv, NEW r \in Request, InCall(r), lock = r, Return(r) \/ Caught(r),
           Others(r), TypeOK'
    PROVE  PInv'
<1> DEFINE n == Len(saved[r])
<1>1. /\ UNCHANGED <<rows, pointer, seq, lock>> /\ saved[r] # <<>> /\ pc'[r] = "written"
      /\ saved'[r] = SubSeq(saved[r], 1, n - 1)
      /\ \/ pc[r] = "written" /\ work'[r] = work[r]
         \/ work'[r] = saved[r][n]
  BY DEF PInv, TypeOK, Return, Caught
<1>2. /\ n \in Nat \ {0} /\ Len(saved'[r]) = n - 1
      /\ \A i \in 1..(n - 1) : saved'[r][i] = saved[r][i]
  BY <1>1, LastSavepoint DEF PInv
<1>3. \A i \in 1..n : LeavesOver(saved[r][i], rows, seq) /\ saved[r][i].pointer # 0
  BY DEF InCall
<1>4. n \in 1..n
  BY <1>2
<1>5. LeavesOver(work'[r], rows, seq) /\ work'[r].pointer # 0
  BY <1>1, <1>3, <1>4 DEF InCall
<1>6. \A i \in 1..(n - 1) : LeavesOver(saved'[r][i], rows, seq) /\ saved'[r][i].pointer # 0
  BY <1>2, <1>3
<1>7. InCall(r)'
  BY <1>1, <1>2, <1>5, <1>6 DEF InCall
<1>8. Part(r)'
  BY <1>1, <1>7 DEF Part
<1>9. Amends(rows', rows) /\ seq <= seq'
  BY <1>1, NothingChanges, ChainAssumption DEF PInv, TypeOK
<1>10. QED
  BY <1>1, <1>8, <1>9, OneStep DEF PInv

LEMMA RollbackStays ==
    ASSUME PInv, NEW r \in Request, lock = r, Rollback(r), Others(r), TypeOK'
    PROVE  PInv'
<1>1. /\ UNCHANGED <<rows, pointer, seq>> /\ lock' = Free
      /\ pc'[r] = "ready" /\ work'[r] = NoWork /\ saved'[r] = <<>>
  BY DEF PInv, TypeOK, Rollback
<1>2. OffCall(r)'
  BY <1>1 DEF OffCall, OnPageOver
<1>3. Part(r)' /\ \A q \in Request \ {r} : (lock' = q) <=> (lock = q)
  BY <1>1, <1>2, ChainAssumption DEF Part
<1>4. Amends(rows', rows) /\ seq <= seq'
  BY <1>1, NothingChanges, ChainAssumption DEF PInv, TypeOK
<1>5. QED
  BY <1>1, <1>3, <1>4, OneStep DEF PInv

LEMMA FailureStays ==
    ASSUME PInv, NEW r \in Request, CheckFails(r) \/ Refuse(r) \/ HookFails(r)
    PROVE  PInv'
<1>1. Others(r) /\ TypeOK'
  BY OthersStay, TransitionTypes DEF PInv, Transition
<1>2. lock = r /\ InCall(r)
  BY WhoIsInCall DEF CheckFails, Refuse, HookFails
<1>3. Rollback(r) \/ Caught(r)
  BY DEF CheckFails, Refuse, HookFails, Fails
<1>4. QED
  BY <1>1, <1>2, <1>3, RollbackStays, ReturnStays

\* What a transaction commits has the rows of before in it, with their links
\* back: what the pages have read of them stays true.
LEMMA CommitStays ==
    ASSUME PInv, NEW r \in Request, Commit(r)
    PROVE  PInv'
<1>1. Others(r) /\ TypeOK'
  BY OthersStay, TransitionTypes DEF PInv, Transition
<1>2. /\ rows' = Sees(r) /\ pointer' = work[r].pointer /\ lock' = Free /\ seq' = seq
      /\ pc[r] = "written" /\ pc'[r] = "ready" /\ work'[r] = NoWork /\ saved'[r] = <<>>
  BY DEF PInv, TypeOK, Commit, Saves, Goes
<1>3. lock = r /\ InCall(r)
  BY <1>2, WhoIsInCall
<1>4. /\ DOMAIN Sees(r) = DOMAIN work[r].rows \cup DOMAIN rows
      /\ \A k \in DOMAIN work[r].rows : Sees(r)[k] = work[r].rows[k]
      /\ \A k \in DOMAIN rows \ DOMAIN work[r].rows : Sees(r)[k] = rows[k]
  BY SeenTyped DEF PInv
<1>5. IsChain(rows', seq') /\ pointer' \in DOMAIN rows'
  BY <1>2, <1>3, <1>4 DEF InCall, LeavesOver, Sees
<1>6. Grows(rows', rows)
  BY <1>2, <1>3, <1>4 DEF InCall, LeavesOver, SamePrevs, Grows
<1>7. ASSUME NEW q \in Request
      PROVE  Part(q)'
  <2>1. lock' # q
    BY <1>2, ChainAssumption
  <2>2. CASE q = r
    BY <1>2, <2>1, <2>2 DEF Part, OffCall, OnPageOver
  <2>3. CASE q # r
    <3>1. OffCall(q)
      BY <1>3, <2>3 DEF PInv, Part
    <3>2. OnPageOver(pc[q], mem[q], copy[q], rows')
      BY <1>6, <3>1, PageStays DEF OffCall
    <3>3. OffCall(q)'
      BY <1>1, <2>3, <3>1, <3>2 DEF OffCall, Others
    <3>4. QED
      BY <2>1, <3>3 DEF Part
  <2>4. QED
    BY <2>2, <2>3
<1>8. QED
  BY <1>1, <1>5, <1>7 DEF PInv

-----------------------------------------------------------------------------
(* The pages                                                               *)

\* A page takes no lock and has no transaction.
LEMMA PageIsOff ==
    ASSUME PInv, NEW r \in Request, Page(r)
    PROVE  /\ lock # r /\ OffCall(r)
           /\ Others(r) /\ TypeOK'
           /\ UNCHANGED <<seq, lock, work, saved>>
           /\ seq \in Nat
<1>1. Others(r)
  BY OthersStay DEF PInv
<1>2. UNCHANGED <<seq, lock, work, saved>>
  BY DEF Page, StartEdit, SaveForm, StartRead, FetchState, SaveState, MarkRead, FindStale,
         FindLast, FixPointer, Starts
<1>3. pc[r] \in {"ready", "editing", "opened", "fetched", "fixing", "found"}
  BY DEF Page, StartEdit, SaveForm, StartRead, FetchState, SaveState, MarkRead, FindStale,
         FindLast, FixPointer, Starts, Goes
<1>4. lock # r /\ OffCall(r)
  BY <1>3, WhoIsInCall
<1>5. TypeOK'
  BY <1>4, PageTypes DEF PInv, OffCall, OnPageOver
<1>6. QED
  BY <1>1, <1>2, <1>4, <1>5, ChainAssumption DEF PInv, TypeOK

\* Pages only write rows over.  The detail page may put a link on back that has
\* been superseded, but with the link back that the row still has.
LEMMA PageAmends ==
    ASSUME PInv, NEW r \in Request, Page(r)
    PROVE  Amends(rows', rows)
<1> DEFINE k == copy[r].pk
<1>1. /\ AreRows(rows) /\ copy[r].row \in Row
      /\ \A n \in DOMAIN rows : rows[n] \in Row
  BY RowsFacts DEF PInv, TypeOK
<1>2. ASSUME SaveState(r) \/ MarkRead(r)
      PROVE  IsCopyOver(copy[r], rows)
  BY <1>2, PageIsOff DEF SaveState, MarkRead, Goes, OffCall, OnPageOver
<1>3. CASE SaveState(r)
  <2>1. rows' = [rows EXCEPT ![k] = [copy[r].row EXCEPT !.unread = ~copy[r].row.unread]]
    BY <1>3 DEF SaveState
  <2>2. rows'[k].prev = copy[r].row.prev /\ rows'[k].next = copy[r].row.next
    BY <1>1, <1>2, <1>3, <2>1 DEF Row, IsCopyOver
  <2>3. DOMAIN rows' = DOMAIN rows /\ \A n \in DOMAIN rows \ {k} : rows'[n] = rows[n]
    BY <2>1
  <2>4. QED
    BY <1>2, <1>3, <2>2, <2>3 DEF Amends, IsCopyOver
<1>4. CASE MarkRead(r)
  <2>1. PICK u \in BOOLEAN : rows' = [rows EXCEPT ![k].unread = u]
    BY <1>4 DEF MarkRead
  <2>2. rows'[k].prev = rows[k].prev /\ rows'[k].next = rows[k].next
    BY <1>1, <1>2, <1>4, <2>1 DEF Row, IsCopyOver
  <2>3. DOMAIN rows' = DOMAIN rows /\ \A n \in DOMAIN rows \ {k} : rows'[n] = rows[n]
    BY <2>1
  <2>4. QED
    BY <2>2, <2>3 DEF Amends
<1>5. CASE UNCHANGED rows
  BY <1>5, NothingChanges
<1>6. QED
  BY <1>3, <1>4, <1>5 DEF Page, StartEdit, SaveForm, StartRead, FetchState, FindStale, FindLast,
                          FixPointer, Starts

\* What is left to show of a step of a page.
LEMMA PageStep ==
    ASSUME PInv, NEW r \in Request, Page(r), Amends(rows', rows),
           pointer' \in DOMAIN rows' \cup {0}, pc'[r] \notin {"locked", "checked", "written"},
           OnPageOver(pc'[r], mem'[r], copy'[r], rows')
    PROVE  PInv'
<1>1. /\ lock # r /\ OffCall(r)
      /\ Others(r) /\ TypeOK'
      /\ UNCHANGED <<seq, lock, work, saved>>
      /\ seq \in Nat
  BY PageIsOff
<1>2. OffCall(r)'
  BY <1>1 DEF OffCall
<1>3. Part(r)' /\ seq <= seq'
  BY <1>1, <1>2 DEF Part
<1>4. QED
  BY <1>1, <1>3, OneStep

\* A page that starts loads the record, and the repair command takes it up only
\* when its state has a later one.
LEMMA StartStays ==
    ASSUME PInv, NEW r \in Request, StartEdit(r) \/ StartRead(r) \/ FindStale(r)
    PROVE  PInv'
<1>1. PICK job \in Jobs, step \in {"editing", "opened", "fixing"} :
        Starts(r, job, step) /\ (step = "fixing" => rows[pointer].next # 0)
  BY DEF StartEdit, StartRead, FindStale, Starts
<1>2. /\ UNCHANGED <<rows, pointer>> /\ pointer # 0
      /\ pc'[r] = step /\ mem'[r] = pointer
  BY <1>1 DEF PInv, TypeOK, Starts, Goes
<1>3. pointer \in DOMAIN rows
  BY <1>2 DEF PInv
<1>4. PICK p \in 0..seq : Chained(rows, p)
  BY DEF PInv, IsChain
<1>5. step = "fixing" => \E n \in DOMAIN rows : pointer < n
  BY <1>1, <1>3, <1>4 DEF Chained, ChainedRow
<1>6. OnPageOver(pc'[r], mem'[r], copy'[r], rows')
  BY <1>2, <1>3, <1>5 DEF OnPageOver
<1>7. Amends(rows', rows) /\ pointer' \in DOMAIN rows' \cup {0}
  BY <1>2, <1>3, NothingChanges
<1>8. QED
  BY <1>2, <1>6, <1>7, PageStep DEF Page

\* The pages that save the record point it at a state that is there.
LEMMA SavePointerStays ==
    ASSUME PInv, NEW r \in Request, SaveForm(r) \/ FixPointer(r)
    PROVE  PInv'
<1>1. UNCHANGED rows /\ pc'[r] = "ready" /\ OffCall(r)
  BY PageIsOff DEF PInv, TypeOK, Page, SaveForm, FixPointer, Goes
<1>2. pointer' \in DOMAIN rows
  BY <1>1 DEF SaveForm, FixPointer, Goes, OffCall, OnPageOver
<1>3. OnPageOver(pc'[r], mem'[r], copy'[r], rows')
  BY <1>1 DEF OnPageOver
<1>4. Amends(rows', rows)
  BY <1>1, NothingChanges
<1>5. QED
  BY <1>1, <1>2, <1>3, <1>4, PageStep DEF Page

LEMMA FetchStays ==
    ASSUME PInv, NEW r \in Request, FetchState(r)
    PROVE  PInv'
<1>1. UNCHANGED <<rows, pointer>> /\ pc[r] = "opened" /\ pc'[r] = "fetched" /\ OffCall(r)
  BY PageIsOff DEF PInv, TypeOK, Page, FetchState, Goes
<1>2. mem[r] \in DOMAIN rows /\ copy'[r] = [pk |-> mem[r], row |-> rows[mem[r]]]
  BY <1>1 DEF PInv, TypeOK, FetchState, OffCall, OnPageOver
<1>3. PICK p \in 0..seq : Chained(rows, p)
  BY DEF PInv, IsChain
<1>4. IsCopyOver(copy'[r], rows)
  BY <1>2, <1>3 DEF Chained, ChainedRow, IsCopyOver
<1>5. OnPageOver(pc'[r], mem'[r], copy'[r], rows')
  BY <1>1, <1>4 DEF OnPageOver
<1>6. Amends(rows', rows) /\ pointer' \in DOMAIN rows' \cup {0}
  BY <1>1, NothingChanges DEF PInv
<1>7. QED
  BY <1>1, <1>5, <1>6, PageStep DEF Page

LEMMA SaveStateStays ==
    ASSUME PInv, NEW r \in Request, SaveState(r) \/ MarkRead(r)
    PROVE  PInv'
<1>1. UNCHANGED pointer /\ pc'[r] = "ready"
  BY DEF PInv, TypeOK, SaveState, MarkRead, Goes
<1>2. Amends(rows', rows)
  BY PageAmends DEF Page
<1>3. OnPageOver(pc'[r], mem'[r], copy'[r], rows')
  BY <1>1 DEF OnPageOver
<1>4. pointer' \in DOMAIN rows' \cup {0}
  BY <1>1, <1>2 DEF PInv, Amends
<1>5. QED
  BY <1>1, <1>2, <1>3, <1>4, PageStep DEF Page

\* The state with the highest key is later than the one the record was found at,
\* because some state is.
LEMMA FindLastStays ==
    ASSUME PInv, NEW r \in Request, FindLast(r)
    PROVE  PInv'
<1>1. /\ UNCHANGED <<rows, pointer, mem>>
      /\ pc[r] = "fixing" /\ pc'[r] = "found" /\ OffCall(r)
  BY PageIsOff DEF PInv, TypeOK, Page, FindLast, Goes
<1>2. PICK k \in DOMAIN rows :
        /\ \A n \in DOMAIN rows : n <= k
        /\ copy' = [copy EXCEPT ![r] = [pk |-> k, row |-> rows[k]]]
  BY DEF FindLast
<1>3. copy'[r].pk = k
  BY <1>2 DEF PInv, TypeOK
<1>4. mem[r] \in DOMAIN rows /\ \E n \in DOMAIN rows : mem[r] < n
  BY <1>1 DEF OffCall, OnPageOver
<1>5. DOMAIN rows \subseteq Nat
  BY ChainAssumption DEF PInv, TypeOK, AreRows, Pk
<1>6. mem[r] < k
  BY <1>2, <1>4, <1>5
<1>7. OnPageOver(pc'[r], mem'[r], copy'[r], rows')
  BY <1>1, <1>3, <1>4, <1>6 DEF OnPageOver
<1>8. Amends(rows', rows) /\ pointer' \in DOMAIN rows' \cup {0}
  BY <1>1, NothingChanges DEF PInv
<1>9. QED
  BY <1>1, <1>7, <1>8, PageStep DEF Page

-----------------------------------------------------------------------------
(* Theorems                                                                *)

LEMMA PInvInit == Init => PInv
<1> SUFFICES ASSUME Init PROVE PInv
  OBVIOUS
<1>1. TypeOK
  <2>1. AreRows(NoRows)
    BY DEF NoRows, AreRows
  <2>2. MaxPk \in Nat /\ IsWork(NoWork)
    BY <2>1, ChainAssumption DEF IsWork, NoWork
  <2>3. \A r \in Request : TransactionOK(r)
    BY <2>2 DEF Init, TransactionOK, Savepoints
  <2>4. QED
    BY <2>1, <2>2, <2>3 DEF Init, TypeOK, Steps, NoRow, Row
<1>2. rows = NoRows /\ DOMAIN rows = {} /\ pointer = 0 /\ seq = 0 /\ lock = Free
  BY DEF Init, NoRows
<1>3. Chained(rows, 0)
  BY <1>2 DEF Chained
<1>4. IsChain(rows, seq)
  BY <1>2, <1>3 DEF IsChain
<1>5. \A r \in Request : lock # r /\ OffCall(r)
  BY <1>2, ChainAssumption DEF Init, OffCall, OnPageOver
<1>6. QED
  BY <1>1, <1>2, <1>4, <1>5 DEF PInv, Part

LEMMA PInvStep ==
    ASSUME PInv, [Next]_vars
    PROVE  PInv'
<1>1. CASE UNCHANGED vars
  <2>1. TypeOK'
    BY <1>1 DEF vars, PInv, TypeOK, TransactionOK, Savepoints
  <2>2. \A q \in Request : Part(q)'
    BY <1>1 DEF vars, PInv, Part, InCall, OffCall, TopCopy, Sees
  <2>3. QED
    BY <1>1, <2>1, <2>2 DEF vars, PInv
<1>2. ASSUME NEW r \in Request, Load(r) \/ Transition(r)
      PROVE  PInv'
  BY <1>2, LoadStays, LockStays, CheckStays, WriteStays, NestStays, CommitStays, FailureStays,
     ReturnStays, WhoIsInCall, OthersStay, TransitionTypes DEF Transition, PInv, Return
<1>3. ASSUME NEW r \in Request, Page(r)
      PROVE  PInv'
  BY <1>3, StartStays, SavePointerStays, FetchStays, SaveStateStays, FindLastStays DEF Page
<1>4. QED
  BY <1>1, <1>2, <1>3 DEF Next

LEMMA PInvAlways == Spec => []PInv
BY PInvInit, PInvStep, PTL DEF Spec

LEMMA ChainIsInOrder ==
    ASSUME PInv
    PROVE  LatestIsCurrent /\ BackLinks
<1>1. PICK p \in 0..seq : Chained(rows, p)
  BY DEF PInv, IsChain
<1>2. DOMAIN rows \subseteq Nat \ {0} /\ \A k \in DOMAIN rows : rows[k] \in Row
  BY RowsFacts, ChainAssumption DEF PInv, TypeOK, Pk
<1>3. \A k \in DOMAIN rows : ChainedRow(rows, p, k)
  BY <1>1 DEF Chained
<1>4. BackLinks
  BY <1>3 DEF BackLinks, ChainedRow
<1>5. LatestIsCurrent
  <2> SUFFICES ASSUME NEW k \in DOMAIN rows, \A n \in DOMAIN rows : n <= k
               PROVE  rows[k].next = 0
    BY DEF LatestIsCurrent, Currents
  <2>1. ASSUME rows[k].next # 0 PROVE FALSE
    <3>1. rows[k].next \in DOMAIN rows /\ k < rows[k].next /\ rows[k].next <= k
      BY <1>3, <2>1 DEF ChainedRow
    <3>2. QED
      BY <1>2, <3>1
  <2>2. QED
    BY <2>1
<1>6. QED
  BY <1>4, <1>5

LEMMA FixIsForward ==
    ASSUME PInv, [Next]_vars, NEW r \in Request, pc[r] = "found", pc'[r] = "ready"
    PROVE  pointer' \in DOMAIN rows /\ pointer' > mem[r]
<1>1. PICK q \in Request : Load(q) \/ Transition(q) \/ Page(q)
  BY DEF Next, vars
<1>2. q = r
  BY <1>1, OthersStay DEF PInv, Others
<1>3. FixPointer(r)
  <2>1. lock # r /\ OffCall(r)
    BY WhoIsInCall
  <2>2. ~Load(r)
    BY DEF Load
  <2>3. ~Transition(r)
    BY DEF Transition, Call, Lock, LockRefused, Check, CheckFails, Refuse, HookFails, Write, Nest,
           Return, Commit, Saves, Goes
  <2>4. Page(r) => FixPointer(r)
    BY DEF Page, StartEdit, SaveForm, StartRead, FetchState, SaveState, MarkRead, FindStale,
           FindLast, Starts, Goes
  <2>5. QED
    BY <1>1, <1>2, <2>2, <2>3, <2>4
<1>4. copy[r].pk \in DOMAIN rows /\ mem[r] < copy[r].pk
  BY WhoIsInCall DEF OffCall, OnPageOver
<1>5. QED
  BY <1>3, <1>4 DEF FixPointer

\* Whatever transitions, pages and repairs do to a record at once, its variables
\* keep their types.
THEOREM StoredTypeCorrect == Spec => []TypeOK
<1>1. PInv => TypeOK
  BY DEF PInv
<1>2. QED
  BY <1>1, PInvAlways, PTL

\* No page can make the state with the highest key, which the repair command
\* takes for the current one, a state that is not (check_wf_objects.py 92).
THEOREM HighestIsCurrent == Spec => []LatestIsCurrent
BY PInvAlways, ChainIsInOrder, PTL

\* No page that saves a stale copy of a state disturbs the links back, nor makes
\* two states follow the same one (previous_state is a OneToOneField).
THEOREM LinksBackStay == Spec => []BackLinks
BY PInvAlways, ChainIsInOrder, PTL

\* The repair command never moves a record back, whatever is committed between
\* its statements.
THEOREM RepairsMoveForward == Spec => FixMovesForward
<1>1. PInv /\ [Next]_vars =>
        [\A r \in Request :
            pc[r] = "found" /\ pc'[r] = "ready"
                => pointer' \in DOMAIN rows /\ pointer' > mem[r]]_vars
  BY FixIsForward
<1>2. QED
  BY <1>1, PInvAlways, PTL DEF Spec, FixMovesForward
=============================================================================
