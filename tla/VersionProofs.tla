---------------------------- MODULE VersionProofs ----------------------------
(***************************************************************************)
(* Proofs about the released versions of a workflow, for every set of      *)
(* phases, handlers, keys and texts, every version that is typed, and any  *)
(* number of edits and of interrupted runs of the command.                 *)
(*                                                                         *)
(* The argument: the version that is chosen for the changes is still the   *)
(* right one when the snapshot is taken, since only texts, which the       *)
(* command reads when it writes, can have changed meanwhile.               *)
(* A check that finds no difference vouches for the workflow because no    *)
(* edit leaves anything said of a phase or a handler that is not there.    *)
(***************************************************************************)
EXTENDS WorkflowVersion, SequenceTheorems, FiniteSetTheorems, TLAPS

Triple == Nat \X Nat \X Nat

Logged(v) == \E i \in DOMAIN changelog : changelog[i].version = v

\* v differs from old first in one of its n first numbers, and is higher there.
Rises(v, old, n) == \E i \in 1..n : v[i] > old[i] /\ \A j \in 1..(i - 1) : v[j] = old[j]

\* v is a version that changes may be released under, after old.
Suits(v, old, changes) ==
    /\ Rises(v, old, 3)
    /\ \A c \in changes :
          /\ c.level = "major" => Rises(v, old, 1)
          /\ c.level = "minor" => Rises(v, old, 2)

VInv ==
    /\ DOMAIN workflow = {"order", "keys", "reach", "handlers", "texts"}
    /\ declared \in Triple \cup {NoVersion}
    /\ changelog \in Seq({changelog[i] : i \in DOMAIN changelog})
    /\ recorded # <<>> => recorded.version \in Triple /\ Logged(recorded.version)
    /\ writing # NoVersion =>
          /\ writing \in Triple /\ Logged(writing)
          /\ recorded # <<>> => Suits(writing, recorded.version, Diff(recorded.snapshot, workflow))

-----------------------------------------------------------------------------
(* Changes and versions                                                    *)

Level == {"major", "minor", "patch"}

\* A set of changes that have a level each.
Levelled(changes) == \A c \in changes : c.level \in Level

LEMMA KeysLevelled ==
    ASSUME NEW old, NEW new, NEW where
    PROVE  Levelled(KeyChanges(old, new, where))
BY DEF KeyChanges, Change, Levelled, Level

LEMMA ReachLevelled ==
    ASSUME NEW old, NEW new, NEW p
    PROVE  Levelled(ReachChanges(old, new, p))
<1> DEFINE added == {Change("major", <<p, d, "added">>) : d \in DOMAIN new \ DOMAIN old}
           removed == {Change("major", <<p, d, "removed">>) : d \in DOMAIN old \ DOMAIN new}
           kept == {KeyChanges(old[d], new[d], <<p, d>>) : d \in DOMAIN new \cap DOMAIN old}
<1>1. Levelled(added) /\ Levelled(removed)
  BY DEF Levelled, Level, Change
<1>2. \A s \in kept : Levelled(s)
  BY KeysLevelled
<1>3. ReachChanges(old, new, p) = added \cup removed \cup (UNION kept)
  BY DEF ReachChanges
<1> HIDE DEF added, removed, kept
<1>4. QED
  BY <1>1, <1>2, <1>3 DEF Levelled

LEMMA DiffLevelled ==
    ASSUME NEW old, NEW new
    PROVE  Levelled(Diff(old, new))
<1> DEFINE ofPhase(p) == ReachChanges(old.reach[p], new.reach[p], p)
                           \cup KeyChanges(old.keys[p], new.keys[p], <<p>>)
           ofPhases == {ofPhase(p) : p \in Phases(new) \cap Phases(old)}
           ofHandlers == {HandlerChange(old.handlers[h], new.handlers[h], h) : h \in Handler}
           ofTexts == {Change("patch", <<t>>) : t \in {t \in Text : old.texts[t] # new.texts[t]}}
<1>1. Levelled(PhaseChanges(old, new)) /\ Levelled(ofTexts)
  BY DEF PhaseChanges, Change, Levelled, Level
<1>2. \A p : Levelled(ofPhase(p))
  BY ReachLevelled, KeysLevelled DEF Levelled
<1>3. \A o, n, h : Levelled(HandlerChange(o, n, h))
  BY DEF HandlerChange, Change, Levelled, Level
<1>4. \A s \in ofPhases \cup ofHandlers : Levelled(s)
  BY <1>2, <1>3
<1>5. Diff(old, new) = PhaseChanges(old, new) \cup (UNION ofPhases) \cup (UNION ofHandlers) \cup ofTexts
  BY DEF Diff
<1> HIDE DEF ofPhases, ofHandlers, ofTexts
<1>6. QED
  BY <1>1, <1>4, <1>5 DEF Levelled

\* The level that is required is one of the changes', and none is above it.
LEMMA RequiredIsHighest ==
    ASSUME NEW changes, changes # {}, Levelled(changes)
    PROVE  /\ RequiredLevel(changes) \in Level
           /\ RequiredLevel(changes) # "major" => \A c \in changes : c.level # "major"
           /\ RequiredLevel(changes) = "patch" => \A c \in changes : c.level # "minor"
<1> DEFINE Fits(l) ==
             /\ \E c \in changes : c.level = l
             /\ l = "minor" => ~\E c \in changes : c.level = "major"
             /\ l = "patch" => ~\E c \in changes : c.level \in {"major", "minor"}
<1>1. \E l \in Level : Fits(l)
  <2>1. CASE \E c \in changes : c.level = "major"
    BY <2>1 DEF Level
  <2>2. CASE (\E c \in changes : c.level = "minor") /\ ~\E c \in changes : c.level = "major"
    BY <2>2 DEF Level
  <2>3. CASE ~\E c \in changes : c.level \in {"major", "minor"}
    BY <2>3 DEF Levelled, Level
  <2>4. QED
    BY <2>1, <2>2, <2>3
<1>2. RequiredLevel(changes) = CHOOSE l \in Level : Fits(l)
  BY DEF RequiredLevel, Level
<1>3. RequiredLevel(changes) \in Level /\ Fits(RequiredLevel(changes))
  BY <1>1, <1>2
<1>4. QED
  BY <1>3 DEF Levelled, Level

LEMMA BumpIsVersion ==
    ASSUME NEW v \in Triple, NEW l \in Level
    PROVE  Bump(v, l) \in Triple
BY DEF Bump, Triple, Level

\* What is_enough() asks for is what a version has to show (wf_version.py 265).
LEMMA EnoughRises ==
    ASSUME NEW v \in Triple, NEW old \in Triple, NEW l \in Level,
           IsEnough(v, old, l)
    PROVE  /\ Rises(v, old, 3)
           /\ l = "major" => Rises(v, old, 1)
           /\ l = "minor" => Rises(v, old, 2)
<1>1. /\ v[1] \in Nat /\ v[2] \in Nat /\ v[3] \in Nat
      /\ old[1] \in Nat /\ old[2] \in Nat /\ old[3] \in Nat
  BY DEF Triple
<1>2. \/ v[1] > old[1]
      \/ l # "major" /\ v[1] = old[1] /\ v[2] > old[2]
      \/ l = "patch" /\ v[1] = old[1] /\ v[2] = old[2] /\ v[3] > old[3]
  <2>1. CASE l = "major"
    <3>1. Bump(old, l) = <<old[1] + 1, 0, 0>>
      BY <2>1 DEF Bump
    <3>2. QED
      BY <1>1, <2>1, <3>1 DEF IsEnough, NotBelow
  <2>2. CASE l = "minor"
    <3>1. Bump(old, l) = <<old[1], old[2] + 1, 0>>
      BY <2>2 DEF Bump
    <3>2. QED
      BY <1>1, <2>2, <3>1 DEF IsEnough, NotBelow
  <2>3. CASE l = "patch"
    <3>1. Bump(old, l) = <<old[1], old[2], old[3] + 1>>
      BY <2>3 DEF Bump
    <3>2. QED
      BY <1>1, <2>3, <3>1 DEF IsEnough, NotBelow
  <2>4. QED
    BY <2>1, <2>2, <2>3 DEF Level
<1>3. v[1] > old[1] => Rises(v, old, 1) /\ Rises(v, old, 2) /\ Rises(v, old, 3)
  BY DEF Rises
<1>4. v[1] = old[1] /\ v[2] > old[2] => Rises(v, old, 2) /\ Rises(v, old, 3)
  <2> SUFFICES ASSUME v[1] = old[1], v[2] > old[2]
               PROVE  Rises(v, old, 2) /\ Rises(v, old, 3)
    OBVIOUS
  <2>1. \A j \in 1..(2 - 1) : v[j] = old[j]
    OBVIOUS
  <2>2. QED
    BY <2>1 DEF Rises
<1>5. v[1] = old[1] /\ v[2] = old[2] /\ v[3] > old[3] => Rises(v, old, 3)
  <2> SUFFICES ASSUME v[1] = old[1], v[2] = old[2], v[3] > old[3]
               PROVE  Rises(v, old, 3)
    OBVIOUS
  <2>1. \A j \in 1..(3 - 1) : v[j] = old[j]
    OBVIOUS
  <2>2. QED
    BY <2>1 DEF Rises
<1>6. QED
  BY <1>2, <1>3, <1>4, <1>5

-----------------------------------------------------------------------------
(* Steps                                                                   *)

\* An edit leaves the parts of a workflow in place, and one of the texts all
\* the others.
LEMMA Edited ==
    ASSUME NEW w, DOMAIN w = {"order", "keys", "reach", "handlers", "texts"}
    PROVE  /\ \A x \in Reworded(w) :
                 /\ DOMAIN x = DOMAIN w
                 /\ x.order = w.order /\ x.keys = w.keys
                 /\ x.reach = w.reach /\ x.handlers = w.handlers
           /\ \A x \in Reordered(w) \cup Rerouted(w) \cup Rekeyed(w) \cup Rewritten(w) : DOMAIN x = DOMAIN w
<1>1. \A x \in Reworded(w) :
        /\ DOMAIN x = DOMAIN w
        /\ x.order = w.order /\ x.keys = w.keys /\ x.reach = w.reach /\ x.handlers = w.handlers
  BY DEF Reworded
<1>2. \A x \in Reordered(w) : DOMAIN x = DOMAIN w
  BY DEF Reordered, Added, Removed
<1>3. \A x \in Rerouted(w) : DOMAIN x = DOMAIN w
  BY DEF Rerouted
<1>4. \A x \in Rekeyed(w) : DOMAIN x = DOMAIN w
  <2> DEFINE ofPhases == {[w EXCEPT !.keys[e[1]][e[2]] = e[3]] : e \in Phases(w) \X PhaseKey \X Value}
             ofReach(p) == {[w EXCEPT !.reach[p][e[1]][e[2]] = e[3]] :
                              e \in (DOMAIN w.reach[p]) \X TransitionKey \X Value}
             ofReaches == {ofReach(p) : p \in Phases(w)}
  <2>1. \A x \in ofPhases : DOMAIN x = DOMAIN w
    OBVIOUS
  <2>2. \A s \in ofReaches : \A x \in s : DOMAIN x = DOMAIN w
    <3>1. \A p : \A x \in ofReach(p) : DOMAIN x = DOMAIN w
      OBVIOUS
    <3> HIDE DEF ofReach
    <3>2. QED
      BY <3>1
  <2>3. Rekeyed(w) = ofPhases \cup (UNION ofReaches)
    BY DEF Rekeyed
  <2> HIDE DEF ofPhases, ofReaches
  <2>4. QED
    BY <2>1, <2>2, <2>3
<1>5. \A x \in Rewritten(w) : DOMAIN x = DOMAIN w
  BY DEF Rewritten
<1>6. QED
  BY <1>1, <1>2, <1>3, <1>4, <1>5

\* Texts are of the lowest level: whatever suited suits.
LEMMA TextsSuit ==
    ASSUME NEW old, NEW w, NEW x, NEW v, NEW u, Suits(v, u, Diff(old, w)),
           x.order = w.order, x.keys = w.keys, x.reach = w.reach, x.handlers = w.handlers
    PROVE  Suits(v, u, Diff(old, x))
<1> DEFINE ofTexts(y) == {Change("patch", <<t>>) : t \in {t \in Text : old.texts[t] # y.texts[t]}}
           others == PhaseChanges(old, w)
                       \cup (UNION {ReachChanges(old.reach[p], w.reach[p], p)
                                      \cup KeyChanges(old.keys[p], w.keys[p], <<p>>) :
                                        p \in Phases(w) \cap Phases(old)})
                       \cup (UNION {HandlerChange(old.handlers[h], w.handlers[h], h) : h \in Handler})
<1>1. Diff(old, w) = others \cup ofTexts(w)
  BY DEF Diff
<1>2. Diff(old, x) = others \cup ofTexts(x)
  <2>1. Phases(x) = Phases(w) /\ PhaseChanges(old, x) = PhaseChanges(old, w)
    BY DEF Phases, PhaseChanges
  <2>2. QED
    BY <2>1 DEF Diff
<1>3. \A c \in ofTexts(x) : c.level = "patch"
  BY DEF Change
<1> HIDE DEF others, ofTexts
<1>4. QED
  BY <1>1, <1>2, <1>3 DEF Suits

LEMMA EditKeeps ==
    ASSUME VInv, Edit
    PROVE  VInv'
<1>1. UNCHANGED <<declared, recorded, changelog, writing>>
  BY DEF Edit
<1>2. DOMAIN workflow' = DOMAIN workflow
  BY Edited DEF VInv, Edit
<1>3. writing # NoVersion =>
        /\ workflow'.order = workflow.order /\ workflow'.keys = workflow.keys
        /\ workflow'.reach = workflow.reach /\ workflow'.handlers = workflow.handlers
  BY Edited DEF VInv, Edit
<1>4. writing # NoVersion /\ recorded # <<>> =>
        Suits(writing, recorded.version, Diff(recorded.snapshot, workflow'))
  BY <1>3, TextsSuit DEF VInv
<1>5. QED
  BY <1>1, <1>2, <1>4 DEF VInv, Logged

LEMMA ChosenIsVersion ==
    ASSUME NEW n \in Versions \cup {NoVersion}, NEW o \in Triple \cup {NoVersion}, NEW p \in Triple
    PROVE  Chosen(n, o, p) \in Triple
BY VersionAssumption DEF Chosen, Triple

LEMMA WriteKeeps ==
    ASSUME VInv, NEW v \in Triple, NEW changes, WriteChangelog(v, changes),
           recorded # <<>> => Suits(v, recorded.version, Diff(recorded.snapshot, workflow))
    PROVE  VInv'
<1> DEFINE e == [version |-> v, changes |-> changes]
           S == {changelog[i] : i \in DOMAIN changelog}
<1>1. UNCHANGED <<workflow, declared, recorded>> /\ writing' = v /\ changelog' = <<e>> \o changelog
  BY DEF WriteChangelog
<1>2. changelog \in Seq(S \cup {e}) /\ <<e>> \in Seq(S \cup {e}) /\ Len(<<e>>) = 1 /\ <<e>>[1] = e
  <2>1. changelog \in Seq(S)
    BY DEF VInv
  <2>2. QED
    BY <2>1, SeqMonotonic
<1> HIDE DEF e, S
<1>3. /\ changelog' \in Seq(S \cup {e})
      /\ Len(changelog) \in Nat /\ Len(changelog') = 1 + Len(changelog)
      /\ DOMAIN changelog = 1..Len(changelog) /\ DOMAIN changelog' = 1..Len(changelog')
      /\ changelog'[1] = e
      /\ \A i \in 1..Len(changelog) : changelog'[i + 1] = changelog[i]
  BY <1>1, <1>2, ConcatProperties, LenProperties
<1>4. changelog' \in Seq({changelog'[i] : i \in DOMAIN changelog'})
  BY <1>3, SeqOfRange DEF Range
<1>5. Logged(v)'
  <2>1. 1 \in DOMAIN changelog' /\ changelog'[1].version = v
    BY <1>3 DEF e
  <2>2. QED
    BY <2>1 DEF Logged
<1>6. ASSUME NEW u, NEW i \in DOMAIN changelog, changelog[i].version = u
      PROVE  \E j \in DOMAIN changelog' : changelog'[j].version = u
  <2>1. i + 1 \in DOMAIN changelog' /\ changelog'[i + 1] = changelog[i]
    BY <1>3
  <2>2. QED
    BY <1>6, <2>1
<1>7. recorded # <<>> => Logged(recorded.version)'
  BY <1>1, <1>6 DEF VInv, Logged
<1>8. QED
  BY <1>1, <1>4, <1>5, <1>7 DEF VInv

LEMMA FirstKeeps ==
    ASSUME VInv, NEW new \in Versions \cup {NoVersion}, RecordFirst(new)
    PROVE  VInv'
<1>1. <<1, 0, 0>> \in Triple /\ declared \in Triple \cup {NoVersion}
  BY DEF Triple, VInv
<1>2. Chosen(new, declared, <<1, 0, 0>>) \in Triple
  BY <1>1, ChosenIsVersion
<1>3. recorded = <<>> /\ WriteChangelog(Chosen(new, declared, <<1, 0, 0>>), {})
  BY DEF RecordFirst
<1>4. QED
  BY <1>2, <1>3, WriteKeeps

LEMMA NextKeeps ==
    ASSUME VInv, NEW new \in Versions \cup {NoVersion}, RecordNext(new)
    PROVE  VInv'
<1> DEFINE changes == Diff(recorded.snapshot, workflow)
           level == RequiredLevel(changes)
           own == IF declared = recorded.version THEN NoVersion ELSE declared
           v == Chosen(new, own, Bump(recorded.version, level))
<1>1. /\ changes # {} /\ IsEnough(v, recorded.version, level) /\ WriteChangelog(v, changes)
      /\ recorded.version \in Triple /\ own \in Triple \cup {NoVersion}
  BY DEF RecordNext, VInv
<1>2. /\ level \in Level
      /\ level # "major" => \A c \in changes : c.level # "major"
      /\ level = "patch" => \A c \in changes : c.level # "minor"
  BY <1>1, DiffLevelled, RequiredIsHighest
<1>3. v \in Triple
  BY <1>1, <1>2, BumpIsVersion, ChosenIsVersion
<1> HIDE DEF changes, level, v
<1>4. /\ Rises(v, recorded.version, 3)
      /\ level = "major" => Rises(v, recorded.version, 1)
      /\ level = "minor" => Rises(v, recorded.version, 2)
  BY <1>1, <1>2, <1>3, EnoughRises
<1>5. Rises(v, recorded.version, 1) => Rises(v, recorded.version, 2)
  BY DEF Rises
<1>6. Suits(v, recorded.version, changes)
  BY <1>2, <1>4, <1>5 DEF Suits, Level
<1>7. QED
  BY <1>1, <1>3, <1>6, WriteKeeps DEF changes

LEMMA VInvInit == Init => VInv
<1> SUFFICES ASSUME Init PROVE VInv
  OBVIOUS
<1>1. DOMAIN workflow = {"order", "keys", "reach", "handlers", "texts"}
  BY DEF Init, Plain
<1>2. changelog = <<>> /\ changelog \in Seq({changelog[i] : i \in DOMAIN changelog})
  BY DEF Init
<1>3. QED
  BY <1>1, <1>2 DEF Init, VInv

LEMMA VInvStep ==
    ASSUME VInv, [Next]_vars
    PROVE  VInv'
<1>1. CASE UNCHANGED vars
  BY <1>1 DEF vars, VInv, Logged
<1>2. CASE Edit
  BY <1>2, EditKeeps
<1>3. ASSUME NEW v \in Versions \cup {NoVersion}, Declare(v) \/ RecordFirst(v) \/ RecordNext(v)
      PROVE  VInv'
  <2>1. CASE Declare(v)
    BY <2>1, VersionAssumption DEF Declare, VInv, Logged, Triple
  <2>2. QED
    BY <1>3, <2>1, FirstKeeps, NextKeeps
<1>4. CASE WriteSnapshot
  BY <1>4 DEF WriteSnapshot, VInv, Logged
<1>5. CASE Interrupted
  BY <1>5 DEF Interrupted, VInv, Logged
<1>6. QED
  BY <1>1, <1>2, <1>3, <1>4, <1>5 DEF Next

-----------------------------------------------------------------------------
(* Theorems                                                                *)

\* An interrupted run of propose_wf_version leaves an entry too many in the
\* changelog, never one too few (propose_wf_version.py 87-91).
THEOREM ReleasesAreLogged == Spec => []RecordedIsLogged
<1>1. VInv => RecordedIsLogged
  BY DEF VInv, Logged, RecordedIsLogged
<1>2. QED
  BY <1>1, VInvInit, VInvStep, PTL DEF Spec

\* A recorded version is replaced by a later one only, that shows the level of
\* what has changed, whatever was typed, edited or interrupted (is_enough and
\* bump_version of wf_version.py, and the command that chooses).
THEOREM ReleasesRise == Spec => VersionsRise
<1>1. ASSUME VInv, Next, recorded # <<>>, recorded' # recorded
      PROVE  Suits(recorded'.version, recorded.version, Diff(recorded.snapshot, recorded'.snapshot))
  <2>1. WriteSnapshot
    BY <1>1 DEF Next, Edit, Declare, RecordFirst, RecordNext, WriteChangelog, Interrupted
  <2>2. recorded'.version = writing /\ recorded'.snapshot = workflow /\ writing # NoVersion
    BY <2>1 DEF WriteSnapshot
  <2>3. QED
    BY <1>1, <2>2 DEF VInv
<1>2. VInv /\ [Next]_vars =>
        [recorded # <<>> /\ recorded' # recorded =>
           LET old == recorded.version
               new == recorded'.version
               rises(n) == \E i \in 1..n : new[i] > old[i] /\ \A j \in 1..(i - 1) : new[j] = old[j]
           IN  /\ rises(3)
               /\ \A c \in Diff(recorded.snapshot, recorded'.snapshot) :
                    /\ c.level = "major" => rises(1)
                    /\ c.level = "minor" => rises(2)]_vars
  BY <1>1 DEF Suits, Rises
<1>3. QED
  BY <1>2, VInvInit, VInvStep, PTL DEF Spec, VersionsRise
-----------------------------------------------------------------------------
(* What a check vouches for                                                *)

Conditions == [TransitionKey -> Value]
NoKeys == [k \in PhaseKey |-> Absent]

Routes == UNION {[D -> Conditions] : D \in SUBSET PhaseName}

Shape == [order : Seq(PhaseName),
          keys : [PhaseName -> [PhaseKey -> Value]],
          reach : [PhaseName -> Routes],
          handlers : [Handler -> [code : Value, doc : Value]],
          texts : [Text -> Value]]

\* A snapshot says nothing of a phase that is not configured, nor of a handler
\* that does not exist.
WellFormed(w) ==
    /\ w \in Shape
    /\ w.order # <<>>
    /\ \A p \in PhaseName \ Phases(w) : w.keys[p] = NoKeys /\ DOMAIN w.reach[p] = {}
    /\ \A h \in Handler : w.handlers[h].code = Absent => w.handlers[h].doc = Absent

AllWellFormed ==
    /\ WellFormed(workflow)
    /\ recorded # <<>> => WellFormed(recorded.snapshot)

LEMMA RoutesOfFunctions ==
    /\ \A D \in SUBSET PhaseName : [D -> Conditions] \subseteq Routes
    /\ \A r \in Routes : \E D \in SUBSET PhaseName : r \in [D -> Conditions]
BY DEF Routes

\* The first order has no gaps, and a phase that is not in it reaches nothing.
LEMMA PlainIsWellFormed ==
    ASSUME NEW order \in Orders
    PROVE  WellFormed(Plain(order))
<1>1. PICK n \in 1..Cardinality(PhaseName) : order \in [1..n -> PhaseName]
  BY DEF Orders
<1>2. n \in Nat \ {0}
  BY FS_CardinalityType, VersionAssumption
<1>3. order \in Seq(PhaseName) /\ Len(order) = n /\ DOMAIN order = 1..n /\ order # <<>>
  BY <1>1, <1>2
<1> DEFINE w == Plain(order)
           after(p) == {order[i] : i \in {i \in 2..Len(order) : order[i - 1] = p}}
<1>4. /\ w.order = order
      /\ w.keys = [p \in PhaseName |-> NoKeys]
      /\ w.reach = [p \in PhaseName |-> [d \in after(p) |-> [k \in TransitionKey |-> Absent]]]
      /\ w.handlers = [h \in Handler |-> [code |-> Absent, doc |-> Absent]]
      /\ w.texts = [t \in Text |-> Absent]
      /\ w = [order |-> w.order, keys |-> w.keys, reach |-> w.reach,
              handlers |-> w.handlers, texts |-> w.texts]
  BY DEF Plain, NoKeys
<1> HIDE DEF w
<1>5. \A p : after(p) \subseteq PhaseName
  BY <1>3
<1>6. \A p \in PhaseName \ Phases(w) : after(p) = {}
  BY <1>3, <1>4 DEF Phases
<1> HIDE DEF after
<1>7. w.reach \in [PhaseName -> Routes]
  <2>1. [k \in TransitionKey |-> Absent] \in Conditions
    BY VersionAssumption DEF Conditions
  <2>2. \A p : [d \in after(p) |-> [k \in TransitionKey |-> Absent]] \in Routes
    BY <1>5, <2>1, RoutesOfFunctions
  <2>3. QED
    BY <1>4, <2>2
<1>8. w.keys \in [PhaseName -> [PhaseKey -> Value]]
  BY <1>4, VersionAssumption DEF NoKeys
<1>9. w.handlers \in [Handler -> [code : Value, doc : Value]] /\ w.texts \in [Text -> Value]
  BY <1>4, VersionAssumption
<1>10. w \in Shape
  BY <1>3, <1>4, <1>7, <1>8, <1>9 DEF Shape
<1>11. QED
  BY <1>3, <1>4, <1>6, <1>10 DEF WellFormed, w

LEMMA ReorderedIsWellFormed ==
    ASSUME NEW w, WellFormed(w), NEW x \in Reordered(w)
    PROVE  WellFormed(x)
<1>1. /\ w \in Shape /\ w.order \in Seq(PhaseName) /\ w.order # <<>>
      /\ Len(w.order) \in Nat \ {0} /\ DOMAIN w.order = 1..Len(w.order)
      /\ Phases(w) \subseteq PhaseName
  BY DEF WellFormed, Shape, Phases
<1>2. CASE \E p \in PhaseName \ Phases(w) : x = Added(w, p)
  <2>1. PICK p \in PhaseName \ Phases(w) : x = Added(w, p)
    BY <1>2
  <2>2. /\ x \in Shape
        /\ x.order = Append(w.order, p)
        /\ x.keys = w.keys /\ x.reach = w.reach /\ x.handlers = w.handlers
    <3>1. Append(w.order, p) \in Seq(PhaseName)
      BY <1>1
    <3>2. x = [w EXCEPT !.order = Append(w.order, p)]
      BY <2>1 DEF Added
    <3>3. QED
      BY <1>1, <3>1, <3>2 DEF Shape
  <2>3. x.order # <<>> /\ Phases(w) \subseteq Phases(x)
    BY <1>1, <2>2 DEF Phases
  <2>4. QED
    BY <2>2, <2>3 DEF WellFormed
<1>3. CASE \E i \in DOMAIN w.order : Len(w.order) > 1 /\ x = Removed(w, i)
  <2>1. PICK i \in DOMAIN w.order : Len(w.order) > 1 /\ x = Removed(w, i)
    BY <1>3
  <2> DEFINE p == w.order[i]
             s == SubSeq(w.order, 1, i - 1) \o SubSeq(w.order, i + 1, Len(w.order))
             kept(q) == IF q = p THEN {} ELSE DOMAIN w.reach[q] \ {p}
             reach == [q \in PhaseName |-> [d \in kept(q) |-> w.reach[q][d]]]
             keys == [w.keys EXCEPT ![p] = NoKeys]
  <2>2. p \in PhaseName
    BY <1>1
  <2>3. /\ x.order = s
        /\ x.reach = reach
        /\ x.keys = keys
        /\ x.handlers = w.handlers
        /\ x.texts = w.texts
        /\ x = [order |-> x.order, keys |-> x.keys, reach |-> x.reach,
                handlers |-> x.handlers, texts |-> x.texts]
    BY <1>1, <2>1 DEF Removed, Shape, NoKeys
  <2>4. /\ s \in Seq(PhaseName)
        /\ Len(s) = Len(w.order) - 1
        /\ \A j \in 1..(i - 1) : s[j] = w.order[j]
        /\ \A j \in (i + 1)..Len(w.order) : s[j - 1] = w.order[j]
    <3> DEFINE before == SubSeq(w.order, 1, i - 1)
               behind == SubSeq(w.order, i + 1, Len(w.order))
    <3>1. /\ before \in Seq(PhaseName)
          /\ Len(before) = i - 1
          /\ \A j \in 1..(i - 1) : before[j] = w.order[j]
      BY <1>1
    <3>2. /\ behind \in Seq(PhaseName)
          /\ Len(behind) = Len(w.order) - i
          /\ \A j \in 1..(Len(w.order) - i) : behind[j] = w.order[i + j]
      BY <1>1
    <3> HIDE DEF before, behind
    <3>3. /\ before \o behind \in Seq(PhaseName)
          /\ Len(before \o behind) = Len(w.order) - 1
          /\ \A j \in 1..(i - 1) : (before \o behind)[j] = w.order[j]
          /\ \A j \in i..(Len(w.order) - 1) : (before \o behind)[j] = w.order[j + 1]
      <4>1. /\ before \o behind \in Seq(PhaseName)
            /\ Len(before \o behind) = Len(before) + Len(behind)
            /\ \A j \in 1..(Len(before) + Len(behind)) :
                  (before \o behind)[j] = IF j <= Len(before) THEN before[j] ELSE behind[j - Len(before)]
        BY <3>1, <3>2, ConcatProperties
      <4>2. i \in 1..Len(w.order) /\ Len(before) + Len(behind) = Len(w.order) - 1
        BY <1>1, <2>1, <3>1, <3>2
      <4>3. ASSUME NEW j \in i..(Len(w.order) - 1)
            PROVE  (before \o behind)[j] = w.order[j + 1]
        <5>1. /\ j \in 1..(Len(before) + Len(behind)) /\ ~(j <= Len(before))
              /\ j - Len(before) = j - i + 1 /\ j - i + 1 \in 1..(Len(w.order) - i)
              /\ i + (j - i + 1) = j + 1
          BY <1>1, <3>1, <4>2
        <5>2. (before \o behind)[j] = behind[j - i + 1]
          BY <4>1, <5>1
        <5>3. QED
          BY <3>2, <5>1, <5>2
      <4>4. QED
        BY <1>1, <3>1, <4>1, <4>2, <4>3
    <3>4. \A j \in (i + 1)..Len(w.order) : (before \o behind)[j - 1] = w.order[j]
      <4> SUFFICES ASSUME NEW j \in (i + 1)..Len(w.order)
                   PROVE  (before \o behind)[j - 1] = w.order[j]
        OBVIOUS
      <4>1. j - 1 \in i..(Len(w.order) - 1) /\ (j - 1) + 1 = j
        BY <1>1
      <4>2. QED
        BY <3>3, <4>1
    <3>5. s = before \o behind
      BY DEF before, behind
    <3> HIDE DEF s
    <3>6. QED
      BY <3>3, <3>4, <3>5
  <2> HIDE DEF s, p
  <2>5. s # <<>> /\ Phases(w) \ {p} \subseteq Phases(x)
    <3>1. Len(s) > 0 /\ DOMAIN s = 1..Len(s)
      BY <1>1, <2>1, <2>4
    <3>2. ASSUME NEW j \in DOMAIN w.order, w.order[j] # p
          PROVE  w.order[j] \in Phases(x)
      <4>1. j \in 1..(i - 1) \/ j \in (i + 1)..Len(w.order)
        BY <1>1, <2>1, <3>2 DEF p
      <4>2. CASE j \in 1..(i - 1)
        <5>1. j \in DOMAIN s /\ s[j] = w.order[j]
          BY <1>1, <2>1, <2>4, <3>1, <4>2
        <5>2. QED
          BY <2>3, <5>1 DEF Phases
      <4>3. CASE j \in (i + 1)..Len(w.order)
        <5>1. j - 1 \in DOMAIN s /\ s[j - 1] = w.order[j]
          BY <1>1, <2>1, <2>4, <3>1, <4>3
        <5>2. QED
          BY <2>3, <5>1 DEF Phases
      <4>4. QED
        BY <4>1, <4>2, <4>3
    <3>3. QED
      BY <2>3, <3>1, <3>2 DEF Phases
  <2>6. reach \in [PhaseName -> Routes]
    <3>1. ASSUME NEW q \in PhaseName
          PROVE  [d \in kept(q) |-> w.reach[q][d]] \in Routes
      <4>1. PICK D \in SUBSET PhaseName : w.reach[q] \in [D -> Conditions]
        BY <1>1, RoutesOfFunctions DEF Shape
      <4>2. kept(q) \in SUBSET PhaseName /\ kept(q) \subseteq D
        BY <4>1
      <4>3. [d \in kept(q) |-> w.reach[q][d]] \in [kept(q) -> Conditions]
        BY <4>1, <4>2
      <4>4. QED
        BY <4>2, <4>3, RoutesOfFunctions
    <3>2. QED
      BY <3>1
  <2>7. keys \in [PhaseName -> [PhaseKey -> Value]]
    BY <1>1, <2>2, VersionAssumption DEF Shape, NoKeys
  <2>8. x \in Shape
    BY <1>1, <2>3, <2>4, <2>6, <2>7 DEF Shape
  <2>9. ASSUME NEW q \in PhaseName \ Phases(x)
        PROVE  x.keys[q] = NoKeys /\ DOMAIN x.reach[q] = {}
    <3>1. q = p \/ q \in PhaseName \ Phases(w)
      BY <2>5
    <3>2. CASE q = p
      BY <1>1, <2>2, <2>3, <3>2 DEF Shape
    <3>3. CASE q # p /\ q \in PhaseName \ Phases(w)
      <4>1. w.keys[q] = NoKeys /\ DOMAIN w.reach[q] = {}
        BY <3>3 DEF WellFormed
      <4>2. QED
        BY <1>1, <2>3, <3>3, <4>1 DEF Shape
    <3>4. QED
      BY <3>1, <3>2, <3>3
  <2>10. QED
    BY <2>3, <2>5, <2>8, <2>9 DEF WellFormed
<1>4. CASE x = [w EXCEPT !.order = Append(Tail(@), Head(@))]
  <2> DEFINE s == Append(Tail(w.order), Head(w.order))
  <2>1. /\ s \in Seq(PhaseName)
        /\ Len(s) = Len(w.order)
        /\ s[Len(w.order)] = w.order[1]
        /\ \A j \in 2..Len(w.order) : s[j - 1] = w.order[j]
    BY <1>1
  <2> HIDE DEF s
  <2>2. /\ x \in Shape
        /\ x.order = s
        /\ x.keys = w.keys /\ x.reach = w.reach /\ x.handlers = w.handlers
    BY <1>1, <1>4, <2>1 DEF Shape, s
  <2>3. x.order # <<>> /\ Phases(w) \subseteq Phases(x)
    <3>1. DOMAIN s = 1..Len(w.order) /\ s # <<>>
      BY <1>1, <2>1
    <3>2. ASSUME NEW j \in DOMAIN w.order
          PROVE  w.order[j] \in Phases(x)
      <4>1. CASE j = 1
        BY <1>1, <2>1, <2>2, <3>1, <4>1 DEF Phases
      <4>2. CASE j # 1
        <5>1. j - 1 \in DOMAIN s /\ s[j - 1] = w.order[j]
          BY <1>1, <2>1, <3>1, <4>2
        <5>2. QED
          BY <2>2, <5>1 DEF Phases
      <4>3. QED
        BY <4>1, <4>2
    <3>3. QED
      BY <2>2, <3>1, <3>2 DEF Phases
  <2>4. QED
    BY <2>2, <2>3 DEF WellFormed
<1>5. QED
  BY <1>2, <1>3, <1>4 DEF Reordered

LEMMA ReroutedIsWellFormed ==
    ASSUME NEW w, WellFormed(w), NEW x \in Rerouted(w)
    PROVE  WellFormed(x)
<1>1. PICK p \in Phases(w), d \in Phases(w) : x = [w EXCEPT !.reach[p] = Reaching(@, d)]
  BY DEF Rerouted
<1>2. w \in Shape /\ p \in PhaseName /\ d \in PhaseName
  BY DEF WellFormed, Shape, Phases
<1>3. PICK D \in SUBSET PhaseName : w.reach[p] \in [D -> Conditions]
  BY <1>2, RoutesOfFunctions DEF Shape
<1>4. Reaching(w.reach[p], d) \in Routes
  <2>1. CASE d \in D
    <3>1. Reaching(w.reach[p], d) \in [D \ {d} -> Conditions]
      BY <1>3, <2>1 DEF Reaching
    <3>2. QED
      BY <3>1, RoutesOfFunctions
  <2>2. CASE d \notin D
    <3>1. [k \in TransitionKey |-> Absent] \in Conditions
      BY VersionAssumption DEF Conditions
    <3>2. Reaching(w.reach[p], d) \in [D \cup {d} -> Conditions]
      BY <1>3, <2>2, <3>1 DEF Reaching
    <3>3. D \cup {d} \in SUBSET PhaseName
      BY <1>2
    <3>4. QED
      BY <3>2, <3>3, RoutesOfFunctions
  <2>3. QED
    BY <2>1, <2>2
<1> DEFINE r == Reaching(w.reach[p], d)
<1>5. /\ x.order = w.order /\ x.keys = w.keys /\ x.handlers = w.handlers /\ x.texts = w.texts
      /\ x.reach = [w.reach EXCEPT ![p] = r]
      /\ x = [order |-> x.order, keys |-> x.keys, reach |-> x.reach,
              handlers |-> x.handlers, texts |-> x.texts]
  BY <1>1, <1>2 DEF Shape
<1> HIDE DEF r
<1>6. x \in Shape
  BY <1>2, <1>4, <1>5 DEF Shape, r
<1>7. Phases(x) = Phases(w)
  BY <1>5 DEF Phases
<1>8. \A q \in PhaseName \ Phases(x) : x.reach[q] = w.reach[q]
  BY <1>2, <1>5, <1>7 DEF Shape
<1>9. QED
  BY <1>5, <1>6, <1>7, <1>8 DEF WellFormed

LEMMA RekeyedIsWellFormed ==
    ASSUME NEW w, WellFormed(w), NEW x \in Rekeyed(w)
    PROVE  WellFormed(x)
<1>1. w \in Shape /\ Phases(w) \subseteq PhaseName
  BY DEF WellFormed, Shape, Phases
<1>2. CASE \E p \in Phases(w), k \in PhaseKey, v \in Value : x = [w EXCEPT !.keys[p][k] = v]
  <2>1. PICK p \in Phases(w), k \in PhaseKey, v \in Value : x = [w EXCEPT !.keys[p][k] = v]
    BY <1>2
  <2>2. /\ x.order = w.order /\ x.reach = w.reach /\ x.handlers = w.handlers /\ x.texts = w.texts
        /\ x.keys = [w.keys EXCEPT ![p] = [w.keys[p] EXCEPT ![k] = v]]
        /\ x = [order |-> x.order, keys |-> x.keys, reach |-> x.reach,
                handlers |-> x.handlers, texts |-> x.texts]
    BY <1>1, <2>1 DEF Shape
  <2>3. x.keys \in [PhaseName -> [PhaseKey -> Value]]
    <3>1. p \in PhaseName /\ w.keys \in [PhaseName -> [PhaseKey -> Value]]
      BY <1>1 DEF Shape
    <3>2. [w.keys[p] EXCEPT ![k] = v] \in [PhaseKey -> Value]
      BY <3>1
    <3>3. QED
      BY <2>2, <3>1, <3>2
  <2>4. x \in Shape
    BY <1>1, <2>2, <2>3 DEF Shape
  <2>5. \A q \in PhaseName \ Phases(w) : x.keys[q] = w.keys[q]
    BY <1>1, <2>2 DEF Shape
  <2>6. Phases(x) = Phases(w)
    BY <2>2 DEF Phases
  <2>7. QED
    BY <2>2, <2>4, <2>5, <2>6 DEF WellFormed
<1>3. CASE \E p \in Phases(w) : \E d \in DOMAIN w.reach[p], k \in TransitionKey, v \in Value :
              x = [w EXCEPT !.reach[p][d][k] = v]
  <2>1. PICK p \in Phases(w) : \E d \in DOMAIN w.reach[p], k \in TransitionKey, v \in Value :
              x = [w EXCEPT !.reach[p][d][k] = v]
    BY <1>3
  <2>2. PICK d \in DOMAIN w.reach[p], k \in TransitionKey, v \in Value :
              x = [w EXCEPT !.reach[p][d][k] = v]
    BY <2>1
  <2> DEFINE r == [w.reach[p] EXCEPT ![d] = [w.reach[p][d] EXCEPT ![k] = v]]
  <2>3. /\ x.order = w.order /\ x.keys = w.keys /\ x.handlers = w.handlers /\ x.texts = w.texts
        /\ x.reach = [w.reach EXCEPT ![p] = r]
        /\ x = [order |-> x.order, keys |-> x.keys, reach |-> x.reach,
                handlers |-> x.handlers, texts |-> x.texts]
    BY <1>1, <2>2 DEF Shape
  <2>4. r \in Routes
    <3>1. PICK D \in SUBSET PhaseName : w.reach[p] \in [D -> Conditions]
      BY <1>1, RoutesOfFunctions DEF Shape
    <3>2. [w.reach[p][d] EXCEPT ![k] = v] \in Conditions
      BY <3>1 DEF Conditions
    <3>3. r \in [D -> Conditions]
      BY <3>1, <3>2
    <3>4. QED
      BY <3>3, RoutesOfFunctions
  <2> HIDE DEF r
  <2>5. x \in Shape
    BY <1>1, <2>3, <2>4 DEF Shape
  <2>6. \A q \in PhaseName \ Phases(w) : x.reach[q] = w.reach[q]
    BY <1>1, <2>3 DEF Shape
  <2>7. Phases(x) = Phases(w)
    BY <2>3 DEF Phases
  <2>8. QED
    BY <2>3, <2>5, <2>6, <2>7 DEF WellFormed
<1>4. QED
  <2> DEFINE ofPhases == {[w EXCEPT !.keys[e[1]][e[2]] = e[3]] : e \in Phases(w) \X PhaseKey \X Value}
             ofReach(p) == {[w EXCEPT !.reach[p][e[1]][e[2]] = e[3]] :
                              e \in (DOMAIN w.reach[p]) \X TransitionKey \X Value}
             ofReaches == {ofReach(p) : p \in Phases(w)}
  <2>1. Rekeyed(w) = ofPhases \cup (UNION ofReaches)
    BY DEF Rekeyed
  <2>2. x \in ofPhases => WellFormed(x)
    BY <1>2
  <2>3. ASSUME NEW p \in Phases(w), x \in ofReach(p)
        PROVE  WellFormed(x)
    <3>1. PICK e \in (DOMAIN w.reach[p]) \X TransitionKey \X Value :
              x = [w EXCEPT !.reach[p][e[1]][e[2]] = e[3]]
      BY <2>3
    <3>2. e[1] \in DOMAIN w.reach[p] /\ e[2] \in TransitionKey /\ e[3] \in Value
      BY <3>1
    <3>3. QED
      BY <1>3, <3>1, <3>2
  <2> HIDE DEF ofPhases, ofReach
  <2>4. QED
    BY <2>1, <2>2, <2>3

LEMMA RewrittenIsWellFormed ==
    ASSUME NEW w, WellFormed(w), NEW x \in Rewritten(w) \cup Reworded(w)
    PROVE  WellFormed(x)
<1>1. w \in Shape
  BY DEF WellFormed
<1>2. CASE x \in Rewritten(w)
  <2>1. PICK h \in Handler, c \in Value, o \in Value :
            x = [w EXCEPT !.handlers[h] = [code |-> c, doc |-> IF c = Absent THEN Absent ELSE o]]
    BY <1>2 DEF Rewritten
  <2> DEFINE handler == [code |-> c, doc |-> IF c = Absent THEN Absent ELSE o]
  <2>2. handler \in [code : Value, doc : Value] /\ (handler.code = Absent => handler.doc = Absent)
    BY VersionAssumption
  <2>3. /\ x.order = w.order /\ x.keys = w.keys /\ x.reach = w.reach /\ x.texts = w.texts
        /\ x.handlers = [w.handlers EXCEPT ![h] = handler]
        /\ x = [order |-> x.order, keys |-> x.keys, reach |-> x.reach,
                handlers |-> x.handlers, texts |-> x.texts]
    BY <1>1, <2>1 DEF Shape
  <2> HIDE DEF handler
  <2>4. x \in Shape
    BY <1>1, <2>2, <2>3 DEF Shape
  <2>5. Phases(x) = Phases(w)
    BY <2>3 DEF Phases
  <2>6. \A g \in Handler : x.handlers[g] = IF g = h THEN handler ELSE w.handlers[g]
    BY <1>1, <2>3 DEF Shape
  <2>7. QED
    BY <2>2, <2>3, <2>4, <2>5, <2>6 DEF WellFormed
<1>3. CASE x \in Reworded(w)
  <2>1. PICK t \in Text, v \in Value : x = [w EXCEPT !.texts[t] = v]
    BY <1>3 DEF Reworded
  <2>2. x \in Shape /\ x.order = w.order /\ x.keys = w.keys /\ x.reach = w.reach /\ x.handlers = w.handlers
    BY <1>1, <2>1 DEF Shape
  <2>3. QED
    BY <2>2 DEF WellFormed, Phases
<1>4. QED
  BY <1>2, <1>3

LEMMA WellFormedInit == Init => AllWellFormed
BY PlainIsWellFormed DEF Init, AllWellFormed

LEMMA WellFormedStep ==
    ASSUME AllWellFormed, [Next]_vars
    PROVE  AllWellFormed'
<1>1. WellFormed(workflow)
  BY DEF AllWellFormed
<1>2. CASE Edit
  <2>1. \A x \in Reordered(workflow) \cup Rerouted(workflow) \cup Rekeyed(workflow)
                   \cup Rewritten(workflow) \cup Reworded(workflow) : WellFormed(x)
    BY <1>1, ReorderedIsWellFormed, ReroutedIsWellFormed, RekeyedIsWellFormed,
       RewrittenIsWellFormed
  <2>2. WellFormed(workflow') /\ UNCHANGED recorded
    BY <1>2, <2>1 DEF Edit
  <2>3. QED
    BY <2>2 DEF AllWellFormed, WellFormed, Phases
<1>3. CASE WriteSnapshot
  <2>1. recorded'.snapshot = workflow /\ workflow' = workflow
    BY <1>3 DEF WriteSnapshot
  <2>2. QED
    BY <1>1, <2>1 DEF AllWellFormed, WellFormed, Phases
<1>4. CASE UNCHANGED <<workflow, recorded>>
  BY <1>4 DEF AllWellFormed, WellFormed, Phases
<1>5. QED
  BY <1>2, <1>3, <1>4
     DEF Next, Declare, RecordFirst, RecordNext, WriteChangelog, Interrupted, vars

\* Two snapshots without a difference are of the same workflow.
LEMMA NoDifference ==
    ASSUME NEW a, NEW b, WellFormed(a), WellFormed(b), Diff(a, b) = {}
    PROVE  SameWorkflow(a, b)
<1>1. a \in Shape /\ b \in Shape /\ Phases(a) \subseteq PhaseName
  BY DEF WellFormed, Shape, Phases
<1> DEFINE ofPhase(p) == ReachChanges(a.reach[p], b.reach[p], p) \cup KeyChanges(a.keys[p], b.keys[p], <<p>>)
           ofPhases == {ofPhase(p) : p \in Phases(b) \cap Phases(a)}
           ofHandlers == {HandlerChange(a.handlers[h], b.handlers[h], h) : h \in Handler}
           ofTexts == {Change("patch", <<t>>) : t \in {t \in Text : a.texts[t] # b.texts[t]}}
<1>2. Diff(a, b) = PhaseChanges(a, b) \cup (UNION ofPhases) \cup (UNION ofHandlers) \cup ofTexts
  BY DEF Diff
<1>3. /\ PhaseChanges(a, b) = {}
      /\ ofTexts = {}
      /\ \A s \in ofPhases \cup ofHandlers : s = {}
  <2> HIDE DEF ofPhases, ofHandlers, ofTexts
  <2>1. QED
    BY <1>2
<1>4. Phases(a) = Phases(b) /\ a.order[1] = b.order[1]
  <2>1. /\ {Change("major", <<p, "added">>) : p \in Phases(b) \ Phases(a)} = {}
        /\ {Change("major", <<p, "removed">>) : p \in Phases(a) \ Phases(b)} = {}
        /\ {Change("major", <<p, "start">>) : p \in {b.order[1]} \ {a.order[1]}} = {}
    BY <1>3 DEF PhaseChanges
  <2>2. Phases(b) \ Phases(a) = {} /\ Phases(a) \ Phases(b) = {} /\ {b.order[1]} \ {a.order[1]} = {}
    BY <2>1
  <2>3. QED
    BY <2>2
<1>5. \A old, new, where : KeyChanges(old, new, where) = {} => \A k \in DOMAIN old : old[k] = new[k]
  BY DEF KeyChanges
<1>6. a.keys = b.keys
  <2>1. ASSUME NEW p \in PhaseName PROVE a.keys[p] = b.keys[p]
    <3>1. CASE p \in Phases(a)
      <4>1. KeyChanges(a.keys[p], b.keys[p], <<p>>) = {}
        BY <1>3, <1>4, <3>1
      <4>2. a.keys[p] \in [PhaseKey -> Value] /\ b.keys[p] \in [PhaseKey -> Value]
        BY <1>1 DEF Shape
      <4>3. \A k \in PhaseKey : a.keys[p][k] = b.keys[p][k]
        BY <1>5, <4>1, <4>2
      <4>4. QED
        BY <4>2, <4>3
    <3>2. CASE p \notin Phases(a)
      BY <1>4, <3>2 DEF WellFormed
    <3>3. QED
      BY <3>1, <3>2
  <2>2. QED
    BY <1>1, <2>1 DEF Shape
<1>7. a.reach = b.reach
  <2>1. ASSUME NEW p \in PhaseName PROVE a.reach[p] = b.reach[p]
    <3>1. PICK D \in SUBSET PhaseName : a.reach[p] \in [D -> Conditions]
      BY <1>1, RoutesOfFunctions DEF Shape
    <3>2. PICK E \in SUBSET PhaseName : b.reach[p] \in [E -> Conditions]
      BY <1>1, RoutesOfFunctions DEF Shape
    <3>3. CASE p \in Phases(a)
      <4>1. ReachChanges(a.reach[p], b.reach[p], p) = {}
        BY <1>3, <1>4, <3>3
      <4> DEFINE kept == {KeyChanges(a.reach[p][d], b.reach[p][d], <<p, d>>) : d \in E \cap D}
      <4> HIDE DEF kept
      <4>2. /\ {Change("major", <<p, d, "added">>) : d \in E \ D} = {}
            /\ {Change("major", <<p, d, "removed">>) : d \in D \ E} = {}
            /\ UNION kept = {}
        BY <3>1, <3>2, <4>1 DEF ReachChanges, kept
      <4>3. D = E
        <5>1. \A d : d \notin E \ D
          <6>1. {Change("major", <<p, d, "added">>) : d \in E \ D} = {}
            BY <4>2
          <6>2. QED
            BY <6>1
        <5>2. \A d : d \notin D \ E
          <6>1. {Change("major", <<p, d, "removed">>) : d \in D \ E} = {}
            BY <4>2
          <6>2. QED
            BY <6>1
        <5>3. QED
          BY <5>1, <5>2
      <4>4. \A s \in kept : s = {}
        BY <4>2
      <4>5. ASSUME NEW d \in D PROVE a.reach[p][d] = b.reach[p][d]
        <5>1. KeyChanges(a.reach[p][d], b.reach[p][d], <<p, d>>) = {}
          BY <4>3, <4>4 DEF kept
        <5>2. a.reach[p][d] \in Conditions /\ b.reach[p][d] \in Conditions
          BY <3>1, <3>2, <4>3
        <5>3. \A k \in TransitionKey : a.reach[p][d][k] = b.reach[p][d][k]
          BY <1>5, <5>1, <5>2 DEF Conditions
        <5>4. QED
          BY <5>2, <5>3 DEF Conditions
      <4>6. QED
        BY <3>1, <3>2, <4>3, <4>5
    <3>4. CASE p \notin Phases(a)
      <4>1. D = {} /\ E = {}
        BY <1>4, <3>1, <3>2, <3>4 DEF WellFormed
      <4>2. QED
        BY <3>1, <3>2, <4>1
    <3>5. QED
      BY <3>3, <3>4
  <2>2. QED
    BY <1>1, <2>1 DEF Shape
<1>8. a.handlers = b.handlers
  <2>1. ASSUME NEW h \in Handler PROVE a.handlers[h] = b.handlers[h]
    <3> DEFINE o == a.handlers[h]
               n == b.handlers[h]
    <3>1. o \in [code : Value, doc : Value] /\ n \in [code : Value, doc : Value]
      BY <1>1 DEF Shape
    <3>2. (o.code = Absent => o.doc = Absent) /\ (n.code = Absent => n.doc = Absent)
      BY DEF WellFormed
    <3>3. HandlerChange(o, n, h) = {}
      BY <1>3
    <3> HIDE DEF o, n
    <3>4. o.code = n.code /\ (o.code # Absent => o.doc = n.doc)
      BY <3>3 DEF HandlerChange
    <3>5. o = n
      BY <3>1, <3>2, <3>4
    <3>6. QED
      BY <3>5 DEF o, n
  <2>2. QED
    BY <1>1, <2>1 DEF Shape
<1>9. a.texts = b.texts
  <2>1. \A t \in Text : a.texts[t] = b.texts[t]
    BY <1>3
  <2>2. QED
    BY <1>1, <2>1 DEF Shape
<1>10. [a EXCEPT !.order = <<>>] = [b EXCEPT !.order = <<>>]
  BY <1>1, <1>6, <1>7, <1>8, <1>9 DEF Shape
<1>11. QED
  BY <1>4, <1>10 DEF SameWorkflow

\* When --check passes, the workflow in the code is the one that was released,
\* under the version it declares, and the changelog has an entry for it
\* (check_version, wf_version.py 305-329, with diff_snapshots).
THEOREM ChecksVouch == Spec => []CheckedIsReleased
<1>1. VInv /\ AllWellFormed => CheckedIsReleased
  <2> SUFFICES ASSUME VInv, AllWellFormed, CheckPasses
               PROVE  /\ SameWorkflow(recorded.snapshot, workflow)
                      /\ Logged(declared)
    BY DEF CheckedIsReleased, Logged
  <2>1. SameWorkflow(recorded.snapshot, workflow)
    BY NoDifference DEF AllWellFormed, CheckPasses
  <2>2. QED
    BY <2>1 DEF VInv, CheckPasses
<1>2. QED
  BY <1>1, VInvInit, VInvStep, WellFormedInit, WellFormedStep, PTL DEF Spec
=============================================================================
