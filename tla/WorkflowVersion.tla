-------------------------- MODULE WorkflowVersion ---------------------------
(***************************************************************************)
(* The released versions of a model's workflow: developers change the      *)
(* workflow and the version it declares, and propose_wf_version compares   *)
(* it with the recorded snapshot, chooses a version and writes two files,  *)
(* the changelog and then the snapshot (workflango/wf_version.py and       *)
(* management/commands/propose_wf_version.py).  The command may die        *)
(* between the two.  Wording, dates and the files' layout are left out; so *)
(* are files torn by a crash in the middle of one write.                   *)
(***************************************************************************)
EXTENDS Integers, Sequences, FiniteSets

CONSTANTS
    PhaseName,      \* the phases a workflow may have
    Handler,        \* the names of its validators and other handlers
    Text,           \* its .md files
    PhaseKey,       \* the keys of a phase, reachable_phases apart
    TransitionKey,  \* the keys of a transition
    PatchKeys,      \* PATCH_PHASE_KEYS and PATCH_TRANSITION_KEYS
    Value,          \* what keys, codes and texts may be
    Absent,         \* a value: no such key, handler or file
    Versions,       \* the versions developers type
    MaxNumber,      \* bound of the numbers of a version
    MaxEdits,       \* bound of the edits
    MaxEntries      \* bound of the changelog's entries

ASSUME VersionAssumption ==
    /\ IsFiniteSet(PhaseName)
    /\ Absent \in Value
    /\ Versions \subseteq Nat \X Nat \X Nat
    /\ MaxNumber \in Nat
    /\ MaxEdits \in Nat
    /\ MaxEntries \in Nat

VARIABLES
    workflow,   \* the snapshot() of the workflow as it is in the code
    declared,   \* configure_workflow(version=...), NoVersion: None
    recorded,   \* wf_version.json: a version and its snapshot; <<>>: no file
    changelog,  \* CHANGELOG.md: the entries, newest first
    writing,    \* the version whose changelog is written and snapshot is not
    edits       \* how often the workflow was edited

vars == <<workflow, declared, recorded, changelog, writing, edits>>

NoVersion == <<>>

-----------------------------------------------------------------------------
(* Differences                                                             *)

Phases(w) == {w.order[i] : i \in DOMAIN w.order}

Change(level, what) == [level |-> level, what |-> what]

KeyChanges(old, new, where) ==
    {Change(IF k \in PatchKeys THEN "patch" ELSE "minor", Append(where, k)) :
        k \in {k \in DOMAIN old : old[k] # new[k]}}

PhaseChanges(old, new) ==
    {Change("major", <<p, "added">>) : p \in Phases(new) \ Phases(old)}
        \cup {Change("major", <<p, "removed">>) : p \in Phases(old) \ Phases(new)}
        \cup {Change("major", <<p, "start">>) : p \in {new.order[1]} \ {old.order[1]}}

\* Of a phase that is in both.
ReachChanges(o, n, p) ==
    {Change("major", <<p, d, "added">>) : d \in DOMAIN n \ DOMAIN o}
        \cup {Change("major", <<p, d, "removed">>) : d \in DOMAIN o \ DOMAIN n}
        \cup (UNION {KeyChanges(o[d], n[d], <<p, d>>) : d \in DOMAIN n \cap DOMAIN o})

HandlerChange(o, n, h) ==
    CASE o.code # n.code -> {Change("minor", <<h, "code">>)}
      [] o.code = n.code /\ o.code # Absent /\ o.doc # n.doc -> {Change("patch", <<h, "doc">>)}
      [] OTHER -> {}

\* Mutant: the conditions of the phases that stay are not compared.
DiffOfTransitions(old, new) ==
    PhaseChanges(old, new)
        \cup (UNION {ReachChanges(old.reach[p], new.reach[p], p) : p \in Phases(new) \cap Phases(old)})
        \cup (UNION {HandlerChange(old.handlers[h], new.handlers[h], h) : h \in Handler})
        \cup {Change("patch", <<t>>) : t \in {t \in Text : old.texts[t] # new.texts[t]}}

Diff(old, new) ==
    PhaseChanges(old, new)
        \cup (UNION {ReachChanges(old.reach[p], new.reach[p], p)
                       \cup KeyChanges(old.keys[p], new.keys[p], <<p>>) :
                         p \in Phases(new) \cap Phases(old)})
        \cup (UNION {HandlerChange(old.handlers[h], new.handlers[h], h) : h \in Handler})
        \cup {Change("patch", <<t>>) : t \in {t \in Text : old.texts[t] # new.texts[t]}}

-----------------------------------------------------------------------------
(* Versions                                                                *)

\* The highest level among the changes, if there are any.
RequiredLevel(changes) ==
    CHOOSE l \in {"major", "minor", "patch"} :
        /\ \E c \in changes : c.level = l
        /\ l = "minor" => ~\E c \in changes : c.level = "major"
        /\ l = "patch" => ~\E c \in changes : c.level \in {"major", "minor"}

Bump(v, level) ==
    CASE level = "major" -> <<v[1] + 1, 0, 0>>
      [] level = "minor" -> <<v[1], v[2] + 1, 0>>
      [] level = "patch" -> <<v[1], v[2], v[3] + 1>>

\* Python's >= on tuples.
NotBelow(v, w) ==
    \/ v[1] > w[1]
    \/ v[1] = w[1] /\ v[2] > w[2]
    \/ v[1] = w[1] /\ v[2] = w[2] /\ v[3] >= w[3]

\* Mutant: number by number.
IsEnoughByNumber(v, old, level) == \E i \in 1..3 : v[i] >= Bump(old, level)[i] /\ v[i] > old[i]

IsEnough(v, old, level) == NotBelow(v, Bump(old, level))

\* check_version(): --check fails on any warning, and without a version.
CheckPasses ==
    /\ declared # NoVersion
    /\ recorded # <<>>
    /\ Diff(recorded.snapshot, workflow) = {}
    /\ declared = recorded.version

-----------------------------------------------------------------------------
(* Developers                                                              *)

\* A workflow to begin with: its phases follow one another.
Plain(order) ==
    [order |-> order,
     keys |-> [p \in PhaseName |-> [k \in PhaseKey |-> Absent]],
     reach |-> [p \in PhaseName |->
                  [d \in {order[i] : i \in {i \in 2..Len(order) : order[i - 1] = p}} |->
                     [k \in TransitionKey |-> Absent]]],
     handlers |-> [h \in Handler |-> [code |-> Absent, doc |-> Absent]],
     texts |-> [t \in Text |-> Absent]]

Orders ==
    {order \in UNION {[1..n -> PhaseName] : n \in 1..Cardinality(PhaseName)} :
        \A i, j \in DOMAIN order : i # j => order[i] # order[j]}

Init ==
    /\ workflow \in {Plain(order) : order \in Orders}
    /\ declared = NoVersion
    /\ recorded = <<>>
    /\ changelog = <<>>
    /\ writing = NoVersion
    /\ edits = 0

\* The workflows one edit away: a phase or a destination more or less, another
\* start phase, a key, a handler's code or docstring, a text.
Added(w, p) == [w EXCEPT !.order = Append(@, p)]

Removed(w, i) ==
    LET p == w.order[i]
    IN  [w EXCEPT !.order = SubSeq(@, 1, i - 1) \o SubSeq(@, i + 1, Len(@)),
                  !.reach = [q \in PhaseName |-> [d \in IF q = p THEN {} ELSE DOMAIN @[q] \ {p} |-> @[q][d]]],
                  !.keys[p] = [k \in PhaseKey |-> Absent]]

Reordered(w) ==
    {Added(w, p) : p \in PhaseName \ Phases(w)}
        \cup {Removed(w, i) : i \in {i \in DOMAIN w.order : Len(w.order) > 1}}
        \cup {[w EXCEPT !.order = Append(Tail(@), Head(@))]}

Reaching(reach, d) ==
    IF d \in DOMAIN reach THEN [q \in DOMAIN reach \ {d} |-> reach[q]]
    ELSE [q \in DOMAIN reach \cup {d} |-> IF q = d THEN [k \in TransitionKey |-> Absent] ELSE reach[q]]

Rerouted(w) == {[w EXCEPT !.reach[e[1]] = Reaching(@, e[2])] : e \in Phases(w) \X Phases(w)}

Rekeyed(w) ==
    {[w EXCEPT !.keys[e[1]][e[2]] = e[3]] : e \in Phases(w) \X PhaseKey \X Value}
        \cup (UNION {{[w EXCEPT !.reach[p][e[1]][e[2]] = e[3]] :
                        e \in (DOMAIN w.reach[p]) \X TransitionKey \X Value} : p \in Phases(w)})

Rewritten(w) ==
    {[w EXCEPT !.handlers[e[1]] = [code |-> e[2], doc |-> IF e[2] = Absent THEN Absent ELSE e[3]]] :
        e \in Handler \X Value \X Value}

Reworded(w) == {[w EXCEPT !.texts[e[1]] = e[2]] : e \in Text \X Value}

\* A running command has loaded the code, but reads the texts when it writes.
Edit ==
    /\ edits < MaxEdits
    /\ edits' = edits + 1
    /\ workflow' \in Reworded(workflow)
                       \cup (IF writing # NoVersion THEN {}
                             ELSE Reordered(workflow) \cup Rerouted(workflow)
                                    \cup Rekeyed(workflow) \cup Rewritten(workflow))
    /\ UNCHANGED <<declared, recorded, changelog, writing>>

Declare(v) ==
    /\ writing = NoVersion
    /\ declared' = v
    /\ UNCHANGED <<workflow, recorded, changelog, writing, edits>>

-----------------------------------------------------------------------------
(* propose_wf_version --write [--new-version ...]                          *)

CanLog == writing = NoVersion /\ Len(changelog) < MaxEntries

\* Mutant: the snapshot is written before the changelog.
WriteChangelogLast(v, changes) ==
    /\ writing' = v
    /\ recorded' = [version |-> v, snapshot |-> workflow]
    /\ UNCHANGED <<workflow, declared, changelog, edits>>

\* The entry of the new version is put before the others.
WriteChangelog(v, changes) ==
    /\ writing' = v
    /\ changelog' = <<[version |-> v, changes |-> changes]>> \o changelog
    /\ UNCHANGED <<workflow, declared, recorded, edits>>

\* The first version that is given: --new-version, the declared one, or else.
Chosen(new, own, proposed) ==
    IF new # NoVersion THEN new ELSE IF own # NoVersion THEN own ELSE proposed

RecordFirst(new) ==
    /\ CanLog
    /\ recorded = <<>>
    /\ WriteChangelog(Chosen(new, declared, <<1, 0, 0>>), {})

RecordNext(new) ==
    /\ CanLog
    /\ recorded # <<>>
    /\ LET changes == Diff(recorded.snapshot, workflow)
           level == RequiredLevel(changes)
           own == IF declared = recorded.version THEN NoVersion ELSE declared
           v == Chosen(new, own, Bump(recorded.version, level))
       IN  /\ changes # {}
           /\ IsEnough(v, recorded.version, level)
           /\ \A i \in 1..3 : v[i] <= MaxNumber
           /\ WriteChangelog(v, changes)

\* snapshot() is taken once more.
WriteSnapshot ==
    /\ writing # NoVersion
    /\ recorded' = [version |-> writing, snapshot |-> workflow]
    /\ writing' = NoVersion
    /\ UNCHANGED <<workflow, declared, changelog, edits>>

Interrupted ==
    /\ writing # NoVersion
    /\ writing' = NoVersion
    /\ UNCHANGED <<workflow, declared, recorded, changelog, edits>>

Next ==
    \/ Edit
    \/ \E v \in Versions \cup {NoVersion} : Declare(v) \/ RecordFirst(v) \/ RecordNext(v)
    \/ WriteSnapshot
    \/ Interrupted

Spec == Init /\ [][Next]_vars

-----------------------------------------------------------------------------
(* Properties                                                              *)

\* A version that replaces another is later, and shows in its numbers how much
\* has changed: the first number rises with a major change, one of the first
\* two with a minor one, whatever was typed, edited or interrupted since
\* (docs/wf-configuration.md on versions; is_enough, wf_version.py 265-267).
VersionsRise ==
    [][recorded # <<>> /\ recorded' # recorded =>
         LET old == recorded.version
             new == recorded'.version
             rises(n) == \E i \in 1..n : new[i] > old[i] /\ \A j \in 1..(i - 1) : new[j] = old[j]
         IN  /\ rises(3)
             /\ \A c \in Diff(recorded.snapshot, recorded'.snapshot) :
                  /\ c.level = "major" => rises(1)
                  /\ c.level = "minor" => rises(2)]_vars

\* The same workflow, but for the order of the phases after the first.
SameWorkflow(a, b) ==
    /\ Phases(a) = Phases(b)
    /\ a.order[1] = b.order[1]
    /\ [a EXCEPT !.order = <<>>] = [b EXCEPT !.order = <<>>]

\* When --check passes, what is deployed is what was released: the workflow is
\* the recorded one to the last key, under the version it declares, and the
\* changelog has an entry for it, even after interrupted runs (check_version,
\* wf_version.py 305-329).
CheckedIsReleased ==
    CheckPasses =>
        /\ SameWorkflow(recorded.snapshot, workflow)
        /\ \E i \in DOMAIN changelog : changelog[i].version = declared

\* The recorded version is always in the changelog: an interrupted run leaves at
\* most an entry too many (propose_wf_version.py 87-91).
RecordedIsLogged ==
    recorded # <<>> => \E i \in DOMAIN changelog : changelog[i].version = recorded.version
=============================================================================
