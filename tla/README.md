# A verification development for workflango

workflango is a Django library that attaches a workflow to a model: records move
through phases, have an owner, and keep the history of their transitions. These
modules model the engine that decides about transitions, the pages through which
users make them, the rows it stores and the requests that use them concurrently,
the released versions of a workflow, and the search of the API documentation. TLC
checks them on small instances, and TLAPS proves the main results for every
instance. Line numbers refer to `workflango/` unless another directory is named.

## Inventory

| Component | State it keeps | Operations | How it meets the others |
|---|---|---|---|
| Configuration (`wf_config.py`) | one `WorkflowConfig` per model, fixed at start | build, add reject transitions, `check()` | read by everything |
| Engine (`models.py`, `InstanceWorkflowManager`) | the `State` rows of a record | `transition` and its wrappers `release`, `reject`, `reject_to_phase`, `take_ownership`, `assign`; `delete_with_states` | called by views, REST, scripts; calls hooks and receivers of `transition_done`, which may call it again |
| Stored history (`State`, `WorkflowModel`) | doubly linked rows, the pointer `wfm_state`, the row lock | `lock_instance`, `reload_current_state`, `materialize_current_state` | written by the engine under the lock, by pages and commands without it |
| Offered transitions (`wf_transition.py`) | none | `WFTransitionDescriptor`, `get_workflow_transitions`, `get_potential_owners` | tells users what to press; states the engine's rules a second time |
| Change-state view (`views.py`, `views_mixins.py`, `forms.py`) | a form between GET and POST | one command or phase change | turns a button into a call of `transition` |
| Sebastian pack (`contrib/sebastian.py`) | a form between GET and POST | its own change-state dialog, read marks | as the change-state view |
| REST actions (`drf.py`) | none | `change_state`, `mark_read`, history | as above, with arguments of the client, and impersonation |
| Detail and edit pages (`views_mixins.py`) | none | mark read, save the form | write rows that transitions write too |
| Repair command (`check_wf_objects`) | none | fix stale pointers, track untracked records | writes the pointer |
| Users and groups (`user_groups.py`) | membership | add, remove, list by group | read by the engine at each call |
| Versions (`wf_version.py`, `propose_wf_version`) | two files | snapshot, diff, bump, check, record | none at run time |
| API documentation search (`docs/api/search.js`) | an index in the browser | load or build, search | none |
| Documentation, filters, tags, translations, admin | none | presentation and queries | none |

What is hard in it: rules that overlap (suspension, impersonation, admins,
delegation, release) and hold only over a sequence of calls; two places that
state who may do what; forms that are posted when the record has moved on, or
twice; requests that interleave, some of them without a lock and with whole-row
saves; transitions nested in transitions; the record object in memory, which
survives rollbacks; two files that are written one after the other.
`PROJECT.json` lists each such hazard at its line with the properties that watch
it.

## Modules

| Module | Models | Builds on |
|---|---|---|
| `WorkflowConfig` | the configuration as the engine consults it, with the added rejects | |
| `TransitionRules` | predicates of `State`, `transition_allowed`, `get_transition_type` | `WorkflowConfig` |
| `TransitionDescriptor` | what the pages make of the rules: buttons, destinations, owners, messages | `TransitionRules` |
| `WorkflowEngine` | the life of one record: every entry point of code and REST, and accounts, groups and data around it | `TransitionDescriptor` |
| `EngineProperties` | what the engine promises | `WorkflowEngine` |
| `ChangeStateDialog` | the forms of both GUI packs between GET and POST | `WorkflowEngine` |
| `DialogProperties` | what the dialog promises | both of the above |
| `RecordHistory` | abstract: a history that grows at its end, one request at a time | |
| `StateChain` | rows, pointer, lock, savepoints, and the statements of each request | |
| `ChainProperties` | what the stored history promises, and the refinement | `StateChain`, `RecordHistory` |
| `WorkflowVersion` | the workflow, its recorded snapshot and changelog, and `propose_wf_version` | |
| `ApiSearch` | the index and the search of the API documentation | |
| `EngineProofs`, `DialogProofs` | theorems | the properties of the same name |
| `ChainProofs` | theorems that hold whatever the pages do | `ChainProperties` |
| `LinkProofs` | theorems that one page or another would break | `ChainProofs` |
| `HistoryProofs` | the proof of the refinement | `LinkProofs` |
| `VersionProofs`, `SearchProofs` | theorems | `WorkflowVersion`, `ApiSearch` |
| `MCWorkflowEngine`, `MCChangeStateDialog`, `MCStateChain`, `MCWorkflowVersion`, `MCApiSearch` | the instances that TLC uses | |

`WorkflowEngine` and `StateChain` cut the system in two. The engine takes a call
of `transition()` as one step and looks at *which* calls are allowed; the chain
takes any call as allowed or refused and looks at the *statements* of it. The
cut is justified by the chain: it implements `RecordHistory`, where a call is
one step made from the last state by somebody who had seen it.

### The engine and the code

`states` is the sequence of the record's rows, with what the rules read of each:
phase, owner, acting user, impersonator, suspension, kind. `Ask` holds the
arguments of a call. `Passes` is everything `_transition` checks before it
writes: how `full_clean()` ends (`clean`), with the waiver for admins, then
`transition_allowed`, split at its comments into `BothActive`, `IsChange`,
`SuspensionAllowed`, `RoleAllows`, `DelegationAllowed`, `PhaseAllowed` and
`NewOwnerAllowed`. `clean` is one of four outcomes: it returns, or it raises
`ValidationError`, `FileNotFoundError` or any other `Exception`. The engine waives
the two named classes for an admin who makes himself the owner, and raises the
others for him too. `Perform` appends the row. A custom validator or a hook may
refuse any call, which is no step.

Impersonation: `Contexts(u)` is nobody, or an active impersonator other than
`u`, as `resolve_acting_user` yields them. Accounts are deleted as their foreign
keys allow: owners and actors are protected, impersonators are set to null.

### The descriptor and the code

A button is a command, `reject`, or a phase. `Destination`, `DescribedOwner` and
`DescribedAsk` are the constructor of `WFTransitionDescriptor`, with
`guess_owner` for `owner_mode`; `ShowsOwner`, `PotentialOwners` and
`NeedsMessage` are its properties. `Offers` gives the buttons of each pack: the
Django button bar, whose commands are written out in the template, and
`get_workflow_transitions` for Sebastian. `OthersThan` is
`_remove_users_from_owners` with its slip: it removes from the list it iterates
over, so whoever is listed right after a removed user stays. The list of an
ordinary user is also cleared of the one global admin; that admin is not
modelled, so the model offers an owner more.

### The dialog and the code

`form` holds the form that each user has open. A form remembers what the page
does: the button, the pack, whether it had a field for the owner and what was
picked, whether a message was written, which may be done where none is required.
`Open` is the GET, with the checks that
each pack makes before it shows anything (`Shows`; the Django page waives a
`ValidationError` for an admin, but not the `FileNotFoundError` that the engine
waives as well); `Submit` is the POST, in
which everything else is computed anew from the current state, as a new view
object does. A posted form stays open and may be posted again, which is what a
double click or the browser's *back* does. `Press` is the two at once, for the
users who are not in `Slow`. The actions of `WorkflowEngine` around the record
may happen while a form is open (`Elsewhere`).

`PostedOwner` differs by pack: Django's `form_valid` replaces the described owner
by none when no owner was filled in, Sebastian keeps it. `ForcedKind` is Django's
`force_transition_type`. A picked owner need not be one of those listed by the
time of the POST: neither pack compares, and the engine checks.

### The chain and the code

`rows`, `pointer` and `seq` are the committed tables and the key sequence; `work`
what the transaction of each request has written, `saved` its savepoints; `mem`
and `copy` the record and state objects of each request. `Call` opens the
transaction, `Lock` is `SELECT FOR UPDATE` (or `LockRefused` under NOWAIT),
`Check` the comparison of `reload_current_state()` with the object in memory,
`Write` the three saves, `Nest` a transition from the hook with its savepoint,
`Return` its end, then `Commit` or a rollback. A nested call that fails either
takes the whole transaction along (`Rollback`) or is caught by the hook
(`Caught`), which restores the savepoint but not the `wfm_state` of the record
object. The three saves are one step, since no other transaction sees them before
the commit and each row they touch is covered by the record's lock or is new; the
old state's row is the exception, and `SaveState` and `MarkRead` wait for it.
`asked` is a history variable: what the caller had loaded when it called.

Databases are at READ COMMITTED, the default of Django with PostgreSQL and MySQL.
On SQLite, where the lock is a no-op, the library's documentation restricts
it to one process, and nothing here applies beyond that.

### Versions and the code

`workflow` is what `snapshot()` would return for the code as it is, `recorded`
the file `wf_version.json`, `changelog` the entries of `CHANGELOG.md`. `Diff`
has a change for each difference, with its level. `RecordFirst` and `RecordNext`
are `propose_wf_version --write`, with or without `--new-version`, up to the
changelog; `WriteSnapshot` is the second file, `Interrupted` the end of a command
that dies in between. The snapshot is taken again when it is written: the running
command has the code loaded, but not the texts, which `Edit` may change
meanwhile. The order of phases after the first is in the snapshot and not in the
diff, as in the code.

### The search and the code

Words are opaque; stemming and prefixes are the constants `Stem` and `Begins`.
`Load` and `AddDoc` are the two ways `search.js` gets its index, `Plain` the
pipeline left by its two `pipeline.remove` calls, `Search` the function it
returns. The library itself (lines 2) is external, and modelled from how the
script uses it. A symbol has words in each field; which texts are possible is the
constant `Texts`.

## Runs

| Run | Question | Instance | Distinct states |
|---|---|---|---|
| `engine_python` | may anybody, with any arguments, break the rules of ownership, or lock users out; does the page offer what the engine refuses? | desk, 3 users, 3 states | 113 thousand |
| `dialog_fresh` | are the guarantees to users who follow the pages kept? | desk, 3 users, 6 states | 194 thousand |
| `dialog_stale` | and if a form of either pack stays open, or is posted twice? | office, an editor and two admins, 3 states, one slow user | 181 thousand |
| `chain_transitions` | are concurrent transitions atomic, and do they end? | 2 requests, 4 keys, waiting locks, fair | 63 thousand |
| `chain_pages` | what survives the pages that take no lock? | 2 requests, 4 keys, NOWAIT, all jobs | 1.1 million |
| `versions` | does `--check` vouch for what was released, and do versions rise as the workflow changes? | 2 phases, 2 edits, 3 changelog entries | 2.8 million |
| `api_search` | does the search find what begins with the term, and nothing else? | 2 symbols, 4 words; words in two fields, up to two each, or in any other one | 269 thousand |

The desk has two phases that differ in release and delegation, an editor of both,
an editor of the first only, and an admin who may act as anybody; in
`engine_python` one account may be deactivated or change groups, and one may be
deleted. Three states are a creation and two moves: every rule reads the current
state and the one before, and the properties about histories relate two
neighbours, so a third move meets nothing new; `dialog_fresh`, with six states,
does have resubmissions after rejects, suspensions after claims and returns to
earlier phases. The office has a phase without admins, a phase with a gate
(`allowed_groups`), each `owner_mode` but `user`, and two rejects out of the last
phase. In `dialog_stale` the slow user's form is open over any two moves, one of
which may be its own.

Two requests suffice for the chain's races: each is between one transition and
one other request, and a request starts again as often as the keys allow. Four
keys are two committed transitions by each, or a nested one on top of another,
caught or not. The word list of `api_search` has the empty word, a stop word, and
a word with its plural, which is all that the pipeline tells apart. The versions
that developers type skip numbers, fall back and stand still.

`MaxStates`, `MaxPk`, `MaxEdits`, `MaxEntries` and `MaxNumber` are the only
bounds, besides the texts of `api_search` (`MCTexts`). Deadlock is not checked in `versions`, where the bounds are reached and
nothing more can be edited or logged, and in `api_search`, where a page that has
its index stays as it is.

Five more runs end in a counterexample, where the code and what is written about
it disagree:

| Run | What it shows |
|---|---|
| `suspension_hands_over` | suspending may hand the record to anybody, editor or not |
| `reclaim_needs_groups` | an owner who has left the groups of the phase cannot take his record back from an impersonator who holds it in his name, though the engine calls that "always allowed, without needing group membership" |
| `sebastian_releases` | rejecting a delegated record within its phase, in Sebastian, releases it, where `'strict'` says it has to be taken first |
| `detail_saves_state` | a detail page that the owner opens during a transition rewrites the old state without its successor: from then on the record has two current states, and every transition fails |
| `form_saves_pointer` | an edit form saved after somebody's transition puts `wfm_state` back |

`chain_pages` is the other side of the last two: even with every unlocked write
the keys of the states keep their order, the backward links stay a chain through
all states, and the repair command only moves a pointer forward. `ChainProofs`
proves this for any number of requests, and `LinkProofs` that the two pages of
the findings are the only ones that do such harm.

One more disagreement is visible in the model without a run: with `owner_mode`
`last_owner` or `user` the Django page shows a recipient, and a POST without a
field for the owner leaves the record with none (`PostedOwner`; `views.py` 169
against `src/docs/wf-configuration.md` 140).

What the properties leave out, because the code does otherwise:

* `RepostRefused`: a reject may be posted twice with effect (the way back leads
  forward once it is done), and so may Sebastian's phase forms (the second names
  the phase that the record is in, where the described owner is nobody) and the
  hand-over of an admin in somebody else's name.
* `RejectIsAllowed`: where `allow_delegate` is `'no'`, the engine refuses the
  reject within the phase that the page offers.
* `OfferedIsAllowed`: the present owner, whom the slip may leave in the list. If
  an impersonator holds the record in his name, picking him is accepted, and the
  row is of kind `undefined`.
* `AdminCanRecover`: where `full_clean()` raises anything but `ValidationError` or
  `FileNotFoundError`, an admin is as stuck as everybody; and a transition of a
  phase to itself may be declared with `allowed_groups` that keep him out.
* `EditorCanReclaim`, which is `OwnerCanReclaim` less what the code refuses: an
  owner who has left the groups of the phase (the finding `reclaim_needs_groups`)
  or is kept out by such `allowed_groups`. Both leave out suspended records: an
  impersonator who suspends locks the owner out of his own record until the
  impersonator or an admin resumes it. And both leave out records that do not
  validate, which only an admin may move.
* `OwnerLetsGo`, `PhaseMovesByHolder`: the holder may go on after he has left the
  groups of the phase; his groups are looked at when the record is created only.
* With `allow_release` `'no'` admins cannot release either.
* `LabelsTell` is checked for forms posted at once: `force_transition_type` is
  set by the button, whatever the record has become since.
* `HistoryIsRead` is checked without `mark_read`, which may mark a state that has
  become history meanwhile.

### Liveness and its fairness

`RequestsEnd` is checked in `chain_transitions`: a request that calls
`transition()` gets back to its caller. A request that has started runs on (weak
fairness of `Proceeds`: the process is scheduled, or dies and its connection is
closed, which is `HookFails`). A hook makes finitely many calls (strong fairness
of `HookEnds`: one that would nest, catch the failure and nest again for ever is
an endless loop of the application). A statement that waits for a row is served
in its turn (strong fairness of `Waits`: the lock queues of PostgreSQL and InnoDB
are first come, first served). Nothing makes a request start, a hook nest, or a
user reload. There is no deadlock to be had among transitions, since each takes a
single lock first; TLC confirms it.

## Proofs

Seven modules prove thirty-one theorems, for every configuration that
`configure_workflow` and `check()` accept (`ConfigAssumption`), every set of
users, impersonators and pages, every bound, any number of requests, and every
set of phases, handlers, keys, texts, versions (`VersionAssumption`) and words.
Where a theorem needs more, its statement says so after ASSUME, and the text
below says why. Every safety and action property of the passing runs is the
subject of a theorem.

**`EngineProofs`**, about `Spec` of `WorkflowEngine`:

* `TypeCorrect`; `SuspensionFreezes` and `HolderMovesPhases`, the history
  invariants `SuspendedFrozen` and `PhaseMovesByHolder`; the action property
  `OwnersLetGo`.
* `AdminRecovers`, `OwnerReclaims`, `FreeRecordsAreTaken`: from every reachable
  state the rescue that is promised is allowed, or not needed. An admin is
  promised it unless `full_clean()` fails with something the engine does not
  waive; the others as long as the record validates, is not suspended, and they
  are editors or admins of the phase. All three except users whom the
  `allowed_groups` of a transition of the phase to itself keep out.
* `OffersAreKept`, `RejectsAreKept`: whatever a page offers, the engine accepts, if
  the record validates and nobody is kept out by `allowed_groups`. An offered
  owner must still be qualified, and not be the present one; a reject needs that
  who handed the record over is active and qualified, and `allow_delegate` if it
  stays in its phase.

The argument: every entry point makes one call of `Perform` (`MovesPerform`, one
step per disjunct of `Moves`), and `Perform` appends one typed row
(`PerformAppends`, resting on `KindIsKnown` for the kind). The history invariants
speak of neighbouring rows. They are inductive together with `TypeOK`: an
appended row is related to the current one by what `transition_allowed` has
checked (`MoveRespectsHolder`), earlier pairs do not change, and a deletion
empties the history. The delicate step is the deletion of an account, which
rewrites `impersonated_by` throughout: `DeletionKeepsHolder` shows that the
context of a row and the impersonator named by the next are rewritten alike, so
the equation between them survives. The rescues need no invariant beyond types
(`RescuePasses` for admins, `StayPasses` for calls within a phase by others), and neither do the commands: `OffersAreKept` goes through each
command of each pack and finds its conditions to imply the engine's. A reject is
different: the button is shown because of the *kind* of the current row, and the
kind of a return is worked out from the kinds before it. `RejectsAreKept` rests
on the invariant `HandedOver`, that within a phase these kinds are given only to
rows whose owner is not who acted: there is somebody else to send it back to.

**`DialogProofs`**, about `DialogSpec`:

* `DialogTypeCorrect`, `DialogKeepsSuspensions`, `DialogMovesByHolder`: a form
  that is posted makes one call (`PostIsCall`), so the invariants of the engine
  hold of the dialog too.
* `SuspendersStay`: a suspension is only ever posted by whoever described himself
  as its owner, and while it lasts only a resumption passes.
* `RepostsFail`: rests on the invariant `DoneIsAsWanted`, that as long as the
  record has not moved since a form was posted, its current row is what the form
  asks for; then nothing would change, and `IsChange` refuses. That the owner a
  form asks for does not depend on the state it is posted in (`OwnerIsFixed`)
  needs the three exceptions of the property.
* `HandOversAreQualified`: if nobody leaves forms open (`Slow = {}`), whoever
  receives a record is in a group of the phase. The suspension branch of the
  engine, which `suspension_hands_over` shows not to look at the owner, is
  reached from the pages only with the user himself as the owner.
* `HistoryTells`, also with `Slow = {}`: the labels of the rows say what was done.
  `ComputedTells` shows it of the kinds that the engine works out, `ForcedTells`
  of those that a button forces. That it takes fresh forms is no weakness of the
  proof: a forced kind is fixed when the button is, and a form posted late may
  call a delegation what is none.
* `StrictReleases`, also with `Slow = {}`: `StrictReleaseHonoured` for Django's
  pages (the finding `sebastian_releases` is about the other pack), if no phase
  declares a transition to itself. `check()` does not forbid one, and the holder
  of a delegated record could press it and name no owner, which releases what he
  was given. No instance that TLC checks has one; the attempt to do the proof
  without this hypothesis brought it up.
* `TakersExplain`: `TakenWithReason`, however stale the forms. The requirement of
  a message is worked out when a form is posted, from the owner of that moment.

**`ChainProofs`**, about `Spec` of `StateChain`, for any `Jobs`:

* `StoredTypeCorrect`; `HighestIsCurrent` and `LinksBackStay`, the invariants
  `LatestIsCurrent` and `BackLinks`; the action property `RepairsMoveForward`.

The properties speak of committed rows, and no transition changes these before
its commit; the invariant has to speak of what a transaction *would* commit.
`PInv` says that only the holder of the lock has uncommitted rows, and that the
committed rows are `Chained` (the links back lead from key to key through all of
them, links on lead to later keys) and would still be if the transaction
committed its work now, or that of any of its savepoints. `Caught` needs the
savepoints; from `Check` to `Write`, `TopCopy` says that `copy` is the end of the
chain; `LinkedIsChained` is the lemma about the three saves. The pages
write in the middle of all this, so the invariant also says how far what a page
has read still holds when it saves it: the links back of its copy are those of
the row, while the link on may be an older one. `AmendedIsChained` shows that
such a row leaves a chain a chain, and a chain under somebody's uncommitted work
as well.

**`LinkProofs`**, about the same `Spec`:

* `OneCurrentState` and `HistoryIsLinked` (`SingleCurrent`, `LinkedBothWays`), if
  `"view"` is not among the jobs: without detail pages that save the state they
  show, links on are links back the other way.
* `PastIsRead` (`HistoryIsRead`), if neither `"view"` nor `"mark"` is.
* `PointerFollows` (`PointerIsCurrent`), if `"edit"` is not; then the repair
  command has nothing to repair either, which is part of the proof.

The hypotheses are sharp. They exclude the pages of the findings
`detail_saves_state` and `form_saves_pointer`, in which TLC breaks the first and
the last of these properties, and `mark_read`, which marks what has become
history meanwhile; everything else may run beside the transitions. `QInv`
adds to `PInv` what each page would spoil, under the condition that it does not
run: `Tight` rows, and a pointer at the highest key, again for what would be
committed.

**`HistoryProofs`**, about the same `Spec`, if `"edit"` is not among the jobs:

* `TransitionsAreAtomic`: the refinement `ImplementsHistory`. However many
  requests interleave, the history grows as if one at a time did, each from the
  last state and having seen it. Detail pages may run: they disturb links on,
  the refinement rests on links back and the pointer.

`Seen` maps what a request takes for the current state: what it had loaded when
it called while it has work to commit, what its record object holds otherwise.
The commit is the only step that is an `Extend`; a rollback is a `Forget`, a page
that loads the record a `Look` as `Load` is, and everything else a stutter.
`KInv`, on top of `QInv`, gives the witness for the commit: whatever a
transaction or one of its savepoints has done, there is a sequence of the keys
that it adds, each naming the one before (`AddsOneMore` appends the next). It
also says that no other request can have loaded such a key, so that nobody else's
`Seen` changes with the commit, and that the record object of the request itself
is never behind its transaction, so that after a commit it has the new current
state or, where a nested call was caught, nothing.

**`VersionProofs`**, about `Spec` of `WorkflowVersion`:

* `ReleasesAreLogged`: the recorded version has an entry in the changelog.
* `ReleasesRise`: the action property `VersionsRise`.
* `ChecksVouch`: `CheckedIsReleased`, a `--check` that passes vouches for the
  workflow that was released, and for its entry in the changelog.

`VInv` says of a command between its two files that its version is logged, and
that it *suits* the differences between the recorded snapshot and the workflow
as it is now. `RequiredIsHighest`, `EnoughRises` and `BumpIsVersion` are the
facts about levels and numbers that this rests on when the version is chosen.
Afterwards only texts can change, and `TextsSuit` shows that they do not matter.
`ChecksVouch` is about the diff: it iterates over the phases and the handlers
that there are, so two workflows without a difference are the same only if
nothing is said of a phase or a handler that there is not. That is the invariant
`WellFormed`, which every edit has to preserve, with one lemma for each kind of
edit.

**`SearchProofs`**, about `Spec` of `ApiSearch`:

* `SearchFindsWords`: `FindsWhatItSays`, for any stemmer and any notion of which
  words begin with a word. `SearchInv` says that no text is indexed before the
  two stages are out of the pipeline, so that what is looked up and what was
  indexed are the words themselves.

Only model-checked: `RequestsEnd`, a liveness property, out of the prover's reach
as every argument from fairness is. No module uses a RECURSIVE operator.

## Not modelled

Snapshots of records, messages but for whether one is due, captions and
descriptions, the search filters, serializers, templates apart from which buttons
they show, translations, the documentation generator, migrations, and the demo
project: data or presentation that no rule reads. Global admins and
`impersonable_users` appear as the constant `Impersonator`. The per-object cache
of a user's groups is left out: a request loads its user anew. Custom validators
and hooks are arbitrary: they refuse, fail, catch, or start another transition.
The keys `hidden`, `disabled`, `default_owner` and `require_message` of a
transition are functions of the application. A user keeps to one impersonation
while a form is open.

The deletion of a record is one step of `WorkflowEngine` and no part of
`StateChain`: what a transition meets that runs into it depends on the foreign
keys of the application's model. Of versions, files torn in the middle of one
write, and versions declared as something else than a string of three numbers,
are left out.
