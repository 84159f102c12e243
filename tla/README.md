# A TLA+ model of model-surge-relay

model-surge-relay is the control plane of a model gateway. For every request, the
data plane asks it which upstream target to call and reports afterwards how the call
went; operators configure the choice through a console. The repository holds a Go
service (`src/backend`) over PostgreSQL and Redis and a Flutter console
(`src/frontend`). This directory holds TLA+ modules translated from that source, the
TLC configurations that check them on small instances, and proofs that TLAPS checks.

## 1. Inventory

| component | state it keeps | operations |
|---|---|---|
| `runstate` | `target_runtime` (end of cooling, consecutive failures, usage per target), `result_reports` (idempotency keys) | `ApplyReport`, `Reset`, `Load`, `Get`, `List` |
| `strategy` | none, a pure function | `Compose` (`expander.expand`), `Validate` |
| `collection` | `collections` (strategy, note, `updated_at`), `groups`, `group_members` | create / delete a collection, `UpdateNote`, `SetStrategy`, create / update / delete a group, `ReplaceMembers`, `Snapshot` |
| `cache` | one Redis key per collection and per user model | `ReadThrough`, `Invalidate`, a TTL |
| `dispatch` | none of its own, it joins the others | `Dispatch`, `DryRun`, `Report`, `Models` |
| `usermodel` | `user_models` and its cached copies | create / update / delete, `Authenticate` |
| `migrate` | a report, while it runs | `Migrate`: a batch over collections, of any number at once |
| `upstreamclient` | none; HTTP to the upstream catalogue | `Catalog`, `Resolve` |
| `config`, `store`, `cmd/server` | the process: its configuration, pool, Redis client and listener | `Load`, `Open`, serve, stop on a signal, close |
| `httpapi` | two keys | routing to two planes, `requireBearer`; decode, one call, encode |
| `contract`, `apperr` | none | wire types, error codes |
| console | what is shown, selected and edited in the browser | load, select, edit, reorder, save, dry run |

How they interact. The data plane calls `Dispatch`: authenticate (`usermodel`, cached),
read the collection's snapshot (`collection`, through `cache`), load the run state of
the snapshot's members (`runstate`), compose candidates (`strategy`), and resolve them
in order upstream until one resolves. The data plane calls the target, reports the
outcome (`Report` → `ApplyReport`) and, on a failure, dispatches again with the
targets it has tried. Operators write rows of PostgreSQL through `collection` and
`usermodel`, and each write ends by deleting a key of Redis. Nothing is pushed: every
part reads what the others have left in PostgreSQL and Redis.

What is hard here:

* **Concurrency without locks of its own.** All mutual exclusion is PostgreSQL's: the
  primary key of `result_reports`, the row locks of upserts, foreign keys. Checks that
  span statements (`SetStrategy`, `DeleteGroup`) are protected by nothing.
* **Replays.** A report may be delivered again after its answer was lost; the second
  must wait for the first and then do nothing.
* **Clocks.** `retry_after` is judged by the relay's clock and compared with
  PostgreSQL's `now()`, the time of the transaction's `BEGIN`.
* **A cache-aside copy.** A load that overlaps a write stores, after the write's
  invalidation, what it read before it; an invalidation may fail.
* **Retries against a moving configuration.** Between two dispatches of one request
  the strategy, the members and the run state change.
* **Two segments.** A long request is expanded twice, with one map reset between the
  segments and another kept.
* **A batch without a transaction.** A migration reads, maps, checks and writes one
  collection after the other, with operators and other migrations in between and
  queries that fail.
* **Stopping.** Handlers are under way when the process is told to stop, and what they
  need is closed behind them by `defer`s.
* **The console's awaits.** Answers arrive in any order, after the selection moved on.

What makes each part correct: usage and failure counts are exact whatever is replayed
or overlaps; a target cools for a reason, not for too long, and never less because
reports overlapped; the composer neither repeats, nor misses, nor lists an unavailable
member; a cached copy is stale only where the protocol cannot avoid it, and not for
good; the strategy names groups that exist; a group holds whole lists of members; a
request never gets a target it has tried, is refused only when nothing is left, and
ends; a client is judged by a row of the time of its call; a migration that nothing
disturbs does all of its work; a process that stops cuts nothing off, and stops.

## 2. Modules

| module | models | with |
|---|---|---|
| `TargetLedger` | abstract: what `runstate` promises, each transaction one step | refined by `RunState` |
| `RunState` | `ApplyReport` statement by statement in several handlers, `Reset` | `MCRunState`, `RunStateProofs` |
| `Compose` | what `strategy.Compose` returns, as a function | used by `Composer`, `Dispatch`; `ComposeProofs` |
| `Composer` | the loops of `expand` that compute it, one turn a step | `MCComposer`, `ComposerProofs` |
| `Collections` | operators' writes, their checks and invalidations, the load of a snapshot query by query, Redis failing | `MCCollections`, `CollectionsProofs` |
| `UserModels` | one user model: operators' writes, its cached copy, `Authenticate` | `MCUserModels`, `UserModelsProofs` |
| `Dispatch` | a request from authentication to its last retry, with everything it reads changing; composes `Compose` with the run state and the configuration | `MCDispatch`, `DispatchProofs` |
| `Console` | the collections page and its members editor, one await at a time, with the server's rows behind it | `MCConsole`, `ConsoleProofs` |
| `Migrate` | migrations query by query among operators, with the mapping of every policy and `validateStrategy` | `MCMigrate`, `OperationProofs` |
| `Server` | the life of the process and of the requests in it | `MCServer`, `OperationProofs` |

### RunState

A handler (`Calls`) goes through `received → begun → inserted → routed → executed →
committed` and answers: `Begin`, `InsertReport` (`INSERT ... ON CONFLICT DO NOTHING`,
which waits while another open transaction holds the same key: `KeyFree`),
`SkipDuplicate`, `Route` (the switch of `applyOutcome`, with the relay's clock),
`Execute` (one of three upserts; waits for the row lock: `RowFree`; works on the row
as committed, as READ COMMITTED does), `Commit`, `Answer`. `Lose` is an error, a
cancelled context or a crash at any of these points: the transaction rolls back and no
answer is given; after the commit only the answer is lost. `Deliver` delivers any
report any number of times. Time is a number, `Null` is 0; the row before it is
written is the zero state. `Load`'s comparison is `CoolingAt`. Token columns are one.

### Compose and Composer

`Composer` takes one step for each turn of a loop of `expand`: `MissGroup`,
`EnterGroup`, `PassSeen`, `DropMember`, `TakeMember`, `LeaveGroup`, `EndSegment`, over
an input chosen at the start. `Compose` says the same as functions: walk the groups of
the chain, then keep each available member where it first stands (`Candidates`), and
each dropped one where it first stands in the walks of both segments (`Dropped`). Models
and groups are model values; run state, catalogue and `tried_ids` are sets of models.

### Collections

One collection stands for all, for they share neither rows nor keys. A strategy is the
set of groups it names. An operator `Check`s (where the code does), `Write`s, and
`Invalidate`s, in three steps; a load `Miss`es or `Discard`s a copy it cannot decode,
reads the collection, the groups, the members and the catalogue in four, and `Fill`s.
`LoseInvalidation` and `FillFails` are calls of Redis that fail, a `Set` that fails
having taken effect included. `Expire` is the TTL. Three things are history: `tainted`
and `overlapped` record which copies were stored by a load that a write overlapped, or
kept by an invalidation that failed; `overtaken`, of a `SetStrategy` or a `DeleteGroup`
past its check, that the other kind of write (or a deletion of the collection) has been
committed since (`Overtake`).

`ReplaceMembers` is a transaction in two steps. `ScanMembers` is the moment its
`DELETE` starts: READ COMMITTED shows that statement the rows committed by then, and
`seen` is what it found. `CommitMembers` is the rest: it takes away what `seen` still
names and adds the list. A row that another transaction has inserted anew is another
row, so committing a list takes its models from the `seen` of everybody else
(`LoseSight`). Where the rows kept and the list have a member in common the primary key
refuses, and the operator gets "duplicate member". So of two that overlap, both lists
may stay, or one fails; but no part of a list (`UnionsOfLists`).

### UserModels

One user model and the collections it may be bound to. An operator writes the row and
then owes an invalidation (`Owe`, `Settle`); a call of `Authenticate` hits or misses the
copy, discards one it cannot decode, loads the row, stores it and answers with a
verdict on the key and the enabled flag. Faults of Redis are calls that fail, a `Set`
that fails having taken effect included. `VerdictsOfTheTime` compares a verdict with
the rows there were since the call began (`seen`), the one an operator had replaced and
not yet invalidated included; `doubtful` marks a call that read a copy which an
overlapped load or a fault of Redis left. Both are history variables.

### Migrate

A run reads the bindings of all user models once (`Start`; where that fails,
`MissBindings`) and then does, for one collection after the other, `ReadGroups` or
`MissGroups`, `ReadWindow` or `MisreadWindow` where the policy asks for the members'
windows, `Check` and `Write` (the two halves of `SetStrategy`), until it `Finish`es or a
query fails: `Fail`, or `FailLate` where the `UPDATE` fails and has been executed even
so. A run that fails or is refused drops its report, for the handler answers with the
error alone (`Failure`). Between any two of these, operators do what `collection` and
`usermodel` let them, each in one step: their own races are in `Collections`. Groups are
sequences of records (name, compact or not, declared threshold, members' window).

Four fields of a run are history. `stirred`: a group of the collection in hand has been
deleted. `blind`: the groups of one could not be read. `quiet`: no operator has written
since the run began, and it has read everything as it is. That is about this run only;
other runs may be disturbed, misread or fail without making it false. `overwritten`: the
collections that a run which is not quiet has written to since this one did.

`Intended` and `IsFavourite` say what the mapping should give without computing it the
way the code does. The loops that append what they select (`SelectedTo`) and the one that
keeps the best name so far (`BestTo`) are functions of the number of turns, so that they
can be reasoned about.

### Server

`run` goes through `load → open → serve → drain → closeRedis → closePool → exited`, one
step for each call and each `defer`, and skips what the code skips: `OpenFails` closes
the pool and exits, `GiveUp` (the listener failed) does not drain. A request is
accepted, admitted or refused by `requireBearer`, runs a statement on a connection of
the pool, invalidates if it wrote, and answers. `Drained` and `Expire` are the two ends
of `http.Server.Shutdown`, `ClosePool` waits for the connections as `pgxpool.Close`
does: both are modelled from how they are used, and marked external or mapped to the
call. A request that waits for its upstream stays where it is, for ever if it must.

### Dispatch

`Authenticate`, `ReadSnapshot`, `LoadStates` (with `Compose`, which waits for nothing),
then `Resolve` or `FailResolve` for each candidate, `RunOut` (503), and the data
plane's `Succeed` or `Retry`. Reports are applied by `Report`, in any order and
perhaps never; `EndCooling`, `Reconfigure` and `Disable` change what is read between
any two steps. Run state is the set of targets that cool, the configuration what
`Collections` calls a snapshot. `cooled` is a history variable: the targets that cool
and have done so since the dispatch began.

### Console

A task is one asynchronous function of the page waiting for a call: what it called, of
which collection, and the answer once there is one. `BeginList`/`ReturnList` are the
halves of `_load`, `BeginDetail`, `ReturnGroups` and `ReturnSnapshot` the three parts of
`_loadDetail`, `SendReorder` the loop of `_reorderGroups` from one call to the next,
`Save`/`ReturnSave` the halves of the editor's `_save`. An operator's action has as
guard what the page shows (`PageReady`, `DetailReady`); `Rebuild` ends every action that
sets a field of the page: the editor is mounted, unmounted or given a new group as
`_memberPane` and `didUpdateWidget` do. `Handle` is the server, at any moment after the
call was made; `Fault` is a call or an answer lost, and `TimeOut` a call the page gives
up and the server handles later (`HandleLate`). A dialog opens and closes in one step, a
group is its position and its members (what the group form changes is not kept), and the
page stays open. A listing is the sequence of a collection's groups that the order of
position and name makes (`Listing`). `crossed` and `shownOf` are history variables:
whether two functions were under way at once, a change failed or was given up, or the
editor was left while its save was under way, since a reload began alone; and the
collection whose groups are shown.

## 3. Runs

| run | question | bounds | result |
|---|---|---|---|
| `runstate_safety` | counts exact, coolings justified, bounded, never shortened, answers true; each commit one `Apply` of `TargetLedger` | 1 target, 3 reports (one for each upsert), 2 handlers, clock 1..2, threshold 2, 1 loss, any number of replays and resets | holds |
| `runstate_live` | is every report answered, with handlers waiting for each other and one lost, on two targets | 2 targets, 2 reports, 2 handlers, 1 loss | holds |
| `runstate_usage` | does a failure add to the usage of its target, as documented | as `runstate_safety` | violated |
| `composer` | do the loops compute the declared candidates and skips; repeats, misses | 2 models in all five conditions and all arrangements in 2 groups; 3 models; a group that is gone | holds |
| `collections` | is a stale copy only ever due to an overlap or a failed invalidation, and does it go away for good; do overlapping `ReplaceMembers` leave whole lists; does the strategy come to name a missing group only by an operator whose check is out of date | 1 group, 3 lists, 2 operators, 1 load, 2 writes, 1 fault; starts with any group and list | holds |
| `collections_references` | is a group the strategy names never deleted, as documented | 1 group, 2 operators, 3 writes | violated |
| `dispatch` | no target twice, none that cools throughout, 503 only when exhausted, every request ends | 2 requests (long and short), 2 models, 2 groups, 3 configurations, 1 change by an operator or time, any reports | holds |
| `console` | do loads end, are unsaved members marked, are the groups shown those of the collection selected unless two functions crossed, does one thing after the other always end with what the server holds | 2 collections, 2 groups, 2 functions at once, 4 acts of the operator, 1 fault | holds |
| `usermodels` | is every verdict that of a row of its time, unless an overlapped load or a fault of Redis explains it; do copies and row agree in the end | 2 operators, 2 writes, 1 fault; rows that differ in key, collection and enabled flag | holds |
| `migrate` | is a strategy refused only where a group went away; does a run that nothing disturbs migrate and report everything, with another beside it that may be disturbed, misread or fail, but for what such a run overwrites | 2 collections, 3 user models of 3 policies, 2 runs, 2 writes of operators, failed queries or old copies together; 2 initial worlds | holds |
| `migrate_errors` | does an error reading the groups show in the result, as commented | as `migrate` | violated |
| `server` | is nothing lost, no statement cut off, no plane opened by the other's key; does the process stop | 5 configurations, 4 requests, 3 of which write, 2 keys | holds |

Why the bounds are enough. The hazards of `RunState` are pairwise: two transactions on
one key or one row, in any order, with a third report on record; two handlers and three
reports give every such pair, with a threshold of 2 so that a count is reached and
passed. `CoolingBounded` needs a `retry_after` beyond the horizon: 9 against a horizon
of 3. In `Composer` all behaviour of a member depends on whether it was met in this
segment, in the other, or before in the same, which two groups and two segments
exhibit; the third model gives positions between. `Collections` needs one load to lie
across one write, and a second operator for the write that comes between. Two writes
are such a pair; what a third may do (a collection deleted and created anew before a
`SetStrategy` writes) is in the proofs, which are for any number of operators, loads and
writes, and in `collections_references`. `Dispatch` needs
two requests because one's report is what the other's retry must respect. `Console`
has no race of more than two functions that two do not have, for a task keeps nothing
but its own call; four acts are two selections or changes and what is done between, and
the proofs are for any number of acts, functions and faults.
`UserModels` has the hazards of one key with two operators, whose invalidations may pass
each other. In `Migrate` one event is what it takes to stir a run, and a second is what
it takes to make good or hide the first; the two worlds have every shape of group the
mapping tells apart (a window to find, a threshold declared, a collection that is gone)
and three user models make a tie and a majority. In `Server` two requests of a plane
and two that write are enough for one to be cut off while another is served.

Fairness. `RunState`: a handler that can go on does (the Go runtime), a waiter for a
key or row gets its turn (PostgreSQL queues them), and the data plane delivers a report
again until it is answered. `Collections`: an operator that has written goes on to
invalidate, a load goes on, Redis drops keys whose time has passed; nobody has to call.
`Dispatch`: a handler goes on and the data plane calls the target it was given; no
report need ever arrive and no cooling need ever end. `UserModels`: as `Collections`.
`Server`: `run` goes on, and a statement ends (`pgxpool.Close` waits for it); nothing is
assumed of the rest of a request. `Migrate` states no liveness. Deadlock is not checked where the
system may stop: nobody is bound to call it, and writes and changes are bounded.

## 4. Proofs

For every number of handlers, reports, targets, groups, operators, loads and acts:

* `RunStateProofs`: `TypeCorrect`, `RequestsAreExact`, `TokensAreExact`,
  `CoolingIsJustified`, `CoolingIsBounded`, `CoolingMovesForward`, `AnswersAreTrue`,
  `RunStateImplementsLedger`. The counts are not inductive alone. The strengthening is
  `TypeOK /\ Isolation`, whose parts say why PostgreSQL's locks are enough: a key is
  claimed by one open transaction and not yet on record (`KeysExclusive`), a row is
  written by one, from the row as committed (`RowsExclusive`), a transaction's path
  fits its report (`TransactionsFit`), what is about to be answered is on record
  (`OnRecord`). For the tokens, a sum over the reports on record, it takes besides that
  such a sum exists and does not depend on the order in which it is made, which follows
  by going to a smallest set of reports for which it would not hold.
* `ComposerProofs`: `TypeCorrect`, `CandidatesDoNotRepeat` (from: a candidate of this
  segment is in `seen`), `CandidatesAreAvailable`, `NoCandidateIsMissed` (from: every
  group and member the walk has passed is accounted for), `CandidatesAreAsDeclared` and
  `SkipsAreAsDeclared`: the loops compute `Candidates` and `Dropped`. Their invariant
  says where in the walk of the segment the loops are: the groups passed have given a
  prefix of it, and the candidates, the members seen and the members dropped so far are
  those of `FirstsTo` at the end of that prefix, after those of the segment before.
* `ComposeProofs`: `CandidatesPromised`, of `Compose` for any input: its candidates are
  available members of groups of the snapshot, and no available member of a group it
  expands is missing. The functions of `Compose` recur on a position in a sequence. A
  recursion up to a bound, and an induction up to it (`Recursion`, `InductionUpTo`),
  follow from the library's theorem that finite sets are well-founded by inclusion: of
  the intervals `0 .. x` to members `x` of a set of numbers, one is minimal.
* `DispatchProofs`: `TypeCorrect`, `CoolingIsRespected`, `TargetsAreNew`,
  `UnavailableIsExhaustion`, from `CandidatesPromised` and `Stages`: what a handler has
  when it is at a step. The candidates it resolves are `Candidates` of the snapshot and
  the run state it read, and every member of the snapshot that cools since before the
  dispatch began is in that run state. With them goes, for `TypeCorrect`, that a target
  handed out is a member of the group named with it, in the snapshot it was chosen from:
  `Located`, which needs that every candidate is a member of some group of that snapshot.
* `CollectionsProofs`: `TypeCorrect`, `CopiesAreFresh` (from `LoadsAgree`: a load that
  no write overlapped has read the rows as they are), `ReferencesAreKept` (from
  `ChecksHold`: what `SetStrategy` and `DeleteGroup` have checked is still true until
  the check is overtaken; `collections_references` shows what happens then) and
  `GroupsHoldWholeLists`. That a group is a union of lists is not inductive: a `DELETE`
  that had found a part of a list would break it. `WholeLists` adds that there are lists
  the group is made of, such that every `DELETE` under way has found all of each or
  nothing.
* `UserModelsProofs`: `TypeCorrect`, `ClientsAreJudgedByTheRow`, from `CopyAccounted` (a
  copy in no doubt is the row, or the row an operator has replaced and is about to
  invalidate) and `ReadsAccounted` (what a call has, it has seen).
* `ConsoleProofs`: `TypeCorrect`, `UnsavedAreMarked`, `SpinnersAreEnded`,
  `DetailIsOfSelected`, `AtRestServerIsShown`. Types need `TasksOK` (a call has the
  argument its operation takes and an answer of its kind) and `EditorOK` (the editor is
  there exactly when its group is shown); that a listing is a sequence of entries needs
  that some order of the rows is sorted, which is proved from a smallest set of rows
  without one. `ReorderHeld` says that a reorder which holds back the next one has a
  call under way. `Uncrossed` is what makes the page true at rest: as long as nothing
  crosses, at most one task is under way; a load of it shows nothing in the meantime, is
  of the collection selected and has been answered what the rows are; a save has its
  editor to go back to; and what is shown is fresh unless that task has changed the
  rows, in which case a reload follows. The last but one is why `crossed`
  counts an editor left during its save: section 6 says what happens then.
* `OperationProofs`, of `Migrate`: `MigrationTypeCorrect`, `MappedNeverRefused`,
  `UndisturbedMigrationComplete`.
  - `MappedNeverRefused`. That a refused run was stirred is not inductive: `AllSound`
    says why. Unless one of its groups has been deleted, the names of the groups a run
    has read are still there, whatever else operators have done to them
    (`OperateNames`); its plan is valid for the groups it has read, whatever the policy
    and whatever window it was told (`PlanValid`); and a strategy valid for some groups
    is valid for all that have their names (`ValidMore`).
  - `UndisturbedMigrationComplete`, from `Course`: the quiet runs are `OnCourse`,
    whatever the others do. A run on course has read the bindings there still are; the
    collections not in its `todo` are in the report with their conflicts (`Reported`) and,
    unless `overwritten`, have the strategy it plans for the groups there are (`Written`);
    the one in hand is there, because somebody is bound to it and the foreign key keeps
    it, and its plan is made for its groups (`Planning`). A peer leaves tables and run
    alone but for its `UPDATE`. If the peer is quiet it is on course itself, so that it
    writes what this run has written or would write; if it is not, what it writes to
    joins `overwritten`. A run that fails loses its report and nothing else (`ReportRight`
    speaks of the others). When nothing is left this is the property, by two lemmas about
    the mapping: `PlanIntended` (the strategy mapped is the one declared: groups in order,
    the first threshold declared or the greatest window) and `MajorityFacts` (the loop of
    `majority` ends with the policy declared).
  - The mapping is made of loops over lists: `SelectedTo` and `BestTo` are recursive
    functions, unrolled by `Recursion`. `SelectedPlaces` says of the first that what it
    selects stands in the list in the same order; `BestLeads` of the second that no name
    leads the one it ends with.
* `OperationProofs`, of `Server`: `ServerTypeCorrect`, `NothingIsLostButInHaste`,
  `NoStatementIsCutOff`, `PlanesAreIsolated`, from what each phase says of the listener,
  Redis and the requests under way (`Ordered`), of the keys (`Keyed`) and of the
  connections held (`Held`). The module extends `Migrate` and `Server`; that is why
  definitions of `Server` that `Migrate` has too carry its name (`ServerInit`,
  `ServerNext`, `ServerSpec`, `ServerTypeOK`).

The assumptions are those on the constants that the modules name, which TLC evaluates
in every run: what a report may carry and that bounds are numbers (`RunState`), that
inputs and snapshots are well typed (`Composer`, `Dispatch`), that the markers for "no
entry" and "no row" are not values (`Collections`, `UserModels`, `Console`), that the groups of a collection are
finitely many and their names ordered (`Console`), that every request has a plane and a
key (`Server`), that user models are finitely many, that the names of collections and
policies are listed once each, and that at first a user model is bound to a collection
that exists (`Migrate`).

Only model-checked: liveness (`EventuallyAnswered`, `EventuallyFresh`,
`EveryRequestEnds`, `EventuallyCurrent`, `StopsWhenTold`), which is beyond the prover.
Every invariant and every action property of the passing runs is a theorem.

## 5. Where the code and its documents disagree

Runs show these:

* `ReportsAddUsage` — docs/api.md:299-302 and README.md:71 say that failures accumulate
  usage, docs/api.md:322 that a report whose `retry_after` is ignored has its usage kept,
  docs/api.md:837 that `request_count` is the number of valid reports. The upserts of a
  failure write neither the count nor the tokens (repo.go:179, repo.go:195): only
  successes are usage. `RequestsExact` and `TokensExact` say what the code does, and
  repo_test.go:128 agrees with it.
* `ReferencedGroupsStay` — README.md:90 says that a group the strategy names cannot be
  deleted. `SetStrategy` and `DeleteGroup` may both be past their checks; the `UPDATE` is
  executed first, and then the `DELETE` takes away a group that the strategy names.
* `ErrorsExposed` — migrate.go:166 says that where the groups cannot be read the error
  is left for `SetStrategy`'s checks to bring to light. The empty strategy that is
  returned instead passes those checks with any groups: it replaces the strategy there
  was, and the policy is reported as one nobody knows.

The modules have these behaviours, and a property that denied them would be violated:

* README.md:89 says that the groups a strategy names must exist, and that this is checked
  when it is written. They may go between the check and the `UPDATE`, by a `DeleteGroup`
  or with the collection, which is then created anew (`ReferencesHoldUnlessOvertaken`
  says that nothing else does this).
* migrate.go:80 says that one collection that fails does not hold up the batch. `Migrate`
  returns at the first `SetStrategy` that fails (migrate.go:105), and the handler answers
  with the error alone, so that nothing says what has been done (`Failure`).
* docs/api.md:658 says that a new strategy is what the next dispatch expands; a load
  that overlapped the change may still store the old one, which then lasts until the
  TTL (`FreshUnlessOverlapped` says that nothing else does this).
* collections_page.dart:10 calls the page master and detail. `_loadDetail`
  (collections_page.dart:74) shows what it loaded even if another collection has been
  selected since; an edit then goes to the one selected
  (`DetailOfSelectedUnlessCrossed` says that nothing else does this).
* collections_page.dart:187 says that interaction is disabled while the positions are
  sent. Dragging is; new, edit and delete are not, and an edit sends the position the
  group had before.
* repo.go:292 says that `ReplaceMembers` replaces all members. One that overlaps another
  does not see its rows: both lists may stay, or the second gets "duplicate member"
  although its list has no duplicate (`CommitMembers`).

Noticed while reading, without a run:

* docs/api.md:214 says that the first of `candidates` is the target. Candidates that
  failed to resolve stay in the list (dispatch.go:99).
* docs/api.md:212 says that `group` is the group that was hit. `Locate`
  (collection.go:94) returns the first group of the snapshot that holds the target.
* docs/api.md:211 calls `collection_updated_at` the version of the configuration.
  Changes to groups and members do not move it.
* repo.go:98 says that strategy and members come from one snapshot. `buildSnapshot`
  reads them in separate statements outside a transaction (`Collections` has the steps).
* strategy.go:25 says that an exhausted group has no available member. A group whose
  members an earlier group of the segment gave is reported so too.
* cache.go:4 calls the TTL the last resort. `MSR_CACHE_TTL=0` is accepted (config.go:104)
  and means to Redis that a key never expires: `EventuallyFresh` and `EventuallyCurrent`
  need a TTL.
* A migration run again replaces the strategies that operators have set since the first,
  for the bindings it reads are never cleared; docs call it repeatable.
* A key configured with blanks around it is accepted (config.go:57 trims only to compare
  with nothing) and never matched, for `bearer` trims what a client presents.
* `signal.NotifyContext` is stopped last (main.go:42), so a second signal while the pool
  waits for its connections has no effect.
* A new strategy saved in the editor replaces the one there is, whoever saved it since
  the editor loaded: `SetStrategy` has no version to compare.

## 6. Not modelled

Not to be modelled: `contract`, `apperr` and `upstreamclient` keep no state; the
handlers of `httpapi` other than `requireBearer` and `migratePolicies` decode, make one
call of a modelled service and encode. The console's client, theme and widgets are
layout and encoding; its strategy editor, user models, runtime and settings pages load,
edit in place and send with one call, of which the server's half is modelled.

Of the console's collections page, what a dialog does while it is open and what is left
of a function after the page has been closed are not modelled; that a reload drops the
unsaved edits of the members editor (collections_page.dart:67) is what the code does in
plain sight, and no property speaks against it. Out of sight is what selecting
another group while a save is under way does. The editor goes, and with it what
members_editor.dart:102 leaves undone, `onSaved` and its reload: the save succeeds, and
the page keeps the members from before it, which the editor shows when the group is
selected again (`SelectGroup`, `ReturnSave`; no document says otherwise, and `crossed`
allows for it).
