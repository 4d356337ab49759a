# mooR: a verification project for the core of the server

mooR is a multi-user programmable server. Its users' objects, properties and
verbs live in a transactional database; every command runs as a task in a
transaction of its own and is retried when it conflicts. This directory holds
TLA+ models of the database (commits, persistence, inheritance and its caches)
and of the kernel that runs tasks against it (scheduler, timers, collection of
anonymous objects), the TLC runs that check them on small instances, and TLAPS
proofs that every safety property the runs check holds for every instance. All
paths below are relative to the repository root, which `PROJECT.json` calls
`src/`.

## 1. Inventory

### 1.1 Components and how they interact

```
 hosts ── RPC ── daemon ── scheduler ── tasks (VM) ── world-state transaction ── caches
                           │  │  │                        │ commit
                  schedules  gc  │                 commit pipeline ── root snapshot (CAS)
                                 │                        │ published commit + sequences
                              tasks_db             batch writer ── fjall storage
```

| component | state it keeps | operations | hard behaviour | module |
|---|---|---|---|---|
| relation transactions (`crates/db/src/tx/transaction.rs`) | local operations per row, with the version they replace | get, insert, update, upsert, delete, guaranteed-unique insert | long sequences of operations on one row; provenance of delete and re-create | `CommitPipeline` |
| conflict check, apply, filter (`tx/check.rs`, `apply.rs`, `commit_bloom.rs`) | cumulative bloom filter of the root | check a working set, apply it | the check is skipped on the word of a filter that is merged, reset and rebased | `CommitPipeline` |
| commit pipeline (`engine/moor_db/`) | the root snapshot; prepared and published commits | prepare, publish by CAS, rebase, read-only commit | many threads, lost CASes, policies and ownership reads that go stale | `CommitPipeline` |
| object-number sequence (`SequenceState` in `engine/moor_db.rs`) | counter and dirty flag, value in storage | increment, update_max, claim and load, reload | separate atomics, claimed in no order with the versions | `BatchContents` |
| batch writer (`provider/batch_writer*`) | tokens, two bounded channels, waiting batches, waiters, completed version | admit, enqueue, encode, persist, barrier, snapshot, stop | out-of-order batches, failures half way, shutdown racing commits, blocked senders | `BatchWriter` |
| property-value store (`provider/property_value_store.rs`) | append chains per property | append, rollup, delete, reconstruct | an append found against one value is applied to another chain; limits at the boundary; crashes | `BatchContents` |
| world-state operations (`engine/ws_transaction.rs`) | parents, locations, property and verb definitions | create, recycle, reparent, move, renumber, define, rename, resolve | long sequences of edits that must keep a forest with unambiguous names | `Inheritance` |
| resolution caches (`cache/`, `snapshot_planes.rs`) | ancestry, property and verb caches, a second atomic plane | fork, fill, invalidate, flush, publish | a cache kept across an edit or published beside another root answers with stale data | `Inheritance` |
| scheduler and registry (`crates/kernel/src/tasks/scheduler/`, `registry/`, `task/`, `task_control.rs`) | active and suspended tasks, controls, wake conditions, mailboxes | submit, suspend, resume, retry, send, receive, kill, complete, stop | timeouts against late answers, kill against commit, lost wake-ups | `TaskScheduler` |
| timer schedules (`schedule_q.rs`, `scheduler/schedules.rs`) | entries, timer wheel, running firings, saved schedules | create, collect, fire, settle, retire, load | overlaps, missed deadlines, crashes between firing and settling | `Schedules` |
| anonymous-object collection (`gc_thread.rs`, `scheduler/gc.rs`) | phase, roots, marked snapshot, mutation timestamp | gather, mark, validate, sweep | mutation while marking; commits recorded after they happen | `AnonymousGc` |
| checkpoints, VM, compiler, values, textdump, objdef, daemon, hosts, workers | — | — | sequential, data-heavy, generated, or pure I/O | — |

`PROJECT.json` lists every component with its files and status, and under
`hazards` the places where the code is hard to test.

### 1.2 What makes the modelled components correct

* **Commit pipeline.** No update is lost: a commit replaces exactly the version
  of every row that its transaction saw, whether the check was exact, skipped
  through the filter, or repeated by rebases. Exceptions (property values that
  permit clobbering) need permissions and a definition that are still current.
  Conflicts are reported only when something changed.
* **Batch writer.** Storage is a prefix of the published history at every
  instant; nobody is told otherwise; stop reports success only for what it
  drained; everything published is eventually stored.
* **Batch contents.** What storage holds reads back as the world of the last
  version stored; a number handed out belongs to no other object, also after a
  restart.
* **Inheritance.** A cached answer is the answer of a walk in the transaction's
  own view; parents and locations stay forests; a name is defined at most once
  along a line of ancestors.
* **Scheduler.** A task ends once and its submitter is told the truth about its
  last transaction; cancellation ends it; what wakes a waiting task is neither
  lost nor left over from an earlier wait; effects follow commits; shutdown ends.
* **Schedules.** A live schedule will fire again; every point of its cadence is
  served, missed or overlapped, once; ids are not reused across crashes.
* **Collection.** A collected object is in no property and in no task that could
  still use it (with the exceptions of 3.2).

## 2. Modules

| module | models | state and actions |
|---|---|---|
| `SnapshotIsolation` | abstract promise of the commit pipeline | committed rows, one snapshot per open transaction; Begin, End, Commit |
| `CommitPipeline` | `tx/`, `engine/moor_db/commit_pipeline*`, `property_policy.rs`, `snapshot_planes.rs`, `relation_defs.rs`, creation and ownership in `ws_transaction.rs` | `root` is the published `WorldStateSnapshot`; each thread has a phase, a timestamp, a base snapshot, its local operations, its tracked reads, the root it was checked against and the number of rebases |
| `DurablePrefix` | abstract promise of persistence | number of published and stored commits, what callers asked and were told |
| `BatchWriter` | `provider/batch_writer.rs`, `workers.rs`, `persistence.rs`, `MoorDB::stop`, `wait_for_persistence`, `create_snapshot`, `enqueue_persistence` | tokens, committers, encoder channel and threads, writer channel and thread, waiters, the shutdown and its callers |
| `BatchContents` | `SequenceState`, `enqueue_persistence`, `property_value_store.rs`, the property part of `persistence.rs`, `try_open` | counter and dirty flag, a transaction per thread, the batches, objects, sequence and property records in storage, the writer's chain |
| `Inheritance` | `ws_transaction.rs` and `ws_transaction/edit.rs`, `cache/`, `snapshot_planes.rs` | the root and the cache publication, a transaction per thread with its world and its caches |
| `TaskContract` | abstract promise of the scheduler to a submitter | status, last transaction and reported outcome of each task |
| `TaskScheduler` | `tasks/scheduler/`, `tasks/registry/`, `tasks/task/`, `task_control.rs` | scheduler and collection phase; per task its record, control, wake condition and generation, mailbox, worker, transaction |
| `Schedules` | `schedule_q.rs`, `scheduler/schedules.rs`, the schedules in `tasks_db.rs` | clock, entries, collected expiries, firings, settled results, what is saved |
| `AnonymousGc` | `scheduler/gc.rs`, `gc_thread.rs`, the outcomes of tasks that matter to it | phase, roots, snapshot, doomed objects, database, per task its references and its transaction |
| `CommitPipelineProofs`, `BatchWriterProofs`, `BatchContentsProofs`, `InheritanceProofs`, `TaskSchedulerProofs`, `SchedulesProofs`, `AnonymousGcProofs` | the theorems about the module each is named after | section 4 |
| `LeastNumbers` | induction over numbers and over sizes of sets, for the proofs | |
| `MC*` | constants for TLC | |

The modules meet where the code's components do. `CommitPipeline` publishes
versions, `BatchWriter` orders their batches, `BatchContents` says what is in
them; `Inheritance`, `TaskScheduler` and `AnonymousGc` take from `CommitPipeline`
that a commit is atomic and conflicts on rows; `AnonymousGc` and `TaskScheduler`
share the collector's phases, one for its objects and one for its gate on
admission; `Schedules` submits firings that end as `TaskScheduler` ends tasks.

**Scenarios.** `BatchContents`, `Inheritance`, `TaskScheduler`, `Schedules` and
`AnonymousGc` have a variable `scenario` that is chosen in `Init` and never
changes. It says which operations programs use, what may fail and how far to
explore. One run then covers a family of behaviours, each with the operations
that interact, instead of the product of everything with everything.

### 2.1 CommitPipeline and the code

A *row* is one tuple of one relation. Its value is identified with the
timestamp of the transaction that wrote it, which is all that the checks
compare; for rows that matter to a property one bit of the value is kept
(permissions that grant Clobber). A relation index becomes a function from rows
to timestamps, 0 for no tuple; the bloom filter is a set of bits and `Hash`
says which bits a key sets, so collisions are a parameter.

* `LoadSeed` and `TakeTs` are two steps because the code loads the root before
  it draws a timestamp.
* `Insert`, `Update`, `Delete` keep the provenance rules of
  `RelationTransaction`; `CreateNext` and `CreateAt` are `create_object` with a
  number of the sequence and with an explicit number; both insert rows as
  guaranteed unique. `TrackRead` stands for the reads that an ownership change
  and inherited policies record.
* `PrepareAdmitted`, `PrepareConflict`, `PrepareOverloaded` are the outcomes of
  `PreparedCommit::prepare`; `PublishWins`, `PublishLost`, `PublishExhausted` of
  `try_publish` in the loop of `commit_writes`; `RebaseOnWinner` and
  `RebaseConflict` of `rebase`. `CheckRow`, `CheckPropertyPolicies`,
  `SkipConflictCheck`, `BuildSnapshot` and `BuildRebasedSnapshot` keep the names
  of the functions they translate.
* `MarkAllFullyLoaded` drops the filter without a new version. The daemon calls
  it after a startup import and before any task runs, which is its guard.

Inside one run of the process the sequence hands out each number once
(`CreateNext` takes it from `fresh`); across restarts that is the subject of
`BatchContents`.

### 2.2 BatchWriter and the code

A batch is its version. `Admit` takes a token before the commit is published,
`Publish` is the CAS, and `Enqueue` happens later, so versions reach the
encoders in any order. `EncoderTake` returns the token; `EncoderSend` blocks on
the bounded writer channel. `HandleCommit` and `HandleWait` are
`handle_message`; each `Persist` is one round of `persist_ready` with
`prepare`, `commit` and `complete`. `PersistFails` leaves open whether a batch
whose commit reported an error is stored. `StopCall`/`StopReturn` are
`MoorDB::stop` per caller, `StopBegin` to `StopJoinWriter` the shutdown that the
first caller of `Workers::stop` performs. A timed-out admission changes nothing
here; `CommitPipeline` has it as `PrepareOverloaded`.

### 2.3 BatchContents and the code

`Increment` and `MarkDirty` are the two atomics of `SequenceState::increment`,
`UpdateMax` the loop of `update_max` (its CAS takes effect once). `ClaimDirty`
and `LoadAndWrite` come after `Publish`, on the committing thread and in no
order with other commits, as in `enqueue_persistence`. `SetProperty` and
`ClearProperty` leave one operation on the property's row, with its recorded
read timestamp; `Publish` clears the hint of a clobbering value, and `Mutation`
decides when the batch is built whether it carries a suffix or the whole value:
the list is compared with the one in the transaction's own snapshot. Elements
are compared through `Folded`, because `==` folds the case of strings. `Store`
takes batches in version order, which is what `BatchWriter` guarantees
(`StoredInOrder`), extends, replaces or deletes the chain, and rolls it up at the
limits. `StopAndReopen` and `CrashAndReopen` are `try_open` on what is stored:
`Readable` and `Reconstructed` are the reader of record chains, and the writer
continues from the chain that was rebuilt.

### 2.4 Inheritance and the code

A world is the set of valid objects with parents, locations, property
definitions and verbs; every edit of `ws_transaction.rs` that touches them is an
operator from a world to a world with its guards and errors. A cache is the set
of answers it remembers, found or not found; `edit.rs` decides what an edit
forgets, and `NextCaches` what a commit hands on with the root it publishes. The
root and the cache publication are two atomics, loaded and stored separately, so
beginning a transaction and publishing are two steps each. A walk in a cyclic
world never ends in the code, so an operation is only taken in an acyclic view.

### 2.5 TaskScheduler, Schedules, AnonymousGc and the code

Each critical section of the lifecycle mutex is one action. What a worker does
outside of it (run, commit, talk to its session, open a transaction) is a step
of its own, which is where the races are: `TaskControl` is a value that workers
and cancellers change by CAS, and a handler may find that its record was killed
or replaced meanwhile. A suspended task's `generation` and the pairs in
`signals` are the immediate wake queue; timers carry the same generation.
`TaskContract` is what is left when all of this is hidden.

`Schedules` has the methods of `ScheduleQ` as operators from an entry to an
entry. The timer thread collects expired deadlines under the lock, submits them
one by one, and the results of firings are settled later; the process may stop
or die between any two steps and load what the tasks database holds. Time is
counted in ticks.

In `AnonymousGc` an object has one property and a task is the set of objects its
state refers to. A worker commits before its handler records the mutation, and
the roots are copied under the lock before the mark's snapshot is opened. Every
task comes into being through `Submit`: dispatched at once, or parked with its
references in `start`, because of a delay, a sweep or a collection that was asked
for (`gc_force_collect`, which is not kept as state: a submission may be parked at
any time). `Start` submits for players and schedules, `Fork` for a running task in
the course of its renewal, and `FinishLimit` the handler of a task that met a
limit, with the objects of its stack. `Wake` sets up the VM state of a parked task.

## 3. Runs

| run | bounds | shows |
|---|---|---|
| `commit_rows` | 2 threads, a tracked row and a numbered object with a common filter bit, 4 timestamps, filter span 1, 1 rebase | skipping, merging, resetting and rebasing the filter lose no update and invent no conflict; tracked reads are current at publication; refinement of `SnapshotIsolation` |
| `commit_policy` | 2 threads; a value, its permissions, its definition; 3 timestamps | a clobber needs current permissions and definition at publication |
| `commit_create_at` | 2 threads, one explicit number | **violated**: two creations of one number both commit |
| `persist` | 2 committers, 2 encoders, a caller that waits or snapshots, 1 stop, 2 versions, capacities 1, failures, fairness | what is admitted has room, no version twice or lost, stop is honest and drains, refinement of `DurablePrefix`; everything published is stored, requests are answered and stop returns, with full channels and failures |
| `batch_contents` | creating: 1 thread, explicit numbers 1 and 3, 3 commits per life; writing: 2 threads, 2 commits per life (3 when clobbering); chains of 2 records and 2 appended elements; crashes anywhere | numbering survives crashes; the chain in storage reads back as the value published, through appends, rollups, clears, clobbers and restarts |
| `numbers_restart` | 2 threads, 3 commits, clean restart only | **violated**: a number is handed out again |
| `inherit_caches` | 3 objects, 2 names, 2 definitions, 12 scenarios: sequences of up to 4 edits with lookups between them, and 2 threads racing to publish worlds and caches, one or both of them editing | a cached answer is the one a walk finds; forests; no name twice along a line |
| `task_safety` | 2 tasks, 1 retry and its exhaustion, mailboxes of 2; scenarios Cancelling, Messaging, Collecting, Failing | wake-ups neither lost nor stale, retries start from a restored state, a sweep runs alone, cancellation ends a task, effects follow commits, refinement of `TaskContract` |
| `task_live` | 2 tasks of 2 players; boots, kills and waits with collections; fairness | a shutdown ends, a queued wake is dispatched, a cancelled task stops |
| `sched_all` | every catchup and overlap policy with jitter, crashes and aborts; adaptive schedules with returns -1, 0, 1, 3; one-shots with crashes, stops and kills; interval 2, retention 1, up to 6 ticks and 4 firings | a live schedule is never forgotten, every cadence point is accounted for once, nothing retired fires, ids are not reused, due schedules start and one-shots fire |
| `sched_killed` | a one-shot and a periodic schedule, kills | **violated**: a killed firing is not counted |
| `gc_safety` | 2 tasks, 2 objects, 1 write per transaction; scenarios Terminal, Limited (with the limit's handler task), Suspending, Forking (which also drops references); every submission dispatched or parked | no collected object in a property or in a task that was started without references and runs to its end; none lost by a task that has run and sleeps since before the roots were gathered |

**Why the bounds are enough.** Every race in the pipeline is between one commit
and the root another left behind. Two threads with four timestamps give a
transaction two foreign commits during its life (a lost CAS, and a winner that
is itself a reset filter), `MAX_BLOOM_SPAN = 1` makes the filter reset at every
second commit, and one rebase is enough to reach both the success and the
exhaustion of the loop. In the writer, capacities of 1 make every channel
fill up, and two versions on two encoders arrive in either order. Initial
databases range over all subsets of the rows. The proofs of section 4 do away
with the bounds for all safety properties; the liveness properties rest on them.
In `batch_contents` the limits are chosen so
that each is met alone: two appends of one element reach the record limit, one
append of three the byte limit; a restart makes the number of commits unbounded.
Races of the scheduler are between one task and one other actor (a killer, a
sender, a waiter, the timer, the collector, the shutdown): two tasks give every
pair, one of them may play both sides, and two yields or conflicts let a task
meet what an earlier wait left behind. In `inherit_caches`
three objects are the smallest stack with an inner node, where a reparenting
changes what a descendant inherits.

**Deadlock** is checked in `inherit_caches`, where a transaction can always end.
Elsewhere it is not: a bounded model ends when its timestamps, versions, tasks or
ticks are used up, and the real system may idle.

**Fairness.** In `persist` encoder threads, the writer, the thread that hands
over a published commit and the thread inside stop run when they can (weak
fairness). Sends on a bounded channel get strong fairness: the channel queues
blocked senders in order, so one that finds room again and again is served. The
timer of `recv_timeout` fires. In `task_live` workers, the timer, the collector's
steps and the end of a shutdown are weakly fair, because each is an
operating-system thread that is never asked to wait for ever; draining a wake is
strongly fair, because the service drains its queue in order and a sweep that
holds it back ends. In `sched_all` the clock ticks and the timer thread collects
and fires (weak fairness). Nothing is assumed about who commits, asks, submits,
kills or stops. Symmetry (permutations of threads,
tasks or callers, which no definition tells apart) is used only in runs without
liveness properties.

### 3.1 Findings

* `commit_create_at`: `transactions.md:159` promises that conflicting changes
  are caught; an object created at an explicit number without a parent is
  inserted as guaranteed unique, so two creations of the same number both commit.
* `numbers_restart`: `engine/relation_defs.rs:797` calls the sequence the source
  of new unique object numbers. The commit that claims the dirty flag last need
  not be the one stored last: version 1 pauses after its CAS, version 2 stores
  the value 1, version 1 then claims a later reservation and stores 2, in this
  order of versions. Storage ends with 1 although object 2 exists. A crash makes
  a shorter variant possible: version 2 claims the flag for version 1's
  reservation, and the process dies with only version 1 stored.
* `sched_killed`: `scheduled-tasks.md:307-308` says that a firing "can be
  `kill_task`ed (the schedule counts it as a fault)". A kill ends the task without
  a settled result (`registry/cancellation.rs:48`), so the entry keeps the firing
  in its running list and neither a run nor a fault is counted: until a
  restart a one-shot stays live, and a schedule that queues or skips overlaps does
  not fire again.
  `NoDeadFiring` excepts killed firings for this reason, and `NeverForgotten`
  counts on the firing under way.

### 3.2 Deviations met while modelling, without a run of their own

The models follow the code in each of these, and the properties are stated so
that they hold with it; where a formula for the intention exists it is named.

*Database.* Identical changes of one property conflict
(`book/src/the-database/transactions.md:107` says they do not; `tx/check.rs`
never compares values). An append is recognised with `==`, which folds case
(`var/src/list.rs:126`): over a stored `{"a"}`, the list `{"A", "b"}` built by an
append is stored as the suffix `"b"` alone, and reads `{"a", "b"}` after a
restart; `StoredIsPublished` therefore compares as `==` does.

*Inheritance.* Concurrent transactions may each make an acyclic change that
together form a parent or location cycle, after which walks do not end
(`transactions.md` documents write skew; `moo-tasks.md:225` and
`performance-and-concurrency.md:166` say serializable). A recycle that races a
create leaves a dangling parent, and creating that number again leaves cached
ancestors of the old chain. A wizard may move objects into and out of numbers
that do not exist, and renumbering onto such a number makes a location cycle. A
rename may duplicate a property name along a line. A recycle leaves local values
and flags of inherited properties; a renumber leaves `PropDef.location` behind.
Caches of a commit that wrote are never carried forward, because `fork` clears
`has_changed` (`commit_pipeline/state.rs:158`).

*Tasks.* A task that runs out of retries does not wake the tasks that wait for
it (`transitions/retry.rs:116`): `NoMissedWake` excepts exactly this end
(`OutOfRetries`), which `task_safety` reaches. Booting a player cancels the running tasks of
the others (`transitions/cancel.rs:243`; `BootSparesOthers` with the scenarios
`Boots`). `wait_task` may register after its target has ended
(`suspend.rs:203`). `resume()` of a task in its retry backoff runs it from the
rolled-back state (`resume.rs:389`). Killed tasks bypass `settled_results`
(`cancellation.rs:30`). A failing event log reports an outcome as not kept and
commits. A cancellation that arrives before a conflict is lost with the attempt
(`retry.rs:77`). Two senders may exceed `max_task_mailbox`, and mailboxes of
ended tasks remain.

*Schedules.* A failing background session forgets the schedule
(`schedules.rs:80`); a zero from an
adaptive recurring verb does not retire it (`schedule_q.rs:1162`); a shutdown
retires one-shots whose firing it cancels (`schedules.rs:126`).

*Collection.* The manual says that an anonymous object is collected when "No
suspended tasks have references to it"
(`book/src/the-database/objects-in-the-moo-database.md:114`). A task that waits to
be started is suspended with its references in `TaskState::Pending`, and
`collect_anonymous_object_references` scans VM and retry state only
(`registry/mod.rs:258`), which are still empty: a delayed fork loses the objects of
its activation (`PendingKeep` fails in the scenario `Forking`), and a
`$handle_task_timeout` task that a sweep parks the objects of the stack it reports
(`complete.rs:371`; `HandlesExist` fails in `Limited`). `SleepersKeep` and
`NoDanglingHandle` except these tasks and no others. A task that is running when
the roots are copied and suspended at the sweep is in neither the roots nor the
snapshot (`gc.rs:89`; `HandlesExist` in `Forking`). Commits of tasks that end in an
exception are not recorded (`complete.rs:394`). Mailboxes are not roots, and a
schedule published after the roots were gathered is not one either.

## 4. Proofs

All theorems hold for every choice of the constants allowed by the named
assumptions, which say of numbers that they are numbers and of the sets that are
counted that they are finite: `RowAssumption`, `BloomAssumption`,
`BoundAssumption`, `BatchAssumption`, `ContentsAssumption`,
`InheritanceConstants`, `SchedulerAssumption`, `ScheduleAssumption`,
`GcAssumption`. `InitialWorlds` says that the databases a behaviour of
`Inheritance` starts from are put together properly. Threads, rows, objects,
names, tasks, capacities, limits, hash functions, scenarios and bounds are
arbitrary; the runs are instances.

None of the properties is inductive as it stands. Each proof module begins with
the invariant it needs, as a conjunction of named parts, and has one lemma per
action, or per group of actions that change the same things. TLC checked every
such invariant on the runs' instances before it was proved.

A theorem has a hypothesis exactly where the code deviates from the intention
(3.2): the property holds up to that case and fails in it.

| theorem | for every instance in which |
|---|---|
| `ConflictsAreReal`, `PipelineImplementsSI` | no object number is chosen explicitly (finding `commit_create_at`) |
| `StoredNumbersCovered`, `NumbersAreFresh` | one thread runs transactions (finding `numbers_restart`) |
| `CachesAnswerTruly` | one thread edits, or nobody creates or renumbers objects (`NumbersKept`) |
| `ForestIsKept`, `NamesStayUnique` | one thread edits; for names, nobody renames (in the properties) |
| `NoWakeIsMissed` | the task that was waited for did not run out of retries (`OutOfRetries`, in the property) |
| `RetriesRestore` | nobody resumes a task in its retry backoff |
| `DeletionIsAlone` | the event log works |
| `CancellationEnds` | a cancellation cannot be overtaken by a conflict (`CancelSettled`) |
| `ContractIsKept` | neither the event log nor opening a transaction fails, and nobody resumes a task in its backoff (`TruthfulScenario`) |
| `SchedulesRemembered` | the session of a firing can be made |
| `FiringsAnswer` | the firing was not killed (finding `sched_killed`, in the property) |
| `NoPropertyDangles`, `NoHandleDangles` | tasks run to their end (`RunToEnd`); for tasks, those that were started without references (`GivenNothing`; both in the properties) |
| `SleepersKeepTheirObjects` | the task has run: its start is not still pending (in the property) |

**CommitPipelineProofs.** `PipelineInv` adds to `BloomSound` and `NoLostUpdate`
what they rest on: a version identifies the root and no held
snapshot is newer (`HeldNoLater`); timestamps in snapshots were handed out, and
a live one is on no published row (`SnapshotsDated`, `TsFresh`); an operation
records the version it replaces (`OpProvenance`); a number of the sequence
belongs to one transaction until it commits (`PoolExclusive`,
`UniqueIsCreation`); and the central fact, `CheckedSound`: between prepare and
publication, every written row and every policy is the same in the base snapshot
and in the root last checked against. `PrepareSound` and `RebaseSound` show that
each check, exact or through the filter, establishes it; the CAS makes the
checked root the one that is replaced. From it follow `NoUpdateLost`,
`ReadsStayCurrent`, `ClobberUnderCurrentPolicy`, `ConflictsAreReal` and the
refinement `PipelineImplementsSI`.

**BatchWriterProofs.** `PersistInv` adds to `StoredInOrder` and `StopHonest` that
only published versions are in flight and that a writer that has not failed knows
exactly what is stored (`WriterCurrent`), which is why a failed commit that did
reach storage does no harm. `PrefixStep` maps each step to a step of
`DurablePrefix` or a stutter (`PipelineImplementsDurablePrefix`). `FlowInv` is
about where things are: free tokens, admitted commits and queued batches add up
to the capacity of the encoder channel; a version is in one stage only, and in
none only after a failure; and a shutdown drains each stage before it closes the
next. From it follow `AdmissionIsRoom`, `VersionsOnce` and `StopIsThorough`.

**BatchContentsProofs.** `ContentsInv` follows a property value from the
transaction that wrote it to its records: batches are published versions not yet
stored (`BatchesInPlace`); a row carries the version that wrote it, so equal
timestamps mean equal values (`RowsDated`); a suffix in a batch extends the value
of the version before (`ChangesLinked`); the writer's chain counts exactly the
records in storage (`ChainKnown`). `StorageReadsBack` is then that appending,
rolling up, replacing and deleting all preserve what a reader reconstructs, at
every instant at which the process may die. `NumberInv` says for one thread that
the sequence in storage or in a batch on its way covers each number used
(`NumbersCovered`), or the dirty flag is set.

**InheritanceProofs.** The first half is about trees: a walk ends in as many steps
as there are objects exactly if some ranking decreases along the edges
(`RankedIsAcyclic`, `AcyclicIsRanked`), a search along a line depends only on the
rows of that line, and starting it at the first object with any rows changes
nothing (`PropFromHome`, `VerbFromHome`). For each edit a lemma shows that an
object outside the branch it invalidates inherits the same rows before and after,
so the answers kept are still right. The invariant `TreeInv` then follows them
between transactions: a version is one world for everyone who reads it
(`SightOK`), published caches are sound for the version they carry, a root
carries none (`PlanesOK`), a view differs from the root only in rows that the
transaction or a later commit wrote, and where several edit, an object is removed
with all its rows (`RowsOK`), so that rows written elsewhere never hang on it.
From it follow `CachesAnswerTruly`, `ForestIsKept` and `NamesStayUnique`.

**TaskSchedulerProofs.** `CoreInv`: registry, record, worker and wake condition of
a task agree, and a signal is of the current wait or an earlier one; with it
`SignalsAreMeant` and `EffectsAreCommitted`. `WaitInv` adds who may still be
waited for, which deferred wakes are pending, and that a task which gave up its
last retry stays given up (`NoWakeIsMissed`). `FateInv`
adds what an ended task's thread can still do, what a report says of the
transaction, and that an abandoned attempt waits for its retry
(`RetriesRestore`, `DeletionIsAlone`, `CancellationEnds`). `ContractIsKept` is
the refinement of `TaskContract`.

**SchedulesProofs.** `ScheduleInv` keeps for every entry, in memory and on disk,
the arithmetic of its cadence (`EntriesOK`, `DiskOK`: every point up to the next
deadline is a run, a fault, a running firing, missed, overlapped or lost to a
crash), that ids on disk and in memory are below the counters that hand them out
(`IdsKnown`) and that what the timer thread holds is due (`CollectedDue`). From
it follow `SchedulesRemembered`, `PointsAreAccounted`, `FiringsAnswer`,
`FiringsAreSingle`, `PointsFireOnce`, `IdsAreFresh` and `FiringsAreInTime`.

**AnonymousGcProofs.** `SleepInv`: what a suspended task that has run refers to is
in the roots if it sleeps since they were gathered, a task that is still to start
has nothing but its start (`RecordAgrees`), and nothing is active while objects are
deleted; hence `SleepersKeepTheirObjects`, whatever the other tasks do. `EndInv`,
where tasks run to their end: the database and every view are closed under
references, a task that was given nothing refers to what it sees, and a mark that
nobody invalidated, recorded or about to be, still covers all that is reachable
(`MarkCurrent`); hence `NoPropertyDangles` and `NoHandleDangles`.

`TypeCorrect` and the invariance theorems are results that no run repeats, and
so are `ProvenanceSound`, `PersistTypes`, `PrefixStored` and `FiringsAreSingle`.
Induction over data (walks, chains, cadences) is done with least counterexamples
(`LeastNumbers`), since the induction rules of the library cannot be instantiated.

**Only model-checked**: liveness (`PublishedIsStored`, `RequestAnswered`,
`StopReturns`, `StopCompletes`, `WakeDelivered`, `CancelHonoured`,
`OneShotFires`), which the prover does not support.

## 5. Plan

1. *(done)* `CommitPipeline`, `SnapshotIsolation`, their runs and proofs.
2. *(done)* `BatchWriter`, `DurablePrefix`, runs, order and refinement proofs.
3. *(done)* `BatchContents`: sequence, property-value chains, restarts.
4. *(done)* `Inheritance`: the object tree and the resolution caches.
5. *(done)* `TaskScheduler`, `TaskContract`, `Schedules`, `AnonymousGc`.
6. *(done)* Proofs of every safety property of the runs, for all instances.
7. Files of suspended tasks and their writer thread across a crash; connections
   and the event log of the daemon.

## 6. Not modelled

Secondary indexes, scans and lazy loading of relations (reads do not change what
a commit does, apart from the tracked ones); the memo of property permissions;
the byte formats of storage and its migrations; the storage engine itself, which
is taken to write a batch atomically; the 32-bit limit of object numbers; the
files of suspended tasks; checkpoints and compaction, which only ask storage for
work; and the components of the last row of the table in 1.1 (virtual machine,
compiler, values, textdump and objdef, daemon, hosts and external workers):
sequential data transformations, generated code and I/O that a state-space search
says little about. Reading storage back is modelled; damage to it is not.
