# Kelyro in TLA+

Kelyro is a local-first learning workspace: one Go binary, one SQLite file per
workspace (`.kelyro/learning.db`) and managed files beside it. Nothing runs in
the background. Every operation is a command-line invocation, so concurrency
means *several processes on one database file*, and failure means a process
that dies between two statements, a deadline that passes, or a statement that
fails.

This directory holds TLA+ models of the parts whose correctness depends on the
order of steps, the TLC configurations that check them on small instances, and
TLAPS proofs. `PROJECT.json` lists components, runs, mutants, the source lines
behind every definition, hazards, findings and theorems.

## Inventory

Each entry gives the state a part keeps, what changes it, how it meets the
other parts, what is hard, and what makes it correct. The parts with a module
name are modelled; `PROJECT.json` lists every part with its sources.

### Research

- **Work queue** (`research/application/trigger_policy.go`, `queue_consumer.go`,
  `storage/sqlite/research_trigger_queue_repository.go`,
  `research_finalization_repository.go`): **ResearchWork, ResearchQueue.**
  State: `research_trigger_queue`, `research_topics`, `research_runs`,
  `research_run_audit`, `source_bundles`. Operations: deduplicated enqueue, start, claim,
  settlement, withdrawal, repeated consumption. Hard: each is one or several
  statements shared by processes; a deadline and a crash may fall between any
  two. Correct: one open item per topic, one worker per item, item, run, audit and
  bundle settled as one.
- **Run registry, transitions and audit** (`research/research.go`,
  `research_registry_repositories.go`, `live_terminal_audit.go`): the run's
  lifecycle and its append-only audit. In ResearchQueue for the runs started for
  a queue item.
- **Orchestrator** (`orchestrator.go`, `app/research_topic_execution.go`): runs
  the stages in order under one deadline. In ResearchQueue: begin, transition,
  search, bundle and success are steps; the stages between search and bundle
  write only their own tables and are one step.
- **Cost control** (`research/cost_control.go`, `research_cost_repository.go`,
  triggers in `migrations.go`): **ResearchCost.** Per-run, per-topic and daily
  budgets. State: an append-only ledger and one control row per run. A
  reservation is an INSERT that a trigger may abort; network calls follow it.
  A provider's page has a row of its own; a fetch has one row, under which its
  client may make several requests. Hard: concurrent runs and goroutines share
  the budgets; the stop flag is written apart from the reservation; a saving is
  recorded by one statement and read back by another. Correct: sums stay within
  limits, nothing is requested before its row, a row bounds the requests and
  bytes of its fetch, a stop is justified.
- **Cache, offline mode** (`cache.go`, `infra/researchcachefs`): content files and
  metadata, expiry, pins. Hard: file and metadata are two writes; readers and a
  pruner race. Correct: a hit returns what was stored under that digest; pinned
  entries survive pruning.
- **Network, fetch, snapshots, search providers** (`network.go`,
  `infra/researchhttp`, `infra/researchsearch`): privacy gate, retry with
  backoff, redirects, bounded bodies, per-host rate. Attempts and redirects are
  counted in **ResearchCost**: they need no further reservation, so a fetch's row
  stands for all of them. Correct: no request without permission, bounded
  attempts, bounded redirects.
- **Registry, bundles, claims, evidence, verification, conflicts, provenance**:
  revisioned sources, append-only evidence, verdicts derived from sets of
  claims, conflict lifecycle. Correct: provenance is complete, verdicts do not
  depend on order.
- **Freshness, drift, impact, releases, update scan**: pure policies combined by
  a scan.
- **Authority, trust, quality, diversity, query planning, normalisation**: pure
  scoring and parsing of one record.

### Learning

- **Study session** (`learning/study_session.go`,
  `learning/application/study_session.go`): **SessionLog, StudySession.** One lifecycle row per session and a
  study event at its stop. Start recovers a stale session or conflicts;
  activity, stop, interrupt, recover. Hard: clocks are read before the
  transaction, processes overlap, a crash leaves a session active. Correct: at
  most one active session per student, duration counted once and capped by the
  idle timeout.
- **Goals and curriculum instances** (`learning/application/goal_lifecycle.go`,
  `curriculum_instance.go`, `curriculum_migration.go`): **PackUpgrade,
  ReviewScheduler.** One active goal; instances pinned to a pack version and
  migrated explicitly. Correct: an instance follows the active version, progress
  is carried to its successor.
- **Progression and mastery** (`learning/progression.go`, `mastery_v1.go`,
  `learning/application/progression.go`): **ReviewPolicy, ReviewScheduler.**
  Evidence is append-only, concept state derived from it in one transaction with
  its events; dependents unlock. Correct: state never runs ahead of evidence, an
  unlocked concept has its prerequisites.
- **Prerequisite graph**: cycle refusal, eligibility, order.
- **Reviews, retention, warm-ups** (`learning/review.go`,
  `review_scheduler_v1.go`, `learning/application/review_scheduler.go`,
  `retention.go`): **ReviewPolicy, ReviewScheduler.** State: review items, one
  schedule per concept, concept states by instance. Hard: the clock is read
  before the transaction, item, schedule and state are rows of their own, and
  five operations write them in different orders. Correct: one due date per
  concept, a postponement holds, an outcome counts once.
- **Mistakes; streaks, achievements, analytics, daily plan, dashboard**: derived
  records; an award is given at most once.
- **Diagnostic, onboarding, setup, profile**: resumable step machines with
  revisions. Hard: a process resumes from a stale step.
- **Recalculation** (`maintenance_recalculation*.go`): **ReviewScheduler.**
  Backup first, rebuild of states, schedules and items in one transaction, a dry
  run writes nothing. Correct: a second run changes nothing.

### Curriculum

- **Compiler** (`curriculum/application/compiler.go`): a sequential pipeline of
  pure stages from verified bundles to an immutable curriculum.
- **Graphs and prerequisite expansion; coverage and review**: pure algorithms.
- **Learning packs** (`pack_installation.go`, `pack_activation.go`,
  `pack_upgrade*.go`, `pack_versioning.go`, `infra/packfs`,
  `infra/learningmigration`): **PackVersions, PackUpgrade.** State: the global
  store of versions, the workspace's reference file, the learner's instances in
  the database. Hard: an upgrade writes the database and the file one after the
  other, repairs by a backup, and may die in between. Correct: instances and
  reference agree, a repeated upgrade repairs.
- **Dependency resolution** (`pack_dependency.go`): **PackDependency.** Version
  constraints over the store. Correct: it finds a selection exactly if there is
  one.

### Foundation

- **SQLite store and migrations**: transactions are the atomic steps of all
  models; migrations run at open and are recorded with a checksum.
- **Backup** (`infra/backupfs/service.go`: `Create`, `prune`):
  **BackupCatalog.** State: the directories under `.kelyro/backups` and their
  manifests. Hard: no lock, wall-clock order, removal in several steps. Correct:
  the newest backups stay, a report of success is true.
- **Restore** (`infra/backupfs/service.go`: `Restore`, `replaceComponent`,
  `rollback`; `storage/sqlite/snapshot.go`): **AtomicRestore, BackupRestore.** State: four
  managed components, a staging and a recovery directory, the index of visible
  artifacts in the database. Hard: each rename may fail or be the last step of
  the process, and so may each step of the rollback. Correct: all or nothing, no
  last copy lost.
- **Portability**: export and import with the same swap as a restore.
- **Artifacts**: managed files with digests. Correct: a user's edit is never
  overwritten.
- **Workspace, configuration, sessions, secrets, update check, logs, doctor,
  CLI, TUI, platform, tools**: I/O, rendering, wiring.

## Plan

In this order, most important first. `C` marks a composition, `A` an abstract
specification.

1. `ResearchWork` (A), `ResearchQueue`, its proofs. **Done.**
2. `ResearchCost`: reservation triggers, stop flag, crash between reservation
   and call, and its proofs. **Done.**
3. `SessionLog` (A), `StudySession`: sessions of several invocations, and its
   proofs. **Done.**
4. `BackupCatalog`, `AtomicRestore` (A), `BackupRestore`, their proofs. **Done.**
5. `PackDependency`, `PackVersions`, `PackUpgrade` (C: the store, the reference
   file, the learner's instances and their backup), and its proofs. **Done.**
6. `ReviewPolicy`, `ReviewScheduler` (C: evidence, progression, retention,
   reviews, recalculation, curriculum instances), and its proofs. **Done.**
7. `Portability`, which repeats the swap of a restore; `Progression`'s unlocks
   with `PrerequisiteGraph`; `Onboarding`.
8. `ResearchCache`, `ArtifactStore`, `Migrations`, `SourceRegistry`.
9. Pure algorithms: `KnowledgeGraph`, `VerificationV1`.
10. More proofs: the invariants that count (`AttemptsAreRuns`, `CallsArePaid`,
   `BytesArePrepaid`, `FetchesAreAccounted`), `IndexIsExact`, `ProgressCarried`,
   `ListingSettles`, `ListingSucceeds`; the resolver (`ResolverIsExact`,
   `InstalledStaysUsable`); how far each finding goes (`ClaimsAreLeftForAReason`,
   `SeasonedEvidenceMaterializes`, `RecalculationSettlesUnlessSlipped`, `StrandedForGood`); the refinement of
   `AtomicRestore`; termination of the queue's invocations, of study operations and of
   restores, and absence of a standoff, as safety. **Done.**

Runs are few and broad: one with every fault for the safety properties of a
module, one for its liveness if it has any, one for each finding. Type
invariants are proved for every value of the constants and therefore not run
again.

## ResearchQueue

### State and actions

An invocation `p` of `kelyro research topic` names its queue item, its run and
its bundle, because each draws fresh identifiers. The durable variables are the
tables above, restricted to the columns that decide something. The local
variables are the Go values one process carries from statement to statement;
`pc` is the next statement.

| Actions | Code |
|---|---|
| `EnqueueLookup`, `EnqueueInsert`, `EnqueueRelookup` | `Evaluate` and `Enqueue`: lookup, insert under a partial UNIQUE index, lookup of the winner |
| `StartLookup`, `StartInsertRequest`, `StartInsertRun`, `RecordAudit` | `Create` of the run and the planned audit record: separate statements |
| `ClaimUpdate`, `ClaimRead`, `Reconcile` | `ClaimExecution`'s UPDATE and SELECT, then the answer to a claim held by someone else |
| `OrchestratorBegin` … `OrchestratorSucceeds`, `StageFails` | `liveResearchOrchestrator.Execute` and the search stage's accounting |
| `Classify`, `PrepareAudit`, `Finalize` | `Consume`'s classification, the terminal audit and the finalisation transaction |
| `Expire`, `ContextEnds` | the two-minute deadline, and every operation's look at its context |
| `StoreFails`, `Crash`, `Replay`, `Withdraw` | failing statements (with Start's compensation), a dead process, a repeated `Consume`, and `MarkDispatched` / `Cancel` |

`ResearchWork` is the promise: a topic has one open item, an item one holder,
only the holder decides its run's fate, and does so once, in the step that
releases the item.

### Runs

| Run | What it asks |
|---|---|
| `queue_faults` | two invocations of one topic with every fault: settlement, audit, exclusivity, attempts, finality, and the refinement of `ResearchWork` |
| `queue_live` | with deadlines every invocation ends, and a claim stays only if the deadline of its own holder passed |
| `queue_deadline` | violated: a deadline leaves a claim behind (finding) |

Bounds: two invocations show every race of two statements, since a third one
only interleaves with a row that already has a writer, and the proofs cover any
number. A failed item is retried by the other invocation's run. All faults stay possible at every step; a Consume call is repeated at
most once per invocation. Nothing else is bounded: the model is finite because
an invocation ends.
Deadlock is not checked because all invocations end.

Fairness is weak, per process, on its next statement: the commands are
synchronous calls in a process the operating system runs. Faults, repeated
calls and withdrawals have none.

### What the runs found

`queue_deadline`: the worker document says that a deadline settles execution and
queue as cancelled. Only the cancelled branch is finalised outside the caller's
context; a deadline between the orchestrator's success and finalisation, or in
the middle of the claim, leaves the item claimed. Claims have no lease, so its
topic stays blocked.

The same document says that success is acknowledged after the orchestrator
returned a completed run. In the code it returns a running run and finalisation
completes it in the transaction that settles the item (`queue_consumer.go:203`,
`research_finalization_repository.go:60`); the model follows the code.

### Proofs

`ResearchQueueProofs` assumes only the module's own assumptions: `TopicOf` maps
invocations to topics, `NoId` is no invocation, the fault switches are Booleans.
The sets need not be finite.

`SettledTogether` is not inductive: that finalisation may write depends on what
the process learned many statements earlier. `QueueInv` adds

- `RowsInv`: what the rows say of each other (an active row per topic is unique,
  a claimed row names a run of that item, a run of a started process belongs to
  its item, …);
- `ProcessInv`: what each process knows at each `pc` (after the claim the row
  names its run and counts its attempts, unless somebody withdrew it; before
  the claim its run is planned; after settlement its run is terminal, …).

`TypeStep` and the lemmas of one step each (`ClaimStep`, `FinalizeStep`, …) prove
it inductive; the invariants are its consequences. For the action properties and
the refinement the lemma `Writes` states once how a step may change the rows.
`QueueRefinesWork` maps inserts to `Submit`, claims to `Acquire`, finalisations to
`Settle`, withdrawals to `Withdraw` and everything else to stuttering.

`AttemptsAreCounted` proves `AttemptsAreRuns`, that a row's attempts are the number of
its runs: `TriesInv` says that the runs of each row are finitely many and as many as
its attempts, and a claim adds the one new run to both. `FS_AddElement` counts it,
so the invocations themselves need not be finite.

`ClaimsAreLeftForAReason` is the positive half of the finding: with a store that
answers, an invocation that has ended leaves its item claimed only if it crashed, was
called again, or its item was withdrawn, or its own deadline passed where the cancelled
branch does not settle it: with a verdict that is finalised under the caller's context,
or during a provider call. Nobody else's deadline or failure is a reason. `MemoryInv` says
what an invocation that is called once may rely on at each step, `Untouched` what the
steps of the others leave as it was.

Why invocations end is proved in two safety theorems, since a temporal proof from
fairness is out of the prover's reach. `StepsRunOut`: each statement of an invocation
uses up one of finitely many (`Budget`: nineteen, and twelve more for a repeated call),
and no step of anybody adds to them. `NobodyGetsStuck`: an invocation that has not ended
has a statement whose guard holds (`CanStep`, which TLC finds equal to `ENABLED Step`).

Only model-checked: the liveness properties `InvocationsEnd` and `ClaimsAreSettled`
themselves, which need fairness.

### Left out

`SettleExecution` has no caller. The payloads of stages, priorities and
timestamps decide no transition. `MarkDispatched` and `Cancel` have no caller in
the binary, but are public operations of the service and stay in the model.

## ResearchCost

### State and actions

A run is one process. While it searches, one goroutine (`Leader`) works; while it
fetches, all `Workers` do (`MaxConcurrentFetch`). The ledger
`research_cost_events` only grows and only its sums are read, so it is kept as
the three sums its triggers compute: by run, by topic and by UTC day. `stop` is
the control row's flag and scope. A usage is a function from dimensions
(searches, provider calls, fetches, bytes) to numbers.

A fetch reserves one fetch and `MaximumBytes` once (`accountFetch`). The HTTP
client then makes up to `MaxAttempts` attempts, each of up to
`1 + MaxRedirects` requests, and reserves nothing more: a body that breaks off
half way is downloaded again under the same row. `attempt` is where a goroutine
is in that loop. `calls`, `sent`, `read` and `kept` are history: pages asked of
providers, requests and bytes of source bodies by attempt, bytes of the bodies
that were returned.

With the network closed, `RecordCacheSavings` and the read of the metadata are
two statements: between them a goroutine is at "avoid", and when the second
fails the source is given up although its saving is on record.

| Actions | Code |
|---|---|
| `Insert` | the INSERT of `Reserve` and its three triggers: one statement |
| `ClearStop`, `Granted` | what follows a granted reservation: the UPDATE that takes the stop back, the metadata, the next reservation or the call |
| `ReadRunUsage`, `ReadTopicUsage`, `ReadDailyUsage`, `FlagStop`, `Refused` | what follows a refusal: `exceededScope`'s reads in their order, the UPDATE of the stop, the error |
| `StartRun`, `Search`, `SearchCached`, `CallProvider` | `discoveryService.Search` per planned query, and the provider's pages |
| `BeginFetch`, `Fetch`, `EndFetch` | the division of what is left, and `fetchAll`'s goroutines |
| `FetchCached`, `UseCached` | the UPDATE of `RecordCacheSavings`, and `avoid`'s read after which the body is returned |
| `CallSource` | one attempt of the client's `Do` with its redirects: it returns the body, fails, or is followed by the next attempt |
| `AbandonCall` | a page or an attempt given up before anything is requested |
| `StatementFails`, `Crash`, `Midnight` | failing statements or ended contexts, a dead process, the change of the UTC day between the clock's read and any later step |

### Runs

| Run | What it asks |
|---|---|
| `cost_shared` | two runs of one topic, two goroutines each; neither the topic's nor the day's budget serves both; midnight, failing statements and crashes |

Bounds: two runs because a shared budget is contended by two; two goroutines
because the stop flag is contended by two; budgets of two or three units, so
that each of the three is exhausted by one run alone or by both; two days, so
that a reservation can straddle one midnight. A run has one query of two pages,
and sources of at most two bytes: run `a` divides three bytes by its two sources,
which rounds down. A fetch has two attempts of at most two requests each (the
code's defaults are three and six), so that an attempt can repeat another one
and follow a redirect; the theorems hold for every number of both.

`CallsArePaid` says what a row pays for. Pages are counted one by one. Fetches
are counted by attempt: the requests made at the k-th attempt and those still to
come are at most `AttemptRequests` for each row, so that a row stands for at most
`MaxAttempts * (1 + MaxRedirects)` requests, and for none before it is written.
`BytesArePrepaid` says the same of bytes: what is kept is within the bytes
reserved; what is read at each attempt may exceed them by the one byte per fetch
with which `io.LimitReader` shows a body to be too large. So `MaxAttempts` times
the reserved bytes, and a byte more at each attempt, may be downloaded. That is no finding:
`docs/architecture/research-cost-control-v1.md` promises a reservation before
each live adapter call, not before each request the adapter makes, and keeps the
preauthorized capacity apart from the bytes observed.

`FetchesAreAccounted` does not equate savings with cached sources, because of the
two statements above: `saved` is at least what the cache returned, and at most
that plus what was given up.

`ScopeIsFound` says that the disjunct of `ReadDailyUsage` that ends in "budget
trigger fired without an exceeded scope" is never taken. It stays in the model
because the code has it; the property and its theorem say it is dead.

### Proofs

`ResearchCostProofs` assumes the module's own assumptions: budgets are vectors of
naturals, `TopicOf` maps runs to topics, the bounds are naturals, the goroutines of a
run are finitely many. Nothing else is assumed of the number of runs, goroutines or
days.

`BudgetsHold` follows from the triggers alone. The two properties about
explanations need more: a refusal is explained by reads of later states, which
is sound because sums only grow. `CostInv` therefore adds `ScopeInv`, what a
goroutine knows at each step after a refusal (at the second read the topic's or
the day's budget is exceeded, at the third the day's, …), and `StageInv`: only
the leader works during the search stage, with a query to answer. `OverStays`
says that an exceeded budget stays exceeded; `ScopeKept` and `StopKept` apply it to
goroutines and flags.

`CallsArePaid`, `BytesArePrepaid` and `FetchesAreAccounted` count. `CountInv` gives, for
each run, the balances behind them. `Paid` covers what was spent, and a share for each
goroutine that may still spend it, by a share for each row of the ledger (`Balanced`): a
page for a provider's row; for a fetch's row its size of the bytes kept and, at each
attempt, `AttemptRequests` of the requests and a size and a byte of the bytes read. A
goroutine may still make its k-th attempt (`Pending`) until it is past it, so that going
on to the next attempt gives up the share of this one, and returning gives up all that
are left. `Sized` says that all fetches of a run are of one size, and `Room` that the
rows that are written, asked for or still to come (`Rows`) fit into its budget, because
the stage divided what was left, rounding down, by the number of its jobs. `Accounted`
says that the sources taken from the jobs are those fetched, cached or given up and those
that goroutines work on, and puts `saved` between what was cached and that with what was
given up. Each step changes the counted sets by one goroutine at most (`Recounted`);
`Multiples`, `Shares` and `Balances` are the facts about products that the shares need.

Every safety property of the run is proved.

### Left out

The dimension "model calls" has a column and a limit, but nothing reserves it.
Nothing promises that a refusal stays on the control row: a granted reservation
clears the row in a statement of its own, so the clearing UPDATE of an earlier
grant may follow the stop of a later refusal by another goroutine.
What the cache returns is a choice: its own model comes later in the plan.
So is what a source answers, and which failures the client repeats. The requests of
an attempt are counted when it ends; until then, and when a process dies during it,
`CallsArePaid` has covered them as requests still to come. A body counts with the most bytes it
may have, also one that breaks off earlier. Not counted are what `drainAndClose` reads
of the body of an error's status, what the standard library reads of a redirect's, and
requests its transport repeats by itself on a connection that turns out to be closed.

## StudySession

### State and actions

Each invocation performs one operation and names the session it may start, as
identifiers are fresh. `rows` is `study_session_lifecycle`, `history` the
`session.completed` events. `inScope` stands for the goal and the curriculum
instance, which other operations pause and resume.

An operation reads the clock and then runs one deferred transaction. The
database uses SQLite's default rollback journal, so the model has its locks:
`shared` are the readers, `reserved` the writer, and the writer's changes wait in
`newRows` and `newHistory` until nobody else reads.

| Actions | Code |
|---|---|
| `Read` | the clock, the transaction's begin, `validateStudySessionScope`, `ActiveByStudent` |
| `Answer` | every return without a write: no session, an observation before the last activity, a conflict, a recent session |
| `Update`, `Create`, `RecordEvent` | the UPDATE of every column, the INSERT under the unique index, the event of a stop |
| `Commit`, `Busy`, `Fail` | commit, the refusal of a second writer, any other failure or a dead process |
| `ChangeScope` | `goalLifecycleService`'s transitions |

The policy's functions (`Accumulate`, `Finish`, `Stale`, `Recover`) keep the names
of `learning/study_session.go`. `t` is any time in `Times`: clocks of processes
differ and may be set back, and the clock is read before the lock is.

`SessionLog` is the promise: one session is open at a time, study is earned in
steps of at most an idle window, a closed session never changes, and the history
tells of closed sessions only.

### Runs

| Run | What it asks |
|---|---|
| `study_session` | three overlapping operations, clocks 0 to 3, idle timeouts of 1 and 2, failures, a goal that is paused: all invariants, the action properties, the refinement of `SessionLog` |

Bounds: three operations start a session, replace it and race a third one; a
lost update needs a start and two writers. Times 0 to 3 with timeouts 1 and 2 put an observation
before, at and after each idle boundary and before the last activity. Nothing is
fair. That operations end is a safety property here, `NoStandoff`: while one is
under way, some operation can take its next step, and since an operation has
finitely many steps, never repeats one and only waits for others, all of them end.
Deadlock is not checked because all invocations end.

### Proofs

`StudySessionProofs` assumes that times are naturals, timeouts positive, and that
`NoOne` is no invocation. Invocations may be infinitely many. The UPDATE's WHERE
clause names neither the status nor a version, so no invariant of the rows alone
can show that updates are not lost. `SessionInv` adds

- `LocksInv`: who holds which lock at which `pc`;
- `RowsInv`: one active session, and only a committed operation owns a row;
- `ReadInv`: under its SHARED lock an operation's copy equals the row;
- `WriteInv`: under the RESERVED lock the draft is the committed state with
  exactly this operation's changes so far;
- `BoundInv`: an active session has earned at most a window per activity, so that
  one more is left for its end.

`DurableStays` covers every step but a commit, `CommittedRows` says what a commit
changes; the invariants, the action properties and the refinement follow from
these two. `ActivitiesStayCounted` adds `CountInv`, which counts with the finite-set
theorems.

`NobodyWaitsInACircle` proves the standoff away for any number of operations, with the
guards of the steps written out (`CanStep`) where `NoStandoff` says `ENABLED`, which the
prover does not evaluate: whoever a commit waits for reads, and a reader can answer,
take the free RESERVED lock, or be turned away because of its holder.
`OperationsRunOut` is the other half of why operations end: each takes at most four
statements (`Left`), and no statement of another adds to them or takes its turn.

Only model-checked: `NoStandoff` in its own words, and with it that `CanStep` is what is
enabled; `StepNeedsItsGuard` proves one direction.

### Left out

SQLite's PENDING lock only delays new readers of a waiting writer. The profile
is read before the transaction and identifies the one student. `Get` and `List`
read. Two sessions can overlap in time when a clock is set back between a stop
and a start; no document promises that they do not, so the log does not either.

## BackupCatalog

### State and actions

A backup is named by the invocation that creates it. `dir` is what is left of its
directory, `created` its manifest's time; `names` and `loaded` are the lists that
one invocation of `prune` works on. The identifier is a time and random digits, so
the order of names, which decides between equal times, is any order of the
invocations.

| Actions | Code |
|---|---|
| `Begin`, `Publish` | `Create`: the clock's read, then copying, validation, the manifest and the rename of the staging directory |
| `Scan`, `Load`, `Loaded` | `prune`: `ReadDir`, then one manifest after the other; one that is missing fails `Create` |
| `Remove`, `Removed`, `Report` | `removeAll` of the oldest, begun and ended, until no more than the retention are left; the return |
| `Stop`, `Tick` | an error or a dead process at any step; the wall clock, which may be set back |

### Runs

| Run | What it asks |
|---|---|
| `backup_catalog` | three overlapping invocations that keep one backup, with every fault and any clock |

Bounds: two invocations that remove and one backup to be kept show the race; the
third publishes between their steps. Two times make the clock go forward, stay
and go back; equal times are decided by name. Nothing is fair:
all properties are safety. Deadlock is not checked because invocations end.

### Proofs

`BackupCatalogProofs` assumes the module's own assumptions: finitely many
invocations, named by numbers, and a retention of 1 to 100. `CatalogInv` is

- `TypeInv` and `ListsInv`: lists hold published backups only;
- `PruneInv`: what is listed and no longer loaded is gone;
- `KeptInv`: whoever damages a backup has seen `Retention` newer ones.

`NewestKept` is `KeptInv` read the other way: an invocation removes the oldest of
more than `Retention` listed backups, newer ones are never un-published, and
`Newer` only grows. So the missing lock does no harm here.

`StrandedBackupBars` proves what the code does not recover from. `removeAll` works in
place, so a process that dies in it may leave a directory without its manifest. Once
such a directory is `Stranded`, that is, nobody under way has read its manifest
before, it stays, and whoever has still to read it (`Barred`) never gets to
remove a backup or to report success: `Create` publishes its backup and returns an
error, every time, until somebody removes the directory by hand. No run checks this: it
is not what the code is for, but how far `RetentionHonoured` goes.

### Left out

`Create`'s report is not promised to be lasting. The retention orders by
wall-clock time and does not spare the backup just published: after the clock was
set back, with a full directory, the new backup is the oldest and is removed. And
a process that dies in `removeAll` may end the retention for good
(`StrandedBackupBars`). The properties speak of what is kept, which both leave
intact. `List` and validation only read.

## BackupRestore

### State and actions

The four components (`learning.db`, `config.toml`, `workspace.json`, the state
directory) are swapped in this order. `live` is the workspace, `staged` and
`original` are a restore's staging and recovery directories, `at` and `moves` the
loop's position and its `restoreMove`s. A content is its data and, for the
database, the index of the visible artifacts, which stay in place. `before` and
`target` remember, for the properties, what the swap began with.

`AtomicRestore` is the promise: to whoever looks while no restore is at work, a
restore is one step. It replaces the workspace by the backup, the database with the
index of the visible artifacts (`Complete`), or leaves it as it was (`Undo`), or breaks
off (`BreakOff`), and then each component is in its place or in the recovery
directory: the ones taken are kept there, and of these some are replaced. The mapping
shows the workspace as it was when the swap began until the restore has ended
(`AtRest`), and no recovery directory before (`Recovery`).

| Actions | Code |
|---|---|
| `Load`, `Stage`, `Reconcile`, `Refuse` | `loadAndValidate`, the verified copies, `ReconcileUnbackedArtifacts`, and any failure before the swap |
| `Begin`, `Preserve`, `Commit` and their failures | `replaceComponent` per component: the original into recovery, the copy into its place |
| `Remove`, `PutBack` and their failures, `RolledBack` | `rollback`, from the last move to the first; errors are collected and the recovery directory kept |
| `End`, `Die` | the removal of the recovery directory, whose failure is ignored; a dead process |
| `Work`, `Regenerate` | other commands between restores: a component written, artifacts regenerated with their index |

### Runs

| Run | What it asks |
|---|---|
| `restore` | two restores, one after the other, of a full or a bare backup, with every fault: the refinement of `AtomicRestore`, no last copy lost, an exact index |

Bounds: a second restore meets whatever the first one left, a dead one included;
a bare backup (no database, no configuration) takes the branches of absent
components. Two contents and two indexes tell old from new.
Other commands run between restores only, and write the state directory and the
artifacts; the remaining components differ from it by their place in the order
only. Deadlock is not checked because restores end.

### Proofs

`BackupRestoreProofs` assumes the module's own assumptions, and for all of its theorems
but `TypeCorrect` and `RestoresRunOut` also `~Overlap` and `~Commands`: a restore has the
workspace to itself while it runs. Without the first they are false (see below). Backups,
contents and the number of restores are arbitrary. `SequentialInv` is

- `TypeInv`, and `OwnInv`: what each restore knows of its own position;
- `AloneInv`: at most one restore runs;
- `SwapInv`: each component, by its place relative to `at`, is in one of five
  phases: `Untouched`, `Moved` (original in recovery), `Placed` (copy in its place),
  `Emptied` (copy removed again), `Undone` (as before, or, once `stuck`, with its
  original still in recovery).

`EndsWhole` reads the phases at the end of the loop, `NothingIsLost` at every step.

`RestoreIsAtomic` proves the refinement. That a completed restore is `Complete` needs to
know where `target` came from: `ImageInv` says that the staging directory holds, from its
reconciliation on, the image of the backup over the workspace that the swap will
begin with, which nobody changes meanwhile. That a restore which breaks off is
`BreakOff` needs each phase to say where both copies are, so `Undone` says it also of a
component whose removal or return failed; `Breaks` reads off the components that were
taken and those that were replaced. Before the swap and within it a step maps to a
stutter, since `AtRest` is `before`. The run checks the refinement in place of `EndsWhole`,
which says of the ends of a restore what the refinement says of every step;
`RestoreEndsWhole` still proves it.

`RestoresRunOut` says that every step of a restore leaves it fewer (`Left`, 24 at most,
the rollback included) and that nothing else adds any. It holds with other restores and
commands at work, too: whatever they do to the components, a restore comes to an end.

`IndexIsExact` also depends on restores that are over, and on which originals they
could put back. `IndexInv` says that, unless the workspace is `Spoiled`, the visible
database knows the artifacts whenever no restore swaps (`Exact`), and that a restore
that swaps has an exact original to put back and a copy to place that is exact too,
or of a backup without a database (`KnowsArtifacts`). `SpoiledStays` says that a
spoiled workspace stays one.

### Left out

`List` and the validation of manifests read only. The copying of a backup is one
step: each file is consistent by itself, but other commands may write between
two files. No lock keeps other commands away during a restore either; what they
commit between the restore's read of the index and the swap is replaced, and
the runs let them write between restores only. Nor do two restores know of each
other: one may find a component absent because the other holds it in its
recovery directory, and record no original; its rollback then puts nothing back.
No document promises otherwise, so overlap is excluded (`Overlap = FALSE`) and
named in the theorems. After a crash in the swap nothing
puts the originals back; `NothingIsLost` says that they are still there.

## PackUpgrade

### State and actions

`installed` is the user's global store of published versions, `active` the
version that `state/active-pack.json` names, `inst` and `known` the learner's
curriculum instances and the concepts with progress in each. An upgrade writes
the database and then the file; what it saved before is its backup of both. The
versions and the policy that says which may follow which are `PackVersions`, the
resolver is `PackDependency`: its search as a recursive function beside
`IsResolution`, what a resolution is whatever way it was found.

| Actions | Code |
|---|---|
| `Install` | `PackInstallerV1.Install`: resolution, then one rename that fails if the version exists |
| `SetGoal`, `ResumeGoal`, `PauseGoal`, `Learn` | the learner's commands, each one transaction |
| `BeginUpgrade`, `Backup`, `Migrate`, `PointUpgrade`, `CheckIntegrity`, `Complete` | `PackUpgradeExecutorV1`'s steps in their order |
| `Fail`, `Restore`, `RestoreFails`, `RestoreDies`, `RecordFailure` | its automatic recovery, which may fail or die too |
| `BeginActivate`, `Preflight`, `FindInstance`, `CreateInstance`, `CheckReference`, `WriteReference` | an activation: it looks, enrols the learner, then writes the reference |
| `Quit` | a dead process or a refused step |

### Runs

| Run | What it asks |
|---|---|
| `pack_upgrade` | two goals, an upgrade and an activation, two versions of the course and a dependency: agreement of reference and learner, the audit trail, repetition, progress, the resolver |
| `pack_retry` | violated: an upgrade that reports success has migrated every instance (finding) |

Bounds: one upgrader and one activator are every pair of pack commands that
overlap, and each may run again and again, after a death too. Two goals give
an instance of a paused goal, which migration must not forget. The newer course
version needs a second pack whose newest version needs the course in turn, so
that the resolver meets a cycle and has to go back. `pack_retry` has three versions
and one goal. Instances of one goal are symmetric. Deadlock is not checked because
a learner may stop.

### What the run found

`pack_retry`: the progress record of the packs says that a target left by an
earlier migration makes an upgrade fail closed. Only targets of the version it goes
to are looked for. An upgrade that died between the migration and the reference
leaves instances at its target; if the next one goes to another version, it finds
neither a source nor a target, and reports success: the learner stays on a version
that is not the active one.
`RepeatedUpgradeCompletes` says what does hold: the same target repairs it.

### Proofs

`PackUpgradeProofs` assumes that versions are records of naturals, that contents
are sets of concepts, that upgrades are not activations and that `NoVersion` is no
version, and of the manifests what a store holds (`WellFormed`): they are finitely many,
with numbered packs and versions. Goals, concepts, versions and invocations are
arbitrary. `ReferenceFollows`
and `ReportIsTrue` are not inductive. `CleanInv` says that in a `clean` history one
command is under way at most, at which versions the instances are at each of its
steps (`UpgradeAlone`, `ActivateAlone`), and that its backup is of the version it
leaves. `RepeatRepairs` needs `NearInv`: an upgrade that
began `near` has, at each of its steps, every instance at one of its two versions,
and past the migration at the new one. `OlderIrreflexive` and `OlderTransitive` are the
facts about version numbers that `TrailIsTrue` needs.

`ProgressSurvives` proves `ProgressCarried` over chains of any length, under
`SingleUpgrade` and `SingleActivation`: an upgrade and an activation may overlap, two
upgrades or two activations may not. The instances of a goal are a `Lineage`: one is
open as soon as one is archived, it is newer than those, and knows what they knew.
`LineageMoves` adds a migration to it. A backup is a lineage too, and only of goals
that still have an open instance, so that an activation that found none does not
meet one that a recovery brings back. Both conditions are needed. Two
activations that find a goal free enrol it at two versions. And with two upgrades whose
backups straddle an enrolment, the first recovery takes the enrolment away, an activation
that looks then finds the goal free, the second recovery brings the enrolment back, and
the activation makes another one: two instances are open, and the next upgrade migrates
only one of them.

`ResolverDecides` proves the resolver, for any store. Its search is a recursive function,
of which nothing is known until one exists: every step goes to a state with less `Left`
to choose and to expand (`ExpandAdvances`, `ChooseAdvances`), so a function that answers
so everywhere can be built, from the states with the least left upwards
(`SearchExists`), and the resolver is one. The same measure replaces an induction over
the search: if something fails somewhere, it fails in a last state (`LastFailure`).
`SearchIsSound` says that a selection is a resolution, with one version per pack;
`SearchIsComplete` that a search that has chosen from some resolution only, finds one:
it may choose on from that resolution, whatever other candidates it tries first.
`ResolverStaysExact` and `InstalledPacksStayUsable` (`MoreInStore`: a resolution in a
store is one in a larger store) follow.

Every safety property of the run is proved.

### Left out

Building, loading and validating an archive. `Impact` abstracts a curriculum to
its set of concepts and the change classes to what comes and goes. `Migrate` is
called without identity mappings, as the command line does. No code sets an
instance to paused or completed. A recovery restores the backup whole and discards
what other commands committed since; the learner confirmed that. `ProgressCarried`
is checked and proved with one activation at a time: two that race before the first
reference is written may enrol one goal at two versions. After a migration a
preserved state is older than its new instance, and is refused when it is saved
alone (`curriculum_instance.go:209`).

## ReviewScheduler

### State and actions

`record` holds, for each concept, the rows that its operations write together or
apart: the append-only evidence, its state in every curriculum instance, its row of
`review_schedule`, its `review_items`. `ReviewPolicy` has the pure functions:
mastery, retention, progression and scheduling. An operation that may fail is the
set of its outcomes, and the empty set is the error; `Together` makes several of
them one transaction. Every operation reads the clock before its transaction, so
`t` is any time up to `Lag` ago.

| Actions | Code |
|---|---|
| `RecordEvidence`, `RecalculateProgression`, `Diagnose` | `progressionService`, the diagnostic's answers |
| `RecalculateRetention` | `retentionService.Recalculate` |
| `List`, `Postpone`, `Skip`, `RecordOutcome` | `reviewSchedulerService` |
| `Recalculate` | `maintenanceRecalculationService.Recalculate` |
| `Create`, `Migrate` | `curriculumInstanceService` |
| `Tick` | the wall clock |

### Runs

| Run | What it asks |
|---|---|
| `reviews` | one concept, two curricula, every command with a clock that may be old: one due date, postponements hold, recalls match outcomes, listing settles and succeeds |
| `reviews_settle` | violated: recalculating again changes nothing (finding) |
| `reviews_materialize` | violated: evidence materializes a missing state (finding) |

Bounds: one concept, since every policy reads one concept's record; a second one
shares only the numbering of items. A unit of time is seven days, so that the
shortest interval ends one unit later and the longest is out of reach, and three
instants put a command before, at and after a due date. Two observations let the
second take back what the first one showed; two items are a review and its
successor. Observations are of now or, wrongly, of the future (`Ages`): backdated
ones break the listing exactly as `reviews_materialize` shows. Identifiers of
instances are random and break ties between equally recent states, so `First`, the
instance there is at the beginning, may be either; in `reviews` the newer one comes
before it, in the other two runs after it. Deadlock is not checked because the bounds
end every behaviour.

### What the runs found

`reviews_settle`: recalculation applies progression and then retention. A concept
that is due for review and then answered wrong stays due under progression, becomes
mastered under retention (its interval starts anew), and practicing when
recalculated a second time at the same clock. The document calls a same-clock
recalculation idempotent.

`reviews_materialize`: a state made from older evidence is introduced when its
instance was created; a review that was due before then fails the validation
of its schedule, and with it the recalculation of everything. Listing has the same
weakness, and `ListingSettles` and `ListingSucceeds` therefore speak of concepts whose
active curricula are no younger than their observations (`Seasoned`). Without that a
first listing may succeed and the same listing, repeated, fail: the first one projects
the state in a younger curriculum, which then is the latest updated one, and whose
introduction is after the due date.

### Proofs

`ReviewSchedulerProofs` assumes the modules' own assumptions: finitely many
concepts, numbered curricula, a threshold in percent, observations that are not
recalls (only `RecordOutcome` makes those, `review_scheduler.go:268`), and `None`
apart from every time, schedule and state. Nothing is assumed of `Lag`, of the ages of
observations (a recorded one may be of any time that is a natural number) or of the
number of commands.

`RecordInv` is what holds of one concept's record: items are named apart, one is
pending, its schedule exists with it and is due when it is (`DatedTogether`), recalls
and completed items correspond (`OutcomesRecorded`). The middle of `RecordOutcome`
has a completed item and an old schedule, so the lemmas about scheduling start from
the weaker `Based`. Each operation on a record has its lemma, which also says
`Kept` (no postponed review comes forward), `NotReopened` and `Remembers` (observations,
closed reviews and the names of reviews stay); `Committed` and the `...Step` lemmas lift
them to the specification. `AnswersAreKept` is `Remembers` of every step: a repeated
outcome always meets the recorded one, and what is derived anew is derived from all the
evidence there ever was. `FiniteMaximum` and `HighestOf` say that
`CHOOSE` finds the latest observation and the latest date: an induction over
finite sets by the well-foundedness of strict inclusion.

`ReviewListingProofs` adds what a second operation would do, under `Prompt`: a
command waits at most one unit of time, to which the shortest review interval is
rounded up, and nothing is recorded as older than it is. `TimelyInv` says what old clocks leave behind: no row
is ahead of the clock, and a state is introduced before its curriculum was created
or at most `Lag` after each observation. So an introduction never passes the due
date (`IntroducedBeforeDue`), and retention can always be projected (`DueSome`): a
listed record is listed again as it is (`ListedAgain`, `ListingIsIdempotent`).
`OnlyATakenNameRefuses` says when a listing or a recalculation is refused, for any number
of concepts: only if no review is pending and the next one's name is taken
(`NameTaken`). Listing names an item after the concept's items, but skipping after all
the student's (`review_scheduler.go:205`), so with several concepts a name may be met a
second time if two reviews of a concept are due at the same instant. With one concept
(`Single`) the name is always free (`Numbered`, `NameIsFree`), hence
`ListingIsNeverRefused` and `SeasonedEvidenceMaterializes`: evidence that no active
curriculum is younger than does materialize every missing state, which is as much of
`EvidenceMaterializes` as the code provides.

`RecalculationSettlesUnlessSlipped` needs none of these conditions. It says that what
`reviews_settle` found is the only way in which a second recalculation at the same clock
changes a state or a review, and that it always does: `Slipped` is the concept that came
due, whose score is below the threshold again, and whose new interval has not ended.
`RebuiltOf` gives a state that is taken anew by its two parts, progression's and
retention's, `AdvancedTwice` says what the first part makes of both, and `RebuiltTwice`
puts the second on it. That a concept shown as mastered or due says since when is part
of the invariant (`Fit`), since progression would date it otherwise.

Every property of `reviews` is proved, the two about listing under the conditions named.

### Left out

Scores are right or wrong; introduced, learning and practicing are one exposure.
Review type, criticality and minutes, the retention row, study events, legacy
items, the daily plan and the unlocking of dependents decide nothing here. All
curricula teach all concepts. A dry run writes nothing. The command line calls
`List`, recalculation and the diagnostic; the others are operations of the service.
`ListingSettles` speaks of items only: with two instances of equal `updated` the
code takes the first in its map's order, and the introduction may alternate.
