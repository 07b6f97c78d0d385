# A verification development of Munarium

Munarium is a server that keeps an agent's memory as a ledger of facts and runs
model calls, retrieval and durable workflows around it. This directory holds
TLA+ modules translated from its source under `src/server/src`, the TLC
configurations that check them on small instances, and TLAPS proofs of what
matters most for every size. `PROJECT.json` lists the components, the runs, the
definitions with the lines they stand for, the findings, the hazards and the
theorems in machine-readable form.

## The system

| part | state | operations | modelled by |
| --- | --- | --- | --- |
| fact ledger store (`munarium-store-pg/src/lib.rs`) | versions in a lineage tree; claims, anchors, promises, counters, findings, all stamped from one sequence per lineage | create a version, append claims, lock an anchor, register and fulfil a promise, record counts, pinned reads | `Ledger` |
| kernel (`munarium-core`: `ledger.rs`, `gates.rs`, `storage.rs`) | none | resolve the facts as of a pin, load a snapshot, run the gates | `Ledger` |
| gated command path (`munarium-server/src/service.rs`) | per command: observed head, snapshot, attempt | `append_events`: read, gate, append if the head has not moved, else gate again | `Ledger` |
| keyed commands (`command_recovery.rs`, `rest.rs`, `grpc.rs`, `state.rs`) | the tenant's policy, claims of keys, stored responses | claim, execute, complete, replay, activate, prune | `CommandRecovery` |
| daily token budgets (`munarium-store-pg/src/budget.rs`, `providers_api.rs`, `money_api.rs`, `munarium-providers`) | reservations, corrections, advisory locks, calls under way | reserve, retry, settle, refund, sweep, correct | `TokenBudget` |
| index build jobs (`munarium-store-pg/src/jobs.rs`, `datastore_jobs.rs`) | queue rows with leases, builder processes | enqueue, claim, renew, report, cancel | `BuildJobs` |
| build attempts and mirror (`attempts.rs`, `mirror.rs`, `artifacts.rs`, `datastore_builds.rs`) | leased attempt rows, staged copies on nodes, components and manifests in the object store, the artifact catalog and its slots | claim, renew, seal, publish, converge, reconcile, promote | `BuildAttempts`, `ArtifactCatalog`, `ArtifactLife` |
| version cutover and rollout (`rollout.rs`, `required.rs`, `direct.rs`, `datastore_serving.rs`) | active version, selector with its generation, readiness of every replica | activate, select, sweep, admit | `Rollout` |
| runbook executor (`runbooks_api.rs`) over index versions (`collections.rs`) | documents, runs, steps, versions with their chunks | start, checkpoint, gate, approve, build, verify, cut over, retire | `RunbookRun`, `IndexVersions` |
| source retention (`source_retention.rs`, `sources.rs`) | denials, holds, stored bytes, catalog rows | put, get, bind, deny, erase, hold, sweep | `SourceRetention` |
| money (`money.rs`) | prices, attempts, observations | begin, observe, report | not modelled |
| sessions (`sessions_api.rs`) | sessions, turns | turn, expiry | not modelled |
| context composer (`composer.rs`) | none | trim sections to a budget | not modelled |
| query execution, datastore, shapes, governance, authoring, identity, clients | documents or nothing | pure or external | not modelled |

How the parts interact. Every command of the HTTP and the gRPC plane goes
through the keyed-command wrapper, which runs it at most once per key and hands
ledger commands to `append_events`; that reads the store in several queries and
appends in one transaction. A model call made by a session, a runbook or a query
reserves tokens before it is sent. Index builds are requested as jobs by any
process and executed by builder processes as leased attempts; what they publish is
staged, promoted by an operator, and served once the rollout selector says so. Runbooks
build, verify and activate the versions that PostgreSQL itself serves. All processes
share one PostgreSQL database and an object store: no message passes between them,
and what can go wrong is what two transactions, a crash between two of them, or
a lease that runs out can do. That is the shape of every module here: an action
is one transaction or one statement, or one step between two of them.

What makes each part correct:

* Ledger: a pin is exact for every kind of row; one clock stamps them all; what
  a command gated against is the canon when its batch lands; a dispute is
  explained.
* Keyed commands: a key is executed once; an execution of unknown outcome stays
  visible; a response is replayed to its own request only.
* Budgets: a cap holds under concurrency and midnight; what may have been spent
  is never free; nothing is undercounted; corrections form a history.
* Jobs: the outcome is that of the last holder; an end is final; a lost holder
  does not lose the job.
* Attempts and artifacts: bytes before verification, verification before serving; an
  attempt that ended well can be served, and an end is final.
* Rollout: what a session pinned stays required; what blocks a replica was active; a
  replica that says it is ready holds open what it needs; a servable scope is admitted.
* Runbooks: steps in order, done is done, the run's row does not contradict its steps;
  what is active was verified by the run that activated it; what is served keeps its
  chunks.
* Retention: erased stays erased, denied gains nothing, protected bytes stay, a read does
  not outlive the denial, and every erasure that nothing blocks happens.

## The modules

Each component has a module `X` (state, one action per operation, properties),
`MCX` with what its instances need, `.cfg` files, and `XProofs` with the
theorems. `BuildAttempts` is composed with the catalog (`ArtifactCatalog`) and refines the
abstract `ArtifactLife`; `RunbookRun` is composed with the versions its runs compete for
(`IndexVersions`). The others share no state with each other, since the code has none
in common between them but the tables each one owns.

Operators marked `Mutant:` in a module stand beside the definition they spoil
and are used by no behaviour of it; they are there to show that each property
can fail (`PROJECT.json`, "mutants").

### Ledger

`chain[v]` is the lineage of a version, the other variables are the tables, and
`cmd` holds the place and local variables of each `append_events` call. A store
write is one action, because it runs in one transaction under `FOR UPDATE` on the
root of the lineage (`locked_head`). A command is `Submit`, `ReadHead`,
`ReadFacts`, `ReadAnchors` and then `AppendEvaluated`, `Regate` or `Refuse`: the
reads are separate queries and anything may be written between them. `Facts`
translates `resolve_slice` (supersession is resolved inside the pinned view and a
disputed claim supersedes as well), `LockedAnchors` the map that the anchors query
builds root to leaf, `PromiseView` the status as of a pin. Values are compared
with the exact comparison; the comparison policies only coarsen it. The verdicts
of the shape and chronology gates are an arbitrary set of blocked keys, and the
three gates that only warn are left out.

The code lets any version be written and branched at any time; `Growth = "any"` is
that code. Several promises of the documentation hold only under a discipline of
the clients: `"tree"`, a version with a child is not written any more; `"line"`,
besides, a version has one child. The runs say which one they use. The
violation runs use the weakest one that shows the divergence.

### CommandRecovery

A call is a sequence of round trips (`ReadPolicy`, `Claim` / `ReplayReceipt` /
`ReplayLegacy` or `CheckStored`, `Execute`, `Finish` or `StoreLegacy`) and may
`Stop` between any two of them: a process that dies, a database error and a
dropped handler future all leave what was committed. `begin` is one action from
the policy on because it holds the advisory lock of the key. Operators are told to
drain the writers before they activate guarded-v1; the code does not check it, so
`Enable` may find calls under way. The janitor's two deletes are separate actions
at any time, which includes every time-to-live.

`executed`, `answer` and `forgotten` are ghosts: what ran, who was answered from
what, and which executions no row of their key is left of.

### TokenBudget

A reservation is three steps: the transaction's start fixes its day, then it waits
for the advisory lock of its scope and sums, then it inserts and commits. Settling,
releasing and sweeping are single statements guarded by `state = 'held'`. A call
reserves for its tier, then for each HTTP attempt against the configuration's total;
its attempts, their records, refunds, retries and settlement follow
`send_with_retry` and the `Observer`. A granted reservation may be lost to its
caller, a settlement or a release may fail (the code only logs it), and a call may
crash anywhere. `Corrections` are the operators' reconciliations. The monetary
store that shares `money_api.rs` appears as "recorded or not".

### BuildJobs

A row of the queue is `job[j]`, with `fresh` for "claimed_at is within the lease"
instead of a clock: `Lapse` for a job nobody works on, `Stall` for one whose holder
renews too late. A builder is two tasks, the build and the renewal (`beat`). `Claim`
takes any runnable job, because `SKIP LOCKED` may pass over the oldest one. Losses
(a lost reply, a crash, a stall, a lost report) are counted and bounded, since a
job survives fewer of them than it has attempts.

### BuildAttempts, ArtifactCatalog, ArtifactLife

One plan of one index version. A build walks `mirror_index` statement by statement
(`pc`): two lookups for something to reuse, expiry of lapsed attempts, the claim under the
partial unique index, export and seal into a directory of its node, two lease checks, the
catalog's row, `mark_sealed`, then `publish_and_verify`: components, manifest,
verification, staging, success. Every node runs a reconciler; a pass begins only where the
node owns a sealed attempt and then covers everybody's, resuming its own, abandoning the
lapsed. Builds and reconcilers publish with the same actions. Leases lapse and are renewed
as a flag, any call of a body may fail, a node may crash and lose its disk or not. The
lexical engine is not byte-deterministic, so a seal yields any artifact. An operator may
promote at any time what is staged.

`ArtifactLife` is the promise in three actions: an artifact is stored whole, then approved,
then perhaps served, and nothing is taken back. Stored maps to the components and the
manifest both being in the object store.

The row's `lapsed` flag means nothing once the attempt has ended, and is kept false, so
that rows that differ in nothing the code can see are one state.

### Rollout

One collection on replicas in datastore mode. Versions are committed, staged, promoted and
activated; a session pins the version it found active; `recent` stands for
"deactivated within the pin horizon", and since the configuration refuses a horizon shorter
than a session can live, a version leaves it only unpinned (`LeaveHorizon`). An operator's
request is a sequence of statements with what it read: `op_rollout_set` reads the required
set, checks its bindings and writes by compare-and-set; an activation is guarded first and
then writes, with comparison (the API) or without (a runbook's cutover). The warmer is a
loop of places per replica; `record` is two actions, since a probe may read between its
stores. Reads and opens may fail, and a replica may start over, at most `MaxFaults` times.

### RunbookRun, IndexVersions

A version is named by the corpus it was built from, as its id is a hash of that.
`builtAt` orders versions by age, `chunked` are those with chunks. A run has its row, its
plan and at most one executor, the holder of its lock; the executor keeps the document it
loaded and the step states it read once, and walks units with a checkpoint before and
after each effect. Starting inserts run and plan, and tries the lock once; approving takes
the lock first, looks at the step, loads the document as it is now and marks the run
running in a statement of its own. `Apply` replaces the document under its name and
version, `Ingest` changes the corpus, both at any time. `Interrupt` is the process dying, a
statement failing or the executor ending with an error that no step records. `CommitStep`
keeps the first build of a run, because `step_detail` reads the first.

### SourceRetention

Bytes, catalog row and retention record of every path. An upload is check, bytes, check,
row; a read is check, bytes, check; between any two of them anything may happen. The
trigger of migration 0040 takes the path's lock and refuses writes to a denied path, which
is `Writable`; `change` and `cleanup_one` hold the same lock, so each is one action.
`later[s]` is the set of records updated after that of `s`, which is all that
`ORDER BY updated_at LIMIT 32` needs. A sweep has the list it read and the failure it has
yet to record. Sources here are those of the PostgreSQL backend; for the others only the
denial exists, and it is the same action.

## The runs

| run | asks | instance |
| --- | --- | --- |
| `ledger_commands` | is a gated batch's snapshot the canon, are pinned facts and anchors exact, while anything else is written | a tree of 3 versions, one command with a retry, one value, stamps to 2 |
| `ledger_line` | one clock for all kinds of write; is what was accepted compatible with the canon; disputes explained; pinned promises exact; batches stamped within the column or refused | a line of versions, one command with a retry, two values |
| `command_recovery` | what guarded-v1 promises | 4 calls of one key, 2 operations, 2 hashes |
| `budget_calls` | caps over midnight, spent-never-free, first settlement wins | 2 calls, a tier, 2 attempts, 2 days, units to 1 |
| `budget_corrections` | are corrections a history that never undercounts | 1 call, 2 corrections |
| `jobs_queue` | does every job end, whose outcome is recorded, and does it stay | 3 builders, 2 jobs, 2 losses, fair |
| `artifacts` | does the catalog keep the promise of `ArtifactLife`; is what ended well servable, for good | 2 builds on 2 nodes, 2 artifacts, one crash, one promotion |
| `rollout_serving` | sessions' pins, blockers, readiness, admission in the end | 2 versions, an operator, a replica, one fault, 2 writes of the selector, fair |
| `runbook` | order, finality, verified cutover and spared chunks under concurrent runs | 2 runs, 2 corpora, 2 documents |
| `retention` | erasure, denial, holds and reads under races; does every erasure end | 2 sources, an upload, a read, 2 servers, sweeps of one record, 3 changes, fair |
| `ledger_forked_gate` | a documented freshness the code does not have | the smallest tree that shows it |
| `rollout_unswept` | what a comment says of a replica that has not swept yet | 1 version, 1 replica, 1 restart |

Why the bounds are enough. A pinned read is disturbed by one write, relative to one
other version, so parent, child and sibling and two stamps contain every shape of
interference; two values are what a conflict tells apart. A command is disturbed
between its three reads and its append, and its retry is the same path again, so one
retry exercises it; the competitor is any direct write, since a landed command is to
another one what a direct write of its claims is. Values tell conflicting claims apart and
nothing else: freshness and pinned facts compare rows and need one value, what the gates
accept needs two. `OneLineage` keeps to one lineage, since lineages share no row.
Under one key, four calls are an owner, a duplicate, a mismatch and one after pruning.
With estimates of 0 or 1, a tier cap of 1 and a total of 2, calls fit alone, together,
or not at all, and usage is below, at or above its estimate. Two builds on two nodes are
each other's predecessor, sibling and reconciler, with different artifacts or the same;
a second promotion would need a second staging, which no step prepares for differently.
Two index versions are the active and the one that replaces it or is replaced; a second
replica would share nothing with the first but what operators write. Two runs compete for
versions as any number do, and a document that keeps no old version retires most; the
second document has another step at every ordinal, which is the worst a document applied
again can do. With sweeps of one record, two sources are the one that is taken and
the one that waits; three changes are a denial of each with a hold between them. Every
bound is a CONSTANT and appears in a guard (`MaxSeq`, `MaxAttempts`, `MaxBatch`,
`MaxCount`, `MaxUnits`, `Days`, `MaxLosses`, `MaxGeneration`, `MaxCrashes`, `MaxFaults`,
`MaxOwners`, `MaxChanges`, `MaxFailures`) or is the size of a set. `MaxSeq` and
`SweepLimit` are also bounds of the code, the largest stamp that a BIGINT column holds and
the 32 records of a sweep, so what the runs show near them is what happens there.
Runs in which everything may be over (all calls, all jobs, all stamps without a
command to submit) set `CHECK_DEADLOCK FALSE`; the others check it.

Fairness is assumed in three modules, and weak. In `FairSpec` of `BuildJobs` a builder keeps polling
(`spawn_builder` loops with a bounded sleep), a build ends (its storage and provider
calls have timeouts), the outcome is reported, a crashed process is started again by
its supervisor, and time passes, so that an unattended lease runs out. Claiming is fair for a builder and not for a job: a
job's turn comes because the others end. Nothing obliges a caller to enqueue or cancel.
In `FairSpec` of `Rollout` the warmer of every replica takes its next step (`spawn_warmer`
is an endless loop with a timer), and no operator, session or build is obliged to
anything. In `FairSpec` of `SourceRetention` every server goes on with its sweep and
begins another when something is pending (the loop of `state.rs` that runs each minute);
uploads, reads and operators are free to stop.

## What the runs found

Two runs end in a behaviour that the source's own words exclude.

* `append_events` may land a batch on a child that was gated before its parent was
  written: siblings and parents stamp from their own chain heads, and the child's head did
  not move (`ledger_forked_gate`).
* A replica admits traffic of a scope that the datastore serves between its start and the
  end of its first sweep: no scope counts as selected until then (`rollout_unswept`).

Modelling and checking under wider assumptions than the runs use showed more, which is
recorded here because it says what the properties do not promise.

* Ledger. A write to a version that has children changes what the children read at pins
  they had passed (`PinnedFactsStable` fails with `Growth = "any"`), although
  `conformance/SCENARIOS.md:29` says a pin is exact. Two siblings that share an open
  promise are in the same position, which is why promises are checked on a line. A counter
  recorded again replaces its row, so a read at the pin of the first count finds nothing
  (`SCENARIOS.md:30`).
* Jobs. A job whose last allowed holder is lost stays `running` for ever and answers every
  enqueue of its target. A builder that is told its lease is lost builds on to the end,
  although a comment in `jobs.rs` reads as if it stopped; its report is then dropped, which
  is `OutcomeOfLastClaim`.
* Attempts. More than one artifact of a plan may be verified, since two builds may pass the
  lookups together. A reconciler may resume a live build of its own node. A lapsed sealed
  attempt on a node that never returns waits until some node with a sealed attempt of its
  own makes a pass. A staged slot that was promoted and staged again starts at generation
  1, so a promotion that read the first generation 1 may promote the second.
* Rollout. Gate and activation are not one transaction (`datastore_builds.rs:811` says
  that running them out of order "fails loudly"): a version without a binding may become
  active while the selector flips, and replicas then stop admitting until it is bound.
* Runbooks. `retireOld` of one run may delete the chunks of a version that another run
  holds at its gate; the approved cutover then serves an empty index. A corpus whose
  version was retired is never built again, because its row counts as built. A run over a
  shorter document that was applied under it may end as done with steps of its plan
  pending. An approval of a run that has not begun may take the lock that its start tries
  once, and the run stays running; no endpoint resumes it. Verifying or cutting over
  without a built version leaves the step running, where other failures mark it failed.
* Retention. A put of other bytes at a known path that is lost between bytes and row, or
  two that cross, leave a row that names other content than the bytes (the comment at
  `retrieval-pg/src/lib.rs:473` argues for a first put). A denial during a first upload
  leaves bytes without a row, which deny-and-erase refuses to touch. What keeps erased
  bytes from coming back is the trigger of migration 0040, not the checks of the server:
  without it `ErasedStaysErased` fails.

## What is proved

The theorems hold for every value of the constants that satisfies the module's named
assumption (`BoundsAssumption`, `LimitsAssumption`, `CeilingAssumption`,
`CatalogAssumption`, `BuildsAssumption`, `RolloutAssumption`, `VersionsAssumption`,
`DocsAssumption`, `RetentionAssumption`); their listing is in `PROJECT.json`.

* `LedgerProofs`. Type correctness is inductive once the head of a lineage is known to
  be a number within the stamps' range, which rests on the tables being subsets of a
  finite set. Everything else starts from what a step does to the tables (`StepShape`):
  it creates one version or writes one, and what is new is stamped above that version's
  head. Two inductive invariants carry it: `InFlightWritable`, because a command lands
  without looking at the tree again, so its version must not have got a child meanwhile;
  and `Lineage`, the ancestors of an ancestor are ancestors and every row has a version.
  - For `Growth # "any"`: the facts and the anchors at a reached pin do not change
    (`PinnedFactsStableTheorem`, `PinnedAnchorsStableTheorem`): nobody but the writing
    version has it in its chain, and the write is stamped above every pin that version had
    reached. So what a command has read stays what a pin at its observed head says
    (`SnapshotInv`), and at an unmoved head that pin is the canon (`PinAtHead`). From
    this follow `SnapshotsAreFresh`; `AcceptedClaimsRespectCanon`, since every claim was
    observed at a pin its version had reached; and `CommandsAreSerial`: each step
    that changes the store is a direct write or the atomic command `SerialAppend`, which
    reads, gates and appends in one step. The run `ledger_forked_gate` shows `SnapshotFresh`
    failing under `"any"`, so the hypothesis is needed.
  - For `Growth = "line"`: `PinnedPromisesStableTheorem` and `WritesShareOneClock`. A
    fulfilment stamps a row of an ancestor, and siblings would give out the same stamp;
    on a single line (`OneLine`) whoever may write sees every other row.
  - For every `Growth`: `DisputesAreExplained`, since findings are stamped at the end of
    their batch and no later row can fall into it (`FindingsReached`).
* `CommandRecoveryProofs`. The unresolved claim of a guarded call is removed by nothing
  but its own completion, and a key's executions are forgotten only with the last row of
  the key, so a remembered guarded call always has a row of its key in one of the tables
  (`Named`), which keeps every other call from claiming it (`OneOwner`). From these
  follow that a key is executed once, that unknown outcomes stay visible, that replays
  are bound to their requests, and that what was answered is never run again. None of it
  needs the writers to be drained before activation.
* `TokenBudgetProofs`. Rows are identified by the call and the attempt they pay for; a row
  is released only before its attempt is sent and the tier's only while nothing was
  admitted. The strengthening relates every row to the place of its call (`RowsBefore`,
  `SentBefore`, `ReleasedBefore`) and holds that an unsettled row stands at its
  estimate (`HeldAtEstimate`). `TablesMove` then says that a step leaves the tables alone,
  reserves one row, closes one held row or corrects one settled row, and
  `SettledOnce` and `CorrectionsAreAChain` (strengthening `ChainInv`) are read off it.
  `CapIsNeverExceeded` needs the lock: a scope has one call at most between its sum and its
  insert (`LockHeld`), and what fitted when it summed still fits (`FitsStill`), for all
  that others may do without the lock is to close or correct rows, which never makes
  the counted sum larger. The sum is the library's fold over a set. That it is a function
  of the set, grows by the row added and never grows when rows shrink is shown without an
  induction theorem, from a counterexample of smallest size (`SmallestSet`, `SumsAgree`,
  `SumsExist`, `SumGrows`).
* `BuildJobsProofs`. A builder's claim number is never ahead of its job's
  (`ClaimsBehind`), and the holder's is equal to it; so a report that is taken from the
  holder carries the last claim, although `complete` compares the builder only.

* `BuildAttemptsProofs`. The refinement of `ArtifactLife` is `CatalogKeepsItsPromise`. The
  strengthening is that an attempt past `mark_sealed` is settled (`Settled`): the artifact
  its row names never changes again, so a reconciler may go by the row it listed, however
  old. Every place of the publication has its predecessors behind it (`WorkerInv`),
  manifests are among the components, and what is verified has a manifest (`Published`);
  nothing takes any of it back. So each step stores, approves, serves or is a stutter.
* `RolloutProofs`. What a sweep requires is open, blocked or still to do (`SweepInv`), and
  an activation asked for is of a committed version (`AskedFor`). That a pinned version
  stays required needs only that activation stamps what it deactivates.
* `RunbookRunProofs`. A run's rows are written under its lock only. `Knows` states what the
  holder knows at every place: everything behind it is done, everything ahead of it is as
  it read it, and in an effect its own step is marked running. Order and the explained
  run state follow, and so does finality, because a step seen undone is undone.
  `ActiveIsVerified` assumes `VerifiesFirst`: in every document a cutover stands after a
  verification. The code does not enforce that on documents; those of the run satisfy it,
  and without it the property is false. No checkpoint renames a step, so every plan has
  the same order, and a built version stays the version of its run; hence a run that
  cuts over has verified the very version it activates.
* `SourceRetentionProofs`. A completed erasure is of a denied path, no denial is taken
  back, and a fetch that came late is of a path denied to this day (`LateIsDenied`).

Every invariant and every action property of the passing runs is a theorem, under the
hypotheses named above. Only model-checked are `EveryJobEnds`, `EventuallyAdmits` and
`EveryErasureEnds`, since liveness under fairness is out of the proof system's reach.
The properties of the two violation runs are refuted there: `AdmitsOnlySwept`, and
`SnapshotFresh` when `Growth = "any"`.

## What is not modelled, and why

* Monetary accounting: every write is one transaction, serialised by the tenant's advisory
  lock or the attempt's row lock, and a trigger keeps the tables append-only.
* Sessions: turns are model calls (`TokenBudget`) and reads of an index version
  (`Rollout`); closing and expiry are single updates of a state that a turn reads once.
* Runbooks: removal, which asks for a confirmation and deletes in a second request; the
  fan-out over several collections, which is one sequence of units after the other;
  suggested data views.
* Artifacts: the shadow slot, an operator's rebinding of a slot that is taken, direct
  builds and backfill (the same publication after another export), and the collection of
  retired artifacts.
* Rollout: heartbeats and fleet expectations, which only make the gates stricter, shadow
  sampling, and prewarming under PostgreSQL, which gates nothing.
* Retention: evidence paths, which bypass the record by construction.
* Digests and the text of claims (derived, not stamped); the warning gates and the text
  heuristics (they change no stored state); text-only commands (their findings are best
  effort by design); the per-minute rate limiter in memory in front of the daily budgets.
* The composer, ranking, fusion and indexes are pure code without interleavings; payload
  formats, rendering, authentication, the clients and the command line are conversions.
  Governance, authoring and shapes replace whole documents by one compare-and-set. The
  memory store repeats the PostgreSQL store's operations under one mutex.

## What could come next

An abstract ledger, a single append-only log with reads as of a pin, which `Ledger` under
the discipline `"line"` implements (`CommandsAreSerial` is its commands' half); a proof
that `BuildJobs` implements a queue that gives each job to one builder at a time; removal
of runbooks in `RunbookRun`; and a composition of `BuildJobs` with `BuildAttempts` in which
a job's builder runs an attempt.
