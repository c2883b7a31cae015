# A verification of newapi-monitor in TLA+

newapi-monitor is a sidecar of a new-api gateway. It reads the gateway's `logs`
table in MySQL through a bounded read-only account, keeps what it learned in
SQLite, and serves dashboards, e-mail alerts, a public status page and the usage
portal of the customers, with monthly bills. Around it are agents: a collector of
nginx logs, a hook of logrotate, an agent that archives ECS logs, and one-shot
commands for finance.

This directory models the parts of it whose correctness depends on the order in
which several actors take their steps: durable task tables and queues, imports of
books kept elsewhere, delivery over a network that loses answers, leases and locks,
and files that must survive a crash. The modules are checked with TLC on small
instances; theorems about eighteen of them are proved with TLAPS for every value of the
constants, and carried over to the instances that TLC explores.

Contents: 1 Inventory · 2 Modules and the code they stand for · 3 Runs · 4 Bounds and
fairness · 5 What the checks found · 6 Proofs · 7 What is only model-checked, what is
not modelled · 8 Plan

## 1. Inventory

### How the parts interact

```
 gateway MySQL logs --(one leased source epoch)--> samplers, usage facts, stability
 nginx files --> nginxcollector --(POST, ack, confirm)--> Monitor: nginx ledger
 upstream providers --(host guard, circuit)--> channel upstream sync
                      |
        main store (SQLite)   facts store (SQLite)   receiver databases (SQLite)
                      |                |                     |
   pages, alerts, public page    usage portal       draft tasks -> publication
                                       \________ bills ________/
```

* No transaction spans two databases. The member list lives in the main store and
  is mirrored into the facts store; a bill lives in the main store, the journal of
  its publication in the receiver's.
* Background loops share process memory with request handlers through mutexes and
  through the databases. A handler (repair, member change, cancellation, withdrawal)
  may run between any two transactions of a loop.
* Several processes may run on one host or several; leases (a row with a deadline and
  a random token, or MySQL's GET_LOCK) keep them apart.

### Components

| component (source) | state | operations | hard behaviour | correct when |
|---|---|---|---|---|
| Monthly draft tasks (`internal/monthlytasks`) | one row per task: state, attempts, lease, draft hash | submit, retry, invalidate, claim, renew, complete, fail | expired leases, late answers, clock steps | one holder; the draft is the last attempt's; attempts are never refilled |
| Publication (`internal/monthlydraft`, `portal_monthly_*`) | selections, payloads, journal row per task, bill per month, audit of withdrawn bills | select, claim, audit, bind, publish, finish, withdraw, release payload | crash between two databases, overtaken finalizer | one bill per task, (re)issued only by the holder of the row, payload kept while needed |
| nginx source v2 (`cmd/nginxcollector`, `nginx_source_v2.go`) | registered files, range ledger and watermarks; fsynced cursor | register, post range, prove, confirm, rotate, retire | lost, delayed, repeated requests; crash between save and send; rotation | every line counted once; a lost answer can be repaired; both sides agree on the files |
| nginx reopen hook (`cmd/nginxreopen`) | writer-release proof | USR1, stamp | order against the collector's scans | a retired file had no writer |
| Export manager (`internal/usagebill/exportjobs`) | registry, channel, artifact directories, open downloads | submit, open, cancel, sweep, run, close | cancel/expiry/close against worker and download; failing removals | a stream keeps its file; nothing is orphaned; ready means whole |
| Export session recovery (`exportjobs/recovery.go`) | lock files, session directories | recover at start | owners starting and dying meanwhile | a live session is never removed |
| Usage facts, rolling window (`usage_facts*.go`) | hour facts with hash proofs, daily facts, cursor per member, sync state | tail, backfill, reconcile, fold, prune, publish, repair | repairs and member changes between the steps of the loop; late logs; crash | a cursor stands for imported hours; the published window is whole; late logs arrive |
| Usage members (`usage_member_lifecycle.go`) | control row with revision | add, remove, group | re-adding under a new revision | old snapshot never passes for the new membership |
| Usage facts, full history (`usage_facts_jobs.go`) | leased jobs per member | claim, discover, backfill, verify, publish | takeover of stale claims, publication while members change | every published hour is proved |
| Live projection, audit, page import (`usage_facts_live*.go`, `_audit`, `_page_import`) | projected hours, audit cursor | project, audit, import | two lanes import overlapping shards; late logs | a proved hour counts every log once |
| Source supervisor (`source_lifecycle.go`) | lease, epoch, failure class | preflight, acquire, run epoch, drain | the server frees the lease while the epoch runs; stale failure report; drain time-out | epochs of two instances do not overlap; a stuck worker blocks the next epoch |
| Traffic sampler (`sampler.go`) | metric rows, finalize and coverage watermarks | sample, finalize, backfill, replay | live finalizer, replay and pruning against a long backfill | coverage is never claimed for a gap |
| Stability (`stability*.go`) | hour rows, jobs, adaptive batch | sample, backfill, retry, resume | resumed jobs, repairs and pruning by different boundaries | an ended job accounts for every hour |
| Upstream guard (`upstream_guard.go`) | slots, circuit per host | round trip | global slots held while waiting for a host; saved circuit out of order; circuit read before the wait | bounded concurrency; an open circuit is respected |
| Channel upstream sync (`channel_upstream*.go`) | cursors, pages, token pipeline locks | sync, repair, retire | a refresh consumes the stored token; deadlines, cancellations | the account keeps a valid token |
| Result cache (`cache.go`) | local and remote entries, flights, gates | get, fill, refresh, delete | delete during a fill; canceled leader; panicking fill | no value older than its deletion is stored |
| nginx v1, errors, evidence (`nginx*.go`) | batches, evidence | ingest | repeated batches | idempotent |
| Alerts, probes, incidents (`alert.go`, `probe.go`, `incident_*.go`) | alert log, incident state | evaluate, fire, advance | cooldown read, mail and log are three steps; reordered observations | at most one mail per cooldown |
| Stores and backups (`store*.go`) | SQLite files, snapshots, plan reference | migrate, snapshot, prune, restore | crash between snapshot, reference, pruning | never migrate without a pinned way back |
| Portal bills, display series, cents (`portal_monthly_*`) | bills, series | prepare, publish, view | chains over months | totals reconcile |
| Monthly capture and preparation (`internal/monthlysource`, `monthlydraft/preparation*.go`) | files named by hash, checkpoints | capture, resume, hand off | crash in mid-capture | a month is captured from one consistent source |
| Local workers (`monthlydraft/worker.go`, `display_series_worker.go`) | memory | loop | stop and restart | every task is tried |
| Portal accounts and exports (`portal.go`, `portal_bill_*`, `portal_export_*`) | sessions, tasks | handlers | authorization changing during a request | answers only to the owner |
| Finance reports (`finance_report*.go`) | queue, caches | submit, drain, shut down | submission against the worker's end, eviction, shutdown | no job without a worker |
| Finance workflows (`finance_gift_*`, `finance_recharge_*`, `financecur`, `financecredit`) | plans, receipts | create, approve, run, inspect | crash between commit and receipt | done once |
| Channel cost and pricing (`channel_cost_*`, `channel_economics*`) | versioned contracts | save, report | – | history is never rewritten |
| Customer health, statistics, groups | hour rows | sample, query | – | coverage is honest |
| Log chain investigations (`logchain*.go`) | task table, one active per operator | create, run, recheck, cancel | cancellation against execution without the lock | a result claims no audit row that is missing; canceled stays canceled |
| ECS log agent and archive (`internal/ecslogagent`, `ecsarchive`) | journal, chained objects, closure | freeze, put, close, replay | lost answers, crash between journal and object | the chain has no fork and no gap |
| Infrastructure and capacity (`infra*.go`, `capacity*.go`) | inventories | poll | – | – |
| Server, settings, authentication, pages | sessions | serve | – | – |
| Commands (`cmd/*`), observability, money (`internal/usagebill`) | – | one shot; arithmetic | – | – |

`PROJECT.json` has the same list with sources, modules and status, and the hazards at
their lines, each with the property that watches it. The modules were chosen from the
hazards: a row with a "–" under hard behaviour has no module.

## 2. Modules and the code they stand for

| module | models | kind |
|---|---|---|
| `DraftLifecycle` | what the task table promises its readers | abstract specification |
| `MonthlyTasks` | `internal/monthlytasks` | component; implements `DraftLifecycle` |
| `MonthlyTasks_proofs` | – | theorems about `MonthlyTasks` |
| `MonthlyPublication` | `internal/monthlydraft` with the bills of the main store | component; composes `DraftLifecycle` |
| `MonthlyPublication_proofs` | – | theorems about `MonthlyPublication` |
| `ByteDelivery` | what the nginx pipeline promises | abstract specification |
| `NginxSourceV2` | `cmd/nginxcollector`, `monitor/nginx_source_v2.go`, `cmd/nginxreopen` as the collector sees it | composition of both ends and the network; implements `ByteDelivery` |
| `NginxSourceV2_proofs` | – | theorems about `NginxSourceV2` |
| `ExportJobs` | `internal/usagebill/exportjobs/jobs.go` | component |
| `ExportJobs_proofs` | – | theorems about `ExportJobs` |
| `ExportSessions` | `exportjobs/recovery.go` | component |
| `UsageFacts` | `monitor/usage_facts*.go` in rolling-window mode, `usage_member_lifecycle.go` | component |
| `FullHistory` | `monitor/usage_facts_jobs.go`, `usage_facts_history.go` | component |
| `RawPages` | `monitor/usage_facts_page_import.go` | component |
| `MetricWatermarks` | `monitor/sampler.go` with the rows of `store.go` | component |
| `StabilityBackfill` | `monitor/stability_backfill.go` | component |
| `UpstreamAccount` | `monitor/upstream_account_gate.go`, `channel_upstream*.go` | component |
| `UpstreamGuard` | `monitor/upstream_guard.go` | component |
| `SourceLifecycle` | `monitor/source_lifecycle.go` | component |
| `ResultCache` | `monitor/cache.go` | component |
| `FinanceQueue` | `monitor/finance_report_queue.go` | component |
| `LogChainInvestigation` | `monitor/logchain_investigation.go` | component |
| `StoreMigration` | `monitor/store_migration_backup.go`, `openStore` | component |
| `StoreRestore` | `monitor/store_reliability.go` | component |
| `ArchiveChain` | `internal/ecslogagent`, `monitor/ecs_log_archive_*.go` | composition of agent, bucket and Monitor |
| `MCMonthlyTasks`, `MCExportJobs`, `MCUsageFacts`, `MCFullHistory` | – | small instances of one module |
| `MonitorParts_proofs` | – | theorems about `SourceLifecycle`, `FinanceQueue`, `ResultCache`, `UpstreamAccount`, `UpstreamGuard`, `ExportSessions`, `StoreRestore`, `LogChainInvestigation`, `StoreMigration` and `ArchiveChain`, one named instance each |
| `BooksParts_proofs` | – | theorems about `UsageFacts`, `FullHistory`, `MetricWatermarks` and `StabilityBackfill`, one named instance each |
| `MCMonitor`, `MCBooks` | – | small instances of several modules for one run each; the parts share no state, and a behaviour is one of one part |
| `MCMonitor_proofs`, `MCBooks_proofs` | – | the properties of `MCMonitor` and `MCBooks`, from the theorems about their parts |

The line ranges of every definition are in `PROJECT.json` under `map`. A definition
named `X_Something` next to a definition `X` is a plausible error in `X`; it is never
part of the specification. The header of each module says what it abstracts from.
`MCMonitor` and `MCBooks` instantiate the proof modules where there are any (these extend or
instantiate the components they speak of), so that a theorem and a run name the same definition.
An instance of a proof module with several parts gives values to all of them; `MCBooks` has
three, and runs each part under the values of one or two.

### The draft tasks and their bills

**MonthlyTasks.** One row per descriptor (`rec`), the lease each process remembers
(`held`), the clock (`now`) and a counter that stands for fresh random tokens (`issued`).
Each store operation takes SQLite's write reservation before its first read, so it is one
action: `Submit` (also `SubmitWithInputs`), `Retry`, `Invalidate`, `Claim`,
`ClaimExhausted` (a claim that finds an expired lease with no attempt left), `Renew`,
`Complete`, `Fail`. `Drop` is a worker that stops or forgets its lease, `Tick` and
`StepBack` are the host's clock. `ValidRow` is `validRecord`: an operation that would read
or write a row outside it changes nothing, as in the code. A draft is named by its task
and the attempt that computed it, which is what lets the model tell a stale draft from the
right one.

**MonthlyPublication.** The receiver's database (`life`, `chosen`, `past`, `hot`, `job`),
the main database (`bill`, `withdrawn`) and the memory of the worker processes (`proc`). A
publication is `Pick`, `Claim`, `Audit`, `Bind`, `Publish`, `Finish`, each its own action
because each is its own transaction, on one of two databases or on none. `Crash` may come
after any of them; `Late` is the finalizer's context running past its deadline and
`ComesDue` an expired lease or a retry that is due. Operators select, withdraw a selection,
withdraw a bill and invalidate; the maintenance audits an archive and releases a payload in
two steps. The draft tasks are not modelled again: the module uses `DraftLifecycle`, which
`MonthlyTasks` is proved to implement.

**ExportJobs.** Each critical section of the manager's mutex is an action: `Submit`,
`Open`, `CloseArtifact`, `Cancel`, `WorkerSweeps`, the worker's `Take`, `Prepare`, `Build`,
`Fail`, `Publish`, `Settle`, and both halves of `Close`. The publishing and the settling
section of a run are separate actions, as in the code, so that a sweep, an `Open` or a
`Cancel` may come between. `Expire`, `Timeout` and `Cool` are the three things the code
asks of the clock; `DiskFails` makes removals and the creation of directories fail.

**ExportSessions.** The directories of those managers: a starting process takes the guard,
looks at each session, opens and locks its lease file, looks again and removes it file by
file; then it makes its own directory, lease and marker. Every one of these is an action,
and a process may die after each, which frees its file locks and leaves its files.

**FinanceQueue.** `submit`, `forget`, the worker's taking and ending of a job, its end, and
`shutdown`, one action per section under the mutex. The history of ended jobs is bounded,
and a submission evicts the oldest.

### The deliveries

**NginxSourceV2.** `dir` is the log directory with nginx's open file and the proof of
writer release, `srv` Monitor's tables, `net` requests that were given up and may still be
executed, `disk` the fsynced cursor, `pc, w, job, await, reply` the collector's cycle.
Every file system save and every request is an action; `Deliver` executes a request and
answers it if its sender still waits. `Fault` gives a request up, `Crash` loses everything
but `disk`. Offsets count whole lines. A hash is the value it is computed from: a manifest
hash is the list of registered files, a content hash is the range.

**ArchiveChain.** One lane: `journal` is the agent's file, `sent` the uploads under way,
which may be stored or lost at any later time, `bucket` the objects, `acked` what the
collector was told, `receipt` the chain that Monitor has replayed. `Freeze` gives a batch
its predecessor and saves the journal before anything is sent; `Close` writes the closure;
`Accept`, `Reject` and `Postpone` are what the replay does with the next object it reads,
in whatever order it is listed.

**LogChainInvestigation.** Per task the status an operator sees, the audit rows its result
claims and those that could not be written, and the position of the goroutine that works
on it. A section under the mutex and the writing of an audit row are actions; the evidence
is fetched between them, without the mutex.

### The imports

**UsageFacts.** Hours are numbered; an hour's content is a version, and a content hash is
the version it was computed from. `source` is the gateway, `fact`, `proof`, `running`,
`daily` the hour and day tables, `mirror` the member rows with their cursors, `sync` the
published state, `loop` the position of the one import loop and what it read before. The
loop's transactions are separate actions (`Claim`, `Ensure`, `Commit`, `AfterHour`,
`SetCursor`, `PruneReads`, `PruneWrites`, `Rewind`, `Publish`, `Advance` …), because the
requests of operators (`AddMember`, `RemoveMember`, `RequestRepair`) and the passing of
hours (`CloseHour`, `LateLog`) may come between any two of them.

**FullHistory.** `job` is one durable job per revision of a member, with its kind
(discover, import, tail, verify), its cursor and its end; `day` and `hour` are the proofs,
`row` and `range` what is published. `Working` is the worker of the jobs, `Looping` the
usage-facts loop; both reconcile (`ReconcileRead`, `ReconcileWrite`, two steps, since the
members are read from another database), and each of their source queries and transactions
is an action.

**RawPages.** The same import in its page mode. `facts` counts how often each log has been
added to the hour facts, `row` is the cursor row of a shard's first hour with the state of
both passes, `proof` and `day` what has been signed, `live`, `recent` and `job` the cursors
of the lanes. `Import` is a turn of a lane in its transactions: opening a shard (which
clears or narrows others), adding a page, reading the second pass, comparing, proving, and
moving the cursor. A turn may break off after any of them.

**MetricWatermarks.** `fact` says by which rule each minute was read and whether it was
final then, `hour` which minutes an hour row sums, `mark` is `MetricFinalizeState`.
`Sample`, `Finalize`, `Advance`, `Replay`, `ReplaySaves`, `Maintain` are the loop's
transactions; `FillReads` … `FillPublishes` those of a backfill that an operator started.

**StabilityBackfill.** `hour` holds the state of each hour's row and whether it shows
traffic, `job` the rows of the jobs, `worker` the one goroutine at a time that runs a job or
a repair. The source's coming and going (`SourceReturns`, `SourceLeaves`), failing queries
(`Breaks`), closing hours, pruning and minute facts that refute an empty hour are actions
of their own.

**UpstreamAccount.** `valid` holds the tokens the provider accepts, `stored` what the database
knows, `op` what each operation knows. Waiting for the account's gate, loading, refreshing,
querying, choosing the context for the save, and saving are separate actions; `Cancel`,
`Expire`, `StoreFails` and `Crash` may come at any of them. `harm` records that one came
while only the operation knew the token.

### Locks, guards and caches

**SourceLifecycle.** `lock` is the server's view of the advisory lock, `link` the
connection a process holds it with, `sup` the supervisor, `workers` the goroutines of the
epoch. `Cut` and `Failover` end a session under its owner, `Reap` is the server noticing.

**UpstreamGuard.** The semaphores, the circuit in memory and in the store, and per request
its position: circuit and pacing are read, the request waits, is sent, is answered and the
circuit is saved, in separate sections. `Restart` forgets the memory. `asked` and
`forgotten` are history: the cooldown a host imposed last, and whether that one could not
be saved before a restart.

**ResultCache.** One key: the entry, the fill gate, the two flights and the position of
every caller. A value is the version of the source it was computed from.

### The stores

**StoreMigration.** `stage` is how far a start has come; every step from the locks of both
databases to the published snapshot, its reference, the pruning, the columns and their
defaults is an action, and `Stop` may come after each.

**StoreRestore.** `dir` is the directory as the processes see it and `disk` what of it
survives a power failure; the three markers and two databases are put in place by separate
actions of a restore, and read by a starting Monitor.

## 3. Runs

A run is a module with a configuration. The states are TLC's distinct states; the times
are those of two cores.

| run | question | states | result |
|---|---|---|---|
| `monthly_tasks` | Do leases, attempts and drafts stay consistent while two processes race, stall and crash, and does every submission settle? Does the table implement its contract? | 270,741 in 1½ min | holds |
| `nginx_delivered` | If nothing is deleted, is everything delivered and every marker cleared? | 94,147 in 30 s | holds |
| `nginx_lost_ack` | The same for the markers, if a drained file may disappear | 7,246 | violated, section 5 |
| `export_progress` | Is no file in use taken and none left behind, does every task get its turn, is what was canceled removed, and does Close finish, though removals fail for a while? | 208,442 in 40 s | holds |
| `usage_facts_converge` | Do late logs, failed queries and repairs, or a member's coming and a crash, end in correct facts, and is every member served? | 162,293 in 40 s | holds |
| `usage_repair` | The cursor's meaning, with repairs asked for by operators | 4,080 | violated, section 5 |
| `usage_midnight` | Does the published window contain only days with a daily proof? | 15,662 | violated, section 5 |
| `monitor` | The safety of thirteen parts that share no state: source epochs, investigations, guard, cache, upstream account, migration, restore, sessions, archive chain, publication, nginx lane, the task table under a clock that is stepped back, report queue | 811,004 in 45 s | holds |
| `books` | The safety of what is read elsewhere and kept: usage facts in both modes and by pages, stability hours, metric watermarks | 1,891,397 in 1 min | holds |
| `upgrade_alerts` | Does an upgrade keep the alerts switched on, wherever a start ends? | 3,089 | violated, section 5 |
| `history_verify` | Has a job that is verified imported all it is to verify? | 904 | violated, section 5 |
| `metric_hours` | Does a covered hour sum all its minutes? | 111 | violated, section 5 |

Every property of a run that holds has a mutant: a definition changed as a slip in that
piece of code would change it, under which the property fails in the same configuration.
In the two host modules a property speaks of the behaviours of its part and includes that
part's type invariant.

What the properties say:

* **MonthlyTasks** – `Consistent`: rows are well formed, and leases drawn are attempts
  counted, so no retry, crash or expiry refills the budget. `SingleHolder`: at most one
  process passes the fence for a task. `DraftOfLastAttempt`: a ready draft is the one of
  the attempt counted last, so a process that was overtaken cannot have written it.
  `LifecycleSpec`: the refinement of `DraftLifecycle`. `EverySubmissionSettles`.
  `FencedNeverRefused` (in `monitor`): a worker that passes its own check is never refused
  as corrupt, though the clock was stepped back.
* **MonthlyPublication** – `BillsAgree`: every bill of a task, standing or withdrawn,
  carries the digest bound in its journal row; no lost answer, crash or refusal turns into
  success; one process with time left is past the fence; leases are attempts.
  `PendingKeepsPayload`: maintenance never frees the payload of a draft that may still be
  published. `ReissuedOnlyByHolder`: a bill appears, for the first time or again after a
  withdrawal, only through the attempt that holds the unexpired lease of its row, with the
  evidence this attempt audited and the row froze; so neither an overtaken process nor a row
  that is saved, paused or waiting issues one. A past selection stays past. It does not say
  that a withdrawn bill stays down (section 5).
* **NginxSourceV2** – `CountedOnce`; `Recoverable`: what Monitor holds beyond the cursor is
  always covered by a chain of ranges the restarted collector accepts; `SidesAgree`: both
  ends agree on the files, and repeating a registration or a confirmation after lost
  answers is never an error; `DeliverySpec`: the refinement of `ByteDelivery`;
  `EverythingDelivered`, `LostAckRepaired`.
* **ExportJobs** – `FilesAreKept`: neither a download nor the worker loses the file it
  uses. `NothingOrphaned`: every file belongs to a registered task. `OneTaskPerGroup`.
  `StoppedNeverReady`: a run that was stopped does not publish. `EveryTaskLeavesQueue`,
  and `RemovalsFinish`: what is canceled or expired is removed, and Close removes the root.
* **ExportSessions** – `LiveSessionKept`: the session of a living manager is whole and
  locked by it, whatever recoveries run or die beside it.
* **FinanceQueue** – `ReportsServed`: what is queued has one place and a worker to come to
  it, what runs is the worker's, and after a shutdown that returned in time nothing is built.
* **ArchiveChain** – `ClosureCoversAcks`: a chain reported as closed contains every batch
  that was acknowledged or stored, and the stored chain has no fork.
* **LogChainInvestigation** – `NoAuditOverclaimed`: no result, also none from the cache,
  claims an audit row that was not written, and Close waits for every task.
  `CancelledStays`: a canceled task never shows a result.
* **UsageFacts** – `CursorIsCompletePrefix`: every hour of the window below a member's
  cursor has a proof; `BecomesReadableWhole`: a member that becomes readable has every
  published hour proved at that moment; `FactsConverge`, `EveryMemberServed`.
* **FullHistory** – `PublishedIsProved`: a published member was verified up to the day of the
  right edge; and of one that the readers' checkpoint (`CheckpointReady`) still accepts, every
  day since its first log is imported and every hour of the last day was read from the current
  source, although the checkpoint looks at cursors only and never at a proof.
* **RawPages** – `SignedIsExact`: an hour is proved and a day signed only for facts that
  count every log that was there once, whatever the lanes do to each other's shards.
* **MetricWatermarks** – `CoverageIsHeld`: a covered minute was read when it was final, and
  by the current rule where FRT is covered.
* **StabilityBackfill** – `HoursAccounted`: a job that has ended accounts for every hour of
  its range, as read or as failed; an hour sealed with traffic is not opened again.
* **UpstreamAccount** – `AccountKept`: unless an operation is stopped while only it knows
  the token, the account keeps a valid token and open lanes, and no lane undoes what an
  administrator saved.
* **UpstreamGuard** – `CooldownKept`: no request is sent before the cooldown its host
  imposed is over, also after a restart, unless that very cooldown could not be saved (a
  failed save of an earlier one excuses nothing); requests to one host keep their distance.
* **SourceLifecycle** – `Fenced`: workers run only under the lock, unless its connection was
  broken under them; Close ends with the last worker.
* **ResultCache** – `NeverStale`: after a deletion that waited for the gate nothing
  computed before it is stored, and no value replaces a newer one.
* **StoreMigration** – `RollbackPoint`: once a plan has touched a store, the reference pins a
  whole snapshot of both stores from before that plan.
* **StoreRestore** – `RunsOnPair`: a Monitor runs on both halves of a restored pair or on
  neither.

## 4. Bounds and fairness

**Tasks.** Two tasks of two organizations and two processes suffice for every race over one
row and for the activity limits; `MaxAttempts` is 2 (the code's 3 adds no new comparison).
`LeaseTime` and `AttemptLimit` are 2 clock units, so that a lease can be renewed, expire,
and reach the attempt's limit. In the live run the clock is advanced only while a deadline
lies ahead: waiting longer changes no comparison, and `MaxTime` is never reached. The part
with a stepped clock has a table of two rows for three tasks, two of one organization, one
process and `AttemptLimit` 3, and steps the clock back freely within three units.
*Fairness:* time passes; workers keep claiming (their loops poll); an exhausted task is
looked at; a worker without its lease gives up. Completing, failing or renewing is never
assumed.

**Publication.** Two drafts of one month are what selection, replacement and withdrawal can
tell apart; two processes overtake each other; three digests are audits that disagree. The
two drafts have one attempt each; a second instance has one draft and two attempts (code:
3), which include a last one after a retry. The theorems of section 6 hold for any number
of both.

**Nginx.** Two files with two lines allow a rotation, a deletion and ranges of different
length; two payloads make a repeated range differ from the first; one fault, a lost answer
or a crash at any step, and one abandoned request in flight, executed late or twice; the
theorems of section 6 hold for any number of each. The
live run has three files and two rotations with one line each, and two faults.
*Fairness:* the collector's
cycle repeats (its main loop); a request that is waited for is answered unless a fault
takes it, and faults are bounded; nginx reopens its log after a rotation (the hook sends
USR1 and waits). Nothing is assumed of rotation, deletion or abandoned requests.

**Exports.** Two identities of two groups for two places force joining, waiting, replacing
and a queue with stale places; that a further group is refused rests on the theorem
`OnePerGroup`, which holds for every limit, and all safety properties hold by theorem for
any number of identities and groups. One period of failing removals, of any length.
Identities are drawn at random and never twice, so an identity returns only after its last
trace, the place in the channel, is gone. *Fairness:* the goroutine runs and its ticker
fires (strong fairness for the sweep, because `select` chooses at random between a ready
ticker and a filled channel); downloads end; the disk recovers; `Close` returns once. A
builder's success is never assumed.

**UsageFacts.** Days of two hours, a window and retention of one day, so that hours leave
the window and are pruned while others are imported; two days pass. `TailHours` is 1 (code
3), so that the tail and the backfill meet within a day. In `books` one member leaves and
returns under a new revision with a crash at any step, or of two members one comes or goes.
In the converging run a behaviour meets a change of the members, or a crash, or a late log
with a failing query, or a late log with a repair. *Fairness:* the loop takes its turns and its timers keep
firing; an abandoned lease expires (it has a deadline). Strong fairness where the loop's
choice between ready timers is repeated but not fixed.

**FullHistory.** One member of two days of two hours, once leaving and returning at the turn
of a day, once with a failing query, a crash or a newly signed source, once with late logs;
two attempts where something may fail. Both goroutines run in each. Safety only; the theorem
of section 6 holds for any number of members, revisions, sources, faults and hours.

**RawPages.** An hour without logs and two with three in pages of two, one page a turn and
shards of one or two hours, so that a turn ends inside a shard and a shard inside another
lane's; the second log may come late and shift the pages; the job may have been left in the
middle of a day by a worker of an earlier version, which makes the realignment happen. All logs carry
the same amounts, so sums only count. The final hour stands still: the live lane then has
everything to do that one turn of the clock gives it. Reading the readiness and the
controls of a day is one step, as is deleting a dense row and narrowing the span. No
liveness is stated: under a perfectly adverse schedule two lanes can reset each other's
facts for ever, and nothing in the code but the difference of their paces prevents it.

**MetricWatermarks.** Three minutes of a clock over hours of two minutes; a backfill of one
or two hours; a retention of three minutes, so that pruning, finalizing, replay and backfill
touch the same hours. Loading the row and renewing it is one step. Every minute has traffic.
In `books` the backfill is of one hour and the hour rows are not followed (`Followed` is empty), since no step reads them;
`metric_hours` follows three.

**StabilityBackfill.** One job and one repair over three hours, of which the first leaves the
retention and the second may show traffic in its minute facts; two attempts; ranges of one
and two hours. The rows of jobs live longer than the instance, so their deletion never
happens in it.

**UpstreamAccount.** Two operations of any lane or of the administrator and two tokens: one
operation consumes the stored token, the other comes with it. The theorem holds for any
number of both.

**The other parts of `monitor`.** Two processes with one goroutine in an epoch (source); two
investigations of one operator; two requests to one host, four ticks, cooldowns of one and
two; three readers and a deletion over three versions; two plans and four snapshots of
which one is retained; two restores and a Monitor; two processes and three sessions in a
directory of two entries; two batches, two requests at a time and a journal of three
entries; four reports for two places and a history of three. Names that a part tells apart
only by identity are symmetric. These parts are checked for safety only. What holds of them
holds by theorem for every number of processes, requests, versions, plans, batches and
reports, so the instances only have to show that the steps are taken and that the mutants
of the definitions are found.

Deadlock is not checked where the bounds on time, tokens and log lines, or a completed
`Close`, leave nothing to do. It is checked in the runs of `UsageFacts` alone, whose loop
must always be able to go on.

## 5. What the checks found

* **A lost acknowledgement is not repaired once another file is missing**
  (`nginx_lost_ack`, `LostAckRepaired`). The start of a cycle recovers pending ranges
  before it applies the writer-release proof, and recovery refuses while any tracked file
  is missing (`acknowledgeSourceRangeV2`). If a drained file disappears while the
  acknowledgement for another was lost, each cycle fails before the step that would
  retire the missing one, although the proof already lists it.
  `src/cmd/nginxcollector/tracker_v2.go:715`; the comment at line 777 promises the repair.
* **A repair lets the loop's cursor jump over the hours to repair** (`usage_repair`,
  `CursorIsCompletePrefix`). `requestUsageFactsRepair` lowers the cursors and deletes the
  proofs in a request while the loop may have committed an hour and not yet moved its
  cursor; `setUsageFactMemberBackfillCursor` then moves the lowered cursor over the whole
  range, and the repair is declared complete without reading it.
  `src/monitor/usage_facts_repair.go:126`.
* **A joining member keeps the published members' day without a daily fact**
  (`usage_midnight`, `PublishedDaysProven`). At midnight the daily facts are built for the
  whole tail batch or not at all, so one member whose backfill is unfinished is enough for
  none to be built, while the published watermark passes the day. A comment states the
  opposite. `src/monitor/usage_facts_hour_sync.go:206`.
* **A start that ends between two migrations leaves the alerts off** (`upgrade_alerts`,
  `UpgradeKeepsAlerts`). `openStore` asks which alert columns are missing, creates them and
  fills in their defaults afterwards. A start that ends in between leaves columns that are
  there and zero; the next one does not fill them. `src/monitor/store.go:1083`; the comment
  at line 987 promises that an upgrade keeps the alerts.
* **The end of a job that waits for its verification moves away** (`history_verify`,
  `VerifyHasItsHours`). The reconciliation moves `ThroughTs` of every unfinished job with
  each closed hour, a verification included; the verification completes only a job whose
  member has reached it, and never goes back to the import. `src/monitor/usage_facts_jobs.go:718`
  says that it never moves, lines 929 and 2120 move and miss it.
* **The hour at the edge of the retention is replaced by its last minutes**
  (`metric_hours`, `CoveredHourIsWhole`). The maintenance sums minutes from a cutoff that
  is a minute, not an hour, over the row of the hour, which stays covered and is read by
  the weekly comparison. Rounding only the cutoff of the sum down would not help: the
  pruning goes by minutes too. `src/monitor/sampler.go:275`.

Observations without a run of their own, met while modelling; each was seen in a
counterexample of a stronger property than the one that is checked, or follows from the
lines named:

* *Task table.* That only one unexpired worker can run holds for a clock that is never
  stepped back; `SingleHolderAlways` carries that assumption.
* *Rolling window.* The pruning reads the sync state outside its transaction and saves all
  its columns at the end; what a request wrote meanwhile is lost (`PruneReads`,
  `PruneWrites`).
* *Full history.* The published edge waits for hour proofs that whole-day imports do not
  leave (`usage_facts_jobs.go:2604`, `2641`). Of two reconcilers the one with the older
  snapshot can cancel the job of a newer revision, which is never queued again. A member
  found without history, whose log the loop imports meanwhile, and a late log before the
  first day make the verification fail for good. A verification that sees the loop's hour
  `running` pauses until an operator retries. The findings above concern the tail by hours,
  not the page mode.
* *Raw pages.* A wide shard of the history worker that was opened before the live lane
  proved its range clears hours that are already published, until the shard is imported
  again. The proofs themselves stay exact.
* *Metrics.* A long backfill publishes a start computed before the loop pruned, until the
  next pruning; hour coverage jumps over hours after an outage longer than the retention;
  the pruning of hours does not narrow their coverage.
* *Stability.* One of several interrupted jobs is resumed per epoch; the repair takes the
  newest missing hour, so one that always fails starves the older ones.
* *Publication.* A bill whose publication committed while its answer was lost, and which an
  operator withdraws before the row is retried, is issued again by the retry: the row is
  `retry` or `running`, and neither the claim nor `importMonthlyBillPrepared`
  (`portal_monthly_publication.go:572`) reads the withdrawal audit. The audit's comment
  asks of a reissue only that it passes the original checks (`portal_monthly_withdrawal.go:5`),
  which it does: the retry audits the sources again and publishes under its own lease.
  A bill whose row is saved is not issued again.
* *Restore.* READY becomes visible before the directory is synced (`store_reliability.go:1059`).
  A Monitor that starts in between verifies the pair and activates it; if that sync then
  fails, the deferred cleanup of the command removes its databases one after the other
  (lines 905–918), also from under the activated Monitor, and ACTIVATED stays. A later start
  is refused for the missing files; what the running one writes is lost (`early` in `RunsOnPair`).
* *Upstream accounts.* The newest token is lost when an operation is canceled, its write
  fails, the answer is lost or the deadline passes after the context for the save was
  chosen (`harm` in `AccountKept`), although a comment in `channel_upstream_usage.go`
  says it is persisted even when the query fails.
* *Upstream guard.* The spacing between starts to different hosts is checked before it is
  taken, so two requests may start together (`docs/monitor-operations.md:128`).
* *Investigations.* A canceled task that still runs deletes the reservation of its
  operator's newer one, so two may run at a time.
* *Nginx.* A missing file is judged drained by the size of its last scan; lines written
  later through the open descriptor are lost with it (`tracker_v2.go:553`).

## 6. Proofs

Theorems hold for every value of the constants that satisfies the named hypotheses: the
`ASSUME`s of the modules, which the runs evaluate on their instances, or an operator such as
`Limits`, which is a hypothesis of the theorem. A theorem about a component that runs as a
part of `monitor` is carried to the run's instance in `MCMonitor_proofs`, which proves the
hypotheses of that instance from `Distinct` (the model values are different) and the
property from the component's invariant: a step of the part keeps it, and no other part
touches its variables while `part` names this one. `MCBooks_proofs` does the same for `books`.

Each proof has the same three facts: `First` (the initial states satisfy the invariant),
`Step` (every step keeps it; one case per action) and `Implies` (it implies what the runs
check). The invariants were checked by TLC before they were proved.

**`MonthlyTasks_proofs`** (assumptions `SortAssumption`, `LimitAssumption`)

| theorem | statement | argument |
|---|---|---|
| `TypeCorrect` | `Spec => []TypeOK` | one lemma per kind of row a step writes |
| `SingleHolderAlways` | `~ClockRegresses => (Spec => []SingleHolder)` | `SingleHolder` is not inductive: it must be known that no two processes remember the same token (`LeasesDistinct`) and that at most one row is unexpired (`OneUnexpired`), which a claim keeps because it looks for a running row first, and time keeps because it only expires rows |
| `DraftIsOfLastAttempt` | `Spec => []DraftOfLastAttempt` | a draft is written under the fence, and the fence compares the attempt; holds with clock steps |
| `ImplementsLifecycle` | `Spec => LifecycleSpec` | every step changes the abstract state of at most one row, along one edge of the contract (`OneRowStep`) |
| `TokensAreCounted` | `Spec => []Consistent` | the counted attempts are a set of pairs of a task and an attempt; a claim adds one pair that is not in it and draws one token, so cardinality and counter stay equal without a sum |

**`ExportJobs_proofs`** (assumption `LimitAssumption`)

| theorem | statement |
|---|---|
| `TypeCorrect` | `Spec => []TypeOK` |
| `OnePerGroup` | `Spec => []OneTaskPerGroup` |
| `DownloadsKeepTheirFile` | `Spec => []StreamsKeepTheirFile` |
| `RunOwnsItsFiles` | `Spec => []WorkerOwnsItsFiles` |
| `NoFileInUseIsTaken` | `Spec => []FilesAreKept` |
| `PublishedIsWhole` | `Spec => []ReadyIsWhole` |
| `FilesAreTracked` | `Spec => []NothingOrphaned` |
| `StoppedStaysUnready` | `Spec => StoppedNeverReady` |

The safety invariants of `ExportJobs` are inductive only together and with four more facts
(`Inv`): a task has a context exactly while the worker runs it (`BusyIsWorkers`), which is
why a sweep that spares busy tasks spares the worker's; a task that is not yet published is
running or canceled and is read by nobody (`UnpublishedIsUnread`), which is why the rename
and a failed run take no reader's file; a place in the channel belongs to a task that was
never started and is not read, or to one that is gone (`QueueWaits`), and no task has two
(`QueueDistinct`), which is why the worker can start whatever it takes. The proof has one
lemma for all steps of the callers (`RegistryStep`: some tasks are removed, at most one is
admitted, the others keep their context), one for the steps within a run (`RunStep`), and
one each for the rest. `OnePerGroup` follows from a second invariant about the number of
tasks: every step but `Submit` only removes tasks or keeps their group (`NoneAdmitted`),
and `Submit` admits one when fewer than the limit are left.

**`MonthlyPublication_proofs`** (hypothesis `Constants`: each task has a month, at least one
attempt, and names for no task and no digest)

| theorem | statement | argument |
|---|---|---|
| `TypeCorrect` | `Spec => []TypeOK` | |
| `BillsAlwaysAgree` | `Spec => []BillsAgree` | every bill, standing or withdrawn, is of the digest that its row froze (`BillsOfRows`), and a process at `bind` or `publish` has the digest it audited; the row freezes once |
| `PayloadIsKept` | `Spec => []PendingKeepsPayload` | a draft that is being computed has its payload (`WorkingIsHot`), and the release looks at selection, row and bill in the transaction that takes it |
| `OnlyHolderReissues` | `Spec => [][ReissuedOnlyByHolder]_vars` | a process at `publish` whose time is not up holds the unexpired lease of its row, of the attempt counted last (`HoldsLease`), with the digest the row froze (`PublishesFrozen`) |

The invariant needs that no two processes hold the same lease token (`OwnTokens`) and that a
process whose time is not up has the unexpired lease of its row: the deadline of the
finalizer is shorter than the lease it was taken under. The leases that count as attempts
are again a set (`CountedAttempts`), not a sum.

**`NginxSourceV2_proofs`** (assumption `NginxSourceAssumption`, of which the lemmas use
`NginxConstants`)

| theorem | statement |
|---|---|
| `LaneIsTyped` | `Spec => []TypeOK` |
| `LinesAreCountedOnce` | `Spec => []CountedOnce` |
| `LostProofIsRecoverable` | `Spec => []Recoverable` |
| `BothSidesAgree` | `Spec => []SidesAgree` |
| `LaneDelivers` | `Spec => DeliverySpec` |

One invariant, `LaneInv`, carries all five. None of the properties is inductive: each speaks
of Monitor and of the cursor, and what keeps them in agreement is what the requests in flight
and the collector's position still allow. Its parts:

* `Numbered`: files are numbered as logrotate creates them, so an unknown file is younger than
  what the cursor tracks and a registration appends it.
* `Registered`: Monitor's manifest is the saved one, or the saved one with the registration
  that is under way, and nothing else; so a repeated registration finds either of the two.
* `Covers`: the rows between the confirmed and the accepted offset of a file are a partition
  of what lies between. `Recoverable` follows from it: the rows between two cuts are a chain.
  The theorem needs no induction along the chain, since `Chain` is stated by coverage.
* `Sound`: the four watermarks of a file are in order, the acknowledged offset is not inside a
  row (`Cut`), and an entry without a marker has nothing left to confirm. That the offset is a
  cut is what makes Monitor accept the confirmation, and pruning up to it leaves a partition.
* `Sent`: a request in flight, however old, is the present registration or one that is too old
  to do anything, a range within the size saved before it was sent, or a confirmation of what
  the saved cursor has acknowledged.
* `Copied`: the copy a cycle works on differs from the saved cursor in cleared markers only,
  so an end of the cycle anywhere loses nothing.
* `Registering`, `Delivering`: what each position of the cycle knows, with the request it waits
  for and what an answer means.

TLC checked `LaneInv` on two instances (274,266 and 1,089,932 states) before it was proved.
The proof has one lemma per request Monitor executes and per step of the cycle; the steps share
lemmas for what they have in common (`CursorStep` for one that saves no file, `FilesStep` for
one that does, `AcknowledgeStep`, `EndStep`). The collector's lemmas also say that a step moves
one acknowledged offset over what is counted, or none, from which the refinement follows.
`LaneDelivers` says what never happens; that everything arrives is left to `nginx_delivered`.

**`MonitorParts_proofs`** has ten small components, each an instance (`Source`, `Reports`,
`Cache`, `Account`, `Guard`, `Sessions`, `Restoring`, `Logs`, `Migration`, `Chain`) with its own
invariant. They share the names of some variables, but no theorem speaks of two of them.

| theorem | hypothesis | the invariant besides the property |
|---|---|---|
| `WorkersAreFenced`, `CloseIsQuiet`, `OneWorksAtATime` | `Nobody \notin Process`: a free lock has no owner | `Fenced` says nothing of a supervisor that waits, but a wait may lead to an epoch: what each position of the supervisor implies for the lock, its connection and its goroutines; a `Close` that succeeded was the last to do anything |
| `ReportsAreServed` | `QueueConstants`: the capacity is smaller than the history, as the code's 16 and 32 are. A submission evicts an ended record to stay within the history, so there must always be one | what is queued or running has a place in the channel or is the worker's, so counting shows that one has ended |
| `CacheNeverStale` | `CacheConstants`: callers are told apart | who fills or deletes holds the gate; what a fill has read is at least the floor set by the last deletion, because that deletion waited for the gate |
| `AccountAlwaysKept` | `AccountConstants` | one operation is past the gate (`GateHeld`); each knows what was stored when it loaded or what it got since (`Imported`, `Staged`, `Copied`); while nothing was lost, a token that is at stake is in the hands of an operation that will save it (`Unharmed`) |
| `CooldownAlwaysKept` | `GuardConstants`: durations are natural numbers and one is the longest | who holds the semaphore is alone with it and has seen the cooldown pass (`Attends`); the circuit, in memory or saved, is the one imposed last unless that one was lost (`Remembers`) |
| `LiveSessionsKept` | `SessionsConstants` | who looks at an entry has the guard, and the lease before it removes anything (`Visits`); a session is its process's own and whole before it lives (`Owns`) |
| `AlwaysRunsOnPair` | `RestoreConstants` | one restore made all there is, now and after a power failure (`OneMaker`); what it left is behind its fence until the pair stands (`Covered`), as far as its position says (`AsFar`); what a start has checked still holds (`Checked`) |
| `AuditNeverOverclaimed`, `CancelledForGood` | – | the draft of a goroutine, the task it ends and the cache it fills claim no missing row (`DraftsTrue`, `CachesTrue`) |
| `RollbackAlwaysPossible` | – | what the reference names is there, whole, and older than its plan (`PinServes`); the snapshot in the making is of the stores as they are, because they are locked (`CopyIsCurrent`); past the gate the reference is that of the plan (`PlanIsPinned`) |
| `ChainAlwaysComplete` | `ChainConstants` | the journal is one chain in which only the head has no successor (`OneChain`; that every part of it has an end replaces induction along it); what is sent, stored or answered is as journaled (`AsJournaled`); what is accepted is stored with all before it (`InOrder`) |

`AlwaysRunsOnPair` and `AccountAlwaysKept` carry the exemptions of their properties: a
Monitor that checked READY while the command that wrote it could still fail and take its
files back (`early`, set by `VerifyReady`), and an operation that was stopped while only it
knew the token (`harm`). Section 5 names what happens then.

**`BooksParts_proofs`** has the four parts of `books` that are proved, again one instance each
(`Stability`, `Marks`, `Usage`, `History`).

| theorem | hypothesis | statement |
|---|---|---|
| `HoursAlwaysAccounted` | `StabilityConstants` | `Spec => [](TypeOK /\ HoursAccounted)` |
| `CoverageAlwaysHeld` | `MarksConstants`: the clock begins after what a new row looks back to | `Spec => [](TypeOK /\ CoverageIsHeld)` |
| `CursorsAlwaysComplete` | `UsageConstants`, `Unrepaired` | `Spec => [](TypeOK /\ CursorIsCompletePrefix)` |
| `MembersBecomeReadableWhole` | `UsageConstants`, `Unrepaired` | `Spec => [][BecomesReadableWhole]_vars` |
| `PublishedAlwaysProved` | `HistoryConstants` | `Spec => [](TypeOK /\ PublishedIsProved)` |

* *Stability.* A job accounts for its range only when it has ended; what its worker has in hand
  must be known meanwhile (`WorkerAgrees`): the hours it knows are there or out of reach, those
  it does not know show no traffic, which is why giving them up loses nothing, and in its last
  pass it has met all of them. An hour sealed with traffic stays sealed (`HoursAgree`), so a
  repair or a pruning beside the job does not take back what it has counted.
* *Marks.* A row covers a minute that the loop or the backfill read in an earlier step, and the
  pruning may have moved meanwhile. A turn that comes to its cursor has read its slice, and, if
  it continues the FRT coverage, has seen no fact of the older rule below (`LoopAgrees`); a
  backfill without a failure has read the hours behind it (`FillAgrees`); both only as far as
  minutes are still kept, which is what lets the proof go through the pruning.
* *Usage.* `CursorsAgree`: the hours of the window below a cursor are proved, also below the
  place to which a repair of gaps will return it, and a turn that is about to move cursors has
  imported up to where it moves them. The window is reckoned from the hour the turn began with
  (`Base`), not from the clock. `ClaimAgrees` knows the claim a turn holds and what proof it
  would restore. `MembersBecomeReadableWhole` follows from the readiness check and the cursor.
  `Unrepaired` is `MaxRepairs = 0` and no failing queries beside crashes. Without the first half
  the property is false: `usage_repair` shows it. The second half is where the argument ends: a
  failing query may delete the proof of an hour that a crashed process had claimed, and if a
  member leaves and returns while a repair of gaps restores it, the end of that repair may lift a
  cursor over the hour. No run of this project combines the two faults, so whether the property
  then holds is open.
* *History.* `CheckpointReady` compares cursors, so the invariant (`AgreesWith`, for each member)
  says what a cursor is worth. While the mirror trusts its boundary and is of the current source
  (`Trusts`), every hour since the first log is read up to the `next` of its job (`ReadUpTo`: by
  its day, or by itself in a day that is not over), and up to the mirror's `tail` once there is a
  published row. A job that is to be verified, or is complete, has its `tail` behind its `next`:
  that is why `Ready` may publish it. It also needs that the job of a mirror that went out of use
  has ended, and that a mirror without a boundary has a job that looks for one: otherwise a job
  could go on importing from a place it never came to after the boundary moved. `Knows` is
  what the worker may rely on between two of its transactions, with the job possibly canceled,
  started anew under its hands or moved to another end (`Runs`): that a job which still runs is at
  the place where it was claimed, and that the days or the hour just imported are proved as long
  as the mirror still trusts its boundary. The lemmas on days (`ReadHour`, `ReadDays`,
  `ReadContiguous`) say how one more hour or more days extend what is read; there is one lemma
  per action, and four that several share (`OneMember`, `WorkerPuts`, `DoneStep`, `OnwardStep`).
  The reconciliation is the hardest case (`MirroredFits`): it changes all members and all jobs by
  a snapshot that may be older than what the other goroutine mirrored.

**`MCMonitor_proofs`** (assumption `Distinct`) has the eighteen properties of the run
`monitor` that follow from these theorems: `FencedAlways`, `NeverStaleAlways`,
`AccountAlwaysKept`, `CooldownIsKept`, `LiveSessionIsKept`, `RunsOnPairAlways`,
`NoAuditIsOverclaimed`, `CancelledStaysSo`, `RollbackIsPossible`, `ClosureCoversAll`,
`BillsAlwaysAgree`, `PayloadIsKept`, `OnlyHolderReissues`, `ReportsAlwaysServed`,
`LinesCountedOnce`, `LostProofRecoverable`, `SidesAlwaysAgree`, `LaneImplementsDelivery`.

**`MCBooks_proofs`** has five of the six properties of the run `books`: `HoursAccountedAlways`,
`CoverageHeldAlways`, `CursorsCompleteAlways` and `ReadableWholeAlways` (two windows each),
`PublishedProvedAlways` (three histories). That the values of each instance meet the hypotheses
is proved too (`WindowConstants`, `HistoriesConstants`).

## 7. What is only model-checked, and what is not modelled

TLC alone supports: liveness (`EverySubmissionSettles`, `EverythingDelivered`,
`LostAckRepaired`, `EveryTaskLeavesQueue`, `RemovalsFinish`, `FactsConverge`,
`EveryMemberServed`), because the prover does not reason about fairness;
`FencedNeverRefused`, which speaks of what is enabled; and `SignedIsExact`, which compares sums
over sets of logs (`Total`, a fold): that a page adds its part to the sum needs induction over
those sets. Operators' repairs of the usage facts are left to TLC as well
(`usage_facts_converge`, `usage_repair`).

Left out of the modelled parts, and why:

* `MonthlyTasks`: SQL and encoding; a failed transaction is a stutter.
* `MonthlyPublication`: manual bill imports, display series and cents, limits on the number
  of selections, clock steps.
* `NginxSourceV2`: the one-time cutover from v1, the operator's recovery of an epoch,
  changed or truncated content (it only stops the lane), reuse of an inode, and the budget
  of 64 ranges per cycle, which the instances do not reach.
* `ExportJobs`: byte and row limits, hashing and the CSV builder are the choice between
  `Build` and `Fail`; `View` changes nothing. `ExportSessions`: the report it returns,
  foreign files.
* `UsageFacts`: cache generations, the gate before reading, lease tokens (one loop claims),
  metrics, pacing and batching beyond one query, profiles, retention of whole days.
* `FullHistory`: the recent service, repairs and rolling audits, the tuning of chunks, the
  circuit breaker, batches of several members; retries wait for an unspecified time.
* `RawPages`: repair and audit turns (they import one hour with the same steps), members
  without history or that leave, the aggregate state of an hour over all members, the
  projection that readers see, disk tiers.
* `MetricWatermarks`: what the SQL counts, token and customer projections, capacity facts,
  the customer-health cursor that shares the live window.
* `StabilityBackfill`: the minute sampler, problem signatures, the FRT repair, the order of
  jobs by their last update.
* `UpstreamAccount`: the adapters of other providers, pages of records, schedules, ledgers,
  alerts, and the account while its usage switch is off.
* `UpstreamGuard`: the account gate (in `UpstreamAccount`) and the policies that classify
  errors of single endpoints. `SourceLifecycle`: what workers read; failure classes and
  delays are nondeterministic. `ResultCache`: the remote tier (production injects none),
  prefixes of keys.
* `FinanceQueue`: the pauses between runs of a key (a submission may come too early and
  change nothing), the order in which jobs ended (any may be the oldest), the reports
  themselves.
* `LogChainInvestigation`: correlation and parsing, paging of CloudWatch queries, the number
  of rechecks.
* `StoreMigration`, `StoreRestore`: the online copies of the backup loop and their
  retention, what the single migrations do to rows. `ArchiveChain`: leases and
  registration (a check of them may fail at any time), several lanes, direct delivery.

Parts with no module are marked `not_modelled` in `PROJECT.json` with the reason: those of
the plan below, and those that are handlers over one transaction, pure computation,
rendering or I/O. They are most of the program's lines: pages and handlers of the portal,
reports and pricing, inventories, acceptance commands, and 662 files in all, of which the
modules stand for the ones that keep a protocol.

## 8. Plan

Written: everything in section 2. Left, by the weight of what can go wrong:

1. The projection, audits and repair turns of usage facts over `RawPages` and `FullHistory`,
   with what readers see of a member while a shard is imported again.
2. Alerts and incidents: the cooldown read, the mail and the log are three steps of several
   evaluators; incident continuity over reordered observations.
3. `LocalWorker` over `MonthlyTasks` and `MonthlyPublication`, and the display series worker.
4. The customer-health cursor beside `MetricWatermarks`; the capture of a month's source.

Proofs: `UsageFacts` with crashes and failing queries together, after a run that combines them.
Of `books` and `monitor` no other property is within the prover's reach.
