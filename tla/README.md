# A verified model of the server agent

The server agent is one Node process that lets authenticated MCP clients change
projects on a host: edit files, run commands as background jobs, validate,
deploy, recover and roll back. Its promises are about *durability and exclusion*:
one piece of work at a time on a project, a retried request runs once, a restart
never takes interrupted work for finished work, a revoked credential stays
revoked. This directory states those
promises in TLA+, checks them with TLC on small instances and proves the most
important ones with TLAPS for every instance.

Paths below are relative to the repository's `src/` directory.

## 1. The system

### Components, their state and operations

| Component (source) | State | Operations | Correct when |
|---|---|---|---|
| Operation manager (`operations/persistent-operation.ts`) | table `persistent_operations`; map of active executions; a renewal timer each | `start`, `execute`, `requestCancellation`, `reconcileAfterRestart`, `shutdown` | one operation per project; a key runs once; outcomes are final; every row gets an outcome |
| Operation leases (`operations/operation-lease.ts`) | rows of `idempotency_keys` in scope `operation-lease` | `acquire`, `renew`, `release`, `reclaimExpired` | exclusion per project; free again after any death of the holder |
| Idempotency store (`idempotency/`) | table `idempotency_keys` | `requireReplayable`, `begin`, `complete`, `fail` | a completed key replays its own result, a failed one is refused |
| Job manager (`jobs/job-manager.ts`) | table `jobs`; controllers and executions in memory | `start`, `cancel`, `cancelAndWait`, `reconcileAfterRestart`, `shutdown` | limits, one running job per task, one child per key, a truthful outcome |
| Task engine (`tasks/task-engine.ts`) | tables `tasks`, `task_checkpoints` | `create`, `setStatus`, `resume`, `pause`, `cancel`, `checkpoint`, the restart markings | no task is resumed, paused or cancelled over unresolved work |
| Runtime (`runtime/server-agent.ts`) | the process | startup sequence, shutdown | reconciliation before service; a stop that ends |
| Recovery (`recovery/recovery-engine.ts`, `evidence.ts`) | tables `recovery_runs`, `recovery_decisions` | `assess` | unresolved work is never declared resumable; attempts are bounded |
| Deployment engine (`deployment/deployment-engine.ts`) | table `deployments`, the checkout, the service | `deploy`, `precheck` | a deployment and its task agree about success |
| Rollback engine (`recovery/rollback-engine.ts`) | table `rollback_plans`, the checkout, the service | `plan`, `execute`, `revalidate` | a plan runs once, on the state it was made for |
| Validation (`validation/local-ci.ts`) | table `validation_runs` | `run` | attempts are bounded |
| Process executor (`commands/`) | one child process and its timers | `executeArgv`, `run` | one result, no child left behind |
| Service manager (`services/service-controller.ts`), database service (`database/database-service.ts`) | host service; project database | `restart`; `guardedWrite` | repeat safety and exclusion, as for operations |
| File service (`files/file-service.ts`) | project files, chains of write locks | `writeFile`, `editFile`, `deleteFile` | no lost update, no torn file |
| Maintenance (`maintenance/maintenance-service.ts`) | retention, disk guard | `runStartupMaintenance`, `assertMutationAllowed` | prunes only what is past the retention and not referenced |
| OAuth (`oauth/oauth-service.ts`) | clients, codes, tokens | `register`, `authorize`, `token`, pruning | codes and refresh tokens are used once |
| Credentials and rate limits (`security/auth-store.ts`, `mcp/auth.ts`) | `auth_principals`, `auth_credentials`, windows in memory | bootstrap, create, rotate, revoke, `verify`, `consume` | a credential that is out stays out; one live successor; bounded attempts and tables |
| Auth administration (`runtime/auth-admin.ts`) | none: a process of its own on the same tables | create, rotate, revoke, enable, disable | its commands are safe beside the agent and beside each other |
| Host helper (`runtime/host-helper.ts`, `host/control-client.ts`) | a child process for each request | restart, status, logs | one restart per key, also when no answer arrives |
| MCP transport and tools (`mcp/`) | none (per request) | dispatch, derived idempotency keys, tasks extension | a call is answered; success is told only of what was done |
| Projects, Git, health, logs, configuration, redaction | mostly none | reads, validation, formatting | - |

### How they interact

* Tools (`mcp/tools/register-tools.ts`) call the managers. Long work (deploy,
  validation, recovery, rollback) goes through `PersistentOperationManager.start`
  and returns an id; a job is a command that does the same through `JobManager`.
* Operations, jobs, database writes and service restarts share two tables: the
  idempotency keys and the leases. They meet nowhere else.
* `TaskEngine` reads the tables of operations and jobs to decide whether a task
  may be resumed, paused or cancelled, and calls back into the job manager
  (`cancelAndWait`). Engines move the status of the task they work on.
* A request passes the authenticator (credentials and two rate limiters), the
  transport and the tool registry, which derives its idempotency key and writes
  the audit row after the work. Tokens come from the environment, from
  `auth-admin` or from the OAuth service, which writes to the same credential tables.
* Every manager has a half in SQLite and a half in memory. A crash keeps the
  first and loses the second; `runtime/server-agent.ts` reconciles them in a fixed
  order before it listens.

### What is hard about it

JavaScript runs one handler at a time, so the interleavings are those at `await`:
`mkdir` in `JobManager.start`, the job `cancel` waits for, the work below
`execute`. SQLite statements outside `BEGIN` commit one by one, and a statement
may throw `SQLITE_BUSY`, because the agent sets no busy timeout and the
auth-admin command line writes the same file (reads do not fail: WAL). So the hard
behaviours are crashes and storage errors *between two statements*, checks that
are stale after an `await`, timers that are late, leases that run out under
running work, and startup sequences that are themselves interrupted.
`PROJECT.json` lists each hazard at its line.

## 2. The modules

| Module | What it is |
|---|---|
| `OperationLeaseStore` | the lease row and the four methods on it, as operators on the table |
| `IdempotencyStore` | the key row and its methods, and the pruning, as operators on the table |
| `ExclusiveWork` | abstract specification: a project is worked on by one piece of work at a time |
| `PersistentOperations` | the operation manager, its timers, the process, crashes and storage errors |
| `PersistentOperationsProofs`, `OperationRecordsProofs` | theorems about it: exclusion and outcomes; keys, rows and crashes |
| `TaskTable` | the table of task states and what startup, cancel and resume do with them |
| `TaskJobs`, `TaskJobsProofs` | tasks, jobs, and the operations beside them; startup and shutdown; theorems |
| `Workflow`, `WorkflowProofs` | deployment, recovery assessment and rollback: their rows, their task and the checkout; theorems |
| `RateLimiter` | the fixed-window limiter, as operators on its map |
| `Credentials`, `CredentialsProofs` | principals and credentials, auth-admin, the bootstrap at startup; lemmas |
| `Access`, `AccessProofs` | `Credentials` behind the authenticator with its two limiters; theorems |
| `OAuth`, `OAuthProofs` | `Credentials` with the authorization server: clients, codes, refresh tokens; theorems |
| `ProcessExecutor` | one child process: limit, abort, escalation, close, as operators on the child |
| `ToolCalls` | the life of a tool call outside its handler |
| `FileWrites` | write, edit and delete of files with the chains of write locks |
| `GuardedWrites` | database writes, service restarts (direct or by the host helper) and commands |
| `ConcurrentCalls`, `ConcurrentCallsProofs` | the two above composed, with crashes; theorems |
| `MC...` | instances for TLC |

### PersistentOperations

State that is durable is named after its table (`leases`, `keys`, `ops`); `active`
is the map of the same name; `renewAt` is when each `setInterval` is due; `mode`
is the process and `loop` the event loop: which synchronous stretch is under way
and which statement of it comes next. `origin`, `began` and `cover` are history,
read by properties only.

`start()` is seven actions, one per statement that commits by itself: `Start`
(`requireReplayable` + `begin`), `AcquireLease` or `AcquireConflict`, `InsertRow` or
`InsertRefused` (the foreign key), `CompleteKey` (with `execute()` up to its first
await) or `CompleteFails`, and the catch block `ReleaseOnError`, `FailKey`,
`UnwindFails`. `execute()` is `Renew`/`RenewFails` (the timer), `Settle` (the outcome) or
`SettleFails` (both UPDATEs throw), then `Finalise` (finally) or `FinaliseRejecting`, or
`FinaliseFails` where the release throws. In the last two cases the promise rejects
(`Rejects`). While the agent serves, nothing handles that and Node ends; during a
drain the `allSettled` of `shutdown()` does, and the process goes on without the
operation, whose row may still say RUNNING. The process is `BootReclaim`,
`BootReconcile`, `BootPrune`, `Shutdown`, `StopEarly` (a SIGTERM during the startup), `Close`,
`Crash`. A `Crash` may strike between any two of these steps.

A process that is not running is *down* or *stopped*. It is down after a failure, and
systemd starts it again (`Restart=on-failure`); it is stopped after a SIGTERM was
obeyed or cut short, and then only an operator does. `Deceased` tells which.

Time is explicit: a lease lives `LeaseTtl`, the timer's period is `RenewEvery`
(a third of it in the code) and it fires at most `MaxLate` late, which `Tick`
enforces. `TimerAssumption` relates the three to the storage errors allowed:
`(MaxFaults + 1) * (RenewEvery + MaxLate) < LeaseTtl`. With the code's 60 s and 20 s it
says: one renewal may be swallowed as long as timers are less than 10 s late. The
code has no bound of its own on either; this is the condition under which
its leases exclude, and it is stated so that it can be argued about.

`Lingering` are the operations whose commands may never be reported closed (a
descendant holds their pipes): nothing says when these settle.

Abstractions: the fingerprint is the task (type and project are in the scope, i.e.
in the key); a result is the operation id; the error texts are left out. Under
`TimerAssumption` a renewal always comes before the expiry, so the UPDATE of
`renew()` that would revive a lapsed lease is in the model but never meets one.

### TaskJobs

Tasks (`task`, `advice` = the latest recovery decision, `assessed` = attempts), jobs
(`job`, `request`, and in memory `calls`, `attached`, `children`, `aborted`, `waitedFor`),
operations (`ops`, `opActive`), leases, keys, and the calls of `cancel_task` that
await a job (`cancels`). `attached` are the jobs with a controller, `children` those whose
process lives; the two differ at both ends of a job. `loop` is the synchronous
stretch under way: the statement that comes next, and its job.

* `JobStart` is `start()` up to `await mkdir`; `Attach` is what follows the await: the
  transaction that reads every condition again, the INSERT, the controller;
  `AttachRefused` is its catch block. `CompleteKey`/`CompleteKeyFails` are separate
  because `complete()` may throw when the command is already on its way.
* The command runner awaits its sandbox and then spawns: `Spawn`. `SpawnThrows` is the
  callback `onSpawn`, an UPDATE, throwing when the child exists and its timer, its abort
  listener and its close handler do not (`process-executor.ts:109`): the job fails
  and lets its lease go, the child goes on and ends when it likes (`StrayExits`). The
  next job starts beside it, so more children than the limit may run, although
  `docs/final-validation.md:33` lists "one concurrent heavy command job by default"; what holds,
  and what `JobsWithinBounds` says, is that each child above it has cost a storage
  error.
* The end of a job is a stretch too. `JobCloses` is the close event with the outcome
  that `.then` writes; `AppendFails` is the history entry after it throwing, upon which
  `.catch` writes the outcome again (`Revise`), as it does when `run()` rejects
  (`JobRejects`); `ReviseFails` is `.catch` throwing. `Finalise` is `.finally` and the answers
  to the `cancel_task` calls that waited; `FinaliseRejecting` and `FinaliseFails` leave a
  rejected promise, which ends the process unless a stop or a cancel awaits it
  (`Rejects`). Nothing else runs in between, because the continuations of one promise
  follow each other as microtasks of the event that settled it.
* `Resume`, `Pause`, `CancelNow`, `CancelAwaits` are the task tools with their guards.
* `OpStart`, `OpSettles`, `Assessed` are operations seen from the task: validations,
  which leave it alone, and recovery assessments, which move it.
* `BootReclaim`, `BootOperations`, `BootJobs`, `BootInterrupted`, `BootUnknown` are the
  startup statements in order, each one a step a crash may follow. *Down* and
  *stopped* are as in `PersistentOperations`.

Abstractions: the clock is replaced by `LeaseExpires`, which takes a lease away from
a holder that does not renew it. Operations renew (that is what
`PersistentOperations` is about), jobs do not: with `Overrun` a job may outlive its
lease, as it does when a descendant of its child keeps the inherited pipes open
beyond the time limit. Without it every job is `Punctual`: its close event comes. The stretches of
operations are one step here; crashes and errors inside them are in
`PersistentOperations`. Keys are not
pruned (a behaviour spans less than 30 days). Tasks exist from the start
(`create` only inserts PENDING rows). Git, service, health and deployment
evidence is a free choice of the decision.

### Workflow

The durable state is the tasks (`task`: status, current deployment, last commit,
and from `recovery_runs` the latest advice and the number of assessments), the
rows of `deployments` and `rollback_plans` (`dep`, `plan`), the tasks left with an
UNKNOWN operation (`interrupted`), and the checkout (`head`, `clean`). `worker` is the operation that holds the project's lease and the await
or the statement it is at; `draft` is a `rollback_plan` call, which holds no lease, and
what it has read.

* `deploy()`: `DeployStart`, `PrecheckFails`, `Register`/`RegisterFails` (row and references,
  outside the try block), `DeployEnters`, `DeployRuns`, `DeployVerifies`, `DeploySucceeds` (the
  row) and `DeployCompletes` (the task); `DeployThrows` is everything that leads to
  the catch block, `DeployFails` (the row) and `DeployRecords` (the task), which may
  itself be cut short: `DeployCatchFails`.
* `assess()`: `AssessStart` up to the first await, or `AssessLimit`; `AssessFails` without
  evidence; `AssessRecords`, then `AssessDecides`; `AssessRecordFails` and `AssessMoveFails` are its
  storage errors.
* `plan()`: `PlanCall`, two reads at different times, `PlanWrites`/`PlanWriteFails`.
* `execute()`: `RollbackStart`, the reads of `revalidate()`, each of which may block the
  plan, `RollbackBegins` and `RollbackEnters`/`RollbackEnterFails` (outside the try block),
  then as for a deployment.
* `Resume`, `Pause`, `Cancel`, `EditFiles`, `JobMovesHead`, `Boot` and `Crash` are what happens around
  them.

Abstractions: there is one `worker`, which rests on the lease (`MutualExclusion`;
`jobs_overrun` shows when a job breaks it). Where a stretch writes a row and then
the task, these are two steps and nothing but a crash or an error comes between
(`Stretch`). Startup is one step, its order is in `TaskJobs`. A job is what it does to
the checkout, and the jobs of the task are resolved. The repository has a
commit. What commands do, service, health, migration state and configuration are
free choices, so every branch of the code that depends on them is open. The
operations a task's evidence lists are the one under way and the interrupted
ones; the list is not cut off at five.

### Credentials and Access

`principals` and `creds` are the two tables; `agent` is whether the process is up and
whether it admits OAuth tokens. Rotation reads its two rows before its
transaction, so it is two steps, `RotateCheck` and `RotateCommit`, and `rotations` holds
those in between: `auth-admin` may run more than once at a time. `root` (first
credential of a lineage) and `raced` are history. `Start` is the bootstrap, which
accepts the token of the environment only if its row is the same, and the test
that some credential can be used. `FailAuthentication` and `Authenticate` are the
authenticator; `attempts` and `requests` are its limiters, sequences because a
JavaScript `Map` evicts in insertion order. `hits` is history: what each key was let
through in the last `Window` ticks.

What the code allows and the properties therefore leave open: a rotation whose
old credential is revoked after the check commits all the same, and the revoked
credential has a live successor (`raced`); and around the end of a window almost
twice the limit passes, more when an entry is evicted while its window is running.

Abstractions: a token is as good as its id (tokens are random); scopes and
permissions are one `defn`, compared and never changed; `last_used_at` and audit rows
are left out, because no decision reads them.

### OAuth

A request is served without an await, but its statements commit one by one.
`ExchangeAuthorizationCode` and `ExchangeRefreshToken` take the code or the token,
`IssueAccessToken` is the transaction in the credential store, `IssueRefreshToken` the
last INSERT, `IssueFails` any error between them; `flight` holds the locals. A `Crash`, the
clock or a disabled principal may come after each. `Register` does its three
prunings and its INSERT, or the first few of them; `StartOAuth` prunes in the
constructor. `grant` is history: the code a refresh token stems from.

Abstractions: parameters, redirect URIs, PKCE, the owner's secret and the rate
limits are verdicts, chosen freely. Of auth-admin only the disabling of
principals is here: no table of this module depends on the rest.

### ConcurrentCalls

`work` is what each call asks for, `pc` how far its handler is; a call is made once,
and a retry is another call with the same key.

* `ToolCalls`: a call is refused, or handled and answered. The audit row comes after
  the work, so a success may be answered with an error. A call without a key has
  the hash of its principal and request id, which a client may use again.
* `FileWrites`: `Enqueue` takes its place in the chain of its `LockPath`, `Enter` is the end of
  the await for the call before it; `Checks`, `WriteTemp`, `ChecksAgain` and `Rename` are the steps
  of `editFile` and `atomicWrite` between awaits. `RealPath` maps the names of a file to
  the file: a write locks the path as given, an edit and a delete the real one,
  as `security/sandbox.ts` resolves them.
* `GuardedWrites`: `Begins` is everything up to the first await (key, lease), `Settles`
  everything from the settling of the work to the answer, with each way its
  statements may fail as a choice of what has been written. `child` is the process
  or worker thread; it takes effect once, at any time while it lives, also after
  the call has timed out: `worker.terminate()` is not awaited, and the host helper
  goes on when its client has given up. A command whose `onSpawn` threw is answered
  with a failure at once, and its child is nobody's (`CommandStarts`, `Watched`).
* An executor answers on the close event, not on the exit (`PipesClose`). A kill
  reaches the direct child only, so for the calls in `Lingering`, whose child leaves
  descendants with its pipes, that event may never come. `AwaitsPipes` are the calls
  this holds up.
* The helper reads the request to its end before it works, and its socket is not
  half-open (Node's default), so the end of the request closes the connection
  before the answer is written. The model leaves open whether an answer arrives
  (`HelperReplies`, `AnswerIsLost`): the properties hold either way. (The test in
  `tests/security/group5-auth-host-audit.test.ts` talks to a server of its own,
  which answers at once.)

Abstractions: one agent process; the output of children and its redaction are
left out; a symbolic link that is itself the last component is a file of its
own, because a write replaces it. A crash of the agent takes its threads and
children with it (control group of the unit), not those of the helper. A child
nobody waits for is dropped once it has ended.

## 3. What the runs check

| Run | Instance | Properties |
|---|---|---|
| `operations_safety` | 3 operations, 2 keys of one project, 1 crash, 1 storage error, clock to 5, lease 3, period 1 | `TypeOK`, `OneOperationPerProject`, `RunsOncePerKey`, `ReplayIsOwnRow`, `RunningIsExecuting`, `CrashKeepsLease`, `OutcomeIsFinal` |
| `operations_liveness` | 2 operations, the commands of one may never close, 1 crash, 1 error, clock to 4, fair | `BegunWorkEnds`, `LeaseComesFree`, `ImplementsExclusiveWork` |
| `jobs_safety` | 2 jobs, 1 operation, limit 1, lost leases, 1 crash, 1 error | `TypeOK`, `RunningTaskHasNoUnknownWork`, `QuietTaskHasNoRunningJob`, `JobsWithinBounds`, `JobRunsOncePerKey`, `ServesOnlyReconciled`, `JobOutcomeIsFinal` |
| `jobs_fair` | 2 jobs without keys, 1 operation, no lost leases, no errors, 1 crash, fair | `OneWorkerPerProject`, `CancelledWhenQuiet`, `ImplementsExclusiveWork`, `RunningJobEnds`, `CallsReturn`, `StopCompletes` |
| `workflow_safety` | 1 task, 1 deployment, 2 plans, 2 commits, 1 assessment, 1 crash, 1 error | `TypeOK`, `TerminalIsBacked`, `NoOrphanStatus`, `WorkedTaskIsHeld`, `RollbackStartsAsPlanned`, `RollbackReachesTarget` |
| `access` | 3 credentials, 2 definitions, 2 rotations at once, 2 sources, tables of 1 entry, limits 2 and 1, window 2, clock to 3 | `LimitsHold`, `OneLiveSuccessor`, `AgentRevivesNothing` |
| `oauth` | 1 client, 2 codes, 2 refresh tokens, 2 access tokens, clock to 3 | `TypeOK`, `OneLiveTokenPerGrant`, `TokensKeepTheirClient` |
| `calls` | 7 workloads of 3 calls, a descendant may hold the pipes of the third, 1 crash, clock to 3, fair | `TypeOK`, `KeyedWorkIsDoneOnce`, `OverlapOnlyWhenGivenUp`, `NoLostEdit`, `CallsSettle` |
| `jobs_overrun` | a job outlives its lease | violates `OneWorkerPerProject` |
| `jobs_stop` | a stop during `await mkdir` | violates `StopLeavesNothingRunning` |
| `workflow_advice` | an assessment after a failed deployment | violates `FailedDeploymentAdvisesRollback` |
| `workflow_rollback` | a plan made during its deployment | violates `FailedRollbackWaits` |

Each property is stated in words above its definition.

**Why the bounds suffice.** One project and one task: projects share nothing
but the job limit, and tasks of one project are kept apart by the same lease. Two
workers are needed for any overlap; a third lets one come after a crash or an
expiry while two older ones still left rows (`RunsOncePerKey`, `CrashKeepsLease`).
In `jobs_safety` the second job competes with the first for the only place under
the limit. With a limit of one, that a task is not shared by two jobs says nothing more, so
it is not a property of that run: `OneJobPerTask` is proved, for every limit (TLC finds it with three
jobs and a limit of two as well, and without leases to keep them apart; that run is not
kept). In `Workflow` two
plans are what a stale plan needs (one is executed, or blocked, after the other
moved the task and HEAD), two commits tell the state before a deployment from
every other, and a second deployment meets the rows of the first only through
the task, whose references it replaces (a run with two deployments and
one plan holds too; it is not kept because it shows nothing new). One crash and one storage error can hit any
point, also inside a startup or a catch block; one error is what the timer
assumption lets pass. The clock reaches past the expiry of a lease acquired or
renewed after the first, and past the retention. No operation starts and no process dies so late that the clock could not see
the lease expire (`WithinHorizon`); so TLC does not meet a project that is taken over after its lease ran
out. The proofs of section 4, which have no bounds, cover that.

In `access` two rotations are what a race needs, tables of one entry make every
second source evict, and a clock to 3 with windows of 2 has windows that end
and overlap. In `oauth` two codes and two refresh tokens give an authorization a
second token (by refresh) or the client a second authorization, and every
lifetime is shorter than the clock, so what has expired is pruned between
exchanges. The workloads of `calls` hold the calls that meet in one hazard: two
edits of one version and a write under another name; an edit, a write and a
delete; a retried query; an id used again for other arguments; a transaction
beside a restart; the helper beside a query; a command. Files and guarded writes
share no state, so mixed workloads would only multiply. Finished keys are pruned
at the first start after the tick they ended in (`Retention = 0`), so a key used
again after its pruning is met.

Symmetry is used in `access` and `oauth` (sources, tokens other than the named ones),
which check no liveness. Deadlock is checked in every run but `calls`, where all
calls may be answered and the clock be at its bound: elsewhere the agent can
always start, stop or serve.

**Fairness.** Weak fairness of the steps the runtime takes by itself: the statements
of a stretch, a due timer, the startup steps, the end of a drain, the clock
in `PersistentOperations`; the settling of work, weak in `TaskJobs`, strong in
`PersistentOperations` because other handlers keep occupying the loop; and systemd's
`Restart=on-failure`, which is the fairness of the startup steps of an agent that is
down. A stopped agent need not start again: `BegunWorkEnds` and `RunningJobEnds` allow
that a stop leaves a row RUNNING to the next start, if there is one.

Every command, probe and query below `run()` has a timeout, but the kill reaches the
direct child, and what is awaited is the close of its pipes. That work settles is
therefore assumed only where no descendant holds them: of the operations outside
`Lingering`, of the jobs in `Punctual` (all of them in `jobs_fair`, whose operation is taken to be
punctual too), of the calls outside `Lingering`. Where a descendant does, a
`cancel_task` may wait without bound, and `StopCompletes` rests on the 180 s after which systemd
kills the control group.

In `calls` the handlers, the timers and the clock go on, and a process that was sent
SIGKILL ends; no child is trusted to end by itself, and the faults of the host helper need
not happen.
Nothing is assumed of clients, signals, storage errors and crashes. `jobs_fair` leaves keys out to stay small; they play no part in who
waits for whom.

**The four disagreements.**

* `jobs_overrun`: a job's lease is acquired once for `commandTimeoutMs + 5 s` and
  never renewed, but the job ends with the *close* event of its child, which a
  descendant holding the pipes delays without bound. A second worker enters the
  project while the first still writes. `docs/architecture.md:19` promises leases
  that "prevent overlapping mutating work".
* `jobs_stop`: `shutdown()` aborts and awaits the jobs it knows. A `start()` that is
  at its `mkdir` spawns its child afterwards (`start` does not look at a shutdown
  flag), `db.close()` follows, and the row stays RUNNING until the next start
  makes it UNKNOWN. `tests/jobs/job-manager.test.ts:59` says a stop "waits for durable
  terminal state".
* `workflow_advice`: `recovery_assess` is itself an operation of the task it assesses.
  The evidence lists its RUNNING row, `decide()` answers WAITING_FOR_USER at its
  first rule, and nothing after that rule is ever reached: no assessment
  requires a rollback, as `docs/recovery.md:21` says it does after a failed
  deployment, and none recommends to resume.
* `workflow_rollback`: `rollback_plan` runs beside a deployment. If that deployment
  then fails, the task is FAILED and the plan READY; executing it sets the plan to
  ROLLING_BACK and throws at the task, outside the try block. The plan stays
  ROLLING_BACK (it cannot be executed again), the task does not go to
  WAITING_FOR_USER as `docs/recovery.md:43` says.

## 4. What is proved

`PersistentOperationsProofs`, for every set of projects, keys, tasks and operations
and every bound:

* `TypeCorrect`: `Spec => []TypeOK`.
* `InductiveInvariant`: `Spec => []IInv`. `OneOperationPerProject` is not inductive: that
  two operations are not active together says nothing of whether the lease of
  the one that is will still hold when the next asks. `IInv` adds that an active
  operation owns its project's lease, that its timer is not overdue by more than
  `MaxLate`, and that the lease outlives the timer by one *slack*
  (`RenewEvery + MaxLate`) for every storage error still to come. A swallowed
  renewal costs one slack and one error; `TimerAssumption` says the budget is
  there to begin with.
* `MutualExclusion`: `Spec => []OneOperationPerProject`, because the lease has one
  owner.
* `Refinement`: `Spec => ImplementsExclusiveWork`. A start maps to `Begin` (the lease
  was free, so by `IInv` nobody was active), `Finalise` and a rejection during a drain to
  `End`, a crash or any other rejection to `Halt`, everything else to a stutter.
* `OutcomesAreFinal`: `Spec => OutcomeIsFinal`; its invariant says that an active
  operation whose outcome is not yet written has a RUNNING row, and that during
  startup nothing is active.

They assume `OpsAssumption` (sorts of the constants) and `TimerAssumption`; TLC
evaluates both on every run.

`OperationRecordsProofs`, from the same assumptions, is about what operations leave
behind. Its inductive invariant `RecordsInv` (`RecordsInvariance`) follows the records
through the seven statements of `start()`:

* `StretchInv`: until its last statement a start holds its key IN_PROGRESS, with the task
  of its fingerprint, and its operation has not begun.
* `RecordInv`: a completed key records an operation that began under it, and was
  completed at the very time of its row. The pruning compares that time.
* `BegunInv`: the key of a begun operation records it until the retention is over.
* `ReconciledInv`: when the startup has come to the pruning, no row is RUNNING.
* `CoverInv`: a lease that covers an operation is the lease of its project, and
  nobody else can take it before it has run out.

It gives `KeysRunOnce` (`RunsOncePerKey`; a second operation needs a key that is free, so
`BegunInv` of the first says that its retention is over), `ReplaysAreOwn`
(`ReplayIsOwnRow`), `NoPhantoms` (`RunningIsExecuting`, which is about a process that accepts
work: a rejection ends that process, whereas a drain survives it with the row still
RUNNING) and, as an action property, `CrashesKeepLeases` (`CrashKeepsLease`).

`TaskJobsProofs`, for every set of projects, tasks, jobs, operations and keys and every
bound, from `JobsAssumption` (sorts of the constants, `JobLimit` a natural number):

* `TypeCorrect`: `Spec => []TypeOK`, with what is in memory: a call, a controller or an
  operation under way belongs to a request and to a row that says so, a process that
  does not serve has none, and a stretch is that of an attached job, whose row says
  what the statements before have written (`StretchInv`; `TypeInvariance`).
* `InterruptedWorkWaits`, `QuietTasksStayQuiet` and `KeysSpawnOnce` state safety
  invariants of the runs, `TasksAreNotShared` states `OneJobPerTask`. They rest on one inductive invariant,
  `SafetyInv` (`SafetyInvariance`): how far the startup has reconciled (`BootInv`, without
  which a crash between two of its statements is not covered); a task has one job at
  most that is RUNNING or attached (`TaskInv`), and no more are attached than the limit
  (`LimitInv`), which `Attach` counts by the rows and is therefore about both; a key names one
  request for good (`KeyInv`).
* `JobsAreBounded` (`JobsWithinBounds`): besides, every child that no controller ends was
  lost to a storage error of its own. `LostInv` (`StraysInvariance`) counts from the error
  on, when the job of the child is still attached.
* `OutcomesAreFinal` and `ServesWhatItReconciled` are the action properties
  `JobOutcomeIsFinal` and `ServesOnlyReconciled`. The former allows the one revision the
  code makes, from COMPLETED to FAILED before any other handler has run; that it
  never becomes CANCELLED needs that no controller is aborted inside a stretch.
* `LeaseInvariance`: calls and operations hold the lease of their project, and so do
  children until storage first fails. Hence `WorkersExclude` (`OneWorkerPerProject` as long
  as `faults = 0`), `CancelsAreQuiet` (`CancelledWhenQuiet`: the job that `cancel_task` awaits
  holds the lease an operation would need to begin meanwhile) and
  `JobsRefineExclusiveWork` (`Spec => ImplementsExclusiveWork`: `Attach` and `OpStart` map to
  `Begin`, `Finalise` and the end of an operation to `End`, `Close` and `Crash` to `Halt`, the
  rest to a stutter; a project's work is its attached jobs, its children and its
  operations). These three assume `Overrun = FALSE`, the last two `MaxFaults = 0`
  as well, because without that they are false: `jobs_overrun` shows the first, and
  a throwing `onSpawn`, or a key that cannot be completed when the command is on its
  way, the second: the lease of a living child is free.

`WorkflowProofs`, for every set of tasks, deployments, plans, commits and every bound,
from the assumption of `Workflow` on its constants:

* `TypeCorrect`: `Spec => []TypeOK`, by an invariant with the references between rows
  (`TypeInvariance`): a task names a deployment that exists, a plan a commit that was
  recorded, a draft a plan that is not stored yet.
* `SafetyInvariance`: at each await the row of the work under way is in the status
  that await implies (`DeploymentBooks`, `RollbackBooks`, which also say where `head` is),
  and its task is in the status of the work, or was handed over by a plan that was
  made meanwhile (`TaskHeld`). The invariants of the runs follow:
  `TerminalTasksAreBacked` (`TerminalIsBacked`), `WorkHoldsItsTask` (`WorkedTaskIsHeld`).
* `NoOrphans` (`NoOrphanStatus`): until storage fails, a task in the status of work is the
  worker's, and the worker is past the step that gave it that status (`OrphanInv`).
* `RollbacksStartAsPlanned` and `RollbacksReachTarget` are the action properties
  `RollbackStartsAsPlanned` and `RollbackReachesTarget`, from `RollbackBooks`: between the
  test of `head` and the UPDATE of the plan nothing that the lease allows moves it.

`AccessProofs`, for every set of principals, definitions, credentials and sources, any
number of rotations at once, from `CredentialAssumption` and, for the limiters,
`AccessAssumption`: a window, limits and table sizes of one at least, as the constructor
of the limiter demands, and names that tell sources from principals:

* `OneSuccessor`: `Spec => []OneLiveSuccessor`. The invariant (`LineageInv` in
  `CredentialsProofs`) adds that the first credential of every lineage exists, so a new
  one begins a lineage of its own, and that a rotation under way has an old
  credential that exists: when it commits, the old one is revoked with it, or was
  revoked before and the lineage is `raced`.
* `OnlyAdminRevives`: `Spec => AgentRevivesNothing`. It needs that the principal of every
  credential exists: the bootstrap enables a principal only by creating it.
* `LimitsAreKept`: `Spec => []LimitsHold`, for every window, every limit and every size of
  the tables. The invariant (`LimiterInv`, `Accounted`) relates each entry of a limiter to
  what its key was let through, for every n below the window: in the last n + 1
  ticks less than its count plus the limit; no more than its count if those ticks
  began with its window, and less if they began later, because the entry counts them
  all and its first too; and nothing if they began a whole window later, because an
  expired entry is not counted in any more. A key without an entry was let through nothing in this tick and less
  than its limit before, so it may start a window. Each case of `consume` (new, expired,
  running, full), the eviction of `prune`, the removal of `isBlocked`, the clock and the
  restart keep that. Which entry `prune` takes is a minimum, a CHOOSE: that a set of
  naturals has one (`Least`) is proved with the pigeonhole theorem of the library.

`OAuthProofs`, for every set of clients, codes, tokens and principals and every
lifetime, from `CredentialAssumption` and `OAuthAssumption` (sorts of the constants):

* `TypeCorrect`: `Spec => []TypeOK`.
* `OneTokenPerGrant`: `Spec => []OneLiveTokenPerGrant`. Inductive with one more fact
  (`GrantInv`): the code of the exchange in flight is redeemed and has no live token,
  because the exchange took the only one before it began to issue. A crash
  between the two statements leaves that true.
* `ClientsKept`: `Spec => []TokensKeepTheirClient`. The invariant (`RowsKeepTheirClient`) is about
  every row that refers to a client, used and revoked ones too, and the exchange
  in flight: what the pruning of clients looks at.

`ConcurrentCallsProofs`, for every set of calls, projects, keys and files, any workload
and any limits that satisfy `TimeAssumption` (work is limited to less than its
lease, and the helper's own limit is shorter than that of the request to it, as
the code's constants are):

* `TypeCorrect`: `Spec => []TypeOK`.
* `OverlapNeedsGivingUp`: `Spec => []OverlapOnlyWhenGivenUp`. The invariant `HeldWhileWorking` says of each
  guarded write that is preparing, or whose child lives and is not given up, that
  the lease of its project is its own and counts from its beginning, and that
  its limit is not past; as the limit is shorter than the lease, the lease is
  unexpired, and `Begins` of another call is refused. A call lets only its own lease
  go when it settles. Timers come before later events (`Tick` waits for what is
  `Overdue`).

* `EditsReplaceWhatWasRead`: `Spec => NoLostEdit`. A lock is a chain of promises, which
  only the entry of the map and the call before each call describe. That it excludes
  is a statement about the whole chain: `LineInv` says the calls in it can be
  ranked, such that each waits for the one ranked before it, who holds the lock is
  ranked first and the entry of the map last. A rank exists after every step
  (`Enqueue` takes the next number), so no induction over the chain is needed. `LocksExclude`
  follows, and with it that what an edit has tested for the second time stays until its
  rename, unless a call that holds another lock replaces it.
* `KeyedWorkOnce`: `Spec => []KeyedWorkIsDoneOnce`. `KeyInv` adds that a call under way owns
  its key (`ActiveInv`), that the key of a begun call is taken or its retention over
  (`BegunInv`, `RetentionInv`), and what a completed key and an answer of success stand for:
  work that was done with the same arguments (`RecordInv`, `AnswerInv`). An effect comes
  only from a child that has been started, and the child of a restart does not outlive
  its call (`EffectInv`), whereas that of a database write does, and that of a command
  whose start was reported as failed (`CommandUnguarded`: a command has neither key nor
  lease here, `TaskJobs` has them).

Every invariant and action property of the passing runs is thus stated by a theorem;
three of `TaskJobs`, `OneWorkerPerProject`, `CancelledWhenQuiet` and `ImplementsExclusiveWork`, under
the conditions their runs have too (no job outlives its lease, storage does not
fail). What stays with TLC are the liveness properties (`BegunWorkEnds`, `LeaseComesFree`,
`RunningJobEnds`, `CallsReturn`, `StopCompletes`, `CallsSettle`): they rest on fairness and ENABLED,
which the provers at hand do not handle. The runs that expect a violation are
counterexamples and have nothing to prove.

## 5. Not modelled, and why

* Redaction, logging, configuration, argument checking, argv and SQL
  classification, path refusals, Git and journal reading: they hold no state and
  the rest of the model needs only their verdicts, which it chooses freely.
* The HTTP transport keeps nothing between requests; its refusals are one choice
  of `ToolCalls` and precede every step of `Access`.
* The tasks extension is a view of the rows of `PersistentOperations`, with
  `requestCancellation` behind its one command; it keeps no state.
* The attempt numbers of validation are a count of rows plus one. The pruning of
  evidence tables takes rows of tasks that have ended, and neither the validation
  nor the deploy tool asks for the status of the task: an attempt after the pruning
  may get the number of a row that is left, and its INSERT fails. Neither side is
  modelled.
* The cut-off of the evidence at five rows: the instances have fewer.
* The migrations are linear scripts inside transactions; the tables appear as
  the row types of the modules that use them.
* Installation and unit files appear as the restart of the process and the
  control group that takes its children along.

## 6. Plan

1. **Done**: stores, `PersistentOperations`, `TaskJobs`, their runs and proofs.
2. **Done**: `Workflow`, deployment, assessment and rollback.
3. **Done**: `ProcessExecutor`, under the commands, restarts and the host helper of
   `GuardedWrites`.
4. **Done**: `Credentials`, `RateLimiter`, `Access` and `OAuth`, with proofs, the bounds of the
   limiters included.
5. **Done**: `FileWrites`, `GuardedWrites` and `ConcurrentCalls`, with proofs. The exclusion of
   guarded writes is a property of its own rather than a refinement of
   `ExclusiveWork`, which the code does not implement: a write that was given up may
   still be at work when the next begins.
6. Open: the attempt numbers of validation together with the pruning of its rows,
   and the cut-off of the evidence, in an instance of `Workflow` with more rows.
