------------------------------ MODULE TaskJobs ------------------------------
(***************************************************************************)
(* Tasks, command jobs and the operations that run beside them: the job    *)
(* manager of jobs/job-manager.ts, the task engine of tasks/task-engine.ts,*)
(* and the startup and shutdown sequences of runtime/server-agent.ts.      *)
(*                                                                         *)
(* A job is started by a call that acquires the project lease, awaits a    *)
(* mkdir, and then re-checks everything in one transaction: in between     *)
(* tasks are paused and cancelled, leases run out, the agent drains.  A    *)
(* task is cancelled by a call that awaits its job.  The command runner    *)
(* awaits its sandbox before it spawns the child.  These awaits are split  *)
(* points of the model; what runs between two awaits is one step, except   *)
(* where a statement may fail when an earlier one has committed: the key   *)
(* of a job is completed, and its outcome is written, by a stretch of      *)
(* steps, and variable loop says which statement of it comes next.         *)
(*                                                                         *)
(* Operations appear with their row, their lease and their effect on the   *)
(* task: validations, which have none, and recovery assessments.  Their    *)
(* own internals are in PersistentOperations.  Keys are never pruned here: *)
(* a behaviour spans less than the retention of 30 days.                   *)
(***************************************************************************)
EXTENDS TaskTable, Naturals, FiniteSets

CONSTANTS
    Project, Task,
    TaskProject,    \* TaskProject[t]: the project of task t
    NoTask,
    Job, NoJob,     \* job ids (randomUUID)
    Op,             \* operation ids
    NoWork,
    Key,            \* (scope, key); ProjectOf[k] is the project in the scope
    ProjectOf, NoKey,
    JobLimit,       \* maxConcurrentJobs
    MaxAssess,      \* maxRecoveryAttempts
    Overrun,        \* whether a job may outlive its lease, which nothing renews
    MaxFaults,      \* bound: storage errors
    MaxCrashes      \* bound: crashes

ASSUME JobsAssumption ==
    /\ Job \cap Op = {} /\ NoWork \notin Job \cup Op /\ NoJob \notin Job
    /\ NoTask \notin Task /\ NoKey \notin Key /\ "none" \notin Project
    /\ TaskProject \in [Task -> Project] /\ ProjectOf \in [Key -> Project]
    /\ JobLimit \in Nat \ {0} /\ MaxAssess \in Nat \ {0}
    /\ Overrun \in BOOLEAN /\ MaxFaults \in Nat /\ MaxCrashes \in Nat

VARIABLES
    mode,           \* the process: down, stopped, the startup steps, up, draining
    task,           \* durable: status of each task
    advice,         \* durable: action of the latest recovery decision
    assessed,       \* durable: number of recovery_runs of each task
    job,            \* durable: status of each jobs row
    request,        \* what each job was started with (project, task, key)
    ops,            \* durable: status, kind and task of each operation row
    leases, keys,   \* durable: both in idempotency_keys
    calls,          \* volatile: start() calls awaiting mkdir
    loop,           \* volatile: the stretch under way, and its job
    attached,       \* volatile: jobs with a controller and an execution
    children,       \* volatile: jobs whose child process lives
    aborted,        \* volatile: controllers that were aborted
    cancels,        \* volatile: cancel_task calls awaiting the end of a job
    opActive,       \* volatile: operations being executed
    waitedFor,      \* volatile: the executions JobManager.shutdown awaits
    crashes, faults

Work  == Job \cup Op
Lease == INSTANCE OperationLeaseStore WITH Owner <- Work, NoOwner <- NoWork
Idem  == INSTANCE IdempotencyStore
             WITH Fingerprint <- Task, NoPrint <- NoTask, Work <- Job, NoWork <- NoJob

durable  == <<task, advice, assessed, job, request, ops, leases, keys>>
volatile == <<calls, loop, attached, children, aborted, cancels, opActive,
              waitedFor>>
vars     == <<mode, durable, volatile, crashes, faults>>

-----------------------------------------------------------------------------
Booting == {"operations", "jobs", "interrupted", "unknown"}
Serving == {"up", "draining"}
Dead    == {"down", "stopped"}
Mode    == Dead \cup Booting \cup Serving

\* Restart=on-failure: systemd starts nothing again that it was asked to stop.
Deceased == IF mode = "draining" THEN "stopped" ELSE "down"

\* key: a start has its key to complete.  The others are the continuations of an
\* execution: its outcome is written, an error caught, the row revised, or the
\* error on its way out of the catch block.
Ending == {"written", "caught", "revised", "rethrow"}
Pc     == {"idle", "key"} \cup Ending

NoStretch == [pc |-> "idle", job |-> NoJob]

Unresolved == {"RUNNING", "UNKNOWN"}
JobStatus  == {"ABSENT", "COMPLETED", "FAILED", "CANCELLED"} \cup Unresolved
OpStatus   == {"ABSENT", "SUCCEEDED", "FAILED"} \cup Unresolved
Kind       == {"VALIDATION", "RECOVERY"}
Decision   == {"WAITING_FOR_USER", "RESUME_RECOMMENDED"}

Request   == [project : Project, task : Task \cup {NoTask}, key : Key \cup {NoKey}]
Unused    == [project |-> "none", task |-> NoTask, key |-> NoKey]
OpRow     == [status : OpStatus, kind : Kind, task : Task \cup {NoTask}]
NoRow     == [status |-> "ABSENT", kind |-> "VALIDATION", task |-> NoTask]

JobsOf(t, statuses) == {j \in Job : request[j].task = t /\ job[j] \in statuses}
OpsOf(t, statuses)  == {o \in Op : ops[o].task = t /\ ops[o].status \in statuses}

\* Mutant: only running operations block.
BlockingRunningOperation(t) == OpsOf(t, {"RUNNING"})

BlockingOperation(t) == OpsOf(t, Unresolved)

\* Mutant: an UNKNOWN job does not block.
BlockingLiveWork(t) == JobsOf(t, {"RUNNING"}) \cup BlockingOperation(t)

BlockingWork(t) == JobsOf(t, Unresolved) \cup BlockingOperation(t)

\* No handler runs inside a stretch.
Idle     == loop.pc = "idle"
At(pc)   == loop.pc = pc
GoTo(pc) == loop' = [loop EXCEPT !.pc = pc]

TypeOK ==
    /\ mode \in Mode
    /\ task \in [Task -> TaskStatus]
    /\ advice \in [Task -> Decision \cup {"NONE"}]
    /\ assessed \in [Task -> Nat]
    /\ job \in [Job -> JobStatus]
    /\ request \in [Job -> Request \cup {Unused}]
    /\ ops \in [Op -> OpRow]
    /\ leases \in Lease!LeaseTable
    /\ keys \in Idem!KeyTable
    /\ calls \subseteq Job /\ loop \in [pc : Pc, job : Job \cup {NoJob}]
    /\ attached \subseteq Job /\ aborted \subseteq attached
    /\ children \subseteq Job
    /\ cancels \subseteq Task \X Job
    /\ opActive \subseteq Op /\ waitedFor \subseteq Job
    /\ crashes \in 0 .. MaxCrashes /\ faults \in 0 .. MaxFaults

Init ==
    /\ mode = "down"
    /\ task = [t \in Task |-> "PENDING"]
    /\ advice = [t \in Task |-> "NONE"]
    /\ assessed = [t \in Task |-> 0]
    /\ job = [j \in Job |-> "ABSENT"]
    /\ request = [j \in Job |-> Unused]
    /\ ops = [o \in Op |-> NoRow]
    /\ leases = [p \in Project |-> Lease!NoLease]
    /\ keys = [k \in Key |-> Idem!NoRecord]
    /\ calls = {} /\ loop = NoStretch /\ attached = {} /\ aborted = {}
    /\ children = {} /\ cancels = {} /\ opActive = {} /\ waitedFor = {}
    /\ crashes = 0 /\ faults = 0

Fault == faults < MaxFaults /\ faults' = faults + 1

-----------------------------------------------------------------------------
(* Leases.  The clock is abstracted: a lease is acquired with one unit to    *)
(* live and LeaseExpires takes it away, at time 0.  The leases of executing  *)
(* operations are renewed in time (see PersistentOperations).                *)

\* Mutant: the conflict test is missing.
TakeAnyway(p, w) == leases' = Lease!Acquire(leases, p, w, 0, 1)

Take(p, w) == /\ Lease!Acquirable(leases[p], w, 0)
              /\ leases' = Lease!Acquire(leases, p, w, 0, 1)

LeaseExpires(p) ==
    /\ Lease!Unexpired(leases[p], 0)
    /\ leases[p].owner \notin opActive
    /\ leases[p].owner \notin calls
    /\ Overrun \/ leases[p].owner \notin attached
    /\ leases' = [leases EXCEPT ![p].expiresAt = 0]
    /\ UNCHANGED <<mode, task, advice, assessed, job, request, ops, keys,
                   volatile, crashes, faults>>

-----------------------------------------------------------------------------
(* JobManager.start() *)

\* Up to the await of mkdir.  A request still in flight when the agent begins
\* to drain gets here too: start() does not look at the shutdown.
JobStart(j, p, t, k) ==
    /\ mode \in Serving /\ Idle
    /\ request[j] = Unused
    /\ k # NoKey => ProjectOf[k] = p /\ Idem!Fresh(keys[k])
    /\ Take(p, j)
    /\ keys' = IF k = NoKey THEN keys ELSE Idem!Begin(keys, k, t, 0)
    /\ request' = [request EXCEPT ![j] = [project |-> p, task |-> t, key |-> k]]
    /\ calls' = calls \cup {j}
    /\ UNCHANGED <<mode, task, advice, assessed, job, ops, loop, attached,
                   children, aborted, cancels, opActive, waitedFor, crashes, faults>>

\* The project is leased: the key, begun just before, is spent as FAILED.
JobConflict(t, k) ==
    /\ mode \in Serving /\ Idle
    /\ Idem!Fresh(keys[k])
    /\ Lease!Unexpired(leases[ProjectOf[k]], 0)
    /\ keys' = Idem!Finish(Idem!Begin(keys, k, t, 0), k, "FAILED", NoJob, 0)
    /\ UNCHANGED <<mode, task, advice, assessed, job, request, ops, leases,
                   volatile, crashes, faults>>

\* Mutants: the task is not read again; the limit is off by one.
MayAttachUnchecked(j) ==
    LET r == request[j] IN
    /\ Cardinality({i \in Job : job[i] = "RUNNING"}) < JobLimit
    /\ r.task # NoTask => /\ TaskProject[r.task] = r.project
                          /\ JobsOf(r.task, {"RUNNING"}) = {}

MayAttachOneMore(j) ==
    LET r == request[j] IN
    /\ Cardinality({i \in Job : job[i] = "RUNNING"}) <= JobLimit
    /\ r.task # NoTask => /\ TaskProject[r.task] = r.project
                          /\ task[r.task] = "RUNNING"
                          /\ JobsOf(r.task, {"RUNNING"}) = {}

\* The transaction of start(): every condition is read again after the await.
MayAttach(j) ==
    LET r == request[j] IN
    /\ Cardinality({i \in Job : job[i] = "RUNNING"}) < JobLimit
    /\ r.task # NoTask =>
          /\ TaskProject[r.task] = r.project
          /\ task[r.task] = "RUNNING"
          /\ JobsOf(r.task, {"RUNNING"}) = {}

\* The row is inserted and the controller registered; run() is on its way to the
\* spawn.
Attach(j) ==
    /\ j \in calls /\ Idle
    /\ MayAttach(j)
    /\ job' = [job EXCEPT ![j] = "RUNNING"]
    /\ calls' = calls \ {j}
    /\ attached' = attached \cup {j}
    /\ loop' = IF request[j].key = NoKey THEN loop ELSE [pc |-> "key", job |-> j]
    /\ UNCHANGED <<mode, task, advice, assessed, request, ops, leases, keys, children,
                   aborted, cancels, opActive, waitedFor, crashes, faults>>

\* Mutant: a failed start frees its key.
FreeKeyOf(j) ==
    LET k == request[j].key IN
    keys' = IF k = NoKey THEN keys ELSE [keys EXCEPT ![k] = Idem!NoRecord]

FailKeyOf(j) ==
    LET k == request[j].key IN
    keys' = IF k # NoKey /\ keys[k].status = "IN_PROGRESS"
              THEN Idem!Finish(keys, k, "FAILED", NoJob, 0) ELSE keys

\* mkdir or open fails, or the transaction refuses and is rolled back.
AttachRefused(j) ==
    /\ j \in calls /\ Idle
    /\ calls' = calls \ {j}
    /\ leases' = Lease!Release(leases, request[j].project, j)
    /\ FailKeyOf(j)
    /\ UNCHANGED <<mode, task, advice, assessed, job, request, ops, loop,
                   attached, children, aborted, cancels, opActive, waitedFor, crashes,
                   faults>>

CompleteKey ==
    /\ At("key")
    /\ keys' = Idem!Finish(keys, request[loop.job].key, "COMPLETED", loop.job, 0)
    /\ loop' = NoStretch
    /\ UNCHANGED <<mode, task, advice, assessed, job, request, ops, leases, calls,
                   attached, children, aborted, cancels, opActive, waitedFor, crashes,
                   faults>>

\* complete() throws when the command is already on its way: the catch block
\* releases the lease and fails the key, and the job goes on without either.
CompleteKeyFails ==
    /\ At("key") /\ Fault
    /\ leases' = Lease!Release(leases, request[loop.job].project, loop.job)
    /\ FailKeyOf(loop.job)
    /\ loop' = NoStretch
    /\ UNCHANGED <<mode, task, advice, assessed, job, request, ops, calls,
                   attached, children, aborted, cancels, opActive, waitedFor, crashes>>

-----------------------------------------------------------------------------
(* The child.  A process that ends takes its children along: they are in its *)
(* control group, which systemd kills.                                       *)

Spawn(j) ==
    /\ j \in attached \ children /\ Idle
    /\ children' = children \cup {j}
    /\ UNCHANGED <<mode, durable, calls, loop, attached, aborted, cancels, opActive,
                   waitedFor, crashes, faults>>

\* onSpawn, which stores the pid, throws: run() rejects before it has set a timer
\* or listens to the abort and to the close of the child it leaves behind.
SpawnThrows(j) ==
    /\ j \in attached \ children /\ Idle /\ Fault
    /\ children' = children \cup {j}
    /\ loop' = [pc |-> "caught", job |-> j]
    /\ UNCHANGED <<mode, durable, calls, attached, aborted, cancels, opActive,
                   waitedFor, crashes>>

\* Such a stray ends when it likes.
StrayExits(j) ==
    /\ j \in children \ attached /\ Idle
    /\ children' = children \ {j}
    /\ UNCHANGED <<mode, durable, calls, loop, attached, aborted, cancels, opActive,
                   waitedFor, crashes, faults>>

-----------------------------------------------------------------------------
(* The end of a job, and the calls that wait for it *)

\* Mutant: a child that exits in time makes an aborted job COMPLETED.
OutcomeByExit(j) == {"COMPLETED", "FAILED"}

Outcome(j) == IF j \in aborted THEN {"CANCELLED"} ELSE {"COMPLETED", "FAILED"}

\* What cancel_task does once the job it awaited has ended.
AfterJob(t, j) ==
    IF /\ <<t, j>> \in cancels
       /\ JobsOf(t, {"UNKNOWN"}) = {}
       /\ CanSet(task[t], "CANCELLED")
    THEN "CANCELLED" ELSE task[t]

\* Mutants: the abort is kept; the controller is; the waiting calls are forgotten.
DetachKeepsAbort(j) == attached' = attached \ {j} /\ UNCHANGED aborted
DetachNothing(j) == UNCHANGED <<attached, aborted>>
AnswerNobody(j)  == UNCHANGED cancels

Detach(j)        == attached' = attached \ {j} /\ aborted' = aborted \ {j}
AnswerWaiting(j) == cancels' = {c \in cancels : c[2] # j}

\* The child is reported closed, and .then writes the outcome.
JobCloses(j, status) ==
    /\ j \in attached \cap children /\ Idle
    /\ status \in Outcome(j)
    /\ job' = [job EXCEPT ![j] = status]
    /\ children' = children \ {j}
    /\ loop' = [pc |-> "written", job |-> j]
    /\ UNCHANGED <<mode, task, advice, assessed, request, ops, leases, keys, calls,
                   attached, aborted, cancels, opActive, waitedFor, crashes, faults>>

\* run() rejects (no sandbox or executable, the timeout, an output file), or the
\* UPDATE of .then throws.
JobRejects(j) ==
    /\ j \in attached /\ Idle
    /\ children' = children \ {j}
    /\ loop' = [pc |-> "caught", job |-> j]
    /\ UNCHANGED <<mode, durable, calls, attached, aborted, cancels, opActive,
                   waitedFor, crashes, faults>>

\* appendTaskCommand has a transaction of its own, and throws after the outcome
\* was committed: .catch takes over from .then.
AppendFails ==
    /\ At("written") /\ request[loop.job].task # NoTask /\ Fault
    /\ GoTo("caught")
    /\ UNCHANGED <<mode, durable, calls, attached, children, aborted, cancels,
                   opActive, waitedFor, crashes>>

Revise ==
    /\ At("caught")
    /\ job' = [job EXCEPT ![loop.job] =
                  IF loop.job \in aborted THEN "CANCELLED" ELSE "FAILED"]
    /\ GoTo("revised")
    /\ UNCHANGED <<mode, task, advice, assessed, request, ops, leases, keys, calls,
                   attached, children, aborted, cancels, opActive, waitedFor, crashes,
                   faults>>

\* The UPDATE of .catch throws, or its appendTaskCommand.
ReviseFails ==
    /\ \/ At("caught")
       \/ At("revised") /\ request[loop.job].task # NoTask
    /\ Fault
    /\ GoTo("rethrow")
    /\ UNCHANGED <<mode, durable, calls, attached, children, aborted, cancels,
                   opActive, waitedFor, crashes>>

\* .finally, and the calls that awaited it.
Finalise ==
    /\ loop.pc \in {"written", "revised"}
    /\ LET j == loop.job IN
       /\ Detach(j) /\ AnswerWaiting(j)
       /\ leases' = Lease!Release(leases, request[j].project, j)
       /\ task' = [t \in Task |-> AfterJob(t, j)]
    /\ loop' = NoStretch
    /\ UNCHANGED <<mode, advice, assessed, job, request, ops, keys, calls, children,
                   opActive, waitedFor, crashes, faults>>

Perish ==
    /\ loop' = NoStretch
    /\ calls' = {} /\ attached' = {} /\ children' = {} /\ aborted' = {}
    /\ cancels' = {} /\ opActive' = {} /\ waitedFor' = {}

\* The promise of an execution rejects after .finally took it off the maps.  A
\* stop or a cancel that awaits it handles that, perhaps with a RUNNING row left
\* behind; if nobody awaits it, Node ends.
Rejects(j) ==
    IF j \in waitedFor \/ \E c \in cancels : c[2] = j
      THEN /\ Detach(j) /\ AnswerWaiting(j) /\ loop' = NoStretch
           /\ UNCHANGED <<mode, calls, children, opActive, waitedFor>>
      ELSE mode' = Deceased /\ Perish

FinaliseRejecting ==
    /\ At("rethrow")
    /\ leases' = Lease!Release(leases, request[loop.job].project, loop.job)
    /\ Rejects(loop.job)
    /\ UNCHANGED <<task, advice, assessed, job, request, ops, keys, crashes, faults>>

\* The release throws: the lease waits for its expiry.
FinaliseFails ==
    /\ loop.pc \in {"written", "revised", "rethrow"} /\ Fault
    /\ Rejects(loop.job)
    /\ UNCHANGED <<durable, crashes>>

CancelJob(j) ==
    /\ mode \in Serving /\ Idle
    /\ j \in attached
    /\ aborted' = aborted \cup {j}
    /\ UNCHANGED <<mode, durable, calls, loop, attached, children, cancels, opActive,
                   waitedFor, crashes, faults>>

-----------------------------------------------------------------------------
(* Task tools *)

TaskTool == mode \in Serving /\ Idle

MoveTask(t, status) ==
    /\ CanSet(task[t], status)
    /\ task' = [task EXCEPT ![t] = status]

Resume(t) ==
    /\ TaskTool
    /\ task[t] \in Resumable
    /\ BlockingWork(t) = {}
    /\ task[t] = "RECOVERY_REQUIRED" => advice[t] = "RESUME_RECOMMENDED"
    /\ MoveTask(t, "RUNNING")
    /\ UNCHANGED <<mode, advice, assessed, job, request, ops, leases, keys,
                   volatile, crashes, faults>>

Pause(t) ==
    /\ TaskTool
    /\ task[t] = "RUNNING"
    /\ BlockingWork(t) = {}
    /\ MoveTask(t, "PAUSED")
    /\ UNCHANGED <<mode, advice, assessed, job, request, ops, leases, keys,
                   volatile, crashes, faults>>

CancelNow(t) ==
    /\ TaskTool
    /\ BlockingOperation(t) = {}
    /\ JobsOf(t, Unresolved) = {}
    /\ task[t] # "CANCELLED" /\ MoveTask(t, "CANCELLED")
    /\ UNCHANGED <<mode, advice, assessed, job, request, ops, leases, keys,
                   volatile, crashes, faults>>

\* The task's running job is aborted and its end awaited.
CancelAwaits(t, j) ==
    /\ TaskTool
    /\ task[t] \notin Terminal
    /\ BlockingOperation(t) = {}
    /\ j \in JobsOf(t, {"RUNNING"}) \cap attached
    /\ aborted' = aborted \cup {j}
    /\ cancels' = cancels \cup {<<t, j>>}
    /\ UNCHANGED <<mode, durable, calls, loop, attached, children, opActive,
                   waitedFor, crashes, faults>>

-----------------------------------------------------------------------------
(* Operations on a task *)

\* start() up to the first await of the work: an assessment has by then put the
\* task in RECOVERING, or found its attempts used up and handed the task over.
OpStart(o, kind, t) ==
    /\ mode = "up" /\ Idle
    /\ ops[o].status = "ABSENT"
    /\ Take(TaskProject[t], o)
    /\ ops' = [ops EXCEPT ![o] = [status |-> "RUNNING", kind |-> kind, task |-> t]]
    /\ opActive' = opActive \cup {o}
    /\ LET next == IF assessed[t] < MaxAssess THEN "RECOVERING" ELSE "WAITING_FOR_USER"
       IN  IF kind = "RECOVERY" /\ task[t] \notin Terminal /\ CanSet(task[t], next)
           THEN task' = [task EXCEPT ![t] = next] ELSE task' = task
    /\ UNCHANGED <<mode, advice, assessed, job, request, keys, calls, loop,
                   attached, children, aborted, cancels, waitedFor, crashes, faults>>

\* A validation ends, or an assessment that could not put its task in RECOVERING
\* or finds it taken out of that state.
OpSettles(o, status) ==
    /\ o \in opActive /\ Idle
    /\ ops[o].kind = "RECOVERY" =>
          task[ops[o].task] # "RECOVERING" /\ status = "FAILED"
    /\ ops' = [ops EXCEPT ![o].status = status]
    /\ opActive' = opActive \ {o}
    /\ leases' = Lease!Release(leases, TaskProject[ops[o].task], o)
    /\ UNCHANGED <<mode, task, advice, assessed, job, request, keys, calls,
                   loop, attached, children, aborted, cancels, waitedFor, crashes,
                   faults>>

\* Any unresolved work in the evidence decides for the user; otherwise Git,
\* service, health and deployment evidence may speak either way.  The evidence
\* holds the row of the assessing operation itself.
Decisions(t) ==
    IF BlockingWork(t) # {} THEN {"WAITING_FOR_USER"} ELSE Decision

\* NONE: the evidence could not be collected.
StatusFor(decision) ==
    IF decision = "RESUME_RECOMMENDED" THEN "RECOVERY_REQUIRED" ELSE "WAITING_FOR_USER"

\* The assessment decides and moves the task; then execute() settles.
Assessed(o, decision) ==
    /\ o \in opActive /\ Idle
    /\ LET t == ops[o].task IN
       /\ ops[o].kind = "RECOVERY" /\ task[t] = "RECOVERING"
       /\ decision \in Decisions(t) \cup {"NONE"}
       /\ assessed' = [assessed EXCEPT ![t] = @ + 1]
       /\ advice' = [advice EXCEPT ![t] = IF decision = "NONE" THEN @ ELSE decision]
       /\ MoveTask(t, StatusFor(decision))
       /\ leases' = Lease!Release(leases, TaskProject[t], o)
    /\ ops' = [ops EXCEPT ![o].status =
                 IF decision = "NONE" THEN "FAILED" ELSE "SUCCEEDED"]
    /\ opActive' = opActive \ {o}
    /\ UNCHANGED <<mode, job, request, keys, calls, loop, attached, children, aborted,
                   cancels, waitedFor, crashes, faults>>

-----------------------------------------------------------------------------
(* The process: startServerAgent() and shutdown() *)

\* systemd starts the unit after a failure, an operator starts a stopped one.
BootReclaim ==
    /\ mode \in Dead
    /\ leases' = Lease!ReclaimExpired(leases, 0)
    /\ mode' = "operations"
    /\ UNCHANGED <<task, advice, assessed, job, request, ops, keys, volatile,
                   crashes, faults>>

BootOperations ==
    /\ mode = "operations"
    /\ ops' = [o \in Op |-> IF ops[o].status = "RUNNING"
                              THEN [ops[o] EXCEPT !.status = "UNKNOWN"] ELSE ops[o]]
    /\ mode' = "jobs"
    /\ UNCHANGED <<task, advice, assessed, job, request, leases, keys, volatile,
                   crashes, faults>>

\* Mutant: jobs are not reconciled.
BootSkipsJobs ==
    /\ mode = "jobs"
    /\ mode' = "interrupted"
    /\ UNCHANGED <<durable, volatile, crashes, faults>>

BootJobs ==
    /\ mode = "jobs"
    /\ job' = [j \in Job |-> IF job[j] = "RUNNING" THEN "UNKNOWN" ELSE job[j]]
    /\ mode' = "interrupted"
    /\ UNCHANGED <<task, advice, assessed, request, ops, leases, keys, volatile,
                   crashes, faults>>

BootInterrupted ==
    /\ mode = "interrupted"
    /\ task' = [t \in Task |-> IF task[t] \in Interruptible
                                 THEN "RECOVERY_REQUIRED" ELSE task[t]]
    /\ mode' = "unknown"
    /\ UNCHANGED <<advice, assessed, job, request, ops, leases, keys, volatile,
                   crashes, faults>>

\* Mutant: operations are forgotten.
HasUnknownJob(t) == JobsOf(t, {"UNKNOWN"}) # {}

HasUnknownWork(t) == JobsOf(t, {"UNKNOWN"}) \cup OpsOf(t, {"UNKNOWN"}) # {}

BootUnknown ==
    /\ mode = "unknown"
    /\ task' = [t \in Task |-> IF task[t] \notin Terminal /\ HasUnknownWork(t)
                                 THEN "RECOVERY_REQUIRED" ELSE task[t]]
    /\ mode' = "up"
    /\ UNCHANGED <<advice, assessed, job, request, ops, leases, keys, volatile,
                   crashes, faults>>

\* SIGTERM: every controller is aborted, the executions known now are awaited.
Shutdown ==
    /\ mode = "up" /\ Idle
    /\ mode' = "draining"
    /\ aborted' = attached /\ waitedFor' = attached
    /\ UNCHANGED <<durable, calls, loop, attached, children, cancels, opActive,
                   crashes, faults>>

\* db.close() once those ended; calls of clients that hung up are not awaited.
Close ==
    /\ mode = "draining" /\ Idle
    /\ opActive = {} /\ waitedFor \cap attached = {}
    /\ mode' = "stopped" /\ Perish
    /\ UNCHANGED <<durable, crashes, faults>>

\* The SIGTERM comes before its handler is installed, or the unit is stopped
\* while systemd waits to start it again.
StopEarly ==
    /\ mode \in Booting \cup {"down"}
    /\ mode' = "stopped"
    /\ UNCHANGED <<durable, volatile, crashes, faults>>

\* Also the SIGKILL with which systemd ends a drain of more than 180 s.
Crash ==
    /\ mode \notin Dead /\ crashes < MaxCrashes
    /\ crashes' = crashes + 1
    /\ mode' = Deceased /\ Perish
    /\ UNCHANGED <<durable, faults>>

-----------------------------------------------------------------------------
StartCall(j)  == Attach(j) \/ AttachRefused(j)
KeyStep       == CompleteKey \/ CompleteKeyFails
Launch(j)     == Spawn(j) \/ SpawnThrows(j) \/ (j \notin children /\ JobRejects(j))
JobEnds(j)    == JobRejects(j) \/ \E s \in JobStatus : JobCloses(j, s)
Continuations == \/ AppendFails \/ Revise \/ ReviseFails
                 \/ Finalise \/ FinaliseRejecting \/ FinaliseFails
OpEnds(o)    == \/ \E s \in {"SUCCEEDED", "FAILED"} : OpSettles(o, s)
                \/ \E d \in Decision \cup {"NONE"} : Assessed(o, d)
Boot         == \/ BootReclaim \/ BootOperations \/ BootJobs
                \/ BootInterrupted \/ BootUnknown

Next ==
    \/ \E j \in Job : \/ \E p \in Project, t \in Task \cup {NoTask},
                            k \in Key \cup {NoKey} : JobStart(j, p, t, k)
                      \/ StartCall(j) \/ Launch(j) \/ JobEnds(j) \/ CancelJob(j)
                      \/ StrayExits(j)
    \/ \E t \in Task \cup {NoTask}, k \in Key : JobConflict(t, k)
    \/ KeyStep \/ Continuations
    \/ \E t \in Task : \/ Resume(t) \/ Pause(t) \/ CancelNow(t)
                       \/ \E j \in Job : CancelAwaits(t, j)
                       \/ \E o \in Op, kind \in Kind : OpStart(o, kind, t)
    \/ \E o \in Op : OpEnds(o)
    \/ \E p \in Project : LeaseExpires(p)
    \/ Boot \/ Shutdown \/ StopEarly \/ Close \/ Crash

Spec == Init /\ [][Next]_vars

\* Jobs whose child is reported closed by its timeout.  The kill reaches the direct
\* child only: a descendant that holds the pipes delays the close event, and lets
\* the job outlive its lease as well.
Punctual == IF Overrun THEN {} ELSE Job

\* File operations, punctual children and operations, whose commands are taken to be
\* punctual too, come to an end, systemd starts an agent that failed and a stop is
\* carried through.  Clients, operators, signals, crashes and storage errors owe
\* nothing.
Fairness ==
    /\ \A j \in Job : WF_vars(StartCall(j)) /\ WF_vars(Launch(j))
    /\ \A j \in Punctual : WF_vars(j \in children /\ JobEnds(j))
    /\ \A o \in Op : WF_vars(OpEnds(o))
    /\ WF_vars(KeyStep) /\ WF_vars(Continuations)
    /\ WF_vars(mode # "stopped" /\ Boot) /\ WF_vars(Close)

FairSpec == Spec /\ Fairness

-----------------------------------------------------------------------------
(* Properties *)

\* A RUNNING task of a serving agent has no UNKNOWN job or operation: the
\* order of the startup steps and the guards of resume keep interrupted work
\* from being continued as if it had never been interrupted.
RunningTaskHasNoUnknownWork ==
    mode \in Serving =>
        \A t \in Task : task[t] = "RUNNING" =>
            JobsOf(t, {"UNKNOWN"}) \cup OpsOf(t, {"UNKNOWN"}) = {}

\* A paused or cancelled task has no running job: start() checks the task
\* again after its await, pause refuses, cancel waits for the job it aborts.
QuietTaskHasNoRunningJob ==
    \A t \in Task : task[t] \in {"PAUSED", "CANCELLED"} =>
        JobsOf(t, {"RUNNING"}) = {}

\* Attached children never exceed the limit, whatever starts overlap in their
\* awaits and whatever leases they have lost; and each child that runs on without
\* timer, abort or row was lost to a storage error of its own.
JobsWithinBounds ==
    /\ Cardinality(attached) <= JobLimit
    /\ Cardinality(children \ attached) <= faults

\* A task is never worked on by two attached jobs, whatever starts overlap.
OneJobPerTask ==
    \A i, j \in attached :
        (i # j /\ request[i].task # NoTask) => request[i].task # request[j].task

\* A key spawns one child at most and replays only the job it spawned, through
\* conflicts, refused starts, failed key updates and crashes.
JobRunsOncePerKey ==
    /\ \A i, j \in Job : (/\ request[i].key = request[j].key /\ request[i].key # NoKey
                           /\ "ABSENT" \notin {job[i], job[j]}) => i = j
    /\ \A k \in Key : keys[k].status = "COMPLETED" =>
           LET j == keys[k].result IN
           j # NoJob /\ job[j] # "ABSENT" /\ request[j].key = k

\* The outcome of a job comes from its own end, as CANCELLED exactly if somebody
\* aborted it, or as UNKNOWN from a process that never ran it.  It is revised at
\* most from COMPLETED to FAILED, and only before any other handler can read it.
JobOutcomeIsFinal ==
    [][\A j \in Job : job'[j] # job[j] =>
         \/ job[j] = "ABSENT" /\ job'[j] = "RUNNING"
         \/ /\ job[j] = "RUNNING" /\ j \in attached
            /\ job'[j] \in {"COMPLETED", "FAILED", "CANCELLED"}
            /\ (job'[j] = "CANCELLED") = (j \in aborted)
         \/ /\ job[j] = "COMPLETED" /\ job'[j] = "FAILED"
            /\ j \in attached \ aborted /\ loop.job = j /\ ~Idle
         \/ job[j] = "RUNNING" /\ job'[j] = "UNKNOWN" /\ attached = {}]_vars

\* When the agent begins to serve, after however many interrupted startups, no
\* row claims to run and every open task with unresolved work awaits recovery.
ServesOnlyReconciled ==
    [][(mode # "up" /\ mode' = "up") =>
         /\ \A j \in Job : job'[j] # "RUNNING"
         /\ \A o \in Op : ops'[o].status # "RUNNING"
         /\ \A t \in Task :
               /\ task'[t] \notin Interruptible
               /\ (JobsOf(t, {"UNKNOWN"}) \cup OpsOf(t, {"UNKNOWN"}) # {})' =>
                     task'[t] \in Terminal \cup {"RECOVERY_REQUIRED"}]_vars

Workers(p) == {j \in attached \cup children : request[j].project = p}
                \cup {o \in opActive : TaskProject[ops[o].task] = p}

\* Jobs and operations of one project exclude each other (as long as no job
\* outlives its lease and storage does not fail).
OneWorkerPerProject ==
    \A p \in Project : \A w, x \in Workers(p) : w = x

\* No task is cancelled while work on it is unresolved, although cancel checks
\* the operations before it awaits the job and not again afterwards.
CancelledWhenQuiet ==
    [][\A t \in Task : (task[t] # "CANCELLED" /\ task'[t] = "CANCELLED") =>
          (JobsOf(t, Unresolved) \cup OpsOf(t, Unresolved))' = {}]_vars

\* Every started job gets an outcome, crashes included, unless the agent is
\* stopped: a stop may leave the row to the next start.
RunningJobEnds ==
    \A j \in Job : (job[j] = "RUNNING") ~> (job[j] # "RUNNING" \/ mode = "stopped")

\* No call waits forever for a directory or for the job it aborted.
CallsReturn ==
    /\ \A j \in Job : (j \in calls) ~> (j \notin calls)
    /\ \A t \in Task, j \in Job : (<<t, j>> \in cancels) ~> (<<t, j>> \notin cancels)

\* A stop is carried through, whatever was running when it was asked for.
StopCompletes == (mode = "draining") ~> (mode = "stopped")

\* tests/jobs/job-manager.test.ts:59 of a stop: "cancels attached work and waits
\* for durable terminal state": a stop leaves no job row RUNNING.
StopLeavesNothingRunning ==
    [][(mode = "draining" /\ mode' = "stopped") =>
          \A j \in Job : job'[j] # "RUNNING"]_vars

-----------------------------------------------------------------------------
(* Jobs and operations together implement the promise of the leases. *)

Abstract == INSTANCE ExclusiveWork
                WITH working <- [p \in Project |-> Workers(p)]

ImplementsExclusiveWork == Abstract!Spec

=============================================================================
