------------------------------- MODULE Workflow -------------------------------
(***************************************************************************)
(* Deployment, recovery assessment and rollback of the tasks of a project: *)
(* deployment/deployment-engine.ts, recovery/recovery-engine.ts with its   *)
(* evidence, and recovery/rollback-engine.ts, each moving the task it      *)
(* works on and the rows it keeps in its own table.                        *)
(*                                                                         *)
(* All three run as operations under the project lease, so at most one is  *)
(* under way (MutualExclusion of PersistentOperationsProofs): variable     *)
(* worker.  rollback_plan takes no lease and runs beside it, as do the     *)
(* task tools and the file tools.  Handlers interleave at awaits.  Where a *)
(* synchronous stretch writes a row and then the task, the two writes are  *)
(* two steps, so that a crash or a storage error may come between; pcs     *)
(* inside a stretch are listed in Stretch, and nothing else runs there.    *)
(*                                                                         *)
(* Free choices: what commands do to the checkout, the project's service,  *)
(* health and migration state, and the configuration that decides which of *)
(* them count.  Jobs appear as changes of the checkout (see TaskJobs).     *)
(***************************************************************************)
EXTENDS TaskTable, Naturals

CONSTANTS
    Task, NoTask,
    Deployment, NoDeployment,   \* deployment ids (randomUUID)
    Plan, NoPlan,               \* rollback ids
    Commit, NoCommit,
    MaxAttempts,                \* maxRecoveryAttempts
    MaxFaults,                  \* bound: storage errors
    MaxCrashes                  \* bound: crashes

ASSUME WorkflowAssumption ==
    /\ NoTask \notin Task /\ NoDeployment \notin Deployment
    /\ NoPlan \notin Plan /\ NoCommit \notin Commit
    /\ MaxAttempts \in Nat /\ MaxFaults \in Nat /\ MaxCrashes \in Nat

VARIABLES
    up,             \* the process serves
    task,           \* durable: tasks
    dep,            \* durable: deployments
    plan,           \* durable: rollback_plans
    interrupted,    \* durable: tasks with an UNKNOWN operation
    head, clean,    \* the checkout: HEAD, and whether the working tree is clean
    worker,         \* volatile: the operation that holds the lease
    draft,          \* volatile: rollback_plan calls under way
    crashes, faults

rows   == <<dep, plan>>
repo   == <<head, clean>>
bounds == <<crashes, faults>>
vars   == <<up, task, rows, interrupted, repo, worker, draft, bounds>>

-----------------------------------------------------------------------------
DeploymentStatus ==
    {"ABSENT", "PREPARING", "DEPLOYING", "HEALTH_CHECKING", "SUCCEEDED", "FAILED"}

RollbackStatus ==
    {"ABSENT", "READY", "BLOCKED", "ROLLING_BACK", "HEALTH_CHECKING",
     "SUCCEEDED", "FAILED"}

Decision == {"RESUME_RECOMMENDED", "ROLLBACK_REQUIRED", "WAITING_FOR_USER"}

\* commit is git_commit_after, or else git_commit_before; advice the action of the
\* latest recovery decision; assessed the number of recovery_runs.
TaskRow == [status : TaskStatus, deployment : Deployment \cup {NoDeployment},
            commit : Commit \cup {NoCommit}, advice : Decision \cup {"NONE"},
            assessed : Nat]

DeploymentRow == [status : DeploymentStatus, task : Task \cup {NoTask},
                  before : Commit \cup {NoCommit}, after : Commit \cup {NoCommit}]

PlanRow == [status : RollbackStatus, task : Task \cup {NoTask},
            target : Commit \cup {NoCommit}, observed : Commit \cup {NoCommit}]

NewTask == [status |-> "PENDING", deployment |-> NoDeployment, commit |-> NoCommit,
            advice |-> "NONE", assessed |-> 0]

NoDeploymentRow == [status |-> "ABSENT", task |-> NoTask,
                    before |-> NoCommit, after |-> NoCommit]

NoPlanRow == [status |-> "ABSENT", task |-> NoTask,
              target |-> NoCommit, observed |-> NoCommit]

Kind == {"NONE", "DEPLOYMENT", "RECOVERY", "ROLLBACK"}

\* Inside a synchronous stretch: a row is written, the task is next.
Stretch == {"entering", "closing", "recording", "deciding"}

\* Awaits: of the prechecks, the command, the service, the health check, the
\* evidence; and of the three reads that revalidate a plan.
Await == {"precheck", "command", "service", "health", "evidence",
          "status", "head", "migration"}

Worker == [kind : Kind, pc : {"idle"} \cup Stretch \cup Await,
           task : Task \cup {NoTask}, deployment : Deployment \cup {NoDeployment},
           plan : Plan \cup {NoPlan}]

NoWorker == [kind |-> "NONE", pc |-> "idle", task |-> NoTask,
             deployment |-> NoDeployment, plan |-> NoPlan]

\* What a rollback_plan call has read so far.
Draft == [pc : {"idle", "status", "head", "write"}, task : Task \cup {NoTask},
          deployment : Deployment \cup {NoDeployment},
          after : Commit \cup {NoCommit}, clean : BOOLEAN,
          observed : Commit \cup {NoCommit}]

NoDraft == [pc |-> "idle", task |-> NoTask, deployment |-> NoDeployment,
            after |-> NoCommit, clean |-> FALSE, observed |-> NoCommit]

TypeOK ==
    /\ up \in BOOLEAN /\ clean \in BOOLEAN /\ head \in Commit
    /\ task \in [Task -> TaskRow]
    /\ dep \in [Deployment -> DeploymentRow]
    /\ plan \in [Plan -> PlanRow]
    /\ interrupted \subseteq Task
    /\ worker \in Worker
    /\ draft \in [Plan -> Draft]
    /\ crashes \in Nat /\ faults \in Nat

Init ==
    /\ up = FALSE /\ clean = TRUE /\ head \in Commit
    /\ task = [t \in Task |-> NewTask]
    /\ dep = [d \in Deployment |-> NoDeploymentRow]
    /\ plan = [r \in Plan |-> NoPlanRow]
    /\ interrupted = {}
    /\ worker = NoWorker
    /\ draft = [r \in Plan |-> NoDraft]
    /\ crashes = 0 /\ faults = 0

Fault == faults < MaxFaults /\ faults' = faults + 1

\* A handler runs only between two stretches of the worker.
Turn == up /\ worker.pc \notin Stretch

At(kind, pc) == worker.kind = kind /\ worker.pc = pc
GoTo(pc)     == worker' = [worker EXCEPT !.pc = pc]

SetTask(status) == task' = [task EXCEPT ![worker.task].status = status]
MayMove(status) == CanSet(task[worker.task].status, status)

\* setStatus and recordError: refused if the status does not allow it.
Moved(t, status) == IF CanSet(task[t].status, status) THEN status ELSE task[t].status

SetDeployment(status) == dep' = [dep EXCEPT ![worker.deployment].status = status]
SetPlan(status)       == plan' = [plan EXCEPT ![worker.plan].status = status]

-----------------------------------------------------------------------------
(* DeploymentEngine.deploy() *)

\* The prechecks change nothing; the task's status is not looked at.
DeployStart(t) ==
    /\ Turn /\ worker = NoWorker
    /\ worker' = [NoWorker EXCEPT !.kind = "DEPLOYMENT", !.pc = "precheck", !.task = t]
    /\ UNCHANGED <<up, task, rows, interrupted, repo, draft, bounds>>

PrecheckFails ==
    /\ At("DEPLOYMENT", "precheck")
    /\ worker' = NoWorker
    /\ UNCHANGED <<up, task, rows, interrupted, repo, draft, bounds>>

\* The row, and the references of the task, which may be in any status.
Register(d) ==
    /\ At("DEPLOYMENT", "precheck")
    /\ dep[d].status = "ABSENT"
    /\ dep' = [dep EXCEPT ![d] = [status |-> "PREPARING", task |-> worker.task,
                                  before |-> head, after |-> NoCommit]]
    /\ task' = [task EXCEPT ![worker.task].deployment = d, ![worker.task].commit = head]
    /\ worker' = [worker EXCEPT !.pc = "entering", !.deployment = d]
    /\ UNCHANGED <<up, plan, interrupted, repo, draft, bounds>>

\* Outside the try block: the row stays PREPARING.
RegisterFails(d) ==
    /\ At("DEPLOYMENT", "precheck") /\ Fault
    /\ dep[d].status = "ABSENT"
    /\ dep' = [dep EXCEPT ![d] = [status |-> "PREPARING", task |-> worker.task,
                                  before |-> head, after |-> NoCommit]]
    /\ \/ UNCHANGED task
       \/ task' = [task EXCEPT ![worker.task].deployment = d]
    /\ worker' = NoWorker
    /\ UNCHANGED <<up, plan, interrupted, repo, draft, crashes>>

DeployEnters ==
    /\ At("DEPLOYMENT", "entering") /\ MayMove("DEPLOYING")
    /\ SetTask("DEPLOYING") /\ SetDeployment("DEPLOYING")
    /\ GoTo("command")
    /\ UNCHANGED <<up, plan, interrupted, repo, draft, bounds>>

\* The deploy command and the restart succeed; HEAD is recorded.
DeployRuns(c) ==
    /\ At("DEPLOYMENT", "command")
    /\ head' = c
    /\ dep' = [dep EXCEPT ![worker.deployment].after = c]
    /\ task' = [task EXCEPT ![worker.task].commit = c]
    /\ GoTo("service")
    /\ UNCHANGED <<up, plan, interrupted, clean, draft, bounds>>

\* The service is active.
DeployVerifies ==
    /\ At("DEPLOYMENT", "service") /\ MayMove("HEALTH_CHECKING")
    /\ SetTask("HEALTH_CHECKING") /\ SetDeployment("HEALTH_CHECKING")
    /\ GoTo("health")
    /\ UNCHANGED <<up, plan, interrupted, repo, draft, bounds>>

\* Health is as good as the project requires: the row first, the task next.
DeploySucceeds ==
    /\ At("DEPLOYMENT", "health")
    /\ SetDeployment("SUCCEEDED")
    /\ GoTo("closing")
    /\ UNCHANGED <<up, task, plan, interrupted, repo, draft, bounds>>

DeployCompletes ==
    /\ At("DEPLOYMENT", "closing") /\ MayMove("COMPLETED")
    /\ SetTask("COMPLETED")
    /\ worker' = NoWorker
    /\ UNCHANGED <<up, rows, interrupted, repo, draft, bounds>>

\* What sends deploy() to its catch block: a task that may not enter, a command
\* that fails (whatever it did to HEAD), an inactive service, bad health, or, when
\* the row already says SUCCEEDED, a checkpoint that throws or a task that has been
\* taken out of HEALTH_CHECKING.
DeployThrows ==
    \/ At("DEPLOYMENT", "entering") /\ ~MayMove("DEPLOYING") /\ UNCHANGED <<head, faults>>
    \/ At("DEPLOYMENT", "command") /\ head' \in Commit /\ UNCHANGED faults
    \/ At("DEPLOYMENT", "service") /\ UNCHANGED <<head, faults>>
    \/ At("DEPLOYMENT", "health") /\ UNCHANGED <<head, faults>>
    \/ At("DEPLOYMENT", "closing") /\ ~MayMove("COMPLETED") /\ UNCHANGED <<head, faults>>
    \/ At("DEPLOYMENT", "closing") /\ Fault /\ UNCHANGED head

\* Mutant: the failure is recorded, but deploy() goes on.
DeployFailsAndGoesOn ==
    /\ DeployThrows
    /\ SetDeployment("FAILED") /\ GoTo("closing")
    /\ UNCHANGED <<up, task, plan, interrupted, clean, draft, crashes>>

\* The catch block: the row, then the task.
DeployFails ==
    /\ DeployThrows
    /\ SetDeployment("FAILED") /\ GoTo("recording")
    /\ UNCHANGED <<up, task, plan, interrupted, clean, draft, crashes>>

\* Mutant: the error is recorded, the status is not.
DeployRecordsErrorOnly ==
    /\ At("DEPLOYMENT", "recording")
    /\ worker' = NoWorker
    /\ UNCHANGED <<up, task, rows, interrupted, repo, draft, bounds>>

DeployRecords ==
    /\ At("DEPLOYMENT", "recording")
    /\ SetTask(Moved(worker.task, "FAILED"))
    /\ worker' = NoWorker
    /\ UNCHANGED <<up, rows, interrupted, repo, draft, bounds>>

\* A statement of the catch block throws and the rest of it is skipped: the task,
\* or the row as well, stays as it is.
DeployCatchFails ==
    /\ worker.kind = "DEPLOYMENT"
    /\ worker.pc \in {"command", "service", "health", "recording"} /\ Fault
    /\ worker' = NoWorker
    /\ UNCHANGED <<up, task, rows, interrupted, repo, draft, crashes>>

-----------------------------------------------------------------------------
(* RecoveryEngine.assess() *)

\* Up to the first await: the task is RECOVERING.
AssessStart(t) ==
    /\ Turn /\ worker = NoWorker
    /\ task[t].status \notin Terminal /\ task[t].assessed < MaxAttempts
    /\ CanSet(task[t].status, "RECOVERING")
    /\ task' = [task EXCEPT ![t].status = "RECOVERING"]
    /\ worker' = [NoWorker EXCEPT !.kind = "RECOVERY", !.pc = "evidence", !.task = t]
    /\ UNCHANGED <<up, rows, interrupted, repo, draft, bounds>>

\* The attempts are used up: the task is handed over and the operation fails.
AssessLimit(t) ==
    /\ Turn /\ worker = NoWorker
    /\ task[t].status \notin Terminal /\ task[t].assessed >= MaxAttempts
    /\ LET status == IF task[t].deployment # NoDeployment THEN "ROLLBACK_REQUIRED"
                                                   ELSE "WAITING_FOR_USER"
       IN  CanSet(task[t].status, status) /\ task' = [task EXCEPT ![t].status = status]
    /\ UNCHANGED <<up, rows, interrupted, repo, worker, draft, bounds>>

\* The evidence cannot be collected: a FAILED run, and the user decides.
AssessFails ==
    /\ At("RECOVERY", "evidence")
    /\ task' = [task EXCEPT ![worker.task].assessed = @ + 1,
                            ![worker.task].status = Moved(worker.task, "WAITING_FOR_USER")]
    /\ worker' = NoWorker
    /\ UNCHANGED <<up, rows, interrupted, repo, draft, bounds>>

\* The run is inserted as ASSESSING, with the evidence.
AssessRecords ==
    /\ At("RECOVERY", "evidence")
    /\ task' = [task EXCEPT ![worker.task].assessed = @ + 1]
    /\ GoTo("deciding")
    /\ UNCHANGED <<up, rows, interrupted, repo, draft, bounds>>

\* Operations of the task that are RUNNING or UNKNOWN.  They are listed by the
\* evidence, newest first: the assessment is an operation and finds its own row.
UnresolvedOperation(t) == worker.task = t \/ t \in interrupted

\* decide(): git, service and health evidence may always be missing or bad, which
\* leaves the decision to the user.
Decisions(t) ==
    LET d == task[t].deployment IN
    CASE UnresolvedOperation(t) -> {"WAITING_FOR_USER"}
      [] ~UnresolvedOperation(t) /\ d # NoDeployment /\ dep[d].status = "FAILED" ->
            CASE dep[d].after = NoCommit -> {"ROLLBACK_REQUIRED"}
              [] dep[d].after = head     -> {"ROLLBACK_REQUIRED", "WAITING_FOR_USER"}
              [] OTHER                   -> {"WAITING_FOR_USER"}
      [] OTHER ->
            IF task[t].commit \in {NoCommit, head}
              THEN {"RESUME_RECOMMENDED", "WAITING_FOR_USER"}
              ELSE {"WAITING_FOR_USER"}

StatusFor(decision) ==
    IF decision = "RESUME_RECOMMENDED" THEN "RECOVERY_REQUIRED" ELSE decision

AssessDecides(decision) ==
    /\ At("RECOVERY", "deciding")
    /\ decision \in Decisions(worker.task)
    /\ task' = [task EXCEPT ![worker.task].advice = decision,
                            ![worker.task].status = Moved(worker.task, StatusFor(decision))]
    /\ worker' = NoWorker
    /\ UNCHANGED <<up, rows, interrupted, repo, draft, bounds>>

\* A statement throws: the run is not inserted, its decision is not recorded, or
\* only the task is left behind.  The task stays as it is.
AssessRecordFails ==
    /\ worker.kind = "RECOVERY" /\ worker.pc \in {"evidence", "deciding"} /\ Fault
    /\ worker' = NoWorker
    /\ UNCHANGED <<up, task, rows, interrupted, repo, draft, crashes>>

AssessMoveFails(decision) ==
    /\ At("RECOVERY", "deciding") /\ Fault
    /\ decision \in Decisions(worker.task)
    /\ task' = [task EXCEPT ![worker.task].advice = decision]
    /\ worker' = NoWorker
    /\ UNCHANGED <<up, rows, interrupted, repo, draft, crashes>>

-----------------------------------------------------------------------------
(* RollbackEngine.plan(): no operation, no lease *)

PlanCall(r, t) ==
    /\ Turn
    /\ plan[r].status = "ABSENT" /\ draft[r] = NoDraft
    /\ task[t].deployment # NoDeployment
    /\ draft' = [draft EXCEPT ![r] =
                    [NoDraft EXCEPT !.pc = "status", !.task = t,
                                    !.deployment = task[t].deployment,
                                    !.after = dep[task[t].deployment].after]]
    /\ UNCHANGED <<up, task, rows, interrupted, repo, worker, bounds>>

PlanReadsStatus(r) ==
    /\ Turn /\ draft[r].pc = "status"
    /\ draft' = [draft EXCEPT ![r].clean = clean, ![r].pc = "head"]
    /\ UNCHANGED <<up, task, rows, interrupted, repo, worker, bounds>>

PlanReadsHead(r) ==
    /\ Turn /\ draft[r].pc = "head"
    /\ draft' = [draft EXCEPT ![r].observed = head, ![r].pc = "write"]
    /\ UNCHANGED <<up, task, rows, interrupted, repo, worker, bounds>>

\* No reason against the rollback.  A database that migrated, a missing command or
\* a missing permission is a reason at any time.
Ready(x) == x.clean /\ x.after \in {NoCommit, x.observed}

\* The plan is stored.  The task follows if its status allows it; if not, the call
\* fails and the plan stays.
PlanWrites(r, status) ==
    /\ Turn /\ draft[r].pc = "write"
    /\ status = "READY" => Ready(draft[r])
    /\ LET x == draft[r]
           next == IF status = "READY" THEN "ROLLBACK_REQUIRED" ELSE "WAITING_FOR_USER"
       IN
       /\ plan' = [plan EXCEPT ![r] = [status |-> status, task |-> x.task,
                      target |-> dep[x.deployment].before, observed |-> x.observed]]
       /\ task' = [task EXCEPT ![x.task].status = Moved(x.task, next)]
    /\ draft' = [draft EXCEPT ![r] = NoDraft]
    /\ UNCHANGED <<up, dep, interrupted, repo, worker, bounds>>

\* The INSERT succeeds, the move of the task throws.
PlanWriteFails(r, status) ==
    /\ Turn /\ draft[r].pc = "write" /\ Fault
    /\ status = "READY" => Ready(draft[r])
    /\ LET x == draft[r] IN
       plan' = [plan EXCEPT ![r] = [status |-> status, task |-> x.task,
                  target |-> dep[x.deployment].before, observed |-> x.observed]]
    /\ draft' = [draft EXCEPT ![r] = NoDraft]
    /\ UNCHANGED <<up, task, dep, interrupted, repo, worker, crashes>>

-----------------------------------------------------------------------------
(* RollbackEngine.execute() *)

RollbackStart(r) ==
    /\ Turn /\ worker = NoWorker
    /\ plan[r].status = "READY"
    /\ worker' = [NoWorker EXCEPT !.kind = "ROLLBACK", !.pc = "status",
                                  !.task = plan[r].task, !.plan = r]
    /\ UNCHANGED <<up, task, rows, interrupted, repo, draft, bounds>>

\* revalidate(): three reads, of which each may block the plan.  The task is left
\* as it is.
Revalidates(from, unchanged, to) ==
    /\ At("ROLLBACK", from) /\ unchanged
    /\ GoTo(to)
    /\ UNCHANGED <<up, task, rows, interrupted, repo, draft, bounds>>

\* Mutant: the commit that was planned for is not compared.
RevalidateAnyHead == Revalidates("head", TRUE, "migration")

RevalidateStatus == Revalidates("status", clean, "head")
RevalidateHead   == Revalidates("head", head = plan[worker.plan].observed, "migration")

RevalidateBlocks ==
    /\ \/ At("ROLLBACK", "status") /\ ~clean
       \/ At("ROLLBACK", "head") /\ head # plan[worker.plan].observed
       \/ At("ROLLBACK", "migration")
    /\ SetPlan("BLOCKED")
    /\ worker' = NoWorker
    /\ UNCHANGED <<up, task, dep, interrupted, repo, draft, bounds>>

\* A read throws: nothing is written.
RevalidateFails ==
    /\ worker.kind = "ROLLBACK" /\ worker.pc \in {"status", "head"}
    /\ worker' = NoWorker
    /\ UNCHANGED <<up, task, rows, interrupted, repo, draft, bounds>>

\* The row first, the task next.
RollbackBegins ==
    /\ At("ROLLBACK", "migration")
    /\ SetPlan("ROLLING_BACK")
    /\ GoTo("entering")
    /\ UNCHANGED <<up, task, dep, interrupted, repo, draft, bounds>>

RollbackEnters ==
    /\ At("ROLLBACK", "entering") /\ MayMove("ROLLING_BACK")
    /\ SetTask("ROLLING_BACK")
    /\ GoTo("command")
    /\ UNCHANGED <<up, rows, interrupted, repo, draft, bounds>>

\* Outside the try block: the plan stays ROLLING_BACK.  If only the checkpoint
\* throws, so does the task.
RollbackEnterFails ==
    /\ At("ROLLBACK", "entering")
    /\ \/ ~MayMove("ROLLING_BACK") /\ UNCHANGED <<task, faults>>
       \/ Fault /\ UNCHANGED task
       \/ Fault /\ MayMove("ROLLING_BACK") /\ SetTask("ROLLING_BACK")
    /\ worker' = NoWorker
    /\ UNCHANGED <<up, rows, interrupted, repo, draft, crashes>>

\* Mutant: HEAD is not verified.
RollbackRunsUnverified ==
    /\ At("ROLLBACK", "command")
    /\ head' \in Commit
    /\ task' = [task EXCEPT ![worker.task].commit = plan[worker.plan].target]
    /\ GoTo("service")
    /\ UNCHANGED <<up, rows, interrupted, clean, draft, bounds>>

\* The command succeeds and HEAD is at the target.
RollbackRuns ==
    /\ At("ROLLBACK", "command")
    /\ LET target == plan[worker.plan].target IN
       head' = target /\ task' = [task EXCEPT ![worker.task].commit = target]
    /\ GoTo("service")
    /\ UNCHANGED <<up, rows, interrupted, clean, draft, bounds>>

\* The service is active and health is configured.
RollbackVerifies ==
    /\ At("ROLLBACK", "service") /\ MayMove("HEALTH_CHECKING")
    /\ SetPlan("HEALTH_CHECKING") /\ SetTask("HEALTH_CHECKING")
    /\ GoTo("health")
    /\ UNCHANGED <<up, dep, interrupted, repo, draft, bounds>>

\* Health is as required, or not configured.
RollbackSucceeds ==
    /\ worker.kind = "ROLLBACK" /\ worker.pc \in {"service", "health"}
    /\ SetPlan("SUCCEEDED")
    /\ GoTo("closing")
    /\ UNCHANGED <<up, task, dep, interrupted, repo, draft, bounds>>

RollbackCompletes ==
    /\ At("ROLLBACK", "closing") /\ MayMove("ROLLED_BACK")
    /\ SetTask("ROLLED_BACK")
    /\ worker' = NoWorker
    /\ UNCHANGED <<up, rows, interrupted, repo, draft, bounds>>

RollbackThrows ==
    \/ At("ROLLBACK", "command") /\ head' \in Commit /\ UNCHANGED faults
    \/ At("ROLLBACK", "service") /\ UNCHANGED <<head, faults>>
    \/ At("ROLLBACK", "health") /\ UNCHANGED <<head, faults>>
    \/ At("ROLLBACK", "closing") /\ ~MayMove("ROLLED_BACK") /\ UNCHANGED <<head, faults>>
    \/ At("ROLLBACK", "closing") /\ Fault /\ UNCHANGED head

RollbackFails ==
    /\ RollbackThrows
    /\ SetPlan("FAILED") /\ GoTo("recording")
    /\ UNCHANGED <<up, task, dep, interrupted, clean, draft, crashes>>

\* recordError, then WAITING_FOR_USER.
RollbackRecords ==
    /\ At("ROLLBACK", "recording")
    /\ SetTask(IF MayMove("FAILED") THEN "WAITING_FOR_USER" ELSE task[worker.task].status)
    /\ worker' = NoWorker
    /\ UNCHANGED <<up, rows, interrupted, repo, draft, bounds>>

\* A statement of the catch block throws; recordError may already have been through.
RollbackCatchFails ==
    /\ worker.kind = "ROLLBACK"
    /\ worker.pc \in {"command", "service", "health", "recording"} /\ Fault
    /\ \/ UNCHANGED task
       \/ worker.pc = "recording" /\ MayMove("FAILED") /\ SetTask("FAILED")
    /\ worker' = NoWorker
    /\ UNCHANGED <<up, rows, interrupted, repo, draft, crashes>>

-----------------------------------------------------------------------------
(* Task tools, the checkout, the process *)

\* Mutant: only what an earlier process left behind blocks.
BlockingUnknown(t) == t \in interrupted

BlockingWork(t) == worker.task = t \/ t \in interrupted

Resume(t) ==
    /\ Turn /\ task[t].status \in Resumable /\ ~BlockingWork(t)
    /\ task[t].status = "RECOVERY_REQUIRED" => task[t].advice = "RESUME_RECOMMENDED"
    /\ task' = [task EXCEPT ![t].status = "RUNNING"]
    /\ UNCHANGED <<up, rows, interrupted, repo, worker, draft, bounds>>

Pause(t) ==
    /\ Turn /\ task[t].status = "RUNNING" /\ ~BlockingWork(t)
    /\ task' = [task EXCEPT ![t].status = "PAUSED"]
    /\ UNCHANGED <<up, rows, interrupted, repo, worker, draft, bounds>>

Cancel(t) ==
    /\ Turn /\ task[t].status \notin Terminal /\ ~BlockingWork(t)
    /\ task' = [task EXCEPT ![t].status = "CANCELLED"]
    /\ UNCHANGED <<up, rows, interrupted, repo, worker, draft, bounds>>

\* File tools take no lease.
EditFiles ==
    /\ Turn
    /\ clean' \in BOOLEAN
    /\ UNCHANGED <<up, task, rows, interrupted, head, worker, draft, bounds>>

\* A job commits, or checks another commit out, while it holds the lease.
JobMovesHead ==
    /\ Turn /\ worker = NoWorker
    /\ head' \in Commit /\ clean' \in BOOLEAN
    /\ UNCHANGED <<up, task, rows, interrupted, worker, draft, bounds>>

\* Startup: reconciliation in one step (its order is in TaskJobs).
Boot ==
    /\ ~up
    /\ up' = TRUE
    /\ task' = [t \in Task |->
                 IF \/ task[t].status \in Interruptible
                    \/ task[t].status \notin Terminal /\ t \in interrupted
                 THEN [task[t] EXCEPT !.status = "RECOVERY_REQUIRED"] ELSE task[t]]
    /\ UNCHANGED <<rows, interrupted, repo, worker, draft, bounds>>

\* Mutant: a crash of an idle agent marks a task that is not there.
CrashUnchecked ==
    /\ up /\ crashes < MaxCrashes
    /\ crashes' = crashes + 1
    /\ up' = FALSE
    /\ interrupted' = interrupted \cup {worker.task}
    /\ worker' = NoWorker
    /\ draft' = [r \in Plan |-> NoDraft]
    /\ UNCHANGED <<task, rows, repo, faults>>

\* The operation under way will be UNKNOWN; its deployment or plan stays as it is.
Crash ==
    /\ up /\ crashes < MaxCrashes
    /\ crashes' = crashes + 1
    /\ up' = FALSE
    /\ interrupted' = interrupted \cup ({worker.task} \ {NoTask})
    /\ worker' = NoWorker
    /\ draft' = [r \in Plan |-> NoDraft]
    /\ UNCHANGED <<task, rows, repo, faults>>

-----------------------------------------------------------------------------
Deploy ==
    \/ \E t \in Task : DeployStart(t)
    \/ PrecheckFails
    \/ \E d \in Deployment : Register(d) \/ RegisterFails(d)
    \/ DeployEnters
    \/ \E c \in Commit : DeployRuns(c)
    \/ DeployVerifies \/ DeploySucceeds \/ DeployCompletes
    \/ DeployFails \/ DeployRecords \/ DeployCatchFails

Assess ==
    \/ \E t \in Task : AssessStart(t) \/ AssessLimit(t)
    \/ AssessFails \/ AssessRecords
    \/ \E decision \in Decision : AssessDecides(decision) \/ AssessMoveFails(decision)
    \/ AssessRecordFails

PlanRollback ==
    \E r \in Plan :
        \/ \E t \in Task : PlanCall(r, t)
        \/ PlanReadsStatus(r) \/ PlanReadsHead(r)
        \/ \E s \in {"READY", "BLOCKED"} : PlanWrites(r, s) \/ PlanWriteFails(r, s)

Rollback ==
    \/ \E r \in Plan : RollbackStart(r)
    \/ RevalidateStatus \/ RevalidateHead \/ RevalidateBlocks \/ RevalidateFails
    \/ RollbackBegins \/ RollbackEnters \/ RollbackEnterFails
    \/ RollbackRuns \/ RollbackVerifies \/ RollbackSucceeds \/ RollbackCompletes
    \/ RollbackFails \/ RollbackRecords \/ RollbackCatchFails

Next ==
    \/ Deploy \/ Assess \/ PlanRollback \/ Rollback
    \/ \E t \in Task : Resume(t) \/ Pause(t) \/ Cancel(t)
    \/ EditFiles \/ JobMovesHead
    \/ Boot \/ Crash

Spec == Init /\ [][Next]_vars

-----------------------------------------------------------------------------
(* Properties *)

\* What terminal tasks claim is backed by a row of their own, through storage
\* errors and crashes between the two writes, and through plans made while a
\* deployment or a rollback is under way.
TerminalIsBacked ==
    \A t \in Task :
        /\ task[t].status = "COMPLETED" =>
              \E d \in Deployment : dep[d].task = t /\ dep[d].status = "SUCCEEDED"
        /\ task[t].status = "ROLLED_BACK" =>
              \E r \in Plan : plan[r].task = t /\ plan[r].status = "SUCCEEDED"

\* Unless storage fails, a serving agent has no task in the status of work that
\* nobody does: every throw of the engines leads out of it.
NoOrphanStatus ==
    (up /\ faults = 0) =>
        \A t \in Task : task[t].status \in Interruptible \ {"RUNNING"} => worker.task = t

\* The work a task is seen in is the work done on it: while a command or a check
\* runs, the task is in that work's status or has been handed over by a plan.
WorkedTaskIsHeld ==
    LET status == task[worker.task].status
        handedOver == {"ROLLBACK_REQUIRED", "WAITING_FOR_USER"}
    IN
    /\ worker.pc \in {"command", "service"} =>
          status \in handedOver \cup
              (IF worker.kind = "DEPLOYMENT" THEN {"DEPLOYING"} ELSE {"ROLLING_BACK"})
    /\ worker.pc = "health" => status \in {"HEALTH_CHECKING"} \cup handedOver
    /\ worker.pc = "evidence" => status \in {"RECOVERING"} \cup handedOver

\* A plan is executed once, from READY, and on the commit it was made for, however
\* long ago that was and whatever ran in between.
RollbackStartsAsPlanned ==
    [][\A r \in Plan :
         (plan[r].status # "ROLLING_BACK" /\ plan'[r].status = "ROLLING_BACK") =>
            plan[r].status = "READY" /\ head = plan[r].observed]_vars

\* A rollback succeeds only with HEAD at the commit from before its deployment.
RollbackReachesTarget ==
    [][\A r \in Plan :
         (plan[r].status # "SUCCEEDED" /\ plan'[r].status = "SUCCEEDED") =>
            head = plan[r].target]_vars

\* docs/recovery.md:43 "Failed rollback records redacted evidence and moves the
\* task to WAITING_FOR_USER."
FailedRollbackWaits ==
    [][(/\ worker.kind = "ROLLBACK" /\ worker.pc \in Stretch
        /\ up' /\ worker' = NoWorker
        /\ plan'[worker.plan].status # "SUCCEEDED") =>
          task'[worker.task].status = "WAITING_FOR_USER"]_vars

\* docs/recovery.md:21 "ROLLBACK_REQUIRED when a failed deployment has an available
\* last-known-good rollback reference": of a task without unresolved work.
FailedDeploymentAdvisesRollback ==
    [][\A decision \in Decision, t \in Task :
         (/\ worker.task = t /\ AssessDecides(decision)
          /\ t \notin interrupted
          /\ LET d == task[t].deployment IN
             d # NoDeployment /\ dep[d].status = "FAILED" /\ dep[d].after = NoCommit)
         => decision = "ROLLBACK_REQUIRED"]_vars

=============================================================================
