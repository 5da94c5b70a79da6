--------------------------- MODULE WorkflowProofs ---------------------------
(***************************************************************************)
(* Proofs about Workflow.  The type invariant carries what the references  *)
(* between rows need; the inductive invariant of the safety properties     *)
(* says, for each await of the worker, in which status its rows and its    *)
(* task are.                                                               *)
(***************************************************************************)
EXTENDS Workflow, TLAPS

\* Where the handler of each kind of work may be.
DeployPc   == {"precheck", "entering", "command", "service", "health", "closing",
               "recording"}
AssessPc   == {"evidence", "deciding"}
RollbackPc == {"status", "head", "migration", "entering", "command", "service",
               "health", "closing", "recording"}

\* Deployment rows that exist, and plans that exist.
Deployed == {d \in Deployment : dep[d].status # "ABSENT"}
Planned  == {r \in Plan : plan[r].status # "ABSENT"}

\* Work runs in a serving process, on a task and on rows that exist.
WorkerRefs ==
    /\ worker.kind = "NONE" => worker = NoWorker
    /\ worker.kind # "NONE" => up /\ worker.task \in Task
    /\ worker.kind = "DEPLOYMENT" =>
          /\ worker.pc \in DeployPc
          /\ worker.pc # "precheck" => worker.deployment \in Deployed
    /\ worker.kind = "RECOVERY" => worker.pc \in AssessPc
    /\ worker.kind = "ROLLBACK" =>
          worker.pc \in RollbackPc /\ worker.plan \in Planned

\* A reference names a row that is there; the row of a deployment has the commit
\* from before it, and the plan made from it takes that as its target.
RowRefs ==
    /\ \A t \in Task : task[t].deployment \in Deployed \cup {NoDeployment}
    /\ \A d \in Deployed : dep[d].before \in Commit
    /\ \A r \in Planned : plan[r].task \in Task /\ plan[r].target \in Commit

\* A plan is stored by the call that drew its id, and only by that call.
DraftRefs ==
    \A r \in Plan : draft[r].pc # "idle" =>
        /\ r \notin Planned
        /\ draft[r].task \in Task /\ draft[r].deployment \in Deployed

TypeInv == TypeOK /\ WorkerRefs /\ RowRefs /\ DraftRefs

-----------------------------------------------------------------------------
\* The row of the deployment under way says how far it is.
DeploymentRowStatus ==
    [entering |-> "PREPARING", command |-> "DEPLOYING", service |-> "DEPLOYING",
     health |-> "HEALTH_CHECKING", closing |-> "SUCCEEDED", recording |-> "FAILED"]

DeploymentBooks ==
    (worker.kind = "DEPLOYMENT" /\ worker.pc # "precheck") =>
        /\ dep[worker.deployment].task = worker.task
        /\ dep[worker.deployment].status = DeploymentRowStatus[worker.pc]

\* And the row of the rollback.
RollbackRowStatus ==
    [status |-> "READY", head |-> "READY", migration |-> "READY",
     entering |-> "ROLLING_BACK", command |-> "ROLLING_BACK",
     service |-> "ROLLING_BACK", health |-> "HEALTH_CHECKING",
     closing |-> "SUCCEEDED", recording |-> "FAILED"]

RollbackBooks ==
    worker.kind = "ROLLBACK" =>
        /\ plan[worker.plan].task = worker.task
        /\ plan[worker.plan].status = RollbackRowStatus[worker.pc]
        /\ worker.pc = "migration" => head = plan[worker.plan].observed
        /\ worker.pc \in {"service", "health", "closing"} =>
              head = plan[worker.plan].target

\* The statuses in which work holds its task: a plan made meanwhile hands it over.
HandedOver == {"ROLLBACK_REQUIRED", "WAITING_FOR_USER"}

TaskHeld ==
    LET s == task[worker.task].status IN
    /\ At("DEPLOYMENT", "command") \/ At("DEPLOYMENT", "service") =>
          s \in {"DEPLOYING"} \cup HandedOver
    /\ At("ROLLBACK", "command") \/ At("ROLLBACK", "service") =>
          s \in {"ROLLING_BACK"} \cup HandedOver
    /\ worker.pc = "health" => s \in {"HEALTH_CHECKING"} \cup HandedOver
    /\ At("DEPLOYMENT", "closing") => s \in {"HEALTH_CHECKING"} \cup HandedOver
    /\ At("ROLLBACK", "closing") =>
          s \in {"ROLLING_BACK", "HEALTH_CHECKING"} \cup HandedOver
    /\ worker.pc \in AssessPc => s \in {"RECOVERING"} \cup HandedOver

\* The inductive invariant of the safety properties.
SafetyInv ==
    DeploymentBooks /\ RollbackBooks /\ TaskHeld /\ TerminalIsBacked

\* The statuses of work that only its worker gives and takes.
Orphan == Interruptible \ {"RUNNING"}

\* The worker is past the step that gave its task such a status.
Holding ==
    \/ worker.kind = "DEPLOYMENT" /\ worker.pc \notin {"precheck", "entering"}
    \/ worker.kind = "RECOVERY"
    \/ /\ worker.kind = "ROLLBACK"
       /\ worker.pc \notin {"status", "head", "migration", "entering"}

\* And that of NoOrphanStatus, as long as storage has not failed.
OrphanInv ==
    (up /\ faults = 0) =>
        \A t \in Task : task[t].status \in Orphan => worker.task = t /\ Holding

\* What happens beside the engines.
Tools ==
    \/ \E t \in Task : Resume(t) \/ Pause(t) \/ Cancel(t)
    \/ EditFiles \/ JobMovesHead \/ Boot \/ Crash

-----------------------------------------------------------------------------
(* Updates of a row keep the type of its table *)

\* One column of a task.
LEMMA TaskUpdates ==
    ASSUME NEW f \in [Task -> TaskRow], NEW t \in Task
    PROVE  /\ \A s \in TaskStatus : [f EXCEPT ![t].status = s] \in [Task -> TaskRow]
           /\ \A d \in Deployment : [f EXCEPT ![t].deployment = d] \in [Task -> TaskRow]
           /\ \A c \in Commit : [f EXCEPT ![t].commit = c] \in [Task -> TaskRow]
           /\ \A x \in Decision : [f EXCEPT ![t].advice = x] \in [Task -> TaskRow]
           /\ [f EXCEPT ![t].assessed = @ + 1] \in [Task -> TaskRow]
           /\ f[t].status \in TaskStatus
           /\ f[t].deployment \in Deployment \cup {NoDeployment}
  BY DEF TaskRow

\* One column of a deployment.
LEMMA DeploymentUpdates ==
    ASSUME NEW f \in [Deployment -> DeploymentRow], NEW d \in Deployment
    PROVE  /\ \A s \in DeploymentStatus :
                 [f EXCEPT ![d].status = s] \in [Deployment -> DeploymentRow]
           /\ \A c \in Commit : [f EXCEPT ![d].after = c] \in [Deployment -> DeploymentRow]
  BY DEF DeploymentRow

\* The status of a plan.
LEMMA PlanUpdates ==
    ASSUME NEW f \in [Plan -> PlanRow], NEW r \in Plan
    PROVE  \A s \in RollbackStatus : [f EXCEPT ![r].status = s] \in [Plan -> PlanRow]
  BY DEF PlanRow

\* register(): both references of the task.
LEMMA RegisterUpdate ==
    ASSUME NEW f \in [Task -> TaskRow], NEW t \in Task,
           NEW d \in Deployment, NEW c \in Commit
    PROVE  [f EXCEPT ![t].deployment = d, ![t].commit = c] \in [Task -> TaskRow]
  <1> DEFINE g == [f EXCEPT ![t].deployment = d]
  <1>1. g \in [Task -> TaskRow]
    BY TaskUpdates
  <1>2. [g EXCEPT ![t].commit = c] \in [Task -> TaskRow]
    BY <1>1, TaskUpdates
  <1>3. [f EXCEPT ![t].deployment = d, ![t].commit = c] = [g EXCEPT ![t].commit = c]
    OBVIOUS
  <1> QED
    BY <1>2, <1>3

\* A failed assessment: one more run, and the status.
LEMMA AssessedUpdate ==
    ASSUME NEW f \in [Task -> TaskRow], NEW t \in Task, NEW s \in TaskStatus,
           NEW h, h = [f EXCEPT ![t].assessed = @ + 1, ![t].status = s]
    PROVE  /\ h \in [Task -> TaskRow]
           /\ h[t].status = s /\ h[t].deployment = f[t].deployment
           /\ \A u \in Task \ {t} : h[u] = f[u]
  <1> DEFINE g == [f EXCEPT ![t].assessed = @ + 1]
  <1>1. /\ g \in [Task -> TaskRow]
        /\ g[t].deployment = f[t].deployment /\ \A u \in Task \ {t} : g[u] = f[u]
    BY TaskUpdates
  <1>2. h = [g EXCEPT ![t].status = s]
    OBVIOUS
  <1> HIDE DEF g
  <1>3. [g EXCEPT ![t].status = s] \in [Task -> TaskRow]
    BY <1>1, TaskUpdates
  <1>4. h[t].status = s /\ h[t].deployment = g[t].deployment
    BY <1>1, <1>2
  <1>5. \A u \in Task \ {t} : h[u] = g[u]
    BY <1>1, <1>2
  <1> QED
    BY <1>1, <1>2, <1>3, <1>4, <1>5

\* A decision: the advice, and the status.
LEMMA AdvisedUpdate ==
    ASSUME NEW f \in [Task -> TaskRow], NEW t \in Task,
           NEW x \in Decision, NEW s \in TaskStatus,
           NEW h, h = [f EXCEPT ![t].advice = x, ![t].status = s]
    PROVE  /\ h \in [Task -> TaskRow]
           /\ h[t].status = s /\ h[t].deployment = f[t].deployment
           /\ \A u \in Task \ {t} : h[u] = f[u]
  <1> DEFINE g == [f EXCEPT ![t].advice = x]
  <1>1. /\ g \in [Task -> TaskRow]
        /\ g[t].deployment = f[t].deployment /\ \A u \in Task \ {t} : g[u] = f[u]
    BY TaskUpdates DEF TaskRow
  <1>2. h = [g EXCEPT ![t].status = s]
    OBVIOUS
  <1> HIDE DEF g
  <1>3. [g EXCEPT ![t].status = s] \in [Task -> TaskRow]
    BY <1>1, TaskUpdates
  <1>4. h[t].status = s /\ h[t].deployment = g[t].deployment
    BY <1>1, <1>2
  <1>5. \A u \in Task \ {t} : h[u] = g[u]
    BY <1>1, <1>2
  <1> QED
    BY <1>1, <1>2, <1>3, <1>4, <1>5

\* A refused status leaves the one the task has.
LEMMA MovedTyped ==
    ASSUME task \in [Task -> TaskRow], NEW t \in Task, NEW s \in TaskStatus
    PROVE  Moved(t, s) \in TaskStatus
  BY TaskUpdates DEF Moved

\* The deployment engine keeps rows and references well formed.
LEMMA DeployTyped ==
    ASSUME TypeInv, Deploy
    PROVE  TypeInv'
  <1> USE WorkflowAssumption
      DEF TypeInv, TypeOK, WorkerRefs, RowRefs, DraftRefs, Deployed, Planned,
          DeployPc, AssessPc, RollbackPc, rows, repo, bounds,
          Fault, Turn, At, GoTo, SetTask, SetDeployment, SetPlan
  <1>1. ASSUME NEW t \in Task, DeployStart(t) PROVE TypeInv'
    BY <1>1 DEF DeployStart, Worker, Kind, Await
  <1>2. ASSUME PrecheckFails PROVE TypeInv'
    BY <1>2 DEF PrecheckFails, Worker, NoWorker, Kind
  <1>3. ASSUME NEW d \in Deployment, Register(d) PROVE TypeInv'
    <2>1. [status |-> "PREPARING", task |-> worker.task, before |-> head, after |-> NoCommit]
          \in DeploymentRow
      BY <1>3 DEF Register, DeploymentRow, DeploymentStatus
    <2>2. task' \in [Task -> TaskRow]
      BY <1>3, RegisterUpdate DEF Register
    <2>3. dep' \in [Deployment -> DeploymentRow]
      BY <1>3, <2>1 DEF Register
    <2>4. TypeOK'
      BY <1>3, <2>1, <2>2, <2>3 DEF Register, Worker, Stretch
    <2>5. WorkerRefs'
      BY <1>3, <2>1, <2>2, <2>3 DEF Register
    <2>6. RowRefs'
      BY <1>3, <2>1, <2>2, <2>3 DEF Register
    <2>7. DraftRefs'
      BY <1>3, <2>1, <2>2, <2>3 DEF Register
    <2> QED
      BY <2>4, <2>5, <2>6, <2>7
  <1>4. ASSUME NEW d \in Deployment, RegisterFails(d) PROVE TypeInv'
    <2>1. [status |-> "PREPARING", task |-> worker.task, before |-> head, after |-> NoCommit]
          \in DeploymentRow
      BY <1>4 DEF RegisterFails, DeploymentRow, DeploymentStatus
    <2>2. task' = task \/ task' = [task EXCEPT ![worker.task].deployment = d]
      BY <1>4 DEF RegisterFails
    <2>3. task' \in [Task -> TaskRow]
      <3>1. CASE task' = task
        BY <1>4, <3>1
      <3>2. CASE task' = [task EXCEPT ![worker.task].deployment = d]
        BY <1>4, <3>2, TaskUpdates DEF RegisterFails
      <3> QED
        BY <2>2, <3>1, <3>2
    <2>4. dep' \in [Deployment -> DeploymentRow]
      BY <1>4, <2>1 DEF RegisterFails
    <2>5. TypeOK'
      BY <1>4, <2>1, <2>2, <2>3, <2>4 DEF RegisterFails, Worker, NoWorker, Kind
    <2>6. WorkerRefs'
      BY <1>4, <2>1, <2>2, <2>3, <2>4 DEF RegisterFails, NoWorker
    <2>7. RowRefs'
      BY <1>4, <2>1, <2>2, <2>3, <2>4 DEF RegisterFails, TaskRow
    <2>8. DraftRefs'
      BY <1>4, <2>1, <2>2, <2>3, <2>4 DEF RegisterFails
    <2> QED
      BY <2>5, <2>6, <2>7, <2>8
  <1>5. ASSUME DeployEnters PROVE TypeInv'
    <2>1. task' \in [Task -> TaskRow]
      BY <1>5, TaskUpdates DEF DeployEnters, TaskStatus, Interruptible
    <2>2. dep' \in [Deployment -> DeploymentRow]
      BY <1>5, DeploymentUpdates DEF DeployEnters, DeploymentStatus
    <2>3. TypeOK'
      BY <1>5, <2>1, <2>2 DEF DeployEnters, Worker, Await
    <2>4. WorkerRefs'
      BY <1>5, <2>1, <2>2 DEF DeployEnters
    <2>5. RowRefs'
      BY <1>5, <2>1, <2>2 DEF DeployEnters
    <2>6. DraftRefs'
      BY <1>5, <2>1, <2>2 DEF DeployEnters
    <2> QED
      BY <2>3, <2>4, <2>5, <2>6
  <1>6. ASSUME NEW c \in Commit, DeployRuns(c) PROVE TypeInv'
    <2>1. task' \in [Task -> TaskRow]
      BY <1>6, TaskUpdates DEF DeployRuns
    <2>2. dep' \in [Deployment -> DeploymentRow]
      BY <1>6, DeploymentUpdates DEF DeployRuns
    <2> QED
      BY <1>6, <2>1, <2>2 DEF DeployRuns, Worker, Await
  <1>7. ASSUME DeployVerifies PROVE TypeInv'
    <2>1. task' \in [Task -> TaskRow]
      BY <1>7, TaskUpdates DEF DeployVerifies, TaskStatus, Interruptible
    <2>2. dep' \in [Deployment -> DeploymentRow]
      BY <1>7, DeploymentUpdates DEF DeployVerifies, DeploymentStatus
    <2>3. TypeOK'
      BY <1>7, <2>1, <2>2 DEF DeployVerifies, Worker, Await
    <2>4. WorkerRefs'
      BY <1>7, <2>1, <2>2 DEF DeployVerifies
    <2>5. RowRefs'
      BY <1>7, <2>1, <2>2 DEF DeployVerifies
    <2>6. DraftRefs'
      BY <1>7, <2>1, <2>2 DEF DeployVerifies
    <2> QED
      BY <2>3, <2>4, <2>5, <2>6
  <1>8. ASSUME DeploySucceeds PROVE TypeInv'
    <2>1. dep' \in [Deployment -> DeploymentRow]
      BY <1>8, DeploymentUpdates DEF DeploySucceeds, DeploymentStatus
    <2>2. TypeOK'
      BY <1>8, <2>1 DEF DeploySucceeds, Worker, Stretch
    <2>3. WorkerRefs'
      BY <1>8, <2>1 DEF DeploySucceeds
    <2>4. RowRefs'
      BY <1>8, <2>1 DEF DeploySucceeds
    <2>5. DraftRefs'
      BY <1>8, <2>1 DEF DeploySucceeds
    <2> QED
      BY <2>2, <2>3, <2>4, <2>5
  <1>9. ASSUME DeployCompletes PROVE TypeInv'
    <2>1. task' \in [Task -> TaskRow]
      BY <1>9, TaskUpdates DEF DeployCompletes, TaskStatus, Terminal
    <2> QED
      BY <1>9, <2>1 DEF DeployCompletes, Worker, NoWorker, Kind
  <1>10. ASSUME DeployFails PROVE TypeInv'
    <2>1. dep' \in [Deployment -> DeploymentRow]
      BY <1>10, DeploymentUpdates DEF DeployFails, DeployThrows, DeploymentStatus
    <2>2. TypeOK'
      BY <1>10, <2>1 DEF DeployFails, DeployThrows, Worker, Stretch
    <2>3. WorkerRefs'
      BY <1>10, <2>1 DEF DeployFails, DeployThrows
    <2>4. RowRefs'
      BY <1>10, <2>1 DEF DeployFails, DeployThrows
    <2>5. DraftRefs'
      BY <1>10, <2>1 DEF DeployFails, DeployThrows
    <2> QED
      BY <2>2, <2>3, <2>4, <2>5
  <1>11. ASSUME DeployRecords PROVE TypeInv'
    <2>1. Moved(worker.task, "FAILED") \in TaskStatus
      BY <1>11, MovedTyped DEF DeployRecords, TaskStatus, Resumable
    <2>2. task' \in [Task -> TaskRow]
      BY <1>11, <2>1, TaskUpdates DEF DeployRecords
    <2>3. TypeOK'
      BY <1>11, <2>1, <2>2 DEF DeployRecords, Worker, NoWorker, Kind
    <2>4. WorkerRefs'
      BY <1>11, <2>1, <2>2 DEF DeployRecords, NoWorker
    <2>5. RowRefs'
      BY <1>11, <2>1, <2>2 DEF DeployRecords
    <2>6. DraftRefs'
      BY <1>11, <2>1, <2>2 DEF DeployRecords
    <2> QED
      BY <2>3, <2>4, <2>5, <2>6
  <1>12. ASSUME DeployCatchFails PROVE TypeInv'
    BY <1>12 DEF DeployCatchFails, Worker, NoWorker, Kind
  <1> QED
    BY <1>1, <1>2, <1>3, <1>4, <1>5, <1>6, <1>7, <1>8, <1>9, <1>10, <1>11, <1>12
       DEF Deploy

\* So does the recovery engine,
LEMMA AssessTyped ==
    ASSUME TypeInv, Assess
    PROVE  TypeInv'
  <1> USE WorkflowAssumption
      DEF TypeInv, TypeOK, WorkerRefs, RowRefs, DraftRefs, Deployed, Planned,
          DeployPc, AssessPc, RollbackPc, rows, repo, bounds,
          Fault, Turn, At, GoTo, SetTask, SetDeployment, SetPlan
  <1>1. ASSUME NEW t \in Task, AssessStart(t) PROVE TypeInv'
    <2>1. task' \in [Task -> TaskRow]
      BY <1>1, TaskUpdates DEF AssessStart, TaskStatus, Interruptible
    <2>2. TypeOK'
      BY <1>1, <2>1 DEF AssessStart, Worker, Kind, Await
    <2>3. WorkerRefs'
      BY <1>1, <2>1 DEF AssessStart
    <2>4. RowRefs'
      BY <1>1, <2>1 DEF AssessStart
    <2>5. DraftRefs'
      BY <1>1, <2>1 DEF AssessStart
    <2> QED
      BY <2>2, <2>3, <2>4, <2>5
  <1>2. ASSUME NEW t \in Task, AssessLimit(t) PROVE TypeInv'
    <2>1. task' \in [Task -> TaskRow]
      BY <1>2, TaskUpdates DEF AssessLimit, TaskStatus, Resumable
    <2>2. TypeOK'
      BY <1>2, <2>1 DEF AssessLimit
    <2>3. WorkerRefs'
      BY <1>2, <2>1 DEF AssessLimit
    <2>4. RowRefs'
      BY <1>2, <2>1 DEF AssessLimit
    <2>5. DraftRefs'
      BY <1>2, <2>1 DEF AssessLimit
    <2> QED
      BY <2>2, <2>3, <2>4, <2>5
  <1>3. ASSUME AssessFails PROVE TypeInv'
    <2>1. Moved(worker.task, "WAITING_FOR_USER") \in TaskStatus
      BY <1>3, MovedTyped DEF AssessFails, TaskStatus, Resumable
    <2>2. task' \in [Task -> TaskRow]
          /\ \A u \in Task : task'[u].deployment = task[u].deployment
      BY <1>3, <2>1, AssessedUpdate DEF AssessFails
    <2>3. TypeOK'
      BY <1>3, <2>1, <2>2 DEF AssessFails, Worker, NoWorker, Kind
    <2>4. WorkerRefs'
      BY <1>3, <2>1, <2>2 DEF AssessFails, NoWorker
    <2>5. RowRefs'
      BY <1>3, <2>1, <2>2 DEF AssessFails
    <2>6. DraftRefs'
      BY <1>3, <2>1, <2>2 DEF AssessFails
    <2> QED
      BY <2>3, <2>4, <2>5, <2>6
  <1>4. ASSUME AssessRecords PROVE TypeInv'
    <2>1. task' \in [Task -> TaskRow]
      BY <1>4, TaskUpdates DEF AssessRecords
    <2> QED
      BY <1>4, <2>1 DEF AssessRecords, Worker, Stretch
  <1>5. ASSUME NEW x \in Decision, AssessDecides(x) PROVE TypeInv'
    <2>1. Moved(worker.task, StatusFor(x)) \in TaskStatus
      BY <1>5, MovedTyped
         DEF AssessDecides, StatusFor, Decision, TaskStatus, Resumable
    <2>2. task' \in [Task -> TaskRow]
          /\ \A u \in Task : task'[u].deployment = task[u].deployment
      BY <1>5, <2>1, AdvisedUpdate DEF AssessDecides
    <2>3. TypeOK'
      BY <1>5, <2>1, <2>2 DEF AssessDecides, Worker, NoWorker, Kind
    <2>4. WorkerRefs'
      BY <1>5, <2>1, <2>2 DEF AssessDecides, NoWorker
    <2>5. RowRefs'
      BY <1>5, <2>1, <2>2 DEF AssessDecides
    <2>6. DraftRefs'
      BY <1>5, <2>1, <2>2 DEF AssessDecides
    <2> QED
      BY <2>3, <2>4, <2>5, <2>6
  <1>6. ASSUME NEW x \in Decision, AssessMoveFails(x) PROVE TypeInv'
    <2>1. task' \in [Task -> TaskRow]
      BY <1>6, TaskUpdates DEF AssessMoveFails
    <2> QED
      BY <1>6, <2>1 DEF AssessMoveFails, Worker, NoWorker, Kind
  <1>7. ASSUME AssessRecordFails PROVE TypeInv'
    BY <1>7 DEF AssessRecordFails, Worker, NoWorker, Kind
  <1> QED
    BY <1>1, <1>2, <1>3, <1>4, <1>5, <1>6, <1>7 DEF Assess

\* so does rollback_plan,
LEMMA PlanRollbackTyped ==
    ASSUME TypeInv, PlanRollback
    PROVE  TypeInv'
  <1> USE WorkflowAssumption
      DEF TypeInv, TypeOK, WorkerRefs, RowRefs, DraftRefs, Deployed, Planned,
          DeployPc, AssessPc, RollbackPc, rows, repo, bounds,
          Fault, Turn, At, GoTo, SetTask, SetDeployment, SetPlan
  <1>1. ASSUME NEW r \in Plan, NEW t \in Task, PlanCall(r, t) PROVE TypeInv'
    <2>1. TypeOK'
      BY <1>1 DEF PlanCall, DeploymentRow, Draft, NoDraft
    <2>2. WorkerRefs'
      BY <1>1 DEF PlanCall
    <2>3. RowRefs'
      BY <1>1 DEF PlanCall
    <2>4. DraftRefs'
      BY <1>1 DEF PlanCall
    <2> QED
      BY <2>1, <2>2, <2>3, <2>4
  <1>2. ASSUME NEW r \in Plan, PlanReadsStatus(r) PROVE TypeInv'
    BY <1>2 DEF PlanReadsStatus, Draft
  <1>3. ASSUME NEW r \in Plan, PlanReadsHead(r) PROVE TypeInv'
    BY <1>3 DEF PlanReadsHead, Draft
  <1>4. ASSUME NEW r \in Plan, NEW s \in {"READY","BLOCKED"}, PlanWrites(r, s)
        PROVE  TypeInv'
    <2>1. [status |-> s, task |-> draft[r].task,
           target |-> dep[draft[r].deployment].before, observed |-> draft[r].observed]
          \in PlanRow
      BY <1>4 DEF PlanWrites, PlanRow, Draft, RollbackStatus
    <2>2. plan' \in [Plan -> PlanRow]
      BY <1>4, <2>1 DEF PlanWrites
    <2>3. Moved(draft[r].task,
           IF s = "READY" THEN "ROLLBACK_REQUIRED" ELSE "WAITING_FOR_USER") \in TaskStatus
      BY <1>4, MovedTyped DEF PlanWrites, TaskStatus, Resumable
    <2>4. task' \in [Task -> TaskRow]
      BY <1>4, <2>3, TaskUpdates DEF PlanWrites
    <2>5. TypeOK'
      BY <1>4, <2>1, <2>2, <2>3, <2>4 DEF PlanWrites, Draft, NoDraft
    <2>6. WorkerRefs'
      BY <1>4, <2>1, <2>2, <2>3, <2>4 DEF PlanWrites
    <2>7. RowRefs'
      BY <1>4, <2>1, <2>2, <2>3, <2>4 DEF PlanWrites
    <2>8. DraftRefs'
      BY <1>4, <2>1, <2>2, <2>3, <2>4 DEF PlanWrites, NoDraft
    <2> QED
      BY <2>5, <2>6, <2>7, <2>8
  <1>5. ASSUME NEW r \in Plan, NEW s \in {"READY","BLOCKED"}, PlanWriteFails(r, s)
        PROVE  TypeInv'
    <2>1. [status |-> s, task |-> draft[r].task,
           target |-> dep[draft[r].deployment].before, observed |-> draft[r].observed]
          \in PlanRow
      BY <1>5 DEF PlanWriteFails, PlanRow, Draft, RollbackStatus
    <2>2. plan' \in [Plan -> PlanRow]
      BY <1>5, <2>1 DEF PlanWriteFails
    <2>3. TypeOK'
      BY <1>5, <2>1, <2>2 DEF PlanWriteFails, Draft, NoDraft
    <2>4. WorkerRefs'
      BY <1>5, <2>1, <2>2 DEF PlanWriteFails
    <2>5. RowRefs'
      BY <1>5, <2>1, <2>2 DEF PlanWriteFails
    <2>6. DraftRefs'
      BY <1>5, <2>1, <2>2 DEF PlanWriteFails, NoDraft
    <2> QED
      BY <2>3, <2>4, <2>5, <2>6
  <1> QED
    BY <1>1, <1>2, <1>3, <1>4, <1>5 DEF PlanRollback

\* so does the rollback engine,
LEMMA RollbackTyped ==
    ASSUME TypeInv, Rollback
    PROVE  TypeInv'
  <1> USE WorkflowAssumption
      DEF TypeInv, TypeOK, WorkerRefs, RowRefs, DraftRefs, Deployed, Planned,
          DeployPc, AssessPc, RollbackPc, rows, repo, bounds,
          Fault, Turn, At, GoTo, SetTask, SetDeployment, SetPlan
  <1>1. ASSUME NEW r \in Plan, RollbackStart(r) PROVE TypeInv'
    BY <1>1, ZenonT(60) DEF RollbackStart, Worker, Kind, Await
  <1>2. ASSUME RevalidateStatus PROVE TypeInv'
    BY <1>2 DEF RevalidateStatus, Revalidates, Worker, Await
  <1>3. ASSUME RevalidateHead PROVE TypeInv'
    BY <1>3 DEF RevalidateHead, Revalidates, Worker, Await
  <1>4. ASSUME RevalidateBlocks PROVE TypeInv'
    <2>1. plan' \in [Plan -> PlanRow]
      BY <1>4, PlanUpdates DEF RevalidateBlocks, RollbackStatus
    <2> QED
      BY <1>4, <2>1 DEF RevalidateBlocks, Worker, NoWorker, Kind
  <1>5. ASSUME RevalidateFails PROVE TypeInv'
    BY <1>5 DEF RevalidateFails, Worker, NoWorker, Kind
  <1>6. ASSUME RollbackBegins PROVE TypeInv'
    <2>1. plan' \in [Plan -> PlanRow]
      BY <1>6, PlanUpdates DEF RollbackBegins, RollbackStatus
    <2>2. TypeOK'
      BY <1>6, <2>1 DEF RollbackBegins, Worker, Stretch
    <2>3. WorkerRefs'
      BY <1>6, <2>1 DEF RollbackBegins
    <2>4. RowRefs'
      BY <1>6, <2>1 DEF RollbackBegins
    <2>5. DraftRefs'
      BY <1>6, <2>1 DEF RollbackBegins
    <2> QED
      BY <2>2, <2>3, <2>4, <2>5
  <1>7. ASSUME RollbackEnters PROVE TypeInv'
    <2>1. task' \in [Task -> TaskRow]
      BY <1>7, TaskUpdates DEF RollbackEnters, TaskStatus, Interruptible
    <2> QED
      BY <1>7, <2>1 DEF RollbackEnters, Worker, Await
  <1>8. ASSUME RollbackEnterFails PROVE TypeInv'
    <2>1. task' = task \/ SetTask("ROLLING_BACK")
      BY <1>8 DEF RollbackEnterFails
    <2>2. task' \in [Task -> TaskRow]
      <3>1. CASE task' = task
        BY <1>8, <3>1
      <3>2. CASE SetTask("ROLLING_BACK")
        BY <1>8, <3>2, TaskUpdates DEF RollbackEnterFails, TaskStatus, Interruptible
      <3> QED
        BY <2>1, <3>1, <3>2
    <2>3. TypeOK'
      BY <1>8, <2>1, <2>2 DEF RollbackEnterFails, Worker, NoWorker, Kind
    <2>4. WorkerRefs'
      BY <1>8, <2>1, <2>2 DEF RollbackEnterFails, NoWorker
    <2>5. RowRefs'
      BY <1>8, <2>1, <2>2 DEF RollbackEnterFails, TaskRow
    <2>6. DraftRefs'
      BY <1>8, <2>1, <2>2 DEF RollbackEnterFails
    <2> QED
      BY <2>3, <2>4, <2>5, <2>6
  <1>9. ASSUME RollbackRuns PROVE TypeInv'
    <2>1. plan[worker.plan].target \in Commit
      BY <1>9 DEF RollbackRuns
    <2>2. task' \in [Task -> TaskRow]
      BY <1>9, <2>1, TaskUpdates DEF RollbackRuns
    <2>3. TypeOK'
      BY <1>9, <2>1, <2>2 DEF RollbackRuns, Worker, Await
    <2>4. WorkerRefs'
      BY <1>9, <2>1, <2>2 DEF RollbackRuns
    <2>5. RowRefs'
      BY <1>9, <2>1, <2>2 DEF RollbackRuns
    <2>6. DraftRefs'
      BY <1>9, <2>1, <2>2 DEF RollbackRuns
    <2> QED
      BY <2>3, <2>4, <2>5, <2>6
  <1>10. ASSUME RollbackVerifies PROVE TypeInv'
    <2>1. task' \in [Task -> TaskRow]
      BY <1>10, TaskUpdates DEF RollbackVerifies, TaskStatus, Interruptible
    <2>2. plan' \in [Plan -> PlanRow]
      BY <1>10, PlanUpdates DEF RollbackVerifies, RollbackStatus
    <2>3. TypeOK'
      BY <1>10, <2>1, <2>2 DEF RollbackVerifies, Worker, Await
    <2>4. WorkerRefs'
      BY <1>10, <2>1, <2>2 DEF RollbackVerifies
    <2>5. RowRefs'
      BY <1>10, <2>1, <2>2 DEF RollbackVerifies
    <2>6. DraftRefs'
      BY <1>10, <2>1, <2>2 DEF RollbackVerifies
    <2> QED
      BY <2>3, <2>4, <2>5, <2>6
  <1>11. ASSUME RollbackSucceeds PROVE TypeInv'
    <2>1. plan' \in [Plan -> PlanRow]
      BY <1>11, PlanUpdates DEF RollbackSucceeds, RollbackStatus
    <2> QED
      BY <1>11, <2>1 DEF RollbackSucceeds, Worker, Stretch
  <1>12. ASSUME RollbackCompletes PROVE TypeInv'
    <2>1. task' \in [Task -> TaskRow]
      BY <1>12, TaskUpdates DEF RollbackCompletes, TaskStatus, Terminal
    <2> QED
      BY <1>12, <2>1 DEF RollbackCompletes, Worker, NoWorker, Kind
  <1>13. ASSUME RollbackFails PROVE TypeInv'
    <2>1. plan' \in [Plan -> PlanRow]
      BY <1>13, PlanUpdates DEF RollbackFails, RollbackThrows, RollbackStatus
    <2> QED
      BY <1>13, <2>1 DEF RollbackFails, RollbackThrows, Worker, Stretch
  <1>14. ASSUME RollbackRecords PROVE TypeInv'
    <2>1. task' \in [Task -> TaskRow]
      BY <1>14, TaskUpdates
         DEF RollbackRecords, TaskStatus, Terminal, Interruptible, Resumable
    <2>2. TypeOK'
      BY <1>14, <2>1 DEF RollbackRecords, Worker, NoWorker, Kind
    <2>3. WorkerRefs'
      BY <1>14, <2>1 DEF RollbackRecords, NoWorker
    <2>4. RowRefs'
      BY <1>14, <2>1 DEF RollbackRecords
    <2>5. DraftRefs'
      BY <1>14, <2>1 DEF RollbackRecords
    <2> QED
      BY <2>2, <2>3, <2>4, <2>5
  <1>15. ASSUME RollbackCatchFails PROVE TypeInv'
    <2>1. task' = task \/ SetTask("FAILED")
      BY <1>15 DEF RollbackCatchFails
    <2>2. task' \in [Task -> TaskRow]
      <3>1. CASE task' = task
        BY <1>15, <3>1
      <3>2. CASE SetTask("FAILED")
        BY <1>15, <3>2, TaskUpdates DEF RollbackCatchFails, TaskStatus, Resumable
      <3> QED
        BY <2>1, <3>1, <3>2
    <2>3. TypeOK'
      BY <1>15, <2>1, <2>2 DEF RollbackCatchFails, Worker, NoWorker, Kind
    <2>4. WorkerRefs'
      BY <1>15, <2>1, <2>2 DEF RollbackCatchFails, NoWorker
    <2>5. RowRefs'
      BY <1>15, <2>1, <2>2 DEF RollbackCatchFails, TaskRow
    <2>6. DraftRefs'
      BY <1>15, <2>1, <2>2 DEF RollbackCatchFails
    <2> QED
      BY <2>3, <2>4, <2>5, <2>6
  <1> QED
    BY <1>1, <1>2, <1>3, <1>4, <1>5, <1>6, <1>7, <1>8, <1>9, <1>10, <1>11, <1>12,
       <1>13, <1>14, <1>15
       DEF Rollback

\* and so do the task tools, jobs, startup and crashes.
LEMMA ToolsTyped ==
    ASSUME TypeInv, Tools
    PROVE  TypeInv'
  <1> USE WorkflowAssumption
      DEF TypeInv, TypeOK, WorkerRefs, RowRefs, DraftRefs, Deployed, Planned,
          DeployPc, AssessPc, RollbackPc, rows, repo, bounds,
          Fault, Turn, At, GoTo, SetTask, SetDeployment, SetPlan
  <1>1. ASSUME NEW t \in Task, Resume(t) PROVE TypeInv'
    <2>1. task' \in [Task -> TaskRow]
      BY <1>1, TaskUpdates DEF Resume, TaskStatus, Interruptible
    <2> QED
      BY <1>1, <2>1 DEF Resume
  <1>2. ASSUME NEW t \in Task, Pause(t) PROVE TypeInv'
    <2>1. task' \in [Task -> TaskRow]
      BY <1>2, TaskUpdates DEF Pause, TaskStatus, Resumable
    <2> QED
      BY <1>2, <2>1 DEF Pause
  <1>3. ASSUME NEW t \in Task, Cancel(t) PROVE TypeInv'
    <2>1. task' \in [Task -> TaskRow]
      BY <1>3, TaskUpdates DEF Cancel, TaskStatus, Terminal
    <2> QED
      BY <1>3, <2>1 DEF Cancel
  <1>4. ASSUME EditFiles PROVE TypeInv'
    BY <1>4 DEF EditFiles
  <1>5. ASSUME JobMovesHead PROVE TypeInv'
    BY <1>5 DEF JobMovesHead
  <1>6. ASSUME Boot PROVE TypeInv'
    <2>1. \A t \in Task : [task[t] EXCEPT !.status = "RECOVERY_REQUIRED"] \in TaskRow
      BY <1>6 DEF TaskRow, TaskStatus, Terminal, Resumable
    <2>2. task' \in [Task -> TaskRow]
      BY <1>6, <2>1 DEF Boot
    <2>3. TypeOK'
      BY <1>6, <2>1, <2>2 DEF Boot
    <2>4. WorkerRefs'
      BY <1>6, <2>1, <2>2 DEF Boot
    <2>5. RowRefs'
      BY <1>6, <2>1, <2>2 DEF Boot
    <2>6. DraftRefs'
      BY <1>6, <2>1, <2>2 DEF Boot
    <2> QED
      BY <2>3, <2>4, <2>5, <2>6
  <1>7. ASSUME Crash PROVE TypeInv'
    <2>1. interrupted' \subseteq Task
      BY <1>7 DEF Crash, NoWorker
    <2>2. worker' \in Worker /\ draft' \in [Plan -> Draft]
      BY <1>7 DEF Crash, NoWorker, NoDraft, Worker, Draft, Kind
    <2>3. up' \in BOOLEAN
      BY <1>7 DEF Crash
    <2>4. crashes' \in Nat
      BY <1>7 DEF Crash
    <2>5. faults' \in Nat
      BY <1>7 DEF Crash
    <2>6. UNCHANGED <<task, dep, plan, head, clean>>
      BY <1>7 DEF Crash
    <2>7. TypeOK'
      BY <1>7, <2>1, <2>2, <2>3, <2>4, <2>5, <2>6 DEF Crash
    <2>8. WorkerRefs'
      BY <1>7, <2>1, <2>2, <2>3, <2>4, <2>5, <2>6 DEF Crash, NoWorker
    <2>9. RowRefs'
      BY <1>7, <2>1, <2>2, <2>3, <2>4, <2>5, <2>6 DEF Crash
    <2>10. DraftRefs'
      BY <1>7, <2>1, <2>2, <2>3, <2>4, <2>5, <2>6 DEF Crash, NoDraft
    <2> QED
      BY <2>7, <2>8, <2>9, <2>10
  <1> QED
    BY <1>1, <1>2, <1>3, <1>4, <1>5, <1>6, <1>7 DEF Tools

LEMMA InitTyped == Init => TypeInv
  <1> SUFFICES ASSUME Init PROVE TypeInv
    OBVIOUS
  <1>1. NewTask \in TaskRow /\ NoDeploymentRow \in DeploymentRow /\ NoPlanRow \in PlanRow
    BY WorkflowAssumption
       DEF NewTask, NoDeploymentRow, NoPlanRow, TaskRow, DeploymentRow, PlanRow,
           TaskStatus, Resumable, DeploymentStatus, RollbackStatus
  <1>2. NoWorker \in Worker /\ NoDraft \in Draft
    BY DEF NoWorker, NoDraft, Worker, Draft, Kind
  <1>3. TypeOK
    BY <1>1, <1>2, WorkflowAssumption DEF Init, TypeOK
  <1>4. WorkerRefs /\ RowRefs /\ DraftRefs
    BY DEF Init, WorkerRefs, RowRefs, DraftRefs, Deployed, Planned, NewTask,
           NoDeploymentRow, NoPlanRow, NoWorker, NoDraft
  <1> QED
    BY <1>3, <1>4 DEF TypeInv

LEMMA StepTyped == TypeInv /\ [Next]_vars => TypeInv'
  <1> SUFFICES ASSUME TypeInv, [Next]_vars PROVE TypeInv'
    OBVIOUS
  <1>1. CASE UNCHANGED vars
    BY <1>1
       DEF vars, rows, repo, bounds, TypeInv, TypeOK, WorkerRefs, RowRefs,
           DraftRefs, Deployed, Planned
  <1> QED
    BY <1>1, DeployTyped, AssessTyped, PlanRollbackTyped, RollbackTyped, ToolsTyped
       DEF Next, Tools

-----------------------------------------------------------------------------
(* The books of the worker *)

\* The deployment engine moves its row and its task from await to await.
LEMMA DeploySafe ==
    ASSUME TypeInv, TypeInv', SafetyInv, Deploy
    PROVE  SafetyInv'
  <1> USE WorkflowAssumption
      DEF TypeInv, TypeOK, WorkerRefs, RowRefs, DraftRefs, Deployed, Planned,
          SafetyInv, DeploymentBooks, RollbackBooks, TaskHeld, TerminalIsBacked,
          HandedOver, DeploymentRowStatus, RollbackRowStatus,
          DeployPc, AssessPc, RollbackPc, rows, repo, bounds,
          Fault, Turn, At, GoTo, Moved, SetTask, SetDeployment, SetPlan
  <1>1. ASSUME NEW t \in Task, DeployStart(t) PROVE SafetyInv'
    BY <1>1 DEF DeployStart
  <1>2. ASSUME PrecheckFails PROVE SafetyInv'
    BY <1>2 DEF PrecheckFails, NoWorker
  <1>3. ASSUME NEW d \in Deployment, Register(d) PROVE SafetyInv'
    BY <1>3 DEF Register
  <1>4. ASSUME NEW d \in Deployment, RegisterFails(d) PROVE SafetyInv'
    BY <1>4 DEF RegisterFails, TaskRow, NoWorker
  <1>5. ASSUME DeployEnters PROVE SafetyInv'
    BY <1>5 DEF DeployEnters
  <1>6. ASSUME NEW c \in Commit, DeployRuns(c) PROVE SafetyInv'
    BY <1>6 DEF DeployRuns
  <1>7. ASSUME DeployVerifies PROVE SafetyInv'
    BY <1>7 DEF DeployVerifies
  <1>8. ASSUME DeploySucceeds PROVE SafetyInv'
    BY <1>8 DEF DeploySucceeds
  <1>9. ASSUME DeployCompletes PROVE SafetyInv'
    BY <1>9 DEF DeployCompletes, NoWorker
  <1>10. ASSUME DeployFails PROVE SafetyInv'
    BY <1>10 DEF DeployFails, DeployThrows
  <1>11. ASSUME DeployRecords PROVE SafetyInv'
    BY <1>11 DEF DeployRecords, NoWorker
  <1>12. ASSUME DeployCatchFails PROVE SafetyInv'
    BY <1>12 DEF DeployCatchFails, NoWorker
  <1> QED
    BY <1>1, <1>2, <1>3, <1>4, <1>5, <1>6, <1>7, <1>8, <1>9, <1>10, <1>11, <1>12
       DEF Deploy

\* The recovery engine leaves the books of other work alone.
LEMMA AssessSafe ==
    ASSUME TypeInv, TypeInv', SafetyInv, Assess
    PROVE  SafetyInv'
  <1> USE WorkflowAssumption
      DEF TypeInv, TypeOK, WorkerRefs, RowRefs, DraftRefs, Deployed, Planned,
          SafetyInv, DeploymentBooks, RollbackBooks, TaskHeld, TerminalIsBacked,
          HandedOver, DeploymentRowStatus, RollbackRowStatus,
          DeployPc, AssessPc, RollbackPc, rows, repo, bounds,
          Fault, Turn, At, GoTo, Moved, SetTask, SetDeployment, SetPlan
  <1>1. ASSUME NEW t \in Task, AssessStart(t) PROVE SafetyInv'
    BY <1>1 DEF AssessStart
  <1>2. ASSUME NEW t \in Task, AssessLimit(t) PROVE SafetyInv'
    BY <1>2 DEF AssessLimit
  <1>3. ASSUME AssessFails PROVE SafetyInv'
    BY <1>3, SMTT(30) DEF AssessFails, NoWorker
  <1>4. ASSUME AssessRecords PROVE SafetyInv'
    BY <1>4 DEF AssessRecords
  <1>5. ASSUME NEW x \in Decision, AssessDecides(x) PROVE SafetyInv'
    <2>1. Moved(worker.task, StatusFor(x)) \in TaskStatus
      BY <1>5, MovedTyped
         DEF AssessDecides, StatusFor, Decision, TaskStatus, Resumable
    <2>2. \A u \in Task : task'[u].status \in
             {task[u].status, "RECOVERY_REQUIRED"} \cup HandedOver
      BY <1>5, <2>1, AdvisedUpdate DEF AssessDecides, StatusFor, Decision
    <2>3. DeploymentBooks'
      BY <1>5, <2>1, <2>2 DEF AssessDecides, NoWorker
    <2>4. RollbackBooks'
      BY <1>5, <2>1, <2>2 DEF AssessDecides, NoWorker
    <2>5. TaskHeld'
      BY <1>5, <2>1, <2>2 DEF AssessDecides, NoWorker
    <2>6. TerminalIsBacked'
      BY <1>5, <2>2 DEF AssessDecides
    <2> QED
      BY <2>3, <2>4, <2>5, <2>6
  <1>6. ASSUME NEW x \in Decision, AssessMoveFails(x) PROVE SafetyInv'
    BY <1>6 DEF AssessMoveFails, NoWorker
  <1>7. ASSUME AssessRecordFails PROVE SafetyInv'
    BY <1>7 DEF AssessRecordFails, NoWorker
  <1> QED
    BY <1>1, <1>2, <1>3, <1>4, <1>5, <1>6, <1>7 DEF Assess

\* A plan made meanwhile hands the task over.
LEMMA PlanRollbackSafe ==
    ASSUME TypeInv, TypeInv', SafetyInv, PlanRollback
    PROVE  SafetyInv'
  <1> USE WorkflowAssumption
      DEF TypeInv, TypeOK, WorkerRefs, RowRefs, DraftRefs, Deployed, Planned,
          SafetyInv, DeploymentBooks, RollbackBooks, TaskHeld, TerminalIsBacked,
          HandedOver, DeploymentRowStatus, RollbackRowStatus,
          DeployPc, AssessPc, RollbackPc, rows, repo, bounds,
          Fault, Turn, At, GoTo, Moved, SetTask, SetDeployment, SetPlan
  <1>1. ASSUME NEW r \in Plan, NEW t \in Task, PlanCall(r, t) PROVE SafetyInv'
    BY <1>1 DEF PlanCall
  <1>2. ASSUME NEW r \in Plan, PlanReadsStatus(r) PROVE SafetyInv'
    BY <1>2 DEF PlanReadsStatus
  <1>3. ASSUME NEW r \in Plan, PlanReadsHead(r) PROVE SafetyInv'
    BY <1>3 DEF PlanReadsHead
  <1>4. ASSUME NEW r \in Plan, NEW s \in {"READY","BLOCKED"}, PlanWrites(r, s)
        PROVE  SafetyInv'
    <2>1. \A u \in Task : task'[u].status \in {task[u].status} \cup HandedOver
      BY <1>4 DEF PlanWrites
    <2>2. UNCHANGED worker /\ worker.pc \notin Stretch
      BY <1>4 DEF PlanWrites
    <2>3. DeploymentBooks'
      BY <1>4, <2>1, <2>2 DEF PlanWrites
    <2>4. RollbackBooks'
      BY <1>4 DEF PlanWrites
    <2>5. TaskHeld'
      BY <2>1, <2>2 DEF NoWorker
    <2>6. TerminalIsBacked'
      BY <1>4, <2>1, <2>2, SMTT(30) DEF PlanWrites
    <2> QED
      BY <2>3, <2>4, <2>5, <2>6
  <1>5. ASSUME NEW r \in Plan, NEW s \in {"READY","BLOCKED"}, PlanWriteFails(r, s)
        PROVE  SafetyInv'
    BY <1>5 DEF PlanWriteFails
  <1> QED
    BY <1>1, <1>2, <1>3, <1>4, <1>5, SMTT(30) DEF PlanRollback

\* The rollback engine moves its plan and its task from await to await.
LEMMA RollbackSafe ==
    ASSUME TypeInv, TypeInv', SafetyInv, Rollback
    PROVE  SafetyInv'
  <1> USE WorkflowAssumption
      DEF TypeInv, TypeOK, WorkerRefs, RowRefs, DraftRefs, Deployed, Planned,
          SafetyInv, DeploymentBooks, RollbackBooks, TaskHeld, TerminalIsBacked,
          HandedOver, DeploymentRowStatus, RollbackRowStatus,
          DeployPc, AssessPc, RollbackPc, rows, repo, bounds,
          Fault, Turn, At, GoTo, Moved, SetTask, SetDeployment, SetPlan
  <1>1. ASSUME NEW r \in Plan, RollbackStart(r) PROVE SafetyInv'
    BY <1>1 DEF RollbackStart
  <1>2. ASSUME RevalidateStatus PROVE SafetyInv'
    BY <1>2 DEF RevalidateStatus, Revalidates
  <1>3. ASSUME RevalidateHead PROVE SafetyInv'
    BY <1>3 DEF RevalidateHead, Revalidates
  <1>4. ASSUME RevalidateBlocks PROVE SafetyInv'
    BY <1>4 DEF RevalidateBlocks, NoWorker
  <1>5. ASSUME RevalidateFails PROVE SafetyInv'
    BY <1>5 DEF RevalidateFails, NoWorker
  <1>6. ASSUME RollbackBegins PROVE SafetyInv'
    BY <1>6 DEF RollbackBegins
  <1>7. ASSUME RollbackEnters PROVE SafetyInv'
    BY <1>7 DEF RollbackEnters
  <1>8. ASSUME RollbackEnterFails PROVE SafetyInv'
    BY <1>8 DEF RollbackEnterFails, TaskRow, NoWorker
  <1>9. ASSUME RollbackRuns PROVE SafetyInv'
    BY <1>9 DEF RollbackRuns
  <1>10. ASSUME RollbackVerifies PROVE SafetyInv'
    BY <1>10 DEF RollbackVerifies
  <1>11. ASSUME RollbackSucceeds PROVE SafetyInv'
    BY <1>11 DEF RollbackSucceeds
  <1>12. ASSUME RollbackCompletes PROVE SafetyInv'
    BY <1>12 DEF RollbackCompletes, NoWorker
  <1>13. ASSUME RollbackFails PROVE SafetyInv'
    BY <1>13 DEF RollbackFails, RollbackThrows
  <1>14. ASSUME RollbackRecords PROVE SafetyInv'
    BY <1>14 DEF RollbackRecords, NoWorker
  <1>15. ASSUME RollbackCatchFails PROVE SafetyInv'
    BY <1>15 DEF RollbackCatchFails, TaskRow, NoWorker
  <1> QED
    BY <1>1, <1>2, <1>3, <1>4, <1>5, <1>6, <1>7, <1>8, <1>9, <1>10, <1>11, <1>12,
       <1>13, <1>14, <1>15
       DEF Rollback

\* The task tools refuse a task of work under way.
LEMMA ToolsSafe ==
    ASSUME TypeInv, TypeInv', SafetyInv, Tools
    PROVE  SafetyInv'
  <1> USE WorkflowAssumption
      DEF TypeInv, TypeOK, WorkerRefs, RowRefs, DraftRefs, Deployed, Planned,
          SafetyInv, DeploymentBooks, RollbackBooks, TaskHeld, TerminalIsBacked,
          HandedOver, DeploymentRowStatus, RollbackRowStatus,
          DeployPc, AssessPc, RollbackPc, rows, repo, bounds,
          Fault, Turn, At, GoTo, Moved, SetTask, SetDeployment, SetPlan
  <1>1. ASSUME NEW t \in Task, Resume(t) PROVE SafetyInv'
    BY <1>1 DEF Resume, BlockingWork
  <1>2. ASSUME NEW t \in Task, Pause(t) PROVE SafetyInv'
    BY <1>2 DEF Pause, BlockingWork
  <1>3. ASSUME NEW t \in Task, Cancel(t) PROVE SafetyInv'
    BY <1>3 DEF Cancel, BlockingWork
  <1>4. ASSUME EditFiles PROVE SafetyInv'
    BY <1>4 DEF EditFiles
  <1>5. ASSUME JobMovesHead PROVE SafetyInv'
    BY <1>5 DEF JobMovesHead, NoWorker
  <1>6. ASSUME Boot PROVE SafetyInv'
    BY <1>6 DEF Boot, NoWorker
  <1>7. ASSUME Crash PROVE SafetyInv'
    BY <1>7 DEF Crash, NoWorker
  <1> QED
    BY <1>1, <1>2, <1>3, <1>4, <1>5, <1>6, <1>7 DEF Tools

-----------------------------------------------------------------------------
\* What lets every engine take its task out of the status of its work.
LEMMA WorkMayEnd ==
    /\ \A s \in Orphan : CanSet(s, "FAILED")
    /\ \A s \in {"RECOVERY_REQUIRED"} \cup HandedOver : CanSet("RECOVERING", s)
  BY DEF Orphan, HandedOver, CanSet, Allowed, Interruptible, TaskStatus, Terminal,
         Resumable

\* Each way out of a deployment takes its task out of the status of the work.
LEMMA DeployOrphans ==
    ASSUME TypeInv, TypeInv', SafetyInv, OrphanInv, Deploy
    PROVE  OrphanInv'
  <1> USE WorkflowAssumption
      DEF TypeInv, TypeOK, WorkerRefs, SafetyInv, TaskHeld, OrphanInv, Holding,
          Orphan, Interruptible, HandedOver, DeployPc, AssessPc, RollbackPc,
          rows, repo, bounds,
          Fault, Turn, At, GoTo, MayMove, Moved, SetTask
  <1>1. ASSUME NEW t \in Task, DeployStart(t) PROVE OrphanInv'
    BY <1>1 DEF DeployStart, NoWorker
  <1>2. ASSUME PrecheckFails PROVE OrphanInv'
    BY <1>2 DEF PrecheckFails
  <1>3. ASSUME NEW d \in Deployment, Register(d) PROVE OrphanInv'
    BY <1>3, WorkMayEnd DEF Register
  <1>4. ASSUME NEW d \in Deployment, RegisterFails(d) PROVE OrphanInv'
    BY <1>4, WorkMayEnd DEF RegisterFails
  <1>5. ASSUME DeployEnters PROVE OrphanInv'
    BY <1>5, WorkMayEnd DEF DeployEnters
  <1>6. ASSUME NEW c \in Commit, DeployRuns(c) PROVE OrphanInv'
    BY <1>6, WorkMayEnd DEF DeployRuns
  <1>7. ASSUME DeployVerifies PROVE OrphanInv'
    BY <1>7, WorkMayEnd DEF DeployVerifies
  <1>8. ASSUME DeploySucceeds PROVE OrphanInv'
    BY <1>8 DEF DeploySucceeds
  <1>9. ASSUME DeployCompletes PROVE OrphanInv'
    BY <1>9, WorkMayEnd DEF DeployCompletes
  <1>10. ASSUME DeployFails PROVE OrphanInv'
    BY <1>10 DEF DeployFails, DeployThrows
  <1>11. ASSUME DeployRecords PROVE OrphanInv'
    BY <1>11, WorkMayEnd DEF DeployRecords
  <1>12. ASSUME DeployCatchFails PROVE OrphanInv'
    BY <1>12 DEF DeployCatchFails
  <1> QED
    BY <1>1, <1>2, <1>3, <1>4, <1>5, <1>6, <1>7, <1>8, <1>9, <1>10, <1>11, <1>12
       DEF Deploy

\* Each way out of an assessment does,
LEMMA AssessOrphans ==
    ASSUME TypeInv, TypeInv', SafetyInv, OrphanInv, Assess
    PROVE  OrphanInv'
  <1> USE WorkflowAssumption
      DEF TypeInv, TypeOK, WorkerRefs, SafetyInv, TaskHeld, OrphanInv, Holding,
          Orphan, Interruptible, HandedOver, DeployPc, AssessPc, RollbackPc,
          rows, repo, bounds,
          Fault, Turn, At, GoTo, MayMove, Moved, SetTask
  <1>1. ASSUME NEW t \in Task, AssessStart(t) PROVE OrphanInv'
    BY <1>1, WorkMayEnd DEF AssessStart, NoWorker
  <1>2. ASSUME NEW t \in Task, AssessLimit(t) PROVE OrphanInv'
    BY <1>2, WorkMayEnd DEF AssessLimit
  <1>3. ASSUME AssessFails PROVE OrphanInv'
    BY <1>3, WorkMayEnd DEF AssessFails
  <1>4. ASSUME AssessRecords PROVE OrphanInv'
    BY <1>4, WorkMayEnd DEF AssessRecords
  <1>5. ASSUME NEW x \in Decision, AssessDecides(x) PROVE OrphanInv'
    BY <1>5, WorkMayEnd DEF AssessDecides, StatusFor, Decision
  <1>6. ASSUME NEW x \in Decision, AssessMoveFails(x) PROVE OrphanInv'
    BY <1>6, WorkMayEnd DEF AssessMoveFails
  <1>7. ASSUME AssessRecordFails PROVE OrphanInv'
    BY <1>7 DEF AssessRecordFails
  <1> QED
    BY <1>1, <1>2, <1>3, <1>4, <1>5, <1>6, <1>7 DEF Assess

\* rollback_plan gives no such status,
LEMMA PlanRollbackOrphans ==
    ASSUME TypeInv, TypeInv', SafetyInv, OrphanInv, PlanRollback
    PROVE  OrphanInv'
  <1> USE WorkflowAssumption
      DEF TypeInv, TypeOK, WorkerRefs, SafetyInv, TaskHeld, OrphanInv, Holding,
          Orphan, Interruptible, HandedOver, DeployPc, AssessPc, RollbackPc,
          rows, repo, bounds,
          Fault, Turn, At, GoTo, MayMove, Moved, SetTask
  <1>1. ASSUME NEW r \in Plan, NEW t \in Task, PlanCall(r, t) PROVE OrphanInv'
    BY <1>1 DEF PlanCall
  <1>2. ASSUME NEW r \in Plan, PlanReadsStatus(r) PROVE OrphanInv'
    BY <1>2 DEF PlanReadsStatus
  <1>3. ASSUME NEW r \in Plan, PlanReadsHead(r) PROVE OrphanInv'
    BY <1>3 DEF PlanReadsHead
  <1>4. ASSUME NEW r \in Plan, NEW s \in {"READY","BLOCKED"}, PlanWrites(r, s)
        PROVE  OrphanInv'
    BY <1>4, WorkMayEnd DEF PlanWrites
  <1>5. ASSUME NEW r \in Plan, NEW s \in {"READY","BLOCKED"}, PlanWriteFails(r, s)
        PROVE  OrphanInv'
    BY <1>5 DEF PlanWriteFails
  <1> QED
    BY <1>1, <1>2, <1>3, <1>4, <1>5 DEF PlanRollback

\* and each way out of a rollback.
LEMMA RollbackOrphans ==
    ASSUME TypeInv, TypeInv', SafetyInv, OrphanInv, Rollback
    PROVE  OrphanInv'
  <1> USE WorkflowAssumption
      DEF TypeInv, TypeOK, WorkerRefs, SafetyInv, TaskHeld, OrphanInv, Holding,
          Orphan, Interruptible, HandedOver, DeployPc, AssessPc, RollbackPc,
          rows, repo, bounds,
          Fault, Turn, At, GoTo, MayMove, Moved, SetTask
  <1>1. ASSUME NEW r \in Plan, RollbackStart(r) PROVE OrphanInv'
    BY <1>1 DEF RollbackStart, NoWorker
  <1>2. ASSUME RevalidateStatus PROVE OrphanInv'
    BY <1>2 DEF RevalidateStatus, Revalidates
  <1>3. ASSUME RevalidateHead PROVE OrphanInv'
    BY <1>3 DEF RevalidateHead, Revalidates
  <1>4. ASSUME RevalidateBlocks PROVE OrphanInv'
    BY <1>4 DEF RevalidateBlocks
  <1>5. ASSUME RevalidateFails PROVE OrphanInv'
    BY <1>5 DEF RevalidateFails
  <1>6. ASSUME RollbackBegins PROVE OrphanInv'
    BY <1>6 DEF RollbackBegins
  <1>7. ASSUME RollbackEnters PROVE OrphanInv'
    BY <1>7, WorkMayEnd DEF RollbackEnters
  <1>8. ASSUME RollbackEnterFails PROVE OrphanInv'
    BY <1>8, WorkMayEnd DEF RollbackEnterFails
  <1>9. ASSUME RollbackRuns PROVE OrphanInv'
    BY <1>9, WorkMayEnd DEF RollbackRuns
  <1>10. ASSUME RollbackVerifies PROVE OrphanInv'
    BY <1>10, WorkMayEnd DEF RollbackVerifies
  <1>11. ASSUME RollbackSucceeds PROVE OrphanInv'
    BY <1>11 DEF RollbackSucceeds
  <1>12. ASSUME RollbackCompletes PROVE OrphanInv'
    BY <1>12, WorkMayEnd DEF RollbackCompletes
  <1>13. ASSUME RollbackFails PROVE OrphanInv'
    BY <1>13 DEF RollbackFails, RollbackThrows
  <1>14. ASSUME RollbackRecords PROVE OrphanInv'
    BY <1>14, WorkMayEnd DEF RollbackRecords
  <1>15. ASSUME RollbackCatchFails PROVE OrphanInv'
    BY <1>15, WorkMayEnd DEF RollbackCatchFails
  <1> QED
    BY <1>1, <1>2, <1>3, <1>4, <1>5, <1>6, <1>7, <1>8, <1>9, <1>10, <1>11, <1>12,
       <1>13, <1>14, <1>15
       DEF Rollback

\* The task tools give no such status, and startup takes away what a crash left.
LEMMA ToolsOrphans ==
    ASSUME TypeInv, TypeInv', SafetyInv, OrphanInv, Tools
    PROVE  OrphanInv'
  <1> USE WorkflowAssumption
      DEF TypeInv, TypeOK, WorkerRefs, SafetyInv, TaskHeld, OrphanInv, Holding,
          Orphan, Interruptible, HandedOver, DeployPc, AssessPc, RollbackPc,
          rows, repo, bounds,
          Fault, Turn, At, GoTo, MayMove, Moved, SetTask
  <1>1. ASSUME NEW t \in Task, Resume(t) PROVE OrphanInv'
    BY <1>1, WorkMayEnd DEF Resume, BlockingWork
  <1>2. ASSUME NEW t \in Task, Pause(t) PROVE OrphanInv'
    BY <1>2, WorkMayEnd DEF Pause, BlockingWork
  <1>3. ASSUME NEW t \in Task, Cancel(t) PROVE OrphanInv'
    BY <1>3, WorkMayEnd DEF Cancel, BlockingWork
  <1>4. ASSUME EditFiles PROVE OrphanInv'
    BY <1>4 DEF EditFiles
  <1>5. ASSUME JobMovesHead PROVE OrphanInv'
    BY <1>5 DEF JobMovesHead
  <1>6. ASSUME Boot PROVE OrphanInv'
    BY <1>6, WorkMayEnd DEF Boot
  <1>7. ASSUME Crash PROVE OrphanInv'
    BY <1>7 DEF Crash
  <1> QED
    BY <1>1, <1>2, <1>3, <1>4, <1>5, <1>6, <1>7 DEF Tools

-----------------------------------------------------------------------------
(* The steps that write a plan *)

\* By the name of the step, who writes the status of a plan.
PlanIsWritten ==
    \E r \in Plan, s \in {"READY", "BLOCKED"} : PlanWrites(r, s) \/ PlanWriteFails(r, s)

RollbackMoves ==
    RevalidateBlocks \/ RollbackVerifies \/ RollbackSucceeds \/ RollbackFails

\* No other step writes a plan.
LEMMA PlanSteps ==
    ASSUME [Next]_vars
    PROVE  UNCHANGED plan \/ PlanIsWritten \/ RollbackBegins \/ RollbackMoves
  <1>1. CASE Deploy
    BY <1>1
       DEF Deploy, DeployStart, PrecheckFails, Register, RegisterFails,
           DeployEnters, DeployRuns, DeployVerifies, DeploySucceeds,
           DeployCompletes, DeployFails, DeployRecords, DeployCatchFails, rows
  <1>2. CASE Assess
    BY <1>2
       DEF Assess, AssessStart, AssessLimit, AssessFails, AssessRecords,
           AssessDecides, AssessMoveFails, AssessRecordFails, rows
  <1>3. CASE PlanRollback
    BY <1>3
       DEF PlanRollback, PlanCall, PlanReadsStatus, PlanReadsHead, PlanIsWritten,
           rows
  <1>4. CASE Rollback
    BY <1>4
       DEF Rollback, RollbackStart, RevalidateStatus, RevalidateHead, Revalidates,
           RevalidateFails, RollbackEnters, RollbackEnterFails, RollbackRuns,
           RollbackCompletes, RollbackRecords, RollbackCatchFails, RollbackMoves,
           rows
  <1>5. CASE Tools
    BY <1>5
       DEF Tools, Resume, Pause, Cancel, EditFiles, JobMovesHead, Boot, Crash, rows
  <1>6. CASE UNCHANGED vars
    BY <1>6 DEF vars, rows
  <1> QED
    BY <1>1, <1>2, <1>3, <1>4, <1>5, <1>6 DEF Next, Tools

-----------------------------------------------------------------------------
(* Theorems *)

\* Every row and every reference between rows is well formed, for the work under
\* way and for the calls of rollback_plan as for the tables.
THEOREM TypeInvariance == Spec => []TypeInv
  <1>1. Init => TypeInv
    BY InitTyped
  <1>2. TypeInv /\ [Next]_vars => TypeInv'
    BY StepTyped
  <1> QED
    BY <1>1, <1>2, PTL DEF Spec

\* The tables, the worker and the drafts keep their types.
THEOREM TypeCorrect == Spec => []TypeOK
  BY TypeInvariance, PTL DEF TypeInv

\* At each await of the worker its row and its task are in the statuses that the
\* handler has given them, whatever else ran meanwhile.
THEOREM SafetyInvariance == Spec => []SafetyInv
  <1>1. Init => SafetyInv
    BY DEF Init, SafetyInv, DeploymentBooks, RollbackBooks, TaskHeld,
           TerminalIsBacked, At, AssessPc, NewTask, NoWorker
  <1>2. TypeInv /\ TypeInv' /\ SafetyInv /\ [Next]_vars => SafetyInv'
    <2> SUFFICES ASSUME TypeInv, TypeInv', SafetyInv, [Next]_vars
                 PROVE  SafetyInv'
      OBVIOUS
    <2>1. CASE UNCHANGED vars
      BY <2>1
         DEF vars, rows, repo, SafetyInv, DeploymentBooks, RollbackBooks, TaskHeld,
             TerminalIsBacked, At
    <2> QED
      BY <2>1, DeploySafe, AssessSafe, PlanRollbackSafe, RollbackSafe, ToolsSafe
         DEF Next, Tools
  <1> QED
    BY <1>1, <1>2, TypeInvariance, PTL DEF Spec

\* A task that says COMPLETED or ROLLED_BACK has a deployment or a rollback of its
\* own that says SUCCEEDED, across crashes and storage errors between the writes.
THEOREM TerminalTasksAreBacked == Spec => []TerminalIsBacked
  BY SafetyInvariance, PTL DEF SafetyInv

\* While a command or a check runs, its task is in the status of that work or has
\* been handed over by a plan: no task tool takes it away.
THEOREM WorkHoldsItsTask == Spec => []WorkedTaskIsHeld
  <1>1. TypeInv /\ SafetyInv => WorkedTaskIsHeld
    <2> SUFFICES ASSUME TypeInv, SafetyInv PROVE WorkedTaskIsHeld
      OBVIOUS
    <2>1. worker.pc \in {"command", "service"} =>
             worker.kind = "DEPLOYMENT" \/ worker.kind = "ROLLBACK"
      BY DEF TypeInv, TypeOK, WorkerRefs, AssessPc, NoWorker, Worker, Kind
    <2> QED
      BY <2>1 DEF SafetyInv, TaskHeld, AssessPc, HandedOver, At, WorkedTaskIsHeld
  <1> QED
    BY <1>1, TypeInvariance, SafetyInvariance, PTL

\* Unless storage fails, no task of a serving agent is left in the status of work
\* that nobody does, after any throw of the engines and any crash.
THEOREM NoOrphans == Spec => []NoOrphanStatus
  <1>1. Init => OrphanInv
    BY DEF Init, OrphanInv
  <1>2. TypeInv /\ TypeInv' /\ SafetyInv /\ OrphanInv /\ [Next]_vars => OrphanInv'
    <2> SUFFICES ASSUME TypeInv, TypeInv', SafetyInv, OrphanInv, [Next]_vars
                 PROVE  OrphanInv'
      OBVIOUS
    <2>1. CASE UNCHANGED vars
      BY <2>1 DEF vars, bounds, OrphanInv, Holding
    <2> QED
      BY <2>1, DeployOrphans, AssessOrphans, PlanRollbackOrphans, RollbackOrphans,
         ToolsOrphans
         DEF Next, Tools
  <1>3. OrphanInv => NoOrphanStatus
    BY DEF OrphanInv, NoOrphanStatus, Orphan
  <1> QED
    BY <1>1, <1>2, <1>3, TypeInvariance, SafetyInvariance, PTL DEF Spec

\* A plan's status becomes ROLLING_BACK only from READY and with HEAD at the commit
\* that was observed when the plan was made, whatever ran since.
THEOREM RollbacksStartAsPlanned == Spec => RollbackStartsAsPlanned
  <1> DEFINE Asked == \A r \in Plan :
                (plan[r].status # "ROLLING_BACK" /\ plan'[r].status = "ROLLING_BACK") =>
                   plan[r].status = "READY" /\ head = plan[r].observed
  <1>1. TypeInv /\ SafetyInv /\ [Next]_vars => Asked
    <2> SUFFICES ASSUME TypeInv, SafetyInv, [Next]_vars
                 PROVE  Asked
      OBVIOUS
    <2>1. CASE UNCHANGED plan
      BY <2>1
    <2>2. CASE RollbackBegins
      BY <2>2
         DEF RollbackBegins, At, SetPlan, TypeInv, TypeOK, WorkerRefs, Planned,
             SafetyInv, RollbackBooks, RollbackRowStatus
    <2>3. CASE PlanIsWritten
      BY <2>3 DEF PlanIsWritten, PlanWrites, PlanWriteFails, TypeInv, TypeOK
    <2>4. CASE RollbackMoves
      BY <2>4
         DEF RollbackMoves, RevalidateBlocks, RollbackVerifies, RollbackSucceeds,
             RollbackFails, SetPlan, TypeInv, TypeOK, PlanRow
    <2> QED
      BY <2>1, <2>2, <2>3, <2>4, PlanSteps
  <1> QED
    BY <1>1, TypeInvariance, SafetyInvariance, PTL DEF Spec, RollbackStartsAsPlanned

\* A rollback says SUCCEEDED only with HEAD at the commit from before its deployment:
\* nothing moves HEAD between the verification of the command and the end.
THEOREM RollbacksReachTarget == Spec => RollbackReachesTarget
  <1> DEFINE Reached == \A r \in Plan :
                (plan[r].status # "SUCCEEDED" /\ plan'[r].status = "SUCCEEDED") =>
                   head = plan[r].target
  <1>1. TypeInv /\ SafetyInv /\ [Next]_vars => Reached
    <2> SUFFICES ASSUME TypeInv, SafetyInv, [Next]_vars
                 PROVE  Reached
      OBVIOUS
    <2>1. CASE UNCHANGED plan
      BY <2>1
    <2>2. CASE RollbackBegins
      BY <2>2 DEF RollbackBegins, SetPlan, TypeInv, TypeOK
    <2>3. CASE PlanIsWritten
      BY <2>3 DEF PlanIsWritten, PlanWrites, PlanWriteFails, TypeInv, TypeOK
    <2>4. CASE RollbackSucceeds
      BY <2>4
         DEF RollbackSucceeds, SetPlan, TypeInv, TypeOK, WorkerRefs, Planned,
             SafetyInv, RollbackBooks
    <2>5. CASE RevalidateBlocks \/ RollbackVerifies \/ RollbackFails
      BY <2>5
         DEF RevalidateBlocks, RollbackVerifies, RollbackFails, SetPlan, TypeInv,
             TypeOK, PlanRow
    <2> QED
      BY <2>1, <2>2, <2>3, <2>4, <2>5, PlanSteps DEF RollbackMoves
  <1> QED
    BY <1>1, TypeInvariance, SafetyInvariance, PTL DEF Spec, RollbackReachesTarget

=============================================================================
