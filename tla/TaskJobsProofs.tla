--------------------------- MODULE TaskJobsProofs ---------------------------
(***************************************************************************)
(* Proofs about TaskJobs, for every set of projects, tasks, jobs,          *)
(* operations and keys, and for every bound.                               *)
(***************************************************************************)
EXTENDS TaskJobs, FiniteSetTheorems, TLAPS

-----------------------------------------------------------------------------
(* The inductive invariant *)

\* What a process that does not serve has in memory: nothing.
VolatileInv ==
    mode \notin Serving =>
        /\ calls = {} /\ attached = {} /\ aborted = {} /\ cancels = {}
        /\ opActive = {} /\ waitedFor = {} /\ children = {} /\ loop = NoStretch

Ended == {"COMPLETED", "FAILED", "CANCELLED"}

\* Every call, row and controller belongs to a job that was requested; work in
\* memory is RUNNING in its table, but for the job whose end is being written.
JobRefs ==
    /\ \A j \in Job : request[j] = Unused => job[j] = "ABSENT" /\ j \notin calls
    /\ \A j \in calls : job[j] = "ABSENT"
    /\ \A j \in attached : \/ job[j] = "RUNNING"
                           \/ loop.pc \in Ending /\ loop.job = j /\ job[j] \in Ended
    /\ \A c \in cancels : c[2] \in attached /\ request[c[2]].task = c[1]

\* A stretch is about a job that is attached; what it has written of its end agrees
\* with the abort, and only a storage error makes it reject.
StretchInv ==
    /\ ~Idle => loop.job \in attached
    /\ At("key") => request[loop.job].key # NoKey
    /\ loop.pc \in {"written", "revised"} => job[loop.job] # "RUNNING"
    /\ (loop.pc \in {"written", "caught", "revised"} /\ job[loop.job] # "RUNNING") =>
          (job[loop.job] = "CANCELLED") = (loop.job \in aborted)
    /\ At("rethrow") => faults > 0

\* Every operation belongs to a task; one in memory is RUNNING in its table.
OpRefs ==
    /\ \A o \in Op : ops[o].status # "ABSENT" => ops[o].task \in Task
    /\ \A o \in opActive : ops[o].status = "RUNNING"

\* Tables, memory and the references between them are well formed.
TypeInv == TypeOK /\ VolatileInv /\ JobRefs /\ StretchInv /\ OpRefs

\* How far the startup has reconciled.
BootInv ==
    /\ mode \in {"jobs", "interrupted", "unknown"} =>
          \A o \in Op : ops[o].status # "RUNNING"
    /\ mode \in {"interrupted", "unknown"} => \A j \in Job : job[j] # "RUNNING"
    /\ mode = "unknown" => \A t \in Task : task[t] \notin Interruptible

\* The jobs that run by their row, or end.
Live == {j \in Job : job[j] = "RUNNING"} \cup attached

\* A task has one of them at most, of its own project.
TaskInv ==
    /\ \A i, j \in Live : (/\ request[i].task = request[j].task
                            /\ request[i].task # NoTask) => i = j
    /\ \A j \in attached : request[j].task # NoTask =>
          TaskProject[request[j].task] = request[j].project

\* The transaction of start() counts them by their rows.
LimitInv == IsFiniteSet(Live) /\ Cardinality(attached) <= JobLimit

\* A key names one request for good.
KeyInv ==
    /\ \A j \in Job : request[j].key # NoKey => keys[request[j].key].status # "ABSENT"
    /\ \A i, j \in Job : (request[i].key = request[j].key /\ request[i].key # NoKey)
                              => i = j
    /\ \A k \in Key : keys[k].status = "COMPLETED" =>
          LET j == keys[k].result IN
          j \in Job /\ job[j] # "ABSENT" /\ request[j].key = k

\* The invariants of the tasks, the jobs and the keys, with what makes them
\* inductive together.
SafetyInv ==
    /\ BootInv /\ TaskInv /\ LimitInv /\ KeyInv
    /\ RunningTaskHasNoUnknownWork /\ QuietTaskHasNoRunningJob

\* The children that no timer and no controller ends, or soon will not.
Lost == {j \in children : j \notin attached \/ (loop.pc \in Ending /\ loop.job = j)}

LostInv == IsFiniteSet(Lost) /\ Cardinality(Lost) <= faults

\* The holder of a project's lease.
Holds(p, w) == leases[p].owner = w /\ leases[p].expiresAt > 0

\* Calls and operations hold the lease of their project; jobs do until the first
\* storage error, if none of them outlives its lease.  What cancel_task has
\* checked about operations stays true while it waits for the job.
LeaseInv ==
    /\ \A j \in calls : Holds(request[j].project, j)
    /\ \A o \in opActive : Holds(TaskProject[ops[o].task], o)
    /\ (~Overrun /\ faults = 0) =>
          /\ \A j \in attached : Holds(request[j].project, j)
          /\ \A c \in cancels : OpsOf(c[1], Unresolved) = {}
-----------------------------------------------------------------------------
(* The steps, in groups *)

\* The steps of start_job and of cancel_job.
JobStep ==
    \E j \in Job : \/ \E p \in Project, t \in Task \cup {NoTask},
                         k \in Key \cup {NoKey} : JobStart(j, p, t, k)
                   \/ StartCall(j) \/ CancelJob(j)

\* The steps of the children, whose ends the Continuations go on from.
ChildMove == \E j \in Job : Launch(j) \/ JobEnds(j) \/ StrayExits(j)

\* The steps that only settle an idempotency key.
KeyMove == KeyStep \/ \E t \in Task \cup {NoTask}, k \in Key : JobConflict(t, k)

\* The tools of the tasks.
TaskMove ==
    \E t \in Task : \/ Resume(t) \/ Pause(t) \/ CancelNow(t)
                    \/ \E j \in Job : CancelAwaits(t, j)

\* An operation begins or is decided.
OpMove ==
    \E o \in Op : OpEnds(o) \/ \E t \in Task, kind \in Kind : OpStart(o, kind, t)

\* The startup, its end and time.
ProcessMove ==
    Boot \/ Shutdown \/ StopEarly \/ Close \/ Crash \/ \E p \in Project : LeaseExpires(p)

\* Every step is one of these.
LEMMA Steps ==
    Next <=> \/ JobStep \/ ChildMove \/ Continuations \/ KeyMove \/ TaskMove \/ OpMove
             \/ ProcessMove
  BY DEF Next, JobStep, ChildMove, KeyMove, TaskMove, OpMove, ProcessMove

-----------------------------------------------------------------------------
(* The operators of the two stores keep their tables well typed *)

\* A lease is taken, given back, swept at startup.
LEMMA AcquireTyped ==
    ASSUME NEW table \in Lease!LeaseTable, NEW p \in Project, NEW w \in Work
    PROVE  Lease!Acquire(table, p, w, 0, 1) \in Lease!LeaseTable
  BY DEF Lease!Acquire, Lease!LeaseTable, Lease!LeaseRow

LEMMA ReleaseTyped ==
    ASSUME NEW table \in Lease!LeaseTable, NEW p, NEW w
    PROVE  Lease!Release(table, p, w) \in Lease!LeaseTable
  BY DEF Lease!Release, Lease!LeaseTable, Lease!LeaseRow, Lease!NoLease

LEMMA ReclaimTyped ==
    ASSUME NEW table \in Lease!LeaseTable
    PROVE  Lease!ReclaimExpired(table, 0) \in Lease!LeaseTable
  BY DEF Lease!ReclaimExpired, Lease!LeaseTable, Lease!LeaseRow, Lease!NoLease

\* A key is begun, settled.
LEMMA BeginTyped ==
    ASSUME NEW table \in Idem!KeyTable, NEW k \in Key, NEW t \in Task \cup {NoTask}
    PROVE  Idem!Begin(table, k, t, 0) \in Idem!KeyTable
  BY DEF Idem!Begin, Idem!KeyTable, Idem!KeyRecord, Idem!KeyStatus

LEMMA FinishTyped ==
    ASSUME NEW table \in Idem!KeyTable, NEW k \in Key,
           NEW s \in Idem!KeyStatus, NEW j \in Job \cup {NoJob}
    PROVE  Idem!Finish(table, k, s, j, 0) \in Idem!KeyTable
  BY DEF Idem!Finish, Idem!KeyTable, Idem!KeyRecord

\* Before the first start there are only empty tables.
LEMMA InitTyped == Init => TypeInv
  <1> SUFFICES ASSUME Init PROVE TypeInv
    OBVIOUS
  <1>1. leases \in Lease!LeaseTable /\ keys \in Idem!KeyTable
    BY DEF Init, Lease!LeaseTable, Lease!LeaseRow, Lease!NoLease, Idem!KeyTable,
           Idem!KeyRecord, Idem!KeyStatus, Idem!NoRecord
  <1> QED
    BY <1>1, JobsAssumption
       DEF Init, TypeInv, TypeOK, VolatileInv, JobRefs, StretchInv, OpRefs, Mode, Dead,
           TaskStatus, Resumable, JobStatus, NoRow, OpRow, OpStatus, Kind, NoStretch, Pc,
           Idle, At

-----------------------------------------------------------------------------
(* The limit of the jobs *)

\* Two facts about finite sets.
LEMMA NoElements ==
    ASSUME NEW S, IsFiniteSet(S), Cardinality(S) <= 0
    PROVE  S = {}
  BY FS_CardinalityType, FS_EmptySet

LEMMA OneMoreElement ==
    ASSUME NEW S, NEW x, IsFiniteSet(S)
    PROVE  /\ IsFiniteSet(S \cup {x}) /\ Cardinality(S \cup {x}) \in Nat
           /\ Cardinality(S \cup {x}) <= Cardinality(S) + 1
  <1>1. Cardinality(S) \in Nat
    BY FS_CardinalityType
  <1>2. /\ IsFiniteSet(S \cup {x})
        /\ Cardinality(S \cup {x}) \in {Cardinality(S), Cardinality(S) + 1}
    BY FS_AddElement
  <1> QED
    BY <1>1, <1>2

\* Steps that end jobs, or none, keep their limit.
LEMMA FewerJobs ==
    ASSUME TypeInv, LimitInv, Live' \subseteq Live, attached' \subseteq attached
    PROVE  LimitInv'
  <1>1. IsFiniteSet(Live') /\ IsFiniteSet(attached)
    BY FS_Subset DEF LimitInv, Live
  <1>2. Cardinality(attached') <= Cardinality(attached)
    BY <1>1, FS_Subset
  <1>3. Cardinality(attached) \in Nat /\ Cardinality(attached') \in Nat
    BY <1>1, FS_Subset, FS_CardinalityType
  <1> QED
    BY <1>1, <1>2, <1>3, JobsAssumption DEF LimitInv

\* The transaction counts every RUNNING row, and so every attached job: it is never
\* inside a stretch.
LEMMA OneMoreJob ==
    ASSUME TypeInv, LimitInv, NEW j \in Job, Attach(j)
    PROVE  LimitInv'
  <1> DEFINE Running == {i \in Job : job[i] = "RUNNING"}
  <1>1. attached \subseteq Running
    BY DEF Attach, Idle, Ending, TypeInv, TypeOK, JobRefs
  <1>2. Live = Running /\ Cardinality(Running) < JobLimit
    BY <1>1 DEF Attach, MayAttach, Live
  <1>3. Live' = Running \cup {j} /\ attached' = attached \cup {j}
    BY <1>2 DEF Attach, Live, TypeInv, TypeOK
  <1> HIDE DEF Running
  <1>4. IsFiniteSet(Running) /\ IsFiniteSet(attached)
        /\ Cardinality(attached) <= Cardinality(Running)
    BY <1>1, <1>2, FS_Subset DEF LimitInv
  <1>5. /\ IsFiniteSet(Running \cup {j}) /\ Cardinality(attached \cup {j}) \in Nat
        /\ Cardinality(attached \cup {j}) <= Cardinality(attached) + 1
    BY <1>4, OneMoreElement
  <1>6. Cardinality(attached) \in Nat /\ Cardinality(Running) \in Nat
    BY <1>4, FS_CardinalityType
  <1> QED
    BY <1>2, <1>3, <1>4, <1>5, <1>6, JobsAssumption DEF LimitInv

-----------------------------------------------------------------------------
(* The types of the rows and of the memory of the process *)

\* Parts of the actions that are only ever read expanded.
USE JobsAssumption
DEF Work, durable, volatile, Fault, Take, Detach, AnswerWaiting, MoveTask, TaskTool,
    FailKeyOf, MayAttach, Idle, At, GoTo, NoStretch, Ending, Dead, Deceased, Perish,
    Rejects

\* Each group of steps keeps the types and the references.
LEMMA JobStepTyped ==
    ASSUME TypeInv, JobStep
    PROVE  TypeInv'
  <1> USE DEF TypeInv, TypeOK, VolatileInv, JobRefs, StretchInv, OpRefs
  <1>1. ASSUME NEW j \in Job, NEW p \in Project, NEW t \in Task \cup {NoTask},
               NEW k \in Key \cup {NoKey}, JobStart(j, p, t, k)
        PROVE  TypeInv'
    BY <1>1, AcquireTyped, ReleaseTyped, ReclaimTyped, BeginTyped, FinishTyped
       DEF JobStart, Idem!KeyStatus, Request, Unused
  <1>2. ASSUME NEW j \in Job, Attach(j) PROVE TypeInv'
    <2>1. TypeOK'
      BY <1>2 DEF Attach, JobStatus, Unresolved, Pc
    <2>2. VolatileInv' /\ OpRefs'
      BY <1>2 DEF Attach
    <2>3. JobRefs' /\ StretchInv'
      BY <1>2 DEF Attach
    <2> QED
      BY <2>1, <2>2, <2>3
  <1>3. ASSUME NEW j \in Job, AttachRefused(j) PROVE TypeInv'
    <2>1. leases' \in Lease!LeaseTable
      BY <1>3, AcquireTyped, ReleaseTyped, ReclaimTyped DEF AttachRefused
    <2>2. keys' \in Idem!KeyTable
      BY <1>3, BeginTyped, FinishTyped DEF AttachRefused, Idem!KeyStatus, Request
    <2>3. TypeOK'
      BY <1>3, <2>1, <2>2 DEF AttachRefused
    <2>4. VolatileInv'
      BY <1>3, <2>1, <2>2 DEF AttachRefused
    <2>5. JobRefs' /\ StretchInv'
      BY <1>3, <2>1, <2>2 DEF AttachRefused
    <2>6. OpRefs'
      BY <1>3, <2>1, <2>2 DEF AttachRefused
    <2> QED
      BY <2>3, <2>4, <2>5, <2>6
  <1>4. ASSUME NEW j \in Job, CancelJob(j) PROVE TypeInv'
    BY <1>4 DEF CancelJob
  <1> QED
    BY <1>1, <1>2, <1>3, <1>4 DEF JobStep, StartCall

LEMMA ChildMoveTyped ==
    ASSUME TypeInv, ChildMove
    PROVE  TypeInv'
  <1> USE DEF TypeInv, TypeOK, VolatileInv, JobRefs, StretchInv, OpRefs
  <1>1. ASSUME NEW j \in Job, Spawn(j) PROVE TypeInv'
    BY <1>1 DEF Spawn
  <1>2. ASSUME NEW j \in Job, SpawnThrows(j) PROVE TypeInv'
    BY <1>2 DEF SpawnThrows, Pc
  <1>3. ASSUME NEW j \in Job, JobRejects(j) PROVE TypeInv'
    BY <1>3 DEF JobRejects, Pc
  <1>4. ASSUME NEW j \in Job, NEW s \in JobStatus, JobCloses(j, s) PROVE TypeInv'
    BY <1>4 DEF JobCloses, Outcome, Ended, Pc
  <1>5. ASSUME NEW j \in Job, StrayExits(j) PROVE TypeInv'
    BY <1>5 DEF StrayExits
  <1> QED
    BY <1>1, <1>2, <1>3, <1>4, <1>5 DEF ChildMove, Launch, JobEnds

LEMMA ContinuationsTyped ==
    ASSUME TypeInv, Continuations
    PROVE  TypeInv'
  <1> USE DEF TypeInv, TypeOK, VolatileInv, JobRefs, StretchInv, OpRefs
  <1>1. ASSUME AppendFails PROVE TypeInv'
    BY <1>1 DEF AppendFails, Pc
  <1>2. ASSUME Revise PROVE TypeInv'
    BY <1>2 DEF Revise, Ended, JobStatus, Pc
  <1>3. ASSUME ReviseFails PROVE TypeInv'
    BY <1>3 DEF ReviseFails, Pc
  <1>4. ASSUME Finalise PROVE TypeInv'
    BY <1>4, ReleaseTyped DEF Finalise, TaskStatus, Terminal, AfterJob, Pc
  <1>5. ASSUME FinaliseRejecting PROVE TypeInv'
    BY <1>5, ReleaseTyped DEF FinaliseRejecting, Mode, Pc
  <1>6. ASSUME FinaliseFails PROVE TypeInv'
    BY <1>6 DEF FinaliseFails, Mode, Pc
  <1> QED
    BY <1>1, <1>2, <1>3, <1>4, <1>5, <1>6 DEF Continuations

LEMMA KeyMoveTyped ==
    ASSUME TypeInv, KeyMove
    PROVE  TypeInv'
  <1> USE DEF TypeInv, TypeOK, VolatileInv, JobRefs, StretchInv, OpRefs
  <1>1. ASSUME NEW t \in Task \cup {NoTask}, NEW k \in Key, JobConflict(t, k)
        PROVE  TypeInv'
    BY <1>1, BeginTyped, FinishTyped DEF JobConflict, Idem!KeyStatus
  <1>2. ASSUME CompleteKey PROVE TypeInv'
    <2>1. loop.job \in Job /\ request[loop.job].key \in Key
      BY <1>2 DEF CompleteKey, Request
    <2>2. keys' \in Idem!KeyTable
      BY <1>2, <2>1, FinishTyped DEF CompleteKey, Idem!KeyStatus
    <2>3. TypeOK'
      BY <1>2, <2>2 DEF CompleteKey, Pc
    <2>4. VolatileInv' /\ JobRefs' /\ StretchInv' /\ OpRefs'
      BY <1>2 DEF CompleteKey
    <2> QED
      BY <2>3, <2>4
  <1>3. ASSUME CompleteKeyFails PROVE TypeInv'
    <2>1. leases' \in Lease!LeaseTable
      BY <1>3, ReleaseTyped DEF CompleteKeyFails, Request
    <2>2. keys' \in Idem!KeyTable
      <3>1. loop.job \in Job /\ request[loop.job].key \in Key
        BY <1>3 DEF CompleteKeyFails, Request
      <3>2. keys' \in {keys, Idem!Finish(keys, request[loop.job].key, "FAILED", NoJob, 0)}
        BY <1>3, <3>1 DEF CompleteKeyFails
      <3> QED
        BY <3>1, <3>2, FinishTyped DEF Idem!KeyStatus
    <2>3. TypeOK'
      BY <1>3, <2>1, <2>2 DEF CompleteKeyFails, Mode, Pc
    <2>4. VolatileInv'
      BY <1>3 DEF CompleteKeyFails, Serving
    <2>5. JobRefs' /\ StretchInv'
      BY <1>3 DEF CompleteKeyFails
    <2>6. OpRefs'
      BY <1>3 DEF CompleteKeyFails
    <2> QED
      BY <2>3, <2>4, <2>5, <2>6
  <1> QED
    BY <1>1, <1>2, <1>3 DEF KeyMove, KeyStep

LEMMA TaskMoveTyped ==
    ASSUME TypeInv, TaskMove
    PROVE  TypeInv'
  <1> USE DEF TypeInv, TypeOK, VolatileInv, JobRefs, StretchInv, OpRefs
  <1>1. ASSUME NEW t \in Task, Resume(t) PROVE TypeInv'
    BY <1>1 DEF Resume, TaskStatus, Interruptible
  <1>2. ASSUME NEW t \in Task, Pause(t) PROVE TypeInv'
    BY <1>2 DEF Pause, TaskStatus, Resumable
  <1>3. ASSUME NEW t \in Task, CancelNow(t) PROVE TypeInv'
    BY <1>3 DEF CancelNow, TaskStatus, Terminal
  <1>4. ASSUME NEW t \in Task, NEW j \in Job, CancelAwaits(t, j) PROVE TypeInv'
    BY <1>4 DEF CancelAwaits, JobsOf
  <1> QED
    BY <1>1, <1>2, <1>3, <1>4 DEF TaskMove

LEMMA OpMoveTyped ==
    ASSUME TypeInv, OpMove
    PROVE  TypeInv'
  <1> USE DEF TypeInv, TypeOK, VolatileInv, JobRefs, StretchInv, OpRefs
  <1>1. ASSUME NEW o \in Op, NEW kind \in Kind, NEW t \in Task, OpStart(o, kind, t)
        PROVE  TypeInv'
    BY <1>1, AcquireTyped, ReleaseTyped, ReclaimTyped
       DEF OpStart, Serving, OpStatus, Unresolved, OpRow, TaskStatus, Interruptible,
           Resumable
  <1>2. ASSUME NEW o \in Op, NEW s \in {"SUCCEEDED", "FAILED"}, OpSettles(o, s)
        PROVE  TypeInv'
    <2>1. leases' \in Lease!LeaseTable
      BY <1>2, AcquireTyped, ReleaseTyped, ReclaimTyped DEF OpSettles
    <2>2. TypeOK'
      BY <1>2, <2>1 DEF OpSettles, OpStatus, OpRow
    <2>3. VolatileInv'
      BY <1>2, <2>1 DEF OpSettles
    <2>4. JobRefs' /\ StretchInv'
      BY <1>2, <2>1 DEF OpSettles
    <2>5. OpRefs'
      BY <1>2, <2>1 DEF OpSettles
    <2> QED
      BY <2>2, <2>3, <2>4, <2>5
  <1>3. ASSUME NEW o \in Op, NEW d \in Decision \cup {"NONE"}, Assessed(o, d)
        PROVE  TypeInv'
    <2>1. leases' \in Lease!LeaseTable
      BY <1>3, AcquireTyped, ReleaseTyped, ReclaimTyped DEF Assessed
    <2>2. TypeOK'
      BY <1>3, <2>1 DEF Assessed, OpStatus, OpRow, TaskStatus, Resumable, StatusFor
    <2>3. VolatileInv'
      BY <1>3, <2>1 DEF Assessed
    <2>4. JobRefs' /\ StretchInv'
      BY <1>3, <2>1 DEF Assessed
    <2>5. OpRefs'
      BY <1>3, <2>1 DEF Assessed
    <2> QED
      BY <2>2, <2>3, <2>4, <2>5
  <1> QED
    BY <1>1, <1>2, <1>3 DEF OpMove, OpEnds

LEMMA ProcessMoveTyped ==
    ASSUME TypeInv, ProcessMove
    PROVE  TypeInv'
  <1> USE DEF TypeInv, TypeOK, VolatileInv, JobRefs, StretchInv, OpRefs
  <1>1. ASSUME NEW p \in Project, LeaseExpires(p) PROVE TypeInv'
    BY <1>1 DEF LeaseExpires, Lease!LeaseTable, Lease!LeaseRow, Unused
  <1>2. ASSUME BootReclaim PROVE TypeInv'
    BY <1>2, AcquireTyped, ReleaseTyped, ReclaimTyped
       DEF BootReclaim, Mode, Booting, Serving
  <1>3. ASSUME BootOperations PROVE TypeInv'
    BY <1>3 DEF BootOperations, Mode, Booting, Serving, OpStatus, Unresolved, OpRow
  <1>4. ASSUME BootJobs PROVE TypeInv'
    BY <1>4 DEF BootJobs, Mode, Booting, Serving, JobStatus, Unresolved
  <1>5. ASSUME BootInterrupted PROVE TypeInv'
    BY <1>5 DEF BootInterrupted, Mode, Booting, Serving, TaskStatus, Resumable
  <1>6. ASSUME BootUnknown PROVE TypeInv'
    BY <1>6 DEF BootUnknown, Mode, Serving, TaskStatus, Resumable
  <1>7. ASSUME Shutdown PROVE TypeInv'
    BY <1>7 DEF Shutdown, Mode, Serving
  <1>8. ASSUME Close PROVE TypeInv'
    BY <1>8 DEF Close, Mode, Pc
  <1>9. ASSUME Crash PROVE TypeInv'
    BY <1>9 DEF Crash, Mode, Pc
  <1>10. ASSUME StopEarly PROVE TypeInv'
    BY <1>10 DEF StopEarly, Mode, Booting, Serving
  <1> QED
    BY <1>1, <1>2, <1>3, <1>4, <1>5, <1>6, <1>7, <1>8, <1>9, <1>10
       DEF ProcessMove, Boot

\* Every step does.
LEMMA StepTyped == TypeInv /\ [Next]_vars => TypeInv'
  <1> SUFFICES ASSUME TypeInv, [Next]_vars PROVE TypeInv'
    OBVIOUS
  <1>1. CASE UNCHANGED vars
    BY <1>1
       DEF vars, durable, volatile, TypeInv, TypeOK, VolatileInv, JobRefs, StretchInv,
           Idle, At, OpRefs
  <1> QED
    BY <1>1, Steps, JobStepTyped, ChildMoveTyped, ContinuationsTyped, KeyMoveTyped, TaskMoveTyped, OpMoveTyped,
       ProcessMoveTyped

-----------------------------------------------------------------------------
(* Safety *)

\* Each group of steps keeps the invariants of tasks, jobs and keys.
LEMMA JobStepSafe ==
    ASSUME TypeInv, TypeInv', SafetyInv, JobStep
    PROVE  SafetyInv'
  <1> USE DEF SafetyInv, TypeInv, TypeOK, VolatileInv, JobRefs, StretchInv, OpRefs
  <1>1. ASSUME NEW j \in Job, NEW p \in Project, NEW t \in Task \cup {NoTask},
               NEW k \in Key \cup {NoKey}, JobStart(j, p, t, k)
        PROVE  SafetyInv'
    BY <1>1, FewerJobs
       DEF JobStart, BootInv, TaskInv, JobsOf, Live, KeyInv, Idem!Begin,
           Idem!Fresh, Idem!KeyTable, RunningTaskHasNoUnknownWork, OpsOf,
           QuietTaskHasNoRunningJob
  <1>2. ASSUME NEW j \in Job, Attach(j) PROVE SafetyInv'
    <2>1. BootInv'
      BY <1>2 DEF Attach, BootInv, Serving
    <2>2. TaskInv'
      BY <1>2 DEF Attach, TaskInv, Live, JobsOf
    <2>3. LimitInv'
      BY <1>2, OneMoreJob
    <2>4. KeyInv'
      BY <1>2 DEF Attach, KeyInv
    <2>5. RunningTaskHasNoUnknownWork'
      BY <1>2 DEF Attach, RunningTaskHasNoUnknownWork, JobsOf, OpsOf
    <2>6. QuietTaskHasNoRunningJob'
      BY <1>2 DEF Attach, QuietTaskHasNoRunningJob, TaskInv, JobsOf
    <2> QED
      BY <2>1, <2>2, <2>3, <2>4, <2>5, <2>6
  <1>3. ASSUME NEW j \in Job, AttachRefused(j) PROVE SafetyInv'
    BY <1>3, FewerJobs, SMTT(30)
       DEF AttachRefused, BootInv, Interruptible, TaskInv, JobsOf, Live, KeyInv,
           Idem!Finish, RunningTaskHasNoUnknownWork, OpsOf, QuietTaskHasNoRunningJob
  <1>4. ASSUME NEW j \in Job, CancelJob(j) PROVE SafetyInv'
    BY <1>4, FewerJobs
       DEF CancelJob, BootInv, TaskInv, JobsOf, Live, KeyInv,
           RunningTaskHasNoUnknownWork, OpsOf, QuietTaskHasNoRunningJob
  <1> QED
    BY <1>1, <1>2, <1>3, <1>4 DEF JobStep, StartCall

LEMMA ChildMoveSafe ==
    ASSUME TypeInv, TypeInv', SafetyInv, ChildMove
    PROVE  SafetyInv'
  <1> USE DEF SafetyInv, TypeInv, TypeOK, VolatileInv, JobRefs, StretchInv, OpRefs
  <1>1. ASSUME UNCHANGED <<mode, durable, attached>> PROVE SafetyInv'
    BY <1>1, FewerJobs
       DEF BootInv, TaskInv, JobsOf, Live, KeyInv,
           RunningTaskHasNoUnknownWork, OpsOf, QuietTaskHasNoRunningJob
  <1>2. ASSUME NEW j \in Job, NEW s \in JobStatus, JobCloses(j, s) PROVE SafetyInv'
    BY <1>2, FewerJobs
       DEF JobCloses, BootInv, Outcome, TaskInv, JobsOf, Live, KeyInv,
           RunningTaskHasNoUnknownWork, OpsOf, QuietTaskHasNoRunningJob
  <1> HIDE DEF SafetyInv
  <1> QED
    BY <1>1, <1>2
       DEF ChildMove, Launch, JobEnds, Spawn, SpawnThrows, JobRejects, StrayExits

LEMMA ContinuationsSafe ==
    ASSUME TypeInv, TypeInv', SafetyInv, Continuations
    PROVE  SafetyInv'
  <1> USE DEF SafetyInv, TypeInv, TypeOK, VolatileInv, JobRefs, StretchInv, OpRefs
  <1>1. CASE AppendFails \/ ReviseFails
    BY <1>1, FewerJobs
       DEF AppendFails, ReviseFails, BootInv, TaskInv, JobsOf, Live, KeyInv,
           RunningTaskHasNoUnknownWork, OpsOf, QuietTaskHasNoRunningJob
  <1>2. CASE Revise
    BY <1>2, FewerJobs
       DEF Revise, BootInv, TaskInv, JobsOf, Live, KeyInv,
           RunningTaskHasNoUnknownWork, OpsOf, QuietTaskHasNoRunningJob
  <1>3. CASE Finalise
    <2> DEFINE j == loop.job
    <2>1. /\ j \in attached /\ job[j] \in Ended /\ mode \in Serving
          /\ attached' = attached \ {j} /\ UNCHANGED <<mode, job, request, ops, keys>>
      BY <1>3 DEF Finalise, Ended
    <2>2. \A t \in Task : task'[t] # task[t] =>
             /\ task'[t] = "CANCELLED" /\ JobsOf(t, {"UNKNOWN"}) = {}
             /\ request[j].task = t
      BY <1>3 DEF Finalise, AfterJob
    <2>3. Live' \subseteq Live
      BY <2>1 DEF Live
    <2>4. BootInv' /\ TaskInv' /\ KeyInv'
      BY <2>1, <2>3 DEF BootInv, Serving, TaskInv, KeyInv
    <2>5. LimitInv'
      BY <2>1, <2>3, FewerJobs
    <2>6. RunningTaskHasNoUnknownWork'
      BY <2>1, <2>2 DEF RunningTaskHasNoUnknownWork, JobsOf, OpsOf
    <2>7. QuietTaskHasNoRunningJob'
      BY <2>1, <2>2 DEF QuietTaskHasNoRunningJob, TaskInv, Live, JobsOf, Ended
    <2> QED
      BY <2>4, <2>5, <2>6, <2>7
  <1>4. CASE FinaliseRejecting \/ FinaliseFails
    BY <1>4, FewerJobs
       DEF FinaliseRejecting, FinaliseFails, BootInv, Serving, TaskInv, JobsOf, Live,
           KeyInv, RunningTaskHasNoUnknownWork, OpsOf, QuietTaskHasNoRunningJob
  <1> HIDE DEF SafetyInv
  <1> QED
    BY <1>1, <1>2, <1>3, <1>4 DEF Continuations

LEMMA KeyMoveSafe ==
    ASSUME TypeInv, TypeInv', SafetyInv, KeyMove
    PROVE  SafetyInv'
  <1> USE DEF SafetyInv, TypeInv, TypeOK, VolatileInv, JobRefs, StretchInv, OpRefs
  <1>1. ASSUME NEW t \in Task \cup {NoTask}, NEW k \in Key, JobConflict(t, k)
        PROVE  SafetyInv'
    BY <1>1, FewerJobs
       DEF JobConflict, BootInv, Request, Unused, TaskInv, JobsOf, Live, KeyInv,
           Idem!Begin, Idem!Finish, Idem!KeyTable, RunningTaskHasNoUnknownWork,
           OpsOf, QuietTaskHasNoRunningJob
  <1>2. ASSUME CompleteKey PROVE SafetyInv'
    BY <1>2, FewerJobs
       DEF CompleteKey, BootInv, TaskInv, JobsOf, Live, KeyInv, Idem!Finish,
           RunningTaskHasNoUnknownWork, OpsOf, QuietTaskHasNoRunningJob
  <1>3. ASSUME CompleteKeyFails PROVE SafetyInv'
    <2>1. UNCHANGED <<mode, task, job, request, ops, attached>>
      BY <1>3 DEF CompleteKeyFails
    <2>2. KeyInv'
      <3>1. \A k \in Key : keys'[k] = keys[k] \/ keys'[k].status = "FAILED"
        BY <1>3 DEF CompleteKeyFails, Idem!Finish, Idem!KeyTable
      <3>2. \A i \in Job : request[i].key # NoKey => request[i].key \in Key
        BY DEF Request, Unused
      <3> QED
        BY <2>1, <3>1, <3>2 DEF KeyInv
    <2>3. LimitInv'
      BY <2>1, FewerJobs DEF Live
    <2>4. BootInv' /\ TaskInv'
      BY <2>1 DEF BootInv, TaskInv, Live
    <2>5. RunningTaskHasNoUnknownWork' /\ QuietTaskHasNoRunningJob'
      BY <2>1
         DEF RunningTaskHasNoUnknownWork, QuietTaskHasNoRunningJob, JobsOf, OpsOf
    <2> QED
      BY <2>2, <2>3, <2>4, <2>5
  <1> QED
    BY <1>1, <1>2, <1>3 DEF KeyMove, KeyStep

LEMMA TaskMoveSafe ==
    ASSUME TypeInv, TypeInv', SafetyInv, TaskMove
    PROVE  SafetyInv'
  <1> USE DEF SafetyInv, TypeInv, TypeOK, VolatileInv, JobRefs, StretchInv, OpRefs
  <1>1. ASSUME NEW t \in Task, Resume(t) PROVE SafetyInv'
    BY <1>1, FewerJobs
       DEF Resume, BootInv, Serving, Unresolved, TaskInv, JobsOf, Live, KeyInv,
           RunningTaskHasNoUnknownWork, OpsOf, BlockingWork, BlockingOperation,
           QuietTaskHasNoRunningJob
  <1>2. ASSUME NEW t \in Task, Pause(t) PROVE SafetyInv'
    BY <1>2, FewerJobs
       DEF Pause, BootInv, Serving, Unresolved, TaskInv, JobsOf, Live, KeyInv,
           RunningTaskHasNoUnknownWork, OpsOf, BlockingWork,
           QuietTaskHasNoRunningJob
  <1>3. ASSUME NEW t \in Task, CancelNow(t) PROVE SafetyInv'
    BY <1>3, FewerJobs
       DEF CancelNow, BootInv, Serving, Unresolved, TaskInv, JobsOf, Live,
           KeyInv, RunningTaskHasNoUnknownWork, OpsOf, QuietTaskHasNoRunningJob
  <1>4. ASSUME NEW t \in Task, NEW j \in Job, CancelAwaits(t, j) PROVE SafetyInv'
    BY <1>4, FewerJobs
       DEF CancelAwaits, BootInv, TaskInv, JobsOf, Live, KeyInv,
           RunningTaskHasNoUnknownWork, OpsOf, QuietTaskHasNoRunningJob
  <1> QED
    BY <1>1, <1>2, <1>3, <1>4 DEF TaskMove

LEMMA OpMoveSafe ==
    ASSUME TypeInv, TypeInv', SafetyInv, OpMove
    PROVE  SafetyInv'
  <1> USE DEF SafetyInv, TypeInv, TypeOK, VolatileInv, JobRefs, StretchInv, OpRefs
  <1>1. ASSUME NEW o \in Op, NEW kind \in Kind, NEW t \in Task, OpStart(o, kind, t)
        PROVE  SafetyInv'
    BY <1>1, FewerJobs
       DEF OpStart, BootInv, Decision, Unused, TaskInv, JobsOf, Live, KeyInv,
           RunningTaskHasNoUnknownWork, OpsOf, QuietTaskHasNoRunningJob
  <1>2. ASSUME NEW o \in Op, NEW s \in {"SUCCEEDED", "FAILED"}, OpSettles(o, s)
        PROVE  SafetyInv'
    BY <1>2, FewerJobs
       DEF OpSettles, BootInv, TaskInv, JobsOf, Live, KeyInv,
           RunningTaskHasNoUnknownWork, OpsOf, QuietTaskHasNoRunningJob
  <1>3. ASSUME NEW o \in Op, NEW d \in Decision \cup {"NONE"}, Assessed(o, d)
        PROVE  SafetyInv'
    BY <1>3, FewerJobs
       DEF Assessed, BootInv, StatusFor, TaskInv, JobsOf, Live, KeyInv,
           RunningTaskHasNoUnknownWork, OpsOf, QuietTaskHasNoRunningJob
  <1> QED
    BY <1>1, <1>2, <1>3 DEF OpMove, OpEnds

LEMMA ProcessMoveSafe ==
    ASSUME TypeInv, TypeInv', SafetyInv, ProcessMove
    PROVE  SafetyInv'
  <1> USE DEF SafetyInv, TypeInv, TypeOK, VolatileInv, JobRefs, StretchInv, OpRefs
  <1>1. ASSUME NEW p \in Project, LeaseExpires(p) PROVE SafetyInv'
    BY <1>1, FewerJobs
       DEF LeaseExpires, BootInv, TaskInv, JobsOf, Live, KeyInv,
           RunningTaskHasNoUnknownWork, OpsOf, QuietTaskHasNoRunningJob
  <1>2. ASSUME BootReclaim PROVE SafetyInv'
    BY <1>2, FewerJobs
       DEF BootReclaim, BootInv, Serving, TaskInv, JobsOf, Live, KeyInv,
           RunningTaskHasNoUnknownWork, QuietTaskHasNoRunningJob
  <1>3. ASSUME BootOperations PROVE SafetyInv'
    BY <1>3, FewerJobs
       DEF BootOperations, BootInv, Serving, TaskInv, JobsOf, Live, KeyInv,
           RunningTaskHasNoUnknownWork, QuietTaskHasNoRunningJob
  <1>4. ASSUME BootJobs PROVE SafetyInv'
    BY <1>4, FewerJobs
       DEF BootJobs, BootInv, Serving, TaskInv, JobsOf, Live, KeyInv,
           RunningTaskHasNoUnknownWork, QuietTaskHasNoRunningJob
  <1>5. ASSUME BootInterrupted PROVE SafetyInv'
    BY <1>5, FewerJobs
       DEF BootInterrupted, BootInv, Interruptible, TaskInv, JobsOf, Live,
           KeyInv, RunningTaskHasNoUnknownWork, QuietTaskHasNoRunningJob
  <1>6. ASSUME BootUnknown PROVE SafetyInv'
    BY <1>6, FewerJobs
       DEF BootUnknown, BootInv, Interruptible, TaskInv, JobsOf, Live, KeyInv,
           RunningTaskHasNoUnknownWork, QuietTaskHasNoRunningJob
  <1>7. ASSUME Shutdown PROVE SafetyInv'
    BY <1>7, FewerJobs
       DEF Shutdown, BootInv, Serving, TaskInv, JobsOf, Live, KeyInv,
           RunningTaskHasNoUnknownWork, OpsOf, QuietTaskHasNoRunningJob
  <1>8. ASSUME Close PROVE SafetyInv'
    BY <1>8, FewerJobs
       DEF Close, BootInv, Serving, TaskInv, JobsOf, Live, KeyInv,
           RunningTaskHasNoUnknownWork, QuietTaskHasNoRunningJob
  <1>9. ASSUME Crash PROVE SafetyInv'
    BY <1>9, FewerJobs
       DEF Crash, BootInv, Serving, TaskInv, JobsOf, Live, KeyInv,
           RunningTaskHasNoUnknownWork, QuietTaskHasNoRunningJob
  <1>10. ASSUME StopEarly PROVE SafetyInv'
    BY <1>10, FewerJobs
       DEF StopEarly, BootInv, Serving, TaskInv, JobsOf, Live, KeyInv,
           RunningTaskHasNoUnknownWork, QuietTaskHasNoRunningJob
  <1> QED
    BY <1>1, <1>2, <1>3, <1>4, <1>5, <1>6, <1>7, <1>8, <1>9, <1>10
       DEF ProcessMove, Boot

\* Who gives a lease back takes none from the others.
LEMMA ReleaseKeeps ==
    ASSUME leases \in Lease!LeaseTable, NEW q, NEW w,
           leases' = Lease!Release(leases, q, w)
    PROVE  \A p \in Project : \A x : x # w /\ Holds(p, x) => Holds(p, x)'
  BY DEF Lease!LeaseTable, Lease!LeaseRow, Lease!Release, Holds

\* An operation that is decided gives its lease back, and leaves the others alone.
OpEnded(o) ==
    /\ o \in opActive /\ opActive' = opActive \ {o}
    /\ \A x \in Op : ops'[x].task = ops[x].task
    /\ \A x \in Op \ {o} : ops'[x] = ops[x]
    /\ ops'[o].status \notin Unresolved
    /\ UNCHANGED <<calls, attached, children, request, cancels, faults>>
    /\ leases' = Lease!Release(leases, TaskProject[ops[o].task], o)

LEMMA OpEndsEffect ==
    ASSUME TypeInv, NEW o \in Op, OpEnds(o)
    PROVE  OpEnded(o)
  <1> USE DEF TypeInv, TypeOK, OpRow, Unresolved
  <1>1. ASSUME NEW s \in {"SUCCEEDED", "FAILED"}, OpSettles(o, s) PROVE OpEnded(o)
    BY <1>1 DEF OpSettles, OpEnded
  <1>2. ASSUME NEW d \in Decision \cup {"NONE"}, Assessed(o, d) PROVE OpEnded(o)
    <2>1. /\ o \in opActive /\ opActive' = opActive \ {o}
          /\ UNCHANGED <<calls, attached, children, request, cancels, faults>>
          /\ leases' = Lease!Release(leases, TaskProject[ops[o].task], o)
      BY <1>2 DEF Assessed
    <2>2. \E s \in {"SUCCEEDED", "FAILED"} : ops' = [ops EXCEPT ![o].status = s]
      BY <1>2 DEF Assessed
    <2> QED
      BY <2>1, <2>2 DEF OpEnded
  <1> QED
    BY <1>1, <1>2 DEF OpEnds

\* Each group of steps leaves the leases with those who work under them.
LEMMA JobStepLeases ==
    ASSUME TypeInv, TypeInv', SafetyInv, LeaseInv, JobStep
    PROVE  LeaseInv'
  <1> USE DEF SafetyInv, TaskInv, Live, LeaseInv, Holds, TypeInv, TypeOK, VolatileInv,
              JobRefs, Ended, StretchInv, OpRefs
  <1>1. ASSUME NEW j \in Job, NEW p \in Project, NEW t \in Task \cup {NoTask},
               NEW k \in Key \cup {NoKey}, JobStart(j, p, t, k)
        PROVE  LeaseInv'
    BY <1>1, SMTT(30)
       DEF JobStart, OpsOf, Lease!Acquire, Lease!Acquirable, Lease!Unexpired,
           Lease!NoLease, Lease!LeaseTable
  <1>2. ASSUME NEW j \in Job, Attach(j) PROVE LeaseInv'
    BY <1>2 DEF Attach, OpsOf
  <1>3. ASSUME NEW j \in Job, AttachRefused(j) PROVE LeaseInv'
    <2>1. /\ j \notin attached /\ j \notin opActive /\ calls' = calls \ {j}
          /\ UNCHANGED <<request, ops, attached, opActive, cancels, faults>>
          /\ leases' = Lease!Release(leases, request[j].project, j)
      BY <1>3 DEF AttachRefused
    <2>2. \A p \in Project : \A x : x # j /\ Holds(p, x) => Holds(p, x)'
      BY <2>1, ReleaseKeeps
    <2> HIDE DEF Holds
    <2>3. \A i \in calls' : Holds(request[i].project, i)'
      BY <2>1, <2>2 DEF Request
    <2>4. \A o \in opActive : Holds(TaskProject[ops[o].task], o)'
      BY <2>1, <2>2
    <2>5. (~Overrun /\ faults = 0) => \A i \in attached : Holds(request[i].project, i)'
      BY <2>1, <2>2 DEF Request
    <2>6. (~Overrun /\ faults = 0) => \A c \in cancels : OpsOf(c[1], Unresolved)' = {}
      BY <2>1 DEF OpsOf
    <2> QED
      BY <2>1, <2>3, <2>4, <2>5, <2>6
  <1>4. ASSUME NEW j \in Job, CancelJob(j) PROVE LeaseInv'
    BY <1>4 DEF CancelJob, OpsOf
  <1> QED
    BY <1>1, <1>2, <1>3, <1>4 DEF JobStep, StartCall

LEMMA ChildMoveLeases ==
    ASSUME TypeInv, LeaseInv, ChildMove
    PROVE  LeaseInv'
  <1>1. /\ UNCHANGED <<request, ops, leases, calls, attached, cancels, opActive>>
        /\ faults' = 0 => faults = 0
    BY DEF ChildMove, Launch, JobEnds, Spawn, SpawnThrows, JobRejects, JobCloses,
           StrayExits, TypeInv, TypeOK
  <1> QED
    BY <1>1 DEF LeaseInv, Holds, OpsOf

LEMMA ContinuationsLeases ==
    ASSUME TypeInv, TypeInv', SafetyInv, LeaseInv, Continuations
    PROVE  LeaseInv'
  <1> USE DEF SafetyInv, TaskInv, Live, LeaseInv, Holds, TypeInv, TypeOK, VolatileInv,
              JobRefs, Ended, StretchInv, OpRefs
  <1>1. CASE AppendFails \/ ReviseFails \/ Revise
    BY <1>1 DEF AppendFails, ReviseFails, Revise, OpsOf
  <1>2. CASE Finalise
    <2> DEFINE j == loop.job
    <2>1. /\ j \in attached /\ attached' = attached \ {j} /\ cancels' \subseteq cancels
          /\ UNCHANGED <<request, ops, calls, opActive, faults>>
          /\ leases' = Lease!Release(leases, request[j].project, j)
      BY <1>2 DEF Finalise
    <2>2. \A p \in Project : \A x : x # j /\ Holds(p, x) => Holds(p, x)'
      BY <2>1, ReleaseKeeps
    <2>3. j \notin calls /\ j \notin opActive
      BY <2>1
    <2> HIDE DEF j, Holds
    <2>4. \A i \in calls : Holds(request[i].project, i)'
      BY <2>1, <2>2, <2>3 DEF Request
    <2>5. \A o \in opActive : Holds(TaskProject[ops[o].task], o)'
      BY <2>1, <2>2, <2>3
    <2>6. (~Overrun /\ faults = 0) => \A i \in attached' : Holds(request[i].project, i)'
      BY <2>1, <2>2 DEF Request
    <2>7. (~Overrun /\ faults = 0) => \A c \in cancels' : OpsOf(c[1], Unresolved)' = {}
      BY <2>1 DEF OpsOf
    <2> QED
      BY <2>1, <2>4, <2>5, <2>6, <2>7
  <1>3. CASE FinaliseRejecting
    <2> DEFINE j == loop.job
    <2>1. /\ j \in attached /\ calls' \subseteq calls /\ opActive' \subseteq opActive
          /\ UNCHANGED <<request, ops, faults>> /\ faults # 0
          /\ leases' = Lease!Release(leases, request[j].project, j)
      BY <1>3 DEF FinaliseRejecting
    <2>2. \A p \in Project : \A x : x # j /\ Holds(p, x) => Holds(p, x)'
      BY <2>1, ReleaseKeeps
    <2>3. j \notin calls /\ j \notin opActive
      BY <2>1
    <2> HIDE DEF j, Holds
    <2>4. \A i \in calls' : Holds(request[i].project, i)'
      BY <2>1, <2>2, <2>3 DEF Request
    <2>5. \A o \in opActive' : Holds(TaskProject[ops[o].task], o)'
      BY <2>1, <2>2, <2>3
    <2> QED
      BY <2>1, <2>4, <2>5
  <1>4. CASE FinaliseFails
    BY <1>4 DEF FinaliseFails
  <1> HIDE DEF SafetyInv, TaskInv, LeaseInv, Holds
  <1> QED
    BY <1>1, <1>2, <1>3, <1>4 DEF Continuations

LEMMA KeyMoveLeases ==
    ASSUME TypeInv, TypeInv', SafetyInv, LeaseInv, KeyMove
    PROVE  LeaseInv'
  <1> USE DEF SafetyInv, TaskInv, Live, LeaseInv, Holds, TypeInv, TypeOK, VolatileInv,
              JobRefs, Ended, StretchInv, OpRefs
  <1>1. ASSUME NEW t \in Task \cup {NoTask}, NEW k \in Key, JobConflict(t, k)
        PROVE  LeaseInv'
    BY <1>1 DEF JobConflict, OpsOf
  <1>2. ASSUME CompleteKey PROVE LeaseInv'
    BY <1>2 DEF CompleteKey, OpsOf
  <1>3. ASSUME CompleteKeyFails PROVE LeaseInv'
    <2> DEFINE j == loop.job
    <2>1. /\ j \in attached /\ faults' # 0
          /\ UNCHANGED <<request, ops, calls, opActive>>
          /\ leases' = Lease!Release(leases, request[j].project, j)
      BY <1>3 DEF CompleteKeyFails
    <2>2. \A p \in Project : \A x : x # j /\ Holds(p, x) => Holds(p, x)'
      BY <2>1, ReleaseKeeps
    <2>3. j \notin calls /\ j \notin opActive
      BY <2>1
    <2> HIDE DEF j, Holds
    <2>4. \A i \in calls : Holds(request[i].project, i)'
      BY <2>1, <2>2, <2>3 DEF Request
    <2>5. \A o \in opActive : Holds(TaskProject[ops[o].task], o)'
      BY <2>1, <2>2, <2>3
    <2> QED
      BY <2>1, <2>4, <2>5
  <1> QED
    BY <1>1, <1>2, <1>3 DEF KeyMove, KeyStep

LEMMA TaskMoveLeases ==
    ASSUME TypeInv, TypeInv', SafetyInv, LeaseInv, TaskMove
    PROVE  LeaseInv'
  <1> USE DEF SafetyInv, TaskInv, Live, LeaseInv, Holds, TypeInv, TypeOK, VolatileInv,
              JobRefs, Ended, StretchInv, OpRefs
  <1>1. ASSUME NEW t \in Task, Resume(t) PROVE LeaseInv'
    BY <1>1 DEF Resume, OpsOf
  <1>2. ASSUME NEW t \in Task, Pause(t) PROVE LeaseInv'
    BY <1>2 DEF Pause, OpsOf
  <1>3. ASSUME NEW t \in Task, CancelNow(t) PROVE LeaseInv'
    BY <1>3 DEF CancelNow, OpsOf
  <1>4. ASSUME NEW t \in Task, NEW j \in Job, CancelAwaits(t, j) PROVE LeaseInv'
    BY <1>4 DEF CancelAwaits, OpsOf, BlockingOperation
  <1> QED
    BY <1>1, <1>2, <1>3, <1>4 DEF TaskMove

LEMMA OpMoveLeases ==
    ASSUME TypeInv, TypeInv', SafetyInv, LeaseInv, OpMove
    PROVE  LeaseInv'
  <1> USE DEF SafetyInv, TaskInv, Live, LeaseInv, Holds, TypeInv, TypeOK, VolatileInv,
              JobRefs, Ended, StretchInv, OpRefs
  <1>1. ASSUME NEW o \in Op, NEW kind \in Kind, NEW t \in Task, OpStart(o, kind, t)
        PROVE  LeaseInv'
    <2>1. /\ \A x \in Work \ {o} : \A q \in Project :
                Holds(q, x) => q # TaskProject[t] /\ Holds(q, x)'
          /\ Holds(TaskProject[t], o)'
      BY <1>1
         DEF OpStart, Lease!Acquire, Lease!Acquirable, Lease!Unexpired,
             Lease!NoLease, Lease!LeaseTable
    <2>2. /\ ops'[o].task = t /\ \A x \in opActive : x # o /\ ops'[x].task = ops[x].task
          /\ opActive' = opActive \cup {o}
          /\ UNCHANGED <<calls, attached, request, cancels, faults>>
      BY <1>1 DEF OpStart
    <2>3. \A j \in calls : Holds(request[j].project, j)'
      BY <2>1, <2>2 DEF Request
    <2>4. \A x \in opActive' : Holds(TaskProject[ops[x].task], x)'
      BY <2>1, <2>2
    <2>5. (~Overrun /\ faults = 0) => \A j \in attached : Holds(request[j].project, j)'
      BY <2>1, <2>2 DEF Request
    <2>6. (~Overrun /\ faults = 0) => \A c \in cancels : c[1] # t
      BY <2>1
    <2>7. (~Overrun /\ faults = 0) => \A c \in cancels : OpsOf(c[1], Unresolved)' = {}
      BY <1>1, <2>6 DEF OpStart, OpsOf
    <2> QED
      BY <2>2, <2>3, <2>4, <2>5, <2>7
  <1>2. ASSUME NEW o \in Op, OpEnds(o) PROVE LeaseInv'
    <2>1. OpEnded(o)
      BY <1>2, OpEndsEffect
    <2>2. \A p \in Project : \A x : x # o /\ Holds(p, x) => Holds(p, x)'
      BY <2>1, ReleaseKeeps DEF OpEnded
    <2> HIDE DEF Holds
    <2>3. \A j \in calls : Holds(request[j].project, j)'
      BY <2>1, <2>2 DEF OpEnded, Request
    <2>4. \A x \in opActive' : Holds(TaskProject[ops[x].task], x)'
      BY <2>1, <2>2 DEF OpEnded
    <2>5. (~Overrun /\ faults = 0) => \A j \in attached : Holds(request[j].project, j)'
      BY <2>1, <2>2 DEF OpEnded, Request
    <2>6. \A u \in Task : OpsOf(u, Unresolved)' \subseteq OpsOf(u, Unresolved)
      BY <2>1 DEF OpEnded, OpsOf
    <2>7. (~Overrun /\ faults = 0) => \A c \in cancels : OpsOf(c[1], Unresolved)' = {}
      <3> SUFFICES ASSUME ~Overrun, faults = 0, NEW c \in cancels
                   PROVE  OpsOf(c[1], Unresolved)' = {}
        OBVIOUS
      <3>1. cancels \subseteq Task \X Job
        OBVIOUS
      <3>2. c[1] \in Task
        BY <3>1
      <3>3. OpsOf(c[1], Unresolved) = {}
        BY DEF LeaseInv
      <3> QED
        BY <2>6, <3>2, <3>3
    <2> QED
      BY <2>1, <2>3, <2>4, <2>5, <2>7 DEF OpEnded
  <1> HIDE DEF SafetyInv, TaskInv, LeaseInv, Holds
  <1> QED
    BY <1>1, <1>2 DEF OpMove

LEMMA ProcessMoveLeases ==
    ASSUME TypeInv, TypeInv', SafetyInv, LeaseInv, ProcessMove
    PROVE  LeaseInv'
  <1> USE DEF SafetyInv, TaskInv, Live, LeaseInv, Holds, TypeInv, TypeOK, VolatileInv,
              JobRefs, Ended, StretchInv, OpRefs
  <1>1. ASSUME NEW p \in Project, LeaseExpires(p) PROVE LeaseInv'
    BY <1>1, SMTT(30) DEF LeaseExpires, OpsOf, Mode
  <1>2. ASSUME BootReclaim PROVE LeaseInv'
    BY <1>2 DEF BootReclaim, Serving
  <1>3. ASSUME BootOperations PROVE LeaseInv'
    BY <1>3 DEF BootOperations, Serving
  <1>4. ASSUME BootJobs PROVE LeaseInv'
    BY <1>4 DEF BootJobs, OpsOf
  <1>5. ASSUME BootInterrupted PROVE LeaseInv'
    BY <1>5 DEF BootInterrupted, OpsOf
  <1>6. ASSUME BootUnknown PROVE LeaseInv'
    BY <1>6 DEF BootUnknown, OpsOf
  <1>7. ASSUME Shutdown PROVE LeaseInv'
    BY <1>7 DEF Shutdown, OpsOf
  <1>8. ASSUME Close PROVE LeaseInv'
    BY <1>8 DEF Close
  <1>9. ASSUME Crash PROVE LeaseInv'
    BY <1>9 DEF Crash
  <1>10. ASSUME StopEarly PROVE LeaseInv'
    BY <1>10 DEF StopEarly, OpsOf
  <1> QED
    BY <1>1, <1>2, <1>3, <1>4, <1>5, <1>6, <1>7, <1>8, <1>9, <1>10
       DEF ProcessMove, Boot

HIDE JobsAssumption
DEF Work, durable, volatile, Fault, Take, Detach, AnswerWaiting, MoveTask, TaskTool,
    FailKeyOf, MayAttach, Idle, At, GoTo, NoStretch, Ending, Dead, Deceased, Perish,
    Rejects

-----------------------------------------------------------------------------
(* Who writes what *)

\* A job row is written at its start, at its end, and by the startup.
LEMMA JobWriters ==
    ASSUME [Next]_vars
    PROVE  \/ UNCHANGED job \/ BootJobs \/ Revise
           \/ \E j \in Job : Attach(j) \/ \E s \in JobStatus : JobCloses(j, s)
  <1>1. CASE JobStep
    BY <1>1 DEF JobStep, StartCall, JobStart, AttachRefused, CancelJob, durable
  <1>2. CASE ChildMove
    BY <1>2
       DEF ChildMove, Launch, JobEnds, Spawn, SpawnThrows, JobRejects, StrayExits, durable
  <1>3. CASE Continuations
    BY <1>3
       DEF Continuations, AppendFails, ReviseFails, Finalise, FinaliseRejecting,
           FinaliseFails, durable
  <1>4. CASE KeyMove
    BY <1>4 DEF KeyMove, KeyStep, JobConflict, CompleteKey, CompleteKeyFails
  <1>5. CASE TaskMove
    BY <1>5 DEF TaskMove, Resume, Pause, CancelNow, CancelAwaits, durable
  <1>6. CASE OpMove
    BY <1>6 DEF OpMove, OpEnds, OpStart, OpSettles, Assessed
  <1>7. CASE ProcessMove
    BY <1>7
       DEF ProcessMove, Boot, BootReclaim, BootOperations, BootInterrupted,
           BootUnknown, Shutdown, StopEarly, Close, Crash, LeaseExpires, durable
  <1>8. CASE UNCHANGED vars
    BY <1>8 DEF vars, durable
  <1> QED
    BY <1>1, <1>2, <1>3, <1>4, <1>5, <1>6, <1>7, <1>8, Steps

\* The last step of the startup is the only one that begins to serve.
LEMMA ModeWriters ==
    ASSUME [Next]_vars
    PROVE  UNCHANGED mode \/ mode' # "up" \/ BootUnknown
  <1>1. CASE JobStep
    BY <1>1 DEF JobStep, StartCall, JobStart, Attach, AttachRefused, CancelJob
  <1>2. CASE ChildMove
    BY <1>2
       DEF ChildMove, Launch, JobEnds, Spawn, SpawnThrows, JobRejects, JobCloses,
           StrayExits
  <1>3. CASE Continuations
    BY <1>3
       DEF Continuations, AppendFails, Revise, ReviseFails, Finalise,
           FinaliseRejecting, FinaliseFails, Rejects, Deceased
  <1>4. CASE KeyMove
    BY <1>4 DEF KeyMove, KeyStep, JobConflict, CompleteKey, CompleteKeyFails
  <1>5. CASE TaskMove
    BY <1>5 DEF TaskMove, Resume, Pause, CancelNow, CancelAwaits
  <1>6. CASE OpMove
    BY <1>6 DEF OpMove, OpEnds, OpStart, OpSettles, Assessed
  <1>7. CASE ProcessMove
    BY <1>7
       DEF ProcessMove, Boot, BootReclaim, BootOperations, BootJobs,
           BootInterrupted, Shutdown, StopEarly, Close, Crash, Deceased, LeaseExpires
  <1>8. CASE UNCHANGED vars
    BY <1>8 DEF vars
  <1> QED
    BY <1>1, <1>2, <1>3, <1>4, <1>5, <1>6, <1>7, <1>8, Steps

\* A task is cancelled by cancel_task, at once or when the job it awaits has ended.
LEMMA TaskCancellers ==
    ASSUME TypeInv, [Next]_vars
    PROVE  \/ \A t \in Task : task'[t] = "CANCELLED" => task[t] = "CANCELLED"
           \/ \E t \in Task : CancelNow(t)
           \/ Finalise
  <1> USE DEF TypeInv, TypeOK
  <1>1. CASE JobStep
    BY <1>1
       DEF JobStep, StartCall, JobStart, Attach, AttachRefused, CancelJob, durable
  <1>2. CASE ChildMove
    BY <1>2
       DEF ChildMove, Launch, JobEnds, Spawn, SpawnThrows, JobRejects, JobCloses,
           StrayExits, durable
  <1>3. CASE Continuations
    BY <1>3
       DEF Continuations, AppendFails, Revise, ReviseFails, FinaliseRejecting,
           FinaliseFails, durable
  <1>4. CASE KeyMove
    BY <1>4 DEF KeyMove, KeyStep, JobConflict, CompleteKey, CompleteKeyFails
  <1>5. CASE TaskMove
    BY <1>5 DEF TaskMove, Resume, Pause, CancelAwaits, MoveTask, durable
  <1>6. CASE OpMove
    BY <1>6 DEF OpMove, OpEnds, OpStart, OpSettles, Assessed, MoveTask, StatusFor
  <1>7. CASE ProcessMove
    BY <1>7
       DEF ProcessMove, Boot, BootReclaim, BootOperations, BootJobs, BootInterrupted,
           BootUnknown, Shutdown, StopEarly, Close, Crash, LeaseExpires, durable
  <1>8. CASE UNCHANGED vars
    BY <1>8 DEF vars, durable
  <1> QED
    BY <1>1, <1>2, <1>3, <1>4, <1>5, <1>6, <1>7, <1>8, Steps

\* A child is lost to the error of its own spawn, and in no other way.
LEMMA ChildrenLost ==
    ASSUME TypeInv, [Next]_vars
    PROVE  \/ Lost' \subseteq Lost /\ faults' \in {faults, faults + 1}
           \/ \E j \in Job : SpawnThrows(j)
  <1> USE DEF TypeInv, TypeOK, StretchInv, Lost, Ending, Idle, At, GoTo, NoStretch, Fault,
              durable, volatile
  <1>1. CASE JobStep
    BY <1>1 DEF JobStep, StartCall, JobStart, Attach, AttachRefused, CancelJob
  <1>2. CASE ChildMove
    BY <1>2
       DEF ChildMove, Launch, JobEnds, Spawn, JobRejects, JobCloses, StrayExits
  <1>3. CASE Continuations
    BY <1>3
       DEF Continuations, AppendFails, Revise, ReviseFails, Finalise,
           FinaliseRejecting, FinaliseFails, Rejects, Perish, Detach
  <1>4. CASE KeyMove
    BY <1>4 DEF KeyMove, KeyStep, JobConflict, CompleteKey, CompleteKeyFails
  <1>5. CASE TaskMove
    BY <1>5 DEF TaskMove, Resume, Pause, CancelNow, CancelAwaits
  <1>6. CASE OpMove
    BY <1>6 DEF OpMove, OpEnds, OpStart, OpSettles, Assessed
  <1>7. CASE ProcessMove
    BY <1>7
       DEF ProcessMove, Boot, BootReclaim, BootOperations, BootJobs, BootInterrupted,
           BootUnknown, Shutdown, StopEarly, Close, Crash, Perish, LeaseExpires
  <1>8. CASE UNCHANGED vars
    BY <1>8 DEF vars
  <1> QED
    BY <1>1, <1>2, <1>3, <1>4, <1>5, <1>6, <1>7, <1>8, Steps

-----------------------------------------------------------------------------
(* Theorems *)

\* Every row, call, controller and reference between them is well formed, in every
\* mode of the process.
THEOREM TypeInvariance == Spec => []TypeInv
  <1> QED
    BY InitTyped, StepTyped, PTL DEF Spec

\* Tables, calls and controllers keep their types.
THEOREM TypeCorrect == Spec => []TypeOK
  BY TypeInvariance, PTL DEF TypeInv

\* The invariants about tasks, jobs and keys hold together: none of them is
\* inductive without the startup's progress and the uniqueness of running jobs.
THEOREM SafetyInvariance == Spec => []SafetyInv
  <1>1. Init => SafetyInv
    <2> SUFFICES ASSUME Init PROVE SafetyInv
      OBVIOUS
    <2>1. Live = {} /\ attached = {}
      BY DEF Init, Live
    <2>2. LimitInv
      BY <2>1, FS_EmptySet, JobsAssumption DEF LimitInv
    <2> QED
      BY <2>2, JobsAssumption
         DEF Init, SafetyInv, BootInv, TaskInv, KeyInv, RunningTaskHasNoUnknownWork,
             QuietTaskHasNoRunningJob, Unused, Idem!NoRecord, Live
  <1>2. TypeInv /\ TypeInv' /\ SafetyInv /\ [Next]_vars => SafetyInv'
    <2> SUFFICES ASSUME TypeInv, TypeInv', SafetyInv, [Next]_vars PROVE SafetyInv'
      OBVIOUS
    <2>1. CASE UNCHANGED vars
      BY <2>1
         DEF vars, durable, volatile, SafetyInv, BootInv, TaskInv, LimitInv,
             Live, KeyInv, RunningTaskHasNoUnknownWork, QuietTaskHasNoRunningJob,
             JobsOf, OpsOf
    <2> QED
      BY <2>1, Steps, JobStepSafe, ChildMoveSafe, ContinuationsSafe, KeyMoveSafe, TaskMoveSafe, OpMoveSafe,
         ProcessMoveSafe
  <1> QED
    BY <1>1, <1>2, TypeInvariance, PTL DEF Spec

\* Interrupted work is never continued as if it had not been interrupted.
THEOREM InterruptedWorkWaits == Spec => []RunningTaskHasNoUnknownWork
  BY SafetyInvariance, PTL DEF SafetyInv

\* A start that overlaps a pause or a cancel in its await leaves no job behind.
THEOREM QuietTasksStayQuiet == Spec => []QuietTaskHasNoRunningJob
  BY SafetyInvariance, PTL DEF SafetyInv

\* Each lost child was lost to a storage error.
THEOREM StraysInvariance == Spec => []LostInv
  <1>1. Init => LostInv
    <2> SUFFICES ASSUME Init PROVE LostInv
      OBVIOUS
    <2>1. Lost = {} /\ faults = 0
      BY DEF Init, Lost
    <2> QED
      BY <2>1, FS_EmptySet DEF LostInv
  <1>2. TypeInv /\ LostInv /\ [Next]_vars => LostInv'
    <2> SUFFICES ASSUME TypeInv, LostInv, [Next]_vars PROVE LostInv'
      OBVIOUS
    <2>1. faults \in Nat /\ IsFiniteSet(Lost) /\ Cardinality(Lost) <= faults
      BY DEF LostInv, TypeInv, TypeOK
    <2>2. Cardinality(Lost) \in Nat
      BY <2>1, FS_CardinalityType
    <2>3. ASSUME Lost' \subseteq Lost, faults' \in {faults, faults + 1} PROVE LostInv'
      <3>1. IsFiniteSet(Lost') /\ Cardinality(Lost') <= Cardinality(Lost)
        BY <2>1, <2>3, FS_Subset
      <3>2. Cardinality(Lost') \in Nat
        BY <3>1, FS_CardinalityType
      <3> QED
        BY <2>1, <2>2, <2>3, <3>1, <3>2 DEF LostInv
    <2>4. ASSUME NEW j \in Job, SpawnThrows(j) PROVE LostInv'
      <3>0. /\ loop.pc = "idle" /\ loop'.pc = "caught" /\ loop'.job = j
            /\ j \in attached /\ UNCHANGED attached /\ children' = children \cup {j}
            /\ faults' = faults + 1
        BY <2>4 DEF SpawnThrows, Fault, Idle
      <3>1. Lost' = Lost \cup {j} /\ faults' = faults + 1
        BY <3>0 DEF Lost, Ending
      <3>2. /\ IsFiniteSet(Lost \cup {j}) /\ Cardinality(Lost \cup {j}) \in Nat
            /\ Cardinality(Lost \cup {j}) <= Cardinality(Lost) + 1
        BY <2>1, OneMoreElement
      <3> QED
        BY <2>1, <2>2, <3>1, <3>2 DEF LostInv
    <2> QED
      BY <2>3, <2>4, ChildrenLost
  <1> QED
    BY <1>1, <1>2, TypeInvariance, PTL DEF Spec

\* Attached jobs never exceed the limit, for any number of starts that overlap, and
\* the children beside them number no more than the storage errors.
THEOREM JobsAreBounded == Spec => []JobsWithinBounds
  <1>1. TypeInv /\ SafetyInv /\ LostInv => JobsWithinBounds
    <2> SUFFICES ASSUME TypeInv, SafetyInv, LostInv PROVE JobsWithinBounds
      OBVIOUS
    <2>1. children \ attached \subseteq Lost /\ IsFiniteSet(Lost)
      BY DEF Lost, LostInv
    <2>2. /\ IsFiniteSet(children \ attached)
          /\ Cardinality(children \ attached) <= Cardinality(Lost)
      BY <2>1, FS_Subset
    <2>3. Cardinality(children \ attached) \in Nat /\ Cardinality(Lost) \in Nat
      BY <2>1, <2>2, FS_CardinalityType
    <2>4. Cardinality(Lost) <= faults /\ faults \in Nat
      BY DEF LostInv, TypeInv, TypeOK
    <2> QED
      BY <2>2, <2>3, <2>4 DEF SafetyInv, LimitInv, JobsWithinBounds
  <1> QED
    BY <1>1, TypeInvariance, SafetyInvariance, StraysInvariance, PTL

\* Two attached jobs never share a task, whatever starts overlap in their awaits.
THEOREM TasksAreNotShared == Spec => []OneJobPerTask
  <1>1. SafetyInv => OneJobPerTask
    BY DEF SafetyInv, TaskInv, Live, OneJobPerTask
  <1> QED
    BY <1>1, SafetyInvariance, PTL

\* A key spawns one child at most and replays only its own.
THEOREM KeysSpawnOnce == Spec => []JobRunsOncePerKey
  <1>1. SafetyInv => JobRunsOncePerKey
    BY JobsAssumption DEF SafetyInv, KeyInv, JobRunsOncePerKey
  <1> QED
    BY <1>1, SafetyInvariance, PTL

\* An outcome is written by the job's own end, or by a process that never ran it; it
\* is revised only by the end that wrote it, from COMPLETED to FAILED.
THEOREM OutcomesAreFinal == Spec => JobOutcomeIsFinal
  <1> DEFINE Final == \A j \in Job : job'[j] # job[j] =>
         \/ job[j] = "ABSENT" /\ job'[j] = "RUNNING"
         \/ /\ job[j] = "RUNNING" /\ j \in attached
            /\ job'[j] \in {"COMPLETED", "FAILED", "CANCELLED"}
            /\ (job'[j] = "CANCELLED") = (j \in aborted)
         \/ /\ job[j] = "COMPLETED" /\ job'[j] = "FAILED"
            /\ j \in attached \ aborted /\ loop.job = j /\ ~Idle
         \/ job[j] = "RUNNING" /\ job'[j] = "UNKNOWN" /\ attached = {}
  <1>1. TypeInv /\ [Next]_vars => Final
    <2> SUFFICES ASSUME TypeInv, [Next]_vars PROVE Final
      OBVIOUS
    <2>1. CASE UNCHANGED job
      BY <2>1
    <2>2. ASSUME NEW j \in Job, Attach(j) PROVE Final
      BY <2>2 DEF Attach, TypeInv, TypeOK, JobRefs
    <2>3. ASSUME NEW j \in Job, NEW s \in JobStatus, JobCloses(j, s) PROVE Final
      BY <2>3 DEF JobCloses, Outcome, Idle, Ending, TypeInv, TypeOK, JobRefs
    <2>4. CASE Revise
      <3>1. /\ loop.job \in attached /\ ~Idle
            /\ job[loop.job] = "RUNNING" \/ job[loop.job] \in Ended
            /\ job[loop.job] # "RUNNING" =>
                  (job[loop.job] = "CANCELLED") = (loop.job \in aborted)
        BY <2>4 DEF Revise, At, Idle, TypeInv, JobRefs, StretchInv
      <3>2. /\ \A j \in Job \ {loop.job} : job'[j] = job[j]
            /\ job'[loop.job] = IF loop.job \in aborted THEN "CANCELLED" ELSE "FAILED"
        BY <2>4, <3>1 DEF Revise, TypeInv, TypeOK
      <3> QED
        BY <3>1, <3>2 DEF Ended
    <2>5. CASE BootJobs
      BY <2>5 DEF BootJobs, TypeInv, TypeOK, VolatileInv, Serving
    <2> QED
      BY <2>1, <2>2, <2>3, <2>4, <2>5, JobWriters
  <1> QED
    BY <1>1, TypeInvariance, PTL DEF Spec, JobOutcomeIsFinal

\* When the agent begins to serve no row claims to run and every open task with
\* unresolved work awaits recovery, after any number of interrupted startups.
THEOREM ServesWhatItReconciled == Spec => ServesOnlyReconciled
  <1> DEFINE Reconciled == (mode # "up" /\ mode' = "up") =>
         /\ \A j \in Job : job'[j] # "RUNNING"
         /\ \A o \in Op : ops'[o].status # "RUNNING"
         /\ \A t \in Task :
               /\ task'[t] \notin Interruptible
               /\ (JobsOf(t, {"UNKNOWN"}) \cup OpsOf(t, {"UNKNOWN"}) # {})' =>
                     task'[t] \in Terminal \cup {"RECOVERY_REQUIRED"}
  <1>1. TypeInv /\ SafetyInv /\ [Next]_vars => Reconciled
    <2> SUFFICES ASSUME TypeInv, SafetyInv, [Next]_vars PROVE Reconciled
      OBVIOUS
    <2>1. CASE BootUnknown
      BY <2>1
         DEF BootUnknown, HasUnknownWork, JobsOf, OpsOf, SafetyInv, BootInv,
             TypeInv, TypeOK, Interruptible
    <2>2. CASE UNCHANGED mode \/ mode' # "up"
      BY <2>2
    <2> QED
      BY <2>1, <2>2, ModeWriters
  <1> QED
    BY <1>1, TypeInvariance, SafetyInvariance, PTL DEF Spec, ServesOnlyReconciled

\* Calls and operations hold the lease of their project, and so do jobs until
\* storage first fails, if no job outlives its lease.
THEOREM LeaseInvariance == Spec => []LeaseInv
  <1>1. Init => LeaseInv
    BY DEF Init, LeaseInv
  <1>2. TypeInv /\ TypeInv' /\ SafetyInv /\ LeaseInv /\ [Next]_vars => LeaseInv'
    <2> SUFFICES ASSUME TypeInv, TypeInv', SafetyInv, LeaseInv, [Next]_vars
                 PROVE  LeaseInv'
      OBVIOUS
    <2>1. CASE UNCHANGED vars
      BY <2>1 DEF vars, durable, volatile, LeaseInv, Holds, OpsOf
    <2> QED
      BY <2>1, Steps, JobStepLeases, ChildMoveLeases, ContinuationsLeases, KeyMoveLeases, TaskMoveLeases, OpMoveLeases,
         ProcessMoveLeases
  <1> QED
    BY <1>1, <1>2, TypeInvariance, SafetyInvariance, PTL DEF Spec

\* Jobs and operations of one project exclude each other until storage first fails.
THEOREM WorkersExclude ==
    ASSUME Overrun = FALSE
    PROVE  Spec => [](faults = 0 => OneWorkerPerProject)
  <1>1. TypeInv /\ LeaseInv /\ LostInv => (faults = 0 => OneWorkerPerProject)
    <2> SUFFICES ASSUME TypeInv, LeaseInv, LostInv, faults = 0 PROVE OneWorkerPerProject
      OBVIOUS
    <2>1. children \subseteq attached
      BY NoElements DEF LostInv, Lost
    <2> QED
      BY <2>1 DEF LeaseInv, Holds, OneWorkerPerProject, Workers, TypeInv, TypeOK
  <1> QED
    BY <1>1, TypeInvariance, LeaseInvariance, StraysInvariance, PTL

\* No task is cancelled while work on it is unresolved, although cancel does not look
\* at the operations again after its await: the job it awaits holds the lease that
\* such an operation would need.
THEOREM CancelsAreQuiet ==
    ASSUME Overrun = FALSE, MaxFaults = 0
    PROVE  Spec => CancelledWhenQuiet
  <1> DEFINE Quiet == \A t \in Task : (task[t] # "CANCELLED" /\ task'[t] = "CANCELLED") =>
                         (JobsOf(t, Unresolved) \cup OpsOf(t, Unresolved))' = {}
  <1>1. TypeInv /\ SafetyInv /\ LeaseInv /\ [Next]_vars => Quiet
    <2> SUFFICES ASSUME TypeInv, SafetyInv, LeaseInv, [Next]_vars PROVE Quiet
      OBVIOUS
    <2>1. faults = 0
      BY DEF TypeInv, TypeOK
    <2>2. ASSUME NEW t \in Task, CancelNow(t) PROVE Quiet
      BY <2>2
         DEF CancelNow, MoveTask, BlockingOperation, JobsOf, OpsOf, TypeInv, TypeOK
    <2>3. CASE Finalise
      <3> SUFFICES ASSUME NEW t \in Task, task[t] # "CANCELLED", task'[t] = "CANCELLED"
                   PROVE  JobsOf(t, Unresolved)' = {} /\ OpsOf(t, Unresolved)' = {}
        OBVIOUS
      <3> DEFINE j == loop.job
      <3>1. <<t, j>> \in cancels /\ JobsOf(t, {"UNKNOWN"}) = {}
        BY <2>3 DEF Finalise, AfterJob
      <3>2. OpsOf(t, Unresolved)' = {}
        BY <2>1, <2>3, <3>1 DEF Finalise, LeaseInv, OpsOf
      <3>3. j \in attached /\ request[j].task = t /\ job[j] \notin Unresolved
        BY <2>3, <3>1
           DEF Finalise, TypeInv, TypeOK, JobRefs, StretchInv, Ended, Unresolved
      <3>4. \A i \in Job \ {j} : request[i].task = t => job[i] \notin Unresolved
        BY <3>1, <3>3, JobsAssumption DEF SafetyInv, TaskInv, Live, JobsOf, Unresolved
      <3> QED
        BY <2>3, <3>2, <3>3, <3>4 DEF Finalise, JobsOf
    <2>4. CASE \A t \in Task : task'[t] = "CANCELLED" => task[t] = "CANCELLED"
      BY <2>4
    <2> QED
      BY <2>2, <2>3, <2>4, TaskCancellers
  <1> QED
    BY <1>1, TypeInvariance, SafetyInvariance, LeaseInvariance, PTL
       DEF Spec, CancelledWhenQuiet

-----------------------------------------------------------------------------
(* The refinement *)

\* Work begins, ends or dies with the process; no other step moves it.
LEMMA WorkMovers ==
    ASSUME TypeInv, [Next]_vars
    PROVE  \/ /\ UNCHANGED <<attached, opActive>>
              /\ \A j \in attached : request'[j] = request[j]
              /\ \A o \in opActive : ops'[o].task = ops[o].task
           \/ \E j \in Job : Attach(j)
           \/ Finalise \/ FinaliseRejecting \/ FinaliseFails
           \/ \E o \in Op : \/ OpEnds(o)
                            \/ \E t \in Task, kind \in Kind : OpStart(o, kind, t)
           \/ Close \/ Crash
  <1> USE DEF TypeInv, TypeOK, JobRefs, Ended, durable, volatile
  <1>1. CASE JobStep
    BY <1>1, JobsAssumption DEF JobStep, StartCall, JobStart, AttachRefused, CancelJob
  <1>2. CASE ChildMove
    BY <1>2
       DEF ChildMove, Launch, JobEnds, Spawn, SpawnThrows, JobRejects, JobCloses,
           StrayExits
  <1>3. CASE Continuations
    BY <1>3 DEF Continuations, AppendFails, Revise, ReviseFails
  <1>4. CASE KeyMove
    BY <1>4 DEF KeyMove, KeyStep, JobConflict, CompleteKey, CompleteKeyFails
  <1>5. CASE TaskMove
    BY <1>5 DEF TaskMove, Resume, Pause, CancelNow, CancelAwaits
  <1>6. CASE OpMove
    BY <1>6 DEF OpMove
  <1>7. CASE ProcessMove
    BY <1>7
       DEF ProcessMove, Boot, BootReclaim, BootOperations, BootJobs,
           BootInterrupted, BootUnknown, Shutdown, StopEarly, LeaseExpires, OpRow
  <1>8. CASE UNCHANGED vars
    BY <1>8 DEF vars
  <1> QED
    BY <1>1, <1>2, <1>3, <1>4, <1>5, <1>6, <1>7, <1>8, Steps

\* Work that begins where no other piece of work holds the lease begins alone.
LEMMA WorkBegins ==
    ASSUME TypeInv', LeaseInv', ~Overrun, faults' = 0, (children \subseteq attached)',
           NEW w \in Work, NEW p \in Project,
           Workers(p)' = Workers(p) \cup {w}, w \notin Workers(p),
           \A q \in Project \ {p} : Workers(q)' = Workers(q)
    PROVE  Abstract!Begin(p, w)
  <1>1. \A q \in Project : \A x \in Workers(q)' : Holds(q, x)'
    BY DEF LeaseInv, Workers, TypeInv, TypeOK
  <1>2. Workers(p) = {}
    <2> SUFFICES ASSUME NEW x \in Workers(p) PROVE FALSE
      OBVIOUS
    <2>1. x \in Workers(p)' /\ w \in Workers(p)' /\ x # w
      OBVIOUS
    <2> QED
      BY <1>1, <2>1 DEF Holds
  <1> QED
    BY <1>2 DEF Abstract!Begin

\* Work that ends leaves the others where they are.
LEMMA WorkEnds ==
    ASSUME NEW w \in Work, NEW p \in Project, w \in Workers(p),
           \A q \in Project : Workers(q)' = Workers(q) \ {w},
           \A q \in Project \ {p} : w \notin Workers(q)
    PROVE  Abstract!End(p, w)
  <1>1. \A q \in Project \ {p} : Workers(q)' = Workers(q)
    OBVIOUS
  <1> QED
    BY <1>1 DEF Abstract!End

\* Every step maps to a step of ExclusiveWork or to a stutter.
LEMMA WorkSteps ==
    ASSUME TypeInv, TypeInv', LostInv, LostInv', LeaseInv', ~Overrun, faults' = 0,
           [Next]_vars
    PROVE  \/ Abstract!Next
           \/ \A p \in Project : Workers(p)' = Workers(p)
  <1> DEFINE Step == \/ Abstract!Next
                     \/ \A p \in Project : Workers(p)' = Workers(p)
  <1> SUFFICES Step
    OBVIOUS
  <1> USE JobsAssumption DEF TypeInv, TypeOK, JobRefs, OpRefs, Work
  <1>0. faults = 0
    BY ChildrenLost DEF SpawnThrows, Fault
  <1>c. children \subseteq attached /\ (children \subseteq attached)'
    <2>1. Lost = {} /\ Lost' = {}
      BY <1>0, NoElements DEF LostInv
    <2> QED
      BY <2>1 DEF Lost
  <1>1. ASSUME NEW j \in Job, Attach(j) PROVE Step
    <2>1. j \in Work /\ request[j].project \in Project
      BY <1>1 DEF Attach, Request
    <2> PICK p \in Project : p = request[j].project
      BY <2>1
    <2>2. /\ j \notin attached /\ attached' = attached \cup {j}
          /\ UNCHANGED <<request, ops, opActive>>
      BY <1>1 DEF Attach, Ended
    <2>3. /\ Workers(p)' = Workers(p) \cup {j} /\ j \notin Workers(p)
          /\ \A q \in Project \ {p} : Workers(q)' = Workers(q)
      BY <1>c, <2>2 DEF Workers
    <2>4. Abstract!Begin(p, j)
      BY <1>c, <2>1, <2>3, WorkBegins
    <2> QED
      BY <2>1, <2>4 DEF Abstract!Next
  <1>2. ASSUME NEW o \in Op, NEW t \in Task, NEW kind \in Kind, OpStart(o, kind, t)
        PROVE  Step
    <2>1. TaskProject[t] \in Project /\ o \in Work
      OBVIOUS
    <2>2. /\ ops'[o].task = t /\ o \notin opActive /\ opActive' = opActive \cup {o}
          /\ \A x \in opActive : ops'[x].task = ops[x].task
          /\ UNCHANGED <<attached, request>>
      BY <1>2 DEF OpStart
    <2>3. /\ Workers(TaskProject[t])' = Workers(TaskProject[t]) \cup {o}
          /\ o \notin Workers(TaskProject[t])
          /\ \A q \in Project \ {TaskProject[t]} : Workers(q)' = Workers(q)
      BY <1>c, <2>1, <2>2 DEF Workers
    <2> QED
      BY <1>c, <2>1, <2>3, WorkBegins DEF Abstract!Next
  <1>3. ASSUME NEW j \in Job, attached' = attached \ {j}, j \in attached,
               UNCHANGED <<request, ops, opActive>>
        PROVE  Step
    <2> DEFINE p == request[j].project
    <2>1. p \in Project /\ j \in Work
      BY <1>3 DEF Request, Ended
    <2>2. /\ j \in Workers(p) /\ \A q \in Project \ {p} : j \notin Workers(q)
          /\ \A q \in Project : Workers(q)' = Workers(q) \ {j}
      BY <1>c, <1>3, <2>1 DEF Workers
    <2> QED
      BY <2>1, <2>2, WorkEnds DEF Abstract!Next
  <1>4. ASSUME NEW o \in Op, OpEnds(o) PROVE Step
    <2> DEFINE p == TaskProject[ops[o].task]
    <2>1. OpEnded(o)
      BY <1>4, OpEndsEffect
    <2>2. p \in Project /\ o \in Work
      BY <2>1 DEF OpEnded
    <2>3. /\ o \in Workers(p) /\ \A q \in Project \ {p} : o \notin Workers(q)
          /\ \A q \in Project : Workers(q)' = Workers(q) \ {o}
      BY <1>c, <2>1, <2>2 DEF OpEnded, Workers
    <2> QED
      BY <2>2, <2>3, WorkEnds DEF Abstract!Next
  <1>5. ASSUME attached' = {}, opActive' = {} PROVE Step
    BY <1>c, <1>5 DEF Abstract!Next, Abstract!Halt, Workers
  <1>6. CASE Finalise
    <2>1. loop.job \in attached
      BY <1>6 DEF Finalise, Idle, StretchInv
    <2> QED
      BY <1>3, <1>6, <2>1 DEF Finalise, Detach
  <1>7. CASE FinaliseRejecting \/ FinaliseFails
    BY <1>0, <1>7 DEF FinaliseRejecting, FinaliseFails, Fault, StretchInv
  <1>8. CASE Close \/ Crash
    BY <1>5, <1>8 DEF Close, Crash, Perish
  <1>9. ASSUME UNCHANGED <<attached, opActive>>,
               \A j \in attached : request'[j] = request[j],
               \A o \in opActive : ops'[o].task = ops[o].task
        PROVE  Step
    BY <1>c, <1>9 DEF Workers
  <1> HIDE DEF Step, TypeInv, TypeOK, JobRefs, OpRefs, Work
  <1>10. CASE \E o \in Op : \/ OpEnds(o)
                             \/ \E t \in Task, kind \in Kind : OpStart(o, kind, t)
    BY <1>2, <1>4, <1>10
  <1> QED
    BY <1>1, <1>6, <1>7, <1>8, <1>9, <1>10, WorkMovers

\* Jobs and operations together keep the promise of the leases: seen through the
\* work in memory, every step of the agent begins work on an idle project, ends
\* work, takes all of it down, or changes nothing.
THEOREM JobsRefineExclusiveWork ==
    ASSUME Overrun = FALSE, MaxFaults = 0
    PROVE  Spec => ImplementsExclusiveWork
  <1> DEFINE W == [p \in Project |-> Workers(p)]
  <1>1. Init => Abstract!Init
    BY DEF Init, Abstract!Init, Workers
  <1>2. TypeInv /\ TypeInv' /\ LostInv /\ LostInv' /\ LeaseInv' /\ [Next]_vars
           => [Abstract!Next]_W
    <2> SUFFICES ASSUME TypeInv, TypeInv', LostInv, LostInv', LeaseInv', [Next]_vars
                 PROVE  [Abstract!Next]_W
      OBVIOUS
    <2>1. ~Overrun /\ faults' = 0
      BY DEF TypeInv, TypeOK
    <2> QED
      BY <2>1, WorkSteps
  <1> QED
    BY <1>1, <1>2, TypeInvariance, StraysInvariance, LeaseInvariance, PTL
       DEF Spec, ImplementsExclusiveWork, Abstract!Spec

=============================================================================
