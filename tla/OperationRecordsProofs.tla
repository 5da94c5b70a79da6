----------------------- MODULE OperationRecordsProofs -----------------------
(***************************************************************************)
(* Proofs about the records PersistentOperations leaves behind: the key    *)
(* that replays an operation, its row, and the lease that outlives it.     *)
(***************************************************************************)
EXTENDS PersistentOperationsProofs

-----------------------------------------------------------------------------
(* The inductive invariant *)

\* The statements of a start between its begin and its end.
Starting == {"acquire", "insert", "complete", "release", "failKey"}

\* A start holds its key IN_PROGRESS until its last statement, with the task of
\* its fingerprint, and inserts the row of an operation that has not begun.
StretchInv ==
    LET o == loop.op  k == origin[loop.op] IN
    /\ loop.pc \in Starting => o \notin began /\ keys[k].status = "IN_PROGRESS"
    /\ loop.pc \in {"acquire", "insert", "complete"} => keys[k].print = loop.task
    /\ loop.pc = "complete" =>
          ops[o].status # "ABSENT" /\ ops[o].task = loop.task /\ ops[o].startedAt = now
    /\ loop.pc = "finally" => ops[o].status # "RUNNING"

\* A key is completed by the operation it records, when that operation began.
RecordInv ==
    \A k \in Key : keys[k].status = "COMPLETED" =>
        LET o == keys[k].result IN
        /\ o \in began /\ origin[o] = k
        /\ ops[o].task = keys[k].print /\ ops[o].startedAt = keys[k].updatedAt

\* The key of a begun operation records it until the retention is over.
BegunInv ==
    \A o \in began :
        LET record == keys[origin[o]] IN
        /\ origin[o] \in Key /\ ops[o].status # "ABSENT"
        /\ \/ record.status = "COMPLETED" /\ record.result = o
           \/ ops[o].startedAt + Retention < now

\* Before the agent serves, reconciliation has left no row RUNNING.
ReconciledInv ==
    mode = "prune" => \A o \in Op : ops[o].status # "RUNNING"

\* A lease that covers an operation is the lease of its project.
CoverInv ==
    \A o \in Op : cover[o] > now =>
        origin[o] \in Key /\ Holds(o) /\ Expiry(o) >= cover[o]

RecordsInv ==
    /\ StretchInv /\ RecordInv /\ BegunInv /\ ReconciledInv /\ CoverInv
    /\ RunsOncePerKey /\ RunningIsExecuting

-----------------------------------------------------------------------------
(* Steps *)

\* A start owns its key and its row while its statements run.
LEMMA StretchKept ==
    ASSUME IInv, RowInv, RecordsInv, [Next]_vars
    PROVE  StretchInv'
  <1> USE OpsAssumption
      DEF RowInv, RecordsInv, StretchInv, At, GoTo, Idle, Fault, durable, volatile, history
  <1>0. TypeInv /\ TypeInv' /\ ProcessInv /\ StartInv
    BY StepTyped DEF IInv
  <1> USE DEF TypeInv, TypeOK, LoopOK, ProcessInv, StartInv, Starting
  <1>1. ASSUME NEW o \in Op, NEW k \in Key, NEW t \in Task, Start(o, k, t)
        PROVE  StretchInv'
    BY <1>0, <1>1 DEF Start, Idem!Begin, Idem!KeyTable, BegunInv
  <1>2. CASE InsertRow
    BY <1>0, <1>2 DEF InsertRow
  <1>3. CASE CompleteKey
    BY <1>0, <1>3 DEF CompleteKey, Idem!Finish
  <1>4. CASE FailKey
    BY <1>0, <1>4 DEF FailKey, Idem!Finish
  <1>5. ASSUME NEW o \in Op, NEW v \in Verdict, Settle(o, v) PROVE StretchInv'
    BY <1>0, <1>5 DEF Settle, Verdict
  <1>6. CASE BootReconcile
    BY <1>0, <1>6 DEF BootReconcile
  <1>7. CASE BootPrune
    BY <1>0, <1>7 DEF BootPrune, Idem!PruneKeys, Idem!Stale
  <1>8. CASE AcquireLease \/ AcquireConflict \/ InsertRefused \/ CompleteFails
          \/ ReleaseOnError \/ UnwindFails \/ EndOfExecution \/ BootReclaim \/ Shutdown
          \/ StopEarly \/ Close \/ Crash \/ Tick \/ UNCHANGED vars
    BY <1>0, <1>8
       DEF AcquireLease, AcquireConflict, InsertRefused, CompleteFails,
           ReleaseOnError, UnwindFails, EndOfExecution, Finalise,
           FinaliseRejecting, FinaliseFails, Rejects, Deceased, BootReclaim, Shutdown, StopEarly, Close,
           Crash, Tick, vars, Stretch
  <1>9. ASSUME NEW o \in Op, Renew(o) \/ RenewFails(o) \/ SettleFails(o) \/
               RequestCancellation(o)
        PROVE  StretchInv'
    BY <1>0, <1>9 DEF Renew, RenewFails, SettleFails, RequestCancellation
  <1> HIDE DEF TypeInv, TypeOK, LoopOK, ProcessInv, StartInv, Starting, RowInv,
               RecordsInv, StretchInv
  <1> QED
    BY <1>1, <1>2, <1>3, <1>4, <1>5, <1>6, <1>7, <1>8, <1>9
       DEF Next, StartStretch, Execution, EndOfExecution, Boot

\* Nothing overwrites the record of a completed key but the pruning at startup.
LEMMA RecordKept ==
    ASSUME IInv, RowInv, RecordsInv, [Next]_vars
    PROVE  RecordInv'
  <1> USE OpsAssumption
      DEF RowInv, RecordsInv, RecordInv, At, GoTo, Idle, Fault, durable, volatile, history
  <1>0. TypeInv /\ TypeInv' /\ ProcessInv /\ StartInv
    BY StepTyped DEF IInv
  <1> USE DEF TypeInv, TypeOK, LoopOK, ProcessInv, StartInv, Starting
  <1>1. ASSUME NEW o \in Op, NEW k \in Key, NEW t \in Task, Start(o, k, t)
        PROVE  RecordInv'
    BY <1>0, <1>1 DEF Start, Idem!Begin
  <1>2. CASE InsertRow
    BY <1>0, <1>2 DEF InsertRow, StretchInv
  <1>3. CASE CompleteKey
    BY <1>0, <1>3 DEF CompleteKey, Idem!Finish, StretchInv
  <1>4. CASE FailKey
    BY <1>0, <1>4 DEF FailKey, Idem!Finish
  <1>5. ASSUME NEW o \in Op, NEW v \in Verdict, Settle(o, v) PROVE RecordInv'
    BY <1>0, <1>5 DEF Settle
  <1>6. ASSUME NEW o \in Op, RequestCancellation(o) PROVE RecordInv'
    BY <1>0, <1>6 DEF RequestCancellation
  <1>7. CASE BootReconcile
    BY <1>0, <1>7 DEF BootReconcile
  <1>8. CASE BootPrune
    BY <1>0, <1>8 DEF BootPrune, Idem!PruneKeys, Idem!Stale, Idem!NoRecord
  <1>9. CASE AcquireLease \/ AcquireConflict \/ InsertRefused \/ CompleteFails
          \/ ReleaseOnError \/ UnwindFails \/ EndOfExecution \/ BootReclaim \/ Shutdown
          \/ StopEarly \/ Close \/ Crash \/ Tick \/ UNCHANGED vars
    BY <1>0, <1>9
       DEF AcquireLease, AcquireConflict, InsertRefused, CompleteFails,
           ReleaseOnError, UnwindFails, EndOfExecution, Finalise,
           FinaliseRejecting, FinaliseFails, Rejects, Deceased, BootReclaim, Shutdown, StopEarly, Close,
           Crash, Tick, vars
  <1>10. ASSUME NEW o \in Op, Renew(o) \/ RenewFails(o) \/ SettleFails(o)
         PROVE  RecordInv'
    BY <1>0, <1>10 DEF Renew, RenewFails, SettleFails
  <1> HIDE DEF TypeInv, TypeOK, LoopOK, ProcessInv, StartInv, Starting, RowInv,
               RecordsInv, RecordInv
  <1> QED
    BY <1>1, <1>2, <1>3, <1>4, <1>5, <1>6, <1>7, <1>8, <1>9, <1>10
       DEF Next, StartStretch, Execution, EndOfExecution, Boot

\* A record is pruned only after the retention, counted from the start of its operation.
LEMMA BegunKept ==
    ASSUME IInv, RowInv, RecordsInv, [Next]_vars
    PROVE  BegunInv'
  <1> USE OpsAssumption
      DEF RowInv, RecordsInv, BegunInv, At, GoTo, Idle, Fault, durable, volatile, history
  <1>0. TypeInv /\ TypeInv' /\ ProcessInv /\ StartInv
    BY StepTyped DEF IInv
  <1> USE DEF TypeInv, TypeOK, LoopOK, ProcessInv, StartInv, Starting
  <1>1. ASSUME NEW o \in Op, NEW k \in Key, NEW t \in Task, Start(o, k, t)
        PROVE  BegunInv'
    BY <1>0, <1>1 DEF Start, Idem!Begin, Idem!Fresh
  <1>2. CASE InsertRow
    BY <1>0, <1>2 DEF InsertRow
  <1>3. CASE CompleteKey
    BY <1>0, <1>3 DEF CompleteKey, Idem!Finish, Idem!KeyTable, StretchInv
  <1>4. CASE FailKey
    BY <1>0, <1>4 DEF FailKey, Idem!Finish
  <1>5. ASSUME NEW o \in Op, NEW v \in Verdict, Settle(o, v) PROVE BegunInv'
    BY <1>0, <1>5 DEF Settle, Verdict
  <1>6. ASSUME NEW o \in Op, RequestCancellation(o) PROVE BegunInv'
    BY <1>0, <1>6 DEF RequestCancellation
  <1>7. CASE BootReconcile
    BY <1>0, <1>7 DEF BootReconcile
  <1>8. CASE BootPrune
    BY <1>0, <1>8 DEF BootPrune, Idem!PruneKeys, Idem!Stale, RecordInv
  <1>9. CASE Tick
    BY <1>0, <1>9 DEF Tick, OpRow
  <1>10. CASE AcquireLease \/ AcquireConflict \/ InsertRefused \/ CompleteFails
           \/ ReleaseOnError \/ UnwindFails \/ EndOfExecution \/ BootReclaim \/ Shutdown
           \/ StopEarly \/ Close \/ Crash \/ UNCHANGED vars
    BY <1>0, <1>10
       DEF AcquireLease, AcquireConflict, InsertRefused, CompleteFails,
           ReleaseOnError, UnwindFails, EndOfExecution, Finalise,
           FinaliseRejecting, FinaliseFails, Rejects, Deceased, BootReclaim, Shutdown, StopEarly, Close,
           Crash, vars
  <1>11. ASSUME NEW o \in Op, Renew(o) \/ RenewFails(o) \/ SettleFails(o)
         PROVE  BegunInv'
    BY <1>0, <1>11 DEF Renew, RenewFails, SettleFails
  <1> HIDE DEF TypeInv, TypeOK, LoopOK, ProcessInv, StartInv, Starting, RowInv,
               RecordsInv, BegunInv
  <1> QED
    BY <1>1, <1>2, <1>3, <1>4, <1>5, <1>6, <1>7, <1>8, <1>9, <1>10, <1>11
       DEF Next, StartStretch, Execution, EndOfExecution, Boot

\* The reconciliation leaves nothing RUNNING.
LEMMA ReconciledKept ==
    ASSUME IInv, RowInv, RecordsInv, [Next]_vars
    PROVE  ReconciledInv'
  <1> USE OpsAssumption
      DEF RowInv, RecordsInv, ReconciledInv, At, GoTo, Idle, Fault, durable, volatile, history
  <1>0. TypeInv /\ TypeInv' /\ ProcessInv /\ StartInv
    BY StepTyped DEF IInv
  <1> USE DEF TypeInv, TypeOK, LoopOK, ProcessInv, StartInv, Starting
  <1>1. CASE InsertRow
    BY <1>0, <1>1 DEF InsertRow, Serving
  <1>2. ASSUME NEW o \in Op, NEW v \in Verdict, Settle(o, v) PROVE ReconciledInv'
    BY <1>0, <1>2 DEF Settle
  <1>3. ASSUME NEW o \in Op, RequestCancellation(o) PROVE ReconciledInv'
    BY <1>0, <1>3 DEF RequestCancellation
  <1>4. CASE BootReconcile
    BY <1>0, <1>4 DEF BootReconcile
  <1>5. CASE AcquireLease \/ AcquireConflict \/ InsertRefused \/ CompleteKey
          \/ CompleteFails \/ ReleaseOnError \/ FailKey \/ UnwindFails \/ EndOfExecution
          \/ BootReclaim \/ BootPrune \/ Shutdown \/ StopEarly \/ Close \/ Crash \/ Tick
          \/ UNCHANGED vars
    BY <1>0, <1>5
       DEF AcquireLease, AcquireConflict, InsertRefused, CompleteKey, CompleteFails,
           ReleaseOnError, FailKey, UnwindFails, EndOfExecution, Finalise,
           FinaliseRejecting, FinaliseFails, Rejects, Deceased, BootReclaim, BootPrune,
           Shutdown, StopEarly, Close, Crash, Tick, vars
  <1>6. ASSUME NEW o \in Op, Renew(o) \/ RenewFails(o) \/ SettleFails(o)
        PROVE  ReconciledInv'
    BY <1>0, <1>6 DEF Renew, RenewFails, SettleFails
  <1>7. ASSUME NEW o \in Op, NEW k \in Key, NEW t \in Task, Start(o, k, t)
        PROVE  ReconciledInv'
    BY <1>0, <1>7 DEF Start
  <1> HIDE DEF TypeInv, TypeOK, LoopOK, ProcessInv, StartInv, Starting, RowInv,
               RecordsInv, ReconciledInv
  <1> QED
    BY <1>1, <1>2, <1>3, <1>4, <1>5, <1>6, <1>7
       DEF Next, StartStretch, Execution, EndOfExecution, Boot

\* A lease that has not run out is released and taken over by its owner only.
LEMMA CoverKept ==
    ASSUME IInv, RowInv, RecordsInv, [Next]_vars
    PROVE  CoverInv'
  <1> USE OpsAssumption
      DEF RowInv, RecordsInv, CoverInv, At, GoTo, Idle, Fault, durable, volatile, history
  <1>0. TypeInv /\ TypeInv' /\ ProcessInv /\ StartInv
    BY StepTyped DEF IInv
  <1> USE DEF TypeInv, TypeOK, LoopOK, ProcessInv, StartInv, Starting
  <1>1. CASE AcquireLease
    BY <1>0, <1>1
       DEF AcquireLease, Lease!Acquire, Lease!Acquirable, Lease!Unexpired,
           Lease!NoLease, Holds, Expiry, ProjectOfOp, Lease!LeaseTable,
           Lease!LeaseRow
  <1>2. CASE ReleaseOnError
    BY <1>0, <1>2 DEF ReleaseOnError, Lease!Release, Holds, Expiry, ProjectOfOp
  <1>3. ASSUME NEW o \in Op, Renew(o) PROVE CoverInv'
    BY <1>0, <1>3
       DEF Renew, Lease!Acquire, Lease!Renewable, Holds, Expiry, ProjectOfOp,
           Lease!LeaseTable
  <1>4. CASE FinaliseRejecting
    BY <1>0, <1>4, SMTT(30)
       DEF FinaliseRejecting, Lease!Release, Holds, Expiry, ProjectOfOp
  <1>5. CASE Finalise
    BY <1>0, <1>5, SMTT(30) DEF Finalise, Lease!Release, Holds, Expiry, ProjectOfOp
  <1>6. CASE BootReclaim
    BY <1>0, <1>6
       DEF BootReclaim, Lease!ReclaimExpired, Lease!Unexpired, Holds, Expiry,
           ProjectOfOp, Lease!LeaseTable, Lease!LeaseRow
  <1>7. CASE Tick
    BY <1>0, <1>7 DEF Tick, Holds, Expiry, ProjectOfOp
  <1>8. CASE AcquireConflict \/ InsertRow \/ InsertRefused \/ CompleteKey
          \/ CompleteFails \/ FailKey \/ UnwindFails \/ FinaliseFails
          \/ BootReconcile \/ BootPrune \/ Shutdown \/ StopEarly \/ Close \/ Crash
          \/ UNCHANGED vars
    BY <1>0, <1>8
       DEF AcquireConflict, InsertRow, InsertRefused, CompleteKey, CompleteFails,
           FailKey, UnwindFails, FinaliseFails, BootReconcile, BootPrune, Shutdown,
           StopEarly, Close, Crash,
           vars, Holds, Expiry, ProjectOfOp
  <1>9. ASSUME NEW o \in Op, RenewFails(o) \/ RequestCancellation(o) \/ SettleFails(o)
        PROVE  CoverInv'
    BY <1>0, <1>9
       DEF RenewFails, RequestCancellation, SettleFails, Holds, Expiry, ProjectOfOp
  <1>10. ASSUME NEW o \in Op, NEW k \in Key, NEW t \in Task, Start(o, k, t)
         PROVE  CoverInv'
    BY <1>0, <1>10 DEF Start, Holds, Expiry, ProjectOfOp
  <1>11. ASSUME NEW o \in Op, NEW v \in Verdict, Settle(o, v) PROVE CoverInv'
    BY <1>0, <1>11 DEF Settle, Holds, Expiry, ProjectOfOp
  <1> HIDE DEF TypeInv, TypeOK, LoopOK, ProcessInv, StartInv, Starting, RowInv,
               RecordsInv, CoverInv
  <1> QED
    BY <1>1, <1>2, <1>3, <1>4, <1>5, <1>6, <1>7, <1>8, <1>9, <1>10, <1>11
       DEF Next, StartStretch, Execution, EndOfExecution, Boot

\* When an operation begins, every earlier one of its key has outlived the retention.
LEMMA RunsOncePerKeyKept ==
    ASSUME IInv, RowInv, RecordsInv, [Next]_vars
    PROVE  RunsOncePerKey'
  <1> USE OpsAssumption
      DEF RowInv, RecordsInv, RunsOncePerKey, At, GoTo, Idle, Fault, durable, volatile, history
  <1>0. TypeInv /\ TypeInv' /\ ProcessInv /\ StartInv
    BY StepTyped DEF IInv
  <1> USE DEF TypeInv, TypeOK, LoopOK, ProcessInv, StartInv, Starting
  <1>1. CASE InsertRow
    BY <1>0, <1>1 DEF InsertRow, StretchInv
  <1>2. CASE CompleteKey
    BY <1>0, <1>2 DEF CompleteKey, Idem!Finish, StretchInv, BegunInv
  <1>3. ASSUME NEW o \in Op, NEW v \in Verdict, Settle(o, v) PROVE RunsOncePerKey'
    BY <1>0, <1>3 DEF Settle
  <1>4. ASSUME NEW o \in Op, RequestCancellation(o) PROVE RunsOncePerKey'
    BY <1>0, <1>4 DEF RequestCancellation
  <1>5. CASE BootReconcile
    BY <1>0, <1>5 DEF BootReconcile
  <1>6. CASE AcquireLease \/ AcquireConflict \/ InsertRefused \/ CompleteFails
          \/ ReleaseOnError \/ FailKey \/ UnwindFails \/ EndOfExecution \/ BootReclaim
          \/ BootPrune \/ Shutdown \/ StopEarly \/ Close \/ Crash \/ Tick \/ UNCHANGED vars
    BY <1>0, <1>6
       DEF AcquireLease, AcquireConflict, InsertRefused, CompleteFails,
           ReleaseOnError, FailKey, UnwindFails, EndOfExecution, Finalise,
           FinaliseRejecting, FinaliseFails, Rejects, Deceased, BootReclaim, BootPrune,
           Shutdown, StopEarly, Close, Crash, Tick, vars
  <1>7. ASSUME NEW o \in Op, Renew(o) \/ RenewFails(o) \/ SettleFails(o)
        PROVE  RunsOncePerKey'
    BY <1>0, <1>7 DEF Renew, RenewFails, SettleFails
  <1>8. ASSUME NEW o \in Op, NEW k \in Key, NEW t \in Task, Start(o, k, t)
        PROVE  RunsOncePerKey'
    BY <1>0, <1>8 DEF Start, BegunInv
  <1> HIDE DEF TypeInv, TypeOK, LoopOK, ProcessInv, StartInv, Starting, RowInv,
               RecordsInv, RunsOncePerKey
  <1> QED
    BY <1>1, <1>2, <1>3, <1>4, <1>5, <1>6, <1>7, <1>8
       DEF Next, StartStretch, Execution, EndOfExecution, Boot

\* A row stops to say RUNNING before the execution stops to be active.
LEMMA RunningIsExecutingKept ==
    ASSUME IInv, RowInv, RecordsInv, [Next]_vars
    PROVE  RunningIsExecuting'
  <1> USE OpsAssumption
      DEF RowInv, RecordsInv, RunningIsExecuting, At, GoTo, Idle, Fault, durable, volatile, history
  <1>0. TypeInv /\ TypeInv' /\ ProcessInv /\ StartInv
    BY StepTyped DEF IInv
  <1> USE DEF TypeInv, TypeOK, LoopOK, ProcessInv, StartInv, Starting
  <1>1. CASE InsertRow
    BY <1>0, <1>1 DEF InsertRow, StretchInv
  <1>2. CASE CompleteKey
    BY <1>0, <1>2 DEF CompleteKey, Idem!Finish
  <1>3. ASSUME NEW o \in Op, NEW v \in Verdict, Settle(o, v)
        PROVE  RunningIsExecuting'
    BY <1>0, <1>3 DEF Settle
  <1>4. CASE FinaliseRejecting \/ FinaliseFails
    BY <1>0, <1>4 DEF FinaliseRejecting, FinaliseFails, Rejects, Deceased
  <1>5. CASE Finalise
    BY <1>0, <1>5 DEF Finalise, Lease!Release, StretchInv
  <1>6. ASSUME NEW o \in Op, RequestCancellation(o) PROVE RunningIsExecuting'
    BY <1>0, <1>6 DEF RequestCancellation
  <1>7. CASE BootReconcile
    BY <1>0, <1>7 DEF BootReconcile
  <1>8. CASE BootPrune
    BY <1>0, <1>8 DEF BootPrune, Idem!PruneKeys, Idem!Stale, ReconciledInv
  <1>9. CASE AcquireLease \/ AcquireConflict \/ InsertRefused \/ CompleteFails
          \/ ReleaseOnError \/ FailKey \/ UnwindFails \/ BootReclaim \/ Shutdown
          \/ StopEarly \/ Close \/ Crash \/ Tick \/ UNCHANGED vars
    BY <1>0, <1>9
       DEF AcquireLease, AcquireConflict, InsertRefused, CompleteFails,
           ReleaseOnError, FailKey, UnwindFails, BootReclaim, Shutdown, StopEarly, Close,
           Crash, Deceased, Tick, vars
  <1>10. ASSUME NEW o \in Op, Renew(o) \/ RenewFails(o) \/ SettleFails(o)
         PROVE  RunningIsExecuting'
    BY <1>0, <1>10 DEF Renew, RenewFails, SettleFails
  <1>11. ASSUME NEW o \in Op, NEW k \in Key, NEW t \in Task, Start(o, k, t)
         PROVE  RunningIsExecuting'
    BY <1>0, <1>11 DEF Start
  <1> HIDE DEF TypeInv, TypeOK, LoopOK, ProcessInv, StartInv, Starting, RowInv,
               RecordsInv, RunningIsExecuting
  <1> QED
    BY <1>1, <1>2, <1>3, <1>4, <1>5, <1>6, <1>7, <1>8, <1>9, <1>10, <1>11
       DEF Next, StartStretch, Execution, EndOfExecution, Boot

-----------------------------------------------------------------------------
(* Theorems *)

\* Keys, rows and leases agree: the inductive invariant of the three properties below.
THEOREM RecordsInvariance == Spec => []RecordsInv
  <1>1. Init => OutcomeInv
    BY InitIInv, InitOutcome DEF OutcomeInv
  <1>2. Init => RecordsInv
    BY OpsAssumption
       DEF Init, RecordsInv, StretchInv, RecordInv, BegunInv, ReconciledInv,
           CoverInv, RunsOncePerKey, RunningIsExecuting, Starting, Idle, NoRow,
           Idem!NoRecord
  <1>3. OutcomeInv /\ [Next]_vars => OutcomeInv'
    BY StepIInv, StepOutcome DEF OutcomeInv
  <1>4. OutcomeInv /\ RecordsInv /\ [Next]_vars => RecordsInv'
    <2> SUFFICES ASSUME IInv, RowInv, RecordsInv, [Next]_vars PROVE RecordsInv'
      BY DEF OutcomeInv
    <2> QED
      BY StretchKept, RecordKept, BegunKept, ReconciledKept, CoverKept,
         RunsOncePerKeyKept, RunningIsExecutingKept
         DEF RecordsInv
  <1> QED
    BY <1>1, <1>2, <1>3, <1>4, PTL DEF Spec

\* A key runs its work once: two operations begun under one key lie more than the
\* retention apart, through retries, crashes, failed starts and pruning.
THEOREM KeysRunOnce == Spec => []RunsOncePerKey
  BY RecordsInvariance, PTL DEF RecordsInv

\* What a completed key replays is the begun operation of that key and task.
THEOREM ReplaysAreOwn == Spec => []ReplayIsOwnRow
  <1>1. RecordsInv => ReplayIsOwnRow
    BY DEF RecordsInv, RecordInv, BegunInv, ReplayIsOwnRow
  <1> QED
    BY <1>1, RecordsInvariance, PTL

\* An agent that accepts work executes every begun operation that says RUNNING:
\* neither the reconciliation nor an execution that fails leaves a phantom there.
THEOREM NoPhantoms == Spec => []RunningIsExecuting
  BY RecordsInvariance, PTL DEF RecordsInv

\* A row is inserted by its own start only.
LEMMA RowInsertion ==
    ASSUME OutcomeInv, [Next]_vars, NEW o \in Op,
           ops[o].status = "ABSENT", ops'[o].status = "RUNNING"
    PROVE  InsertRow /\ loop.op = o
  <1>0. TypeInv /\ ProcessInv /\ RowInv
    BY DEF OutcomeInv, IInv
  <1> USE DEF TypeInv, TypeOK
  <1>1. CASE ops' = ops
    BY <1>1
  <1>2. CASE InsertRow
    BY <1>0, <1>2 DEF InsertRow
  <1>3. ASSUME NEW u \in Op, NEW v \in Verdict, Settle(u, v) PROVE FALSE
    BY <1>0, <1>3 DEF Settle, Verdict
  <1>4. ASSUME NEW u \in Op, RequestCancellation(u) PROVE FALSE
    BY <1>0, <1>4 DEF RequestCancellation
  <1>5. CASE BootReconcile
    BY <1>0, <1>5 DEF BootReconcile
  <1>6. CASE StartStretch
    BY <1>2, <1>6
       DEF StartStretch, AcquireLease, AcquireConflict, InsertRefused, CompleteKey,
           CompleteFails, ReleaseOnError, FailKey, UnwindFails, durable
  <1>7. ASSUME NEW u \in Op, Renew(u) \/ RenewFails(u) \/ SettleFails(u)
        PROVE  ops' = ops
    BY <1>7 DEF Renew, RenewFails, SettleFails, durable
  <1>8. ASSUME NEW u \in Op, NEW k \in Key, NEW t \in Task, Start(u, k, t)
        PROVE  ops' = ops
    BY <1>8 DEF Start
  <1>9. ASSUME \/ EndOfExecution \/ BootReclaim \/ BootPrune \/ Shutdown
               \/ StopEarly \/ Close
               \/ Crash \/ Tick \/ UNCHANGED vars
        PROVE  ops' = ops
    BY <1>9
       DEF EndOfExecution, Finalise,
           FinaliseRejecting, FinaliseFails, Rejects, Deceased, BootReclaim, BootPrune, Shutdown, StopEarly,
           Close, Crash, Tick, vars,
           durable
  <1> QED
    BY <1>1, <1>2, <1>3, <1>4, <1>5, <1>6, <1>7, <1>8, <1>9
       DEF Next, Execution, EndOfExecution, Boot

\* A crash does not free a project: its next row waits for the lease of the
\* interrupted work to run out.
THEOREM CrashesKeepLeases == Spec => CrashKeepsLease
  <1> DEFINE Kept == \A o \in Op :
         (ops[o].status = "ABSENT" /\ ops'[o].status = "RUNNING") =>
            \A u \in Op \ {o} :
               (/\ ops[u].status \in {"RUNNING", "UNKNOWN"}
                /\ ProjectOfOp(u) = ProjectOfOp(o)) => cover[u] <= now
  <1>1. OutcomeInv /\ RecordsInv /\ [Next]_vars => Kept
    <2> SUFFICES ASSUME OutcomeInv, RecordsInv, [Next]_vars,
                        NEW o \in Op, ops[o].status = "ABSENT", ops'[o].status = "RUNNING",
                        NEW u \in Op \ {o}, ProjectOfOp(u) = ProjectOfOp(o)
                 PROVE  cover[u] <= now
      OBVIOUS
    <2>1. Holds(o)
      BY RowInsertion DEF InsertRow, At, OutcomeInv, IInv, StartInv
    <2>2. ~Holds(u)
      BY <2>1 DEF Holds
    <2> QED
      BY <2>2 DEF OutcomeInv, IInv, TypeInv, TypeOK, RecordsInv, CoverInv
  <1>2. Init => OutcomeInv
    BY InitIInv, InitOutcome DEF OutcomeInv
  <1>3. OutcomeInv /\ [Next]_vars => OutcomeInv'
    BY StepIInv, StepOutcome DEF OutcomeInv
  <1> QED
    BY <1>1, <1>2, <1>3, RecordsInvariance, PTL DEF Spec, CrashKeepsLease

=============================================================================
