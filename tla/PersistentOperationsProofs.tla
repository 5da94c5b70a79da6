--------------------- MODULE PersistentOperationsProofs ---------------------
(***************************************************************************)
(* Proofs about PersistentOperations, for every set of projects, keys,     *)
(* tasks and operations and for every bound on time, faults and crashes.   *)
(***************************************************************************)
EXTENDS PersistentOperations, TLAPS

-----------------------------------------------------------------------------
(* Types *)

\* A stretch under way works for an operation that has been given a key, and so
\* does every execution.
LoopOK ==
    /\ loop.pc # "idle" => loop.op \in Op /\ origin[loop.op] \in Key
    /\ \A o \in active : origin[o] \in Key

TypeInv == TypeOK /\ LoopOK

\* The operators of the two stores keep their tables well typed.
LEMMA AcquireTyped ==
    ASSUME NEW table \in Lease!LeaseTable, NEW p \in Project, NEW o \in Op,
           NEW t \in Nat, NEW ttl \in Nat
    PROVE  Lease!Acquire(table, p, o, t, ttl) \in Lease!LeaseTable
BY DEF Lease!Acquire, Lease!LeaseTable, Lease!LeaseRow

LEMMA ReleaseTyped ==
    ASSUME NEW table \in Lease!LeaseTable, NEW p, NEW o
    PROVE  Lease!Release(table, p, o) \in Lease!LeaseTable
BY DEF Lease!Release, Lease!LeaseTable, Lease!LeaseRow, Lease!NoLease

LEMMA ReclaimTyped ==
    ASSUME NEW table \in Lease!LeaseTable, NEW t \in Nat
    PROVE  Lease!ReclaimExpired(table, t) \in Lease!LeaseTable
BY DEF Lease!ReclaimExpired, Lease!LeaseTable, Lease!LeaseRow, Lease!NoLease

LEMMA BeginTyped ==
    ASSUME NEW table \in Idem!KeyTable, NEW k \in Key, NEW t \in Task, NEW n \in Nat
    PROVE  Idem!Begin(table, k, t, n) \in Idem!KeyTable
BY DEF Idem!Begin, Idem!KeyTable, Idem!KeyRecord, Idem!KeyStatus

LEMMA FinishTyped ==
    ASSUME NEW table \in Idem!KeyTable, NEW k \in Key,
           NEW s \in Idem!KeyStatus, NEW o \in Op \cup {NoOp}, NEW n \in Nat
    PROVE  Idem!Finish(table, k, s, o, n) \in Idem!KeyTable
BY DEF Idem!Finish, Idem!KeyTable, Idem!KeyRecord

LEMMA PruneTyped ==
    ASSUME NEW table \in Idem!KeyTable, NEW n \in Nat, NEW r \in Nat
    PROVE  Idem!PruneKeys(table, n, r) \in Idem!KeyTable
BY DEF Idem!PruneKeys, Idem!KeyTable, Idem!KeyRecord, Idem!KeyStatus, Idem!NoRecord

\* A rejection ends the execution at least, and the process unless it drains.
LEMMA RejectsEffect ==
    ASSUME TypeOK, NEW o \in Op, Rejects(o)
    PROVE  /\ mode' \in Mode /\ loop' = Idle /\ renewAt' \in [Op -> Nat]
           /\ (mode' = mode /\ active' = active \ {o}) \/ active' = {}
           /\ \A u \in active' : u \in active /\ u # o /\ renewAt'[u] = renewAt[u]
<1>1. CASE mode = "draining"
      BY <1>1 DEF Rejects, TypeOK
<1>2. CASE mode # "draining"
      BY <1>2 DEF Rejects, TypeOK, Deceased, Mode, Dead, NoTimers
<1>3. QED
      BY <1>1, <1>2

LEMMA InitTyped == Init => TypeInv
BY OpsAssumption
   DEF Init, TypeInv, TypeOK, LoopOK, Mode, Dead, Booting, Serving, Stretch, Pc, Idle,
       NoRow, OpRow, OpStatus, NoTimers, Lease!NoLease, Lease!LeaseTable,
       Lease!LeaseRow, Idem!NoRecord, Idem!KeyTable, Idem!KeyRecord, Idem!KeyStatus

LEMMA StepTyped == TypeInv /\ [Next]_vars => TypeInv'
<1> SUFFICES ASSUME TypeInv, [Next]_vars PROVE TypeInv'
    OBVIOUS
<1> USE OpsAssumption
<1> USE DEF TypeInv, LoopOK, At, GoTo, ProjectOfOp
<1>1. ASSUME NEW o \in Op, NEW k \in Key, NEW t \in Task, Start(o, k, t)
      PROVE  TypeInv'
  <2>1. keys' \in Idem!KeyTable
        BY <1>1, BeginTyped DEF Start, TypeOK
  <2>2. QED
        BY <1>1, <2>1 DEF Start, TypeOK, Stretch, Pc
<1>2. ASSUME StartStretch PROVE TypeInv'
  <2>1. CASE AcquireLease
    <3>1. leases' \in Lease!LeaseTable
          BY <2>1, AcquireTyped DEF AcquireLease, TypeOK
    <3>2. QED
          BY <2>1, <3>1 DEF AcquireLease, TypeOK, Stretch, Pc
  <2>2. CASE AcquireConflict
        BY <2>2 DEF AcquireConflict, TypeOK, Stretch, Pc, durable, history
  <2>3. CASE InsertRow
    <3>1. ops' \in [Op -> OpRow]
          BY <2>3 DEF InsertRow, TypeOK, OpRow, OpStatus, Stretch
    <3>2. QED
          BY <2>3, <3>1 DEF InsertRow, TypeOK, Stretch, Pc, history
  <2>4. CASE InsertRefused
        BY <2>4 DEF InsertRefused, TypeOK, Stretch, Pc, durable, history
  <2>5. CASE CompleteKey
    <3>1. keys' \in Idem!KeyTable
          BY <2>5, FinishTyped DEF CompleteKey, TypeOK, Idem!KeyStatus
    <3>2. QED
          BY <2>5, <3>1 DEF CompleteKey, TypeOK, Stretch, Pc, Idle
  <2>6. CASE CompleteFails
        BY <2>6 DEF CompleteFails, Fault, TypeOK, Stretch, Pc, durable, history
  <2>7. CASE ReleaseOnError
    <3>1. leases' \in Lease!LeaseTable
          BY <2>7, ReleaseTyped DEF ReleaseOnError, TypeOK
    <3>2. QED
          BY <2>7, <3>1 DEF ReleaseOnError, TypeOK, Stretch, Pc
  <2>8. CASE FailKey
    <3>1. keys' \in Idem!KeyTable
          BY <2>8, FinishTyped DEF FailKey, TypeOK, Idem!KeyStatus
    <3>2. QED
          BY <2>8, <3>1 DEF FailKey, TypeOK, Stretch, Pc, Idle, history
  <2>9. CASE UnwindFails
        BY <2>9 DEF UnwindFails, Fault, TypeOK, Stretch, Pc, Idle, durable, history
  <2>10. QED
        BY <1>2, <2>1, <2>2, <2>3, <2>4, <2>5, <2>6, <2>7, <2>8, <2>9
        DEF StartStretch
<1>3. ASSUME Execution PROVE TypeInv'
  <2>1. ASSUME NEW o \in Op, Renew(o) PROVE TypeInv'
    <3>1. leases' \in Lease!LeaseTable
          BY <2>1, AcquireTyped DEF Renew, TypeOK
    <3>2. QED
          BY <2>1, <3>1 DEF Renew, TypeOK
  <2>2. ASSUME NEW o \in Op, RenewFails(o) PROVE TypeInv'
        BY <2>2 DEF RenewFails, Fault, TypeOK, durable, history
  <2>3. ASSUME NEW o \in Op, SettleFails(o) PROVE TypeInv'
        BY <2>3 DEF SettleFails, Fault, TypeOK, Stretch, Pc, durable, history
  <2>4. ASSUME NEW o \in Op, NEW v \in Verdict, Settle(o, v) PROVE TypeInv'
    <3>1. ops' \in [Op -> OpRow]
          BY <2>4 DEF Settle, TypeOK, OpRow, OpStatus, Verdict
    <3>2. active' \subseteq Op /\ origin' = origin
          BY <2>4 DEF Settle, TypeOK, history
    <3>3. loop'.pc # "idle" => loop'.op \in Op /\ origin'[loop'.op] \in Key
          BY <2>4, <3>2 DEF Settle, TypeOK
    <3>4. QED
          BY <2>4, <3>1, <3>2, <3>3 DEF Settle, TypeOK, Stretch, Pc, history
  <2>5. CASE Finalise
    <3>1. leases' \in Lease!LeaseTable
          BY <2>5, ReleaseTyped DEF Finalise, TypeOK
    <3>2. QED
          BY <2>5, <3>1 DEF Finalise, TypeOK, Stretch, Pc, Idle
  <2>6. CASE FinaliseRejecting
    <3>1. leases' \in Lease!LeaseTable
          BY <2>6, ReleaseTyped DEF FinaliseRejecting, TypeOK
    <3>2. QED
          BY <2>6, <3>1, RejectsEffect DEF FinaliseRejecting, TypeOK, Stretch, Pc, Idle
  <2>7. CASE FinaliseFails
        BY <2>7, RejectsEffect
        DEF FinaliseFails, Fault, TypeOK, Stretch, Pc, Idle, durable, history
  <2>8. QED
        BY <1>3, <2>1, <2>2, <2>3, <2>4, <2>5, <2>6, <2>7
        DEF Execution, EndOfExecution
<1>4. ASSUME NEW o \in Op, RequestCancellation(o) PROVE TypeInv'
  <2>1. ops' \in [Op -> OpRow]
        BY <1>4 DEF RequestCancellation, TypeOK, OpRow
  <2>2. QED
        BY <1>4, <2>1 DEF RequestCancellation, TypeOK, volatile, history
<1>5. ASSUME Boot PROVE TypeInv'
  <2>1. CASE BootReclaim
    <3>1. leases' \in Lease!LeaseTable
          BY <2>1, ReclaimTyped DEF BootReclaim, TypeOK
    <3>2. QED
          BY <2>1, <3>1 DEF BootReclaim, TypeOK, Mode, Dead, Booting, history
  <2>2. CASE BootReconcile
    <3>1. ops' \in [Op -> OpRow]
          BY <2>2 DEF BootReconcile, TypeOK, OpRow, OpStatus
    <3>2. QED
          BY <2>2, <3>1 DEF BootReconcile, TypeOK, Mode, Dead, Booting, history
  <2>3. CASE BootPrune
    <3>1. keys' \in Idem!KeyTable
          BY <2>3, PruneTyped DEF BootPrune, TypeOK
    <3>2. QED
          BY <2>3, <3>1 DEF BootPrune, TypeOK, Mode, Dead, Serving, history
  <2>4. QED
        BY <1>5, <2>1, <2>2, <2>3 DEF Boot
<1>6. CASE Shutdown
      BY <1>6 DEF Shutdown, TypeOK, Mode, Dead, Serving, durable, history
<1>7. CASE Close
      BY <1>7 DEF Close, TypeOK, Mode, Dead, durable, history
<1>8. CASE Crash
      BY <1>8 DEF Crash, Deceased, TypeOK, Mode, Dead, Stretch, Pc, Idle, NoTimers, durable, history
<1>9. CASE Tick
      BY <1>9 DEF Tick, TypeOK, durable, volatile, history
<1>10. CASE UNCHANGED vars
       BY <1>10 DEF vars, TypeOK, durable, volatile, history
<1>11. CASE StopEarly
       BY <1>11 DEF StopEarly, TypeOK, Mode, Dead, durable, history
<1>12. QED
       BY <1>1, <1>2, <1>3, <1>4, <1>5, <1>6, <1>7, <1>8, <1>9, <1>10, <1>11 DEF Next

\* Every reachable state of the operation manager is well typed: no statement of
\* start(), execute() or the startup writes a row outside its columns' values.
THEOREM TypeCorrect == Spec => []TypeOK
<1>1. TypeInv => TypeOK
      BY DEF TypeInv
<1>2. QED
      BY InitTyped, StepTyped, <1>1, PTL DEF Spec
-----------------------------------------------------------------------------
(* Mutual exclusion *)

\* Lateness a renewal timer may add to the age of a lease, per missed renewal.
Slack == RenewEvery + MaxLate

Holds(o) == leases[ProjectOfOp(o)].owner = o

Expiry(o) == leases[ProjectOfOp(o)].expiresAt

\* No execution and no stretch outlives its process, and faults are bounded.
ProcessInv ==
    /\ mode \notin Serving => active = {} /\ loop.pc = "idle"
    /\ faults <= MaxFaults

\* A start that holds its lease has taken it in this very stretch, and a start
\* is not an execution yet.
StartInv ==
    /\ loop.pc \in {"acquire", "insert", "complete", "release", "failKey"} =>
          loop.op \notin active
    /\ loop.pc \in {"insert", "complete"} =>
          Holds(loop.op) /\ Expiry(loop.op) >= now + LeaseTtl

\* An execution holds its lease, its timer is not overdue by more than MaxLate,
\* and every missed renewal has cost the lease one slack at most.
RenewalInv ==
    \A o \in active :
        /\ Holds(o)
        /\ now <= renewAt[o] + MaxLate
        /\ renewAt[o] + LeaseTtl <= Expiry(o) + RenewEvery + faults * Slack

IInv == TypeInv /\ ProcessInv /\ StartInv /\ RenewalInv

\* The arithmetic of missed renewals.
LEMMA SlackArithmetic ==
    ASSUME NEW f \in Nat
    PROVE  /\ Slack \in Nat
           /\ f * Slack \in Nat
           /\ (f + 1) * Slack = f * Slack + Slack
           /\ f <= MaxFaults => f * Slack + Slack < LeaseTtl
<1>1. Slack \in Nat
      BY OpsAssumption DEF Slack
<1>2. \A a, b \in Nat : a * b \in Nat /\ (a + 1) * b = a * b + b
      BY SMT
<1>3. ASSUME f <= MaxFaults PROVE f * Slack + Slack < LeaseTtl
  <2>1. PICK d \in Nat : MaxFaults = f + d
        BY <1>3, OpsAssumption
  <2>2. \A a, b, c \in Nat : (a + b) * c = a * c + b * c
        BY SMT
  <2>3. (MaxFaults + 1) * Slack = MaxFaults * Slack + Slack
        BY <1>1, <1>2, OpsAssumption
  <2>4. MaxFaults * Slack = f * Slack + d * Slack
        BY <1>1, <2>1, <2>2
  <2>5. f * Slack \in Nat /\ d * Slack \in Nat
        BY <1>1, <1>2, <2>1
  <2>6. (MaxFaults + 1) * Slack < LeaseTtl
        BY TimerAssumption DEF Slack
  <2>7. QED
        BY <1>1, <2>3, <2>4, <2>5, <2>6, OpsAssumption
<1>4. QED
      BY <1>1, <1>2, <1>3

\* Hence the lease of an execution has not run out.
LEMMA ActiveUnexpired ==
    ASSUME TypeInv, ProcessInv, RenewalInv, NEW o \in active
    PROVE  Expiry(o) \in Nat /\ Expiry(o) > now
<1>1. /\ now \in Nat /\ renewAt[o] \in Nat /\ faults \in Nat /\ faults <= MaxFaults
      /\ Expiry(o) \in Nat
  <2>1. o \in Op /\ ProjectOfOp(o) \in Project
        BY OpsAssumption DEF TypeInv, TypeOK, LoopOK, ProjectOfOp
  <2>2. QED
        BY <2>1 DEF TypeInv, TypeOK, ProcessInv, Expiry, Lease!LeaseTable, Lease!LeaseRow
<1>2. now <= renewAt[o] + MaxLate
      /\ renewAt[o] + LeaseTtl <= Expiry(o) + RenewEvery + faults * Slack
      BY DEF RenewalInv
<1>3. faults * Slack \in Nat /\ faults * Slack + Slack < LeaseTtl
      BY <1>1, SlackArithmetic
<1>4. Slack = RenewEvery + MaxLate
      BY DEF Slack
<1>5. HIDE DEF Slack
<1>6. QED
      BY <1>1, <1>2, <1>3, <1>4, OpsAssumption

\* So nobody can acquire the lease of a project that is being worked on.
LEMMA AcquirableIsFree ==
    ASSUME TypeInv, ProcessInv, RenewalInv, NEW o \in Op \ active, NEW u \in active,
           Lease!Acquirable(leases[ProjectOfOp(o)], o, now)
    PROVE  ProjectOfOp(u) # ProjectOfOp(o)
<1> SUFFICES ASSUME ProjectOfOp(u) = ProjectOfOp(o) PROVE FALSE
    OBVIOUS
<1>1. leases[ProjectOfOp(o)].owner = u /\ u # o /\ u \in Op
      BY DEF RenewalInv, Holds, TypeInv, TypeOK
<1>2. leases[ProjectOfOp(o)].expiresAt > now
      BY ActiveUnexpired DEF Expiry
<1>3. leases[ProjectOfOp(o)] # Lease!NoLease
      BY <1>1, OpsAssumption DEF Lease!NoLease
<1>4. QED
      BY <1>1, <1>2, <1>3 DEF Lease!Acquirable, Lease!Unexpired

LEMMA InitIInv == Init => IInv
<1> SUFFICES ASSUME Init PROVE IInv
    OBVIOUS
<1>1. TypeInv
      BY InitTyped
<1>2. ProcessInv /\ StartInv /\ RenewalInv
      BY OpsAssumption DEF Init, ProcessInv, StartInv, RenewalInv, Idle
<1>3. QED
      BY <1>1, <1>2 DEF IInv

\* Steps that leave the leases and timers of what goes on executing alone.
LEMMA RenewalKept ==
    ASSUME TypeInv, RenewalInv, now' = now, faults' \in {faults, faults + 1},
           active' \subseteq active,
           \A u \in active' : /\ origin'[u] = origin[u] /\ renewAt'[u] = renewAt[u]
                              /\ leases'[ProjectOfOp(u)] = leases[ProjectOfOp(u)]
    PROVE  RenewalInv'
<1> SUFFICES ASSUME NEW u \in active'
             PROVE  /\ Holds(u)'
                    /\ now' <= renewAt'[u] + MaxLate
                    /\ renewAt'[u] + LeaseTtl
                          <= Expiry(u)' + RenewEvery + faults' * Slack
    BY DEF RenewalInv, Slack
<1>1. u \in active /\ u \in Op /\ ProjectOfOp(u) \in Project
      BY OpsAssumption DEF TypeInv, TypeOK, LoopOK, ProjectOfOp
<1>2. ProjectOfOp(u)' = ProjectOfOp(u)
      BY DEF ProjectOfOp
<1>3. Holds(u)' /\ Expiry(u)' = Expiry(u) /\ Expiry(u) \in Nat
      BY <1>1, <1>2
      DEF RenewalInv, Holds, Expiry, TypeInv, TypeOK, Lease!LeaseTable, Lease!LeaseRow
<1>4. faults * Slack <= faults' * Slack /\ faults * Slack \in Nat
      /\ faults' * Slack \in Nat
  <2>1. faults \in Nat
        BY DEF TypeInv, TypeOK
  <2>2. faults * Slack \in Nat /\ (faults + 1) * Slack = faults * Slack + Slack
        /\ Slack \in Nat
        BY <2>1, SlackArithmetic
  <2>3. CASE faults' = faults
        BY <2>2, <2>3
  <2>4. CASE faults' = faults + 1
    <3>1. faults' * Slack = faults * Slack + Slack
          BY <2>2, <2>4
    <3>2. QED
          BY <2>2, <3>1
  <2>5. QED
        BY <2>3, <2>4
<1>5. /\ now <= renewAt[u] + MaxLate
      /\ renewAt[u] + LeaseTtl <= Expiry(u) + RenewEvery + faults * Slack
      /\ renewAt[u] \in Nat
      BY <1>1 DEF RenewalInv, TypeInv, TypeOK
<1>6. QED
      BY <1>3, <1>4, <1>5, OpsAssumption

LEMMA StepIInv == IInv /\ [Next]_vars => IInv'
<1> SUFFICES ASSUME IInv, [Next]_vars PROVE IInv'
    OBVIOUS
<1> USE OpsAssumption
<1>0. TypeInv /\ TypeInv' /\ ProcessInv /\ StartInv /\ RenewalInv
      BY StepTyped DEF IInv
<1>a. /\ now \in Nat /\ faults \in Nat /\ active \subseteq Op
      /\ \A u \in active : origin[u] \in Key /\ ProjectOfOp(u) \in Project
      /\ loop.pc # "idle" => loop.op \in Op /\ ProjectOfOp(loop.op) \in Project
      BY <1>0 DEF TypeInv, TypeOK, LoopOK, ProjectOfOp
<1>b. ASSUME ProcessInv', StartInv', RenewalInv' PROVE IInv'
      BY <1>0, <1>b DEF IInv
<1>1. ASSUME NEW o \in Op, NEW k \in Key, NEW t \in Task, Start(o, k, t)
      PROVE  IInv'
  <2>1. o \notin active
        BY <1>1, <1>a DEF Start
  <2>2. RenewalInv'
        BY <1>0, <1>1, <1>a, <2>1, RenewalKept DEF Start, TypeInv, TypeOK
  <2>3. ProcessInv' /\ StartInv'
        BY <1>0, <1>1, <2>1 DEF Start, ProcessInv, StartInv, Serving
  <2>4. QED
        BY <1>b, <2>2, <2>3
<1>2. ASSUME StartStretch PROVE IInv'
  <2>1. CASE AcquireLease
    <3> DEFINE o == loop.op
               p == ProjectOfOp(loop.op)
    <3>1. /\ o \in Op /\ o \notin active /\ p \in Project
          /\ Lease!Acquirable(leases[p], o, now)
          /\ leases' = [leases EXCEPT ![p] = [owner |-> o, expiresAt |-> now + LeaseTtl]]
          BY <1>0, <1>a, <2>1 DEF AcquireLease, At, StartInv, Lease!Acquire
    <3>2. \A u \in active : ProjectOfOp(u) # p
          BY <1>0, <3>1, AcquirableIsFree
    <3>3. RenewalInv'
          BY <1>0, <2>1, <3>1, <3>2, RenewalKept
          DEF AcquireLease, TypeInv, TypeOK, Lease!LeaseTable
    <3>4. /\ loop'.pc = "insert" /\ loop'.op = o /\ p' = p
          BY <1>0, <2>1 DEF AcquireLease, GoTo, TypeInv, TypeOK, Stretch, ProjectOfOp
    <3>5. Holds(loop.op)' /\ Expiry(loop.op)' = now' + LeaseTtl
          BY <1>0, <2>1, <3>1, <3>4
          DEF AcquireLease, Holds, Expiry, ProjectOfOp, TypeInv, TypeOK, Lease!LeaseTable
    <3>6. StartInv'
          BY <1>a, <2>1, <3>1, <3>4, <3>5 DEF AcquireLease, StartInv
    <3>7. ProcessInv'
          BY <1>0, <2>1 DEF AcquireLease, ProcessInv, At
    <3>8. QED
          BY <1>b, <3>3, <3>6, <3>7
  <2>2. CASE AcquireConflict \/ InsertRow \/ InsertRefused \/ CompleteFails
    <3>1. UNCHANGED <<now, mode, leases, active, renewAt, origin>>
          /\ faults' \in {faults, faults + 1} /\ faults' <= MaxFaults
          BY <1>0, <1>a, <2>2 DEF AcquireConflict, InsertRow, InsertRefused,
             CompleteFails, Fault, durable, history, ProcessInv
    <3>2. RenewalInv'
          BY <1>0, <3>1, RenewalKept
    <3>3. /\ loop'.op = loop.op /\ loop.pc # "idle"
          /\ loop'.pc \in {"failKey", "complete", "release"}
          /\ loop'.pc = "complete" => loop.pc = "insert"
          /\ loop.pc \in {"acquire", "insert", "complete"}
          BY <1>0, <2>2 DEF AcquireConflict, InsertRow, InsertRefused,
             CompleteFails, GoTo, At, TypeInv, TypeOK, Stretch
    <3>4. StartInv'
          BY <1>0, <3>1, <3>3 DEF StartInv, Holds, Expiry, ProjectOfOp
    <3>5. ProcessInv'
          BY <1>0, <3>1, <3>3 DEF ProcessInv
    <3>6. QED
          BY <1>b, <3>2, <3>4, <3>5
  <2>3. CASE CompleteKey
    <3>0. PICK o \in Op : o = loop.op
          BY <1>a, <2>3 DEF CompleteKey, At
    <3>1. /\ loop.pc = "complete" /\ loop'.pc = "idle"
          /\ UNCHANGED <<now, mode, leases, origin, faults>>
          /\ active' = active \cup {o}
          /\ renewAt' = [renewAt EXCEPT ![o] = now + RenewEvery]
          BY <2>3, <3>0 DEF CompleteKey, At, Idle
    <3>2. /\ o \in Op \ active /\ Holds(o) /\ Expiry(o) >= now + LeaseTtl
          /\ Expiry(o) \in Nat
          BY <1>0, <1>a, <3>0, <3>1
          DEF StartInv, Expiry, TypeInv, TypeOK, Lease!LeaseTable, Lease!LeaseRow
    <3>3. Holds(o)' /\ Expiry(o)' = Expiry(o)
          BY <3>1, <3>2 DEF Holds, Expiry, ProjectOfOp
    <3>4. renewAt'[o] = now + RenewEvery
          BY <1>0, <3>1, <3>2 DEF TypeInv, TypeOK
    <3>5. faults * Slack \in Nat /\ faults' * Slack = faults * Slack
          BY <1>a, <3>1, SlackArithmetic
    <3>6. /\ now' <= renewAt'[o] + MaxLate
          /\ renewAt'[o] + LeaseTtl <= Expiry(o)' + RenewEvery + faults' * Slack
          BY <1>a, <3>1, <3>2, <3>3, <3>4, <3>5
    <3>7. ASSUME NEW u \in active
          PROVE  /\ Holds(u)' /\ now' <= renewAt'[u] + MaxLate
                 /\ renewAt'[u] + LeaseTtl <= Expiry(u)' + RenewEvery + faults' * Slack
      <4>1. renewAt'[u] = renewAt[u]
            BY <1>0, <1>a, <3>1, <3>2 DEF TypeInv, TypeOK
      <4>2. QED
            BY <1>0, <3>1, <3>5, <4>1 DEF RenewalInv, Holds, Expiry, ProjectOfOp
    <3>8. RenewalInv'
          BY <3>1, <3>3, <3>6, <3>7 DEF RenewalInv, Slack
    <3>9. StartInv' /\ ProcessInv'
          BY <1>0, <3>1 DEF StartInv, ProcessInv
    <3>10. QED
          BY <1>b, <3>8, <3>9
  <2>4. CASE ReleaseOnError
    <3>1. /\ loop.pc = "release" /\ loop'.pc = "failKey" /\ loop'.op = loop.op
          /\ leases' = Lease!Release(leases, ProjectOfOp(loop.op), loop.op)
          /\ UNCHANGED <<now, mode, active, renewAt, origin, faults>>
          BY <1>0, <2>4 DEF ReleaseOnError, At, GoTo, TypeInv, TypeOK, Stretch
    <3>2. ASSUME NEW u \in active
          PROVE  leases'[ProjectOfOp(u)] = leases[ProjectOfOp(u)]
      <4>1. leases[ProjectOfOp(u)].owner = u /\ u # loop.op
            BY <1>0, <3>1 DEF RenewalInv, Holds, StartInv
      <4>2. QED
            BY <1>0, <1>a, <3>1, <4>1
            DEF Lease!Release, TypeInv, TypeOK, Lease!LeaseTable
    <3>3. RenewalInv'
          BY <1>0, <3>1, <3>2, RenewalKept
    <3>4. StartInv' /\ ProcessInv'
          BY <1>0, <3>1 DEF StartInv, ProcessInv
    <3>5. QED
          BY <1>b, <3>3, <3>4
  <2>5. CASE FailKey \/ UnwindFails
    <3>1. /\ loop'.pc = "idle"
          /\ UNCHANGED <<now, mode, leases, active, renewAt, origin>>
          /\ faults' \in {faults, faults + 1} /\ faults' <= MaxFaults
          BY <1>0, <1>a, <2>5
          DEF FailKey, UnwindFails, Fault, Idle, durable, history, ProcessInv
    <3>2. RenewalInv'
          BY <1>0, <3>1, RenewalKept
    <3>3. StartInv' /\ ProcessInv'
          BY <1>0, <3>1 DEF StartInv, ProcessInv
    <3>4. QED
          BY <1>b, <3>2, <3>3
  <2>6. QED
        BY <1>2, <2>1, <2>2, <2>3, <2>4, <2>5 DEF StartStretch
<1>3. ASSUME Execution PROVE IInv'
  <2>1. ASSUME NEW o \in Op, Renew(o) PROVE IInv'
    <3> DEFINE p == ProjectOfOp(o)
    <3>1. /\ o \in active /\ loop.pc = "idle" /\ p \in Project
          /\ UNCHANGED <<now, mode, loop, active, origin, faults>>
          /\ renewAt' = [renewAt EXCEPT ![o] = now + RenewEvery]
          BY <1>a, <2>1 DEF Renew, At
    <3>2. leases' = [leases EXCEPT ![p] = [owner |-> o, expiresAt |-> now + LeaseTtl]]
          BY <1>0, <2>1, <3>1
          DEF Renew, RenewalInv, Holds, Lease!Renewable, Lease!Acquire
    <3>3. faults * Slack \in Nat /\ faults' * Slack = faults * Slack
          BY <1>a, <3>1, SlackArithmetic
    <3>4. /\ Holds(o)' /\ Expiry(o)' = now + LeaseTtl /\ renewAt'[o] = now + RenewEvery
          BY <1>0, <1>a, <3>1, <3>2
          DEF Holds, Expiry, ProjectOfOp, TypeInv, TypeOK, Lease!LeaseTable
    <3>5. /\ now' <= renewAt'[o] + MaxLate
          /\ renewAt'[o] + LeaseTtl <= Expiry(o)' + RenewEvery + faults' * Slack
          BY <1>a, <3>1, <3>3, <3>4
    <3>6. ASSUME NEW u \in active, u # o
          PROVE  /\ Holds(u)' /\ now' <= renewAt'[u] + MaxLate
                 /\ renewAt'[u] + LeaseTtl <= Expiry(u)' + RenewEvery + faults' * Slack
      <4>1. ProjectOfOp(u) # p
            BY <1>0, <3>1, <3>6 DEF RenewalInv, Holds
      <4>2. /\ leases'[ProjectOfOp(u)] = leases[ProjectOfOp(u)]
            /\ renewAt'[u] = renewAt[u]
            BY <1>0, <1>a, <3>1, <3>2, <3>6, <4>1
            DEF TypeInv, TypeOK, Lease!LeaseTable
      <4>3. QED
            BY <1>0, <3>1, <3>3, <4>2 DEF RenewalInv, Holds, Expiry, ProjectOfOp
    <3>7. RenewalInv'
          BY <3>1, <3>4, <3>5, <3>6 DEF RenewalInv, Slack
    <3>8. StartInv' /\ ProcessInv'
          BY <1>0, <3>1 DEF StartInv, ProcessInv
    <3>9. QED
          BY <1>b, <3>7, <3>8
  <2>2. ASSUME NEW o \in Op, RenewFails(o) PROVE IInv'
    <3>1. /\ o \in active /\ loop.pc = "idle" /\ renewAt[o] <= now
          /\ UNCHANGED <<now, mode, loop, active, origin, leases>>
          /\ renewAt' = [renewAt EXCEPT ![o] = now + RenewEvery]
          /\ faults < MaxFaults /\ faults' = faults + 1
          BY <2>2 DEF RenewFails, At, Fault, durable, history
    <3>2. /\ faults * Slack \in Nat /\ Slack \in Nat
          /\ faults' * Slack = faults * Slack + Slack
          BY <1>a, <3>1, SlackArithmetic
    <3>3. ASSUME NEW u \in active
          PROVE  /\ Holds(u)' /\ now' <= renewAt'[u] + MaxLate
                 /\ renewAt'[u] + LeaseTtl <= Expiry(u)' + RenewEvery + faults' * Slack
      <4>1. /\ Holds(u)' /\ Expiry(u)' = Expiry(u) /\ Expiry(u) \in Nat
            /\ renewAt[u] \in Nat /\ now <= renewAt[u] + MaxLate
            /\ renewAt[u] + LeaseTtl <= Expiry(u) + RenewEvery + faults * Slack
            BY <1>0, <1>a, <3>1 DEF RenewalInv, Holds, Expiry, ProjectOfOp,
               TypeInv, TypeOK, Lease!LeaseTable, Lease!LeaseRow
      <4>2. CASE u = o
        <5>1. renewAt'[u] = now + RenewEvery
              BY <1>0, <1>a, <3>1, <4>2 DEF TypeInv, TypeOK
        <5>2. Slack = RenewEvery + MaxLate
              BY DEF Slack
        <5>3. HIDE DEF Slack
        <5>4. QED
              BY <1>a, <3>1, <3>2, <4>1, <5>1, <5>2
      <4>3. CASE u # o
        <5>1. renewAt'[u] = renewAt[u]
              BY <1>0, <1>a, <3>1, <4>3 DEF TypeInv, TypeOK
        <5>2. QED
              BY <1>a, <3>1, <3>2, <4>1, <5>1
      <4>4. QED
            BY <4>2, <4>3
    <3>4. RenewalInv'
          BY <3>1, <3>3 DEF RenewalInv, Slack
    <3>5. StartInv' /\ ProcessInv'
          BY <1>0, <1>a, <3>1 DEF StartInv, ProcessInv
    <3>6. QED
          BY <1>b, <3>4, <3>5
  <2>3. ASSUME NEW o \in Op, SettleFails(o) PROVE IInv'
    <3>1. /\ o \in active /\ loop'.pc = "rethrow"
          /\ UNCHANGED <<now, mode, leases, active, renewAt, origin>>
          /\ faults < MaxFaults /\ faults' = faults + 1
          BY <2>3 DEF SettleFails, Fault, durable, history
    <3>2. RenewalInv'
          BY <1>0, <3>1, RenewalKept
    <3>3. StartInv' /\ ProcessInv'
          BY <1>0, <1>a, <3>1 DEF StartInv, ProcessInv
    <3>4. QED
          BY <1>b, <3>2, <3>3
  <2>4. ASSUME NEW o \in Op, NEW v \in Verdict, Settle(o, v) PROVE IInv'
    <3>1. /\ o \in active /\ loop'.pc = "finally"
          /\ UNCHANGED <<now, mode, leases, active, renewAt, origin, faults>>
          BY <2>4 DEF Settle, history
    <3>2. RenewalInv'
          BY <1>0, <3>1, RenewalKept
    <3>3. StartInv' /\ ProcessInv'
          BY <1>0, <3>1 DEF StartInv, ProcessInv
    <3>4. QED
          BY <1>b, <3>2, <3>3
  <2>5. CASE Finalise
    <3>1. /\ loop.pc = "finally" /\ loop'.pc = "idle"
          /\ leases' = Lease!Release(leases, ProjectOfOp(loop.op), loop.op)
          /\ active' = active \ {loop.op}
          /\ renewAt' = [renewAt EXCEPT ![loop.op] = 0]
          /\ UNCHANGED <<now, mode, origin, faults>>
          BY <2>5 DEF Finalise, At, Idle
    <3>2. ASSUME NEW u \in active'
          PROVE  /\ leases'[ProjectOfOp(u)] = leases[ProjectOfOp(u)]
                 /\ renewAt'[u] = renewAt[u]
      <4>1. u \in active /\ u # loop.op
            BY <3>1
      <4>2. leases[ProjectOfOp(u)].owner = u
            BY <1>0, <4>1 DEF RenewalInv, Holds
      <4>3. QED
            BY <1>0, <1>a, <3>1, <4>1, <4>2
            DEF Lease!Release, TypeInv, TypeOK, Lease!LeaseTable
    <3>3. RenewalInv'
          BY <1>0, <3>1, <3>2, RenewalKept
    <3>4. StartInv' /\ ProcessInv'
          BY <1>0, <3>1 DEF StartInv, ProcessInv
    <3>5. QED
          BY <1>b, <3>3, <3>4
  <2>6. CASE FinaliseRejecting
    <3>1. /\ loop.pc = "rethrow" /\ Rejects(loop.op)
          /\ leases' = Lease!Release(leases, ProjectOfOp(loop.op), loop.op)
          /\ UNCHANGED <<now, origin, faults>>
          BY <2>6 DEF FinaliseRejecting, At
    <3>2. /\ loop'.pc = "idle" /\ (mode' = mode \/ active' = {})
          /\ \A u \in active' : u \in active /\ u # loop.op /\ renewAt'[u] = renewAt[u]
          BY <1>0, <1>a, <3>1, RejectsEffect DEF Idle, TypeInv
    <3>3. ASSUME NEW u \in active'
          PROVE  leases'[ProjectOfOp(u)] = leases[ProjectOfOp(u)]
      <4>1. u \in active /\ u # loop.op
            BY <3>2
      <4>2. leases[ProjectOfOp(u)].owner = u
            BY <1>0, <4>1 DEF RenewalInv, Holds
      <4>3. QED
            BY <1>0, <1>a, <3>1, <4>1, <4>2
            DEF Lease!Release, TypeInv, TypeOK, Lease!LeaseTable
    <3>4. RenewalInv'
          BY <1>0, <3>1, <3>2, <3>3, RenewalKept
    <3>5. StartInv' /\ ProcessInv'
          BY <1>0, <3>1, <3>2 DEF StartInv, ProcessInv
    <3>6. QED
          BY <1>b, <3>4, <3>5
  <2>7. CASE FinaliseFails
    <3>1. /\ loop.pc \in {"finally", "rethrow"} /\ Rejects(loop.op)
          /\ UNCHANGED <<now, origin, leases>>
          /\ faults < MaxFaults /\ faults' = faults + 1
          BY <2>7 DEF FinaliseFails, Fault, durable, history
    <3>2. /\ loop'.pc = "idle" /\ (mode' = mode \/ active' = {})
          /\ \A u \in active' : u \in active /\ renewAt'[u] = renewAt[u]
          BY <1>0, <1>a, <3>1, RejectsEffect DEF Idle, TypeInv
    <3>3. RenewalInv'
          BY <1>0, <3>1, <3>2, RenewalKept
    <3>4. StartInv' /\ ProcessInv'
          BY <1>0, <1>a, <3>1, <3>2 DEF StartInv, ProcessInv
    <3>5. QED
          BY <1>b, <3>3, <3>4
  <2>8. QED
        BY <1>3, <2>1, <2>2, <2>3, <2>4, <2>5, <2>6, <2>7
        DEF Execution, EndOfExecution
<1>4. ASSUME NEW o \in Op, RequestCancellation(o) PROVE IInv'
  <2>1. UNCHANGED <<now, mode, loop, leases, active, renewAt, origin, faults>>
        BY <1>4 DEF RequestCancellation, volatile, history
  <2>2. RenewalInv'
        BY <1>0, <2>1, RenewalKept
  <2>3. QED
        BY <1>0, <1>b, <2>1, <2>2 DEF StartInv, ProcessInv, Holds, Expiry, ProjectOfOp
<1>5. ASSUME Boot PROVE IInv'
  <2>1. /\ active = {} /\ active' = {} /\ loop.pc = "idle" /\ loop' = loop
        /\ faults' = faults
        BY <1>0, <1>5 DEF Boot, BootReclaim, BootReconcile, BootPrune, ProcessInv,
           Dead, Serving, history
  <2>2. QED
        BY <1>0, <1>b, <2>1 DEF StartInv, ProcessInv, RenewalInv
<1>6. CASE Shutdown \/ StopEarly \/ Close
  <2>1. /\ UNCHANGED <<now, loop, leases, active, renewAt, origin, faults>>
        /\ loop.pc = "idle"
        /\ mode' = "draining" \/ active' = {}
        BY <1>0, <1>6 DEF Shutdown, StopEarly, Close, At, durable, history, ProcessInv,
           Booting, Serving
  <2>2. RenewalInv'
        BY <1>0, <2>1, RenewalKept
  <2>3. StartInv' /\ ProcessInv'
        BY <1>0, <2>1 DEF StartInv, ProcessInv, Serving
  <2>4. QED
        BY <1>b, <2>2, <2>3
<1>7. CASE Crash
  <2>1. active' = {} /\ loop'.pc = "idle" /\ faults' = faults
        BY <1>7 DEF Crash, Idle
  <2>2. QED
        BY <1>0, <1>b, <2>1 DEF StartInv, ProcessInv, RenewalInv
<1>8. CASE Tick
  <2>1. /\ UNCHANGED <<mode, loop, leases, active, renewAt, origin, faults>>
        /\ loop.pc = "idle" /\ now' = now + 1
        /\ \A o \in active : now < renewAt[o] + MaxLate
        BY <1>8 DEF Tick, At, durable, volatile, history
  <2>2. ASSUME NEW u \in active
        PROVE  /\ Holds(u)' /\ now' <= renewAt'[u] + MaxLate
               /\ renewAt'[u] + LeaseTtl <= Expiry(u)' + RenewEvery + faults' * Slack
    <3>1. Holds(u)' /\ Expiry(u)' = Expiry(u) /\ renewAt[u] \in Nat
          BY <1>0, <1>a, <2>1 DEF RenewalInv, Holds, Expiry, ProjectOfOp, TypeInv, TypeOK
    <3>2. renewAt'[u] + LeaseTtl <= Expiry(u)' + RenewEvery + faults' * Slack
          BY <1>0, <2>1, <3>1 DEF RenewalInv
    <3>3. now' <= renewAt'[u] + MaxLate
          BY <1>a, <2>1, <3>1
    <3>4. QED
          BY <3>1, <3>2, <3>3
  <2>3. RenewalInv'
        BY <2>1, <2>2 DEF RenewalInv, Slack
  <2>4. StartInv' /\ ProcessInv'
        BY <1>0, <2>1 DEF StartInv, ProcessInv
  <2>5. QED
        BY <1>b, <2>3, <2>4
<1>9. CASE UNCHANGED vars
  <2>1. UNCHANGED <<now, mode, loop, leases, active, renewAt, origin, faults>>
        BY <1>9 DEF vars, durable, volatile, history
  <2>2. RenewalInv'
        BY <1>0, <2>1, RenewalKept
  <2>3. QED
        BY <1>0, <1>b, <2>1, <2>2 DEF StartInv, ProcessInv, Holds, Expiry, ProjectOfOp
<1>10. QED
       BY <1>1, <1>2, <1>3, <1>4, <1>5, <1>6, <1>7, <1>8, <1>9 DEF Next

THEOREM InductiveInvariant == Spec => []IInv
BY InitIInv, StepIInv, PTL DEF Spec

\* Two executions of one project would both own its lease.
LEMMA LeaseExcludes == IInv => OneOperationPerProject
BY DEF IInv, RenewalInv, Holds, OneOperationPerProject

\* While fewer renewals fail than the time to live has room for, a project is
\* never worked on by two operations: whatever starts, retries, cancellations,
\* crashes, restarts and stops there are, for any number of each.
THEOREM MutualExclusion == Spec => []OneOperationPerProject
BY InductiveInvariant, LeaseExcludes, PTL

-----------------------------------------------------------------------------
(* Refinement *)

LEMMA InitAbstract == Init => Abstract!Init
BY DEF Init, Abstract!Init, Working

LEMMA StepAbstract == IInv /\ [Next]_vars => [Abstract!Next]_Working
<1> SUFFICES ASSUME IInv, [Next]_vars PROVE [Abstract!Next]_Working
    OBVIOUS
<1> USE OpsAssumption
<1>0. /\ active \subseteq Op
      /\ \A u \in active : origin[u] \in Key /\ ProjectOfOp(u) \in Project
      /\ loop.pc # "idle" => loop.op \in Op /\ ProjectOfOp(loop.op) \in Project
      BY DEF IInv, TypeInv, TypeOK, LoopOK, ProjectOfOp
<1>1. ASSUME active' = active, \A u \in active : origin'[u] = origin[u]
      PROVE  Working' = Working
      BY <1>1 DEF Working, ProjectOfOp
<1>2. ASSUME active' = {} PROVE Abstract!Next
      BY <1>2 DEF Abstract!Next, Abstract!Halt, Working
<1>3. ASSUME NEW o \in Op, NEW k \in Key, NEW t \in Task, Start(o, k, t)
      PROVE  Working' = Working
  <2>1. o \notin active
        BY <1>0, <1>3 DEF Start
  <2>2. QED
        BY <1>0, <1>1, <1>3, <2>1 DEF Start, IInv, TypeInv, TypeOK
<1>4. CASE CompleteKey
  <2>0. PICK o \in Op : o = loop.op
        BY <1>0, <1>4 DEF CompleteKey, At
  <2> DEFINE p == ProjectOfOp(o)
  <2>1. /\ loop.pc = "complete" /\ active' = active \cup {o} /\ origin' = origin
        /\ o \notin active /\ Holds(o) /\ p \in Project
        BY <1>0, <1>4, <2>0 DEF CompleteKey, At, IInv, StartInv
  <2>2. \A u \in active : ProjectOfOp(u) # p
        BY <2>1 DEF IInv, RenewalInv, Holds
  <2>3. Working[p] = {}
        BY <2>1, <2>2 DEF Working
  <2>4. Working' = [Working EXCEPT ![p] = {o}]
        BY <2>1, <2>2 DEF Working, ProjectOfOp
  <2>5. Abstract!Begin(p, o)
        BY <2>3, <2>4 DEF Abstract!Begin
  <2>6. QED
        BY <2>1, <2>5 DEF Abstract!Next
<1>b. ASSUME NEW o \in Op, ProjectOfOp(o) \in Project, active' = active \ {o},
             origin' = origin
      PROVE  Abstract!Next \/ Working' = Working
  <2> DEFINE p == ProjectOfOp(o)
  <2>1. CASE o \in active
    <3>1. o \in Working[p]
          BY <1>b, <2>1 DEF Working
    <3>2. Working' = [Working EXCEPT ![p] = @ \ {o}]
          BY <1>b DEF Working, ProjectOfOp
    <3>3. Abstract!End(p, o)
          BY <3>1, <3>2 DEF Abstract!End
    <3>4. QED
          BY <1>b, <3>3 DEF Abstract!Next
  <2>2. CASE o \notin active
        BY <1>1, <1>b, <2>2
  <2>3. QED
        BY <2>1, <2>2
<1>5. CASE Finalise
      BY <1>0, <1>5, <1>b DEF Finalise, At
<1>6. CASE StartStretch /\ ~CompleteKey
      BY <1>1, <1>6 DEF StartStretch, AcquireLease, AcquireConflict, InsertRow,
         InsertRefused, CompleteFails, ReleaseOnError, FailKey, UnwindFails, history
<1>7. ASSUME NEW o \in Op,
             Renew(o) \/ RenewFails(o) \/ (\E v \in Verdict : Settle(o, v))
               \/ SettleFails(o) \/ RequestCancellation(o)
      PROVE  Working' = Working
      BY <1>1, <1>7 DEF Renew, RenewFails, Settle, SettleFails, RequestCancellation,
         volatile, history
<1>8. CASE FinaliseRejecting \/ FinaliseFails
  <2>1. /\ loop.pc # "idle" /\ Rejects(loop.op) /\ origin' = origin
        BY <1>8 DEF FinaliseRejecting, FinaliseFails, At, history
  <2>2. active' = active \ {loop.op} \/ active' = {}
        BY <1>0, <2>1, RejectsEffect DEF IInv, TypeInv
  <2>3. QED
        BY <1>0, <1>2, <1>b, <2>1, <2>2
<1>9. CASE Boot \/ Shutdown \/ StopEarly \/ Close \/ Tick \/ UNCHANGED vars
      BY <1>1, <1>9 DEF Boot, BootReclaim, BootReconcile, BootPrune, Shutdown, StopEarly,
         Close, Tick, vars, volatile, history
<1>10. CASE Crash
       BY <1>2, <1>10 DEF Crash
<1>11. QED
       BY <1>3, <1>4, <1>5, <1>6, <1>7, <1>8, <1>9, <1>10
       DEF Next, Execution, EndOfExecution

\* The leases, keys, timers and restarts of the operation manager implement the
\* promise stated without them: work on a project begins only when none is in
\* progress, and ends by itself or with the process.
THEOREM Refinement == Spec => ImplementsExclusiveWork
<1>1. QED
      BY InitAbstract, StepAbstract, InductiveInvariant, PTL
      DEF Spec, ImplementsExclusiveWork, Abstract!Spec

-----------------------------------------------------------------------------
(* Outcomes *)

\* What a row says while the process knows about its operation.
RowInv ==
    /\ \A o \in Op : origin[o] = NoKey => ops[o].status = "ABSENT" /\ o \notin active
    /\ loop.pc \in {"acquire", "insert"} => ops[loop.op].status = "ABSENT"
    /\ loop.pc = "complete" => ops[loop.op].status = "RUNNING"
    /\ \A o \in active :
          (loop.pc = "finally" /\ loop.op = o) \/ ops[o].status = "RUNNING"

OutcomeInv == IInv /\ RowInv

LEMMA InitOutcome == Init => RowInv
BY DEF Init, RowInv, NoRow, Idle

LEMMA StepOutcome == OutcomeInv /\ [Next]_vars => RowInv'
<1> SUFFICES ASSUME OutcomeInv, [Next]_vars PROVE RowInv'
    OBVIOUS
<1> USE OpsAssumption
<1>0. /\ TypeInv /\ TypeInv' /\ ProcessInv /\ StartInv /\ RowInv
      BY StepTyped DEF OutcomeInv, IInv
<1>1. ASSUME NEW o \in Op, NEW k \in Key, NEW t \in Task, Start(o, k, t)
      PROVE  RowInv'
      BY <1>0, <1>1 DEF Start, RowInv, At, TypeInv, TypeOK
<1>2. ASSUME StartStretch PROVE RowInv'
  <2>1. CASE InsertRow
    <3>1. /\ loop.pc = "insert" /\ loop'.pc = "complete" /\ loop'.op = loop.op
          /\ loop.op \in Op \ active /\ origin[loop.op] # NoKey
          /\ UNCHANGED <<active, origin>>
          /\ \A u \in Op : u # loop.op => ops'[u] = ops[u]
          /\ ops'[loop.op].status = "RUNNING"
          BY <1>0, <2>1 DEF InsertRow, At, GoTo, StartInv, TypeInv, TypeOK, LoopOK,
             Stretch, history
    <3>2. QED
          BY <1>0, <3>1 DEF RowInv, TypeInv, TypeOK
  <2>2. CASE CompleteKey
        BY <1>0, <2>2 DEF CompleteKey, At, Idle, RowInv, TypeInv, TypeOK, LoopOK
  <2>3. CASE AcquireLease \/ AcquireConflict \/ InsertRefused \/ CompleteFails
             \/ ReleaseOnError \/ FailKey \/ UnwindFails
    <3>1. /\ UNCHANGED <<ops, active, origin>> /\ loop.pc # "finally"
          /\ loop'.pc \in {"insert", "failKey", "release", "idle"}
          /\ loop'.pc = "insert" => loop.pc = "acquire" /\ loop'.op = loop.op
          BY <1>0, <2>3 DEF AcquireLease, AcquireConflict, InsertRefused, CompleteFails,
             ReleaseOnError, FailKey, UnwindFails, At, GoTo, Idle, durable, history,
             TypeInv, TypeOK, Stretch
    <3>2. QED
          BY <1>0, <3>1 DEF RowInv
  <2>4. QED
        BY <1>2, <2>1, <2>2, <2>3 DEF StartStretch
<1>3. ASSUME Execution PROVE RowInv'
  <2>1. ASSUME NEW o \in Op, NEW v \in Verdict, Settle(o, v) PROVE RowInv'
        BY <1>0, <2>1 DEF Settle, At, RowInv, TypeInv, TypeOK, LoopOK, history
  <2>2. ASSUME NEW o \in Op, Renew(o) \/ RenewFails(o) \/ SettleFails(o)
        PROVE  RowInv'
        BY <1>0, <2>2 DEF Renew, RenewFails, SettleFails, At, RowInv, durable, history
  <2>3. CASE Finalise
        BY <1>0, <2>3 DEF Finalise, At, Idle, RowInv
  <2>4. CASE FinaliseRejecting \/ FinaliseFails
    <3>1. /\ loop.pc \in {"finally", "rethrow"} /\ Rejects(loop.op)
          /\ ops' = ops /\ origin' = origin
          BY <2>4 DEF FinaliseRejecting, FinaliseFails, At, durable, history
    <3>2. /\ loop' = Idle
          /\ \A u \in active' : u \in active /\ u # loop.op
          BY <1>0, <3>1, RejectsEffect DEF TypeInv, LoopOK
    <3>3. QED
          BY <1>0, <3>1, <3>2 DEF RowInv, Idle
  <2>5. QED
        BY <1>3, <2>1, <2>2, <2>3, <2>4 DEF Execution, EndOfExecution
<1>4. ASSUME NEW o \in Op, RequestCancellation(o) PROVE RowInv'
      BY <1>0, <1>4 DEF RequestCancellation, At, RowInv, TypeInv, TypeOK, OpRow,
         volatile, history
<1>5. ASSUME Boot PROVE RowInv'
      BY <1>0, <1>5 DEF Boot, BootReclaim, BootReconcile, BootPrune, ProcessInv,
         Dead, Serving, RowInv, TypeInv, TypeOK, OpRow, history
<1>6. CASE Shutdown \/ StopEarly \/ Close \/ Tick \/ UNCHANGED vars
      BY <1>0, <1>6 DEF Shutdown, StopEarly, Close, Tick, vars, durable, volatile, history, RowInv
<1>7. CASE Crash
      BY <1>0, <1>7 DEF Crash, Idle, durable, history, RowInv
<1>8. QED
      BY <1>1, <1>2, <1>3, <1>4, <1>5, <1>6, <1>7 DEF Next

\* One row's change of status, as OutcomeIsFinal allows it.
FinalFor(o) ==
    ops'[o].status # ops[o].status =>
        \/ ops[o].status = "ABSENT"  /\ ops'[o].status = "RUNNING"
        \/ ops[o].status = "RUNNING" /\ ops'[o].status \in Verdict /\ o \in active
        \/ ops[o].status = "RUNNING" /\ ops'[o].status = "UNKNOWN" /\ active = {}

LEMMA StepFinal ==
    ASSUME OutcomeInv, [Next]_vars, NEW u \in Op
    PROVE  FinalFor(u)
<1> USE OpsAssumption
<1>0. TypeInv /\ ProcessInv /\ RowInv
      BY DEF OutcomeInv, IInv
<1>1. CASE ops' = ops
      BY <1>1 DEF FinalFor
<1>2. CASE InsertRow
      BY <1>0, <1>2 DEF InsertRow, At, RowInv, FinalFor, TypeInv, TypeOK, LoopOK
<1>3. ASSUME NEW o \in Op, NEW v \in Verdict, Settle(o, v) PROVE FinalFor(u)
      BY <1>0, <1>3 DEF Settle, At, RowInv, FinalFor, TypeInv, TypeOK, OpRow
<1>4. ASSUME NEW o \in Op, RequestCancellation(o) PROVE FinalFor(u)
      BY <1>0, <1>4 DEF RequestCancellation, FinalFor, TypeInv, TypeOK, OpRow
<1>5. CASE BootReconcile
      BY <1>0, <1>5 DEF BootReconcile, ProcessInv, Serving, FinalFor, TypeInv, TypeOK, OpRow
<1>6. ASSUME StartStretch, ~InsertRow PROVE ops' = ops
      BY <1>6 DEF StartStretch, AcquireLease, AcquireConflict, InsertRefused, CompleteKey,
         CompleteFails, ReleaseOnError, FailKey, UnwindFails, durable
<1>7. ASSUME NEW o \in Op, Renew(o) \/ RenewFails(o) \/ SettleFails(o)
      PROVE  ops' = ops
      BY <1>7 DEF Renew, RenewFails, SettleFails, durable
<1>8. ASSUME NEW o \in Op, NEW k \in Key, NEW t \in Task, Start(o, k, t)
      PROVE  ops' = ops
      BY <1>8 DEF Start
<1>9. ASSUME \/ EndOfExecution \/ BootReclaim \/ BootPrune \/ Shutdown \/ StopEarly
             \/ Close \/ Crash \/ Tick \/ UNCHANGED vars
      PROVE  ops' = ops
      BY <1>9 DEF EndOfExecution, Finalise, FinaliseRejecting, FinaliseFails, BootReclaim,
         BootPrune, Shutdown, StopEarly, Close, Crash, Tick, vars, durable
<1>10. QED
       BY <1>1, <1>2, <1>3, <1>4, <1>5, <1>6, <1>7, <1>8, <1>9
       DEF Next, Execution, Boot

\* Only the execution decides an outcome, only a restart that executes nothing
\* gives up on one, and neither is ever revised.
THEOREM OutcomesAreFinal == Spec => OutcomeIsFinal
<1>1. Init => OutcomeInv
      BY InitIInv, InitOutcome DEF OutcomeInv
<1>2. OutcomeInv /\ [Next]_vars => OutcomeInv'
      BY StepIInv, StepOutcome DEF OutcomeInv
<1>3. OutcomeInv /\ [Next]_vars => [\A o \in Op : FinalFor(o)]_vars
      BY StepFinal
<1>4. Spec => [][\A o \in Op : FinalFor(o)]_vars
      BY <1>1, <1>2, <1>3, PTL DEF Spec
<1>5. [\A o \in Op : FinalFor(o)]_vars =>
        [\A o \in Op : ops'[o].status # ops[o].status =>
           \/ ops[o].status = "ABSENT"  /\ ops'[o].status = "RUNNING"
           \/ ops[o].status = "RUNNING" /\ ops'[o].status \in Verdict
                                        /\ o \in active
           \/ ops[o].status = "RUNNING" /\ ops'[o].status = "UNKNOWN"
                                        /\ active = {}]_vars
      BY DEF FinalFor
<1>6. QED
      BY <1>4, <1>5, PTL DEF OutcomeIsFinal

=============================================================================
