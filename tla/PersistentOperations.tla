------------------------ MODULE PersistentOperations ------------------------
(***************************************************************************)
(* The durable operation manager of operations/persistent-operation.ts     *)
(* (deploy, validation, recovery, rollback, git and database operations),  *)
(* with the two tables it shares with the other managers, the startup      *)
(* reconciliation of runtime/server-agent.ts and process crashes.          *)
(*                                                                         *)
(* Granularity.  The agent is one Node process: a synchronous stretch of   *)
(* code is interleaved with no other handler, but every SQLite statement   *)
(* in it commits by itself, so a crash or a storage error may strike       *)
(* between any two of them.  Variable loop is the event loop: it says      *)
(* which stretch is under way and which statement comes next.  Handlers    *)
(* and timers need loop = Idle; a crash does not.                          *)
(*                                                                         *)
(* Storage errors are ordinary: the agent's connection has no busy         *)
(* timeout and the auth-admin command line writes the same database, so a  *)
(* statement may throw SQLITE_BUSY.  MaxFaults bounds how often.           *)
(*                                                                         *)
(* Calls that change nothing are not steps: a replayed or refused start,   *)
(* get, list, and a start refused by the mutation guard.                   *)
(***************************************************************************)
EXTENDS Naturals, FiniteSets

CONSTANTS
    Project,        \* registered projects
    Key,            \* (scope, idempotency_key); the scope names the project
    ProjectOf,      \* ProjectOf[k]: the project in the scope of k
    Task,           \* task ids: with the scope, all of the fingerprint
    NoTask,
    Op,             \* operation ids (randomUUID)
    NoOp,
    NoKey,
    LeaseTtl,       \* leaseTtlMs
    RenewEvery,     \* the period of the renewal timer
    MaxLate,        \* how late that timer may fire
    Lingering,      \* operations whose commands may never be reported closed
    MaxFaults,      \* bound: storage errors
    MaxCrashes,     \* bound: crashes
    Retention,      \* operational retention of finished keys
    MaxTime         \* bound: the clock

ASSUME OpsAssumption ==
    /\ NoOp \notin Op /\ NoTask \notin Task /\ NoKey \notin Key
    /\ ProjectOf \in [Key -> Project] /\ Lingering \subseteq Op
    /\ LeaseTtl \in Nat /\ RenewEvery \in Nat \ {0} /\ MaxLate \in Nat
    /\ MaxFaults \in Nat /\ MaxCrashes \in Nat
    /\ Retention \in Nat /\ MaxTime \in Nat

\* The time to live outlasts the renewals that may be swallowed: with 60 s and a
\* period of a third of it, one renewal may fail if timers are under 10 s late.
ASSUME TimerAssumption ==
    (MaxFaults + 1) * (RenewEvery + MaxLate) < LeaseTtl

VARIABLES
    now,            \* Date.now()
    mode,           \* the process: down, stopped, the startup steps, up, draining
    loop,           \* the synchronous stretch under way
    leases,         \* durable: operation leases, one per project
    keys,           \* durable: idempotency_keys
    ops,            \* durable: persistent_operations
    active,         \* volatile: operations whose execute() has not finished
    renewAt,        \* volatile: when the renewal timer of an active operation is due
    crashes, faults,
    \* history, read by properties only
    origin,         \* the key each operation was started with
    began,          \* operations whose run() was called
    cover           \* end of the last lease each operation holds, 0 if released

Lease == INSTANCE OperationLeaseStore WITH Owner <- Op, NoOwner <- NoOp
Idem  == INSTANCE IdempotencyStore
             WITH Fingerprint <- Task, NoPrint <- NoTask, Work <- Op, NoWork <- NoOp

durable  == <<leases, keys, ops>>
volatile == <<mode, loop, active, renewAt>>
history  == <<origin, began, cover>>
vars     == <<now, durable, volatile, crashes, faults, history>>

-----------------------------------------------------------------------------
OpStatus == {"ABSENT", "RUNNING", "SUCCEEDED", "FAILED", "UNKNOWN"}

\* Mutant: an outcome the status column does not know.
VerdictOrCancelled == {"SUCCEEDED", "FAILED", "CANCELLED"}

Verdict == {"SUCCEEDED", "FAILED"}

OpRow == [status : OpStatus, task : Task \cup {NoTask},
          startedAt : Nat, cancelRequested : BOOLEAN]

NoRow == [status |-> "ABSENT", task |-> NoTask, startedAt |-> 0,
          cancelRequested |-> FALSE]

Booting == {"reclaim", "reconcile", "prune"}
Serving == {"up", "draining"}
Dead    == {"down", "stopped"}
Mode    == Dead \cup Booting \cup Serving

\* What the death of the process leaves: the unit says Restart=on-failure, and
\* systemd starts nothing again that it was asked to stop.
Deceased == IF mode = "draining" THEN "stopped" ELSE "down"

\* acquire, insert, complete: the statements of start() still to run.
\* release, failKey: its catch block.  finally: that of execute(), rethrow: the
\* same with an error on its way out.
Pc == {"idle", "acquire", "insert", "complete", "release", "failKey",
       "finally", "rethrow"}

Stretch == [pc : Pc, op : Op \cup {NoOp}, task : Task \cup {NoTask}]

Idle == [pc |-> "idle", op |-> NoOp, task |-> NoTask]

NoTimers == [o \in Op |-> 0]

ProjectOfOp(o) == ProjectOf[origin[o]]
At(pc)         == loop.pc = pc
GoTo(pc)       == loop' = [loop EXCEPT !.pc = pc]

TypeOK ==
    /\ now \in Nat /\ crashes \in Nat /\ faults \in Nat
    /\ mode \in Mode
    /\ loop \in Stretch
    /\ leases \in Lease!LeaseTable
    /\ keys \in Idem!KeyTable
    /\ ops \in [Op -> OpRow]
    /\ active \subseteq Op
    /\ renewAt \in [Op -> Nat]
    /\ origin \in [Op -> Key \cup {NoKey}]
    /\ began \subseteq Op
    /\ cover \in [Op -> Nat]

Init ==
    /\ now = 0 /\ crashes = 0 /\ faults = 0
    /\ mode = "down"
    /\ loop = Idle
    /\ leases = [p \in Project |-> Lease!NoLease]
    /\ keys = [k \in Key |-> Idem!NoRecord]
    /\ ops = [o \in Op |-> NoRow]
    /\ active = {}
    /\ renewAt = NoTimers
    /\ origin = [o \in Op |-> NoKey]
    /\ began = {}
    /\ cover = [o \in Op |-> 0]

Fault == faults < MaxFaults /\ faults' = faults + 1

\* No lease is taken or left behind so late that its expiry lies beyond the
\* clock's bound.
WithinHorizon == now + LeaseTtl <= MaxTime

-----------------------------------------------------------------------------
(* start(): one stretch of four statements *)

\* requireReplayable finds no record, begin inserts it.
Start(o, k, t) ==
    /\ mode = "up" /\ At("idle")
    /\ origin[o] = NoKey /\ WithinHorizon
    /\ Idem!Fresh(keys[k])
    /\ keys' = Idem!Begin(keys, k, t, now)
    /\ origin' = [origin EXCEPT ![o] = k]
    /\ loop' = [pc |-> "acquire", op |-> o, task |-> t]
    /\ UNCHANGED <<now, mode, leases, ops, active, renewAt, crashes, faults,
                   began, cover>>

AcquireLease ==
    /\ At("acquire")
    /\ LET o == loop.op  p == ProjectOfOp(o) IN
       /\ Lease!Acquirable(leases[p], o, now)
       /\ leases' = Lease!Acquire(leases, p, o, now, LeaseTtl)
       /\ cover' = [cover EXCEPT ![o] = now + LeaseTtl]
    /\ GoTo("insert")
    /\ UNCHANGED <<now, mode, keys, ops, active, renewAt, crashes, faults,
                   origin, began>>

\* ConflictError: the project is leased.  leaseHeld is still false.
AcquireConflict ==
    /\ At("acquire")
    /\ ~Lease!Acquirable(leases[ProjectOfOp(loop.op)], loop.op, now)
    /\ GoTo("failKey")
    /\ UNCHANGED <<now, mode, durable, active, renewAt, crashes, faults, history>>

InsertRow ==
    /\ At("insert")
    /\ ops' = [ops EXCEPT ![loop.op] =
                 [status |-> "RUNNING", task |-> loop.task, startedAt |-> now,
                  cancelRequested |-> FALSE]]
    /\ GoTo("complete")
    /\ UNCHANGED <<now, mode, leases, keys, active, renewAt, crashes, faults,
                   history>>

\* Mutant: the refusal is swallowed.
InsertRefusedSilently ==
    /\ At("insert")
    /\ GoTo("complete")
    /\ UNCHANGED <<now, mode, durable, active, renewAt, crashes, faults, history>>

\* The client named a task that does not exist: the foreign key refuses it.
InsertRefused ==
    /\ At("insert")
    /\ GoTo("release")
    /\ UNCHANGED <<now, mode, durable, active, renewAt, crashes, faults, history>>

\* The key records the operation and execute() runs up to its first await.
CompleteKey ==
    /\ At("complete")
    /\ LET o == loop.op IN
       /\ keys' = Idem!Finish(keys, origin[o], "COMPLETED", o, now)
       /\ active' = active \cup {o}
       /\ began' = began \cup {o}
       /\ renewAt' = [renewAt EXCEPT ![o] = now + RenewEvery]
    /\ loop' = Idle
    /\ UNCHANGED <<now, mode, leases, ops, crashes, faults, origin, cover>>

\* The row stays RUNNING although nothing will ever execute it.
CompleteFails ==
    /\ At("complete") /\ Fault
    /\ GoTo("release")
    /\ UNCHANGED <<now, mode, durable, active, renewAt, crashes, history>>

ReleaseOnError ==
    /\ At("release")
    /\ leases' = Lease!Release(leases, ProjectOfOp(loop.op), loop.op)
    /\ cover' = [cover EXCEPT ![loop.op] = 0]
    /\ GoTo("failKey")
    /\ UNCHANGED <<now, mode, keys, ops, active, renewAt, crashes, faults,
                   origin, began>>

FailKey ==
    /\ At("failKey")
    /\ LET k == origin[loop.op] IN
       keys' = IF keys[k].status = "IN_PROGRESS"
                 THEN Idem!Finish(keys, k, "FAILED", NoOp, now) ELSE keys
    /\ loop' = Idle
    /\ UNCHANGED <<now, mode, leases, ops, active, renewAt, crashes, faults,
                   history>>

\* A statement of the catch block throws: the rest of the block is skipped.
UnwindFails ==
    /\ loop.pc \in {"release", "failKey"} /\ Fault
    /\ loop' = Idle
    /\ UNCHANGED <<now, mode, durable, active, renewAt, crashes, history>>

-----------------------------------------------------------------------------
(* execute(): timer, outcome, finally block *)

Renew(o) ==
    /\ o \in active /\ At("idle") /\ renewAt[o] <= now
    /\ LET p == ProjectOfOp(o)  held == Lease!Renewable(leases[p], o) IN
       /\ leases' = IF held THEN Lease!Acquire(leases, p, o, now, LeaseTtl)
                            ELSE leases
       /\ cover' = IF held THEN [cover EXCEPT ![o] = now + LeaseTtl] ELSE cover
    /\ renewAt' = [renewAt EXCEPT ![o] = now + RenewEvery]
    /\ UNCHANGED <<now, mode, loop, keys, ops, active, crashes, faults,
                   origin, began>>

\* The callback swallows the error and waits for its next period.
RenewFails(o) ==
    /\ o \in active /\ At("idle") /\ renewAt[o] <= now /\ Fault
    /\ renewAt' = [renewAt EXCEPT ![o] = now + RenewEvery]
    /\ UNCHANGED <<now, mode, loop, durable, active, crashes, history>>

\* run() settles.  FAILED also stands for a SUCCEEDED outcome whose UPDATE
\* threw: the catch block then records it as a failure.
Settle(o, verdict) ==
    /\ o \in active /\ At("idle")
    /\ ops' = [ops EXCEPT ![o].status = verdict]
    /\ loop' = [pc |-> "finally", op |-> o, task |-> NoTask]
    /\ UNCHANGED <<now, mode, leases, keys, active, renewAt, crashes, faults,
                   history>>

\* Mutant: the renewal timer is not cleared.
FinaliseKeepsTimer ==
    /\ At("finally")
    /\ leases' = Lease!Release(leases, ProjectOfOp(loop.op), loop.op)
    /\ cover' = [cover EXCEPT ![loop.op] = 0]
    /\ loop' = Idle
    /\ UNCHANGED <<now, mode, keys, ops, active, renewAt, crashes, faults,
                   origin, began>>

Finalise ==
    /\ At("finally")
    /\ leases' = Lease!Release(leases, ProjectOfOp(loop.op), loop.op)
    /\ cover' = [cover EXCEPT ![loop.op] = 0]
    /\ active' = active \ {loop.op}
    /\ renewAt' = [renewAt EXCEPT ![loop.op] = 0]
    /\ loop' = Idle
    /\ UNCHANGED <<now, mode, keys, ops, crashes, faults, origin, began>>

\* Both UPDATEs throw: the row stays RUNNING.
SettleFails(o) ==
    /\ o \in active /\ At("idle") /\ Fault
    /\ loop' = [pc |-> "rethrow", op |-> o, task |-> NoTask]
    /\ UNCHANGED <<now, mode, durable, active, renewAt, crashes, history>>

\* The promise of an execution rejects.  During a drain the allSettled of
\* shutdown() has a handler on it; otherwise nothing has, and Node ends.
Rejects(o) ==
    /\ loop' = Idle
    /\ IF mode = "draining"
         THEN /\ active' = active \ {o} /\ renewAt' = [renewAt EXCEPT ![o] = 0]
              /\ UNCHANGED mode
         ELSE mode' = Deceased /\ active' = {} /\ renewAt' = NoTimers

FinaliseRejecting ==
    /\ At("rethrow")
    /\ leases' = Lease!Release(leases, ProjectOfOp(loop.op), loop.op)
    /\ cover' = [cover EXCEPT ![loop.op] = 0]
    /\ Rejects(loop.op)
    /\ UNCHANGED <<now, keys, ops, crashes, faults, origin, began>>

\* The release throws: the lease waits for its expiry, and active.delete, which
\* only the drain could still read, is skipped.
FinaliseFails ==
    /\ loop.pc \in {"finally", "rethrow"} /\ Fault /\ WithinHorizon
    /\ Rejects(loop.op)
    /\ UNCHANGED <<now, durable, crashes, history>>

\* A stamp on the row; the execution is not interrupted by it.
RequestCancellation(o) ==
    /\ mode \in Serving /\ At("idle")
    /\ ops[o].status = "RUNNING" /\ ~ops[o].cancelRequested
    /\ ops' = [ops EXCEPT ![o].cancelRequested = TRUE]
    /\ UNCHANGED <<now, leases, keys, volatile, crashes, faults, history>>

-----------------------------------------------------------------------------
(* The process *)

\* systemd starts the unit after a failure, an operator starts a stopped one.
BootReclaim ==
    /\ mode \in Dead
    /\ leases' = Lease!ReclaimExpired(leases, now)
    /\ mode' = "reconcile"
    /\ UNCHANGED <<now, keys, ops, loop, active, renewAt, crashes, faults, history>>

\* Mutants: nothing is reconciled; failures are given up on as well.
BootSkipsReconcile ==
    /\ mode = "reconcile"
    /\ mode' = "prune"
    /\ UNCHANGED <<now, durable, loop, active, renewAt, crashes, faults, history>>

BootReconcilesFailures ==
    /\ mode = "reconcile"
    /\ ops' = [o \in Op |-> IF ops[o].status \in {"RUNNING", "FAILED"}
                              THEN [ops[o] EXCEPT !.status = "UNKNOWN"] ELSE ops[o]]
    /\ mode' = "prune"
    /\ UNCHANGED <<now, leases, keys, loop, active, renewAt, crashes, faults, history>>

BootReconcile ==
    /\ mode = "reconcile"
    /\ ops' = [o \in Op |-> IF ops[o].status = "RUNNING"
                              THEN [ops[o] EXCEPT !.status = "UNKNOWN"] ELSE ops[o]]
    /\ mode' = "prune"
    /\ UNCHANGED <<now, leases, keys, loop, active, renewAt, crashes, faults, history>>

\* Startup maintenance; its failure is logged and the agent serves anyway.
BootPrune ==
    /\ mode = "prune"
    /\ \/ keys' = Idem!PruneKeys(keys, now, Retention)
       \/ keys' = keys
    /\ mode' = "up"
    /\ UNCHANGED <<now, leases, ops, loop, active, renewAt, crashes, faults, history>>

\* SIGTERM: shuttingDown refuses new work and waits for the active.
Shutdown ==
    /\ mode = "up" /\ At("idle")
    /\ mode' = "draining"
    /\ UNCHANGED <<now, durable, loop, active, renewAt, crashes, faults, history>>

Close ==
    /\ mode = "draining" /\ At("idle") /\ active = {}
    /\ mode' = "stopped"
    /\ UNCHANGED <<now, durable, loop, active, renewAt, crashes, faults, history>>

\* The SIGTERM comes before its handler is installed, or the unit is stopped
\* while systemd waits to start it again.
StopEarly ==
    /\ mode \in Booting \cup {"down"}
    /\ mode' = "stopped"
    /\ UNCHANGED <<now, durable, loop, active, renewAt, crashes, faults, history>>

\* Also the SIGKILL with which systemd ends a drain of more than 180 s.
Crash ==
    /\ mode \notin Dead /\ crashes < MaxCrashes /\ WithinHorizon
    /\ crashes' = crashes + 1
    /\ mode' = Deceased /\ loop' = Idle /\ active' = {} /\ renewAt' = NoTimers
    /\ UNCHANGED <<now, durable, faults, history>>

\* A synchronous stretch takes no time worth counting against a lease of at
\* least five seconds; a stalled event loop shows as a late timer.
Tick ==
    /\ now < MaxTime /\ At("idle")
    /\ \A o \in active : now < renewAt[o] + MaxLate
    /\ now' = now + 1
    /\ UNCHANGED <<durable, volatile, crashes, faults, history>>

-----------------------------------------------------------------------------
StartStretch ==
    \/ AcquireLease \/ AcquireConflict
    \/ InsertRow \/ InsertRefused
    \/ CompleteKey \/ CompleteFails
    \/ ReleaseOnError \/ FailKey \/ UnwindFails

EndOfExecution == Finalise \/ FinaliseRejecting \/ FinaliseFails

Execution ==
    \/ \E o \in Op : \/ Renew(o) \/ RenewFails(o) \/ SettleFails(o)
                     \/ \E v \in Verdict : Settle(o, v)
    \/ EndOfExecution

Boot == BootReclaim \/ BootReconcile \/ BootPrune

Next ==
    \/ \E o \in Op, k \in Key, t \in Task : Start(o, k, t)
    \/ StartStretch
    \/ Execution
    \/ \E o \in Op : RequestCancellation(o)
    \/ Boot \/ Shutdown \/ StopEarly \/ Close \/ Crash \/ Tick

Spec == Init /\ [][Next]_vars

\* The process runs its stretches and timers, systemd starts an agent that
\* failed, and time passes.  Work comes to an end where its commands are reported
\* closed: each has a timeout, but that kills the direct child only, and a
\* descendant that holds the pipes delays the close event without bound.
\* Clients, operators, signals, storage errors and crashes owe nothing.
Fairness ==
    /\ WF_vars(StartStretch) /\ WF_vars(EndOfExecution)
    /\ \A o \in Op : WF_vars(Renew(o))
    /\ \A o \in Op \ Lingering : SF_vars(\E v \in Verdict : Settle(o, v))
    /\ WF_vars(mode # "stopped" /\ Boot) /\ WF_vars(Close) /\ WF_vars(Tick)

FairSpec == Spec /\ Fairness

-----------------------------------------------------------------------------
(* Properties *)

\* While the renewal timer keeps up, a project is worked on by one operation
\* at a time: start() and the renewals of execute() against each other, and
\* against crashes, startup reclaim and swallowed renewal errors.
OneOperationPerProject ==
    \A o, u \in active : ProjectOfOp(o) = ProjectOfOp(u) => o = u

\* A key runs its work once.  Retries, crashes between any two statements of
\* start(), failed starts and startup pruning considered, two operations begun
\* under one key lie more than the retention apart.
RunsOncePerKey ==
    \A o, u \in began :
        (o # u /\ origin[o] = origin[u]) =>
            \/ ops[o].startedAt + Retention < ops[u].startedAt
            \/ ops[u].startedAt + Retention < ops[o].startedAt

\* What a completed key replays is a row of its own: inserted, begun, for the
\* key's project and the task of its fingerprint.
ReplayIsOwnRow ==
    \A k \in Key : keys[k].status = "COMPLETED" =>
        LET o == keys[k].result IN
        /\ o \in began
        /\ origin[o] = k
        /\ ops[o].status # "ABSENT"
        /\ ops[o].task = keys[k].print

\* While the agent accepts work, a row that says RUNNING, if its run() was ever
\* called, is being executed: neither reconciliation nor a failing execution
\* leaves a phantom.  (A drain may: it handles the rejection of an execution
\* whose outcome could not be written, and goes on.)
RunningIsExecuting ==
    mode = "up" =>
        \A o \in began : ops[o].status = "RUNNING" => o \in active

\* A crash does not free the project: no row is inserted for it while a lease
\* that covered interrupted work has not run out.
CrashKeepsLease ==
    [][\A o \in Op :
         (ops[o].status = "ABSENT" /\ ops'[o].status = "RUNNING") =>
            \A u \in Op \ {o} :
               (/\ ops[u].status \in {"RUNNING", "UNKNOWN"}
                /\ ProjectOfOp(u) = ProjectOfOp(o)) => cover[u] <= now]_vars

\* Only the execution decides an outcome, only a restart gives up on one, and
\* neither is ever revised: an UNKNOWN operation is not replayed or resolved.
OutcomeIsFinal ==
    [][\A o \in Op : ops'[o].status # ops[o].status =>
         \/ ops[o].status = "ABSENT"  /\ ops'[o].status = "RUNNING"
         \/ ops[o].status = "RUNNING" /\ ops'[o].status \in Verdict
                                      /\ o \in active
         \/ ops[o].status = "RUNNING" /\ ops'[o].status = "UNKNOWN"
                                      /\ active = {}]_vars

\* Every operation that began gets an outcome, crashes included, unless the
\* agent is stopped: a stop may leave the row to the next start.
BegunWorkEnds ==
    \A o \in Op \ Lingering : (o \in began /\ ops[o].status = "RUNNING")
                     ~> (ops[o].status # "RUNNING" \/ mode = "stopped")

\* No project stays leased for good, whoever died holding the lease.
LeaseComesFree ==
    \A p \in Project : (leases[p] # Lease!NoLease /\ leases[p].owner \notin Lingering)
                          ~> ~Lease!Unexpired(leases[p], now)

-----------------------------------------------------------------------------
(* The manager implements the abstract promise: a project's work is what is  *)
(* active on it.                                                             *)

Working == [p \in Project |-> {o \in active : ProjectOfOp(o) = p}]

Abstract == INSTANCE ExclusiveWork WITH Work <- Op, working <- Working

ImplementsExclusiveWork == Abstract!Spec

=============================================================================
