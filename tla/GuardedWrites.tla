--------------------------- MODULE GuardedWrites ---------------------------
(***************************************************************************)
(* The writes that run under an idempotency key and a project lease while  *)
(* their call waits: guardedWrite of database/database-service.ts and      *)
(* restart of services/service-controller.ts, down to what does the work:  *)
(* a worker thread with a SQLite connection, systemctl under the process   *)
(* executor, or the host helper that runs it for the agent.  The commands  *)
(* of commands/command-runner.ts, without key and lease of their own, run  *)
(* under the same executor.                                                *)
(*                                                                         *)
(* Up to its first await and from the settling of its work on, a call is   *)
(* interleaved with no other.  Storage errors and crashes between the      *)
(* statements of such a stretch appear as choices of what it has written.  *)
(*                                                                         *)
(* A worker thread is a Child that times out differently: it is terminated *)
(* and its call settles without waiting for its end.                       *)
(***************************************************************************)
EXTENDS ToolCalls, ProcessExecutor

CONSTANTS DatabaseTimeout, DatabaseLease,
          CommandTimeout,       \* of systemctl and of configured commands
          HelperTimeout,        \* of a request to the host helper
          RestartLease,
          Retention             \* of finished idempotency keys

ASSUME TimeAssumption ==
    /\ {DatabaseTimeout, CommandTimeout, HelperTimeout, Retention} \subseteq Nat
    /\ {DatabaseLease, RestartLease} \subseteq Nat
    /\ DatabaseTimeout < DatabaseLease      \* max(10 s, timeout + 5 s)
    /\ CommandTimeout < HelperTimeout       \* 30 s, 35 s
    /\ HelperTimeout < RestartLease         \* 60 s

VARIABLES leases, keys,
          child,        \* the process or the thread that does a call's work
          begunAt,      \* when a call began; its time limits count from there
          effects       \* history: the calls whose work took effect

guardVars == <<leases, keys, child, begunAt, effects>>

Scope(c) == IF work[c].kind \in Restart THEN "restart" ELSE work[c].kind

KeyOf(c) == <<Scope(c), work[c].project, DerivedKey(c)>>

Guarded == DatabaseWrite \cup Restart

ScopedKey == (DatabaseWrite \cup {"restart"}) \X Project \X Key

Lease == INSTANCE OperationLeaseStore WITH Owner <- Call, NoOwner <- NoCall
Idem  == INSTANCE IdempotencyStore
             WITH Key <- ScopedKey, NoPrint <- NoKey,
                  Work <- Call, NoWork <- NoCall

GuardTypeOK ==
    /\ leases \in Lease!LeaseTable
    /\ keys \in Idem!KeyTable
    /\ child \in [Call -> Child]
    /\ begunAt \in [Call -> Nat]
    /\ effects \subseteq Call

GuardInit ==
    /\ leases = [p \in Project |-> Lease!NoLease]
    /\ keys = [k \in ScopedKey |-> Idem!NoRecord]
    /\ child = [c \in Call |-> NoChild]
    /\ begunAt = [c \in Call |-> 0]
    /\ effects = {}

\* The limit of the worker thread, or of the executor in agent and helper.
Limit(c) == IF work[c].kind \in DatabaseWrite THEN DatabaseTimeout ELSE CommandTimeout

Due(c) == begunAt[c] + Limit(c)

ReplyDue(c) == begunAt[c] + HelperTimeout

\* Mutant: the lease lasts as long as its work may.
LeaseTtlBare(c) == Limit(c)

LeaseTtl(c) == IF work[c].kind \in DatabaseWrite THEN DatabaseLease ELSE RestartLease

SetChild(c, ch) == child' = [child EXCEPT ![c] = ch]

\* No work is begun whose limits lie beyond the bound of the clock.
WithinHorizon(c) ==
    now + (IF work[c].kind = "helperRestart" THEN HelperTimeout ELSE Limit(c)) <= MaxTime

(***************************************************************************)
(* The start.                                                              *)
(***************************************************************************)

\* Mutant: the fingerprint is not compared.
ReplayableAnyPrint(c) == keys[KeyOf(c)].status = "COMPLETED"

\* requireReplayable; any other record refuses the call.
Replayable(c) ==
    /\ keys[KeyOf(c)].status = "COMPLETED"
    /\ keys[KeyOf(c)].print = work[c].print

Arrives(c) ==
    /\ up
    /\ pc[c] = "new" /\ work[c].kind \in Guarded
    /\ DerivedKey(c) # NoKey

Replays(c) ==
    /\ Arrives(c) /\ Replayable(c)
    /\ Answered(c, TRUE)
    /\ UNCHANGED <<now, up, crashes, work, guardVars>>

BegunKey(c) == Idem!Begin(keys, KeyOf(c), work[c].print, now)

\* begin, acquire, and the work up to its first await: a restart is sent off,
\* a write first resolves the path of its database.
Begins(c) ==
    /\ Arrives(c) /\ WithinHorizon(c)
    /\ Idem!Fresh(keys[KeyOf(c)])
    /\ Lease!Acquirable(leases[work[c].project], c, now)
    /\ keys' = BegunKey(c)
    /\ leases' = Lease!Acquire(leases, work[c].project, c, now, LeaseTtl(c))
    /\ begunAt' = [begunAt EXCEPT ![c] = now]
    /\ IF work[c].kind = "restart"
       THEN GoOn(c, "running") /\ SetChild(c, Spawned)
       ELSE GoOn(c, "preparing") /\ UNCHANGED child
    /\ UNCHANGED <<now, up, crashes, work, effects>>

\* The lease is taken or storage fails; the key is failed if storage lets it.
BeginFails(c) ==
    /\ Arrives(c)
    /\ Idem!Fresh(keys[KeyOf(c)])
    /\ keys' \in {BegunKey(c), Idem!Finish(BegunKey(c), KeyOf(c), "FAILED", NoCall, now)}
    /\ Answered(c, FALSE)
    /\ UNCHANGED <<now, up, crashes, work, leases, child, begunAt, effects>>

\* The worker thread starts; the helper has read the request and the list of
\* services.
WorkStarts(c) ==
    /\ pc[c] = "preparing"
    /\ SetChild(c, Spawned)
    /\ GoOn(c, "running")
    /\ UNCHANGED <<now, up, crashes, work, leases, keys, begunAt, effects>>

\* A job's onSpawn may throw: the promise rejects before the child has a time
\* limit or anybody listens to the abort and to its close.
CommandStarts(c) ==
    /\ up /\ WithinHorizon(c)
    /\ pc[c] = "new" /\ work[c].kind = "command"
    /\ SetChild(c, Spawned)
    /\ begunAt' = [begunAt EXCEPT ![c] = now]
    /\ GoOn(c, "running") \/ Answered(c, FALSE)
    /\ UNCHANGED <<now, up, crashes, work, leases, keys, effects>>

(***************************************************************************)
(* The end.                                                                *)
(***************************************************************************)

\* Mutant: a status the store does not know.
StatusesWithTimeout(done) ==
    IF done THEN {"IN_PROGRESS", "FAILED", "COMPLETED"}
    ELSE {"IN_PROGRESS", "FAILED", "TIMED_OUT"}

\* What the key may become: a database audit row or the key itself that cannot
\* be written turns a success into a failure, and the failure may not be
\* written either.
Statuses(done) ==
    IF done THEN {"IN_PROGRESS", "FAILED", "COMPLETED"} ELSE {"IN_PROGRESS", "FAILED"}

\* From the settling of the work to the answer: the try, catch and finally of
\* guardedWrite and restart.
Settles(c, done) ==
    \E status \in Statuses(done), released \in BOOLEAN :
        /\ keys' = IF status = "IN_PROGRESS" THEN keys
                   ELSE Idem!Finish(keys, KeyOf(c), status,
                                    IF status = "COMPLETED" THEN c ELSE NoCall, now)
        /\ leases' = IF released THEN Lease!Release(leases, work[c].project, c) ELSE leases
        /\ Answered(c, status = "COMPLETED" /\ released)
        /\ UNCHANGED <<now, up, crashes, work, begunAt, effects>>

PreparationFails(c) ==
    /\ pc[c] = "preparing"
    /\ Settles(c, FALSE)
    /\ UNCHANGED child

\* The statement or its COMMIT, the restart, the effect of a command: once, any
\* time its child lives.
TakesEffect(c) ==
    /\ child[c].life = "ALIVE" /\ c \notin effects
    /\ effects' = effects \cup {c}
    /\ UNCHANGED <<callVars, leases, keys, child, begunAt>>

\* Also the end of a worker thread after it has posted its message.
Exits(c, zero) ==
    /\ MayExit(child[c], zero)
    /\ zero => c \in effects
    /\ SetChild(c, IF Handling(c) THEN Exited(child[c], zero) ELSE NoChild)
    /\ UNCHANGED <<callVars, leases, keys, begunAt, effects>>

WorkerAnswers(c) ==
    /\ pc[c] = "running" /\ work[c].kind \in DatabaseWrite
    /\ child[c].life = "EXITED"
    /\ SetChild(c, NoChild)
    /\ Settles(c, child[c].zero)

\* `void worker.terminate()': the thread may still be in a statement.
WorkerTimesOut(c) ==
    /\ pc[c] = "running" /\ work[c].kind \in DatabaseWrite
    /\ now >= Due(c)
    /\ SetChild(c, Abandoned(Escalated(TimedOut(child[c]))))
    /\ Settles(c, FALSE)

\* An executor has a timer and listeners for the child.
Watched(c) == ~Settled(child[c]) /\ (work[c].kind = "command" => Handling(c))

\* The executor's timer, in the agent or in the helper.
ChildTimesOut(c) ==
    /\ Watched(c) /\ work[c].kind \notin DatabaseWrite
    /\ now >= Due(c) /\ ~child[c].timedOut
    /\ SetChild(c, TimedOut(child[c]))
    /\ UNCHANGED <<callVars, leases, keys, begunAt, effects>>

\* The controller of a job is aborted; the append to its log throws.
ChildInterrupted(c) ==
    /\ Watched(c) /\ work[c].kind = "command"
    /\ SetChild(c, Terminated(child[c])) \/ SetChild(c, OutputBroken(child[c]))
    /\ UNCHANGED <<callVars, leases, keys, begunAt, effects>>

ChildIsKilled(c) ==
    /\ child[c].life = "ALIVE" /\ child[c].signal = "TERM"
    /\ SetChild(c, Escalated(child[c]))
    /\ UNCHANGED <<callVars, leases, keys, begunAt, effects>>

\* close: the pipes are let go of, also by whatever the child has left behind: only
\* the child is killed.  The helper keeps its result for the reply.
ChildCloses(c) ==
    /\ child[c].life = "EXITED" /\ work[c].kind \in Restart
    /\ IF work[c].kind = "restart"
       THEN SetChild(c, NoChild) /\ Settles(c, Resolves(child[c]) /\ child[c].zero)
       ELSE /\ SetChild(c, Closed(child[c]))
            /\ UNCHANGED <<callVars, leases, keys, begunAt, effects>>

CommandCloses(c) ==
    /\ child[c].life = "EXITED" /\ work[c].kind = "command"
    /\ SetChild(c, NoChild)
    /\ Answered(c, Resolves(child[c]) /\ child[c].zero)
    /\ UNCHANGED <<now, up, crashes, work, leases, keys, begunAt, effects>>

HelperReplies(c) ==
    /\ pc[c] = "running" /\ work[c].kind = "helperRestart"
    /\ child[c].life = "CLOSED"
    /\ Settles(c, Resolves(child[c]) /\ child[c].zero)
    /\ SetChild(c, NoChild)

\* The request is given up; the helper goes on.
HelperTimesOut(c) ==
    /\ pc[c] = "running" /\ work[c].kind = "helperRestart"
    /\ now >= ReplyDue(c)
    /\ Settles(c, FALSE)
    /\ SetChild(c, Abandoned(child[c]))

\* The socket of the helper is not half-open (Node's default): it ends when the
\* request has been read, and an answer written after an await may find it
\* closed.  The call fails, the helper goes on.
AnswerIsLost(c) ==
    /\ pc[c] = "running" /\ work[c].kind = "helperRestart"
    /\ Settles(c, FALSE)
    /\ SetChild(c, Abandoned(child[c]))

\* The helper is killed with its control group ...
HelperDies ==
    /\ \E c \in Call : work[c].kind = "helperRestart" /\ child[c].life \in {"ALIVE", "EXITED"}
    /\ child' = [c \in Call |-> IF work[c].kind = "helperRestart" THEN NoChild ELSE child[c]]
    /\ UNCHANGED <<callVars, leases, keys, begunAt, effects>>

\* ... and its connections break.
ConnectionBreaks(c) ==
    /\ pc[c] = "running" /\ work[c].kind = "helperRestart"
    /\ child[c].life = "NONE"
    /\ Settles(c, FALSE)
    /\ UNCHANGED child

Handler(c) ==
    \/ WorkStarts(c) \/ PreparationFails(c)
    \/ WorkerAnswers(c) \/ WorkerTimesOut(c)
    \/ ChildTimesOut(c) \/ ChildIsKilled(c)
    \/ HelperReplies(c) \/ HelperTimesOut(c) \/ ConnectionBreaks(c)

PipesClose(c) == ChildCloses(c) \/ CommandCloses(c)

(***************************************************************************)
(* The process.                                                            *)
(***************************************************************************)

\* The threads and, with the control group, the children die with the agent.
GuardCrash ==
    /\ child' = [c \in Call |-> IF work[c].kind = "helperRestart" THEN Abandoned(child[c]) ELSE NoChild]
    /\ UNCHANGED <<leases, keys, begunAt, effects>>

\* Leases are reclaimed, keys are pruned if maintenance does not fail.
GuardStart ==
    /\ leases' = Lease!ReclaimExpired(leases, now)
    /\ keys' \in {keys, Idem!PruneKeys(keys, now, Retention)}
    /\ UNCHANGED <<child, begunAt, effects>>

\* Timers come before the events of later requests.  Preparations are a few
\* file-system calls, short against the 5 s a lease has over its work.
Overdue(c) ==
    \/ pc[c] = "preparing"
    \/ Watched(c) /\ ~child[c].timedOut /\ now >= Due(c)
    \/ /\ pc[c] = "running" /\ work[c].kind = "helperRestart"
       /\ now >= ReplyDue(c)

(***************************************************************************)
(* Properties.                                                             *)
(***************************************************************************)

GivenUp(c) ==
    \/ child[c].timedOut
    \/ work[c].kind = "helperRestart" /\ pc[c] = "error"

\* A key does its work once, and who is told of success is told so of work
\* that was done: by this call, or by the call of the same arguments whose
\* result is replayed.  Timeouts with a late commit, failing audit rows,
\* crashes and restarts considered, the same key works again only after it was
\* pruned.
KeyedWorkIsDoneOnce ==
    /\ \A c, d \in effects :
           /\ {work[c].kind, work[d].kind} \subseteq Guarded
           /\ c # d /\ KeyOf(c) = KeyOf(d) /\ begunAt[c] <= begunAt[d]
           => begunAt[c] + Retention < begunAt[d]
    /\ \A c \in Call :
           work[c].kind \in Guarded /\ pc[c] = "ok"
           => \E d \in effects : KeyOf(d) = KeyOf(c) /\ work[d].print = work[c].print

\* "project-scoped mutation leases used to prevent overlapping mutating work"
\* (docs/architecture.md): two writes are at work on a project only if the agent
\* has given up one of them that has not ended yet, at its time limit or because
\* the helper's answer did not come through.
OverlapOnlyWhenGivenUp ==
    \A c, d \in Call :
        /\ c # d /\ work[c].project = work[d].project
        /\ {work[c].kind, work[d].kind} \subseteq Guarded
        /\ child[c].life = "ALIVE" /\ child[d].life = "ALIVE"
        => GivenUp(c) \/ GivenUp(d)

=============================================================================
