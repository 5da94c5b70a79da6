-------------------------- MODULE ConcurrentCalls --------------------------
(***************************************************************************)
(* Tool calls that write, served at the same time by one agent: the file   *)
(* tools, the guarded writes and the configured commands, with crashes of  *)
(* the agent and of the host helper.                                       *)
(***************************************************************************)
EXTENDS FileWrites, GuardedWrites

CONSTANTS Workload,     \* what the calls may ask for: functions on Call
          Lingering     \* calls whose child leaves descendants with its pipes

ASSUME WorkloadAssumption ==
    Workload \subseteq [Call -> Request] /\ Lingering \subseteq Call

vars == <<callVars, fileVars, guardVars>>

Pc == Over \cup {"new", "queued", "entered", "checked", "written", "rechecked",
                 "preparing", "running"}

TypeOK ==
    /\ now \in 0 .. MaxTime
    /\ up \in BOOLEAN
    /\ crashes \in 0 .. MaxCrashes
    /\ work \in [Call -> Request]
    /\ pc \in [Call -> Pc]
    /\ FileTypeOK
    /\ GuardTypeOK

Init ==
    /\ now = 0 /\ crashes = 0
    /\ up = TRUE
    /\ work \in Workload
    /\ pc = [c \in Call |-> "new"]
    /\ FileInit
    /\ GuardInit

Refuse(c) == Refused(c) /\ UNCHANGED <<fileVars, guardVars>>

FileCall(c) == (Look(c) \/ Enqueue(c)) /\ UNCHANGED guardVars

FileWork(c) == FileStep(c) /\ UNCHANGED guardVars

GuardedCall(c) ==
    /\ Replays(c) \/ Begins(c) \/ BeginFails(c) \/ CommandStarts(c)
    /\ UNCHANGED fileVars

GuardedWork(c) == Handler(c) /\ UNCHANGED fileVars

Close(c) == PipesClose(c) /\ UNCHANGED fileVars

\* What children do of their own accord, and what is done to them.
ChildWork(c) ==
    /\ TakesEffect(c) \/ ChildInterrupted(c) \/ \E zero \in BOOLEAN : Exits(c, zero)
    /\ UNCHANGED fileVars

HelperFault ==
    /\ HelperDies \/ \E c \in Call : AnswerIsLost(c)
    /\ UNCHANGED fileVars

Crash ==
    /\ up /\ crashes < MaxCrashes
    /\ up' = FALSE
    /\ crashes' = crashes + 1
    /\ pc' = Lost
    /\ FileCrash
    /\ GuardCrash
    /\ UNCHANGED <<now, work>>

Start ==
    /\ ~up
    /\ up' = TRUE
    /\ GuardStart
    /\ UNCHANGED <<now, crashes, work, pc, fileVars>>

\* Nothing in a file call depends on the time.
Tick ==
    /\ now < MaxTime
    /\ \E c \in Call : work[c].kind \notin FileWrite
    /\ \A c \in Call : ~Overdue(c)
    /\ now' = now + 1
    /\ UNCHANGED <<up, crashes, work, pc, fileVars, guardVars>>

Next ==
    \/ \E c \in Call : \/ Refuse(c)
                       \/ FileCall(c) \/ FileWork(c)
                       \/ GuardedCall(c) \/ GuardedWork(c) \/ Close(c)
                       \/ ChildWork(c)
    \/ HelperFault
    \/ Crash \/ Start
    \/ Tick

Spec == Init /\ [][Next]_vars

\* Handlers and timers go on, time passes, a process that was killed ends, and
\* its pipes close unless a descendant holds them.  No child is trusted to end by
\* itself.
Fairness ==
    /\ \A c \in Call : /\ WF_vars(FileWork(c))
                       /\ WF_vars(GuardedWork(c))
                       /\ WF_vars(child[c].signal = "KILL" /\ ChildWork(c))
    /\ \A c \in Call \ Lingering : WF_vars(Close(c))
    /\ WF_vars(Tick)

FairSpec == Spec /\ Fairness

(***************************************************************************)
(* Properties.                                                             *)
(***************************************************************************)

\* The agent itself awaits the close event.
AwaitsPipes(c) == work[c].kind \in {"restart", "command"}

\* Every call that is being served is answered, unless the agent goes down: no
\* chain of write locks is left hanging, and a child that ignores its time limit,
\* its abort and SIGTERM is killed.  A descendant with the pipes holds up only the
\* calls that await them in the agent, not those of the host helper.
CallsSettle ==
    \A c \in Call : (Handling(c) /\ (AwaitsPipes(c) => c \notin Lingering))
                        ~> pc[c] \in Over

=============================================================================
