-------------------------- MODULE ProcessExecutor --------------------------
(***************************************************************************)
(* One child process under executeArgv of commands/process-executor.ts:    *)
(* its time limit, the abort signal, callbacks that throw, the             *)
(* escalation from SIGTERM to SIGKILL, and the close event that settles    *)
(* the promise.  Each event is atomic: the operators map the child before  *)
(* it to the child after.  The output and its redaction are left out.      *)
(*                                                                         *)
(* A spawn error settles the promise too; no caller tells it from an exit  *)
(* with failure.                                                           *)
(***************************************************************************)

Child == [life     : {"NONE", "ALIVE", "EXITED", "CLOSED"},
          zero     : BOOLEAN,                   \* the exit code
          signal   : {"NONE", "TERM", "KILL"},  \* the last one sent
          timedOut : BOOLEAN,
          broken   : BOOLEAN]                   \* callbackError is set

NoChild == [life |-> "NONE", zero |-> FALSE, signal |-> "NONE",
            timedOut |-> FALSE, broken |-> FALSE]

\* The child after spawn().  It gets its time limit and its listeners only if onSpawn,
\* which comes first, does not throw: otherwise the promise rejects at once, and of
\* the operators below only MayExit and Exited apply (CommandStarts and Watched of
\* GuardedWrites, SpawnThrows of TaskJobs).
Spawned == [NoChild EXCEPT !.life = "ALIVE"]

Settled(ch) == ch.life \in {"NONE", "CLOSED"}

\* The first call sends SIGTERM and arms the one timer of the escalation.
Terminated(ch) ==
    [ch EXCEPT !.signal = IF @ = "NONE" THEN "TERM" ELSE @]

\* The timer is cleared by the close event, not by the exit: a child that ended
\* in time is reported as timed out while a descendant holds its pipes.
TimedOut(ch) == [Terminated(ch) EXCEPT !.timedOut = TRUE]

OutputBroken(ch) == [Terminated(ch) EXCEPT !.broken = TRUE]

\* Mutant: the timer repeats the polite signal.
EscalatedPolitely(ch) == [ch EXCEPT !.signal = "TERM"]

Escalated(ch) == [ch EXCEPT !.signal = "KILL"]

\* A killed child has no exit code; one that was asked to end may have any.
MayExit(ch, zero) == ch.life = "ALIVE" /\ (ch.signal = "KILL" => ~zero)

Exited(ch, zero) == [ch EXCEPT !.life = "EXITED", !.zero = zero]

Closed(ch) == [ch EXCEPT !.life = "CLOSED"]

\* What is left of a child nobody waits for any more: it matters while it lives.
Abandoned(ch) == IF ch.life = "ALIVE" THEN ch ELSE NoChild

\* What the close event resolves with; an abort is no error by itself.
Resolves(ch) == ~ch.broken /\ ~ch.timedOut

=============================================================================
