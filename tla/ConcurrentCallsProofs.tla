----------------------- MODULE ConcurrentCallsProofs ------------------------
(***************************************************************************)
(* Proofs about ConcurrentCalls, for any calls, projects and time limits:  *)
(* its types, that guarded writes of a project overlap only after one of   *)
(* them has been given up, that no edit is lost, and that a key does its   *)
(* work once.                                                              *)
(***************************************************************************)
EXTENDS ConcurrentCalls, TLAPS

(***************************************************************************)
(* Types.                                                                  *)
(***************************************************************************)

\* What the events of a child make of it is a child.
LEMMA ChildTyped ==
    /\ NoChild \in Child /\ Spawned \in Child
    /\ \A ch \in Child :
          /\ Terminated(ch) \in Child /\ TimedOut(ch) \in Child
          /\ OutputBroken(ch) \in Child /\ Escalated(ch) \in Child
          /\ Closed(ch) \in Child /\ Abandoned(ch) \in Child
          /\ \A zero \in BOOLEAN : Exited(ch, zero) \in Child
BY ZenonT(60) DEF Child, NoChild, Spawned, Terminated, TimedOut, OutputBroken, Escalated,
       Closed, Exited, Abandoned

LEMMA SetChildTyped ==
    ASSUME child \in [Call -> Child], NEW c \in Call, NEW ch \in Child, SetChild(c, ch)
    PROVE  child' \in [Call -> Child]
BY DEF SetChild

LEMMA PcTyped ==
    ASSUME pc \in [Call -> Pc], NEW c \in Call,
           \/ \E step \in Pc : GoOn(c, step)
           \/ \E done \in BOOLEAN : Answered(c, done)
    PROVE  pc' \in [Call -> Pc]
BY DEF GoOn, Answered, Answers, Pc, Over

\* The stores keep their tables well typed.
LEMMA BeginTyped ==
    ASSUME TypeOK, NEW c \in Call, Arrives(c)
    PROVE  BegunKey(c) \in Idem!KeyTable
<1>1. work[c].print \in Fingerprint /\ now \in Nat
  BY DEF TypeOK, Request
<1> QED
  BY <1>1 DEF TypeOK, GuardTypeOK, BegunKey, Idem!Begin, Idem!KeyTable, Idem!KeyRecord,
              Idem!KeyStatus

LEMMA FinishTyped ==
    ASSUME NEW table \in Idem!KeyTable, NEW k,
           NEW status \in {"COMPLETED", "FAILED"}, NEW result \in Call \cup {NoCall},
           NEW t \in Nat
    PROVE  Idem!Finish(table, k, status, result, t) \in Idem!KeyTable
BY DEF Idem!Finish, Idem!KeyTable, Idem!KeyRecord, Idem!KeyStatus

LEMMA PruneTyped ==
    ASSUME NEW table \in Idem!KeyTable, NEW t \in Nat
    PROVE  Idem!PruneKeys(table, t, Retention) \in Idem!KeyTable
BY DEF Idem!PruneKeys, Idem!NoRecord, Idem!KeyTable, Idem!KeyRecord, Idem!KeyStatus

LEMMA AcquireTyped ==
    ASSUME NEW table \in Lease!LeaseTable, NEW p \in Project, NEW c \in Call,
           NEW t \in Nat, NEW ttl \in Nat
    PROVE  Lease!Acquire(table, p, c, t, ttl) \in Lease!LeaseTable
BY DEF Lease!Acquire, Lease!LeaseTable, Lease!LeaseRow

LEMMA ReleaseTyped ==
    ASSUME NEW table \in Lease!LeaseTable, NEW p, NEW c
    PROVE  Lease!Release(table, p, c) \in Lease!LeaseTable
BY DEF Lease!Release, Lease!LeaseTable, Lease!LeaseRow, Lease!NoLease

LEMMA ReclaimTyped ==
    ASSUME NEW table \in Lease!LeaseTable, NEW t \in Nat
    PROVE  Lease!ReclaimExpired(table, t) \in Lease!LeaseTable
BY DEF Lease!ReclaimExpired, Lease!LeaseTable, Lease!LeaseRow, Lease!NoLease

LEMMA LimitsTyped ==
    ASSUME NEW c \in Call
    PROVE  /\ Limit(c) \in Nat /\ LeaseTtl(c) \in Nat
           /\ work[c].kind \in Guarded => Limit(c) < LeaseTtl(c)
           /\ work[c].kind = "helperRestart" => Limit(c) < HelperTimeout
BY TimeAssumption DEF Limit, LeaseTtl, Guarded, DatabaseWrite, Restart

\* The end of a guarded write keeps the types of what it changes.
LEMMA SettlesTyped ==
    ASSUME TypeOK, NEW c \in Call, NEW done \in BOOLEAN, Settles(c, done)
    PROVE  /\ keys' \in Idem!KeyTable /\ leases' \in Lease!LeaseTable
           /\ pc' \in [Call -> Pc]
           /\ UNCHANGED <<now, up, crashes, work, begunAt, effects>>
<1>1. PICK status \in Statuses(done), released \in BOOLEAN :
        /\ keys' = IF status = "IN_PROGRESS" THEN keys
                   ELSE Idem!Finish(keys, KeyOf(c), status,
                                    IF status = "COMPLETED" THEN c ELSE NoCall, now)
        /\ leases' = IF released THEN Lease!Release(leases, work[c].project, c) ELSE leases
        /\ Answered(c, status = "COMPLETED" /\ released)
        /\ UNCHANGED <<now, up, crashes, work, begunAt, effects>>
  BY DEF Settles
<1>2. keys \in Idem!KeyTable /\ leases \in Lease!LeaseTable /\ now \in Nat
  BY DEF TypeOK, GuardTypeOK
<1>3. keys' \in Idem!KeyTable
  <2>1. CASE status = "IN_PROGRESS"
    BY <1>1, <1>2, <2>1
  <2>2. CASE status \in {"COMPLETED", "FAILED"}
    <3>1. (IF status = "COMPLETED" THEN c ELSE NoCall) \in Call \cup {NoCall}
      OBVIOUS
    <3> QED
      BY <1>1, <1>2, <2>2, <3>1, FinishTyped
  <2> QED
    BY <1>1, <2>1, <2>2 DEF Statuses
<1>4. leases' \in Lease!LeaseTable
  BY <1>1, <1>2, ReleaseTyped
<1>5. pc' \in [Call -> Pc]
  BY <1>1, PcTyped DEF TypeOK
<1> QED
  BY <1>1, <1>3, <1>4, <1>5

LEMMA InitTyped == Init => TypeOK
<1> SUFFICES ASSUME Init PROVE TypeOK
  OBVIOUS
<1>1. now \in 0 .. MaxTime /\ up \in BOOLEAN /\ crashes \in 0 .. MaxCrashes
  BY CallAssumption DEF Init
<1>2. work \in [Call -> Request] /\ pc \in [Call -> Pc]
  BY WorkloadAssumption DEF Init, Pc
<1>3. FileTypeOK
  BY DEF Init, FileInit, FileTypeOK
<1>4. GuardTypeOK
  BY DEF Init, GuardInit, GuardTypeOK, NoChild, Child, Lease!NoLease, Lease!LeaseTable,
         Lease!LeaseRow, Idem!NoRecord, Idem!KeyTable, Idem!KeyRecord, Idem!KeyStatus
<1> QED
  BY <1>1, <1>2, <1>3, <1>4 DEF TypeOK

\* The steps of a file call.
LEMMA FileTyped ==
    ASSUME TypeOK, NEW c \in Call, FileCall(c) \/ FileWork(c)
    PROVE  TypeOK'
<1>1. LockPath(c) \in Path /\ File(c) \in Path
  BY FileAssumption DEF TypeOK, Request, LockPath, File
<1>2. Unlocked(c) \in [Path -> Call \cup {NoCall}]
  BY DEF TypeOK, FileTypeOK, Unlocked
<1>3. CASE UNCHANGED <<now, up, crashes, work, guardVars>> /\ FileTypeOK' /\ pc' \in [Call -> Pc]
  BY <1>3 DEF TypeOK, GuardTypeOK, guardVars
<1>4. CASE Look(c)
  BY <1>1, <1>4 DEF FileCall, FileWork, Look, TypeOK, FileTypeOK, GuardTypeOK, callVars, guardVars
<1>5. ASSUME UNCHANGED guardVars,
             Enqueue(c) \/ Enter(c) \/ Checks(c) \/ WriteTemp(c) \/ ChecksAgain(c)
      PROVE  TypeOK'
  <2>1. pc' \in [Call -> Pc]
    <3>1. \E step \in Pc : GoOn(c, step)
      BY <1>5 DEF Enqueue, Enter, Checks, WriteTemp, ChecksAgain, Pc
    <3> QED
      BY <3>1, PcTyped DEF TypeOK
  <2>2. FileTypeOK'
    BY <1>1, <1>5 DEF Enqueue, Enter, Checks, WriteTemp, ChecksAgain, TypeOK, FileTypeOK, fileVars
  <2>3. UNCHANGED <<now, up, crashes, work>>
    BY <1>5 DEF Enqueue, Enter, Checks, WriteTemp, ChecksAgain
  <2> QED
    BY <1>5, <2>1, <2>2, <2>3, <1>3
<1>6. ASSUME UNCHANGED guardVars, Rename(c) \/ Delete(c) \/ FileFails(c)
      PROVE  TypeOK'
  <2>1. \E done \in BOOLEAN : Leave(c, done)
    BY <1>6 DEF Rename, Delete, FileFails
  <2>2. pc' \in [Call -> Pc]
    BY <2>1, PcTyped DEF TypeOK, Leave
  <2>3. tail' \in [Path -> Call \cup {NoCall}] /\ UNCHANGED <<now, up, crashes, work, seen, after>>
    BY <1>2, <2>1 DEF Leave
  <2>4. content' \in [Path -> Call \cup {Original, Absent}] /\ temps' \subseteq Call
    BY <1>1, <1>6 DEF Rename, Delete, FileFails, TypeOK, FileTypeOK
  <2>5. FileTypeOK'
    BY <2>3, <2>4 DEF TypeOK, FileTypeOK
  <2> QED
    BY <1>6, <2>2, <2>3, <2>5, <1>3
<1> QED
  BY <1>4, <1>5, <1>6 DEF FileCall, FileWork, FileStep

\* What the start of a guarded write or a command keeps.
LEMMA GuardedCallTyped ==
    ASSUME TypeOK, NEW c \in Call, GuardedCall(c)
    PROVE  TypeOK'
<1>1. work[c].project \in Project /\ now \in Nat /\ Spawned \in Child
  BY ChildTyped DEF TypeOK, Request
<1>2. pc' \in [Call -> Pc]
  <2>1. \/ \E step \in Pc : GoOn(c, step)
        \/ \E done \in BOOLEAN : Answered(c, done)
    BY DEF GuardedCall, Replays, Begins, BeginFails, CommandStarts, Pc
  <2> QED
    BY <2>1, PcTyped DEF TypeOK
<1>3. keys' \in Idem!KeyTable
  <2>1. Arrives(c) => BegunKey(c) \in Idem!KeyTable
    BY BeginTyped
  <2>2. Arrives(c) => Idem!Finish(BegunKey(c), KeyOf(c), "FAILED", NoCall, now) \in Idem!KeyTable
    BY <1>1, <2>1, FinishTyped
  <2> QED
    BY <2>1, <2>2 DEF GuardedCall, Replays, Begins, BeginFails, CommandStarts,
                      guardVars, TypeOK, GuardTypeOK
<1>4. leases' \in Lease!LeaseTable
  <2>1. Lease!Acquire(leases, work[c].project, c, now, LeaseTtl(c)) \in Lease!LeaseTable
    BY <1>1, LimitsTyped, AcquireTyped DEF TypeOK, GuardTypeOK
  <2> QED
    BY <2>1 DEF GuardedCall, Replays, Begins, BeginFails, CommandStarts,
                guardVars, TypeOK, GuardTypeOK
<1>5. child' \in [Call -> Child]
  BY <1>1, SetChildTyped DEF GuardedCall, Replays, Begins, BeginFails, CommandStarts,
                             guardVars, TypeOK, GuardTypeOK
<1>6. begunAt' \in [Call -> Nat] /\ UNCHANGED <<now, up, crashes, work, effects, fileVars>>
  BY <1>1 DEF GuardedCall, Replays, Begins, BeginFails, CommandStarts,
              guardVars, TypeOK, GuardTypeOK
<1> QED
  BY <1>2, <1>3, <1>4, <1>5, <1>6 DEF TypeOK, GuardTypeOK, FileTypeOK, fileVars

\* Steps that change nothing but a child, and maybe the program counter of its
\* call.
LEMMA ChildStepTyped ==
    ASSUME TypeOK, child' \in [Call -> Child], pc' \in [Call -> Pc],
           UNCHANGED <<now, up, crashes, work, leases, keys, begunAt, fileVars>>,
           effects' \subseteq Call
    PROVE  TypeOK'
BY DEF TypeOK, GuardTypeOK, FileTypeOK, fileVars

LEMMA SettlingStepTyped ==
    ASSUME TypeOK, NEW c \in Call, NEW done \in BOOLEAN, Settles(c, done),
           child' \in [Call -> Child], UNCHANGED fileVars
    PROVE  TypeOK'
<1>1. /\ keys' \in Idem!KeyTable /\ leases' \in Lease!LeaseTable
      /\ pc' \in [Call -> Pc]
      /\ UNCHANGED <<now, up, crashes, work, begunAt, effects>>
  BY SettlesTyped
<1> QED
  BY <1>1 DEF TypeOK, GuardTypeOK, FileTypeOK, fileVars

LEMMA GuardedWorkTyped ==
    ASSUME TypeOK, NEW c \in Call,
           GuardedWork(c) \/ Close(c)
    PROVE  TypeOK'
<1>1. /\ child[c] \in Child /\ child \in [Call -> Child]
      /\ pc \in [Call -> Pc] /\ effects \subseteq Call
  BY DEF TypeOK, GuardTypeOK
<1>2. /\ child[c].zero \in BOOLEAN /\ Resolves(child[c]) \in BOOLEAN
      /\ (Resolves(child[c]) /\ child[c].zero) \in BOOLEAN
  BY <1>1 DEF Child, Resolves
<1>3. UNCHANGED fileVars
  BY DEF GuardedWork, Close
<1>4. CASE WorkStarts(c)
  <2>1. child' \in [Call -> Child]
    BY <1>1, <1>4, ChildTyped, SetChildTyped DEF WorkStarts
  <2>2. pc' \in [Call -> Pc]
    BY <1>1, <1>4, PcTyped DEF WorkStarts, Pc
  <2> QED
    BY <1>1, <1>3, <1>4, <2>1, <2>2, ChildStepTyped DEF WorkStarts
<1>5. CASE PreparationFails(c) \/ HelperTimesOut(c) \/ ConnectionBreaks(c)
  <2>1. child' \in [Call -> Child]
    BY <1>1, <1>5, ChildTyped, SetChildTyped
       DEF PreparationFails, HelperTimesOut, ConnectionBreaks
  <2> QED
    BY <1>3, <1>5, <2>1, SettlingStepTyped
       DEF PreparationFails, HelperTimesOut, ConnectionBreaks
<1>6. CASE HelperReplies(c)
  <2>1. child' \in [Call -> Child]
    BY <1>1, <1>6, ChildTyped, SetChildTyped DEF HelperReplies
  <2> QED
    BY <1>2, <1>3, <1>6, <2>1, SettlingStepTyped DEF HelperReplies
<1>7. CASE WorkerAnswers(c)
  <2>1. child' \in [Call -> Child]
    BY <1>1, <1>7, ChildTyped, SetChildTyped DEF WorkerAnswers
  <2> QED
    BY <1>2, <1>3, <1>7, <2>1, SettlingStepTyped DEF WorkerAnswers
<1>8. CASE WorkerTimesOut(c)
  <2>1. child' \in [Call -> Child]
    BY <1>1, <1>8, ChildTyped, SetChildTyped DEF WorkerTimesOut
  <2> QED
    BY <1>3, <1>8, <2>1, SettlingStepTyped DEF WorkerTimesOut
<1>9. CASE ChildTimesOut(c) \/ ChildIsKilled(c)
  <2>1. child' \in [Call -> Child]
    BY <1>1, <1>9, ChildTyped, SetChildTyped DEF ChildTimesOut, ChildIsKilled
  <2> QED
    BY <1>1, <1>3, <1>9, <2>1, ChildStepTyped DEF ChildTimesOut, ChildIsKilled, callVars
<1>10. CASE ChildCloses(c)
  <2>1. child' \in [Call -> Child]
    BY <1>1, <1>10, ChildTyped, SetChildTyped DEF ChildCloses
  <2>2. CASE work[c].kind = "restart"
    BY <1>2, <1>3, <1>10, <2>1, <2>2, SettlingStepTyped DEF ChildCloses
  <2>3. CASE work[c].kind # "restart"
    BY <1>1, <1>3, <1>10, <2>1, <2>3, ChildStepTyped DEF ChildCloses, callVars
  <2> QED
    BY <2>2, <2>3
<1>11. CASE CommandCloses(c)
  <2>1. child' \in [Call -> Child]
    BY <1>1, <1>11, ChildTyped, SetChildTyped DEF CommandCloses
  <2>2. pc' \in [Call -> Pc]
    BY <1>1, <1>2, <1>11, PcTyped DEF CommandCloses
  <2> QED
    BY <1>1, <1>3, <1>11, <2>1, <2>2, ChildStepTyped DEF CommandCloses
<1> QED
  BY <1>4, <1>5, <1>6, <1>7, <1>8, <1>9, <1>10, <1>11
     DEF GuardedWork, Close, Handler, PipesClose

LEMMA ChildWorkTyped ==
    ASSUME TypeOK, NEW c \in Call, ChildWork(c)
    PROVE  TypeOK'
<1>1. /\ child[c] \in Child /\ child \in [Call -> Child]
      /\ pc \in [Call -> Pc] /\ effects \subseteq Call
  BY DEF TypeOK, GuardTypeOK
<1>2. child' \in [Call -> Child]
  BY <1>1, ChildTyped, SetChildTyped DEF ChildWork, TakesEffect, ChildInterrupted, Exits
<1>3. pc' = pc /\ effects' \subseteq Call
  BY <1>1 DEF ChildWork, TakesEffect, ChildInterrupted, Exits, callVars
<1> QED
  BY <1>1, <1>2, <1>3, ChildStepTyped
     DEF ChildWork, TakesEffect, ChildInterrupted, Exits, callVars

LEMMA TypeStep == TypeOK /\ [Next]_vars => TypeOK'
<1> SUFFICES ASSUME TypeOK, [Next]_vars PROVE TypeOK'
  OBVIOUS
<1>1. ASSUME NEW c \in Call, Refuse(c)
      PROVE  TypeOK'
  <2>1. pc' \in [Call -> Pc]
    BY <1>1, PcTyped DEF TypeOK, Refuse, Refused, Pc, Over
  <2> QED
    BY <1>1, <2>1 DEF TypeOK, Refuse, Refused, fileVars, guardVars, FileTypeOK, GuardTypeOK
<1>2. ASSUME HelperFault
      PROVE  TypeOK'
  <2>1. CASE HelperDies
    <3>1. child' \in [Call -> Child]
      BY <2>1, ChildTyped DEF HelperDies, TypeOK, GuardTypeOK
    <3> QED
      BY <1>2, <2>1, <3>1, ChildStepTyped DEF HelperFault, HelperDies, TypeOK, GuardTypeOK, callVars
  <2>2. ASSUME NEW c \in Call, AnswerIsLost(c)
        PROVE  TypeOK'
    <3>1. child' \in [Call -> Child]
      BY <2>2, ChildTyped, SetChildTyped DEF AnswerIsLost, TypeOK, GuardTypeOK
    <3> QED
      BY <1>2, <2>2, <3>1, SettlingStepTyped DEF HelperFault, AnswerIsLost
  <2> QED
    BY <1>2, <2>1, <2>2 DEF HelperFault
<1>3. ASSUME Crash
      PROVE  TypeOK'
  <2>1. child' \in [Call -> Child]
    BY <1>3, ChildTyped DEF Crash, GuardCrash, TypeOK, GuardTypeOK
  <2>2. pc' \in [Call -> Pc]
    BY <1>3 DEF Crash, Lost, TypeOK, Pc, Over
  <2>3. crashes' \in 0 .. MaxCrashes
    BY <1>3, CallAssumption DEF Crash, TypeOK
  <2> QED
    BY <1>3, <2>1, <2>2, <2>3 DEF Crash, FileCrash, GuardCrash, TypeOK, FileTypeOK, GuardTypeOK
<1>4. ASSUME Start
      PROVE  TypeOK'
  <2>1. leases' \in Lease!LeaseTable /\ keys' \in Idem!KeyTable
    BY <1>4, ReclaimTyped, PruneTyped DEF Start, GuardStart, TypeOK, GuardTypeOK
  <2> QED
    BY <1>4, <2>1 DEF Start, GuardStart, TypeOK, FileTypeOK, GuardTypeOK, fileVars
<1>5. ASSUME Tick
      PROVE  TypeOK'
  <2>1. now' \in 0 .. MaxTime
    BY <1>5, CallAssumption DEF Tick, TypeOK
  <2> QED
    BY <1>5, <2>1 DEF Tick, TypeOK, FileTypeOK, GuardTypeOK, fileVars, guardVars
<1>6. CASE UNCHANGED vars
  BY <1>6 DEF vars, callVars, fileVars, guardVars, TypeOK, FileTypeOK, GuardTypeOK
<1> QED
  BY <1>1, <1>2, <1>3, <1>4, <1>5, <1>6, FileTyped, GuardedCallTyped, GuardedWorkTyped,
     ChildWorkTyped DEF Next

\* Every variable keeps its type: no step of a call, a child or a crash leaves
\* a key in a status the store does not know.
THEOREM TypeCorrect == Spec => []TypeOK
BY InitTyped, TypeStep, PTL DEF Spec

(***************************************************************************)
(* Overlap.  The invariant says why two workers cannot meet: while a call  *)
(* may work and has not been given up, its project's lease is its own, and *)
(* runs longer than the limit.                                             *)
(***************************************************************************)

Working(c) ==
    /\ work[c].kind \in Guarded
    /\ pc[c] = "preparing" \/ (child[c].life = "ALIVE" /\ ~GivenUp(c))

Held(c) ==
    /\ pc[c] = "new" => child[c] = NoChild
    /\ pc[c] = "preparing" =>
          /\ work[c].kind \in Guarded
          /\ child[c] = NoChild
          /\ now = begunAt[c]
    /\ Working(c) =>
          /\ leases[work[c].project] =
                [owner |-> c, expiresAt |-> begunAt[c] + LeaseTtl(c)]
          /\ now <= Due(c)

HeldWhileWorking == \A c \in Call : Held(c)

LEMMA LimitWithinLease ==
    ASSUME TypeOK, HeldWhileWorking, NEW c \in Call, Working(c)
    PROVE  /\ leases[work[c].project].owner = c
           /\ Lease!Unexpired(leases[work[c].project], now)
<1>1. Limit(c) \in Nat /\ LeaseTtl(c) \in Nat /\ Limit(c) < LeaseTtl(c)
  BY LimitsTyped DEF Working, GivenUp
<1>2. /\ leases[work[c].project] = [owner |-> c, expiresAt |-> begunAt[c] + LeaseTtl(c)]
      /\ now <= begunAt[c] + Limit(c)
  BY DEF HeldWhileWorking, Held, Due
<1>3. begunAt[c] \in Nat /\ now \in Nat
  BY DEF TypeOK, GuardTypeOK
<1> QED
  BY <1>1, <1>2, <1>3 DEF Lease!Unexpired

\* Steps after which nobody works who did not work before.
NoNewWork(c) ==
    /\ pc'[c] = "new" => pc[c] = "new" /\ child'[c] = child[c]
    /\ pc'[c] = "preparing" => pc[c] = "preparing" /\ child'[c] = child[c]
    /\ Working(c)' => Working(c)

LEMMA QuietStep ==
    ASSUME HeldWhileWorking, UNCHANGED <<now, work, leases, begunAt>>,
           \A c \in Call : NoNewWork(c)
    PROVE  HeldWhileWorking'
<1> SUFFICES ASSUME NEW c \in Call PROVE Held(c)'
  BY DEF HeldWhileWorking
<1>1. Held(c) /\ NoNewWork(c)
  BY DEF HeldWhileWorking
<1> QED
  BY <1>1 DEF Held, NoNewWork, Working, GivenUp, Due, Limit, LeaseTtl

\* A call that ends without a child at work lets its lease go, and no other's.
LEMMA SettlingStep ==
    ASSUME TypeOK, HeldWhileWorking, NEW c \in Call, NEW done \in BOOLEAN,
           Settles(c, done), ~Working(c)',
           \A d \in Call \ {c} : child'[d] = child[d]
    PROVE  HeldWhileWorking'
<1>1. UNCHANGED <<now, work, begunAt>>
  BY DEF Settles
<1>2. pc'[c] \in Over /\ \A d \in Call \ {c} : pc'[d] = pc[d]
  BY DEF Settles, Answered, Answers, Over, TypeOK
<1>3. Held(c)'
  BY <1>2 DEF Held, Over
<1>4. ASSUME NEW d \in Call \ {c}
      PROVE  Held(d)'
  <2>1. Held(d) /\ (Working(d)' => Working(d))
    BY <1>1, <1>2 DEF HeldWhileWorking, Working, GivenUp
  <2>2. Working(d) => leases'[work[d].project] = leases[work[d].project]
    <3> SUFFICES ASSUME Working(d)
                 PROVE  leases'[work[d].project] = leases[work[d].project]
      OBVIOUS
    <3>1. leases[work[d].project].owner # c
      BY LimitWithinLease
    <3>2. leases' = leases \/ leases' = Lease!Release(leases, work[c].project, c)
      BY DEF Settles
    <3>3. work[d].project \in Project /\ leases \in Lease!LeaseTable
      BY DEF TypeOK, GuardTypeOK, Request
    <3> QED
      BY <3>1, <3>2, <3>3 DEF Lease!Release, Lease!LeaseTable
  <2> QED
    BY <1>1, <1>2, <2>1, <2>2 DEF Held, Due, Limit, LeaseTtl
<1> QED
  BY <1>3, <1>4 DEF HeldWhileWorking

\* A restart by the helper that fails has been given up.
LEMMA UnansweredHelper ==
    ASSUME pc \in [Call -> Pc], NEW c \in Call, work[c].kind = "helperRestart",
           Settles(c, FALSE)
    PROVE  ~Working(c)'
<1>1. \E status \in Statuses(FALSE), released \in BOOLEAN :
          Answered(c, status = "COMPLETED" /\ released)
  BY DEF Settles
<1>2. pc'[c] = "error"
  BY <1>1 DEF Statuses, Answered, Answers
<1>3. work' = work
  BY DEF Settles
<1> QED
  BY <1>2, <1>3 DEF Working, GivenUp

\* Begin: an unexpired lease of another worker would have refused it.
LEMMA BeginStep ==
    ASSUME TypeOK, HeldWhileWorking, NEW c \in Call, Begins(c)
    PROVE  HeldWhileWorking'
<1>1. /\ pc[c] = "new" /\ work[c].kind \in Guarded /\ child[c] = NoChild
      /\ Lease!Acquirable(leases[work[c].project], c, now)
  BY DEF Begins, Arrives, HeldWhileWorking, Held
<1>2. /\ leases' = Lease!Acquire(leases, work[c].project, c, now, LeaseTtl(c))
      /\ begunAt' = [begunAt EXCEPT ![c] = now]
      /\ UNCHANGED <<now, work>>
  BY DEF Begins
<1>3. \A d \in Call \ {c} : pc'[d] = pc[d] /\ child'[d] = child[d]
  BY DEF Begins, GoOn, SetChild, TypeOK, GuardTypeOK
<1>4. /\ work[c].project \in Project /\ leases \in Lease!LeaseTable
      /\ begunAt \in [Call -> Nat] /\ now \in Nat
  BY DEF TypeOK, GuardTypeOK, Request
<1>5. Held(c)'
  <2>1. /\ leases'[work[c].project] = [owner |-> c, expiresAt |-> now + LeaseTtl(c)]
        /\ begunAt'[c] = now
    BY <1>2, <1>4 DEF Lease!Acquire, Lease!LeaseTable
  <2>2. now <= now + Limit(c)
    BY <1>4, LimitsTyped
  <2>3. \/ pc'[c] = "running"
        \/ pc'[c] = "preparing" /\ child' = child
    BY DEF Begins, GoOn, TypeOK
  <2> QED
    BY <1>1, <1>2, <2>1, <2>2, <2>3 DEF Held, Due, Limit, LeaseTtl
<1>6. ASSUME NEW d \in Call \ {c}
      PROVE  Held(d)'
  <2>1. Held(d) /\ (Working(d)' => Working(d))
    BY <1>2, <1>3 DEF HeldWhileWorking, Working, GivenUp
  <2>2. Working(d) => work[d].project # work[c].project
    <3> SUFFICES ASSUME Working(d), work[d].project = work[c].project PROVE FALSE
      OBVIOUS
    <3>1. leases[work[c].project].owner = d /\ Lease!Unexpired(leases[work[c].project], now)
      BY LimitWithinLease
    <3>2. leases[work[c].project] # Lease!NoLease
      BY <3>1, CallAssumption DEF Lease!NoLease
    <3> QED
      BY <1>1, <3>1, <3>2 DEF Lease!Acquirable
  <2>3. Working(d) => leases'[work[d].project] = leases[work[d].project]
    BY <1>2, <1>4, <2>2 DEF Lease!Acquire, Lease!LeaseTable, TypeOK, Request
  <2>4. begunAt'[d] = begunAt[d]
    BY <1>2, <1>4
  <2> QED
    BY <1>2, <1>3, <2>1, <2>3, <2>4 DEF Held, Due, Limit, LeaseTtl
<1> QED
  BY <1>5, <1>6 DEF HeldWhileWorking

LEMMA CommandUnguarded == "command" \notin Guarded
BY DEF Guarded, DatabaseWrite, Restart

LEMMA CommandStep ==
    ASSUME TypeOK, HeldWhileWorking, NEW c \in Call, CommandStarts(c)
    PROVE  HeldWhileWorking'
<1>1. /\ UNCHANGED <<now, work, leases>>
      /\ work[c].kind = "command" /\ pc'[c] \in {"running", "error"}
      /\ \A d \in Call \ {c} : /\ pc'[d] = pc[d] /\ child'[d] = child[d]
                               /\ begunAt'[d] = begunAt[d]
  BY DEF CommandStarts, GoOn, Answered, Answers, SetChild, TypeOK, GuardTypeOK
<1>2. "command" \notin Guarded
  BY CommandUnguarded
<1>3. \A d \in Call : Held(d)
  BY DEF HeldWhileWorking
<1> QED
  BY <1>1, <1>2, <1>3 DEF HeldWhileWorking, Held, Working, GivenUp, Due, Limit, LeaseTtl

\* No event brings a child to life or takes back its timeout.
LEMMA LifeOfChild ==
    ASSUME NEW ch \in Child
    PROVE  /\ Terminated(ch).life = ch.life /\ Terminated(ch).timedOut = ch.timedOut
           /\ OutputBroken(ch).life = ch.life /\ OutputBroken(ch).timedOut = ch.timedOut
           /\ TimedOut(ch).life = ch.life /\ TimedOut(ch).timedOut
           /\ Escalated(ch).life = ch.life /\ Escalated(ch).timedOut = ch.timedOut
           /\ Abandoned(ch).life = "ALIVE" => Abandoned(ch) = ch
           /\ \A zero : Exited(ch, zero).life = "EXITED"
BY DEF Child, NoChild, Terminated, OutputBroken, TimedOut, Escalated, Exited, Abandoned

LEMMA GuardedWorkStep ==
    ASSUME TypeOK, HeldWhileWorking, NEW c \in Call,
           GuardedWork(c) \/ Close(c)
    PROVE  HeldWhileWorking'
<1>1. /\ Held(c) /\ child[c] \in Child /\ child \in [Call -> Child] /\ pc \in [Call -> Pc]
      /\ now \in Nat /\ begunAt[c] \in Nat
  BY DEF HeldWhileWorking, TypeOK, GuardTypeOK
<1>2. /\ child[c].zero \in BOOLEAN /\ Resolves(child[c]) \in BOOLEAN
      /\ (Resolves(child[c]) /\ child[c].zero) \in BOOLEAN
  BY <1>1 DEF Child, Resolves
<1>3. ASSUME NEW done \in BOOLEAN, Settles(c, done)
      PROVE  /\ ~Working(c)' <=> ~(work[c].kind \in Guarded /\ child'[c].life = "ALIVE"
                                   /\ ~GivenUp(c)')
             /\ pc'[c] \in Over
  BY <1>1, <1>3 DEF Settles, Answered, Answers, Over, Working, GivenUp
<1>4. CASE WorkStarts(c)
  <2>1. /\ UNCHANGED <<now, work, leases, begunAt>>
        /\ pc[c] = "preparing" /\ pc'[c] = "running"
        /\ \A d \in Call \ {c} : pc'[d] = pc[d] /\ child'[d] = child[d]
    BY <1>1, <1>4 DEF WorkStarts, GoOn, SetChild
  <2>2. \A d \in Call : NoNewWork(d)
    BY <1>1, <2>1 DEF NoNewWork, Working, GivenUp, Held
  <2> QED
    BY <2>1, <2>2, QuietStep
<1>5. CASE PreparationFails(c)
  <2>1. Settles(c, FALSE) /\ child' = child /\ child[c] = NoChild
    BY <1>1, <1>5 DEF PreparationFails, Held
  <2>2. child'[c].life = "NONE"
    BY <2>1 DEF NoChild
  <2>3. ~Working(c)'
    BY <1>3, <2>1, <2>2
  <2> QED
    BY <2>1, <2>3, SettlingStep
<1>6. CASE HelperReplies(c)
  <2>1. /\ Settles(c, Resolves(child[c]) /\ child[c].zero) /\ child'[c].life = "NONE"
        /\ \A d \in Call \ {c} : child'[d] = child[d]
    BY <1>1, <1>6 DEF HelperReplies, SetChild, NoChild
  <2>2. ~Working(c)'
    BY <1>2, <1>3, <2>1
  <2> QED
    BY <1>2, <2>1, <2>2, SettlingStep
<1>7. CASE ConnectionBreaks(c)
  <2>1. Settles(c, FALSE) /\ child' = child /\ child[c].life = "NONE"
    BY <1>7 DEF ConnectionBreaks
  <2>2. ~Working(c)'
    BY <1>3, <2>1
  <2> QED
    BY <2>1, <2>2, SettlingStep
<1>8. CASE HelperTimesOut(c)
  <2>1. /\ Settles(c, FALSE) /\ work[c].kind = "helperRestart"
        /\ \A d \in Call \ {c} : child'[d] = child[d]
    BY <1>1, <1>8 DEF HelperTimesOut, SetChild
  <2>2. ~Working(c)'
    BY <1>1, <2>1, UnansweredHelper
  <2> QED
    BY <2>1, <2>2, SettlingStep
<1>9. CASE WorkerAnswers(c)
  <2>1. /\ Settles(c, child[c].zero) /\ child'[c].life = "NONE"
        /\ \A d \in Call \ {c} : child'[d] = child[d]
    BY <1>1, <1>9 DEF WorkerAnswers, SetChild, NoChild
  <2>2. ~Working(c)'
    BY <1>2, <1>3, <2>1
  <2> QED
    BY <1>2, <2>1, <2>2, SettlingStep
<1>10. CASE WorkerTimesOut(c)
  <2>1. /\ Settles(c, FALSE)
        /\ child'[c].life = "ALIVE" => child'[c].timedOut
        /\ \A d \in Call \ {c} : child'[d] = child[d]
    BY <1>1, <1>10 DEF WorkerTimesOut, SetChild, Escalated, TimedOut, Terminated, Child,
                       Abandoned, NoChild
  <2>2. ~Working(c)'
    BY <1>3, <2>1 DEF GivenUp
  <2> QED
    BY <2>1, <2>2, SettlingStep
<1>11. CASE ChildTimesOut(c) \/ ChildIsKilled(c)
  <2>1. /\ UNCHANGED <<now, work, leases, begunAt, pc>>
        /\ child[c].life # "NONE"
        /\ \A d \in Call \ {c} : child'[d] = child[d]
    BY <1>1, <1>11 DEF ChildTimesOut, ChildIsKilled, Watched, SetChild, Settled, callVars
  <2>2. pc[c] \notin {"new", "preparing"}
    BY <1>1, <2>1 DEF Held, NoChild
  <2>3. child'[c].life = child[c].life /\ (child[c].timedOut => child'[c].timedOut)
    BY <1>1, <1>11, LifeOfChild DEF ChildTimesOut, ChildIsKilled, SetChild
  <2>4. \A d \in Call : NoNewWork(d)
    BY <2>1, <2>2, <2>3 DEF NoNewWork, Working, GivenUp
  <2> QED
    BY <2>1, <2>4, QuietStep
<1>12. CASE ChildCloses(c)
  <2>1. /\ child'[c].life \in {"NONE", "CLOSED"} /\ child[c].life = "EXITED"
        /\ \A d \in Call \ {c} : child'[d] = child[d]
    BY <1>1, <1>12 DEF ChildCloses, SetChild, Closed, Child, NoChild
  <2>2. CASE Settles(c, Resolves(child[c]) /\ child[c].zero)
    <3>1. ~Working(c)'
      BY <1>2, <1>3, <2>1, <2>2
    <3> QED
      BY <1>2, <2>1, <2>2, <3>1, SettlingStep
  <2>3. CASE UNCHANGED <<callVars, leases, keys, begunAt, effects>>
    <3>1. pc[c] \notin {"new", "preparing"}
      BY <1>1, <2>1 DEF Held, NoChild
    <3>2. \A d \in Call : NoNewWork(d)
      BY <2>1, <2>3, <3>1 DEF NoNewWork, Working, GivenUp, callVars
    <3> QED
      BY <2>3, <3>2, QuietStep DEF callVars
  <2> QED
    BY <1>12, <2>2, <2>3 DEF ChildCloses
<1>13. CASE CommandCloses(c)
  <2>1. /\ UNCHANGED <<now, work, leases, begunAt>>
        /\ child'[c].life = "NONE" /\ pc'[c] \in Over
        /\ \A d \in Call \ {c} : pc'[d] = pc[d] /\ child'[d] = child[d]
    BY <1>1, <1>13 DEF CommandCloses, SetChild, NoChild, Answered, Answers, Over
  <2>2. \A d \in Call : NoNewWork(d)
    BY <2>1 DEF NoNewWork, Working, GivenUp, Over
  <2> QED
    BY <2>1, <2>2, QuietStep
<1> QED
  BY <1>4, <1>5, <1>6, <1>7, <1>8, <1>9, <1>10, <1>11, <1>12, <1>13
     DEF GuardedWork, Close, Handler, PipesClose

LEMMA ChildWorkStep ==
    ASSUME TypeOK, HeldWhileWorking, NEW c \in Call, ChildWork(c)
    PROVE  HeldWhileWorking'
<1>1. Held(c) /\ child[c] \in Child /\ child \in [Call -> Child]
  BY DEF HeldWhileWorking, TypeOK, GuardTypeOK
<1>2. /\ UNCHANGED <<now, work, leases, begunAt, pc>>
      /\ \A d \in Call \ {c} : child'[d] = child[d]
      /\ child[c].life # "NONE"
  BY <1>1 DEF ChildWork, TakesEffect, ChildInterrupted, Exits, Watched, SetChild, MayExit,
                  Settled, callVars
<1>3. pc[c] \notin {"new", "preparing"}
  BY <1>1, <1>2 DEF Held, NoChild
<1>4. child'[c].life = "ALIVE" => /\ child[c].life = "ALIVE"
                                  /\ child[c].timedOut => child'[c].timedOut
  BY <1>1, LifeOfChild DEF ChildWork, TakesEffect, ChildInterrupted, Exits, SetChild, NoChild
<1>5. \A d \in Call : NoNewWork(d)
  BY <1>2, <1>3, <1>4 DEF NoNewWork, Working, GivenUp
<1> QED
  BY <1>2, <1>5, QuietStep

\* Every step leaves the lease with the call that may work.
LEMMA HeldStep ==
    TypeOK /\ HeldWhileWorking /\ [Next]_vars => HeldWhileWorking'
<1> SUFFICES ASSUME TypeOK, HeldWhileWorking, [Next]_vars PROVE HeldWhileWorking'
  OBVIOUS
<1>1. pc \in [Call -> Pc] /\ child \in [Call -> Child]
  BY DEF TypeOK, GuardTypeOK
<1>2. ASSUME NEW c \in Call, Refuse(c) \/ Replays(c) \/ BeginFails(c)
      PROVE  HeldWhileWorking'
  <2>1. /\ UNCHANGED <<now, work, leases, begunAt, child>>
        /\ pc[c] = "new" /\ pc'[c] \in Over
        /\ \A d \in Call \ {c} : pc'[d] = pc[d]
    BY <1>1, <1>2 DEF Refuse, Refused, Replays, BeginFails, Arrives, GoOn, Answered, Answers,
                      Over, guardVars
  <2>2. \A d \in Call : NoNewWork(d)
    BY <2>1 DEF NoNewWork, Working, GivenUp, Over
  <2> QED
    BY <2>1, <2>2, QuietStep
<1>3. ASSUME NEW c \in Call, FileCall(c) \/ FileWork(c)
      PROVE  HeldWhileWorking'
  <2>1. UNCHANGED <<now, work, guardVars>>
    BY <1>3 DEF FileCall, FileWork, Look, Enqueue, FileStep, Enter, Checks, WriteTemp, ChecksAgain,
                Rename, Delete, FileFails, Leave, callVars
  <2>2. \/ pc' = pc
        \/ /\ pc'[c] \notin {"new", "preparing"} /\ pc[c] # "error"
           /\ \A d \in Call \ {c} : pc'[d] = pc[d]
    BY <1>1, <1>3 DEF FileCall, FileWork, Look, Enqueue, FileStep, Enter, Checks, WriteTemp,
                      ChecksAgain, Rename, Delete, FileFails, Leave, GoOn, Answered, Answers, callVars
  <2>3. \A d \in Call : NoNewWork(d)
    BY <2>1, <2>2 DEF NoNewWork, Working, GivenUp, guardVars
  <2> QED
    BY <2>1, <2>3, QuietStep DEF guardVars
<1>4. CASE HelperDies
  <2>1. /\ UNCHANGED <<now, work, leases, begunAt, pc>>
        /\ \A c \in Call : child'[c] = child[c] \/ child'[c] = NoChild
    BY <1>1, <1>4 DEF HelperDies, callVars
  <2>2. \A c \in Call : pc[c] \in {"new", "preparing"} => child[c] = NoChild
    BY DEF HeldWhileWorking, Held
  <2>3. \A c \in Call : NoNewWork(c)
    BY <2>1, <2>2 DEF NoNewWork, Working, GivenUp, NoChild
  <2> QED
    BY <2>1, <2>3, QuietStep
<1>9. ASSUME NEW c \in Call, AnswerIsLost(c)
      PROVE  HeldWhileWorking'
  <2>1. /\ Settles(c, FALSE) /\ work[c].kind = "helperRestart"
        /\ \A d \in Call \ {c} : child'[d] = child[d]
    BY <1>1, <1>9 DEF AnswerIsLost, SetChild
  <2>2. ~Working(c)'
    BY <1>1, <2>1, UnansweredHelper
  <2> QED
    BY <2>1, <2>2, SettlingStep
<1>5. ASSUME Crash
      PROVE  HeldWhileWorking'
  <2>1. /\ UNCHANGED <<now, work, leases, begunAt>>
        /\ \A c \in Call : child'[c] = child[c] \/ child'[c] = NoChild
        /\ \A c \in Call : /\ pc'[c] # "preparing"
                           /\ pc'[c] = "new" => pc[c] = "new"
                           /\ pc[c] = "error" => pc'[c] = "error"
    BY <1>1, <1>5 DEF Crash, GuardCrash, Abandoned, Lost, Handling, Over
  <2>2. \A c \in Call : pc[c] = "new" => child[c] = NoChild
    BY DEF HeldWhileWorking, Held
  <2>3. \A c \in Call : NoNewWork(c)
    BY <2>1, <2>2 DEF NoNewWork, Working, GivenUp, NoChild
  <2> QED
    BY <2>1, <2>3, QuietStep
<1>6. ASSUME Start
      PROVE  HeldWhileWorking'
  <2>1. leases' = Lease!ReclaimExpired(leases, now) /\ UNCHANGED <<now, work, begunAt, pc, child>>
    BY <1>6 DEF Start, GuardStart
  <2>2. ASSUME NEW c \in Call, Working(c)
        PROVE  leases'[work[c].project] = leases[work[c].project]
    <3>1. work[c].project \in Project
      BY DEF TypeOK, Request
    <3> QED
      BY <2>1, <2>2, <3>1, LimitWithinLease DEF Lease!ReclaimExpired
  <2> QED
    BY <2>1, <2>2 DEF HeldWhileWorking, Held, Working, GivenUp, Due, Limit, LeaseTtl
<1>7. ASSUME Tick
      PROVE  HeldWhileWorking'
  <2>1. /\ UNCHANGED <<work, leases, begunAt, pc, child>> /\ now' = now + 1
        /\ \A c \in Call : ~Overdue(c)
    BY <1>7 DEF Tick, guardVars
  <2>2. ASSUME NEW c \in Call
        PROVE  Held(c)'
    <3>1. Held(c) /\ pc[c] # "preparing"
      BY <2>1 DEF HeldWhileWorking, Overdue
    <3>2. Working(c) => ~(now >= Due(c))
      BY <2>1, <3>1, CommandUnguarded DEF Working, GivenUp, Overdue, Watched, Settled
    <3>3. Due(c)' = Due(c) /\ Due(c) \in Nat /\ now \in Nat
      BY <2>1, LimitsTyped DEF Due, Limit, TypeOK, GuardTypeOK
    <3>4. Working(c) => now' <= Due(c)'
      BY <2>1, <3>2, <3>3
    <3> QED
      BY <2>1, <3>1, <3>4 DEF Held, Working, GivenUp, LeaseTtl
  <2> QED
    BY <2>2 DEF HeldWhileWorking
<1>8. CASE UNCHANGED vars
  <2>1. UNCHANGED <<now, work, leases, begunAt, pc, child>>
    BY <1>8 DEF vars, callVars, guardVars
  <2> QED
    BY <2>1 DEF HeldWhileWorking, Held, Working, GivenUp, Due, Limit, LeaseTtl
<1> QED
  BY <1>2, <1>3, <1>4, <1>5, <1>6, <1>7, <1>8, <1>9, BeginStep, CommandStep,
     GuardedWorkStep, ChildWorkStep DEF Next, GuardedCall, HelperFault

\* Two guarded writes are at work on a project only if one of them has been
\* given up: for any limits that the leases outlast.
THEOREM OverlapNeedsGivingUp == Spec => []OverlapOnlyWhenGivenUp
<1>1. Init => TypeOK /\ HeldWhileWorking
  BY InitTyped DEF Init, GuardInit, HeldWhileWorking, Held, Working, GivenUp, NoChild
<1>2. TypeOK /\ HeldWhileWorking /\ [Next]_vars => TypeOK' /\ HeldWhileWorking'
  BY TypeStep, HeldStep
<1>3. TypeOK /\ HeldWhileWorking => OverlapOnlyWhenGivenUp
  BY LimitWithinLease DEF OverlapOnlyWhenGivenUp, Working, GivenUp
<1> QED
  BY <1>1, <1>2, <1>3, PTL DEF Spec


(***************************************************************************)
(* Write locks.  The calls that wait for a lock or hold it stand in a      *)
(* line: there is a rank of calls by which each waits for the one before   *)
(* it, the holder is the first and the entry of the map the last.          *)
(***************************************************************************)

\* Where a call holds its lock, and where it waits for it or holds it.
Locking == {"entered", "checked", "written", "rechecked"}

FilePc == Locking \cup {"queued"}

\* Only file calls take the steps of a file call.
FileCallsOnly == \A c \in Call : pc[c] \in FilePc => work[c].kind \in FileWrite

\* The calls that wait for the lock of a path, and the one that holds it.
Line == [p \in Path |-> {c \in Call : pc[c] \in FilePc /\ LockPath(c) = p}]

\* Neither a file call nor a crash.
Elsewhere ==
    /\ UNCHANGED <<work, fileVars>>
    /\ \A c \in Call : pc'[c] = pc[c] \/ {pc[c], pc'[c]} \cap FilePc = {}

\* Calls without files leave the lines of the locks alone.
LEMMA StepsOfFiles ==
    ASSUME TypeOK, FileCallsOnly, [Next]_vars
    PROVE  (\E c \in Call : FileCall(c) \/ FileWork(c)) \/ Crash \/ Elsewhere
<1>1. pc \in [Call -> Pc]
  BY DEF TypeOK
<1>2. FileWrite \cap Guarded = {} /\ "command" \notin FileWrite
  BY DEF FileWrite, Guarded, DatabaseWrite, Restart
<1>3. \A c \in Call : work[c].kind \in Guarded \cup {"command"} => pc[c] \notin FilePc
  BY <1>2 DEF FileCallsOnly
<1>4. ASSUME UNCHANGED <<work, fileVars, pc>>
      PROVE  Elsewhere
  BY <1>4 DEF Elsewhere
<1>5. ASSUME NEW c \in Call, NEW done, Answered(c, done), UNCHANGED <<work, fileVars>>,
             pc[c] \notin FilePc
      PROVE  Elsewhere
  BY <1>1, <1>5 DEF Elsewhere, Answered, Answers, FilePc, Locking
<1>6. ASSUME NEW c \in Call, NEW step \in {"error", "preparing", "running"}, GoOn(c, step),
             UNCHANGED <<work, fileVars>>, pc[c] \notin FilePc
      PROVE  Elsewhere
  BY <1>1, <1>6 DEF Elsewhere, GoOn, FilePc, Locking
<1>7. ASSUME NEW c \in Call, NEW done, Settles(c, done), UNCHANGED fileVars,
             pc[c] \notin FilePc
      PROVE  Elsewhere
  BY <1>5, <1>7 DEF Settles
<1>8. ASSUME NEW c \in Call, Refuse(c)
      PROVE  Elsewhere
  BY <1>6, <1>8 DEF Refuse, Refused, FilePc, Locking
<1>9. ASSUME NEW c \in Call, GuardedCall(c)
      PROVE  Elsewhere
  <2>1. pc[c] \notin FilePc /\ UNCHANGED <<work, fileVars>>
    BY <1>9 DEF GuardedCall, Replays, Begins, BeginFails, CommandStarts, Arrives, FilePc, Locking
  <2> QED
    BY <1>5, <1>6, <1>9, <2>1 DEF GuardedCall, Replays, Begins, BeginFails, CommandStarts
<1>10. ASSUME NEW c \in Call, GuardedWork(c) \/ Close(c)
       PROVE  Elsewhere
  <2>1. UNCHANGED fileVars
    BY <1>10 DEF GuardedWork, Close
  <2>2. CASE WorkStarts(c)
    BY <1>6, <2>1, <2>2 DEF WorkStarts, FilePc, Locking
  <2>3. CASE CommandCloses(c)
    BY <1>3, <1>5, <2>1, <2>3 DEF CommandCloses
  <2>4. CASE ChildCloses(c)
    BY <1>3, <1>4, <1>7, <2>1, <2>4 DEF ChildCloses, Guarded, Restart, callVars
  <2>5. CASE ChildTimesOut(c) \/ ChildIsKilled(c)
    BY <1>4, <2>1, <2>5 DEF ChildTimesOut, ChildIsKilled, callVars
  <2> QED
    BY <1>7, <1>10, <2>1, <2>2, <2>3, <2>4, <2>5
       DEF GuardedWork, Close, Handler, PipesClose, PreparationFails, WorkerAnswers, WorkerTimesOut,
           HelperReplies, HelperTimesOut, ConnectionBreaks, FilePc, Locking
<1>11. ASSUME NEW c \in Call, ChildWork(c)
       PROVE  Elsewhere
  BY <1>4, <1>11 DEF ChildWork, TakesEffect, ChildInterrupted, Exits, callVars
<1>12. CASE HelperFault
  BY <1>4, <1>7, <1>12 DEF HelperFault, HelperDies, AnswerIsLost, callVars, FilePc, Locking
<1>13. CASE Start \/ Tick \/ UNCHANGED vars
  BY <1>4, <1>13 DEF Start, Tick, vars, callVars
<1> QED
  BY <1>8, <1>9, <1>10, <1>11, <1>12, <1>13 DEF Next

\* What the steps of a file call and a crash make of the program counters.
LEMMA FileMoves ==
    ASSUME TypeOK, NEW c \in Call, FileCall(c) \/ FileWork(c)
    PROVE  /\ UNCHANGED <<work, guardVars>>
           /\ \A d \in Call \ {c} : pc'[d] = pc[d]
           /\ \/ Look(c) /\ pc' = pc
              \/ Enqueue(c) /\ pc'[c] = "queued"
              \/ Enter(c) /\ pc'[c] = "entered"
              \/ Checks(c) /\ pc'[c] = "checked"
              \/ WriteTemp(c) /\ pc'[c] = "written"
              \/ ChecksAgain(c) /\ pc'[c] = "rechecked"
              \/ /\ Rename(c) \/ Delete(c) \/ FileFails(c)
                 /\ pc[c] \in Locking /\ pc'[c] \in {"ok", "error"}
                 /\ tail' = Unlocked(c) /\ after' = after /\ seen' = seen
<1>1. pc \in [Call -> Pc]
  BY DEF TypeOK
<1>2. CASE Rename(c) \/ Delete(c) \/ FileFails(c)
  BY <1>1, <1>2 DEF FileCall, FileWork, Rename, Delete, FileFails, Leave, Answered, Answers,
                    Locking, guardVars
<1>3. CASE Look(c)
  BY <1>3 DEF FileCall, FileWork, Look, callVars
<1>4. CASE Enqueue(c) \/ Enter(c) \/ Checks(c) \/ WriteTemp(c) \/ ChecksAgain(c)
  BY <1>1, <1>4 DEF FileCall, FileWork, Enqueue, Enter, Checks, WriteTemp, ChecksAgain, GoOn
<1> QED
  BY <1>2, <1>3, <1>4 DEF FileCall, FileWork, FileStep

\* A crash clears every line.
LEMMA CrashMoves ==
    ASSUME Crash
    PROVE  /\ UNCHANGED <<work, content, seen, after>> /\ tail' = [p \in Path |-> NoCall]
           /\ \A c \in Call : pc'[c] \notin FilePc
BY DEF Crash, FileCrash, Lost, Handling, Over, FilePc, Locking

LEMMA FileCallsStep ==
    TypeOK /\ FileCallsOnly /\ [Next]_vars => FileCallsOnly'
<1> SUFFICES ASSUME TypeOK, FileCallsOnly, [Next]_vars PROVE FileCallsOnly'
  OBVIOUS
<1>1. ASSUME NEW c \in Call, FileCall(c) \/ FileWork(c)
      PROVE  FileCallsOnly'
  <2>1. pc[c] \in FilePc \/ Enqueue(c) \/ pc' = pc
    BY <1>1, FileMoves DEF Enter, Checks, WriteTemp, ChecksAgain, FilePc, Locking
  <2>2. work[c].kind \in FileWrite \/ pc' = pc
    BY <2>1 DEF FileCallsOnly, Enqueue
  <2> QED
    BY <1>1, <2>2, FileMoves DEF FileCallsOnly
<1>2. CASE Elsewhere
  BY <1>2 DEF Elsewhere, FileCallsOnly
<1> QED
  BY <1>1, <1>2, StepsOfFiles, CrashMoves DEF FileCallsOnly

\* r ranks the calls as they stand in their lines.
Ranked(r) ==
    /\ \A p \in Path : tail[p] = NoCall => \A c \in Call : c \notin Line[p]
    /\ \A p \in Path : tail[p] # NoCall =>
          tail[p] \in Line[p] /\ \A c \in Call : c \in Line[p] => r[c] <= r[tail[p]]
    /\ \A p \in Path, c, d \in Call : c \in Line[p] /\ d \in Line[p] =>
          /\ r[c] = r[d] => c = d
          /\ pc[c] \in Locking => r[c] <= r[d]
          /\ pc[c] = "queued" /\ r[d] < r[c] =>
                /\ after[c] \in Call /\ after[c] \in Line[p]
                /\ r[d] <= r[after[c]] /\ r[after[c]] < r[c]

LineInv == \E r \in [Call -> Nat] : Ranked(r)

\* A lock is held by one call.
LEMMA LocksExclude ==
    ASSUME LineInv, NEW c \in Call, NEW d \in Call, pc[c] \in Locking, pc[d] \in Locking,
           LockPath(c) = LockPath(d), LockPath(c) \in Path
    PROVE  c = d
<1>1. PICK r \in [Call -> Nat] : Ranked(r)
  BY DEF LineInv
<1>2. c \in Line[LockPath(c)] /\ d \in Line[LockPath(c)]
  BY DEF Line, FilePc
<1>3. r[c] <= r[d] /\ r[d] <= r[c]
  BY <1>1, <1>2 DEF Ranked
<1>4. r[c] = r[d]
  BY <1>3
<1> QED
  BY <1>1, <1>2, <1>4 DEF Ranked

\* The line stays a line: who enters was its first, who queues is ranked behind
\* its last.
LEMMA LineStep ==
    TypeOK /\ FileCallsOnly /\ LineInv /\ [Next]_vars => LineInv'
<1> SUFFICES ASSUME TypeOK, FileCallsOnly, LineInv, [Next]_vars PROVE LineInv'
  OBVIOUS
<1>1. PICK r \in [Call -> Nat] : Ranked(r)
  BY DEF LineInv
<1>2. \A c \in Call : LockPath(c) \in Path
  BY FileAssumption DEF TypeOK, Request, LockPath, File
<1>3. /\ tail \in [Path -> Call \cup {NoCall}] /\ after \in [Call -> Call \cup {NoCall}]
      /\ pc \in [Call -> Pc] /\ NoCall \notin Call
  BY CallAssumption DEF TypeOK, FileTypeOK
<1>4. ASSUME work' = work
      PROVE  \A c \in Call : LockPath(c)' = LockPath(c)
  BY <1>4 DEF LockPath, File
\* A step that leaves the lines as they are.
<1>5. ASSUME UNCHANGED <<work, tail, after>>,
             \A c \in Call : /\ pc'[c] \in FilePc <=> pc[c] \in FilePc
                             /\ pc'[c] = "queued" => pc[c] = "queued"
                             /\ pc'[c] \in Locking =>
                                   \/ pc[c] \in Locking
                                   \/ \A d \in Call : d \in Line[LockPath(c)] => r[c] <= r[d]
      PROVE  Ranked(r)'
  <2>1. \A c \in Call, p \in Path : c \in Line'[p] <=> c \in Line[p]
    BY <1>4, <1>5 DEF Line
  <2>2. \A p \in Path : tail[p] # NoCall => tail[p] \in Call
    BY <1>3
  <2>3. \A c, d \in Call : pc'[c] \in Locking /\ c \in Line[LockPath(c)] /\ d \in Line[LockPath(c)]
                           => r[c] <= r[d]
    BY <1>1, <1>2, <1>5 DEF Ranked
  <2> QED
    BY <1>1, <1>2, <1>3, <1>5, <2>1, <2>2, <2>3, ZenonT(60) DEF Ranked, Line
<1>6. ASSUME NEW c \in Call, Enqueue(c)
      PROVE  LineInv'
  <2>a. PICK last : last = tail[LockPath(c)]
    OBVIOUS
  <2>b. PICK q : q = [r EXCEPT ![c] = IF last = NoCall THEN 0 ELSE r[last] + 1]
    OBVIOUS
  <2>1. /\ UNCHANGED work /\ LockPath(c) \in Path /\ pc[c] = "new" /\ pc'[c] = "queued"
        /\ \A d \in Call \ {c} : pc'[d] = pc[d] /\ after'[d] = after[d]
        /\ after'[c] = last /\ tail'[LockPath(c)] = c
        /\ \A p \in Path \ {LockPath(c)} : tail'[p] = tail[p]
    BY <1>2, <1>3, <1>6, <2>a DEF Enqueue, GoOn
  <2>2. /\ \A d \in Call \ {c}, p \in Path : d \in Line'[p] <=> d \in Line[p]
        /\ \A p \in Path : c \notin Line[p] /\ (c \in Line'[p] <=> p = LockPath(c))
    BY <1>4, <2>1 DEF Line, FilePc, Locking
  <2>3. /\ q \in [Call -> Nat]
        /\ \A d \in Call \ {c} : q[d] = r[d]
        /\ last # NoCall => q[c] = r[last] + 1
    BY <1>1, <1>3, <2>a, <2>b, <2>1
  <2>4. /\ \A d \in Call : r[d] \in Nat /\ q[d] \in Nat
        /\ last \in Call \cup {NoCall}
        /\ \A p \in Path : tail[p] # NoCall => tail[p] \in Call
    BY <1>1, <1>3, <2>a, <2>1, <2>3
  <2>5. ASSUME NEW d \in Call, d \in Line[LockPath(c)]
        PROVE  /\ d # c /\ last \in Call \ {c} /\ last \in Line[LockPath(c)]
               /\ r[d] <= r[last] /\ q[d] < q[c] /\ q[d] <= q[last] /\ q[last] < q[c]
    BY <1>1, <2>1, <2>2, <2>3, <2>4, <2>5, <2>a DEF Ranked
  <2>6. ASSUME NEW p \in Path
        PROVE  /\ tail'[p] = NoCall => \A d \in Call : d \notin Line'[p]
               /\ tail'[p] # NoCall =>
                     /\ tail'[p] \in Line'[p]
                     /\ \A d \in Call : d \in Line'[p] => q[d] <= q[tail'[p]]
    <3>1. CASE p = LockPath(c)
      BY <1>3, <2>1, <2>2, <2>4, <2>5, <3>1
    <3>2. CASE p # LockPath(c)
      <4>1. tail'[p] = tail[p] /\ \A d \in Call : d \in Line'[p] <=> d \in Line[p]
        BY <2>1, <2>2, <3>2
      <4>2. \A d \in Call : d \in Line[p] => q[d] = r[d]
        BY <2>2, <2>3
      <4> QED
        BY <1>1, <2>4, <4>1, <4>2 DEF Ranked
    <3> QED
      BY <3>1, <3>2
  <2>7. ASSUME NEW p \in Path, NEW d \in Call, NEW e \in Call, d \in Line'[p], e \in Line'[p]
        PROVE  /\ q[d] = q[e] => d = e
               /\ pc'[d] \in Locking => q[d] <= q[e]
               /\ pc'[d] = "queued" /\ q[e] < q[d] =>
                     /\ after'[d] \in Call /\ after'[d] \in Line'[p]
                     /\ q[e] <= q[after'[d]] /\ q[after'[d]] < q[d]
    <3>1. CASE d # c /\ e # c
      <4>1. d \in Line[p] /\ e \in Line[p] /\ q[d] = r[d] /\ q[e] = r[e]
        BY <2>2, <2>3, <2>7, <3>1
      <4>2. pc'[d] = pc[d] /\ after'[d] = after[d]
        BY <2>1, <3>1
      <4>3. \A f \in Call : f \in Line[p] => f \in Line'[p] /\ q[f] = r[f]
        BY <2>2, <2>3
      <4> QED
        BY <1>1, <4>1, <4>2, <4>3 DEF Ranked
    <3>2. CASE d = c /\ e # c
      <4>1. e \in Line[LockPath(c)] /\ p = LockPath(c)
        BY <2>2, <2>7, <3>2
      <4>2. /\ last \in Call \ {c} /\ last \in Line'[p] /\ q[e] < q[c]
            /\ q[e] <= q[last] /\ q[last] < q[c]
        BY <2>2, <2>5, <4>1
      <4> QED
        BY <2>1, <2>4, <3>2, <4>2 DEF Locking
    <3>3. CASE d # c /\ e = c
      <4>1. d \in Line[LockPath(c)] /\ p = LockPath(c)
        BY <2>2, <2>7, <3>3
      <4>2. q[d] < q[c]
        BY <2>5, <4>1
      <4> QED
        BY <2>4, <3>3, <4>2
    <3>4. CASE d = c /\ e = c
      BY <2>1, <2>4, <3>4 DEF Locking
    <3> QED
      BY <3>1, <3>2, <3>3, <3>4
  <2>8. Ranked(q)'
    BY <2>6, <2>7 DEF Ranked
  <2> QED
    BY <2>3, <2>8 DEF LineInv
<1>7. ASSUME NEW c \in Call, Enter(c), pc'[c] = "entered", \A d \in Call \ {c} : pc'[d] = pc[d]
      PROVE  LineInv'
  <2>1. /\ pc[c] = "queued" /\ UNCHANGED <<work, tail, after>>
        /\ after[c] # NoCall => pc[after[c]] \in Over
    BY <1>7 DEF Enter, fileVars
  <2>2. \A d \in Call : d \in Line[LockPath(c)] => r[c] <= r[d]
    <3> SUFFICES ASSUME NEW d \in Call, d \in Line[LockPath(c)], r[d] < r[c] PROVE FALSE
      BY <1>1
    <3>1. c \in Line[LockPath(c)]
      BY <1>2, <2>1 DEF Line, FilePc
    <3>2. after[c] \in Call /\ after[c] \in Line[LockPath(c)]
      BY <1>1, <1>2, <2>1, <3>1 DEF Ranked
    <3> QED
      BY <1>2, <1>3, <2>1, <3>2 DEF Line, FilePc, Locking, Over
  <2> QED
    BY <1>1, <1>5, <1>7, <2>1, <2>2 DEF LineInv, FilePc, Locking
<1>8. ASSUME NEW c \in Call, pc[c] \in Locking, pc'[c] \notin FilePc,
             \A d \in Call \ {c} : pc'[d] = pc[d],
             work' = work, tail' = Unlocked(c), after' = after
      PROVE  LineInv'
  <2>1. /\ LockPath(c) \in Path /\ c \in Line[LockPath(c)]
        /\ tail'[LockPath(c)] = IF tail[LockPath(c)] = c THEN NoCall ELSE tail[LockPath(c)]
        /\ \A p \in Path \ {LockPath(c)} : tail'[p] = tail[p]
    BY <1>2, <1>3, <1>8 DEF Unlocked, Line, FilePc
  <2>2. /\ \A d \in Call \ {c}, p \in Path : d \in Line'[p] <=> d \in Line[p]
        /\ \A p \in Path : c \notin Line'[p]
        /\ \A p \in Path : c \in Line[p] => p = LockPath(c)
    BY <1>4, <1>8 DEF Line
  <2>3. \A d \in Call : d \in Line[LockPath(c)] => r[c] <= r[d]
    BY <1>1, <1>8, <2>1 DEF Ranked
  <2>4. ASSUME NEW d \in Call \ {c}, d \in Line[LockPath(c)]
        PROVE  r[c] < r[d]
    <3>1. r[c] # r[d]
      BY <1>1, <2>1, <2>4 DEF Ranked
    <3> QED
      BY <1>1, <2>3, <2>4, <3>1
  <2>5. ASSUME NEW p \in Path
        PROVE  /\ tail'[p] = NoCall => \A d \in Call : d \notin Line'[p]
               /\ tail'[p] # NoCall =>
                     /\ tail'[p] \in Line'[p]
                     /\ \A d \in Call : d \in Line'[p] => r[d] <= r[tail'[p]]
    <3>1. CASE p = LockPath(c) /\ tail[p] = c
      <4>1. \A d \in Call : d \in Line[p] => r[d] <= r[c]
        BY <1>1, <1>3, <3>1 DEF Ranked
      <4>2. \A d \in Call \ {c} : d \notin Line[p]
        BY <1>1, <2>4, <3>1, <4>1
      <4> QED
        BY <2>1, <2>2, <3>1, <4>2
    <3>2. CASE tail'[p] = tail[p] /\ tail[p] # c
      BY <1>1, <1>3, <2>2, <3>2 DEF Ranked
    <3>3. tail[p] = c => p = LockPath(c)
      BY <1>1, <1>3, <2>2 DEF Ranked
    <3> QED
      BY <2>1, <3>1, <3>2, <3>3
  <2>6. ASSUME NEW p \in Path, NEW d \in Call, NEW e \in Call, d \in Line'[p], e \in Line'[p]
        PROVE  /\ r[d] = r[e] => d = e
               /\ pc'[d] \in Locking => r[d] <= r[e]
               /\ pc'[d] = "queued" /\ r[e] < r[d] =>
                     /\ after'[d] \in Call /\ after'[d] \in Line'[p]
                     /\ r[e] <= r[after'[d]] /\ r[after'[d]] < r[d]
    <3>1. d # c /\ e # c /\ d \in Line[p] /\ e \in Line[p] /\ pc'[d] = pc[d]
      BY <1>8, <2>2, <2>6
    <3>2. /\ r[d] = r[e] => d = e
          /\ pc[d] \in Locking => r[d] <= r[e]
          /\ pc[d] = "queued" /\ r[e] < r[d] =>
                /\ after[d] \in Call /\ after[d] \in Line[p]
                /\ r[e] <= r[after[d]] /\ r[after[d]] < r[d]
      BY <1>1, <3>1 DEF Ranked
    <3>3. ASSUME pc[d] = "queued", r[e] < r[d]
          PROVE  after[d] # c
      <4>1. ASSUME after[d] = c
            PROVE  FALSE
        <5>1. p = LockPath(c) /\ r[e] <= r[c]
          BY <2>2, <3>2, <3>3, <4>1
        <5>2. r[c] < r[e]
          BY <2>4, <3>1, <5>1
        <5> QED
          BY <1>1, <5>1, <5>2
      <4> QED
        BY <4>1
    <3> QED
      BY <1>8, <2>2, <3>1, <3>2, <3>3
  <2>7. Ranked(r)'
    BY <2>5, <2>6 DEF Ranked
  <2> QED
    BY <1>1, <2>7 DEF LineInv
<1>9. ASSUME NEW c \in Call, FileCall(c) \/ FileWork(c)
      PROVE  LineInv'
  <2>1. CASE Look(c) /\ pc' = pc
    BY <1>1, <1>5, <2>1 DEF LineInv, Look, callVars
  <2>2. ASSUME pc[c] \in Locking, pc'[c] \in Locking, UNCHANGED <<work, tail, after>>
        PROVE  LineInv'
    BY <1>1, <1>5, <1>9, <2>2, FileMoves DEF LineInv, FilePc, Locking
  <2>3. CASE Checks(c) \/ WriteTemp(c) \/ ChecksAgain(c)
    <3>1. pc[c] \in Locking /\ UNCHANGED <<work, tail, after>>
      BY <2>3 DEF Checks, WriteTemp, ChecksAgain, fileVars, Locking
    <3>2. pc'[c] \in Locking
      BY <1>3, <2>3 DEF Checks, WriteTemp, ChecksAgain, GoOn, Locking
    <3> QED
      BY <2>2, <3>1, <3>2
  <2> QED
    BY <1>6, <1>7, <1>8, <1>9, <2>1, <2>3, FileMoves DEF FilePc, Locking
<1>10. CASE Crash
  BY <1>1, <1>10, CrashMoves DEF LineInv, Ranked, Line
<1>11. CASE Elsewhere
  BY <1>1, <1>5, <1>11 DEF Elsewhere, LineInv, fileVars, FilePc
<1> QED
  BY <1>9, <1>10, <1>11, StepsOfFiles

\* Between its last test and its rename, an edit finds the content it has read,
\* or what a call under another lock has written.
EditUnspoiled(c) ==
    \/ content[File(c)] = seen[c]
    \/ content[File(c)] \in Call /\ LockPath(content[File(c)]) # LockPath(c)

EditInv ==
    \A c \in Call : pc[c] = "rechecked" /\ work[c].kind = "edit" => EditUnspoiled(c)

\* Only the holder of the lock replaces or removes the content it guards.
LEMMA EditStep ==
    TypeOK /\ FileCallsOnly /\ LineInv /\ EditInv /\ [Next]_vars => EditInv'
<1> SUFFICES ASSUME TypeOK, FileCallsOnly, LineInv, EditInv, [Next]_vars,
                    NEW c \in Call, pc'[c] = "rechecked", work'[c].kind = "edit"
             PROVE  EditUnspoiled(c)'
  BY DEF EditInv
<1>1. ASSUME work' = work
      PROVE  \A d : LockPath(d)' = LockPath(d) /\ File(d)' = File(d)
  BY <1>1 DEF LockPath, File
<1>2. /\ \A d \in Call : LockPath(d) \in Path /\ File(d) \in Path
      /\ content \in [Path -> Call \cup {Original, Absent}]
      /\ seen \in [Call -> Call \cup {Original, Absent}]
  BY FileAssumption DEF TypeOK, FileTypeOK, Request, LockPath, File
<1>3. ASSUME UNCHANGED <<work, content, seen>>, pc[c] = "rechecked"
      PROVE  EditUnspoiled(c)'
  BY <1>1, <1>2, <1>3 DEF EditInv, EditUnspoiled
<1>4. ASSUME NEW d \in Call, FileCall(d) \/ FileWork(d)
      PROVE  EditUnspoiled(c)'
  <2>1. CASE d = c
    <3>1. ChecksAgain(c)
      BY <1>4, <2>1, FileMoves DEF Look, callVars
    <3>2. content[File(c)] = seen[c] /\ UNCHANGED <<work, content, seen>>
      BY <3>1 DEF ChecksAgain, fileVars
    <3> QED
      BY <1>1, <3>2 DEF EditUnspoiled
  <2>2. CASE d # c
    <3>1. pc[c] = "rechecked" /\ work' = work /\ work[c].kind = "edit" /\ EditUnspoiled(c)
      BY <1>4, <2>2, FileMoves DEF EditInv
    <3>2. CASE UNCHANGED <<content, seen>>
      BY <1>3, <3>1, <3>2
    <3>3. CASE Look(d)
      <4>1. content' = content /\ seen'[c] = seen[c]
        BY <1>2, <2>2, <3>3 DEF Look
      <4> QED
        BY <1>1, <3>1, <4>1 DEF EditUnspoiled
    <3>4. CASE Rename(d) \/ Delete(d)
      <4>1. pc[d] \in Locking /\ seen' = seen
        BY <3>4 DEF Rename, Delete, Leave, Locking
      <4>2. LockPath(d) # LockPath(c)
        BY <1>2, <2>2, <3>1, <4>1, LocksExclude DEF Locking
      <4>3. content'[File(c)] = content[File(c)] \/ content'[File(c)] = d
        BY <1>2, <3>1, <3>4, <4>2 DEF Rename, Delete, LockPath
      <4> QED
        BY <1>1, <3>1, <4>1, <4>2, <4>3 DEF EditUnspoiled
    <3> QED
      BY <1>4, <3>2, <3>3, <3>4, FileMoves
         DEF Enqueue, Enter, Checks, WriteTemp, ChecksAgain, FileFails, Leave, fileVars
  <2> QED
    BY <2>1, <2>2
<1>5. CASE Crash
  BY <1>5, CrashMoves DEF FilePc, Locking
<1>6. CASE Elsewhere
  BY <1>3, <1>6 DEF Elsewhere, fileVars, FilePc, Locking
<1> QED
  BY <1>4, <1>5, <1>6, StepsOfFiles

\* An edit replaces the very content its client has read, however calls wait
\* for each other's locks and the agent crashes: what may slip in is a write
\* under another name of the file.
THEOREM EditsReplaceWhatWasRead == Spec => NoLostEdit
<1> DEFINE LockInv == TypeOK /\ FileCallsOnly /\ LineInv /\ EditInv
<1>1. Init => LockInv
  <2> SUFFICES ASSUME Init PROVE LockInv
    OBVIOUS
  <2>1. TypeOK /\ FileCallsOnly /\ EditInv
    BY InitTyped DEF Init, FileCallsOnly, EditInv, FilePc, Locking
  <2>2. Ranked([c \in Call |-> 0])
    BY DEF Init, FileInit, Ranked, Line, FilePc, Locking
  <2> QED
    BY <2>1, <2>2 DEF LineInv
<1>2. LockInv /\ [Next]_vars => LockInv'
  BY TypeStep, FileCallsStep, LineStep, EditStep
<1>3. ASSUME LockInv, [Next]_vars, NEW c \in Call, work[c].kind = "edit",
             content'[File(c)] = c, content[File(c)] # c
      PROVE  \/ content[File(c)] = seen[c]
             \/ content[File(c)] \in Call /\ LockPath(content[File(c)]) # LockPath(c)
  <2>1. content' # content
    BY <1>3
  <2>2. PICK d \in Call : Rename(d) \/ Delete(d)
    BY <1>3, <2>1, StepsOfFiles, FileMoves, CrashMoves
       DEF Elsewhere, fileVars, Look, Enqueue, Enter, Checks, WriteTemp, ChecksAgain, FileFails
  <2>3. /\ File(c) \in Path /\ File(d) \in Path /\ c # Absent
        /\ content \in [Path -> Call \cup {Original, Absent}]
    BY FileAssumption, <1>3 DEF TypeOK, FileTypeOK, Request, File
  <2>4. Rename(d) /\ d = c
    BY <1>3, <2>2, <2>3 DEF Rename, Delete
  <2>5. pc[c] = "rechecked"
    BY <1>3, <2>4 DEF Rename
  <2> QED
    BY <1>3, <2>5 DEF EditInv, EditUnspoiled
<1>4. LockInv /\ [Next]_vars =>
        [\A c \in Call :
            work[c].kind = "edit" /\ content'[File(c)] = c /\ content[File(c)] # c
            => \/ content[File(c)] = seen[c]
               \/ /\ content[File(c)] \in Call
                  /\ LockPath(content[File(c)]) # LockPath(c)]_<<content, work>>
  BY <1>3
<1> QED
  BY <1>1, <1>2, <1>4, PTL DEF Spec, NoLostEdit

(***************************************************************************)
(* Keys.  A begun call finds its key taken until the retention is over,    *)
(* and a completed key names a call whose work took effect.                *)
(***************************************************************************)

\* Under way; and with a child or an effect that may outlive the call.
Active(c) == work[c].kind \in Guarded /\ pc[c] \in {"preparing", "running"}

Begun(c) ==
    /\ work[c].kind \in Guarded
    /\ pc[c] \in {"preparing", "running"} \/ child[c] # NoChild \/ c \in effects

SameKey(c, d) == KeyOf(c) = KeyOf(d)

\* A child that ended well has done its work, no call works before it begins,
\* and the child of a restart does not outlive its call.
EffectInv ==
    \A c \in Call :
        /\ child[c].zero => c \in effects
        /\ pc[c] = "new" => c \notin effects
        /\ begunAt[c] <= now
        /\ work[c].kind = "restart" /\ child[c] # NoChild => pc[c] = "running"

\* A call under way owns its key.
ActiveInv ==
    /\ \A c \in Call : Active(c) => /\ keys[KeyOf(c)].status = "IN_PROGRESS"
                                    /\ keys[KeyOf(c)].print = work[c].print
    /\ \A c, d \in Call : Active(c) /\ Active(d) /\ SameKey(c, d) => c = d

\* The key of a begun call is taken, or its retention is over.
BegunInv ==
    \A c \in Call : Begun(c) =>
        /\ KeyOf(c) \in ScopedKey
        /\ \/ begunAt[c] + Retention < now
           \/ /\ keys[KeyOf(c)].status # "ABSENT"
              /\ begunAt[c] <= keys[KeyOf(c)].updatedAt

\* Hence a key is begun again only after the retention of its last call.
RetentionInv ==
    \A c, d \in Call : Begun(c) /\ Begun(d) /\ c # d /\ SameKey(c, d) =>
        \/ begunAt[c] + Retention < begunAt[d]
        \/ begunAt[d] + Retention < begunAt[c]

\* What a completed key stands for.
RecordInv ==
    \A q \in ScopedKey : keys[q].status = "COMPLETED" =>
        LET d == keys[q].result IN
        d \in effects /\ KeyOf(d) = q /\ work[d].print = keys[q].print

\* Who is told of success finds an effect under the same key and arguments.
AnswerInv ==
    \A c \in Call : work[c].kind \in Guarded /\ pc[c] = "ok" =>
        \E d \in effects : SameKey(d, c) /\ work[d].print = work[c].print

KeyInv ==
    /\ EffectInv /\ ActiveInv /\ BegunInv /\ RetentionInv /\ RecordInv /\ AnswerInv


\* The key of a guarded call is a row of the store.
LEMMA ScopedKeys ==
    ASSUME TypeOK, NEW c \in Call, work[c].kind \in Guarded, DerivedKey(c) # NoKey
    PROVE  KeyOf(c) \in ScopedKey
<1>1. work[c] \in Request
  BY DEF TypeOK
<1>2. Scope(c) \in DatabaseWrite \cup {"restart"}
  BY DEF Scope, Guarded
<1>3. work[c].project \in Project /\ DerivedKey(c) \in Key
  BY <1>1 DEF Request, DerivedKey
<1> QED
  BY <1>2, <1>3 DEF KeyOf, ScopedKey

\* What a call asks for never changes, and its key with it.
LEMMA SameWork ==
    ASSUME UNCHANGED work
    PROVE  \A c, d : /\ KeyOf(c)' = KeyOf(c)
                     /\ SameKey(c, d)' = SameKey(c, d)
BY DEF SameKey, KeyOf, Scope, DerivedKey

\* Steps that touch no key: no call begins, none succeeds without work.
LEMMA KeyQuiet ==
    ASSUME TypeOK, TypeOK', KeyInv, UNCHANGED <<work, keys, effects>>, now <= now',
           \A c \in Call :
              /\ begunAt'[c] <= now'
              /\ pc'[c] = "new" => pc[c] = "new"
              /\ child'[c].zero => c \in effects
              /\ work[c].kind = "restart" /\ child'[c] # NoChild => pc'[c] = "running"
              /\ work[c].kind \in Guarded =>
                    /\ begunAt'[c] = begunAt[c]
                    /\ pc'[c] \in {"preparing", "running"} =>
                          pc[c] \in {"preparing", "running"}
                    /\ child'[c] # NoChild => Begun(c)
                    /\ pc'[c] = "ok" =>
                          \/ pc[c] = "ok"
                          \/ \E d \in effects : SameKey(d, c) /\ work[d].print = work[c].print
    PROVE  KeyInv'
<1> USE SameWork
<1>1. \A c \in Call : /\ Active(c)' => Active(c)
                      /\ Begun(c)' => Begun(c) /\ begunAt'[c] = begunAt[c]
  BY DEF Active, Begun
<1>2. EffectInv'
  BY DEF KeyInv, EffectInv
<1>2a. \A c, d \in Call : /\ KeyOf(c)' = KeyOf(c)
                          /\ SameKey(c, d)' = SameKey(c, d)
  OBVIOUS
<1>3. ActiveInv'
  <2>1. \A c \in Call : Active(c)' => /\ keys'[KeyOf(c)'].status = "IN_PROGRESS"
                                    /\ keys'[KeyOf(c)'].print = work'[c].print
    BY <1>1, <1>2a DEF KeyInv, ActiveInv
  <2>2. \A c, d \in Call : Active(c)' /\ Active(d)' /\ SameKey(c, d)' => c = d
    BY <1>1, <1>2a DEF KeyInv, ActiveInv
  <2> QED
    BY <2>1, <2>2 DEF ActiveInv
<1>4. BegunInv'
  <2>1. Retention \in Nat /\ now \in Nat /\ now' \in Nat /\ begunAt \in [Call -> Nat]
    BY TimeAssumption DEF TypeOK, GuardTypeOK
  <2>2. \A c \in Call : begunAt[c] + Retention < now => begunAt[c] + Retention < now'
    BY <2>1
  <2>3. ASSUME NEW c \in Call, Begun(c)'
        PROVE  /\ KeyOf(c)' \in ScopedKey
               /\ \/ begunAt'[c] + Retention < now'
                  \/ /\ keys'[KeyOf(c)'].status # "ABSENT"
                     /\ begunAt'[c] <= keys'[KeyOf(c)'].updatedAt
    BY <1>1, <1>2a, <2>2, <2>3 DEF KeyInv, BegunInv
  <2> QED
    BY <2>3 DEF BegunInv
<1>5. RetentionInv'
  BY <1>1, <1>2a DEF KeyInv, RetentionInv
<1>6. RecordInv'
  BY DEF KeyInv, RecordInv
<1>7. AnswerInv'
  BY DEF KeyInv, AnswerInv
<1> QED
  BY <1>2, <1>3, <1>4, <1>5, <1>6, <1>7 DEF KeyInv

\* The end of a call: its key alone changes, to COMPLETED only after its work.
LEMMA KeySettles ==
    ASSUME TypeOK, TypeOK', KeyInv, NEW c \in Call, NEW done \in BOOLEAN, Settles(c, done),
           Active(c), done => c \in effects,
           child'[c].zero => c \in effects,
           child'[c] # NoChild => child[c] # NoChild /\ work[c].kind # "restart",
           \A d \in Call \ {c} : child'[d] = child[d]
    PROVE  KeyInv'
<1> USE SameWork
<1>1. PICK status \in Statuses(done), released \in BOOLEAN :
        /\ keys' = IF status = "IN_PROGRESS" THEN keys
                   ELSE Idem!Finish(keys, KeyOf(c), status,
                                    IF status = "COMPLETED" THEN c ELSE NoCall, now)
        /\ Answered(c, status = "COMPLETED" /\ released)
        /\ UNCHANGED <<now, work, begunAt, effects>>
  BY DEF Settles
<1>2. /\ KeyOf(c) \in ScopedKey /\ keys[KeyOf(c)].status = "IN_PROGRESS"
      /\ keys[KeyOf(c)].print = work[c].print
      /\ keys \in Idem!KeyTable /\ pc \in [Call -> Pc] /\ now \in Nat
  BY DEF KeyInv, ActiveInv, BegunInv, Begun, Active, TypeOK, GuardTypeOK
<1>3. status = "COMPLETED" => c \in effects
  BY DEF Statuses
<1>4. /\ \A q \in ScopedKey \ {KeyOf(c)} : keys'[q] = keys[q]
      /\ keys'[KeyOf(c)].status = status /\ keys'[KeyOf(c)].print = work[c].print
      /\ keys'[KeyOf(c)].updatedAt \in {keys[KeyOf(c)].updatedAt, now}
      /\ status = "COMPLETED" => keys'[KeyOf(c)].result = c
  BY <1>1, <1>2 DEF Idem!Finish, Idem!KeyTable, Idem!KeyRecord
<1>5. /\ \A d \in Call \ {c} : pc'[d] = pc[d]
      /\ pc'[c] \in {"ok", "error"} /\ (pc'[c] = "ok" => status = "COMPLETED")
  BY <1>1, <1>2 DEF Answered, Answers
<1>6. /\ \A d \in Call : Active(d)' => d # c /\ Active(d)
      /\ \A d \in Call : Begun(d)' => Begun(d)
  BY <1>1, <1>5 DEF Active, Begun
<1>7. EffectInv'
  BY <1>1, <1>5 DEF KeyInv, EffectInv
<1>8. ActiveInv'
  <2>1. \A d \in Call : Active(d)' => KeyOf(d) \in ScopedKey \ {KeyOf(c)}
    BY <1>6 DEF KeyInv, ActiveInv, BegunInv, Active, Begun, SameKey
  <2> QED
    BY <1>1, <1>4, <1>6, <2>1 DEF KeyInv, ActiveInv
<1>9. BegunInv'
  <2>1. ASSUME NEW d \in Call, Begun(d), ~(begunAt[d] + Retention < now)
        PROVE  /\ keys'[KeyOf(d)].status # "ABSENT"
               /\ begunAt[d] <= keys'[KeyOf(d)].updatedAt
    <3>1. /\ KeyOf(d) \in ScopedKey /\ keys[KeyOf(d)].status # "ABSENT"
          /\ begunAt[d] <= keys[KeyOf(d)].updatedAt /\ begunAt[d] <= now
      BY <2>1 DEF KeyInv, BegunInv, EffectInv
    <3>2. status # "ABSENT"
      BY DEF Statuses
    <3>3. CASE KeyOf(d) = KeyOf(c)
      BY <1>4, <3>1, <3>2, <3>3
    <3>4. CASE KeyOf(d) # KeyOf(c)
      BY <1>4, <3>1, <3>4
    <3> QED
      BY <3>3, <3>4
  <2>2. \A d \in Call : Begun(d) => KeyOf(d) \in ScopedKey
    BY DEF KeyInv, BegunInv
  <2>3. \A d \in Call : KeyOf(d)' = KeyOf(d)
    BY <1>1
  <2> QED
    BY <1>1, <1>6, <2>1, <2>2, <2>3 DEF BegunInv
<1>10. RetentionInv'
  BY <1>1, <1>6 DEF KeyInv, RetentionInv
<1>11. RecordInv'
  BY <1>1, <1>3, <1>4 DEF KeyInv, RecordInv
<1>12. AnswerInv'
  BY <1>1, <1>3, <1>5 DEF KeyInv, AnswerInv, SameKey
<1> QED
  BY <1>7, <1>8, <1>9, <1>10, <1>11, <1>12 DEF KeyInv

\* Begin: the key is new, or it was pruned when its calls had had their retention.
LEMMA KeyBegins ==
    ASSUME TypeOK, TypeOK', HeldWhileWorking, KeyInv, NEW c \in Call, Begins(c)
    PROVE  KeyInv'
<1> USE SameWork
<1>1. /\ pc[c] = "new" /\ work[c].kind \in Guarded /\ KeyOf(c) \in ScopedKey
      /\ keys[KeyOf(c)].status = "ABSENT" /\ c \notin effects /\ child[c] = NoChild
      /\ keys \in Idem!KeyTable /\ begunAt \in [Call -> Nat] /\ now \in Nat
  BY ScopedKeys DEF Begins, Arrives, Idem!Fresh, HeldWhileWorking, Held, KeyInv, EffectInv,
                    TypeOK, GuardTypeOK
<1>2. /\ \A q \in ScopedKey \ {KeyOf(c)} : keys'[q] = keys[q]
      /\ keys'[KeyOf(c)].status = "IN_PROGRESS" /\ keys'[KeyOf(c)].print = work[c].print
      /\ keys'[KeyOf(c)].updatedAt = now
      /\ begunAt'[c] = now /\ \A d \in Call \ {c} : begunAt'[d] = begunAt[d]
      /\ UNCHANGED <<now, work, effects>>
  BY <1>1 DEF Begins, BegunKey, Idem!Begin, Idem!KeyTable
<1>3. /\ \A d \in Call \ {c} : pc'[d] = pc[d] /\ child'[d] = child[d]
      /\ pc'[c] \in {"preparing", "running"} /\ ~child'[c].zero
      /\ work[c].kind = "restart" => pc'[c] = "running"
  BY <1>1 DEF Begins, GoOn, SetChild, Spawned, NoChild, TypeOK, GuardTypeOK
<1>4. /\ \A d \in Call \ {c} : (Active(d)' <=> Active(d)) /\ (Begun(d)' <=> Begun(d))
      /\ ~Active(c) /\ ~Begun(c)
  BY <1>1, <1>2, <1>3 DEF Active, Begun
<1>5. \A d \in Call : Begun(d) /\ SameKey(d, c) => begunAt[d] + Retention < now
  BY <1>1 DEF KeyInv, BegunInv, SameKey
<1>6. \A d \in Call : Active(d) => KeyOf(d) \in ScopedKey \ {KeyOf(c)}
  BY <1>1 DEF KeyInv, ActiveInv, BegunInv, Active, Begun
<1>7. EffectInv'
  BY <1>1, <1>2, <1>3 DEF KeyInv, EffectInv
<1>8. ActiveInv'
  BY <1>2, <1>4, <1>6 DEF KeyInv, ActiveInv, SameKey
<1>9. BegunInv'
  BY <1>1, <1>2, <1>4, <1>5 DEF KeyInv, BegunInv, SameKey
<1>10. RetentionInv'
  <2>1. \A d, e \in Call : SameKey(d, e) <=> SameKey(e, d)
    BY DEF SameKey
  <2> QED
    BY <1>2, <1>4, <1>5, <2>1 DEF KeyInv, RetentionInv
<1>11. RecordInv'
  BY <1>1, <1>2 DEF KeyInv, RecordInv
<1>12. AnswerInv'
  BY <1>2, <1>3 DEF KeyInv, AnswerInv
<1> QED
  BY <1>7, <1>8, <1>9, <1>10, <1>11, <1>12 DEF KeyInv

\* A begin that fails takes the key and works on nothing.
LEMMA KeyBeginFails ==
    ASSUME TypeOK, TypeOK', KeyInv, NEW c \in Call, BeginFails(c)
    PROVE  KeyInv'
<1> USE SameWork
<1>1. /\ work[c].kind \in Guarded /\ KeyOf(c) \in ScopedKey
      /\ keys[KeyOf(c)].status = "ABSENT" /\ pc[c] = "new"
      /\ keys \in Idem!KeyTable /\ pc \in [Call -> Pc]
  BY ScopedKeys DEF BeginFails, Arrives, Idem!Fresh, TypeOK, GuardTypeOK
<1>2. UNCHANGED <<now, work, child, begunAt, effects>>
  BY DEF BeginFails
<1>3. /\ \A q \in ScopedKey \ {KeyOf(c)} : keys'[q] = keys[q]
      /\ keys'[KeyOf(c)].status \in {"IN_PROGRESS", "FAILED"}
  BY <1>1 DEF BeginFails, BegunKey, Idem!Begin, Idem!Finish, Idem!KeyTable
<1>4. pc'[c] = "error" /\ \A d \in Call \ {c} : pc'[d] = pc[d]
  BY <1>1 DEF BeginFails, Answered, Answers
<1>5. \A d \in Call : (Active(d)' => Active(d)) /\ (Begun(d)' => Begun(d))
  BY <1>2, <1>4 DEF Active, Begun
<1>6. \A d \in Call : Begun(d) => KeyOf(d) # KeyOf(c) \/ begunAt[d] + Retention < now
  BY <1>1 DEF KeyInv, BegunInv
<1>7. \A d \in Call : Active(d) => KeyOf(d) \in ScopedKey \ {KeyOf(c)}
  BY <1>1 DEF KeyInv, ActiveInv, BegunInv, Active, Begun
<1>8. EffectInv'
  BY <1>1, <1>2, <1>4 DEF KeyInv, EffectInv
<1>9. ActiveInv'
  BY <1>2, <1>3, <1>5, <1>7 DEF KeyInv, ActiveInv
<1>10. BegunInv'
  BY <1>2, <1>3, <1>5, <1>6 DEF KeyInv, BegunInv
<1>11. RetentionInv'
  BY <1>2, <1>5 DEF KeyInv, RetentionInv
<1>12. RecordInv'
  BY <1>1, <1>2, <1>3 DEF KeyInv, RecordInv
<1>13. AnswerInv'
  BY <1>2, <1>4 DEF KeyInv, AnswerInv
<1> QED
  BY <1>8, <1>9, <1>10, <1>11, <1>12, <1>13 DEF KeyInv

\* An effect is that of a call that has begun.
LEMMA KeyEffect ==
    ASSUME TypeOK, TypeOK', HeldWhileWorking, KeyInv, NEW c \in Call, TakesEffect(c)
    PROVE  KeyInv'
<1> USE SameWork
<1>1. /\ effects' = effects \cup {c} /\ child[c] # NoChild
      /\ UNCHANGED <<now, work, pc, keys, child, begunAt>>
  BY DEF TakesEffect, callVars, NoChild
<1>2. \A d \in Call : (Active(d)' <=> Active(d)) /\ (Begun(d)' <=> Begun(d))
  BY <1>1 DEF Active, Begun
<1>3. pc[c] # "new"
  BY <1>1 DEF HeldWhileWorking, Held
<1>4. EffectInv'
  BY <1>1, <1>3 DEF KeyInv, EffectInv
<1>5. ActiveInv' /\ BegunInv' /\ RetentionInv'
  BY <1>1, <1>2 DEF KeyInv, ActiveInv, BegunInv, RetentionInv
<1>6. RecordInv' /\ AnswerInv'
  BY <1>1 DEF KeyInv, RecordInv, AnswerInv
<1> QED
  BY <1>4, <1>5, <1>6 DEF KeyInv

\* Pruning frees a key no sooner than the retention of its calls is over.
LEMMA KeyStart ==
    ASSUME TypeOK, TypeOK', KeyInv, Start
    PROVE  KeyInv'
<1> USE SameWork
<1>1. /\ keys' = keys \/ keys' = Idem!PruneKeys(keys, now, Retention)
      /\ UNCHANGED <<now, work, pc, child, begunAt, effects>>
      /\ keys \in Idem!KeyTable /\ begunAt \in [Call -> Nat] /\ now \in Nat
  BY DEF Start, GuardStart, TypeOK, GuardTypeOK
<1>2. \A q \in ScopedKey :
         \/ keys'[q] = keys[q]
         \/ /\ keys[q].status \in {"COMPLETED", "FAILED"}
            /\ keys[q].updatedAt + Retention < now
            /\ keys'[q].status = "ABSENT"
  BY <1>1 DEF Idem!PruneKeys, Idem!Stale, Idem!NoRecord
<1>3. \A d \in Call : (Active(d)' <=> Active(d)) /\ (Begun(d)' <=> Begun(d))
  BY <1>1 DEF Active, Begun
<1>4. \A d \in Call : Active(d) => KeyOf(d) \in ScopedKey
  BY DEF KeyInv, BegunInv, Active, Begun
<1>5. ActiveInv'
  BY <1>1, <1>2, <1>3, <1>4, SMTT(30) DEF KeyInv, ActiveInv
<1>6. BegunInv'
  <2> SUFFICES ASSUME NEW d \in Call, Begun(d), ~(begunAt[d] + Retention < now)
               PROVE  /\ KeyOf(d) \in ScopedKey
                      /\ keys'[KeyOf(d)].status # "ABSENT"
                      /\ begunAt[d] <= keys'[KeyOf(d)].updatedAt
    BY <1>1, <1>3 DEF KeyInv, BegunInv
  <2>1. /\ KeyOf(d) \in ScopedKey /\ keys[KeyOf(d)].status # "ABSENT"
        /\ begunAt[d] <= keys[KeyOf(d)].updatedAt
    BY DEF KeyInv, BegunInv
  <2>2. keys[KeyOf(d)].updatedAt \in Nat /\ begunAt[d] \in Nat /\ Retention \in Nat
    BY <1>1, <2>1, TimeAssumption DEF Idem!KeyTable, Idem!KeyRecord
  <2>3. keys'[KeyOf(d)] = keys[KeyOf(d)]
    BY <1>1, <1>2, <2>1, <2>2
  <2> QED
    BY <2>1, <2>3
<1>7. RecordInv'
  BY <1>1, <1>2 DEF KeyInv, RecordInv
<1>8. EffectInv' /\ RetentionInv' /\ AnswerInv'
  BY <1>1, <1>3 DEF KeyInv, EffectInv, RetentionInv, AnswerInv
<1> QED
  BY <1>5, <1>6, <1>7, <1>8 DEF KeyInv

\* What the events of a child make of its exit code.
LEMMA ZeroOfChild ==
    /\ ~NoChild.zero /\ NoChild.life = "NONE"
    /\ Spawned # NoChild /\ ~Spawned.zero
    /\ \A ch \in Child :
          /\ Terminated(ch).zero = ch.zero /\ TimedOut(ch).zero = ch.zero
          /\ OutputBroken(ch).zero = ch.zero /\ Escalated(ch).zero = ch.zero
          /\ Closed(ch).zero = ch.zero /\ (Abandoned(ch).zero => ch.zero)
          /\ \A zero : Exited(ch, zero).zero = zero
          /\ Settled(NoChild) /\ (ch.life = "EXITED" => ~Settled(ch))
BY DEF Child, NoChild, Spawned, Terminated, OutputBroken, TimedOut, Escalated, Exited,
       Closed, Abandoned, Settled

\* A guarded call under way.
LEMMA KeyGuardedWork ==
    ASSUME TypeOK, TypeOK', HeldWhileWorking, KeyInv, NEW c \in Call,
           GuardedWork(c) \/ Close(c)
    PROVE  KeyInv'
<1>1. /\ child \in [Call -> Child] /\ pc \in [Call -> Pc] /\ now \in Nat /\ child[c] \in Child
      /\ \A d \in Call :
            /\ begunAt[d] <= now /\ (child[d].zero => d \in effects)
            /\ work[d].kind = "restart" /\ child[d] # NoChild => pc[d] = "running"
  BY DEF TypeOK, GuardTypeOK, KeyInv, EffectInv
<1>1a. pc[c] = "preparing" => work[c].kind \in Guarded /\ child[c] = NoChild
  BY DEF HeldWhileWorking, Held
<1>1b. /\ child[c].zero \in BOOLEAN /\ Resolves(child[c]) \in BOOLEAN
       /\ (Resolves(child[c]) /\ child[c].zero) \in BOOLEAN
  BY <1>1 DEF Child, Resolves
<1>1c. DatabaseWrite \subseteq Guarded /\ Restart \subseteq Guarded /\ "helperRestart" \in Guarded
       /\ "command" \notin Guarded /\ "restart" \in Guarded /\ "restart" \notin DatabaseWrite
  BY DEF Guarded, Restart, DatabaseWrite
<1>2. \A d \in Call : work[d].kind \in Guarded /\ child[d] # NoChild => Begun(d)
  BY DEF Begun
<1>3. CASE WorkStarts(c)
  <2>1. /\ UNCHANGED <<work, keys, effects, now, begunAt>>
        /\ pc[c] = "preparing" /\ pc'[c] = "running" /\ child'[c] = Spawned
        /\ \A d \in Call \ {c} : pc'[d] = pc[d] /\ child'[d] = child[d]
    BY <1>1, <1>3 DEF WorkStarts, GoOn, SetChild
  <2>2. Begun(c)
    BY <1>1a, <2>1 DEF Begun
  <2> QED
    BY <1>1, <1>2, <2>1, <2>2, KeyQuiet, ZeroOfChild
<1>4. CASE PreparationFails(c) \/ ConnectionBreaks(c)
  BY <1>1, <1>1a, <1>4, KeySettles, ZeroOfChild, ZenonT(60)
     DEF PreparationFails, ConnectionBreaks, Active, Guarded, Restart
<1>5. CASE WorkerAnswers(c)
  BY <1>1, <1>5, KeySettles, ZeroOfChild DEF WorkerAnswers, SetChild, Active, Guarded, Child
<1>6. CASE WorkerTimesOut(c)
  <2>1. /\ Settles(c, FALSE) /\ Active(c)
        /\ child'[c] = Abandoned(Escalated(TimedOut(child[c])))
        /\ \A d \in Call \ {c} : child'[d] = child[d]
    BY <1>1, <1>1c, <1>6 DEF WorkerTimesOut, SetChild, Active
  <2>2. child'[c].zero => c \in effects
    <3>1. TimedOut(child[c]) \in Child /\ Escalated(TimedOut(child[c])) \in Child
      BY <1>1, ChildTyped
    <3> QED
      BY <1>1, <2>1, <3>1, ZeroOfChild
  <2>3. child'[c] # NoChild => child[c] # NoChild /\ work[c].kind # "restart"
    BY <1>1, <1>6, <2>1 DEF WorkerTimesOut, DatabaseWrite, Abandoned, Escalated, TimedOut, Terminated, NoChild, Child
  <2> QED
    BY <2>1, <2>2, <2>3, KeySettles
<1>7. CASE HelperReplies(c)
  BY <1>1, <1>1b, <1>7, KeySettles, ZeroOfChild, ZenonT(60)
     DEF HelperReplies, SetChild, Active, Guarded, Restart, Child, Resolves
<1>8. CASE HelperTimesOut(c)
  BY <1>1, <1>8, KeySettles, ZeroOfChild
     DEF HelperTimesOut, SetChild, Active, Guarded, Restart, Abandoned
<1>9. CASE ChildTimesOut(c) \/ ChildIsKilled(c)
  <2>1. /\ UNCHANGED <<work, keys, effects, now, begunAt, pc>>
        /\ child'[c] = TimedOut(child[c]) \/ child'[c] = Escalated(child[c])
        /\ child[c] # NoChild
        /\ \A d \in Call \ {c} : child'[d] = child[d]
    BY <1>1, <1>9, ZeroOfChild DEF ChildTimesOut, ChildIsKilled, Watched, SetChild, callVars
  <2>2. child'[c].zero => c \in effects
    BY <1>1, <2>1, ZeroOfChild
  <2> QED
    BY <1>1, <1>2, <2>1, <2>2, KeyQuiet
<1>10. CASE ChildCloses(c)
  <2>1. CASE work[c].kind = "restart"
    <3>1. /\ Settles(c, Resolves(child[c]) /\ child[c].zero) /\ child'[c] = NoChild
          /\ \A d \in Call \ {c} : child'[d] = child[d]
      BY <1>1, <1>10, <2>1 DEF ChildCloses, SetChild
    <3>2. Active(c)
      BY <1>10, <2>1, ZeroOfChild DEF ChildCloses, KeyInv, EffectInv, Active, Guarded, Restart
    <3> QED
      BY <1>1, <1>1b, <3>1, <3>2, KeySettles, ZeroOfChild
  <2>2. CASE work[c].kind # "restart"
    <3>1. /\ UNCHANGED <<work, keys, effects, now, begunAt, pc>>
          /\ child'[c] = Closed(child[c]) /\ child[c] # NoChild
          /\ \A d \in Call \ {c} : child'[d] = child[d]
      BY <1>1, <1>10, <2>2, ZeroOfChild DEF ChildCloses, SetChild, callVars
    <3>2. child'[c].zero => c \in effects
      BY <1>1, <3>1, ZeroOfChild
    <3> QED
      BY <1>1, <1>2, <3>1, <3>2, KeyQuiet
  <2> QED
    BY <2>1, <2>2
<1>11. CASE CommandCloses(c)
  <2>1. /\ UNCHANGED <<work, keys, effects, now, begunAt>>
        /\ child'[c] = NoChild /\ pc'[c] \in {"ok", "error"}
        /\ \A d \in Call \ {c} : pc'[d] = pc[d] /\ child'[d] = child[d]
    BY <1>1, <1>11 DEF CommandCloses, SetChild, Answered, Answers
  <2>2. work[c].kind \notin Guarded
    BY <1>1c, <1>11 DEF CommandCloses
  <2> QED
    BY <1>1, <1>1c, <1>2, <2>1, <2>2, KeyQuiet, ZeroOfChild
<1> QED
  BY <1>3, <1>4, <1>5, <1>6, <1>7, <1>8, <1>9, <1>10, <1>11
     DEF GuardedWork, Close, Handler, PipesClose

\* Every step keeps keys, calls and effects in agreement.
LEMMA KeyStep ==
    TypeOK /\ HeldWhileWorking /\ FileCallsOnly /\ KeyInv /\ [Next]_vars => KeyInv'
<1> SUFFICES ASSUME TypeOK, HeldWhileWorking, FileCallsOnly, KeyInv, [Next]_vars
             PROVE  KeyInv'
  OBVIOUS
<1>1. TypeOK'
  BY TypeStep
<1>2. /\ child \in [Call -> Child] /\ pc \in [Call -> Pc] /\ now \in Nat
      /\ \A d \in Call : /\ begunAt[d] <= now /\ (child[d].zero => d \in effects)
                         /\ work[d].kind = "restart" /\ child[d] # NoChild => pc[d] = "running"
      /\ \A d \in Call : pc[d] = "new" => child[d] = NoChild
  <2>1. \A d \in Call : pc[d] = "new" => child[d] = NoChild
    BY DEF HeldWhileWorking, Held
  <2> QED
    BY <2>1 DEF TypeOK, GuardTypeOK, KeyInv, EffectInv
<1>3. \A d \in Call : work[d].kind \in Guarded /\ child[d] # NoChild => Begun(d)
  BY DEF Begun
<1>4. FileWrite \cap Guarded = {} /\ "command" \notin Guarded /\ "helperRestart" \in Guarded
      /\ "restart" \notin FileWrite
  BY DEF FileWrite, Guarded, DatabaseWrite, Restart
\* A call that is answered or goes on, and nothing else.
<1>5. ASSUME NEW c \in Call, UNCHANGED <<work, guardVars, now>>,
             \A d \in Call \ {c} : pc'[d] = pc[d],
             pc'[c] # "new", child[c] = NoChild \/ work[c].kind \notin Guarded,
             work[c].kind \in Guarded => /\ pc'[c] \notin {"preparing", "running"}
                                         /\ pc'[c] = "ok" =>
                                              \E d \in effects : /\ SameKey(d, c)
                                                                 /\ work[d].print = work[c].print
      PROVE  KeyInv'
  BY <1>1, <1>2, <1>3, <1>5, KeyQuiet DEF guardVars, Guarded, Restart
<1>6. ASSUME NEW c \in Call, Refuse(c)
      PROVE  KeyInv'
  <2>1. /\ pc[c] = "new" /\ pc'[c] = "error" /\ \A d \in Call \ {c} : pc'[d] = pc[d]
        /\ UNCHANGED <<work, guardVars, now>>
    BY <1>2, <1>6 DEF Refuse, Refused, GoOn
  <2> QED
    BY <1>2, <1>5, <2>1
<1>7. ASSUME NEW c \in Call, FileCall(c) \/ FileWork(c)
      PROVE  KeyInv'
  <2>1. UNCHANGED <<now, work, guardVars>>
    BY <1>7 DEF FileCall, FileWork, Look, Enqueue, FileStep, Enter, Checks, WriteTemp,
                ChecksAgain, Rename, Delete, FileFails, Leave, callVars
  <2>2. \/ pc' = pc
        \/ /\ pc'[c] # "new" /\ work[c].kind \in FileWrite
           /\ \A d \in Call \ {c} : pc'[d] = pc[d]
    BY <1>2, <1>7 DEF FileCall, FileWork, Look, Enqueue, FileStep, Enter, Checks, WriteTemp,
                      ChecksAgain, Rename, Delete, FileFails, Leave, GoOn, Answered, Answers,
                      callVars, FileCallsOnly, FilePc, Locking
  <2>3. CASE pc' = pc
    BY <1>1, <1>2, <1>3, <2>1, <2>3, KeyQuiet DEF guardVars
  <2> QED
    BY <1>4, <1>5, <2>1, <2>2, <2>3
<1>8. ASSUME NEW c \in Call, Replays(c)
      PROVE  KeyInv'
  <2>1. /\ pc[c] = "new" /\ pc'[c] \in {"ok", "error"} /\ \A d \in Call \ {c} : pc'[d] = pc[d]
        /\ UNCHANGED <<work, guardVars, now>>
    BY <1>2, <1>8 DEF Replays, Arrives, Answered, Answers
  <2>2. \E d \in effects : SameKey(d, c) /\ work[d].print = work[c].print
    <3>1. KeyOf(c) \in ScopedKey /\ Replayable(c)
      BY <1>8, ScopedKeys DEF Replays, Arrives
    <3> QED
      BY <3>1 DEF KeyInv, RecordInv, Replayable, SameKey
  <2> QED
    BY <1>2, <1>5, <2>1, <2>2
<1>9. ASSUME NEW c \in Call, CommandStarts(c)
      PROVE  KeyInv'
  <2>1. /\ pc[c] = "new" /\ pc'[c] \in {"running", "error"} /\ child'[c] = Spawned
        /\ \A d \in Call \ {c} : /\ pc'[d] = pc[d] /\ child'[d] = child[d]
                                 /\ begunAt'[d] = begunAt[d]
        /\ begunAt'[c] = now /\ work[c].kind = "command"
        /\ UNCHANGED <<work, keys, effects, now>>
    BY <1>2, <1>9 DEF CommandStarts, GoOn, Answered, Answers, SetChild, TypeOK, GuardTypeOK
  <2> QED
    BY <1>1, <1>2, <1>3, <1>4, <2>1, KeyQuiet, ZeroOfChild
<1>10. ASSUME NEW c \in Call, ChildWork(c)
       PROVE  KeyInv'
  <2>1. CASE TakesEffect(c)
    BY <1>1, <2>1, KeyEffect
  <2>2. CASE ChildInterrupted(c)
    <3>1. /\ child'[c] \in {Terminated(child[c]), OutputBroken(child[c])}
          /\ work[c].kind = "command"
          /\ \A d \in Call \ {c} : child'[d] = child[d]
          /\ UNCHANGED <<work, keys, effects, now, pc, begunAt>>
      BY <1>2, <2>2 DEF ChildInterrupted, SetChild, callVars
    <3>2. child'[c].zero => c \in effects
      BY <1>2, <3>1, ZeroOfChild
    <3> QED
      BY <1>1, <1>2, <1>3, <1>4, <3>1, <3>2, KeyQuiet
  <2>3. ASSUME NEW zero \in BOOLEAN, Exits(c, zero)
        PROVE  KeyInv'
    <3>1. /\ \/ child'[c] = NoChild
             \/ Handling(c) /\ child'[c] = Exited(child[c], zero) /\ child[c] # NoChild
          /\ zero => c \in effects
          /\ \A d \in Call \ {c} : child'[d] = child[d]
          /\ UNCHANGED <<work, keys, effects, now, pc, begunAt>>
      BY <1>2, <2>3, ZeroOfChild DEF Exits, SetChild, MayExit, callVars
    <3>2. child'[c].zero => c \in effects
      BY <1>2, <3>1, ZeroOfChild
    <3> QED
      BY <1>1, <1>2, <1>3, <3>1, <3>2, KeyQuiet
  <2> QED
    BY <1>10, <2>1, <2>2, <2>3 DEF ChildWork
<1>11. CASE HelperDies
  <2>1. /\ UNCHANGED <<work, keys, effects, now, pc, begunAt>>
        /\ \A d \in Call : child'[d] = child[d] \/ child'[d] = NoChild
    BY <1>11 DEF HelperDies, callVars
  <2> QED
    BY <1>1, <1>2, <1>3, <2>1, KeyQuiet, ZeroOfChild
<1>12. ASSUME NEW c \in Call, AnswerIsLost(c)
       PROVE  KeyInv'
  <2>1. /\ Settles(c, FALSE) /\ Active(c) /\ work[c].kind = "helperRestart"
        /\ child'[c] = child[c] \/ child'[c] = NoChild
        /\ \A d \in Call \ {c} : child'[d] = child[d]
    BY <1>2, <1>4, <1>12 DEF AnswerIsLost, SetChild, Active, Abandoned
  <2> QED
    BY <1>1, <1>2, <2>1, KeySettles, ZeroOfChild, ZenonT(60)
<1>13. CASE Crash
  <2>1. /\ UNCHANGED <<work, keys, effects, now, begunAt>>
        /\ \A d \in Call : /\ child'[d] = child[d] \/ child'[d] = NoChild
                           /\ work[d].kind = "restart" => child'[d] = NoChild
                           /\ pc'[d] = pc[d] \/ pc'[d] = "lost"
                           /\ pc'[d] \notin {"preparing", "running"}
    BY <1>13 DEF Crash, GuardCrash, Lost, Handling, Over, Abandoned
  <2> QED
    BY <1>1, <1>2, <1>3, <2>1, KeyQuiet, ZeroOfChild
<1>14. CASE Start
  BY <1>1, <1>14, KeyStart
<1>15. CASE Tick
  <2>1. /\ UNCHANGED <<work, keys, effects, begunAt, pc, child>> /\ now' = now + 1
    BY <1>15 DEF Tick, guardVars
  <2>2. \A d \in Call : begunAt[d] <= now'
    BY <1>2, <2>1 DEF TypeOK, GuardTypeOK
  <2> QED
    BY <1>1, <1>2, <1>3, <2>1, <2>2, KeyQuiet
<1>16. CASE UNCHANGED vars
  BY <1>1, <1>2, <1>3, <1>16, KeyQuiet DEF vars, callVars, guardVars
<1> QED
  BY <1>1, <1>6, <1>7, <1>8, <1>9, <1>10, <1>11, <1>12, <1>13, <1>14, <1>15, <1>16,
     KeyBegins, KeyBeginFails, KeyGuardedWork DEF Next, GuardedCall, HelperFault

\* A key does its work once until it is pruned, and who is told of success is
\* told so of work that was done: with late commits, lost answers, crashes and
\* restarts, for any retention and any number of calls.
THEOREM KeyedWorkOnce == Spec => []KeyedWorkIsDoneOnce
<1>1. Init => TypeOK /\ HeldWhileWorking /\ FileCallsOnly /\ KeyInv
  <2> SUFFICES ASSUME Init PROVE TypeOK /\ HeldWhileWorking /\ FileCallsOnly /\ KeyInv
    OBVIOUS
  <2>1. TypeOK /\ HeldWhileWorking
    BY InitTyped DEF Init, GuardInit, HeldWhileWorking, Held, Working, GivenUp, NoChild
  <2>2. FileCallsOnly
    BY DEF Init, FileCallsOnly, FilePc, Locking
  <2>3. \A c \in Call : ~Active(c) /\ ~Begun(c)
    BY DEF Init, GuardInit, Active, Begun
  <2>4. EffectInv /\ RecordInv /\ AnswerInv
    BY DEF Init, GuardInit, EffectInv, RecordInv, AnswerInv, NoChild, Idem!NoRecord
  <2> QED
    BY <2>1, <2>2, <2>3, <2>4 DEF KeyInv, ActiveInv, BegunInv, RetentionInv
<1>2. TypeOK /\ HeldWhileWorking /\ FileCallsOnly /\ KeyInv /\ [Next]_vars
      => TypeOK' /\ HeldWhileWorking' /\ FileCallsOnly' /\ KeyInv'
  BY TypeStep, HeldStep, FileCallsStep, KeyStep
<1>3. TypeOK /\ KeyInv => KeyedWorkIsDoneOnce
  <2> SUFFICES ASSUME TypeOK, KeyInv PROVE KeyedWorkIsDoneOnce
    OBVIOUS
  <2>1. begunAt \in [Call -> Nat] /\ effects \subseteq Call /\ Retention \in Nat
    BY TimeAssumption DEF TypeOK, GuardTypeOK
  <2>2. \A c, d \in Call : begunAt[c] <= begunAt[d] => ~(begunAt[d] + Retention < begunAt[c])
    BY <2>1
  <2>3. \A c \in effects : work[c].kind \in Guarded => Begun(c)
    BY <2>1 DEF Begun
  <2>4. \A c, d \in effects :
           /\ {work[c].kind, work[d].kind} \subseteq Guarded
           /\ c # d /\ KeyOf(c) = KeyOf(d) /\ begunAt[c] <= begunAt[d]
           => begunAt[c] + Retention < begunAt[d]
    BY <2>1, <2>2, <2>3 DEF KeyInv, RetentionInv, SameKey
  <2>5. \A c \in Call : work[c].kind \in Guarded /\ pc[c] = "ok"
           => \E d \in effects : KeyOf(d) = KeyOf(c) /\ work[d].print = work[c].print
    BY DEF KeyInv, AnswerInv, SameKey
  <2> QED
    BY <2>4, <2>5 DEF KeyedWorkIsDoneOnce
<1> QED
  BY <1>1, <1>2, <1>3, PTL DEF Spec

=============================================================================
