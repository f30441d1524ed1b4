------------------------ MODULE ExecutionBarriersProofs ------------------------
(***************************************************************************)
(* What ExecutionBarriers guarantees for every number of executions and    *)
(* tasks, every queue depth, retry count and choice of failures: proved    *)
(* with TLAPS.                                                             *)
(***************************************************************************)
EXTENDS ExecutionBarriers, TLAPS

----
(***************************************************************************)
(* Types.                                                                  *)
(***************************************************************************)
\* A well-typed task, and tasks.
GoodTask(s) == s \in WorkerStates /\ TaskOK(s)
GoodTasks == worker \in [Tasks -> WorkerStates] /\ TasksOK

\* A task that rests, and one that has just been spawned.
LEMMA RestTyped ==
  /\ Resting \in WorkerStates
  /\ GoodTask(Resting)
  /\ \A p \in Tasks : GoodTask(Rest(p))
  /\ \A e \in Execs : GoodTask(Running(e))
<1>1. Resting \in WorkerStates /\ GoodTask(Resting)
  BY ConstantsAssumption
     DEF ConstantsAssumption, Resting, WorkerStates, PCs, GoodTask, TaskOK
<1>2. \A p \in Tasks : GoodTask(Rest(p))
  BY <1>1 DEF Rest, Resting, WorkerStates, PCs, GoodTask, TaskOK
<1>3. \A e \in Execs : GoodTask(Running(e))
  BY <1>1 DEF Running, Resting, WorkerStates, PCs, RunPCs, GoodTask, TaskOK
<1>4. QED
  BY <1>1, <1>2, <1>3

\* Replacing one task by a well-typed one.
LEMMA TaskReplaced ==
  ASSUME GoodTasks, NEW p \in Tasks, NEW s, GoodTask(s),
         worker' = [worker EXCEPT ![p] = s]
  PROVE  GoodTasks'
BY DEF GoodTasks, GoodTask, TasksOK, TaskOK

\* A busy task goes on; to a retry, or to a hand-off, only if it may.
LEMMA GotoTyped ==
  ASSUME GoodTasks, NEW p \in Tasks, NEW l \in PCs \ {"rows"}, Goto(p, l),
         worker[p].pc \notin {"idle", "rows"},
         l = "retry" => worker[p].attempt < MaxRetries,
         l \in {"hand_off", "mark_ready", "ask_approval"} => worker[p].next \in Execs
  PROVE  GoodTasks'
<1> DEFINE s == IF l = "idle" THEN Rest(p) ELSE [worker[p] EXCEPT !.pc = l]
<1>1. GoodTask(s)
  BY RestTyped DEF GoodTasks, GoodTask, TasksOK, TaskOK, WorkerStates
<1>2. worker' = [worker EXCEPT ![p] = s]
  BY DEF Goto, GoodTasks
<1>3. QED
  BY <1>1, <1>2, TaskReplaced

\* A run that is at any statement that needs only its execution.
LEMMA RunningTyped ==
  ASSUME NEW e \in Execs,
         NEW l \in PCs \ {"hand_off", "mark_ready", "ask_approval", "retry"}
  PROVE  GoodTask([Running(e) EXCEPT !.pc = l])
<1> DEFINE s == [Running(e) EXCEPT !.pc = l]
<1>1. Running(e) \in WorkerStates /\ Running(e).exec = e
  BY RestTyped DEF GoodTask, Running, Resting
<1>2. s \in WorkerStates
  BY <1>1 DEF WorkerStates
<1>3. s.pc = l /\ s.exec = e
  BY <1>1 DEF WorkerStates
<1> QED
  BY <1>2, <1>3 DEF GoodTask, TaskOK

\* Where a run that has ended, or one whose statement failed, goes on.
LEMMA NextStatementTyped ==
  \A p \in Tasks :
    /\ AfterRun(p) \in {"idle", "peek", "release"}
    /\ AfterAttempt(p) \in {"retry", "idle", "peek", "release"}
    /\ AfterAttempt(p) = "retry" => worker[p].attempt < MaxRetries
    /\ OnError(p) \in {"idle", "retry", "peek", "release", "check_holder"}
    /\ OnError(p) = "retry" => worker[p].attempt < MaxRetries /\ At(p, "complete")
<1> SUFFICES ASSUME NEW p \in Tasks
             PROVE  /\ AfterRun(p) \in {"idle", "peek", "release"}
                    /\ AfterAttempt(p) \in {"retry", "idle", "peek", "release"}
                    /\ AfterAttempt(p) = "retry" => worker[p].attempt < MaxRetries
                    /\ OnError(p) \in {"idle", "retry", "peek", "release", "check_holder"}
                    /\ OnError(p) = "retry" => worker[p].attempt < MaxRetries /\ At(p, "complete")
  OBVIOUS
<1>1. AfterRun(p) \in {"idle", "peek", "release"}
  BY DEF AfterRun, Completion
<1>2. /\ AfterAttempt(p) \in {"retry", "idle", "peek", "release"}
      /\ AfterAttempt(p) = "retry" => worker[p].attempt < MaxRetries
  BY <1>1 DEF AfterAttempt, Retries, PCs, RunPCs
<1>3. /\ OnError(p) \in {"idle", "retry", "peek", "release", "check_holder"}
      /\ (OnError(p) = "retry" => worker[p].attempt < MaxRetries /\ At(p, "complete"))
  BY <1>1, <1>2 DEF OnError, At
<1>4. QED
  BY <1>1, <1>2, <1>3

\* No step changes the settings of the hook.
LEMMA HookStays ==
  ASSUME [Next]_vars
  PROVE  /\ hook' = hook
         /\ Mode' = Mode
         /\ ApprovalRequired' = ApprovalRequired
         /\ ApprovalTimeout' = ApprovalTimeout
<1>1. hook' = hook
  <2> USE DEF execution, queue, external
  <2>1. ASSUME NEW p \in Tasks, Step(p) PROVE hook' = hook
    BY <2>1
       DEF Step, TryAcquire, CountWaiting, CreateQueued, Enqueue, Create, Spawn,
           MarkRunning, CommandEnds, MarkCompleted, ResetToPending, Release, Peek,
           HandOff, MarkReady, AskApproval, FetchDequeued, Unapprove, ExpireEntry,
           CheckHolder
  <2>2. ASSUME NEW p \in Tasks, Request(p) \/ Failure(p) PROVE hook' = hook
    BY <2>2
       DEF Request, Trigger, Replay, Approve, Reject, Failure, LogsFail,
           StatementFails, Disconnect
  <2>3. CASE Sweep \/ SweepStep \/ RowFails
    BY <2>3 DEF Sweep, SweepStep, MarkExpired, SweepEnds, RowFails
  <2>4. CASE Restart \/ UNCHANGED vars
    BY <2>4 DEF Restart, vars
  <2>5. QED
    BY <2>1, <2>2, <2>3, <2>4 DEF Next
<1>2. QED
  BY <1>1 DEF Mode, ApprovalRequired, ApprovalTimeout

\* TypeOK holds in every state: statuses, queue rows and tasks keep their
\* types through every action, and no run retries more often than configured.
THEOREM TypeCorrect == Spec => [](TypeOK /\ TasksOK)
<1>1. Init => TypeOK /\ TasksOK
  <2> SUFFICES ASSUME Init PROVE TypeOK /\ TasksOK
    OBVIOUS
  <2>1. worker \in [Tasks -> WorkerStates] /\ TasksOK
    BY RestTyped DEF Init, TasksOK, GoodTask
  <2>2. QED
    BY <2>1, ConstantsAssumption
       DEF Init, TypeOK, Statuses, Life!Statuses, ConstantsAssumption
<1>2. TypeOK /\ TasksOK /\ [Next]_vars => (TypeOK /\ TasksOK)'
  <2> SUFFICES ASSUME TypeOK, TasksOK, [Next]_vars
               PROVE  (TypeOK /\ TasksOK)'
    OBVIOUS
  <2> USE DEF execution, queue, external
  <2>0. GoodTasks
    BY DEF TypeOK, GoodTasks
  <2>1. ASSUME NEW p \in Tasks, Step(p) PROVE (TypeOK /\ TasksOK)'
    <3>1. CASE TryAcquire(p)
      <4>1. GoodTasks'
        BY <2>0, <3>1, GotoTyped
           DEF TryAcquire, At, PCs, TriggerPCs, DecisionPCs, RunPCs, CompletionPCs
      <4>2. lock' \in Execs \cup {None}
        BY <2>0, <3>1 DEF TryAcquire, TypeOK, Exec, WorkerStates
      <4>3. QED
        BY <3>1, <4>1, <4>2 DEF TryAcquire, TypeOK, GoodTasks
    <3>2. CASE CountWaiting(p)
      <4>1. GoodTasks'
        BY <2>0, <3>2, GotoTyped
           DEF CountWaiting, At, PCs, TriggerPCs, DecisionPCs, RunPCs, CompletionPCs
      <4>2. QED
        BY <3>2, <4>1 DEF CountWaiting, TypeOK, GoodTasks
    <3>3. CASE CreateQueued(p)
      <4>1. GoodTasks'
        BY <2>0, <3>3, GotoTyped
           DEF CreateQueued, At, PCs, TriggerPCs, DecisionPCs, RunPCs, CompletionPCs
      <4>2. status' \in [Execs -> Statuses]
        BY <2>0, <3>3
           DEF CreateQueued, TypeOK, Insert, Statuses, Life!Statuses, Life!Terminal
      <4>3. QED
        BY <3>3, <4>1, <4>2 DEF CreateQueued, TypeOK, GoodTasks
    <3>4. CASE Enqueue(p)
      <4>1. GoodTasks'
        BY <2>0, <3>4, GotoTyped
           DEF Enqueue, At, PCs, TriggerPCs, DecisionPCs, RunPCs, CompletionPCs
      <4>2. entry' \in [Execs -> {"none", "waiting", "ready", "expired"}]
        BY <2>0, <3>4 DEF Enqueue, TypeOK, Exec
      <4>3. position' \in [Execs -> Nat]
        <5>1. PICK e \in Execs : position' = [position EXCEPT ![Exec(p)] = position[e] + 1]
          BY <3>4 DEF Enqueue
        <5>2. position[e] + 1 \in Nat
          BY DEF TypeOK
        <5>3. QED
          BY <5>1, <5>2 DEF TypeOK
      <4>4. QED
        BY <3>4, <4>1, <4>2, <4>3 DEF Enqueue, TypeOK, GoodTasks
    <3>5. CASE Create(p)
      <4>1. GoodTasks'
        BY <2>0, <3>5, GotoTyped
           DEF Create, At, PCs, TriggerPCs, DecisionPCs, RunPCs, CompletionPCs
      <4>2. status' \in [Execs -> Statuses]
        BY <2>0, <3>5 DEF Create, TypeOK, Insert, Statuses, Life!Statuses, Life!Terminal
      <4>3. QED
        BY <3>5, <4>1, <4>2 DEF Create, TypeOK, GoodTasks
    <3>6. CASE Spawn(p)
      <4> DEFINE s == Running(Exec(p))
      <4>1. GoodTask(s)
        BY <2>0, <3>6, RestTyped
           DEF Spawn, GoodTasks, GoodTask, TasksOK, TaskOK, WorkerStates, Exec, At, PCs,
               TriggerPCs, DecisionPCs, RunPCs, CompletionPCs
      <4>2. worker' = [worker EXCEPT ![p] = s]
        BY <3>6 DEF Spawn, GoodTasks
      <4>3. GoodTasks'
        BY <2>0, <4>1, <4>2, TaskReplaced
      <4>4. QED
        BY <3>6, <4>3 DEF Spawn, TypeOK, GoodTasks
    <3>7. CASE MarkRunning(p)
      <4>1. GoodTasks'
        BY <2>0, <3>7, GotoTyped, NextStatementTyped
           DEF MarkRunning, At, PCs, TriggerPCs, DecisionPCs, RunPCs, CompletionPCs
      <4>2. status' \in [Execs -> Statuses]
        BY <2>0, <3>7 DEF MarkRunning, TypeOK, Statuses, Life!Statuses, Life!Terminal
      <4>3. QED
        BY <3>7, <4>1, <4>2 DEF MarkRunning, TypeOK, GoodTasks
    <3>8. CASE CommandEnds(p)
      <4>1. PICK o \in Outcomes :
              worker' = [worker EXCEPT ![p].pc = "complete", ![p].outcome = o]
        BY <3>8 DEF CommandEnds
      <4> DEFINE s == [worker[p] EXCEPT !.pc = "complete", !.outcome = o]
      <4>2. GoodTask(s)
        <5>1. worker[p] \in WorkerStates /\ worker[p].exec \in Execs
          BY <2>0, <3>8 DEF CommandEnds, GoodTasks, TasksOK, TaskOK, At
        <5>2. s \in WorkerStates
          BY <5>1 DEF WorkerStates, PCs, RunPCs
        <5>3. s.pc = "complete" /\ s.exec = worker[p].exec
          BY <5>1 DEF WorkerStates
        <5> QED
          BY <5>1, <5>2, <5>3 DEF GoodTask, TaskOK
      <4>3. worker' = [worker EXCEPT ![p] = s]
        BY <3>8, <4>1 DEF CommandEnds, GoodTasks
      <4>4. GoodTasks'
        BY <2>0, <4>2, <4>3, TaskReplaced
      <4>5. QED
        BY <3>8, <4>4 DEF CommandEnds, TypeOK, GoodTasks
    <3>9. CASE MarkCompleted(p)
      <4>1. GoodTasks'
        BY <2>0, <3>9, GotoTyped, NextStatementTyped
           DEF MarkCompleted, At, PCs, TriggerPCs, DecisionPCs, RunPCs, CompletionPCs
      <4>2. status' \in [Execs -> Statuses]
        BY <2>0, <3>9
           DEF MarkCompleted, TypeOK, StatusOf, Statuses, Life!Statuses, Life!Terminal
      <4>3. QED
        BY <3>9, <4>1, <4>2 DEF MarkCompleted, TypeOK, GoodTasks
    <3>10. CASE ResetToPending(p)
      <4> DEFINE s == [worker[p] EXCEPT !.pc = "start", !.attempt = @ + 1,
                                      !.outcome = "none"]
      <4>1. GoodTask(s)
        BY <2>0, <3>10, RestTyped, ConstantsAssumption
           DEF ResetToPending, GoodTasks, GoodTask, TasksOK, TaskOK, WorkerStates, Exec,
               At, PCs, TriggerPCs, DecisionPCs, RunPCs, CompletionPCs,
               ConstantsAssumption
      <4>2. worker' = [worker EXCEPT ![p] = s]
        BY <3>10 DEF ResetToPending, GoodTasks
      <4>3. GoodTasks'
        BY <2>0, <4>1, <4>2, TaskReplaced
      <4>4. status' \in [Execs -> Statuses]
        BY <2>0, <3>10 DEF ResetToPending, TypeOK, Statuses, Life!Statuses, Life!Terminal
      <4>5. QED
        BY <3>10, <4>3, <4>4 DEF ResetToPending, TypeOK, GoodTasks
    <3>11. CASE Release(p)
      <4>1. GoodTasks'
        BY <2>0, <3>11, GotoTyped
           DEF Release, At, PCs, TriggerPCs, DecisionPCs, RunPCs, CompletionPCs
      <4>2. QED
        BY <3>11, <4>1 DEF Release, TypeOK, GoodTasks
    <3>12. CASE Peek(p)
      <4>1. GoodTasks'
        <5>1. CASE Goto(p, "release")
          BY <2>0, <3>12, <5>1, GotoTyped
             DEF Peek, At, PCs, TriggerPCs, DecisionPCs, RunPCs, CompletionPCs
        <5>2. ASSUME NEW e \in Execs,
                     worker' = [worker EXCEPT ![p].pc = "hand_off", ![p].next = e]
              PROVE  GoodTasks'
          <6> DEFINE s == [worker[p] EXCEPT !.pc = "hand_off", !.next = e]
          <6>1. GoodTask(s)
            BY <2>0, <3>12 DEF Peek, GoodTasks, GoodTask, TasksOK, TaskOK, WorkerStates,
                               At, PCs, TriggerPCs, DecisionPCs, RunPCs, CompletionPCs
          <6>2. worker' = [worker EXCEPT ![p] = s]
            BY <5>2 DEF GoodTasks
          <6>3. QED
            BY <2>0, <6>1, <6>2, TaskReplaced
        <5>3. QED
          BY <3>12, <5>1, <5>2 DEF Peek
      <4>2. QED
        BY <3>12, <4>1 DEF Peek, TypeOK, GoodTasks
    <3>13. CASE HandOff(p)
      <4>1. GoodTasks'
        BY <2>0, <3>13, GotoTyped
           DEF HandOff, At, PCs, TriggerPCs, DecisionPCs, RunPCs, CompletionPCs,
               GoodTasks, TasksOK, TaskOK
      <4>2. lock' \in Execs \cup {None}
        BY <2>0, <3>13 DEF HandOff, TypeOK, HolderAfterHandOff, WorkerStates
      <4>3. QED
        BY <3>13, <4>1, <4>2 DEF HandOff, TypeOK, GoodTasks
    <3>14. CASE MarkReady(p)
      <4>1. worker[p].next \in Execs
        BY <2>0, <3>14 DEF MarkReady, At, GoodTasks, TasksOK, TaskOK
      <4>2. GoodTasks'
        <5>1. CASE ApprovalRequired
          <6>1. Goto(p, "ask_approval")
            BY <3>14, <5>1 DEF MarkReady, AfterMarkReady
          <6>2. QED
            BY <2>0, <3>14, <4>1, <6>1, GotoTyped DEF MarkReady, At, PCs, CompletionPCs
        <5>2. CASE ~ApprovalRequired
          <6> DEFINE dequeued == [Running(worker[p].next) EXCEPT !.pc = "fetch"]
          <6>1. GoodTask(dequeued)
            BY <4>1, RunningTyped DEF PCs, CompletionPCs
          <6>2. worker' = [worker EXCEPT ![p] = dequeued]
            BY <3>14, <5>2 DEF MarkReady, AfterMarkReady, SpawnDequeued
          <6>3. QED
            BY <2>0, <6>1, <6>2, TaskReplaced
        <5>3. QED
          BY <5>1, <5>2
      <4>3. entry' \in [Execs -> {"none", "waiting", "ready", "expired"}]
        BY <2>0, <3>14 DEF MarkReady, TypeOK, Results
      <4>4. QED
        BY <3>14, <4>2, <4>3 DEF MarkReady, TypeOK, GoodTasks
    <3>15. CASE AskApproval(p)
      <4>1. GoodTasks'
        BY <2>0, <3>15, GotoTyped
           DEF AskApproval, At, PCs, TriggerPCs, DecisionPCs, RunPCs, CompletionPCs
      <4>2. status' \in [Execs -> Statuses]
        BY <2>0, <3>15 DEF AskApproval, TypeOK, Statuses, Life!Statuses, Life!Terminal
      <4>3. QED
        BY <3>15, <4>1, <4>2 DEF AskApproval, TypeOK, GoodTasks
    <3>16. CASE FetchDequeued(p)
      <4>1. GoodTasks'
        BY <2>0, <3>16, GotoTyped
           DEF FetchDequeued, At, PCs, TriggerPCs, DecisionPCs, RunPCs, CompletionPCs
      <4>2. QED
        BY <3>16, <4>1 DEF FetchDequeued, TypeOK, GoodTasks
    <3>17. CASE Unapprove(p)
      <4> DEFINE s == Running(Exec(p))
      <4>1. GoodTask(s)
        BY <2>0, <3>17, RestTyped
           DEF Unapprove, GoodTasks, GoodTask, TasksOK, TaskOK, WorkerStates, Exec, At,
               PCs, TriggerPCs, DecisionPCs, RunPCs, CompletionPCs
      <4>2. worker' = [worker EXCEPT ![p] = s]
        BY <3>17 DEF Unapprove, GoodTasks
      <4>3. GoodTasks'
        BY <2>0, <4>1, <4>2, TaskReplaced
      <4>4. status' \in [Execs -> Statuses]
        BY <2>0, <3>17 DEF Unapprove, TypeOK, Statuses, Life!Statuses, Life!Terminal
      <4>5. QED
        BY <3>17, <4>3, <4>4 DEF Unapprove, TypeOK, GoodTasks
    <3>18. CASE ExpireEntry(p)
      <4>1. GoodTasks'
        BY <2>0, <3>18, GotoTyped
           DEF ExpireEntry, At, PCs, TriggerPCs, DecisionPCs, RunPCs, CompletionPCs
      <4>2. entry' \in [Execs -> {"none", "waiting", "ready", "expired"}]
        BY <2>0, <3>18 DEF ExpireEntry, TypeOK, Exec
      <4>3. QED
        BY <3>18, <4>1, <4>2 DEF ExpireEntry, TypeOK, GoodTasks
    <3>19. CASE CheckHolder(p)
      <4>1. GoodTasks'
        BY <2>0, <3>19, GotoTyped
           DEF CheckHolder, At, PCs, TriggerPCs, DecisionPCs, RunPCs, CompletionPCs,
               Completion
      <4>2. QED
        BY <3>19, <4>1 DEF CheckHolder, TypeOK, GoodTasks
    <3>20. QED
      BY <2>1, <3>1, <3>2, <3>3, <3>4, <3>5, <3>6, <3>7, <3>8, <3>9, <3>10, <3>11, <3>12,
         <3>13, <3>14, <3>15, <3>16, <3>17, <3>18, <3>19
         DEF Step
  <2>2. ASSUME NEW p \in Tasks, Request(p) PROVE (TypeOK /\ TasksOK)'
    <3>1. CASE Trigger(p)
      <4>1. PICK e \in Execs : worker' = [worker EXCEPT ![p] =
              [Resting EXCEPT !.pc = FirstStatement, !.exec = e, !.request = TRUE]]
        BY <3>1 DEF Trigger
      <4>2. FirstStatement \in {"create", "acquire"}
        BY DEF FirstStatement
      <4> DEFINE s == [Resting EXCEPT !.pc = FirstStatement, !.exec = e, !.request = TRUE]
      <4>3. GoodTask(s)
        BY <4>2, RestTyped DEF GoodTask, TaskOK, WorkerStates, PCs, TriggerPCs
      <4>4. GoodTasks'
        BY <2>0, <4>1, <4>3, TaskReplaced
      <4>5. QED
        BY <3>1, <4>4 DEF Trigger, TypeOK, GoodTasks
    <3>2. CASE Replay(p)
      <4>1. PICK e \in Execs : worker' = [worker EXCEPT ![p] =
              [Running(e) EXCEPT !.pc = "spawn", !.request = TRUE]]
        BY <3>2 DEF Replay
      <4> DEFINE s == [Running(e) EXCEPT !.pc = "spawn", !.request = TRUE]
      <4>2. GoodTask(s)
        <5> DEFINE r == [Running(e) EXCEPT !.pc = "spawn"]
        <5>1. GoodTask(r)
          BY RunningTyped DEF PCs, TriggerPCs
        <5>2. s = [r EXCEPT !.request = TRUE]
          BY DEF Running, Resting
        <5> HIDE DEF r, s
        <5> QED
          BY <5>1, <5>2 DEF GoodTask, TaskOK, WorkerStates
      <4>3. worker' = [worker EXCEPT ![p] = s]
        BY <3>2, <4>1 DEF Replay, GoodTasks
      <4>4. GoodTasks'
        BY <2>0, <4>2, <4>3, TaskReplaced
      <4>5. status' \in [Execs -> Statuses]
        BY <2>0, <3>2 DEF Replay, TypeOK, Insert, Statuses, Life!Statuses, Life!Terminal
      <4>6. replays' \in SUBSET Execs
        BY <2>0, <3>2 DEF Replay, TypeOK, Insert
      <4>7. QED
        BY <3>2, <4>4, <4>5, <4>6 DEF Replay, TypeOK, GoodTasks
    <3>3. CASE Approve(p)
      <4>1. PICK e \in AwaitingApproval : worker' = [worker EXCEPT ![p] =
              [Resting EXCEPT !.pc = "unapprove", !.exec = e, !.request = TRUE]]
        BY <3>3 DEF Approve
      <4> DEFINE s == [Resting EXCEPT !.pc = "unapprove", !.exec = e, !.request = TRUE]
      <4>2. GoodTask(s)
        <5> DEFINE r == [Running(e) EXCEPT !.pc = "unapprove"]
        <5>1. GoodTask(r)
          BY RunningTyped DEF AwaitingApproval, PCs, DecisionPCs
        <5>2. s = [r EXCEPT !.request = TRUE]
          BY DEF Running, Resting
        <5> HIDE DEF r, s
        <5> QED
          BY <5>1, <5>2 DEF GoodTask, TaskOK, WorkerStates
      <4>3. worker' = [worker EXCEPT ![p] = s]
        BY <3>3, <4>1 DEF Approve, GoodTasks
      <4>4. GoodTasks'
        BY <2>0, <4>2, <4>3, TaskReplaced
      <4>5. status' \in [Execs -> Statuses]
        BY <2>0, <3>3
           DEF Approve, TypeOK, AwaitingApproval, Statuses, Life!Statuses, Life!Terminal
      <4>6. approvedAt' \in SUBSET Execs
        BY <2>0, <3>3 DEF Approve, TypeOK, AwaitingApproval
      <4>7. QED
        BY <3>3, <4>4, <4>5, <4>6 DEF Approve, TypeOK, GoodTasks
    <3>4. CASE Reject(p)
      <4>1. PICK e \in AwaitingApproval : worker' = [worker EXCEPT ![p] =
              [Resting EXCEPT !.pc = "expire_entry", !.exec = e, !.request = TRUE]]
        BY <3>4 DEF Reject
      <4> DEFINE s == [Resting EXCEPT !.pc = "expire_entry", !.exec = e, !.request = TRUE]
      <4>2. GoodTask(s)
        <5> DEFINE r == [Running(e) EXCEPT !.pc = "expire_entry"]
        <5>1. GoodTask(r)
          BY RunningTyped DEF AwaitingApproval, PCs, DecisionPCs
        <5>2. s = [r EXCEPT !.request = TRUE]
          BY DEF Running, Resting
        <5> HIDE DEF r, s
        <5> QED
          BY <5>1, <5>2 DEF GoodTask, TaskOK, WorkerStates
      <4>3. worker' = [worker EXCEPT ![p] = s]
        BY <3>4, <4>1 DEF Reject, GoodTasks
      <4>4. GoodTasks'
        BY <2>0, <4>2, <4>3, TaskReplaced
      <4>5. status' \in [Execs -> Statuses]
        BY <2>0, <3>4
           DEF Reject, TypeOK, AwaitingApproval, Statuses, Life!Statuses, Life!Terminal
      <4>6. approvedAt' \in SUBSET Execs
        BY <2>0, <3>4 DEF Reject, TypeOK, AwaitingApproval
      <4>7. QED
        BY <3>4, <4>4, <4>5, <4>6 DEF Reject, TypeOK, GoodTasks
    <3>5. QED
      BY <2>2, <3>1, <3>2, <3>3, <3>4 DEF Request
  <2>3. ASSUME NEW p \in Tasks, Failure(p) PROVE (TypeOK /\ TasksOK)'
    <3>1. CASE LogsFail(p)
      <4>1. GoodTasks'
        BY <2>0, <3>1, GotoTyped, NextStatementTyped
           DEF LogsFail, At, PCs, TriggerPCs, DecisionPCs, RunPCs, CompletionPCs
      <4>2. QED
        BY <3>1, <4>1 DEF LogsFail, TypeOK, GoodTasks
    <3>2. CASE StatementFails(p)
      <4>1. GoodTasks'
        <5>1. CASE At(p, "unapprove")
          BY <2>0, <3>2, <5>1, RestTyped, TaskReplaced
             DEF StatementFails, At, Exec, GoodTasks, TasksOK, TaskOK
        <5>2. CASE ~At(p, "unapprove")
          BY <2>0, <3>2, <5>2, GotoTyped, NextStatementTyped
             DEF StatementFails, PCs, DecisionPCs, RunPCs, CompletionPCs
        <5>3. QED
          BY <5>1, <5>2
      <4>2. QED
        BY <3>2, <4>1 DEF StatementFails, TypeOK, GoodTasks
    <3>3. CASE Disconnect(p)
      <4>1. GoodTasks'
        BY <2>0, <3>3, RestTyped, TaskReplaced DEF Disconnect
      <4>2. QED
        BY <3>3, <4>1 DEF Disconnect, TypeOK, GoodTasks
    <3>4. QED
      BY <2>3, <3>1, <3>2, <3>3 DEF Failure
  <2>4. CASE Sweep \/ SweepStep
    <3>0. Sweeper \in Tasks /\ GoodTask(Resting) /\ GoodTask(Rest(Sweeper))
      BY RestTyped DEF Tasks
    <3>1. GoodTasks'
      <4>1. CASE Sweep
        BY <2>0, <3>0, <4>1, TaskReplaced DEF Sweep
      <4>2. CASE SweepEnds
        BY <2>0, <3>0, <4>2, TaskReplaced DEF SweepEnds
      <4>3. CASE MarkExpired
        <5>1. PICK e \in rows :
                worker' = [worker EXCEPT ![Sweeper].pc = "expire_entry", ![Sweeper].exec = e]
          BY <4>3 DEF MarkExpired
        <5> DEFINE s == [worker[Sweeper] EXCEPT !.pc = "expire_entry", !.exec = e]
        <5>2. GoodTask(s)
          BY <2>0, <3>0, <5>1
             DEF TypeOK, GoodTasks, GoodTask, TasksOK, TaskOK, WorkerStates, PCs,
                 DecisionPCs
        <5>3. worker' = [worker EXCEPT ![Sweeper] = s]
          BY <5>1 DEF GoodTasks
        <5>4. QED
          BY <2>0, <3>0, <5>2, <5>3, TaskReplaced
      <4>4. QED
        BY <2>4, <4>1, <4>2, <4>3 DEF SweepStep
    <3>2. status' \in [Execs -> Statuses]
      BY <2>4 DEF Sweep, SweepStep, MarkExpired, SweepEnds, TypeOK, Statuses,
                  Life!Statuses, Life!Terminal
    <3>3. rows' \in SUBSET Execs
      BY <2>4 DEF Sweep, SweepStep, MarkExpired, SweepEnds, TypeOK, AwaitingApproval
    <3>4. QED
      BY <2>4, <3>1, <3>2, <3>3
         DEF Sweep, SweepStep, MarkExpired, SweepEnds, TypeOK, GoodTasks
  <2>5. CASE RowFails
    BY <2>5 DEF RowFails, TypeOK, TasksOK
  <2>6. CASE Restart
    <3>1. GoodTasks'
      BY <2>6, RestTyped
         DEF Restart, StatusAfterRestart, FinishedByRestart, GoodTasks, GoodTask, TasksOK
    <3>2. status' \in [Execs -> Statuses] /\ lock' \in Execs \cup {None}
      BY <2>6
         DEF Restart, StatusAfterRestart, FinishedByRestart, TypeOK, Statuses,
             Life!Statuses, Life!Terminal
    <3>3. entry' \in [Execs -> {"none", "waiting", "ready", "expired"}]
      BY <2>6 DEF Restart, StatusAfterRestart, FinishedByRestart, TypeOK
    <3>4. crashes' \in 0..MaxCrashes
      BY <2>6, ConstantsAssumption DEF Restart, TypeOK, ConstantsAssumption
    <3>5. QED
      BY <2>6, <3>1, <3>2, <3>3, <3>4
         DEF Restart, StatusAfterRestart, FinishedByRestart, TypeOK, GoodTasks
  <2>7. CASE UNCHANGED vars
    BY <2>7 DEF vars, TypeOK, TasksOK
  <2>8. QED
    BY <2>1, <2>2, <2>3, <2>4, <2>5, <2>6, <2>7 DEF Next
<1>3. QED
  BY <1>1, <1>2, PTL DEF Spec

----
(***************************************************************************)
(* Approval.                                                               *)
(***************************************************************************)
\* Whoever is about to run a command has the decision already.
LEMMA ClearedHolds == Spec => []ClearedInvariant
<1>1. Init => ClearedInvariant
  BY DEF Init, ClearedInvariant, ClearedBeforeRun, Resting, At, RunPCs
<1>2. TypeOK /\ TasksOK /\ ClearedInvariant /\ [Next]_vars => ClearedInvariant'
  <2> SUFFICES ASSUME TypeOK, TasksOK, ClearedInvariant, [Next]_vars
               PROVE  ClearedInvariant'
    OBVIOUS
  <2>0. ApprovalRequired' = ApprovalRequired
    BY HookStays
  <2> USE <2>0 DEF execution, queue, external
  <2>3. ASSUME NEW p \in Tasks, Step(p) PROVE ClearedInvariant'
    <3>1. CASE TryAcquire(p)
      BY <3>1
         DEF TryAcquire, ClearedInvariant, ClearedBeforeRun, Life!Cleared, TypeOK,
             WorkerStates, Goto, Rest, Resting, Running, At, Exec, RunPCs
    <3>2. CASE CountWaiting(p)
      BY <3>2
         DEF CountWaiting, ClearedInvariant, ClearedBeforeRun, Life!Cleared, TypeOK,
             WorkerStates, Goto, Rest, Resting, Running, At, Exec, RunPCs
    <3>3. CASE CreateQueued(p)
      BY <3>3
         DEF CreateQueued, Insert, ClearedInvariant, ClearedBeforeRun, Life!Cleared,
             TypeOK, WorkerStates, Goto, Rest, Resting, Running, At, Exec, RunPCs
    <3>4. CASE Enqueue(p)
      BY <3>4
         DEF Enqueue, ClearedInvariant, ClearedBeforeRun, Life!Cleared, TypeOK,
             WorkerStates, Goto, Rest, Resting, Running, At, Exec, RunPCs
    <3>5. CASE Create(p)
      BY <3>5
         DEF Create, Insert, ClearedInvariant, ClearedBeforeRun, Life!Cleared, TypeOK,
             WorkerStates, Goto, Rest, Resting, Running, At, Exec, RunPCs
    <3>6. CASE Spawn(p)
      BY <3>6
         DEF Spawn, ClearedInvariant, ClearedBeforeRun, Life!Cleared, TypeOK,
             WorkerStates, Goto, Rest, Resting, Running, At, Exec, RunPCs
    <3>7. CASE MarkRunning(p)
      BY <3>7
         DEF MarkRunning, AfterRun, Completion, ClearedInvariant, ClearedBeforeRun,
             Life!Cleared, TypeOK, WorkerStates, Goto, Rest, Resting, Running, At, Exec,
             RunPCs
    <3>8. CASE CommandEnds(p)
      BY <3>8
         DEF CommandEnds, ClearedInvariant, ClearedBeforeRun, Life!Cleared, TypeOK,
             WorkerStates, Goto, Rest, Resting, Running, At, Exec, RunPCs
    <3>9. CASE MarkCompleted(p)
      BY <3>9
         DEF MarkCompleted, AfterAttempt, Retries, AfterRun, Completion, StatusOf,
             ClearedInvariant, ClearedBeforeRun, Life!Cleared, TypeOK, WorkerStates, Goto,
             Rest, Resting, Running, At, Exec, RunPCs
    <3>10. CASE ResetToPending(p)
      BY <3>10
         DEF ResetToPending, ClearedInvariant, ClearedBeforeRun, Life!Cleared, TypeOK,
             WorkerStates, Goto, Rest, Resting, Running, At, Exec, RunPCs
    <3>11. CASE Release(p)
      BY <3>11
         DEF Release, ClearedInvariant, ClearedBeforeRun, Life!Cleared, TypeOK,
             WorkerStates, Goto, Rest, Resting, Running, At, Exec, RunPCs
    <3>12. CASE Peek(p)
      BY <3>12
         DEF Peek, ClearedInvariant, ClearedBeforeRun, Life!Cleared, TypeOK, WorkerStates,
             Goto, Rest, Resting, Running, At, Exec, RunPCs
    <3>13. CASE HandOff(p)
      BY <3>13
         DEF HandOff, ClearedInvariant, ClearedBeforeRun, Life!Cleared, TypeOK,
             WorkerStates, Goto, Rest, Resting, Running, At, Exec, RunPCs
    <3>14. CASE MarkReady(p)
      BY <3>14
         DEF MarkReady, AfterMarkReady, SpawnDequeued, ClearedInvariant, ClearedBeforeRun,
             Life!Cleared, TypeOK, WorkerStates, Goto, Rest, Resting, Running, At, Exec,
             RunPCs
    <3>15. CASE AskApproval(p)
      BY <3>15
         DEF AskApproval, ClearedInvariant, ClearedBeforeRun, Life!Cleared, TypeOK,
             WorkerStates, Goto, Rest, Resting, Running, At, Exec, RunPCs
    <3>16. CASE FetchDequeued(p)
      BY <3>16
         DEF FetchDequeued, ClearedInvariant, ClearedBeforeRun, Life!Cleared, TypeOK,
             WorkerStates, Goto, Rest, Resting, Running, At, Exec, RunPCs
    <3>17. CASE Unapprove(p)
      BY <3>17
         DEF Unapprove, ClearedInvariant, ClearedBeforeRun, Life!Cleared, TypeOK,
             WorkerStates, Goto, Rest, Resting, Running, At, Exec, RunPCs
    <3>18. CASE ExpireEntry(p)
      BY <3>18
         DEF ExpireEntry, ClearedInvariant, ClearedBeforeRun, Life!Cleared, TypeOK,
             WorkerStates, Goto, Rest, Resting, Running, At, Exec, RunPCs
    <3>19. CASE CheckHolder(p)
      BY <3>19
         DEF CheckHolder, Completion, ClearedInvariant, ClearedBeforeRun, Life!Cleared,
             TypeOK, WorkerStates, Goto, Rest, Resting, Running, At, Exec, RunPCs
    <3>20. QED
      BY <2>3, <3>1, <3>2, <3>3, <3>4, <3>5, <3>6, <3>7, <3>8, <3>9, <3>10, <3>11, <3>12,
         <3>13, <3>14, <3>15, <3>16, <3>17, <3>18, <3>19
         DEF Step
  <2>4. ASSUME NEW p \in Tasks, Request(p) PROVE ClearedInvariant'
    <3>1. CASE Trigger(p)
      BY <3>1
         DEF Trigger, FirstStatement, ClearedInvariant, ClearedBeforeRun, Life!Cleared,
             TypeOK, WorkerStates, Goto, Rest, Resting, Running, At, Exec, RunPCs
    <3>2. CASE Replay(p)
      BY <3>2
         DEF Replay, Insert, Fresh, ClearedInvariant, ClearedBeforeRun, Life!Cleared,
             TypeOK, WorkerStates, Goto, Rest, Resting, Running, At, Exec, RunPCs
    <3>3. CASE Approve(p)
      BY <3>3
         DEF Approve, AwaitingApproval, ClearedInvariant, ClearedBeforeRun, Life!Cleared,
             TypeOK, WorkerStates, Goto, Rest, Resting, Running, At, Exec, RunPCs
    <3>4. CASE Reject(p)
      BY <3>4
         DEF Reject, AwaitingApproval, ClearedInvariant, ClearedBeforeRun, Life!Cleared,
             TypeOK, WorkerStates, Goto, Rest, Resting, Running, At, Exec, RunPCs
    <3>5. QED
      BY <2>4, <3>1, <3>2, <3>3, <3>4 DEF Request
  <2>5. ASSUME NEW p \in Tasks, Failure(p) PROVE ClearedInvariant'
    <3>1. CASE LogsFail(p)
      BY <3>1
         DEF LogsFail, AfterRun, Completion, ClearedInvariant, ClearedBeforeRun,
             Life!Cleared, TypeOK, WorkerStates, Goto, Rest, Resting, Running, At, Exec,
             RunPCs
    <3>2. CASE StatementFails(p)
      <4>1. CASE At(p, "unapprove")
        <5>1. /\ worker' = [worker EXCEPT ![p] = Running(Exec(p))]
              /\ UNCHANGED execution
          BY <3>2, <4>1 DEF StatementFails
        <5>2. Life!Cleared(Exec(p))
          BY <4>1 DEF ClearedInvariant, At
        <5>3. QED
          BY <5>1, <5>2
             DEF ClearedInvariant, ClearedBeforeRun, Life!Cleared, TypeOK, WorkerStates,
                 Goto, Rest, Resting, Running, At, Exec, RunPCs
      <4>2. CASE ~At(p, "unapprove")
        <5>1. PICK l \in {"idle", "retry", "peek", "release", "check_holder"} :
                Goto(p, l) /\ (l = "retry" => At(p, "complete"))
          BY <3>2, <4>2, NextStatementTyped DEF StatementFails
        <5>2. QED
          BY <3>2, <5>1
             DEF StatementFails, ClearedInvariant, ClearedBeforeRun, Life!Cleared, TypeOK,
                 WorkerStates, Goto, Rest, Resting, Running, At, Exec, RunPCs
      <4>3. QED
        BY <4>1, <4>2
    <3>3. CASE Disconnect(p)
      BY <3>3
         DEF Disconnect, ClearedInvariant, ClearedBeforeRun, Life!Cleared, TypeOK,
             WorkerStates, Goto, Rest, Resting, Running, At, Exec, RunPCs
    <3>4. QED
      BY <2>5, <3>1, <3>2, <3>3 DEF Failure
  <2>6. CASE Sweep \/ SweepStep \/ RowFails
    BY <2>6
       DEF Sweep, SweepStep, MarkExpired, SweepEnds, RowFails, ClearedInvariant,
           ClearedBeforeRun, Life!Cleared, TypeOK, WorkerStates, Goto, Rest, Resting, Running,
           At, Exec, RunPCs
  <2>9. CASE Restart
    <3>1. \A e \in Execs : status'[e] # "running"
      BY <2>9 DEF Restart, StatusAfterRestart
    <3>2. \A p \in Tasks : worker'[p].pc = "idle"
      BY <2>9 DEF Restart, Resting
    <3>3. QED
      BY <3>1, <3>2 DEF ClearedInvariant, ClearedBeforeRun, At, RunPCs
  <2>7. CASE UNCHANGED vars
    BY <2>7
       DEF vars, ClearedInvariant, ClearedBeforeRun, Life!Cleared, TypeOK, WorkerStates,
           Goto, Rest, Resting, Running, At, Exec, RunPCs
  <2>8. QED
    BY <2>3, <2>4, <2>5, <2>6, <2>7, <2>9 DEF Next
<1>3. QED
  BY <1>1, <1>2, TypeCorrect, PTL DEF Spec

\* An execution of a hook that requires approval runs only after an operator's
\* decision on it, whatever fails, crashes, expires or is retried.
THEOREM ApprovalBeforeRun == Spec => []ClearedBeforeRun
<1>1. ClearedInvariant => ClearedBeforeRun
  BY DEF ClearedInvariant
<1>2. QED
  BY <1>1, ClearedHolds, PTL

----
(***************************************************************************)
(* The order of the queue.                                                 *)
(***************************************************************************)
\* No other task than p is taking e into the queue.
Unjoined(p, e) ==
  \A q \in Tasks \ {p} : worker[q].pc \in JoiningPCs => Exec(q) # e

\* One task moves, and rows leave the line at most: the line stays in order, if
\* the task does.
LEMMA LineIsKept ==
  ASSUME TypeOK, TasksOK, QueueInvariant, NEW p \in Tasks, NEW s \in WorkerStates,
         worker' = [worker EXCEPT ![p] = s], TaskOK(s), UNCHANGED position,
         \A e \in Execs : \/ entry'[e] = entry[e]
                          \/ entry[e] = "waiting" /\ entry'[e] \in {"ready", "expired"},
         \A e \in Execs : \/ status'[e] = status[e]
                          \/ status'[e] # "absent" /\ Unjoined(p, e),
         \A e \in rows' : e \in rows \/ status[e] = "pending_approval",
         s.exec \in Execs => Unjoined(p, s.exec),
         s.pc \in JoiningPCs =>
           /\ entry[s.exec] = "none" /\ s.exec \notin rows'
           /\ status'[s.exec] = IF s.pc = "enqueue" THEN "pending" ELSE "absent"
           /\ \A q \in Tasks \ {p} : Exec(q) # s.exec,
         s.pc \in {"hand_off", "mark_ready", "ask_approval"} =>
           /\ entry[s.next] # "none"
           /\ entry[s.next] = "waiting" /\ s.pc # "ask_approval" =>
                \A e \in Waiting : position[s.next] <= position[e]
  PROVE  QueueInvariant'
<1>1. worker'[p] = s /\ \A q \in Tasks : q # p => worker'[q] = worker[q]
  BY DEF TypeOK
<1>2. ASSUME NEW q \in Tasks PROVE JoinsAlone(q)'
  <2>1. CASE q = p
    <3>1. SUFFICES ASSUME s.pc \in JoiningPCs
                   PROVE  /\ entry'[s.exec] = "none" /\ s.exec \notin rows'
                          /\ status'[s.exec] = IF s.pc = "enqueue" THEN "pending" ELSE "absent"
                          /\ \A r \in Tasks \ {q} : worker'[r].exec # s.exec
      BY <1>1, <2>1 DEF JoinsAlone, At, Exec
    <3>2. s.exec \in Execs
      BY <3>1 DEF TaskOK, JoiningPCs
    <3>3. entry'[s.exec] = "none"
      BY <3>1, <3>2
    <3>4. QED
      BY <1>1, <2>1, <3>1, <3>3 DEF Exec
  <2>2. CASE q # p
    <3>1. worker'[q] = worker[q] /\ JoinsAlone(q) /\ TaskOK(worker[q])
      BY <1>1, <2>2 DEF QueueInvariant, TasksOK
    <3>2. SUFFICES ASSUME worker[q].pc \in JoiningPCs
                   PROVE  /\ entry'[Exec(q)] = "none" /\ Exec(q) \notin rows'
                          /\ status'[Exec(q)] = IF At(q, "enqueue") THEN "pending" ELSE "absent"
                          /\ \A r \in Tasks \ {q} : worker'[r].exec # Exec(q)
      BY <3>1 DEF JoinsAlone, At, Exec
    <3>3. Exec(q) \in Execs
      BY <3>1, <3>2 DEF TaskOK, JoiningPCs, Exec
    <3>4. /\ entry[Exec(q)] = "none" /\ Exec(q) \notin rows
          /\ status[Exec(q)] = IF At(q, "enqueue") THEN "pending" ELSE "absent"
          /\ \A r \in Tasks \ {q} : Exec(r) # Exec(q)
      BY <3>1, <3>2 DEF JoinsAlone
    <3>5. status'[Exec(q)] = status[Exec(q)]
      BY <2>2, <3>2, <3>3 DEF Unjoined
    <3>6. entry'[Exec(q)] = "none" /\ Exec(q) \notin rows'
      BY <3>3, <3>4
    <3>7. s.exec # Exec(q)
      BY <2>2, <3>2, <3>3 DEF Unjoined
    <3>8. \A r \in Tasks \ {q} : worker'[r].exec # Exec(q)
      BY <1>1, <3>4, <3>7 DEF Exec
    <3>9. QED
      BY <3>4, <3>5, <3>6, <3>8
  <2>3. QED
    BY <2>1, <2>2
<1>3. ASSUME NEW q \in Tasks PROVE PeekedIsFirst(q)'
  <2>1. \A e \in Execs : entry'[e] = "waiting" => entry[e] = "waiting"
    OBVIOUS
  <2>2. \A e \in Execs : entry[e] # "none" => entry'[e] # "none"
    OBVIOUS
  <2>3. CASE q = p
    BY <1>1, <2>1, <2>2, <2>3 DEF PeekedIsFirst, At, Waiting, TaskOK
  <2>4. CASE q # p
    BY <1>1, <2>1, <2>2, <2>4 DEF PeekedIsFirst, At, Waiting, TaskOK, TasksOK, QueueInvariant
  <2>5. QED
    BY <2>3, <2>4
<1>4. \A e \in Execs : entry'[e] # "none" \/ e \in rows' => status'[e] # "absent"
  BY DEF QueueInvariant
<1>5. \A e, f \in Execs :
        e # f /\ entry'[e] # "none" /\ entry'[f] # "none" => position'[e] # position'[f]
  BY DEF QueueInvariant
<1>6. QED
  BY <1>2, <1>3, <1>4, <1>5 DEF QueueInvariant

\* The execution p works for, and those whose records are neither new nor
\* pending, are not on their way into the queue by another task.
LEMMA WhoseRows ==
  ASSUME TypeOK, TasksOK, QueueInvariant, NEW p \in Tasks
  PROVE  /\ Unjoined(p, Exec(p))
         /\ \A e \in Execs :
              status[e] \notin {"absent", "pending"} \/ entry[e] # "none" \/ e \in rows =>
                Unjoined(p, e)
BY DEF QueueInvariant, JoinsAlone, Unjoined, TasksOK, TaskOK, JoiningPCs, Exec, At

\* A task goes on with its execution, or is done.
LEMMA LineGoesOn ==
  ASSUME TypeOK, TasksOK, TypeOK', TasksOK', QueueInvariant, NEW p \in Tasks,
         NEW l, Goto(p, l), UNCHANGED <<position, rows>>,
         \A e \in Execs : \/ entry'[e] = entry[e]
                          \/ entry[e] = "waiting" /\ entry'[e] \in {"ready", "expired"},
         \A e \in Execs : \/ status'[e] = status[e]
                          \/ status'[e] # "absent" /\ Unjoined(p, e),
         l \in JoiningPCs =>
           /\ worker[p].pc \in JoiningPCs
           /\ status'[Exec(p)] = IF l = "enqueue" THEN "pending" ELSE "absent",
         l # "hand_off", l = "mark_ready" => At(p, "hand_off"),
         l = "ask_approval" => At(p, "mark_ready")
  PROVE  QueueInvariant'
<1> DEFINE s == IF l = "idle" THEN Rest(p) ELSE [worker[p] EXCEPT !.pc = l]
<1>1. worker' = [worker EXCEPT ![p] = s] /\ worker'[p] = s
  BY DEF Goto, TypeOK
<1>2. /\ worker[p] \in WorkerStates /\ JoinsAlone(p) /\ PeekedIsFirst(p)
      /\ worker'[p] \in WorkerStates /\ TaskOK(worker'[p])
  BY DEF TypeOK, TasksOK, QueueInvariant
<1>3. CASE l = "idle"
  <2>1. s.pc \in {"idle", "rows"} /\ s.exec \notin Execs /\ s \in WorkerStates /\ TaskOK(s)
    BY <1>1, <1>2, <1>3, ConstantsAssumption DEF Rest, Resting, ConstantsAssumption
  <2> HIDE DEF s
  <2>2. QED
    BY <1>1, <2>1, LineIsKept DEF JoiningPCs
<1>4. CASE l # "idle"
  <2>1. s.pc = l /\ s.exec = Exec(p) /\ s.next = worker[p].next
    BY <1>2, <1>4 DEF WorkerStates, Exec
  <2>2. s \in WorkerStates /\ TaskOK(s)
    BY <1>1, <1>2
  <2> HIDE DEF s
  <2>3. Unjoined(p, s.exec)
    BY <2>1, WhoseRows
  <2>4. s.pc \in JoiningPCs =>
           /\ entry[s.exec] = "none" /\ s.exec \notin rows'
           /\ status'[s.exec] = IF s.pc = "enqueue" THEN "pending" ELSE "absent"
           /\ \A q \in Tasks \ {p} : Exec(q) # s.exec
    BY <1>2, <2>1 DEF JoinsAlone
  <2>5. s.pc \in {"hand_off", "mark_ready", "ask_approval"} =>
           /\ entry[s.next] # "none"
           /\ entry[s.next] = "waiting" /\ s.pc # "ask_approval" =>
                \A e \in Waiting : position[s.next] <= position[e]
    BY <1>2, <2>1 DEF PeekedIsFirst, At
  <2>6. QED
    BY <1>1, <2>2, <2>3, <2>4, <2>5, LineIsKept
<1>5. QED
  BY <1>3, <1>4

\* A task begins with an execution that nobody is taking into the queue, or
\* with a new one.
LEMMA LineStarts ==
  ASSUME TypeOK, TasksOK, TypeOK', TasksOK', QueueInvariant, NEW p \in Tasks,
         NEW s, worker' = [worker EXCEPT ![p] = s], UNCHANGED position,
         \A e \in Execs : \/ entry'[e] = entry[e]
                          \/ entry[e] = "waiting" /\ entry'[e] \in {"ready", "expired"},
         \A e \in Execs : \/ status'[e] = status[e]
                          \/ status'[e] # "absent" /\ Unjoined(p, e),
         \A e \in rows' : e \in rows \/ status[e] = "pending_approval",
         s.exec \in Execs => Unjoined(p, s.exec),
         s.pc \notin {"enqueue", "hand_off", "mark_ready", "ask_approval"},
         s.pc \in JoiningPCs => Fresh(s.exec) /\ UNCHANGED <<status, rows>>
  PROVE  QueueInvariant'
<1>1. s \in WorkerStates /\ TaskOK(s)
  BY DEF TypeOK, TasksOK
<1>2. s.pc \in JoiningPCs =>
        /\ entry[s.exec] = "none" /\ s.exec \notin rows'
        /\ status'[s.exec] = IF s.pc = "enqueue" THEN "pending" ELSE "absent"
        /\ \A q \in Tasks \ {p} : Exec(q) # s.exec
  BY <1>1 DEF Fresh, QueueInvariant, TaskOK, JoiningPCs
<1>3. QED
  BY <1>1, <1>2, LineIsKept

\* An execution gets a place behind everybody.
LEMMA LastInTheLine ==
  ASSUME TypeOK, TasksOK, TypeOK', TasksOK', QueueInvariant, NEW p \in Tasks, Enqueue(p)
  PROVE  QueueInvariant'
<1>1. PICK n \in {position[e] + 1 : e \in Execs} :
        /\ NextPosition(n)
        /\ position' = [position EXCEPT ![Exec(p)] = n]
  BY DEF Enqueue
<1>2. \A e \in Execs : position[e] < n
  BY <1>1 DEF NextPosition, TypeOK
<1>3. /\ Exec(p) \in Execs /\ At(p, "enqueue") /\ JoinsAlone(p)
      /\ entry' = [entry EXCEPT ![Exec(p)] = "waiting"]
      /\ worker' = [worker EXCEPT ![p] = Rest(p)]
      /\ UNCHANGED <<status, rows>>
  BY DEF Enqueue, Goto, QueueInvariant, TasksOK, TaskOK, At, Exec, TypeOK, execution
<1>4. /\ entry[Exec(p)] = "none" /\ status[Exec(p)] = "pending"
      /\ \A q \in Tasks \ {p} : Exec(q) # Exec(p)
  BY <1>3 DEF JoinsAlone, At, JoiningPCs
<1>5. /\ Rest(p).pc \in {"idle", "rows"} /\ worker'[p] = Rest(p) /\ Rest(p).exec = None
      /\ \A q \in Tasks : q # p => worker'[q] = worker[q]
  BY <1>3 DEF Rest, Resting, TypeOK
<1>6. ASSUME NEW q \in Tasks PROVE JoinsAlone(q)' /\ PeekedIsFirst(q)'
  <2>1. CASE q = p
    BY <1>5, <2>1 DEF JoinsAlone, PeekedIsFirst, At, JoiningPCs
  <2>2. CASE q # p
    <3>1. worker'[q] = worker[q] /\ JoinsAlone(q) /\ PeekedIsFirst(q) /\ TaskOK(worker[q])
      BY <1>5, <2>2 DEF QueueInvariant, TasksOK
    <3>2. JoinsAlone(q)'
      <4>1. SUFFICES ASSUME worker[q].pc \in JoiningPCs PROVE JoinsAlone(q)'
        BY <3>1 DEF JoinsAlone
      <4>2. Exec(q) \in Execs /\ Exec(q) # Exec(p) /\ Exec(q)' = Exec(q)
        BY <1>4, <2>2, <3>1, <4>1 DEF TaskOK, JoiningPCs, Exec
      <4>3. \A r \in Tasks \ {q} : worker'[r].exec # Exec(q)
        BY <1>5, <3>1, <4>1, <4>2, ConstantsAssumption DEF JoinsAlone, Exec, ConstantsAssumption
      <4>4. entry'[Exec(q)] = entry[Exec(q)]
        BY <1>3, <4>2 DEF TypeOK
      <4>5. QED
        BY <1>3, <3>1, <4>1, <4>2, <4>3, <4>4 DEF JoinsAlone, At, Exec
    <3>3. PeekedIsFirst(q)'
      <4>1. SUFFICES ASSUME worker[q].pc \in {"hand_off", "mark_ready", "ask_approval"}
                     PROVE  PeekedIsFirst(q)'
        BY <3>1 DEF PeekedIsFirst
      <4>2. worker[q].next \in Execs /\ worker[q].next # Exec(p)
        BY <1>4, <3>1, <4>1 DEF TaskOK, PeekedIsFirst
      <4>3. entry'[worker[q].next] = entry[worker[q].next]
            /\ position'[worker[q].next] = position[worker[q].next]
        BY <1>1, <1>3, <4>2 DEF TypeOK
      <4>4. \A e \in Execs :
              /\ entry'[e] = "waiting" => entry[e] = "waiting" \/ e = Exec(p)
              /\ e # Exec(p) => position'[e] = position[e]
              /\ e = Exec(p) => position'[e] = n
        BY <1>1, <1>3 DEF TypeOK
      <4>5. position[worker[q].next] <= n
        BY <1>1, <1>2, <4>2 DEF TypeOK
      <4>6. QED
        BY <3>1, <4>1, <4>2, <4>3, <4>4, <4>5 DEF PeekedIsFirst, Waiting, At
    <3>4. QED
      BY <3>2, <3>3
  <2>3. QED
    BY <2>1, <2>2
<1>7. \A e \in Execs : entry'[e] # "none" \/ e \in rows' => status'[e] # "absent"
  BY <1>3, <1>4 DEF QueueInvariant, TypeOK
<1>8. ASSUME NEW e \in Execs, NEW f \in Execs, e # f, entry'[e] # "none", entry'[f] # "none"
      PROVE  position'[e] # position'[f]
  <2>1. \A g \in Execs : /\ g # Exec(p) => entry'[g] = entry[g] /\ position'[g] = position[g]
                         /\ position'[Exec(p)] = n
    BY <1>1, <1>3 DEF TypeOK
  <2>2. position[e] # n /\ position[f] # n
    BY <1>2 DEF TypeOK
  <2>3. QED
    BY <1>8, <2>1, <2>2 DEF QueueInvariant
<1>9. QED
  BY <1>6, <1>7, <1>8 DEF QueueInvariant

\* Every step keeps the line in order.
LEMMA QueueInvariantKept ==
  ASSUME TypeOK, TasksOK, TypeOK', TasksOK', QueueInvariant, [Next]_vars
  PROVE  QueueInvariant'
<1> USE DEF execution, queue, external
<1>1. ASSUME NEW p \in Tasks, Step(p) PROVE QueueInvariant'
  <2>0. /\ JoinsAlone(p) /\ PeekedIsFirst(p) /\ TaskOK(worker[p]) /\ worker[p] \in WorkerStates
        /\ Unjoined(p, Exec(p))
        /\ \A e \in Execs :
             status[e] \notin {"absent", "pending"} \/ entry[e] # "none" \/ e \in rows =>
               Unjoined(p, e)
    BY WhoseRows DEF QueueInvariant, TasksOK, TypeOK
  <2>1. CASE TryAcquire(p) \/ CountWaiting(p) \/ CreateQueued(p)
    <3>1. PICK l \in {"create", "count", "create_queued", "enqueue", "idle"} :
            /\ Goto(p, l)
            /\ l = "enqueue" <=> CreateQueued(p)
      BY <2>1 DEF TryAcquire, CountWaiting, CreateQueued, At
    <3>2. worker[p].pc \in JoiningPCs \ {"enqueue"} /\ Exec(p) \in Execs
      BY <2>0, <2>1 DEF TryAcquire, CountWaiting, CreateQueued, At, JoiningPCs, TaskOK, Exec
    <3>3. status[Exec(p)] = "absent"
      BY <2>0, <3>2 DEF JoinsAlone, At
    <3>4. /\ UNCHANGED <<entry, position, rows>>
          /\ status' = IF CreateQueued(p) THEN [status EXCEPT ![Exec(p)] = "pending"] ELSE status
      BY <2>1 DEF TryAcquire, CountWaiting, CreateQueued, Insert, At
    <3>5. \A e \in Execs : \/ status'[e] = status[e]
                           \/ status'[e] # "absent" /\ Unjoined(p, e)
      BY <2>0, <3>2, <3>4 DEF TypeOK
    <3>6. l \in JoiningPCs => status'[Exec(p)] = IF l = "enqueue" THEN "pending" ELSE "absent"
      BY <3>1, <3>2, <3>3, <3>4 DEF TypeOK
    <3>7. QED
      BY <3>1, <3>2, <3>4, <3>5, <3>6, LineGoesOn
  <2>2. CASE Enqueue(p)
    BY <2>2, LastInTheLine
  <2>3. CASE \/ Create(p) \/ MarkRunning(p) \/ MarkCompleted(p) \/ Release(p) \/ HandOff(p)
             \/ FetchDequeued(p) \/ CheckHolder(p) \/ ExpireEntry(p)
    <3>1. PICK l \in {"idle", "spawn", "executing", "retry", "release", "peek", "mark_ready", "start",
                      "check_holder"} :
            Goto(p, l) /\ (l = "mark_ready" => At(p, "hand_off"))
      BY <2>3, NextStatementTyped
         DEF Create, MarkRunning, MarkCompleted, Release, HandOff, FetchDequeued, CheckHolder,
             ExpireEntry, Completion
    <3>2. Exec(p) \in Execs
      BY <2>0, <2>3
         DEF Create, MarkRunning, MarkCompleted, Release, HandOff, FetchDequeued, CheckHolder,
             ExpireEntry, At, TaskOK, Exec
    <3>3. /\ UNCHANGED <<position, rows>>
          /\ \A e \in Execs : \/ entry'[e] = entry[e]
                              \/ entry[e] = "waiting" /\ entry'[e] \in {"ready", "expired"}
      BY <2>3, <3>2
         DEF Create, MarkRunning, MarkCompleted, Release, HandOff, FetchDequeued, CheckHolder,
             ExpireEntry, TypeOK
    <3>4. \A e \in Execs : \/ status'[e] = status[e]
                           \/ status'[e] # "absent" /\ e = Exec(p)
      BY <2>3, <3>2
         DEF Create, MarkRunning, MarkCompleted, Release, HandOff, FetchDequeued, CheckHolder,
             ExpireEntry, Insert, StatusOf, TypeOK
    <3>5. l \notin JoiningPCs
      BY DEF JoiningPCs
    <3>6. QED
      BY <2>0, <3>1, <3>3, <3>4, <3>5, LineGoesOn
  <2>4. CASE Spawn(p) \/ Unapprove(p)
    <3>1. worker' = [worker EXCEPT ![p] = Running(Exec(p))] /\ UNCHANGED <<entry, position, rows>>
      BY <2>4 DEF Spawn, Unapprove
    <3>2. Exec(p) \in Execs
      BY <2>0, <2>4 DEF Spawn, Unapprove, At, TaskOK, Exec
    <3>3. \A e \in Execs : \/ status'[e] = status[e]
                           \/ status'[e] # "absent" /\ Unjoined(p, e)
      BY <2>0, <2>4, <3>2 DEF Spawn, Unapprove, TypeOK
    <3>4. Running(Exec(p)).pc = "start" /\ Running(Exec(p)).exec = Exec(p)
      BY DEF Running, Resting
    <3>5. QED
      BY <2>0, <3>1, <3>3, <3>4, LineStarts DEF JoiningPCs
  <2>5. CASE CommandEnds(p) \/ ResetToPending(p)
    <3>1. PICK l \in {"complete", "start"}, o \in Outcomes \cup {"none"}, a \in Int :
            worker' = [worker EXCEPT ![p] = [worker[p] EXCEPT !.pc = l, !.outcome = o, !.attempt = a]]
      <4>1. CASE CommandEnds(p)
        <5>1. PICK o \in Outcomes :
                worker' = [worker EXCEPT ![p].pc = "complete", ![p].outcome = o]
          BY <4>1 DEF CommandEnds
        <5>2. worker' = [worker EXCEPT ![p] =
                [worker[p] EXCEPT !.pc = "complete", !.outcome = o, !.attempt = worker[p].attempt]]
          BY <2>0, <5>1 DEF TypeOK, WorkerStates
        <5>3. worker[p].attempt \in Int
          BY <2>0, ConstantsAssumption DEF WorkerStates, ConstantsAssumption
        <5>4. QED
          BY <5>2, <5>3
      <4>2. CASE ResetToPending(p)
        <5>1. worker' = [worker EXCEPT ![p] =
                [worker[p] EXCEPT !.pc = "start", !.outcome = "none", !.attempt = @ + 1]]
          BY <4>2 DEF ResetToPending, TypeOK
        <5>2. worker[p].attempt + 1 \in Int
          BY <2>0, ConstantsAssumption DEF WorkerStates, ConstantsAssumption
        <5>3. QED
          BY <5>1, <5>2
      <4>3. QED
        BY <2>5, <4>1, <4>2
    <3> DEFINE s == [worker[p] EXCEPT !.pc = l, !.outcome = o, !.attempt = a]
    <3>2. s.pc = l /\ s.exec = Exec(p)
      BY <2>0 DEF WorkerStates, Exec
    <3>5. worker' = [worker EXCEPT ![p] = s]
      BY <3>1
    <3> HIDE DEF s
    <3>3. Exec(p) \in Execs
      BY <2>0, <2>5 DEF CommandEnds, ResetToPending, At, TaskOK, Exec
    <3>4. /\ UNCHANGED <<entry, position, rows>>
          /\ \A e \in Execs : \/ status'[e] = status[e]
                              \/ status'[e] # "absent" /\ e = Exec(p)
      BY <2>5, <3>3 DEF CommandEnds, ResetToPending, TypeOK
    <3>6. QED
      BY <2>0, <3>2, <3>4, <3>5, LineStarts DEF JoiningPCs
  <2>6. CASE Peek(p)
    <3>1. CASE Goto(p, "release")
      BY <2>6, <3>1, LineGoesOn DEF Peek, JoiningPCs
    <3>2. CASE ~Goto(p, "release")
      <4>1. PICK e \in Execs :
              NextInLine(e) /\ worker' = [worker EXCEPT ![p].pc = "hand_off", ![p].next = e]
        BY <2>6, <3>2 DEF Peek
      <4> DEFINE s == [worker[p] EXCEPT !.pc = "hand_off", !.next = e]
      <4>2. worker' = [worker EXCEPT ![p] = s] /\ UNCHANGED <<status, entry, position, rows>>
        BY <2>6, <4>1 DEF Peek, TypeOK
      <4>3. s.pc = "hand_off" /\ s.exec = Exec(p) /\ s.next = e
        BY <2>0 DEF WorkerStates, Exec
      <4>4. s \in WorkerStates /\ TaskOK(s)
        BY <4>2 DEF TypeOK, TasksOK
      <4> HIDE DEF s
      <4>5. entry[e] = "waiting" /\ \A f \in Waiting : position[e] <= position[f]
        BY <4>1 DEF NextInLine, Waiting
      <4>6. QED
        BY <2>0, <4>2, <4>3, <4>4, <4>5, LineIsKept DEF JoiningPCs
    <3>3. QED
      BY <3>1, <3>2
  <2>7. CASE MarkReady(p)
    <3>0. worker[p].next \in Execs /\ At(p, "mark_ready") /\ entry[worker[p].next] # "none"
      BY <2>0, <2>7 DEF MarkReady, At, TaskOK, PeekedIsFirst
    <3>1. /\ UNCHANGED <<status, position, rows>>
          /\ \A e \in Execs : \/ entry'[e] = entry[e]
                              \/ entry[e] = "waiting" /\ entry'[e] \in {"ready", "expired"}
      BY <2>7, <3>0 DEF MarkReady, TypeOK
    <3>2. CASE ApprovalRequired
      BY <2>7, <3>0, <3>1, <3>2, LineGoesOn DEF MarkReady, AfterMarkReady, JoiningPCs
    <3>3. CASE ~ApprovalRequired
      <4> DEFINE s == [Running(worker[p].next) EXCEPT !.pc = "fetch"]
      <4>1. worker' = [worker EXCEPT ![p] = s]
        BY <2>7, <3>3 DEF MarkReady, AfterMarkReady, SpawnDequeued
      <4>2. s.pc = "fetch" /\ s.exec = worker[p].next
        BY DEF Running, Resting
      <4> HIDE DEF s
      <4>3. Unjoined(p, s.exec)
        BY <2>0, <3>0, <4>2
      <4>4. QED
        BY <3>1, <4>1, <4>2, <4>3, LineStarts DEF JoiningPCs
    <3>4. QED
      BY <3>2, <3>3
  <2>8. CASE AskApproval(p)
    <3>1. worker[p].next \in Execs /\ entry[worker[p].next] # "none"
      BY <2>0, <2>8 DEF AskApproval, At, TaskOK, PeekedIsFirst
    <3>2. /\ UNCHANGED <<entry, position, rows>> /\ Goto(p, "idle")
          /\ \A e \in Execs : \/ status'[e] = status[e]
                              \/ status'[e] # "absent" /\ e = worker[p].next
      BY <2>8, <3>1 DEF AskApproval, TypeOK
    <3>3. QED
      BY <2>0, <3>1, <3>2, LineGoesOn DEF JoiningPCs
  <2>9. QED
    BY <1>1, <2>1, <2>2, <2>3, <2>4, <2>5, <2>6, <2>7, <2>8 DEF Step
<1>2. ASSUME NEW p \in Tasks, Request(p) PROVE QueueInvariant'
  <2>1. CASE Trigger(p)
    <3>1. PICK e \in Execs :
            /\ Fresh(e)
            /\ worker' = [worker EXCEPT ![p] =
                 [Resting EXCEPT !.pc = FirstStatement, !.exec = e, !.request = TRUE]]
      BY <2>1 DEF Trigger
    <3> DEFINE s == [Resting EXCEPT !.pc = FirstStatement, !.exec = e, !.request = TRUE]
    <3>2. s.exec = e /\ s.pc \in {"create", "acquire"} /\ worker' = [worker EXCEPT ![p] = s]
      BY <3>1 DEF Resting, FirstStatement
    <3> HIDE DEF s
    <3>3. UNCHANGED <<status, entry, position, rows>>
      BY <2>1 DEF Trigger
    <3>4. Unjoined(p, e)
      BY <3>1 DEF Fresh, Unjoined
    <3>5. QED
      BY <3>1, <3>2, <3>3, <3>4, LineStarts
  <2>2. CASE Replay(p)
    <3>1. PICK e \in Execs :
            /\ Fresh(e) /\ status' = [status EXCEPT ![e] = "pending"]
            /\ worker' = [worker EXCEPT ![p] =
                 [Running(e) EXCEPT !.pc = "spawn", !.request = TRUE]]
      BY <2>2 DEF Replay, Insert
    <3> DEFINE s == [Running(e) EXCEPT !.pc = "spawn", !.request = TRUE]
    <3>2. s.exec = e /\ s.pc = "spawn" /\ worker' = [worker EXCEPT ![p] = s]
      BY <3>1 DEF Resting, Running
    <3> HIDE DEF s
    <3>3. UNCHANGED <<entry, position, rows>>
      BY <2>2 DEF Replay
    <3>4. Unjoined(p, e)
      BY <3>1 DEF Fresh, Unjoined
    <3>5. \A f \in Execs : \/ status'[f] = status[f]
                           \/ status'[f] # "absent" /\ Unjoined(p, f)
      BY <3>1, <3>4 DEF TypeOK
    <3>6. QED
      BY <3>2, <3>3, <3>4, <3>5, LineStarts DEF JoiningPCs
  <2>3. CASE Approve(p) \/ Reject(p)
    <3>1. PICK e \in AwaitingApproval, l \in {"unapprove", "expire_entry"},
               x \in {"approved", "rejected"} :
            /\ status' = [status EXCEPT ![e] = x]
            /\ worker' = [worker EXCEPT ![p] =
                 [Resting EXCEPT !.pc = l, !.exec = e, !.request = TRUE]]
      BY <2>3 DEF Approve, Reject
    <3> DEFINE s == [Resting EXCEPT !.pc = l, !.exec = e, !.request = TRUE]
    <3>2. s.exec = e /\ s.pc = l /\ worker' = [worker EXCEPT ![p] = s]
      BY <3>1 DEF Resting
    <3> HIDE DEF s
    <3>3. UNCHANGED <<entry, position, rows>>
      BY <2>3 DEF Approve, Reject
    <3>4. e \in Execs /\ Unjoined(p, e)
      BY WhoseRows DEF AwaitingApproval
    <3>5. \A f \in Execs : \/ status'[f] = status[f]
                           \/ status'[f] # "absent" /\ Unjoined(p, f)
      BY <3>1, <3>4 DEF TypeOK
    <3>6. QED
      BY <3>2, <3>3, <3>4, <3>5, LineStarts DEF JoiningPCs
  <2>4. QED
    BY <1>2, <2>1, <2>2, <2>3 DEF Request
<1>3. ASSUME NEW p \in Tasks, Failure(p) PROVE QueueInvariant'
  <2>1. CASE LogsFail(p) \/ (StatementFails(p) /\ ~At(p, "unapprove"))
    <3>1. PICK l \in {"idle", "retry", "peek", "release", "check_holder"} : Goto(p, l)
      BY <2>1, NextStatementTyped DEF LogsFail, StatementFails, OnError
    <3>2. UNCHANGED <<status, entry, position, rows>>
      BY <2>1 DEF LogsFail, StatementFails
    <3>3. QED
      BY <3>1, <3>2, LineGoesOn DEF JoiningPCs
  <2>2. CASE Disconnect(p) \/ (StatementFails(p) /\ At(p, "unapprove"))
    <3>1. PICK s \in {Resting, Running(Exec(p))} : worker' = [worker EXCEPT ![p] = s]
      BY <2>2 DEF Disconnect, StatementFails
    <3>2. s.exec \in Execs => Unjoined(p, s.exec)
      <4>1. Resting.exec \notin Execs /\ Running(Exec(p)).exec = Exec(p)
        BY ConstantsAssumption DEF Running, Resting, ConstantsAssumption
      <4>2. QED
        BY <4>1, WhoseRows
    <3>3. s.pc \in {"idle", "start"}
      <4>1. Resting.pc = "idle" /\ Running(Exec(p)).pc = "start"
        BY DEF Running, Resting
      <4>2. QED
        BY <4>1
    <3>4. UNCHANGED <<status, entry, position, rows>>
      BY <2>2 DEF Disconnect, StatementFails
    <3>5. QED
      BY <3>1, <3>2, <3>3, <3>4, LineStarts DEF JoiningPCs
  <2>3. QED
    BY <1>3, <2>1, <2>2 DEF Failure
<1>4. CASE Sweep \/ SweepEnds
  <2>1. PICK s \in {Resting, Rest(Sweeper)} : worker' = [worker EXCEPT ![Sweeper] = s]
    BY <1>4 DEF Sweep, SweepEnds
  <2>2. s.pc \in {"idle", "rows"} /\ s.exec \notin Execs
    BY <2>1, ConstantsAssumption DEF Rest, Resting, ConstantsAssumption
  <2>3. /\ UNCHANGED <<status, entry, position>>
        /\ \A e \in rows' : e \in rows \/ status[e] = "pending_approval"
    BY <1>4 DEF Sweep, SweepEnds, AwaitingApproval
  <2>4. Sweeper \in Tasks
    BY DEF Tasks
  <2>5. QED
    BY <2>1, <2>2, <2>3, <2>4, LineStarts DEF JoiningPCs
<1>5. CASE MarkExpired
  <2>1. PICK e \in rows :
          /\ status' = [status EXCEPT ![e] = IF @ = "pending_approval" THEN "expired" ELSE @]
          /\ rows' = rows \ {e}
          /\ worker' = [worker EXCEPT ![Sweeper].pc = "expire_entry", ![Sweeper].exec = e]
    BY <1>5 DEF MarkExpired
  <2>2. Sweeper \in Tasks /\ e \in Execs /\ worker[Sweeper] \in WorkerStates
    BY <2>1 DEF Tasks, TypeOK
  <2> DEFINE s == [worker[Sweeper] EXCEPT !.pc = "expire_entry", !.exec = e]
  <2>3. worker' = [worker EXCEPT ![Sweeper] = s]
    BY <2>1 DEF TypeOK
  <2>4. s.pc = "expire_entry" /\ s.exec = e
    BY <2>2 DEF WorkerStates
  <2> HIDE DEF s
  <2>5. Unjoined(Sweeper, e) /\ status[e] # "absent"
    BY <2>1, <2>2, WhoseRows DEF QueueInvariant
  <2>6. \A f \in Execs : \/ status'[f] = status[f]
                         \/ status'[f] # "absent" /\ Unjoined(Sweeper, f)
    BY <2>1, <2>2, <2>5 DEF TypeOK
  <2>7. UNCHANGED <<entry, position>>
    BY <1>5 DEF MarkExpired
  <2>8. QED
    BY <2>1, <2>2, <2>3, <2>4, <2>5, <2>6, <2>7, LineStarts DEF JoiningPCs
<1>6. CASE RowFails \/ UNCHANGED vars
  <2>1. UNCHANGED <<status, entry, position, worker>> /\ rows' \subseteq rows
    BY <1>6 DEF RowFails, vars
  <2>2. QED
    BY <2>1 DEF QueueInvariant, JoinsAlone, PeekedIsFirst, Waiting, At, Exec
<1>7. CASE Restart
  <2>1. /\ \A p \in Tasks : worker'[p] = Resting
        /\ rows' = {} /\ UNCHANGED position
        /\ \A e \in Execs : entry'[e] # "none" => entry[e] # "none"
        /\ \A e \in Execs : status'[e] = status[e] \/ status'[e] = "failed"
    BY <1>7 DEF Restart, StatusAfterRestart
  <2>2. QED
    BY <2>1
       DEF QueueInvariant, JoinsAlone, PeekedIsFirst, JoiningPCs, Resting, At
<1>8. QED
  BY <1>1, <1>2, <1>3, <1>4, <1>5, <1>6, <1>7 DEF Next, SweepStep

\* An execution that becomes ready has been peeked by the task that makes it
\* so, and was the first then, and still is: who comes gets a place behind it.
LEMMA FirstIsReady ==
  ASSUME TypeOK, TasksOK, QueueInvariant, [Next]_vars, NEW e \in Execs, NEW f \in Execs,
         entry[e] = "waiting", entry'[e] = "ready",
         entry[f] = "waiting", entry'[f] = "waiting"
  PROVE  position[e] < position[f]
<1> USE DEF execution, queue, external
<1>1. PICK p \in Tasks : MarkReady(p)
  <2>1. ASSUME NEW p \in Tasks, Step(p), ~MarkReady(p) PROVE FALSE
    <3>1. entry'[e] # "ready" \/ entry' = entry
      BY <2>1
         DEF Step, TryAcquire, CountWaiting, CreateQueued, Enqueue, Create, Spawn, MarkRunning,
             CommandEnds, MarkCompleted, ResetToPending, Release, Peek, HandOff, AskApproval,
             FetchDequeued, Unapprove, ExpireEntry, CheckHolder, TypeOK
    <3>2. QED
      BY <3>1
  <2>2. ASSUME NEW p \in Tasks, Request(p) \/ Failure(p) PROVE entry' = entry
    BY <2>2
       DEF Request, Failure, Trigger, Replay, Approve, Reject, LogsFail, StatementFails, Disconnect
  <2>3. Sweep \/ SweepStep \/ RowFails \/ UNCHANGED vars => entry' = entry
    BY DEF Sweep, SweepStep, MarkExpired, SweepEnds, RowFails, vars
  <2>4. Restart => entry'[e] # "ready"
    BY DEF Restart
  <2>5. QED
    BY <2>1, <2>2, <2>3, <2>4 DEF Next
<1>2. e = worker[p].next /\ At(p, "mark_ready") /\ worker[p].next \in Execs
  BY <1>1 DEF MarkReady, TypeOK, TasksOK, TaskOK, At
<1>3. position[e] <= position[f] /\ position[e] # position[f]
  BY <1>2 DEF QueueInvariant, PeekedIsFirst, Waiting, At
<1>4. QED
  BY <1>3 DEF TypeOK

\* Who joins the queue is alone with its id, and who is peeked is the first.
LEMMA QueueInvariantHolds == Spec => []QueueInvariant
<1>1. Init => QueueInvariant
  BY DEF Init, QueueInvariant, JoinsAlone, PeekedIsFirst, Resting, JoiningPCs, At
<1>2. TypeOK /\ TasksOK /\ (TypeOK /\ TasksOK)' /\ QueueInvariant /\ [Next]_vars
        => QueueInvariant'
  BY QueueInvariantKept
<1>3. QED
  BY <1>1, <1>2, TypeCorrect, PTL DEF Spec

\* The queue is first in, first out, for any number of tasks and executions,
\* whatever fails and whenever the server stops: DequeuedInOrder.
THEOREM QueueIsInOrder == Spec => DequeuedInOrder
<1>1. TypeOK /\ TasksOK /\ QueueInvariant /\ [Next]_vars =>
        [\A e, f \in Execs :
           /\ entry[e] = "waiting" /\ entry'[e] = "ready"
           /\ entry[f] = "waiting" /\ entry'[f] = "waiting"
           => position[e] < position[f]]_vars
  BY FirstIsReady
<1>2. QED
  BY <1>1, TypeCorrect, QueueInvariantHolds, PTL DEF Spec, DequeuedInOrder

----
(***************************************************************************)
(* The lock of a hook excludes: proved for every number of executions and  *)
(* tasks, every mode, queue depth and retry count, and every choice of     *)
(* failures, crashes included.  And it is never lost, while the statements *)
(* that would pass it on do not fail.                                      *)
(***************************************************************************)
\* Tasks other than p keep their state.
OthersRest(p) == \A q \in Tasks \ {p} : worker'[q] = worker[q]

\* The part of LockInvariant that is about the lock itself.
LockExclusive == SoleHolder /\ LockNamesItsTask /\ ApprovalHoldsTheHook

----
(***************************************************************************)
(* How a step can preserve LockExclusive.                                  *)
(***************************************************************************)
\* Either the lock stays where it is: nobody becomes its holder, and nobody
\* is asked for a decision.
LEMMA LockStays ==
  ASSUME LockExclusive, lock' = lock,
         Mode' = Mode, \A q \in Tasks : Holds(q)' => Holds(q) /\ Held(q)' = Held(q),
         \A e \in Execs : status'[e] = "pending_approval" => status[e] = "pending_approval"
  PROVE  LockExclusive'
BY DEF LockExclusive, SoleHolder, LockNamesItsTask, ApprovalHoldsTheHook, AwaitingApproval

\* Or p alone has to do with it: it holds the lock under its execution's name,
\* or has left it to an execution that awaits a decision.
LEMMA LockMoves ==
  ASSUME NEW p \in Tasks, Mode' = Mode,
         \A q \in Tasks \ {p} : ~Holds(q)',
         Holds(p)' => lock' = Held(p)',
         Mode # "none" =>
           \A e \in Execs : status'[e] = "pending_approval" => lock' = e /\ ~Holds(p)'
  PROVE  LockExclusive'
BY DEF LockExclusive, SoleHolder, LockNamesItsTask, ApprovalHoldsTheHook, AwaitingApproval

\* Nobody holds a lock that is free, or that is left to a pending approval.
LEMMA NoHolder ==
  ASSUME LockExclusive, TasksOK, Mode # "none",
         lock = None \/ AwaitingApproval # {}
  PROVE  \A q \in Tasks : ~Holds(q)
<1>1. CASE AwaitingApproval # {}
  BY <1>1 DEF LockExclusive, ApprovalHoldsTheHook, AwaitingApproval
<1>2. CASE lock = None
  <2>1. \A q \in Tasks : Holds(q) => Held(q) \in Execs
    BY DEF Holds, Held, TasksOK, TaskOK, Exec, DecisionPCs, RunPCs, CompletionPCs
  <2>2. QED
    BY <1>2, <2>1, ConstantsAssumption
       DEF LockExclusive, LockNamesItsTask, ConstantsAssumption
<1>3. QED
  BY <1>1, <1>2

\* While a task holds the lock, no other does and no decision is awaited.
LEMMA HolderIsAlone ==
  ASSUME LockExclusive, NEW p \in Tasks, Holds(p)
  PROVE  /\ \A q \in Tasks \ {p} : ~Holds(q)
         /\ AwaitingApproval = {}
BY DEF LockExclusive, SoleHolder, ApprovalHoldsTheHook, Holds, AwaitingApproval

----
(***************************************************************************)
(* What the steps have in common.                                          *)
(***************************************************************************)
\* A sweep that never starts takes no step.
LEMMA SweeperRests ==
  ASSUME NoSweep, NEW p \in Tasks, Step(p) \/ Request(p) \/ Failure(p)
  PROVE  p # Sweeper
<1>1. worker[Sweeper].pc = "idle" /\ ~worker[Sweeper].request /\ Sweeper \notin Workers
  BY ConstantsAssumption DEF NoSweep, Resting, ConstantsAssumption
<1>2. ASSUME Step(p) PROVE worker[p].pc # "idle"
  <2>1. TryAcquire(p) => worker[p].pc # "idle"
    BY DEF TryAcquire, At
  <2>2. CountWaiting(p) => worker[p].pc # "idle"
    BY DEF CountWaiting, At
  <2>3. CreateQueued(p) => worker[p].pc # "idle"
    BY DEF CreateQueued, At
  <2>4. Enqueue(p) => worker[p].pc # "idle"
    BY DEF Enqueue, At
  <2>5. Create(p) => worker[p].pc # "idle"
    BY DEF Create, At
  <2>6. Spawn(p) => worker[p].pc # "idle"
    BY DEF Spawn, At
  <2>7. MarkRunning(p) => worker[p].pc # "idle"
    BY DEF MarkRunning, At
  <2>8. CommandEnds(p) => worker[p].pc # "idle"
    BY DEF CommandEnds, At
  <2>9. MarkCompleted(p) => worker[p].pc # "idle"
    BY DEF MarkCompleted, At
  <2>10. ResetToPending(p) => worker[p].pc # "idle"
    BY DEF ResetToPending, At
  <2>11. Release(p) => worker[p].pc # "idle"
    BY DEF Release, At
  <2>12. Peek(p) => worker[p].pc # "idle"
    BY DEF Peek, At
  <2>13. HandOff(p) => worker[p].pc # "idle"
    BY DEF HandOff, At
  <2>14. MarkReady(p) => worker[p].pc # "idle"
    BY DEF MarkReady, At
  <2>15. AskApproval(p) => worker[p].pc # "idle"
    BY DEF AskApproval, At
  <2>16. FetchDequeued(p) => worker[p].pc # "idle"
    BY DEF FetchDequeued, At
  <2>17. Unapprove(p) => worker[p].pc # "idle"
    BY DEF Unapprove, At
  <2>18. ExpireEntry(p) => worker[p].pc # "idle"
    BY DEF ExpireEntry, At
  <2>19. CheckHolder(p) => worker[p].pc # "idle"
    BY DEF CheckHolder, At
  <2>20. QED
    BY <1>2, <2>1, <2>2, <2>3, <2>4, <2>5, <2>6, <2>7, <2>8, <2>9, <2>10, <2>11, <2>12,
       <2>13, <2>14, <2>15, <2>16, <2>17, <2>18, <2>19
       DEF Step
<1>3. Request(p) => p \in Workers
  BY DEF Request, Trigger, Replay, Approve, Reject
<1>4. Failure(p) => worker[p].pc # "idle" \/ worker[p].request
  BY DEF Failure, LogsFail, StatementFails, Disconnect, At
<1>5. QED
  BY <1>1, <1>2, <1>3, <1>4

\* A step of p is a step of p only.
LEMMA OneTaskMoves ==
  ASSUME TypeOK, NEW p \in Tasks \ {Sweeper}, Step(p) \/ Request(p) \/ Failure(p)
  PROVE  OthersRest(p) /\ UNCHANGED rows
<1> USE DEF execution, queue, external
<1>1. CASE TryAcquire(p)
  BY <1>1 DEF TryAcquire, OthersRest, TypeOK, Goto
<1>2. CASE CountWaiting(p)
  BY <1>2 DEF CountWaiting, OthersRest, TypeOK, Goto
<1>3. CASE CreateQueued(p)
  BY <1>3 DEF CreateQueued, OthersRest, TypeOK, Goto
<1>4. CASE Enqueue(p)
  BY <1>4 DEF Enqueue, OthersRest, TypeOK, Goto
<1>5. CASE Create(p)
  BY <1>5 DEF Create, OthersRest, TypeOK, Goto
<1>6. CASE Spawn(p)
  BY <1>6 DEF Spawn, OthersRest, TypeOK, Goto
<1>7. CASE MarkRunning(p)
  BY <1>7 DEF MarkRunning, OthersRest, TypeOK, Goto
<1>8. CASE CommandEnds(p)
  BY <1>8 DEF CommandEnds, OthersRest, TypeOK, Goto
<1>9. CASE MarkCompleted(p)
  BY <1>9 DEF MarkCompleted, OthersRest, TypeOK, Goto
<1>10. CASE ResetToPending(p)
  BY <1>10 DEF ResetToPending, OthersRest, TypeOK, Goto
<1>11. CASE Release(p)
  BY <1>11 DEF Release, OthersRest, TypeOK, Goto
<1>12. CASE Peek(p)
  BY <1>12 DEF Peek, OthersRest, TypeOK, Goto
<1>13. CASE HandOff(p)
  BY <1>13 DEF HandOff, OthersRest, TypeOK, Goto
<1>14. CASE MarkReady(p)
  BY <1>14 DEF MarkReady, AfterMarkReady, SpawnDequeued, OthersRest, TypeOK, Goto
<1>15. CASE AskApproval(p)
  BY <1>15 DEF AskApproval, OthersRest, TypeOK, Goto
<1>16. CASE FetchDequeued(p)
  BY <1>16 DEF FetchDequeued, OthersRest, TypeOK, Goto
<1>17. CASE Unapprove(p)
  BY <1>17 DEF Unapprove, OthersRest, TypeOK, Goto
<1>18. CASE ExpireEntry(p)
  BY <1>18 DEF ExpireEntry, OthersRest, TypeOK, Goto
<1>19. CASE CheckHolder(p)
  BY <1>19 DEF CheckHolder, OthersRest, TypeOK, Goto
<1>20. CASE Trigger(p)
  BY <1>20 DEF Trigger, OthersRest, TypeOK, Goto
<1>21. CASE Replay(p)
  BY <1>21 DEF Replay, OthersRest, TypeOK, Goto
<1>22. CASE Approve(p)
  BY <1>22 DEF Approve, OthersRest, TypeOK, Goto
<1>23. CASE Reject(p)
  BY <1>23 DEF Reject, OthersRest, TypeOK, Goto
<1>24. CASE LogsFail(p)
  BY <1>24 DEF LogsFail, OthersRest, TypeOK, Goto
<1>25. CASE StatementFails(p)
  BY <1>25 DEF StatementFails, OthersRest, TypeOK, Goto
<1>26. CASE Disconnect(p)
  BY <1>26 DEF Disconnect, OthersRest, TypeOK, Goto
<1>27. QED
  BY <1>1, <1>2, <1>3, <1>4, <1>5, <1>6, <1>7, <1>8, <1>9, <1>10, <1>11, <1>12, <1>13,
     <1>14, <1>15, <1>16, <1>17, <1>18, <1>19, <1>20, <1>21, <1>22, <1>23, <1>24, <1>25,
     <1>26
     DEF Step, Request, Failure

\* What Goto does to the task that takes it.
LEMMA GotoEffect ==
  ASSUME worker \in [Tasks -> WorkerStates], NEW p \in Tasks \ {Sweeper}, NEW l,
         Goto(p, l)
  PROVE  /\ worker'[p].pc = l
         /\ l # "idle" => /\ worker'[p].exec = worker[p].exec
                          /\ worker'[p].next = worker[p].next
BY DEF Goto, Rest, Resting, WorkerStates

\* Only a run that holds the lock goes on to the completion, after its end or
\* after an error.
LEMMA OnlyHoldersComplete ==
  \A p \in Tasks :
    /\ AfterRun(p) # "idle" => Exec(p) \notin replays
    /\ AfterAttempt(p) \notin {"idle", "retry"} => Exec(p) \notin replays
    /\ OnError(p) \notin {"idle", "retry", "check_holder"} =>
         Exec(p) \notin replays \/ worker[p].pc \in {"fetch", "peek"}
    /\ OnError(p) = "check_holder" => worker[p].pc = "expire_entry"
    /\ OnError(p) # "idle" => worker[p].pc \in RunPCs \cup {"fetch", "peek", "expire_entry"}
<1> SUFFICES ASSUME NEW p \in Tasks
             PROVE  /\ AfterRun(p) # "idle" => Exec(p) \notin replays
                    /\ AfterAttempt(p) \notin {"idle", "retry"} => Exec(p) \notin replays
                    /\ OnError(p) \notin {"idle", "retry", "check_holder"} =>
                         Exec(p) \notin replays \/ worker[p].pc \in {"fetch", "peek"}
                    /\ OnError(p) = "check_holder" => worker[p].pc = "expire_entry"
                    /\ OnError(p) # "idle" =>
                         worker[p].pc \in RunPCs \cup {"fetch", "peek", "expire_entry"}
  OBVIOUS
<1>1. AfterRun(p) \in {"idle", "peek", "release"} /\ (AfterRun(p) # "idle" => Exec(p) \notin replays)
  BY DEF AfterRun, Completion
<1>2. /\ AfterAttempt(p) \in {"retry", "idle", "peek", "release"}
      /\ AfterAttempt(p) \notin {"idle", "retry"} => Exec(p) \notin replays
  BY <1>1 DEF AfterAttempt
<1>3. QED
  BY <1>1, <1>2 DEF OnError, RunPCs


----
(***************************************************************************)
(* The theorem.                                                            *)
(***************************************************************************)
\* The lock has one holder at most, and names its execution.
LEMMA LockInvariantHolds ==
  ASSUME \A h \in Hooks : ~h.timeout
  PROVE  Spec => []LockInvariant
<1>1. Init => LockInvariant
  <2> SUFFICES ASSUME Init PROVE LockInvariant
    OBVIOUS
  <2>1. \A q \in Tasks : ~Holds(q) /\ worker[q] = Resting
    BY DEF Init, Holds, Resting, DecisionPCs, RunPCs, CompletionPCs
  <2>2. QED
    BY <2>1 DEF Init, LockInvariant, NoSweep, ReplaysPassBy, SoleHolder, LockNamesItsTask,
                ApprovalHoldsTheHook, AwaitingApproval, Resting, Tasks, At,
                TriggerPCs, DecisionPCs, CompletionPCs
<1>2. TypeOK /\ TasksOK /\ LockInvariant /\ [Next]_vars => LockInvariant'
  <2> SUFFICES ASSUME TypeOK, TasksOK, LockInvariant, [Next]_vars
               PROVE  LockInvariant'
    OBVIOUS
  <2>9. Mode' = Mode /\ ~ApprovalTimeout
    BY HookStays DEF TypeOK, ApprovalTimeout
  <2> USE <2>9 DEF execution, queue, external
  <2>0. NoSweep /\ ReplaysPassBy /\ LockExclusive
    BY DEF LockInvariant, LockExclusive
  <2>1. ASSUME NEW p \in Tasks, Step(p) \/ Request(p) \/ Failure(p)
        PROVE  LockInvariant'
    <3>0. /\ p \in Tasks \ {Sweeper} /\ worker \in [Tasks -> WorkerStates]
          /\ ReplaysPassBy /\ LockExclusive /\ TasksOK /\ TypeOK
          /\ OthersRest(p)
      BY <2>0, <2>1, SweeperRests, OneTaskMoves DEF TypeOK
    <3> SUFFICES ReplaysPassBy' /\ LockExclusive'
      <4>1. NoSweep'
        BY <2>0, <2>1, <3>0, OneTaskMoves DEF NoSweep, OthersRest, Tasks
      <4>2. QED
        BY <4>1 DEF LockInvariant, LockExclusive
    <3>1. CASE TryAcquire(p)
      <4>1. ReplaysPassBy'
        BY <3>0, <3>1, GotoEffect
           DEF TryAcquire, OthersRest, ReplaysPassBy, TypeOK, TasksOK, TaskOK, At, Exec,
               TriggerPCs, DecisionPCs, RunPCs, CompletionPCs
      <4>2. LockExclusive'
        <5>1. CASE lock # None
          <6>1. lock' = lock /\ \E l \in {"count", "idle"} : Goto(p, l)
            BY <3>1, <5>1 DEF TryAcquire
          <6>2. \A q \in Tasks : Holds(q)' => Holds(q) /\ Held(q)' = Held(q)
            BY <3>0, <3>1, <6>1, GotoEffect
               DEF TryAcquire, OthersRest, Holds, Held, At, Exec, TriggerPCs, DecisionPCs,
                   RunPCs, CompletionPCs
          <6>3. QED
            BY <3>0, <3>1, <6>1, <6>2, LockStays DEF TryAcquire
        <5>2. CASE lock = None /\ Mode # "none"
          <6>1. (\A q \in Tasks : ~Holds(q)) /\ AwaitingApproval = {}
            BY <3>0, <5>2, NoHolder, ConstantsAssumption
               DEF LockExclusive, ApprovalHoldsTheHook, AwaitingApproval,
                   ConstantsAssumption
          <6>2. lock' = Exec(p) /\ Goto(p, "create")
            BY <3>1, <5>2 DEF TryAcquire
          <6>3. \A q \in Tasks \ {p} : ~Holds(q)'
            BY <3>0, <3>1, <6>1 DEF TryAcquire, OthersRest, Holds, Exec
          <6>4. lock' = Held(p)'
            BY <3>0, <6>2, GotoEffect
               DEF Held, At, Exec, TriggerPCs, DecisionPCs, RunPCs, CompletionPCs
          <6>5. QED
            BY <3>0, <3>1, <6>1, <6>3, <6>4, LockMoves DEF TryAcquire, AwaitingApproval
        <5>3. CASE Mode = "none"
          BY <5>3, LockMoves DEF Holds
        <5>4. QED
          BY <5>1, <5>2, <5>3
      <4>3. QED
        BY <4>1, <4>2
    <3>2. CASE CountWaiting(p)
      <4>1. ReplaysPassBy'
        BY <3>0, <3>2, GotoEffect
           DEF CountWaiting, OthersRest, ReplaysPassBy, TypeOK, TasksOK, TaskOK, At, Exec,
               TriggerPCs, DecisionPCs, RunPCs, CompletionPCs
      <4>2. LockExclusive'
        <5>1. \A q \in Tasks : Holds(q)' => Holds(q) /\ Held(q)' = Held(q)
          BY <3>0, <3>2, GotoEffect
             DEF CountWaiting, OthersRest, ReplaysPassBy, Holds, Held, TypeOK, At, Exec,
                 TriggerPCs, DecisionPCs, RunPCs, CompletionPCs
        <5>2. \A e \in Execs : status'[e] = "pending_approval" => status[e] = "pending_approval"
          BY <3>0, <3>2, GotoEffect DEF CountWaiting, TypeOK
        <5>3. lock' = lock
          BY <3>2 DEF CountWaiting
        <5>4. QED
          BY <3>0, <5>1, <5>2, <5>3, LockStays
      <4>3. QED
        BY <4>1, <4>2
    <3>3. CASE CreateQueued(p)
      <4>1. ReplaysPassBy'
        BY <3>0, <3>3, GotoEffect
           DEF CreateQueued, Insert, OthersRest, ReplaysPassBy, TypeOK, TasksOK, TaskOK,
               At, Exec, TriggerPCs, DecisionPCs, RunPCs, CompletionPCs
      <4>2. LockExclusive'
        <5>1. \A q \in Tasks : Holds(q)' => Holds(q) /\ Held(q)' = Held(q)
          BY <3>0, <3>3, GotoEffect
             DEF CreateQueued, Insert, OthersRest, ReplaysPassBy, Holds, Held, TypeOK, At,
                 Exec, TriggerPCs, DecisionPCs, RunPCs, CompletionPCs
        <5>2. \A e \in Execs : status'[e] = "pending_approval" => status[e] = "pending_approval"
          BY <3>0, <3>3, GotoEffect DEF CreateQueued, Insert, TypeOK
        <5>3. lock' = lock
          BY <3>3 DEF CreateQueued
        <5>4. QED
          BY <3>0, <5>1, <5>2, <5>3, LockStays
      <4>3. QED
        BY <4>1, <4>2
    <3>4. CASE Enqueue(p)
      <4>1. ReplaysPassBy'
        BY <3>0, <3>4, GotoEffect
           DEF Enqueue, OthersRest, ReplaysPassBy, TypeOK, TasksOK, TaskOK, At, Exec,
               TriggerPCs, DecisionPCs, RunPCs, CompletionPCs
      <4>2. LockExclusive'
        <5>1. \A q \in Tasks : Holds(q)' => Holds(q) /\ Held(q)' = Held(q)
          BY <3>0, <3>4, GotoEffect
             DEF Enqueue, OthersRest, ReplaysPassBy, Holds, Held, TypeOK, At, Exec,
                 TriggerPCs, DecisionPCs, RunPCs, CompletionPCs
        <5>2. \A e \in Execs : status'[e] = "pending_approval" => status[e] = "pending_approval"
          BY <3>0, <3>4, GotoEffect DEF Enqueue, TypeOK
        <5>3. lock' = lock
          BY <3>4 DEF Enqueue
        <5>4. QED
          BY <3>0, <5>1, <5>2, <5>3, LockStays
      <4>3. QED
        BY <4>1, <4>2
    <3>5. CASE Create(p)
      <4>1. ReplaysPassBy'
        BY <3>0, <3>5, GotoEffect
           DEF Create, Insert, OthersRest, ReplaysPassBy, TypeOK, TasksOK, TaskOK, At,
               Exec, TriggerPCs, DecisionPCs, RunPCs, CompletionPCs
      <4>2. LockExclusive'
        <5>1. CASE Holds(p)
          <6>1. (\A q \in Tasks \ {p} : ~Holds(q)) /\ AwaitingApproval = {}
            BY <3>0, <5>1, HolderIsAlone
          <6>2. \A q \in Tasks \ {p} : ~Holds(q)'
            BY <3>0, <3>5, <6>1 DEF Create, OthersRest, Holds, Exec
          <6>3. Holds(p)' => lock' = Held(p)'
            BY <3>0, <3>5, GotoEffect, <5>1
               DEF Create, Insert, Holds, Held, LockExclusive, LockNamesItsTask, TypeOK,
                   At, Exec, TriggerPCs, DecisionPCs, RunPCs, CompletionPCs
          <6>4. \A e \in Execs : status'[e] = "pending_approval" => lock' = e /\ ~Holds(p)'
            BY <3>0, <3>5, GotoEffect, <5>1, <6>1
               DEF Create, Insert, Holds, Held, LockExclusive, LockNamesItsTask,
                   AwaitingApproval, TypeOK, At, Exec, TriggerPCs, DecisionPCs, RunPCs,
                   CompletionPCs
          <6>5. QED
            BY <6>2, <6>3, <6>4, LockMoves
        <5>2. CASE ~Holds(p)
          <6>1. Mode = "none"
            BY <3>0, <3>5, <5>2
               DEF Create, Holds, ReplaysPassBy, At, Exec, TriggerPCs, DecisionPCs,
                   RunPCs, CompletionPCs
          <6>2. QED
            BY <6>1, LockMoves DEF Holds
        <5>3. QED
          BY <5>1, <5>2
      <4>3. QED
        BY <4>1, <4>2
    <3>6. CASE Spawn(p)
      <4>1. ReplaysPassBy'
        BY <3>0, <3>6
           DEF Spawn, OthersRest, ReplaysPassBy, TypeOK, TasksOK, TaskOK, Goto, Rest,
               Resting, Running, At, Exec, TriggerPCs, DecisionPCs, RunPCs, CompletionPCs
      <4>2. LockExclusive'
        <5>1. \A q \in Tasks : Holds(q)' => Holds(q) /\ Held(q)' = Held(q)
          BY <3>0, <3>6
             DEF Spawn, OthersRest, ReplaysPassBy, Holds, Held, TypeOK, Goto, Rest,
                 Resting, Running, At, Exec, TriggerPCs, DecisionPCs, RunPCs,
                 CompletionPCs
        <5>2. \A e \in Execs : status'[e] = "pending_approval" => status[e] = "pending_approval"
          BY <3>0, <3>6 DEF Spawn, TypeOK
        <5>3. lock' = lock
          BY <3>6 DEF Spawn
        <5>4. QED
          BY <3>0, <5>1, <5>2, <5>3, LockStays
      <4>3. QED
        BY <4>1, <4>2
    <3>7. CASE MarkRunning(p)
      <4>1. ReplaysPassBy'
        BY <3>0, <3>7, GotoEffect, NextStatementTyped, OnlyHoldersComplete
           DEF MarkRunning, OthersRest, ReplaysPassBy, TypeOK, TasksOK, TaskOK, At, Exec,
               TriggerPCs, DecisionPCs, RunPCs, CompletionPCs
      <4>2. LockExclusive'
        <5>1. \A q \in Tasks : Holds(q)' => Holds(q) /\ Held(q)' = Held(q)
          BY <3>0, <3>7, GotoEffect, NextStatementTyped, OnlyHoldersComplete
             DEF MarkRunning, OthersRest, ReplaysPassBy, Holds, Held, TypeOK, At, Exec,
                 TriggerPCs, DecisionPCs, RunPCs, CompletionPCs
        <5>2. \A e \in Execs : status'[e] = "pending_approval" => status[e] = "pending_approval"
          BY <3>0, <3>7, GotoEffect, NextStatementTyped, OnlyHoldersComplete
             DEF MarkRunning, TypeOK
        <5>3. lock' = lock
          BY <3>7 DEF MarkRunning
        <5>4. QED
          BY <3>0, <5>1, <5>2, <5>3, LockStays
      <4>3. QED
        BY <4>1, <4>2
    <3>8. CASE CommandEnds(p)
      <4>1. ReplaysPassBy'
        BY <3>0, <3>8
           DEF CommandEnds, OthersRest, ReplaysPassBy, TypeOK, TasksOK, TaskOK, Goto,
               Rest, Resting, Running, At, Exec, TriggerPCs, DecisionPCs, RunPCs,
               CompletionPCs
      <4>2. LockExclusive'
        <5>1. \A q \in Tasks : Holds(q)' => Holds(q) /\ Held(q)' = Held(q)
          BY <3>0, <3>8
             DEF CommandEnds, OthersRest, ReplaysPassBy, Holds, Held, TypeOK, Goto, Rest,
                 Resting, Running, At, Exec, TriggerPCs, DecisionPCs, RunPCs,
                 CompletionPCs
        <5>2. \A e \in Execs : status'[e] = "pending_approval" => status[e] = "pending_approval"
          BY <3>0, <3>8 DEF CommandEnds, TypeOK
        <5>3. lock' = lock
          BY <3>8 DEF CommandEnds
        <5>4. QED
          BY <3>0, <5>1, <5>2, <5>3, LockStays
      <4>3. QED
        BY <4>1, <4>2
    <3>9. CASE MarkCompleted(p)
      <4>1. ReplaysPassBy'
        BY <3>0, <3>9, GotoEffect, NextStatementTyped, OnlyHoldersComplete
           DEF MarkCompleted, StatusOf, OthersRest, ReplaysPassBy, TypeOK, TasksOK,
               TaskOK, At, Exec, TriggerPCs, DecisionPCs, RunPCs, CompletionPCs
      <4>2. LockExclusive'
        <5>1. \A q \in Tasks : Holds(q)' => Holds(q) /\ Held(q)' = Held(q)
          BY <3>0, <3>9, GotoEffect, NextStatementTyped, OnlyHoldersComplete
             DEF MarkCompleted, StatusOf, OthersRest, ReplaysPassBy, Holds, Held, TypeOK,
                 At, Exec, TriggerPCs, DecisionPCs, RunPCs, CompletionPCs
        <5>2. \A e \in Execs : status'[e] = "pending_approval" => status[e] = "pending_approval"
          BY <3>0, <3>9, GotoEffect, NextStatementTyped, OnlyHoldersComplete
             DEF MarkCompleted, StatusOf, TypeOK
        <5>3. lock' = lock
          BY <3>9 DEF MarkCompleted
        <5>4. QED
          BY <3>0, <5>1, <5>2, <5>3, LockStays
      <4>3. QED
        BY <4>1, <4>2
    <3>10. CASE ResetToPending(p)
      <4>1. ReplaysPassBy'
        <5>1. worker'[p].pc = "start" /\ worker'[p].exec = worker[p].exec
          BY <3>0, <3>10 DEF ResetToPending, TypeOK, WorkerStates
        <5>2. \A e \in Execs :
                /\ status'[e] = "absent" => status[e] = "absent"
                /\ status[e] # "absent" => status'[e] # "absent"
                /\ status'[e] = "pending_approval" => status[e] = "pending_approval"
          BY <3>0, <3>10 DEF ResetToPending, TypeOK
        <5>3. replays' = replays /\ entry' = entry
          BY <3>10 DEF ResetToPending, queue
        <5>4. \A q \in Tasks \ {p} : worker'[q] = worker[q]
          BY <3>0, <3>10 DEF ResetToPending, TypeOK
        <5>5. \A q \in Tasks : worker'[q].pc # "start" => worker'[q] = worker[q]
          BY <5>1, <5>4
        <5>6. \A q \in Tasks :
                /\ At(q, "enqueue") => worker[q].exec \in Execs
                /\ worker[q].pc \in {"hand_off", "mark_ready", "ask_approval"} =>
                     worker[q].next \in Execs
          BY <3>0 DEF TasksOK, TaskOK, At
        <5>7. \A e \in Execs :
                /\ status'[e] = "absent" => e \notin replays' /\ entry'[e] = "none"
                /\ entry'[e] = "waiting" \/ status'[e] = "pending_approval" =>
                     e \notin replays'
          <6>1. \A e \in Execs :
                  /\ status[e] = "absent" => e \notin replays /\ entry[e] = "none"
                  /\ entry[e] = "waiting" \/ status[e] = "pending_approval" =>
                       e \notin replays
            BY <3>0 DEF ReplaysPassBy
          <6> QED
            BY <5>2, <5>3, <6>1
        <5>8. ASSUME NEW q \in Tasks, worker'[q].pc # "start"
              PROVE  /\ worker'[q].pc \in (TriggerPCs \ {"spawn"}) \cup DecisionPCs
                                             \cup CompletionPCs
                          => Exec(q)' \notin replays'
                     /\ At(q, "enqueue")' => status'[Exec(q)'] # "absent"
                     /\ worker'[q].pc \in {"hand_off", "mark_ready", "ask_approval"} =>
                          worker'[q].next \notin replays'
                            /\ status'[worker'[q].next] # "absent"
          <6>1. worker'[q] = worker[q]
            BY <5>5, <5>8
          <6>2. /\ worker[q].pc \in (TriggerPCs \ {"spawn"}) \cup DecisionPCs
                                      \cup CompletionPCs
                     => Exec(q) \notin replays
                /\ At(q, "enqueue") => status[Exec(q)] # "absent"
                /\ worker[q].pc \in {"hand_off", "mark_ready", "ask_approval"} =>
                     worker[q].next \notin replays /\ status[worker[q].next] # "absent"
            BY <3>0 DEF ReplaysPassBy
          <6>3. /\ At(q, "enqueue") => status'[worker[q].exec] # "absent"
                /\ worker[q].pc \in {"hand_off", "mark_ready", "ask_approval"} =>
                     status'[worker[q].next] # "absent"
            BY <5>2, <5>6, <6>2 DEF Exec
          <6> QED
            BY <5>3, <6>1, <6>2, <6>3 DEF At, Exec
        <5>9. "start" \notin TriggerPCs \cup DecisionPCs \cup CompletionPCs
          BY DEF TriggerPCs, DecisionPCs, CompletionPCs
        <5> QED
          BY <5>7, <5>8, <5>9 DEF ReplaysPassBy, At, Exec
      <4>2. LockExclusive'
        <5>1. \A q \in Tasks : Holds(q)' => Holds(q) /\ Held(q)' = Held(q)
          BY <3>0, <3>10
             DEF ResetToPending, OthersRest, ReplaysPassBy, Holds, Held, TypeOK, Goto,
                 Rest, Resting, Running, At, Exec, TriggerPCs, DecisionPCs, RunPCs,
                 CompletionPCs
        <5>2. \A e \in Execs : status'[e] = "pending_approval" => status[e] = "pending_approval"
          BY <3>0, <3>10 DEF ResetToPending, TypeOK
        <5>3. lock' = lock
          BY <3>10 DEF ResetToPending
        <5>4. QED
          BY <3>0, <5>1, <5>2, <5>3, LockStays
      <4>3. QED
        BY <4>1, <4>2
    <3>11. CASE Release(p)
      <4>1. ReplaysPassBy'
        BY <3>0, <3>11, GotoEffect
           DEF Release, OthersRest, ReplaysPassBy, TypeOK, TasksOK, TaskOK, At, Exec,
               TriggerPCs, DecisionPCs, RunPCs, CompletionPCs
      <4>2. LockExclusive'
        <5>1. CASE Holds(p)
          <6>1. (\A q \in Tasks \ {p} : ~Holds(q)) /\ AwaitingApproval = {}
            BY <3>0, <5>1, HolderIsAlone
          <6>2. \A q \in Tasks \ {p} : ~Holds(q)'
            BY <3>0, <3>11, <6>1 DEF Release, OthersRest, Holds, Exec
          <6>3. Holds(p)' => lock' = Held(p)'
            BY <3>0, <3>11, GotoEffect, <5>1
               DEF Release, Holds, Held, LockExclusive, LockNamesItsTask, TypeOK, At,
                   Exec, TriggerPCs, DecisionPCs, RunPCs, CompletionPCs
          <6>4. \A e \in Execs : status'[e] = "pending_approval" => lock' = e /\ ~Holds(p)'
            BY <3>0, <3>11, GotoEffect, <5>1, <6>1
               DEF Release, Holds, Held, LockExclusive, LockNamesItsTask,
                   AwaitingApproval, TypeOK, At, Exec, TriggerPCs, DecisionPCs, RunPCs,
                   CompletionPCs
          <6>5. QED
            BY <6>2, <6>3, <6>4, LockMoves
        <5>2. CASE ~Holds(p)
          <6>1. Mode = "none"
            BY <3>0, <3>11, <5>2
               DEF Release, Holds, ReplaysPassBy, At, Exec, TriggerPCs, DecisionPCs,
                   RunPCs, CompletionPCs
          <6>2. QED
            BY <6>1, LockMoves DEF Holds
        <5>3. QED
          BY <5>1, <5>2
      <4>3. QED
        BY <4>1, <4>2
    <3>12. CASE Peek(p)
      <4>0. \/ Goto(p, "release")
            \/ \E e \in Waiting :
                 worker' = [worker EXCEPT ![p].pc = "hand_off", ![p].next = e]
        BY <3>12 DEF Peek, NextInLine
      <4>1. ReplaysPassBy'
        <5>1. CASE Goto(p, "release")
          BY <3>0, <3>12, <5>1, GotoEffect
             DEF Peek, OthersRest, ReplaysPassBy, TypeOK, TasksOK, TaskOK, At, Exec,
                 TriggerPCs, DecisionPCs, RunPCs, CompletionPCs
        <5>2. ASSUME NEW e \in Waiting,
                     worker' = [worker EXCEPT ![p].pc = "hand_off", ![p].next = e]
              PROVE  ReplaysPassBy'
          <6>1. /\ worker'[p].pc = "hand_off" /\ worker'[p].next = e
                /\ worker'[p].exec = worker[p].exec
            BY <3>0, <5>2 DEF WorkerStates
          <6>2. e \in Execs /\ e \notin replays /\ status[e] # "absent"
            BY <3>0, <5>2 DEF Waiting, ReplaysPassBy
          <6>3. QED
            BY <3>0, <3>12, <6>1, <6>2
               DEF Peek, OthersRest, ReplaysPassBy, TypeOK, TasksOK, TaskOK, At, Exec,
                   TriggerPCs, DecisionPCs, RunPCs, CompletionPCs
        <5>3. QED
          BY <4>0, <5>1, <5>2
      <4>2. LockExclusive'
        <5>1. /\ worker'[p].pc \in {"release", "hand_off"}
              /\ worker'[p].exec = worker[p].exec
          BY <3>0, <4>0, GotoEffect DEF WorkerStates
        <5>2. \A q \in Tasks : Holds(q)' => Holds(q) /\ Held(q)' = Held(q)
          BY <3>0, <3>12, <5>1
             DEF Peek, OthersRest, Holds, Held, At, Exec, TriggerPCs, DecisionPCs, RunPCs,
                 CompletionPCs
        <5>3. QED
          BY <3>0, <3>12, <5>2, LockStays DEF Peek
      <4>3. QED
        BY <4>1, <4>2
    <3>13. CASE HandOff(p)
      <4>1. ReplaysPassBy'
        BY <3>0, <3>13, GotoEffect
           DEF HandOff, HolderAfterHandOff, ConstantsAssumption, TasksOK, TaskOK,
               OthersRest, ReplaysPassBy, TypeOK, TasksOK, TaskOK, At, Exec, TriggerPCs,
               DecisionPCs, RunPCs, CompletionPCs
      <4>2. LockExclusive'
        <5>1. CASE Holds(p)
          <6>1. (\A q \in Tasks \ {p} : ~Holds(q)) /\ AwaitingApproval = {}
            BY <3>0, <5>1, HolderIsAlone
          <6>2. \A q \in Tasks \ {p} : ~Holds(q)'
            BY <3>0, <3>13, <6>1 DEF HandOff, OthersRest, Holds, Exec
          <6>3. Holds(p)' => lock' = Held(p)'
            BY <3>0, <3>13, GotoEffect, <5>1, ConstantsAssumption
               DEF HandOff, HolderAfterHandOff, ConstantsAssumption, TasksOK, TaskOK,
                   Holds, Held, LockExclusive, LockNamesItsTask, TypeOK, At, Exec,
                   TriggerPCs, DecisionPCs, RunPCs, CompletionPCs
          <6>4. \A e \in Execs : status'[e] = "pending_approval" => lock' = e /\ ~Holds(p)'
            BY <3>0, <3>13, GotoEffect, <5>1, <6>1
               DEF HandOff, HolderAfterHandOff, ConstantsAssumption, TasksOK, TaskOK,
                   Holds, Held, LockExclusive, LockNamesItsTask, AwaitingApproval, TypeOK,
                   At, Exec, TriggerPCs, DecisionPCs, RunPCs, CompletionPCs
          <6>5. QED
            BY <6>2, <6>3, <6>4, LockMoves
        <5>2. CASE ~Holds(p)
          <6>1. Mode = "none"
            BY <3>0, <3>13, <5>2
               DEF HandOff, Holds, ReplaysPassBy, At, Exec, TriggerPCs, DecisionPCs,
                   RunPCs, CompletionPCs
          <6>2. QED
            BY <6>1, LockMoves DEF Holds
        <5>3. QED
          BY <5>1, <5>2
      <4>3. QED
        BY <4>1, <4>2
    <3>14. CASE MarkReady(p)
      <4>0. \/ Goto(p, "ask_approval")
            \/ worker' = [worker EXCEPT ![p] = [Running(worker[p].next) EXCEPT !.pc = "fetch"]]
        BY <3>0, <3>14 DEF MarkReady, AfterMarkReady, SpawnDequeued
      <4>9. /\ worker'[p].pc = "ask_approval" => worker'[p].next = worker[p].next
            /\ worker'[p].pc = "ask_approval" => worker'[p].exec = worker[p].exec
            /\ worker'[p].pc # "ask_approval" =>
                 worker'[p].pc = "fetch" /\ worker'[p].exec = worker[p].next
        <5>1. CASE Goto(p, "ask_approval")
          BY <3>0, <5>1, GotoEffect
        <5>2. CASE worker' = [worker EXCEPT ![p] =
                     [Running(worker[p].next) EXCEPT !.pc = "fetch"]]
          <6>1. worker'[p] = [Running(worker[p].next) EXCEPT !.pc = "fetch"]
            BY <3>0, <5>2 DEF TypeOK
          <6>2. worker'[p].pc = "fetch" /\ worker'[p].exec = worker[p].next
            BY <6>1 DEF Running, Resting
          <6> QED
            BY <6>2
        <5> QED
          BY <4>0, <5>1, <5>2
      <4>1. ReplaysPassBy'
        <5>1. worker[p].next \in Execs
          BY <3>0, <3>14 DEF MarkReady, At, TasksOK, TaskOK
        <5>2. \A e \in Execs : entry'[e] \in {"none", "waiting"} => entry'[e] = entry[e]
          BY <3>0, <3>14, <5>1 DEF MarkReady, TypeOK
        <5>3. \A e \in Execs : status[e] = "absent" => entry'[e] = "none"
          BY <3>0, <3>14, <5>1 DEF MarkReady, TypeOK, ReplaysPassBy, At
        <5>4. QED
          BY <3>0, <3>14, <4>9, <5>1, <5>2, <5>3
             DEF MarkReady, OthersRest, ReplaysPassBy, TasksOK, TaskOK, At, Exec,
                 TriggerPCs, DecisionPCs, RunPCs, CompletionPCs
      <4>2. LockExclusive'
        <5>1. \A q \in Tasks : Holds(q)' => Holds(q) /\ Held(q)' = Held(q)
          BY <3>0, <3>14, <4>9
             DEF MarkReady, OthersRest, Holds, Held, ReplaysPassBy, At, Exec, TriggerPCs,
                 DecisionPCs, RunPCs, CompletionPCs
        <5>2. QED
          BY <3>0, <3>14, <5>1, LockStays DEF MarkReady
      <4>3. QED
        BY <4>1, <4>2
    <3>15. CASE AskApproval(p)
      <4>1. ReplaysPassBy'
        BY <3>0, <3>15, GotoEffect
           DEF AskApproval, OthersRest, ReplaysPassBy, TypeOK, TasksOK, TaskOK, At, Exec,
               TriggerPCs, DecisionPCs, RunPCs, CompletionPCs
      <4>2. LockExclusive'
        <5>1. CASE Holds(p)
          <6>1. (\A q \in Tasks \ {p} : ~Holds(q)) /\ AwaitingApproval = {}
            BY <3>0, <5>1, HolderIsAlone
          <6>2. \A q \in Tasks \ {p} : ~Holds(q)'
            BY <3>0, <3>15, <6>1 DEF AskApproval, OthersRest, Holds, Exec
          <6>3. Holds(p)' => lock' = Held(p)'
            BY <3>0, <3>15, GotoEffect, <5>1
               DEF AskApproval, Holds, Held, LockExclusive, LockNamesItsTask, TypeOK, At,
                   Exec, TriggerPCs, DecisionPCs, RunPCs, CompletionPCs
          <6>4. \A e \in Execs : status'[e] = "pending_approval" => lock' = e /\ ~Holds(p)'
            BY <3>0, <3>15, GotoEffect, <5>1, <6>1
               DEF AskApproval, Holds, Held, LockExclusive, LockNamesItsTask,
                   AwaitingApproval, TypeOK, At, Exec, TriggerPCs, DecisionPCs, RunPCs,
                   CompletionPCs
          <6>5. QED
            BY <6>2, <6>3, <6>4, LockMoves
        <5>2. CASE ~Holds(p)
          <6>1. Mode = "none"
            BY <3>0, <3>15, <5>2
               DEF AskApproval, Holds, ReplaysPassBy, At, Exec, TriggerPCs, DecisionPCs,
                   RunPCs, CompletionPCs
          <6>2. QED
            BY <6>1, LockMoves DEF Holds
        <5>3. QED
          BY <5>1, <5>2
      <4>3. QED
        BY <4>1, <4>2
    <3>16. CASE FetchDequeued(p)
      <4>1. ReplaysPassBy'
        BY <3>0, <3>16, GotoEffect
           DEF FetchDequeued, OthersRest, ReplaysPassBy, TypeOK, TasksOK, TaskOK, At,
               Exec, TriggerPCs, DecisionPCs, RunPCs, CompletionPCs
      <4>2. LockExclusive'
        <5>1. \A q \in Tasks : Holds(q)' => Holds(q) /\ Held(q)' = Held(q)
          BY <3>0, <3>16, GotoEffect
             DEF FetchDequeued, OthersRest, ReplaysPassBy, Holds, Held, TypeOK, At, Exec,
                 TriggerPCs, DecisionPCs, RunPCs, CompletionPCs
        <5>2. \A e \in Execs : status'[e] = "pending_approval" => status[e] = "pending_approval"
          BY <3>0, <3>16, GotoEffect DEF FetchDequeued, TypeOK
        <5>3. lock' = lock
          BY <3>16 DEF FetchDequeued
        <5>4. QED
          BY <3>0, <5>1, <5>2, <5>3, LockStays
      <4>3. QED
        BY <4>1, <4>2
    <3>17. CASE Unapprove(p)
      <4>1. ReplaysPassBy'
        BY <3>0, <3>17
           DEF Unapprove, OthersRest, ReplaysPassBy, TypeOK, TasksOK, TaskOK, Goto, Rest,
               Resting, Running, At, Exec, TriggerPCs, DecisionPCs, RunPCs, CompletionPCs
      <4>2. LockExclusive'
        <5>1. \A q \in Tasks : Holds(q)' => Holds(q) /\ Held(q)' = Held(q)
          BY <3>0, <3>17
             DEF Unapprove, OthersRest, ReplaysPassBy, Holds, Held, TypeOK, Goto, Rest,
                 Resting, Running, At, Exec, TriggerPCs, DecisionPCs, RunPCs,
                 CompletionPCs
        <5>2. \A e \in Execs : status'[e] = "pending_approval" => status[e] = "pending_approval"
          BY <3>0, <3>17 DEF Unapprove, TypeOK
        <5>3. lock' = lock
          BY <3>17 DEF Unapprove
        <5>4. QED
          BY <3>0, <5>1, <5>2, <5>3, LockStays
      <4>3. QED
        BY <4>1, <4>2
    <3>18. CASE ExpireEntry(p)
      <4>1. ReplaysPassBy'
        BY <3>0, <3>18, GotoEffect
           DEF ExpireEntry, OthersRest, ReplaysPassBy, TypeOK, TasksOK, TaskOK, At, Exec,
               TriggerPCs, DecisionPCs, RunPCs, CompletionPCs
      <4>2. LockExclusive'
        <5>1. \A q \in Tasks : Holds(q)' => Holds(q) /\ Held(q)' = Held(q)
          BY <3>0, <3>18, GotoEffect
             DEF ExpireEntry, OthersRest, ReplaysPassBy, Holds, Held, TypeOK, At, Exec,
                 TriggerPCs, DecisionPCs, RunPCs, CompletionPCs
        <5>2. \A e \in Execs : status'[e] = "pending_approval" => status[e] = "pending_approval"
          BY <3>0, <3>18, GotoEffect DEF ExpireEntry, TypeOK
        <5>3. lock' = lock
          BY <3>18 DEF ExpireEntry
        <5>4. QED
          BY <3>0, <5>1, <5>2, <5>3, LockStays
      <4>3. QED
        BY <4>1, <4>2
    <3>19. CASE CheckHolder(p)
      <4>1. ReplaysPassBy'
        BY <3>0, <3>19, GotoEffect
           DEF CheckHolder, Completion, OthersRest, ReplaysPassBy, TypeOK, TasksOK,
               TaskOK, At, Exec, TriggerPCs, DecisionPCs, RunPCs, CompletionPCs
      <4>2. LockExclusive'
        <5>1. \A q \in Tasks : Holds(q)' => Holds(q) /\ Held(q)' = Held(q)
          BY <3>0, <3>19, GotoEffect
             DEF CheckHolder, Completion, OthersRest, ReplaysPassBy, Holds, Held, TypeOK,
                 At, Exec, TriggerPCs, DecisionPCs, RunPCs, CompletionPCs
        <5>2. \A e \in Execs : status'[e] = "pending_approval" => status[e] = "pending_approval"
          BY <3>0, <3>19, GotoEffect DEF CheckHolder, Completion, TypeOK
        <5>3. lock' = lock
          BY <3>19 DEF CheckHolder
        <5>4. QED
          BY <3>0, <5>1, <5>2, <5>3, LockStays
      <4>3. QED
        BY <4>1, <4>2
    <3>20. CASE Trigger(p)
      <4>1. ReplaysPassBy'
        <5>1. PICK e \in Execs : Fresh(e) /\ worker' = [worker EXCEPT ![p] =
                [Resting EXCEPT !.pc = FirstStatement, !.exec = e, !.request = TRUE]]
          BY <3>20 DEF Trigger
        <5>2. worker'[p].pc \in {"create", "acquire"} /\ worker'[p].exec = e
          BY <3>0, <5>1 DEF FirstStatement, Resting
        <5>3. e \notin replays
          BY <3>0, <5>1 DEF Fresh, ReplaysPassBy
        <5>4. QED
          BY <3>0, <3>20, <5>2, <5>3
             DEF Trigger, OthersRest, ReplaysPassBy, At, Exec, TriggerPCs, DecisionPCs,
                 RunPCs, CompletionPCs
      <4>2. LockExclusive'
        <5>1. \A q \in Tasks : Holds(q)' => Holds(q) /\ Held(q)' = Held(q)
          BY <3>0, <3>20
             DEF Trigger, FirstStatement, OthersRest, ReplaysPassBy, Holds, Held, TypeOK,
                 Goto, Rest, Resting, Running, At, Exec, TriggerPCs, DecisionPCs, RunPCs,
                 CompletionPCs
        <5>2. \A e \in Execs : status'[e] = "pending_approval" => status[e] = "pending_approval"
          BY <3>0, <3>20 DEF Trigger, FirstStatement, TypeOK
        <5>3. lock' = lock
          BY <3>20 DEF Trigger
        <5>4. QED
          BY <3>0, <5>1, <5>2, <5>3, LockStays
      <4>3. QED
        BY <4>1, <4>2
    <3>21. CASE Replay(p)
      <4>1. ReplaysPassBy'
        BY <3>0, <3>21
           DEF Replay, Insert, Fresh, OthersRest, ReplaysPassBy, TypeOK, TasksOK, TaskOK,
               Goto, Rest, Resting, Running, At, Exec, TriggerPCs, DecisionPCs, RunPCs,
               CompletionPCs
      <4>2. LockExclusive'
        <5>1. \A q \in Tasks : Holds(q)' => Holds(q) /\ Held(q)' = Held(q)
          BY <3>0, <3>21
             DEF Replay, Insert, Fresh, OthersRest, ReplaysPassBy, Holds, Held, TypeOK,
                 Goto, Rest, Resting, Running, At, Exec, TriggerPCs, DecisionPCs, RunPCs,
                 CompletionPCs
        <5>2. \A e \in Execs : status'[e] = "pending_approval" => status[e] = "pending_approval"
          BY <3>0, <3>21 DEF Replay, Insert, Fresh, TypeOK
        <5>3. lock' = lock
          BY <3>21 DEF Replay
        <5>4. QED
          BY <3>0, <5>1, <5>2, <5>3, LockStays
      <4>3. QED
        BY <4>1, <4>2
    <3>22. CASE Approve(p)
      <4>1. ReplaysPassBy'
        BY <3>0, <3>22
           DEF Approve, AwaitingApproval, OthersRest, ReplaysPassBy, TypeOK, TasksOK,
               TaskOK, Goto, Rest, Resting, Running, At, Exec, TriggerPCs, DecisionPCs,
               RunPCs, CompletionPCs
      <4>2. LockExclusive'
        <5>1. CASE Mode = "none"
          BY <5>1, LockMoves DEF Holds
        <5>2. CASE Mode # "none"
          <6>1. PICK e \in AwaitingApproval :
                  /\ status' = [status EXCEPT ![e] = "approved"]
                  /\ worker' = [worker EXCEPT ![p] =
                       [Resting EXCEPT !.pc = "unapprove", !.exec = e, !.request = TRUE]]
            BY <3>22 DEF Approve
          <6>2. worker'[p].pc = "unapprove" /\ worker'[p].exec = e
            BY <3>0, <6>1 DEF Resting
          <6>3. \A q \in Tasks : ~Holds(q)
            BY <3>0, <5>2, <6>1, NoHolder
          <6>4. \A f \in AwaitingApproval : lock = f
            BY <3>0, <5>2 DEF LockExclusive, ApprovalHoldsTheHook
          <6>5. \A q \in Tasks \ {p} : ~Holds(q)'
            BY <3>0, <3>22, <6>3 DEF Approve, OthersRest, Holds, Exec
          <6>6. lock' = Held(p)'
            BY <3>22, <6>1, <6>2, <6>4 DEF Approve, Held, Exec
          <6>7. \A f \in Execs : status'[f] # "pending_approval"
            BY <3>0, <6>1, <6>4 DEF AwaitingApproval, TypeOK
          <6>8. QED
            BY <3>0, <6>5, <6>6, <6>7, LockMoves
        <5>3. QED
          BY <5>1, <5>2
      <4>3. QED
        BY <4>1, <4>2
    <3>23. CASE Reject(p)
      <4>1. ReplaysPassBy'
        BY <3>0, <3>23
           DEF Reject, AwaitingApproval, OthersRest, ReplaysPassBy, TypeOK, TasksOK,
               TaskOK, Goto, Rest, Resting, Running, At, Exec, TriggerPCs, DecisionPCs,
               RunPCs, CompletionPCs
      <4>2. LockExclusive'
        <5>1. CASE Mode = "none"
          BY <5>1, LockMoves DEF Holds
        <5>2. CASE Mode # "none"
          <6>1. PICK e \in AwaitingApproval :
                  /\ status' = [status EXCEPT ![e] = "rejected"]
                  /\ worker' = [worker EXCEPT ![p] =
                       [Resting EXCEPT !.pc = "expire_entry", !.exec = e, !.request = TRUE]]
            BY <3>23 DEF Reject
          <6>2. worker'[p].pc = "expire_entry" /\ worker'[p].exec = e
            BY <3>0, <6>1 DEF Resting
          <6>3. \A q \in Tasks : ~Holds(q)
            BY <3>0, <5>2, <6>1, NoHolder
          <6>4. \A f \in AwaitingApproval : lock = f
            BY <3>0, <5>2 DEF LockExclusive, ApprovalHoldsTheHook
          <6>5. \A q \in Tasks \ {p} : ~Holds(q)'
            BY <3>0, <3>23, <6>3 DEF Reject, OthersRest, Holds, Exec
          <6>6. lock' = Held(p)'
            BY <3>23, <6>1, <6>2, <6>4 DEF Reject, Held, Exec
          <6>7. \A f \in Execs : status'[f] # "pending_approval"
            BY <3>0, <6>1, <6>4 DEF AwaitingApproval, TypeOK
          <6>8. QED
            BY <3>0, <6>5, <6>6, <6>7, LockMoves
        <5>3. QED
          BY <5>1, <5>2
      <4>3. QED
        BY <4>1, <4>2
    <3>24. CASE LogsFail(p)
      <4>1. ReplaysPassBy'
        BY <3>0, <3>24, GotoEffect, NextStatementTyped, OnlyHoldersComplete
           DEF LogsFail, OthersRest, ReplaysPassBy, TypeOK, TasksOK, TaskOK, At, Exec,
               TriggerPCs, DecisionPCs, RunPCs, CompletionPCs
      <4>2. LockExclusive'
        <5>1. \A q \in Tasks : Holds(q)' => Holds(q) /\ Held(q)' = Held(q)
          BY <3>0, <3>24, GotoEffect, NextStatementTyped, OnlyHoldersComplete
             DEF LogsFail, OthersRest, ReplaysPassBy, Holds, Held, TypeOK, At, Exec,
                 TriggerPCs, DecisionPCs, RunPCs, CompletionPCs
        <5>2. \A e \in Execs : status'[e] = "pending_approval" => status[e] = "pending_approval"
          BY <3>0, <3>24, GotoEffect, NextStatementTyped, OnlyHoldersComplete
             DEF LogsFail, TypeOK
        <5>3. lock' = lock
          BY <3>24 DEF LogsFail
        <5>4. QED
          BY <3>0, <5>1, <5>2, <5>3, LockStays
      <4>3. QED
        BY <4>1, <4>2
    <3>25. CASE StatementFails(p)
      <4>0. \/ /\ worker[p].pc = "unapprove"
               /\ worker'[p].pc = "start" /\ worker'[p].exec = worker[p].exec
            \/ /\ worker[p].pc # "unapprove" /\ worker'[p].pc = OnError(p)
               /\ OnError(p) # "idle" => worker'[p].exec = worker[p].exec
        <5>1. CASE worker[p].pc = "unapprove"
          <6>1. worker' = [worker EXCEPT ![p] = Running(Exec(p))]
            BY <3>25, <5>1 DEF StatementFails, At
          <6>2. worker'[p].pc = "start" /\ worker'[p].exec = worker[p].exec
            BY <3>0, <6>1 DEF Exec, Running, Resting
          <6>3. QED
            BY <5>1, <6>2
        <5>2. CASE worker[p].pc # "unapprove"
          <6>1. Goto(p, OnError(p))
            BY <3>25, <5>2 DEF StatementFails, At
          <6>2. QED
            BY <3>0, <5>2, <6>1, GotoEffect
        <5>3. QED
          BY <5>1, <5>2
      <4>9. OnError(p) \in {"idle", "retry", "peek", "release", "check_holder"}
        BY NextStatementTyped
      <4>1. ReplaysPassBy'
        BY <3>0, <3>25, <4>0, <4>9, OnlyHoldersComplete
           DEF StatementFails, OthersRest, ReplaysPassBy, At, Exec, TriggerPCs,
               DecisionPCs, RunPCs, CompletionPCs
      <4>2. LockExclusive'
        <5>1. \A q \in Tasks : Holds(q)' => Holds(q) /\ Held(q)' = Held(q)
          BY <3>0, <3>25, <4>0, <4>9, OnlyHoldersComplete
             DEF StatementFails, OthersRest, Holds, Held, At, Exec, TriggerPCs,
                 DecisionPCs, RunPCs, CompletionPCs
        <5>2. QED
          BY <3>0, <3>25, <5>1, LockStays DEF StatementFails
      <4>3. QED
        BY <4>1, <4>2
    <3>26. CASE Disconnect(p)
      <4>1. ReplaysPassBy'
        BY <3>0, <3>26
           DEF Disconnect, OthersRest, ReplaysPassBy, TypeOK, TasksOK, TaskOK, Goto, Rest,
               Resting, Running, At, Exec, TriggerPCs, DecisionPCs, RunPCs, CompletionPCs
      <4>2. LockExclusive'
        <5>1. \A q \in Tasks : Holds(q)' => Holds(q) /\ Held(q)' = Held(q)
          BY <3>0, <3>26
             DEF Disconnect, OthersRest, ReplaysPassBy, Holds, Held, TypeOK, Goto, Rest,
                 Resting, Running, At, Exec, TriggerPCs, DecisionPCs, RunPCs,
                 CompletionPCs
        <5>2. \A e \in Execs : status'[e] = "pending_approval" => status[e] = "pending_approval"
          BY <3>0, <3>26 DEF Disconnect, TypeOK
        <5>3. lock' = lock
          BY <3>26 DEF Disconnect
        <5>4. QED
          BY <3>0, <5>1, <5>2, <5>3, LockStays
      <4>3. QED
        BY <4>1, <4>2
    <3>27. QED
      BY <2>1, <3>1, <3>2, <3>3, <3>4, <3>5, <3>6, <3>7, <3>8, <3>9, <3>10, <3>11, <3>12,
         <3>13, <3>14, <3>15, <3>16, <3>17, <3>18, <3>19, <3>20, <3>21, <3>22, <3>23,
         <3>24, <3>25, <3>26
         DEF Step, Request, Failure
  <2>2. ~Sweep /\ ~SweepStep /\ ~RowFails
    BY <2>0 DEF Sweep, SweepStep, MarkExpired, SweepEnds, RowFails, NoSweep, Resting, At
  <2>3. CASE Restart
    <3>1. \A q \in Tasks : worker'[q] = Resting /\ ~Holds(q)'
      BY <2>3
         DEF Restart, StatusAfterRestart, FinishedByRestart, Holds, Resting, DecisionPCs,
             RunPCs, CompletionPCs
    <3>2. NoSweep'
      BY <2>3, <3>1 DEF Restart, StatusAfterRestart, FinishedByRestart, NoSweep, Tasks
    <3>3. ReplaysPassBy'
      BY <2>0, <2>3, <3>1
         DEF Restart, StatusAfterRestart, FinishedByRestart, ReplaysPassBy, Resting, At,
             TypeOK, TriggerPCs, DecisionPCs,
             CompletionPCs
    <3>4. \A e \in Execs : status'[e] = "pending_approval" => status[e] = "pending_approval"
      BY <2>3 DEF Restart, StatusAfterRestart, FinishedByRestart, TypeOK
    <3>5. ASSUME Mode # "none", NEW e \in Execs, status'[e] = "pending_approval"
          PROVE  lock' = e
      <4>1. lock = e
        BY <2>0, <3>4, <3>5 DEF LockExclusive, ApprovalHoldsTheHook, AwaitingApproval
      <4>2. e \notin {f \in Execs : status'[f] \in Terminal}
        BY <3>5 DEF Terminal, Life!Terminal
      <4>3. QED
        BY <2>3, <4>1, <4>2 DEF Restart, StatusAfterRestart, FinishedByRestart
    <3>6. LockExclusive'
      BY <3>1, <3>5
         DEF LockExclusive, SoleHolder, LockNamesItsTask, ApprovalHoldsTheHook,
             AwaitingApproval
    <3>7. QED
      BY <3>2, <3>3, <3>6 DEF LockInvariant, LockExclusive
  <2>4. CASE UNCHANGED vars
    BY <2>0, <2>4
       DEF vars, LockInvariant, LockExclusive, NoSweep, ReplaysPassBy,
           SoleHolder,
           LockNamesItsTask, ApprovalHoldsTheHook, AwaitingApproval, Holds, Held, Exec, At
  <2>5. QED
    BY <2>1, <2>2, <2>3, <2>4 DEF Next
<1>3. QED
  BY <1>1, <1>2, TypeCorrect, PTL DEF Spec

\* Where approvals do not expire, tasks never execute a locked hook's commands
\* side by side, the lock row always names the execution its task works for,
\* and a pending approval holds the hook alone: whatever is queued, retried,
\* replayed, rejected, or lost in failures and crashes.
THEOREM LockExcludes ==
  ASSUME \A h \in Hooks : ~h.timeout
  PROVE  Spec => [](MutualExclusion /\ LockNamesItsTask /\ ApprovalHoldsTheHook)
<1>1. LockInvariant => MutualExclusion /\ LockNamesItsTask /\ ApprovalHoldsTheHook
  BY DEF LockInvariant, SoleHolder, MutualExclusion
<1>2. QED
  BY <1>1, LockInvariantHolds, PTL

----
(***************************************************************************)
(* Custody of the lock.                                                    *)
(***************************************************************************)
CustodyAssumed ==
  /\ TypeOK /\ TasksOK /\ TasksOK'
  /\ LockInvariant /\ QueueInvariant /\ CustodyInvariant

\* What a task works for is what the lock names only if the task has the lock.
LEMMA OnlyHolderWorks ==
  ASSUME CustodyAssumed, NEW p \in Tasks,
         worker[p].pc \notin {"idle", "rows"}, lock # None, Exec(p) = lock
  PROVE  Holds(p)
<1>1. worker[p].pc \in PCs /\ HandsOver(p) /\ Mode # "none" /\ Exec(p) \notin replays
  BY DEF CustodyAssumed, TypeOK, WorkerStates, CustodyInvariant
<1>2. worker[p].pc \notin JoiningPCs
  BY <1>1 DEF HandsOver
<1>3. QED
  BY <1>1, <1>2 DEF Holds, PCs, TriggerPCs, JoiningPCs

\* Whoever has nothing to do with the lock dequeues nobody.
LEMMA HoldersDequeue ==
  ASSUME CustodyAssumed, NEW p \in Tasks, worker[p].pc \in CompletionPCs
  PROVE  Holds(p)
BY DEF CustodyAssumed, CustodyInvariant, HandsOver, LockInvariant, ReplaysPassBy, Holds

\* A task goes on with its execution, begins with a new one, or is done; the
\* line gets longer at most, and if the task had the lock it still has it, or
\* leaves it to an operator.
LEMMA CustodyGoesOn ==
  ASSUME CustodyAssumed, NEW p \in Tasks,
         OthersRest(p), Mode' = Mode, UNCHANGED <<crashes, lock>>,
         Waiting \subseteq Waiting',
         \A e \in Waiting' \ Waiting :
           entry[e] = "none" /\ status'[e] = "pending" /\ \A q \in Tasks : Exec(q)' # e,
         Exec(p)' \in {Exec(p), None} \/ Fresh(Exec(p)'),
         \A e \in Execs : \/ status'[e] = status[e] \/ Fresh(e)
                          \/ e = Exec(p) /\ worker[p].pc \notin {"idle", "rows"},
         \A e \in replays' : e \in replays \/ Fresh(e),
         worker'[p].pc \in {"acquire"} \cup CompletionPCs => Mode # "none",
         worker'[p].pc \notin {"hand_off", "mark_ready", "ask_approval"},
         worker'[p].pc \in JoiningPCs => worker[p].pc \in JoiningPCs \/ Fresh(Exec(p)'),
         Holds(p) => Holds(p)' \/ lock \in AwaitingApproval'
  PROVE  CustodyInvariant'
<1> USE DEF CustodyAssumed
<1>1. ASSUME lock # None
      PROVE  Mode # "none" /\ lock \notin replays' /\ (LockIsTended \/ LockIsOrphaned)'
  <2>1. lock \in Execs /\ Mode # "none" /\ lock \notin replays' /\ ~Fresh(lock)
    BY <1>1 DEF TypeOK, CustodyInvariant, Fresh
  <2>2. CASE Holds(p)
    BY <2>1, <2>2 DEF LockIsTended
  <2>3. CASE \E q \in Tasks \ {p} : Holds(q)
    <3>1. PICK q \in Tasks \ {p} : Holds(q)
      BY <2>3
    <3>2. Holds(q)'
      BY <3>1 DEF OthersRest, Holds, Exec, Fresh
    <3>3. QED
      BY <2>1, <3>2 DEF LockIsTended
  <2>4. CASE \A q \in Tasks : ~Holds(q)
    <3>1. Exec(p) # lock \/ worker[p].pc \in {"idle", "rows"}
      BY <1>1, <2>4, OnlyHolderWorks
    <3>2. status'[lock] = status[lock]
      BY <1>1, <2>1, <3>1
    <3>3. CASE lock \in AwaitingApproval
      BY <2>1, <3>2, <3>3 DEF LockIsTended, AwaitingApproval
    <3>4. CASE LockIsOrphaned
      <4>1. \A q \in Tasks : Exec(q) # lock
        BY <3>4 DEF LockIsOrphaned
      <4>2. \A q \in Tasks : Exec(q)' # lock
        BY <1>1, <2>1, <4>1 DEF OthersRest, Exec
      <4>3. QED
        BY <2>1, <3>2, <3>4, <4>2 DEF LockIsOrphaned
    <3>5. QED
      BY <1>1, <2>4, <3>3, <3>4 DEF CustodyInvariant, LockIsTended
  <2>5. QED
    BY <2>2, <2>3, <2>4
<1>2. ASSUME NEW e \in Waiting'
      PROVE  status'[e] = "pending" /\ \A q \in Tasks : Exec(q)' # e
  <2>1. CASE e \notin Waiting
    BY <2>1
  <2>2. CASE e \in Waiting
    <3>1. e \in Execs /\ status[e] = "pending" /\ \A q \in Tasks : Exec(q) # e
      BY <2>2 DEF CustodyInvariant, Waiting
    <3>2. ~Fresh(e) /\ e # None
      BY <3>1, ConstantsAssumption DEF Fresh, ConstantsAssumption
    <3>3. Exec(p)' # e
      BY <3>1, <3>2
    <3>4. QED
      BY <3>1, <3>2, <3>3 DEF OthersRest, Exec
  <2>3. QED
    BY <2>1, <2>2
<1>3. ASSUME NEW q \in Tasks PROVE HandsOver(q)'
  <2>0. HandsOver(q) /\ PeekedIsFirst(q)
    BY DEF CustodyInvariant, QueueInvariant
  <2>1. CASE q = p
    <3>1. ASSUME worker'[p].pc \in JoiningPCs PROVE Exec(p)' # lock
      <4>1. Exec(p)' \in Execs
        BY <3>1 DEF TasksOK, TaskOK, JoiningPCs, Exec
      <4>2. CASE Fresh(Exec(p)')
        BY <4>2 DEF Fresh
      <4>3. CASE ~Fresh(Exec(p)')
        <5>1. worker[p].pc \in JoiningPCs /\ Exec(p) # lock
          BY <2>0, <2>1, <3>1, <4>3 DEF HandsOver
        <5>2. Exec(p)' = Exec(p)
          BY <4>1, <4>3, ConstantsAssumption DEF ConstantsAssumption
        <5>3. QED
          BY <5>1, <5>2
      <4>4. QED
        BY <4>2, <4>3
    <3>2. QED
      BY <2>1, <3>1 DEF HandsOver, At, Exec
  <2>2. CASE q # p
    <3>1. worker'[q] = worker[q]
      BY <2>2 DEF OthersRest
    <3>2. ASSUME At(q, "ask_approval")
          PROVE  /\ status'[worker[q].next] = "pending" /\ worker[q].next \notin Waiting'
                 /\ \A r \in Tasks : Exec(r)' # worker[q].next
      <4>1. /\ worker[q].next \in Execs /\ status[worker[q].next] = "pending"
            /\ \A r \in Tasks : Exec(r) # worker[q].next
            /\ entry[worker[q].next] # "none" /\ worker[q].next \notin Waiting
        BY <2>0, <3>2 DEF HandsOver, TasksOK, TaskOK, At, PeekedIsFirst
      <4>2. ~Fresh(worker[q].next) /\ worker[q].next # None
        BY <4>1, ConstantsAssumption DEF Fresh, ConstantsAssumption
      <4>3. Exec(p)' # worker[q].next
        BY <4>1, <4>2
      <4>4. QED
        BY <4>1, <4>2, <4>3 DEF OthersRest, Exec
    <3>3. QED
      BY <2>0, <3>1, <3>2 DEF HandsOver, At, Exec
  <2>3. QED
    BY <2>1, <2>2
<1>4. QED
  BY <1>1, <1>2, <1>3 DEF CustodyInvariant

\* Or the task alone has to do with the lock.
LEMMA CustodyMoves ==
  ASSUME CustodyAssumed, NEW p \in Tasks, OthersRest(p), Mode' = Mode, UNCHANGED replays,
         Mode # "none" => \A q \in Tasks \ {p} : ~Holds(q),
         \A e \in Waiting' : e \in Waiting /\ status'[e] = status[e] /\ Exec(p)' # e,
         lock' # None =>
           Mode # "none" /\ lock' \notin replays /\ (Holds(p)' \/ lock' \in AwaitingApproval'),
         \A q \in Tasks \ {p} : worker[q].pc \in JoiningPCs => Exec(q) # lock',
         HandsOver(p)'
  PROVE  CustodyInvariant'
<1> USE DEF CustodyAssumed
<1>1. ASSUME lock' # None PROVE LockIsTended'
  BY <1>1 DEF LockIsTended
<1>2. \A e \in Waiting' : status'[e] = "pending" /\ \A q \in Tasks : Exec(q)' # e
  BY DEF CustodyInvariant, OthersRest, Exec
<1>3. ASSUME NEW q \in Tasks \ {p} PROVE HandsOver(q)'
  <2>1. worker'[q] = worker[q] /\ HandsOver(q)
    BY DEF OthersRest, CustodyInvariant
  <2>2. worker[q].pc \notin CompletionPCs
    BY <2>1, HoldersDequeue DEF HandsOver
  <2>3. QED
    BY <2>1, <2>2 DEF HandsOver, At, Exec, CompletionPCs
<1>4. QED
  BY <1>1, <1>2, <1>3 DEF CustodyInvariant

\* What Goto does to the task, and to whether it holds the lock.
LEMMA GotoHolds ==
  ASSUME CustodyAssumed, NEW p \in Tasks \ {Sweeper}, NEW l, Goto(p, l), Mode' = Mode,
         UNCHANGED replays
  PROVE  /\ worker'[p].pc = l /\ Exec(p)' \in {Exec(p), None}
         /\ l # "idle" => Exec(p)' = Exec(p)
         /\ Holds(p) /\ l \in {"create", "spawn"} \cup DecisionPCs \cup RunPCs \cup CompletionPCs
              => Holds(p)'
<1>1. worker'[p].pc = l /\ Exec(p)' \in {Exec(p), None} /\ (l # "idle" => Exec(p)' = Exec(p))
  BY DEF CustodyAssumed, TypeOK, Goto, Rest, Resting, WorkerStates, Exec
<1>2. ASSUME Holds(p), l \in {"create", "spawn"} \cup DecisionPCs \cup RunPCs \cup CompletionPCs
      PROVE  Holds(p)'
  <2>1. l # "idle"
    BY <1>2 DEF DecisionPCs, RunPCs, CompletionPCs
  <2>2. QED
    BY <1>1, <1>2, <2>1 DEF Holds
<1>3. QED
  BY <1>1, <1>2

\* The steps that touch neither the lock nor the line.
LEMMA CustodyGoes ==
  ASSUME CustodyAssumed, NEW p \in Tasks \ {Sweeper}, OthersRest(p), Mode' = Mode,
         NEW l, Goto(p, l), UNCHANGED <<crashes, lock, replays>>, Waiting' = Waiting,
         worker[p].pc \notin {"idle", "rows"},
         \A e \in Execs : status'[e] = status[e] \/ e = Exec(p),
         l \notin {"acquire", "hand_off", "mark_ready", "ask_approval"},
         l \in CompletionPCs => Mode # "none",
         l \in JoiningPCs => worker[p].pc \in JoiningPCs,
         Holds(p) => \/ l \in {"create", "spawn"} \cup DecisionPCs \cup RunPCs \cup CompletionPCs
                     \/ lock \in AwaitingApproval'
  PROVE  CustodyInvariant'
<1>1. /\ worker'[p].pc = l /\ Exec(p)' \in {Exec(p), None}
      /\ Holds(p) => Holds(p)' \/ lock \in AwaitingApproval'
  BY GotoHolds
<1>2. Waiting \subseteq Waiting' /\ Waiting' \ Waiting = {}
  OBVIOUS
<1>3. QED
  BY <1>1, <1>2, CustodyGoesOn

\* A task's step keeps the custody.
LEMMA StepKeepsCustody ==
  ASSUME "db" \notin Faults, CustodyAssumed, NEW p \in Tasks \ {Sweeper}, Step(p),
         OthersRest(p), Mode' = Mode
  PROVE  CustodyInvariant'
<1> USE DEF execution, queue, external
<1>0. /\ TaskOK(worker[p]) /\ HandsOver(p) /\ JoinsAlone(p) /\ worker[p] \in WorkerStates
      /\ TypeOK /\ QueueInvariant /\ ReplaysPassBy /\ LockNamesItsTask
      /\ Holds(p) => lock = Held(p) /\ Mode # "none" /\ \A q \in Tasks \ {p} : ~Holds(q)
      /\ \A e \in Waiting : \A q \in Tasks : Exec(q) # e
      /\ lock # None => Mode # "none" /\ lock \notin replays
  BY DEF CustodyAssumed, TasksOK, TypeOK, CustodyInvariant, QueueInvariant, LockInvariant,
         SoleHolder, LockNamesItsTask, Holds
<1>1. CASE TryAcquire(p)
  <2>1. /\ At(p, "acquire") /\ Mode # "none" /\ worker[p].pc \in JoiningPCs /\ Exec(p) \in Execs
        /\ Exec(p) \notin replays
    BY <1>0, <1>1 DEF TryAcquire, At, HandsOver, JoiningPCs, TaskOK, Exec, ReplaysPassBy, TriggerPCs
  <2>2. UNCHANGED <<status, replays, entry, rows, crashes>> /\ Waiting' = Waiting
    BY <1>1 DEF TryAcquire, Waiting
  <2>3. CASE lock = None
    <3>1. \A q \in Tasks : ~Holds(q)
      BY <2>1, <2>3, NoHolder DEF CustodyAssumed, LockInvariant, LockExclusive
    <3>2. lock' = Exec(p) /\ Goto(p, "create")
      BY <1>1, <2>3 DEF TryAcquire
    <3>3. worker'[p].pc = "create" /\ Exec(p)' = Exec(p)
      BY <2>2, <3>2, GotoHolds
    <3>4. Holds(p)' /\ HandsOver(p)'
      BY <2>1, <2>2, <3>3 DEF Holds, HandsOver, CompletionPCs, JoiningPCs, At
    <3>5. \A e \in Waiting' : e \in Waiting /\ status'[e] = status[e] /\ Exec(p)' # e
      BY <1>0, <2>2, <3>3
    <3>6. \A q \in Tasks \ {p} : worker[q].pc \in JoiningPCs => Exec(q) # lock'
      BY <1>0, <2>1, <3>2 DEF JoinsAlone
    <3>7. QED
      BY <2>1, <2>2, <3>1, <3>2, <3>4, <3>5, <3>6, CustodyMoves
  <2>4. CASE lock # None
    <3>1. PICK l \in {"count", "idle"} : Goto(p, l) /\ lock' = lock
      BY <1>1, <2>4 DEF TryAcquire
    <3>2. ~Holds(p)
      BY <2>1 DEF Holds, At, DecisionPCs, RunPCs, CompletionPCs
    <3>3. QED
      BY <2>1, <2>2, <3>1, <3>2, CustodyGoes DEF At, CompletionPCs, JoiningPCs
  <2>5. QED
    BY <2>3, <2>4
<1>2. CASE CountWaiting(p)
  <2>1. PICK l \in {"create_queued", "idle"} : Goto(p, l)
    BY <1>2 DEF CountWaiting
  <2>2. ~Holds(p) /\ worker[p].pc \in JoiningPCs /\ worker[p].pc = "count"
    BY <1>2 DEF CountWaiting, Holds, At, DecisionPCs, RunPCs, CompletionPCs, JoiningPCs
  <2>3. UNCHANGED <<status, replays, lock, crashes>> /\ Waiting' = Waiting
    BY <1>2 DEF CountWaiting, Waiting
  <2>4. QED
    BY <2>1, <2>2, <2>3, CustodyGoes DEF CompletionPCs, JoiningPCs
<1>3. CASE CreateQueued(p)
  <2>1. ~Holds(p) /\ worker[p].pc \in JoiningPCs /\ worker[p].pc = "create_queued"
    BY <1>3 DEF CreateQueued, Holds, At, DecisionPCs, RunPCs, CompletionPCs, JoiningPCs
  <2>2. UNCHANGED <<replays, lock, crashes>> /\ Waiting' = Waiting /\ Goto(p, "enqueue")
    BY <1>3 DEF CreateQueued, Waiting
  <2>3. \A e \in Execs : status'[e] = status[e] \/ e = Exec(p)
    BY <1>0, <1>3 DEF CreateQueued, Insert, TypeOK
  <2>4. QED
    BY <2>1, <2>2, <2>3, CustodyGoes DEF CompletionPCs
<1>4. CASE Enqueue(p)
  <2>1. /\ ~Holds(p) /\ worker[p].pc \in JoiningPCs /\ At(p, "enqueue") /\ worker[p].pc = "enqueue"
        /\ Exec(p) \in Execs
    BY <1>0, <1>4
       DEF Enqueue, Holds, At, DecisionPCs, RunPCs, CompletionPCs, JoiningPCs, TaskOK, Exec
  <2>2. /\ UNCHANGED <<status, replays, lock, crashes>> /\ Goto(p, "idle")
        /\ entry' = [entry EXCEPT ![Exec(p)] = "waiting"]
    BY <1>4 DEF Enqueue
  <2>3. worker'[p].pc = "idle" /\ Exec(p)' = None
    BY <1>0, <2>2 DEF Goto, Rest, Resting, TypeOK, Exec
  <2>4. Waiting \subseteq Waiting' /\ Waiting' \ Waiting \subseteq {Exec(p)}
    BY <1>0, <2>2 DEF Waiting, TypeOK
  <2>5. /\ entry[Exec(p)] = "none" /\ status'[Exec(p)] = "pending"
        /\ \A q \in Tasks : Exec(q)' # Exec(p)
    BY <1>0, <2>1, <2>2, <2>3, ConstantsAssumption
       DEF JoinsAlone, OthersRest, Exec, ConstantsAssumption
  <2>6. QED
    BY <2>1, <2>2, <2>3, <2>4, <2>5, CustodyGoesOn DEF JoiningPCs, CompletionPCs
<1>5. CASE Create(p)
  <2>1. worker[p].pc = "create" /\ Exec(p) \in Execs
    BY <1>0, <1>5 DEF Create, At, TaskOK, Exec
  <2>2. UNCHANGED <<replays, lock, crashes>> /\ Waiting' = Waiting
    BY <1>5 DEF Create, Waiting
  <2>3. \A e \in Execs : status'[e] = status[e] \/ e = Exec(p)
    BY <1>0, <1>5 DEF Create, Insert, TypeOK
  <2>4. CASE ApprovalRequired
    <3>1. Goto(p, "idle") /\ status' = [status EXCEPT ![Exec(p)] = "pending_approval"]
      BY <1>5, <2>4 DEF Create, Insert
    <3>2. Holds(p) => lock \in AwaitingApproval'
      BY <1>0, <2>1, <3>1 DEF Held, AwaitingApproval, TypeOK
    <3>3. QED
      BY <2>1, <2>2, <2>3, <3>1, <3>2, CustodyGoes DEF CompletionPCs, JoiningPCs
  <2>5. CASE ~ApprovalRequired
    <3>1. Goto(p, "spawn")
      BY <1>5, <2>5 DEF Create
    <3>2. QED
      BY <2>1, <2>2, <2>3, <3>1, CustodyGoes DEF CompletionPCs, JoiningPCs
  <2>6. QED
    BY <2>4, <2>5
<1>6. CASE Spawn(p) \/ Unapprove(p)
  <2>1. worker[p].pc \in {"spawn", "unapprove"} /\ Exec(p) \in Execs
    BY <1>0, <1>6 DEF Spawn, Unapprove, At, TaskOK, Exec
  <2>2. UNCHANGED <<replays, lock, crashes>> /\ Waiting' = Waiting
    BY <1>6 DEF Spawn, Unapprove, Waiting
  <2>3. \A e \in Execs : status'[e] = status[e] \/ e = Exec(p)
    BY <1>0, <1>6 DEF Spawn, Unapprove, TypeOK
  <2>4. worker'[p].pc = "start" /\ Exec(p)' = Exec(p)
    <3>1. worker' = [worker EXCEPT ![p] = Running(Exec(p))]
      BY <1>6 DEF Spawn, Unapprove
    <3>2. Running(Exec(p)).pc = "start" /\ Running(Exec(p)).exec = Exec(p)
      BY DEF Running, Resting
    <3>3. QED
      BY <1>0, <3>1, <3>2 DEF TypeOK, Exec
  <2>5. Holds(p) => Holds(p)'
    BY <2>2, <2>4 DEF Holds, RunPCs
  <2>6. QED
    BY <2>1, <2>2, <2>3, <2>4, <2>5, CustodyGoesOn DEF CompletionPCs, JoiningPCs
<1>7. CASE CommandEnds(p) \/ ResetToPending(p)
  <2>1. worker[p].pc \in {"executing", "retry"} /\ Exec(p) \in Execs
    BY <1>0, <1>7 DEF CommandEnds, ResetToPending, At, TaskOK, Exec
  <2>2. UNCHANGED <<replays, lock, crashes>> /\ Waiting' = Waiting
    BY <1>7 DEF CommandEnds, ResetToPending, Waiting
  <2>3. \A e \in Execs : status'[e] = status[e] \/ e = Exec(p)
    BY <1>0, <1>7 DEF CommandEnds, ResetToPending, TypeOK
  <2>4. worker'[p].pc \in {"complete", "start"} /\ Exec(p)' = Exec(p)
    BY <1>0, <1>7 DEF CommandEnds, ResetToPending, TypeOK, WorkerStates, Exec
  <2>5. Holds(p) => Holds(p)'
    BY <2>2, <2>4 DEF Holds, RunPCs
  <2>6. QED
    BY <2>1, <2>2, <2>3, <2>4, <2>5, CustodyGoesOn DEF CompletionPCs, JoiningPCs
<1>8. CASE MarkRunning(p) \/ MarkCompleted(p)
  <2>1. worker[p].pc \in {"start", "complete"} /\ Exec(p) \in Execs
    BY <1>0, <1>8 DEF MarkRunning, MarkCompleted, At, TaskOK, Exec
  <2>2. UNCHANGED <<replays, lock, crashes>> /\ Waiting' = Waiting
    BY <1>8 DEF MarkRunning, MarkCompleted, Waiting
  <2>3. \A e \in Execs : status'[e] = status[e] \/ e = Exec(p)
    BY <1>0, <1>8 DEF MarkRunning, MarkCompleted, TypeOK
  <2>4. AfterRun(p) = "idle" => ~Holds(p)
    BY DEF AfterRun, Completion, Holds
  <2>5. AfterRun(p) \in {"peek", "release"} => Mode # "none"
    BY DEF AfterRun
  <2>6. PICK l \in {"executing", "retry", "idle", "peek", "release"} :
          /\ Goto(p, l)
          /\ l \in {"idle", "peek", "release"} => l = AfterRun(p)
    BY <1>8, NextStatementTyped DEF MarkRunning, MarkCompleted, AfterAttempt
  <2>7. QED
    BY <2>1, <2>2, <2>3, <2>4, <2>5, <2>6, CustodyGoes DEF CompletionPCs, JoiningPCs, RunPCs
<1>9. CASE FetchDequeued(p) \/ ExpireEntry(p) \/ CheckHolder(p)
  <2>1. worker[p].pc \in {"fetch", "expire_entry", "check_holder"} /\ Exec(p) \in Execs
    BY <1>0, <1>9 DEF FetchDequeued, ExpireEntry, CheckHolder, At, TaskOK, Exec
  <2>2. UNCHANGED <<status, replays, lock, crashes>>
    BY <1>9 DEF FetchDequeued, ExpireEntry, CheckHolder
  <2>3. Waiting' = Waiting
    BY <1>0, <1>9, <2>1 DEF FetchDequeued, ExpireEntry, CheckHolder, Waiting, TypeOK
  <2>4. PICK l \in {"start", "check_holder", "idle", "peek", "release"} :
          /\ Goto(p, l)
          /\ l \in {"idle", "peek", "release"} =>
               CheckHolder(p) /\ (l = "idle" <=> lock # Exec(p))
    BY <1>9 DEF FetchDequeued, ExpireEntry, CheckHolder, Completion, At
  <2>5. l \in {"peek", "release"} => Mode # "none"
    BY <1>0, <2>1, <2>4, ConstantsAssumption DEF ConstantsAssumption
  <2>6. l = "idle" => ~Holds(p)
    BY <1>0, <2>1, <2>4 DEF CheckHolder, At, Held
  <2>7. QED
    BY <2>1, <2>2, <2>3, <2>4, <2>5, <2>6, CustodyGoes
       DEF CompletionPCs, JoiningPCs, RunPCs, DecisionPCs
<1>10. CASE Release(p) \/ Peek(p) \/ HandOff(p) \/ MarkReady(p) \/ AskApproval(p)
  <2>0. /\ worker[p].pc \in {"release", "peek", "hand_off", "mark_ready", "ask_approval"}
        /\ Holds(p) /\ Mode # "none" /\ lock = Held(p) /\ Exec(p) \in Execs
    <3>1. worker[p].pc \in {"release", "peek", "hand_off", "mark_ready", "ask_approval"}
      BY <1>10 DEF Release, Peek, HandOff, MarkReady, AskApproval, At
    <3>2. Holds(p)
      BY <3>1, HoldersDequeue DEF CompletionPCs
    <3>3. QED
      BY <1>0, <3>1, <3>2 DEF TaskOK, Exec
  <2>1. UNCHANGED replays
    BY <1>10 DEF Release, Peek, HandOff, MarkReady, AskApproval
  <2>2. \A q \in Tasks \ {p} : worker[q].pc \in JoiningPCs =>
          /\ Exec(q) # lock /\ Exec(q) # None
          /\ worker[p].pc \in {"hand_off", "mark_ready"} => Exec(q) # worker[p].next
    <3>1. ASSUME NEW q \in Tasks \ {p}, worker[q].pc \in JoiningPCs
          PROVE  Exec(q) # lock /\ Exec(q) \in Execs
      BY <3>1, ConstantsAssumption
         DEF CustodyAssumed, CustodyInvariant, HandsOver, TasksOK, TaskOK, JoiningPCs, Exec,
             ConstantsAssumption
    <3>2. worker[p].pc \in {"hand_off", "mark_ready"} => worker[p].next \in Waiting
      BY <1>0 DEF HandsOver
    <3>3. QED
      BY <1>0, <3>1, <3>2, ConstantsAssumption DEF ConstantsAssumption
  <2>3. CASE Release(p)
    <3>1. lock' = None /\ Goto(p, "idle") /\ UNCHANGED status /\ Waiting' = Waiting
      BY <2>3 DEF Release, Waiting
    <3>2. worker'[p].pc = "idle" /\ Exec(p)' \in {Exec(p), None}
      BY <2>1, <3>1, GotoHolds
    <3>3. HandsOver(p)'
      BY <3>2 DEF HandsOver, CompletionPCs, JoiningPCs, At
    <3>4. \A e \in Waiting' : e \in Waiting /\ status'[e] = status[e] /\ Exec(p)' # e
      BY <1>0, <3>1, <3>2, ConstantsAssumption DEF Waiting, ConstantsAssumption
    <3>5. QED
      BY <1>0, <2>0, <2>1, <2>2, <3>1, <3>3, <3>4, CustodyMoves
  <2>4. CASE Peek(p)
    <3>0. UNCHANGED <<status, lock, entry, crashes>> /\ Waiting' = Waiting
      BY <2>4 DEF Peek, Waiting
    <3>1. CASE Goto(p, "release")
      BY <2>0, <2>1, <3>0, <3>1, CustodyGoes DEF CompletionPCs, JoiningPCs
    <3>2. CASE ~Goto(p, "release")
      <4>1. PICK e \in Execs :
              NextInLine(e) /\ worker' = [worker EXCEPT ![p].pc = "hand_off", ![p].next = e]
        BY <2>4, <3>2 DEF Peek
      <4>2. worker'[p].pc = "hand_off" /\ Exec(p)' = Exec(p) /\ worker'[p].next = e
        BY <1>0, <4>1 DEF TypeOK, WorkerStates, Exec
      <4>3. HandsOver(p)' /\ Holds(p)'
        BY <2>0, <2>1, <3>0, <4>1, <4>2
           DEF HandsOver, CompletionPCs, JoiningPCs, At, NextInLine, Holds
      <4>4. \A f \in Waiting' : f \in Waiting /\ status'[f] = status[f] /\ Exec(p)' # f
        BY <1>0, <3>0, <4>2
      <4>5. QED
        BY <1>0, <2>0, <2>1, <2>2, <3>0, <4>3, <4>4, CustodyMoves
    <3>3. QED
      BY <3>1, <3>2
  <2>5. CASE HandOff(p)
    <3>0. worker[p].pc = "hand_off" /\ worker[p].next \in Waiting /\ worker[p].next \notin replays
      BY <1>0, <2>5 DEF HandOff, At, HandsOver, ReplaysPassBy
    <3>1. /\ Goto(p, "mark_ready") /\ UNCHANGED <<status, entry>> /\ Waiting' = Waiting
          /\ lock' \in {worker[p].next, None}
      BY <2>5 DEF HandOff, HolderAfterHandOff, Waiting
    <3>2. worker'[p].pc = "mark_ready" /\ Exec(p)' = Exec(p) /\ worker'[p].next = worker[p].next
      BY <1>0, <3>1, GotoEffect DEF TypeOK, Exec
    <3>3. HandsOver(p)' /\ Holds(p)'
      BY <2>0, <2>1, <3>0, <3>1, <3>2 DEF HandsOver, CompletionPCs, JoiningPCs, At, Holds
    <3>4. \A f \in Waiting' : f \in Waiting /\ status'[f] = status[f] /\ Exec(p)' # f
      BY <1>0, <3>1, <3>2
    <3>5. QED
      BY <1>0, <2>0, <2>1, <2>2, <3>0, <3>1, <3>3, <3>4, CustodyMoves
  <2>6. CASE MarkReady(p)
    <3> DEFINE e == worker[p].next
    <3>0. /\ worker[p].pc = "mark_ready" /\ e \in Waiting /\ e \in Execs /\ e \notin replays
          /\ status[e] = "pending" /\ lock = e
      BY <1>0, <2>0, <2>6
         DEF MarkReady, At, HandsOver, ReplaysPassBy, Waiting, CustodyAssumed, CustodyInvariant,
             Held
    <3> HIDE DEF e
    <3>1. UNCHANGED <<status, lock>> /\ Waiting' \subseteq Waiting
      BY <1>0, <2>6, <3>0 DEF MarkReady, Waiting, TypeOK, e
    <3>2. e \notin Waiting'
      BY <1>0, <2>6, <3>0 DEF MarkReady, Waiting, TypeOK, Results, e
    <3>3. CASE ApprovalRequired
      <4>1. worker'[p].pc = "ask_approval" /\ Exec(p)' = Exec(p) /\ worker'[p].next = e
        BY <1>0, <2>6, <3>3, GotoEffect DEF MarkReady, AfterMarkReady, TypeOK, Exec, e
      <4>2. \A q \in Tasks : Exec(q) # e
        BY <1>0, <3>0
      <4>3. \A q \in Tasks : Exec(q)' # e
        BY <4>1, <4>2 DEF OthersRest, Exec
      <4>4. HandsOver(p)' /\ Holds(p)'
        BY <2>0, <2>1, <3>0, <3>1, <3>2, <4>1, <4>3
           DEF HandsOver, CompletionPCs, JoiningPCs, At, Holds
      <4>5. \A f \in Waiting' : f \in Waiting /\ status'[f] = status[f] /\ Exec(p)' # f
        BY <1>0, <3>1, <4>1
      <4>6. QED
        BY <1>0, <2>0, <2>1, <2>2, <3>0, <3>1, <4>4, <4>5, CustodyMoves
    <3>4. CASE ~ApprovalRequired
      <4>1. worker'[p].pc = "fetch" /\ Exec(p)' = e
        <5> DEFINE s == [Running(e) EXCEPT !.pc = "fetch"]
        <5>1. worker' = [worker EXCEPT ![p] = s]
          BY <2>6, <3>4 DEF MarkReady, AfterMarkReady, SpawnDequeued, e
        <5>2. s.pc = "fetch" /\ s.exec = e
          BY DEF Running, Resting
        <5>3. QED
          BY <1>0, <5>1, <5>2 DEF TypeOK, Exec
      <4>2. HandsOver(p)' /\ Holds(p)'
        BY <2>0, <2>1, <3>0, <3>1, <4>1 DEF HandsOver, CompletionPCs, JoiningPCs, At, Holds
      <4>3. \A f \in Waiting' : f \in Waiting /\ status'[f] = status[f] /\ Exec(p)' # f
        BY <3>1, <3>2, <4>1
      <4>4. QED
        BY <1>0, <2>0, <2>1, <2>2, <3>0, <3>1, <4>2, <4>3, CustodyMoves
    <3>5. QED
      BY <3>3, <3>4
  <2>7. CASE AskApproval(p)
    <3>0. /\ worker[p].pc = "ask_approval" /\ worker[p].next \in Execs
          /\ status[worker[p].next] = "pending" /\ lock = worker[p].next
          /\ worker[p].next \notin Waiting /\ lock \notin replays
      BY <1>0, <2>0, <2>7, ConstantsAssumption
         DEF AskApproval, At, HandsOver, TaskOK, Held, ConstantsAssumption
    <3>1. /\ Goto(p, "idle") /\ UNCHANGED lock /\ Waiting' = Waiting
          /\ status' = [status EXCEPT ![lock] = "pending_approval"]
      BY <1>0, <2>7, <3>0 DEF AskApproval, Waiting, TypeOK
    <3>2. worker'[p].pc = "idle" /\ Exec(p)' \in {Exec(p), None}
      BY <2>1, <3>1, GotoHolds
    <3>3. HandsOver(p)'
      BY <3>2 DEF HandsOver, CompletionPCs, JoiningPCs, At
    <3>4. \A e \in Waiting' : e \in Waiting /\ status'[e] = status[e] /\ Exec(p)' # e
      BY <1>0, <3>0, <3>1, <3>2, ConstantsAssumption DEF Waiting, ConstantsAssumption, TypeOK
    <3>5. lock' \in AwaitingApproval'
      BY <1>0, <3>0, <3>1 DEF AwaitingApproval, TypeOK
    <3>6. QED
      BY <1>0, <2>0, <2>1, <2>2, <3>0, <3>1, <3>3, <3>4, <3>5, CustodyMoves
  <2>8. QED
    BY <1>10, <2>3, <2>4, <2>5, <2>6, <2>7
<1>11. QED
  BY <1>1, <1>2, <1>3, <1>4, <1>5, <1>6, <1>7, <1>8, <1>9, <1>10 DEF Step

\* So does what a client or an operator does,
LEMMA RequestKeepsCustody ==
  ASSUME CustodyAssumed, NEW p \in Tasks \ {Sweeper}, Request(p), OthersRest(p), Mode' = Mode
  PROVE  CustodyInvariant'
<1> USE DEF execution, queue, external
<1>0. /\ worker[p].pc = "idle" /\ ~Holds(p) /\ Waiting' = Waiting /\ UNCHANGED <<lock, crashes>>
      /\ TypeOK /\ QueueInvariant /\ ReplaysPassBy /\ ApprovalHoldsTheHook /\ LockInvariant
      /\ \A e \in Waiting : status[e] = "pending" /\ \A q \in Tasks : Exec(q) # e
      /\ \A q \in Tasks : HandsOver(q)
  BY DEF Request, Trigger, Replay, Approve, Reject, At, Holds, DecisionPCs, RunPCs,
         CompletionPCs, Waiting, CustodyAssumed, CustodyInvariant, LockInvariant
<1>1. CASE Trigger(p)
  <2>1. PICK e \in Execs :
          /\ Fresh(e)
          /\ worker' = [worker EXCEPT ![p] =
               [Resting EXCEPT !.pc = FirstStatement, !.exec = e, !.request = TRUE]]
    BY <1>1 DEF Trigger
  <2>2. worker'[p].pc = FirstStatement /\ Exec(p)' = e
    BY <1>0, <2>1 DEF Resting, TypeOK, Exec
  <2>3. UNCHANGED <<status, replays>>
    BY <1>1 DEF Trigger
  <2>4. FirstStatement \in {"create", "acquire"} /\ (FirstStatement = "acquire" => Mode # "none")
    BY DEF FirstStatement
  <2>5. QED
    BY <1>0, <2>1, <2>2, <2>3, <2>4, CustodyGoesOn DEF CompletionPCs
<1>2. CASE Replay(p)
  <2>1. PICK e \in Execs :
          /\ Fresh(e)
          /\ status' = [status EXCEPT ![e] = "pending"]
          /\ replays' = replays \cup {e}
          /\ worker' = [worker EXCEPT ![p] =
               [Running(e) EXCEPT !.pc = "spawn", !.request = TRUE]]
    BY <1>2 DEF Replay, Insert
  <2>2. worker'[p].pc = "spawn" /\ Exec(p)' = e
    BY <1>0, <2>1 DEF Running, Resting, TypeOK, Exec
  <2>3. \A f \in Execs : status'[f] = status[f] \/ Fresh(f)
    BY <1>0, <2>1 DEF TypeOK
  <2>4. \A f \in replays' : f \in replays \/ Fresh(f)
    BY <2>1
  <2>5. QED
    BY <1>0, <2>1, <2>2, <2>3, <2>4, CustodyGoesOn DEF CompletionPCs, JoiningPCs
<1>3. CASE Approve(p) \/ Reject(p)
  <2>1. PICK e \in AwaitingApproval, s \in {"approved", "rejected"},
             l \in {"unapprove", "expire_entry"} :
          /\ status' = [status EXCEPT ![e] = s]
          /\ worker' = [worker EXCEPT ![p] =
               [Resting EXCEPT !.pc = l, !.exec = e, !.request = TRUE]]
    BY <1>3 DEF Approve, Reject
  <2>2. e \in Execs /\ status[e] = "pending_approval" /\ e \notin replays
    BY <1>0, <2>1 DEF AwaitingApproval, ReplaysPassBy
  <2>3. worker'[p].pc = l /\ Exec(p)' = e
    BY <1>0, <2>1 DEF Resting, TypeOK, Exec
  <2>4. UNCHANGED replays
    BY <1>3 DEF Approve, Reject
  <2>5. Mode # "none" => lock = e /\ \A q \in Tasks : ~Holds(q)
    BY <1>0, <2>1 DEF ApprovalHoldsTheHook
  <2>6. \A f \in Waiting' : f \in Waiting /\ status'[f] = status[f] /\ Exec(p)' # f
    BY <1>0, <2>1, <2>2, <2>3 DEF TypeOK, Waiting
  <2>7. HandsOver(p)'
    BY <2>3 DEF HandsOver, CompletionPCs, JoiningPCs, At
  <2>8. lock' # None => Mode # "none" /\ lock' \notin replays /\ Holds(p)'
    BY <1>0, <2>3, <2>4, <2>5
       DEF Holds, DecisionPCs, CustodyAssumed, CustodyInvariant
  <2>9. \A q \in Tasks \ {p} : worker[q].pc \in JoiningPCs => Exec(q) # lock'
    BY <1>0 DEF HandsOver
  <2>10. QED
    BY <1>0, <2>4, <2>5, <2>6, <2>7, <2>8, <2>9, CustodyMoves
<1>4. QED
  BY <1>1, <1>2, <1>3 DEF Request

\* a run whose logs fail,
LEMMA LogsFailKeepsCustody ==
  ASSUME CustodyAssumed, NEW p \in Tasks \ {Sweeper}, LogsFail(p), OthersRest(p), Mode' = Mode
  PROVE  CustodyInvariant'
<1>1. Goto(p, AfterRun(p)) /\ worker[p].pc = "start"
  BY DEF LogsFail, At
<1>2. UNCHANGED <<status, crashes, lock, replays>> /\ Waiting' = Waiting
  BY DEF LogsFail, execution, queue, external, Waiting
<1>3. /\ AfterRun(p) \in {"idle", "peek", "release"}
      /\ AfterRun(p) = "idle" => ~Holds(p)
      /\ AfterRun(p) # "idle" => Mode # "none"
  BY DEF AfterRun, Completion, Holds
<1>4. QED
  BY <1>1, <1>2, <1>3, CustodyGoes DEF CompletionPCs, JoiningPCs

\* and a restart: it leaves a lock to no finished execution.
LEMMA RestartKeepsCustody ==
  ASSUME CustodyAssumed, Restart
  PROVE  CustodyInvariant'
<1> USE DEF CustodyAssumed
<1>1. \A p \in Tasks : worker'[p] = Resting /\ worker'[p].pc = "idle" /\ Exec(p)' = None
  BY DEF Restart, Resting, Exec
<1>2. \A p \in Tasks : HandsOver(p)'
  BY <1>1 DEF HandsOver, CompletionPCs, JoiningPCs, At
<1>3. ASSUME NEW e \in Waiting'
      PROVE  status'[e] = "pending" /\ \A p \in Tasks : Exec(p)' # e
  <2>1. e \in Execs /\ e \in Waiting
    BY DEF Restart, Waiting
  <2>2. status[e] = "pending"
    BY <2>1 DEF CustodyInvariant
  <2>3. QED
    BY <1>1, <2>1, <2>2, ConstantsAssumption
       DEF Restart, StatusAfterRestart, ConstantsAssumption
<1>4. ASSUME lock' # None
      PROVE  (Mode # "none" /\ lock \notin replays)' /\ (LockIsTended \/ LockIsOrphaned)'
  <2>1. lock' = lock /\ lock \in Execs /\ status'[lock] \notin Terminal
    BY <1>4 DEF Restart, FinishedByRestart, StatusAfterRestart, TypeOK
  <2>2. status'[lock] \in Statuses /\ status'[lock] # "running"
    BY <2>1 DEF Restart, StatusAfterRestart, TypeOK, Terminal, Life!Terminal
  <2>3. status'[lock] \in {"absent", "pending", "approved", "pending_approval"}
    BY <2>1, <2>2 DEF Statuses, Life!Statuses, Terminal, Life!Terminal
  <2>4. Mode' # "none" /\ lock' \notin replays'
    BY <1>4, <2>1 DEF CustodyInvariant, Restart, Mode
  <2>5. crashes' > 0
    BY DEF Restart, TypeOK
  <2>6. CASE status'[lock] = "pending_approval"
    BY <2>1, <2>4, <2>6 DEF LockIsTended, AwaitingApproval
  <2>7. CASE status'[lock] # "pending_approval"
    BY <1>1, <2>1, <2>3, <2>4, <2>5, <2>7, ConstantsAssumption
       DEF LockIsOrphaned, ConstantsAssumption
  <2>8. QED
    BY <2>4, <2>6, <2>7
<1>5. QED
  BY <1>2, <1>3, <1>4 DEF CustodyInvariant

\* Whoever has the lock is known, to the crash if not to a task or an operator.
LEMMA CustodyHolds ==
  ASSUME \A h \in Hooks : ~h.timeout, Faults \subseteq {"logs", "expiry"}
  PROVE  Spec => []CustodyInvariant
<1>1. Init => CustodyInvariant
  <2> SUFFICES ASSUME Init PROVE CustodyInvariant
    OBVIOUS
  <2>1. lock = None /\ Waiting = {} /\ \A p \in Tasks : worker[p].pc = "idle"
    BY DEF Init, Waiting, Resting
  <2>2. QED
    BY <2>1 DEF CustodyInvariant, HandsOver, CompletionPCs, JoiningPCs, At
<1>2. TypeOK /\ TasksOK /\ (TypeOK /\ TasksOK)' /\ LockInvariant /\ QueueInvariant
        /\ CustodyInvariant /\ [Next]_vars => CustodyInvariant'
  <2> SUFFICES ASSUME TypeOK, TasksOK, TasksOK', LockInvariant, QueueInvariant,
                      CustodyInvariant, [Next]_vars
               PROVE  CustodyInvariant'
    OBVIOUS
  <2>0. CustodyAssumed
    BY DEF CustodyAssumed
  <2>1. Mode' = Mode /\ NoSweep
    BY HookStays DEF LockInvariant
  <2>2. ASSUME NEW p \in Tasks, Step(p) \/ Request(p) \/ Failure(p)
        PROVE  CustodyInvariant'
    <3>1. p \in Tasks \ {Sweeper} /\ OthersRest(p)
      BY <2>1, <2>2, SweeperRests, OneTaskMoves
    <3>2. ~StatementFails(p) /\ ~Disconnect(p)
      BY DEF StatementFails, Disconnect
    <3>3. QED
      BY <2>0, <2>1, <2>2, <3>1, <3>2, StepKeepsCustody, RequestKeepsCustody, LogsFailKeepsCustody
         DEF Failure
  <2>3. ~Sweep /\ ~SweepStep /\ ~RowFails
    <3>1. \A h \in Hooks : ~h.timeout
      OBVIOUS
    <3>2. ~ApprovalTimeout
      BY <2>1, <3>1 DEF TypeOK, ApprovalTimeout
    <3>3. QED
      BY <2>1, <3>2 DEF Sweep, SweepStep, MarkExpired, SweepEnds, RowFails, NoSweep, Resting, At
  <2>4. CASE UNCHANGED vars
    BY <2>1, <2>4
       DEF vars, CustodyInvariant, LockIsTended, LockIsOrphaned, HandsOver,
           AwaitingApproval, Waiting, Holds, Exec, At
  <2>5. QED
    BY <2>0, <2>2, <2>3, <2>4, RestartKeepsCustody DEF Next
<1>3. QED
  BY <1>1, <1>2, TypeCorrect, LockInvariantHolds, QueueInvariantHolds, PTL DEF Spec

\* While no statement fails, no client goes away and no approval expires, no
\* finished execution keeps the hook, wherever a crash has cut a run short:
\* FinishedExecutionsLetGo.
THEOREM FinishedLetGo ==
  ASSUME \A h \in Hooks : ~h.timeout, Faults \subseteq {"logs", "expiry"}
  PROVE  Spec => []FinishedExecutionsLetGo
<1>1. LockInvariant /\ CustodyInvariant => FinishedExecutionsLetGo
  BY DEF LockInvariant, LockNamesItsTask, CustodyInvariant, LockIsTended, LockIsOrphaned,
         AwaitingApproval, FinishedExecutionsLetGo, Terminal, Life!Terminal
<1>2. QED
  BY <1>1, LockInvariantHolds, CustodyHolds, PTL

\* And without a crash the lock is never left behind: it is with a task that
\* will pass it on, or with an execution an operator will decide on:
\* LockAccountedFor.
THEOREM LockIsNeverLost ==
  ASSUME \A h \in Hooks : ~h.timeout, Faults \subseteq {"logs", "expiry"}, MaxCrashes = 0
  PROVE  Spec => []LockAccountedFor
<1>1. TypeOK /\ LockInvariant /\ CustodyInvariant => LockAccountedFor
  BY DEF TypeOK, LockInvariant, LockNamesItsTask, CustodyInvariant, LockIsTended,
         LockIsOrphaned, LockAccountedFor
<1>2. QED
  BY <1>1, TypeCorrect, LockInvariantHolds, CustodyHolds, PTL

----
(***************************************************************************)
(* ExecutionBarriers implements ExecutionLifecycle, for every number of    *)
(* executions and tasks and whatever the settings: clients may go away,    *)
(* log directories and expiries fail and the server stop, as long as the   *)
(* other statements succeed.  (If mark_completed fails after a command has *)
(* failed, the retry resets a running execution.)                          *)
(***************************************************************************)
USE DEF BeforeRecordPCs, OwnerPCs

\* Nobody but p is about to change e's row.
Untouched(p, e) ==
  \A q \in Tasks : q # p /\ worker[q].pc \in OwnerPCs => Exec(q) # e

\* One task moves: what the others know stays true, if the rows that change
\* are none of theirs.
LEMMA RowsChange ==
  ASSUME TypeOK, TasksOK, LifecycleInvariant, NEW p \in Tasks, NEW s,
         worker' = [worker EXCEPT ![p] = s],
         \A e \in Execs : status'[e] = status[e] \/ (status'[e] # "absent" /\ Untouched(p, e)),
         Knows(s, status'),
         s.pc \in OwnerPCs => Untouched(p, s.exec),
         \A e \in Execs : e \in rows' \/ entry'[e] = "waiting" => status'[e] # "absent"
  PROVE  LifecycleInvariant'
<1>1. worker'[p] = s /\ \A q \in Tasks : q # p => worker'[q] = worker[q]
  BY DEF TypeOK
<1>2. ASSUME NEW q \in Tasks PROVE Knows(worker'[q], status')
  <2>1. CASE q = p
    BY <1>1, <2>1 DEF Knows
  <2>2. CASE q # p
    <3>1. Knows(worker[q], status) /\ TaskOK(worker[q]) /\ worker'[q] = worker[q]
      BY <1>1, <2>2 DEF LifecycleInvariant, TasksOK
    <3>2. ASSUME worker[q].exec \in Execs
          PROVE  worker[q].pc \in BeforeRecordPCs <=> status'[worker[q].exec] = "absent"
      BY <3>1, <3>2, <2>2 DEF Knows, Untouched, Exec
    <3>3. worker[q].pc \in {"executing", "complete"} => status'[worker[q].exec] = "running"
      BY <3>1, <2>2 DEF Knows, Untouched, Exec, TaskOK
    <3>4. worker[q].pc = "retry" => status'[worker[q].exec] = "failed"
      BY <3>1, <2>2 DEF Knows, Untouched, Exec, TaskOK
    <3>5. worker[q].pc \in {"hand_off", "mark_ready", "ask_approval"} =>
            status'[worker[q].next] # "absent"
      BY <3>1, <2>2 DEF Knows, TaskOK
    <3>6. QED
      BY <3>1, <3>2, <3>3, <3>4, <3>5 DEF Knows
  <2>3. QED
    BY <2>1, <2>2
<1>3. ASSUME NEW q \in Tasks, NEW r \in Tasks, q # r,
             worker'[q].pc \in OwnerPCs, worker'[r].pc \in OwnerPCs
      PROVE  worker'[q].exec # worker'[r].exec
  BY <1>1, <1>3 DEF Untouched, LifecycleInvariant, Exec
<1>4. QED
  BY <1>2, <1>3 DEF LifecycleInvariant, Exec

\* A task goes on with, or ends before, a statement that needs to know no more
\* than the last one.
LEMMA TaskGoesOn ==
  ASSUME TypeOK, TasksOK, LifecycleInvariant, NEW p \in Tasks, NEW l,
         Goto(p, l), UNCHANGED status, worker[p].pc \notin {"idle", "rows"},
         l \notin {"executing", "complete", "retry", "hand_off", "ask_approval"},
         l = "mark_ready" => worker[p].pc = "hand_off",
         l # "idle" => (l \in BeforeRecordPCs <=> worker[p].pc \in BeforeRecordPCs),
         rows' \subseteq rows,
         \A e \in Execs : entry'[e] = "waiting" => entry[e] = "waiting"
  PROVE  LifecycleInvariant'
<1> DEFINE s == IF l = "idle" THEN Rest(p) ELSE [worker[p] EXCEPT !.pc = l]
<1>1. worker' = [worker EXCEPT ![p] = s]
  BY DEF Goto, TypeOK
<1>2. Knows(worker[p], status) /\ TaskOK(worker[p]) /\ worker[p] \in WorkerStates
  BY DEF LifecycleInvariant, TasksOK, TypeOK
<1>3. Knows(s, status') /\ (s.pc \in OwnerPCs => Untouched(p, s.exec))
  <2>1. CASE l = "idle"
    BY <2>1, ConstantsAssumption
       DEF Knows, Rest, Resting, ConstantsAssumption, TriggerPCs
  <2>2. CASE l # "idle"
    <3>1. s.pc = l /\ s.exec = worker[p].exec /\ s.next = worker[p].next
      BY <1>2, <2>2 DEF WorkerStates
    <3>2. Knows(s, status')
      BY <1>2, <2>2, <3>1 DEF Knows
    <3>3. s.pc \in OwnerPCs => worker[p].pc \in OwnerPCs
      BY <2>2, <3>1
    <3>4. QED
      BY <3>1, <3>2, <3>3 DEF Untouched, LifecycleInvariant, Exec
  <2>3. QED
    BY <2>1, <2>2
<1> HIDE DEF s
<1>4. \A e \in Execs : e \in rows' \/ entry'[e] = "waiting" => status'[e] # "absent"
  BY DEF LifecycleInvariant
<1>5. \A e \in Execs : status'[e] = status[e] \/ (status'[e] # "absent" /\ Untouched(p, e))
  OBVIOUS
<1>6. QED
  BY <1>1, <1>3, <1>4, <1>5, RowsChange

\* Whose rows p may change: the one it owns, and those that nobody works on.
LEMMA RowsToChange ==
  ASSUME TypeOK, TasksOK, LifecycleInvariant, NEW p \in Tasks
  PROVE  /\ worker[p].pc \in OwnerPCs => Untouched(p, Exec(p))
         /\ \A e \in Execs :
              status[e] \notin {"absent", "running", "failed"} => Untouched(p, e)
BY DEF LifecycleInvariant, Untouched, Knows, Exec, TasksOK, TaskOK

\* Every step keeps the invariant, while no statement fails.
LEMMA LifecycleInvariantKept ==
  ASSUME "db" \notin Faults, TypeOK, TasksOK, LifecycleInvariant, [Next]_vars
  PROVE  LifecycleInvariant'
<1> USE DEF execution, queue, external
<1>1. ASSUME NEW p \in Tasks, Step(p) PROVE LifecycleInvariant'
  <2>0. /\ Knows(worker[p], status) /\ TaskOK(worker[p]) /\ worker[p] \in WorkerStates
        /\ worker[p].pc \in OwnerPCs => Untouched(p, Exec(p))
        /\ \A e \in Execs : status[e] \notin {"absent", "running", "failed"} => Untouched(p, e)
        /\ \A e \in Execs : e \in rows \/ entry[e] = "waiting" => status[e] # "absent"
    BY RowsToChange DEF LifecycleInvariant, TasksOK, TypeOK
  <2>1. CASE TryAcquire(p) \/ CountWaiting(p)
    <3>1. PICK l \in {"create", "count", "create_queued", "idle"} : Goto(p, l)
      BY <2>1 DEF TryAcquire, CountWaiting
    <3>2. QED
      BY <2>1, <3>1, TaskGoesOn DEF TryAcquire, CountWaiting, At, TriggerPCs
  <2>2. CASE CreateQueued(p)
    <3> DEFINE s == [worker[p] EXCEPT !.pc = "enqueue"]
    <3>1. worker' = [worker EXCEPT ![p] = s]
      BY <2>2 DEF CreateQueued, Goto, TypeOK
    <3>2. Exec(p) \in Execs /\ Untouched(p, Exec(p))
      BY <2>0, <2>2 DEF CreateQueued, At, TaskOK, Exec, TriggerPCs
    <3>3. status' = [status EXCEPT ![Exec(p)] = "pending"] /\ UNCHANGED <<entry, rows>>
      BY <2>2 DEF CreateQueued, Insert
    <3>4. s.pc = "enqueue" /\ s.exec = Exec(p)
      BY <2>0 DEF WorkerStates, Exec
    <3>5. Knows(s, status')
      BY <3>2, <3>3, <3>4 DEF Knows, TypeOK, TriggerPCs
    <3> HIDE DEF s
    <3>6. \A e \in Execs : status'[e] = status[e] \/ (status'[e] # "absent" /\ Untouched(p, e))
      BY <3>2, <3>3 DEF TypeOK
    <3>7. \A e \in Execs : e \in rows' \/ entry'[e] = "waiting" => status'[e] # "absent"
      BY <2>0, <3>2, <3>3 DEF TypeOK
    <3>8. QED
      BY <3>1, <3>4, <3>5, <3>6, <3>7, RowsChange
  <2>3. CASE Enqueue(p)
    <3> DEFINE s == Rest(p)
    <3>1. worker' = [worker EXCEPT ![p] = s]
      BY <2>3 DEF Enqueue, Goto, TypeOK
    <3>2. Knows(s, status') /\ s.pc \notin OwnerPCs
      BY ConstantsAssumption DEF Knows, Rest, Resting, ConstantsAssumption, TriggerPCs
    <3> HIDE DEF s
    <3>3. Exec(p) \in Execs /\ status[Exec(p)] # "absent"
      BY <2>0, <2>3 DEF Enqueue, At, TaskOK, Exec, Knows, TriggerPCs
    <3>4. \A e \in Execs : e \in rows' \/ entry'[e] = "waiting" => status'[e] # "absent"
      BY <2>0, <2>3, <3>3 DEF Enqueue, TypeOK
    <3>5. status' = status
      BY <2>3 DEF Enqueue
    <3>6. QED
      BY <3>1, <3>2, <3>4, <3>5, RowsChange
  <2>4. CASE Create(p)
    <3> DEFINE s == IF ApprovalRequired THEN Rest(p) ELSE [worker[p] EXCEPT !.pc = "spawn"]
    <3>1. worker' = [worker EXCEPT ![p] = s]
      BY <2>4 DEF Create, Goto, TypeOK
    <3>2. Exec(p) \in Execs /\ Untouched(p, Exec(p))
      BY <2>0, <2>4 DEF Create, At, TaskOK, Exec, TriggerPCs
    <3>3. PICK x \in {"pending", "pending_approval"} :
            status' = [status EXCEPT ![Exec(p)] = x] /\ UNCHANGED <<entry, rows>>
      BY <2>4 DEF Create, Insert
    <3>4. Knows(s, status') /\ s.pc \notin OwnerPCs
      <4>1. CASE ApprovalRequired
        BY <4>1, ConstantsAssumption DEF Knows, Rest, Resting, ConstantsAssumption, TriggerPCs
      <4>2. CASE ~ApprovalRequired
        <5>1. s.pc = "spawn" /\ s.exec = Exec(p)
          BY <2>0, <4>2 DEF WorkerStates, Exec
        <5>2. QED
          BY <3>2, <3>3, <5>1 DEF Knows, TypeOK, TriggerPCs
      <4>3. QED
        BY <4>1, <4>2
    <3> HIDE DEF s
    <3>5. \A e \in Execs : status'[e] = status[e] \/ (status'[e] # "absent" /\ Untouched(p, e))
      BY <3>2, <3>3 DEF TypeOK
    <3>6. \A e \in Execs : e \in rows' \/ entry'[e] = "waiting" => status'[e] # "absent"
      BY <2>0, <3>2, <3>3 DEF TypeOK
    <3>7. QED
      BY <3>1, <3>4, <3>5, <3>6, RowsChange
  <2>5. CASE Spawn(p)
    <3> DEFINE s == Running(Exec(p))
    <3>1. worker' = [worker EXCEPT ![p] = s] /\ UNCHANGED <<status, entry, rows>>
      BY <2>5 DEF Spawn
    <3>2. Knows(s, status') /\ s.pc \notin OwnerPCs
      BY <2>0, <2>5, <3>1
         DEF Spawn, At, TaskOK, Exec, Knows, Running, Resting, TriggerPCs
    <3> HIDE DEF s
    <3>3. QED
      BY <2>0, <3>1, <3>2, RowsChange
  <2>6. CASE MarkRunning(p)
    <3>0. Exec(p) \in Execs
      BY <2>0, <2>6 DEF MarkRunning, At, TaskOK, Exec
    <3>1. CASE status[Exec(p)] = "pending"
      <4> DEFINE s == [worker[p] EXCEPT !.pc = "executing"]
      <4>1. worker' = [worker EXCEPT ![p] = s]
        BY <2>6, <3>1 DEF MarkRunning, Goto, TypeOK
      <4>2. Untouched(p, Exec(p))
        BY <2>0, <3>0, <3>1
      <4>3. status' = [status EXCEPT ![Exec(p)] = "running"] /\ UNCHANGED <<entry, rows>>
        BY <2>6, <3>1 DEF MarkRunning
      <4>4. s.pc = "executing" /\ s.exec = Exec(p)
        BY <2>0 DEF WorkerStates, Exec
      <4>5. Knows(s, status')
        BY <3>0, <4>3, <4>4 DEF Knows, TypeOK, TriggerPCs
      <4> HIDE DEF s
      <4>6. \A e \in Execs : \/ status'[e] = status[e]
                             \/ status'[e] # "absent" /\ Untouched(p, e)
        BY <3>0, <4>2, <4>3 DEF TypeOK
      <4>7. \A e \in Execs : e \in rows' \/ entry'[e] = "waiting" => status'[e] # "absent"
        BY <2>0, <3>0, <4>3 DEF TypeOK
      <4>8. QED
        BY <4>1, <4>2, <4>4, <4>5, <4>6, <4>7, RowsChange
    <3>2. CASE status[Exec(p)] # "pending"
      <4>1. PICK l \in {"idle", "peek", "release"} : Goto(p, l)
        BY <2>6, <3>2, NextStatementTyped DEF MarkRunning
      <4>2. QED
        BY <2>6, <3>2, <4>1, TaskGoesOn DEF MarkRunning, At, TriggerPCs
    <3>3. QED
      BY <3>1, <3>2
  <2>7. CASE CommandEnds(p)
    <3>1. PICK o \in Outcomes :
            worker' = [worker EXCEPT ![p].pc = "complete", ![p].outcome = o]
      BY <2>7 DEF CommandEnds
    <3> DEFINE s == [worker[p] EXCEPT !.pc = "complete", !.outcome = o]
    <3>2. worker' = [worker EXCEPT ![p] = s] /\ UNCHANGED <<status, entry, rows>>
      BY <2>7, <3>1 DEF CommandEnds, TypeOK
    <3>3. s.pc = "complete" /\ s.exec = Exec(p)
      BY <2>0 DEF WorkerStates, Exec
    <3>4. Knows(s, status') /\ Untouched(p, s.exec)
      BY <2>0, <2>7, <3>2, <3>3 DEF CommandEnds, At, Knows, Exec, TriggerPCs
    <3> HIDE DEF s
    <3>5. QED
      BY <2>0, <3>2, <3>4, RowsChange
  <2>8. CASE MarkCompleted(p)
    <3>0. Exec(p) \in Execs /\ status[Exec(p)] = "running" /\ Untouched(p, Exec(p))
      BY <2>0, <2>8 DEF MarkCompleted, At, TaskOK, Exec, Knows
    <3>1. status' = [status EXCEPT ![Exec(p)] = StatusOf(worker[p].outcome)]
          /\ UNCHANGED <<entry, rows>>
      BY <2>8, <3>0 DEF MarkCompleted, TypeOK
    <3>2. StatusOf(worker[p].outcome) \in {"success", "failed", "timed_out"}
      BY DEF StatusOf
    <3>3. PICK l \in {"retry", "idle", "peek", "release"} :
            Goto(p, l) /\ (l = "retry" => worker[p].outcome = "exit_code")
      BY <2>8, NextStatementTyped DEF MarkCompleted, AfterAttempt, Retries
    <3> DEFINE s == IF l = "idle" THEN Rest(p) ELSE [worker[p] EXCEPT !.pc = l]
    <3>4. worker' = [worker EXCEPT ![p] = s]
      BY <3>3 DEF Goto, TypeOK
    <3>5. Knows(s, status') /\ (s.pc \in OwnerPCs => Untouched(p, s.exec))
      <4>1. CASE l = "idle"
        BY <4>1, ConstantsAssumption DEF Knows, Rest, Resting, ConstantsAssumption, TriggerPCs
      <4>2. CASE l # "idle"
        <5>1. s.pc = l /\ s.exec = Exec(p)
          BY <2>0, <4>2 DEF WorkerStates, Exec
        <5>2. l = "retry" => status'[Exec(p)] = "failed"
          BY <3>0, <3>1, <3>3 DEF StatusOf, TypeOK
        <5>3. status'[Exec(p)] # "absent"
          BY <3>0, <3>1, <3>2 DEF TypeOK
        <5>4. QED
          BY <3>0, <4>2, <5>1, <5>2, <5>3 DEF Knows, TriggerPCs
      <4>3. QED
        BY <4>1, <4>2
    <3> HIDE DEF s
    <3>6. \A e \in Execs : status'[e] = status[e] \/ (status'[e] # "absent" /\ Untouched(p, e))
      BY <3>0, <3>1, <3>2 DEF TypeOK
    <3>7. \A e \in Execs : e \in rows' \/ entry'[e] = "waiting" => status'[e] # "absent"
      BY <2>0, <3>0, <3>1, <3>2 DEF TypeOK
    <3>8. QED
      BY <3>4, <3>5, <3>6, <3>7, RowsChange
  <2>9. CASE ResetToPending(p)
    <3>0. Exec(p) \in Execs /\ Untouched(p, Exec(p))
      BY <2>0, <2>9 DEF ResetToPending, At, TaskOK, Exec
    <3> DEFINE s == [worker[p] EXCEPT !.pc = "start", !.attempt = @ + 1, !.outcome = "none"]
    <3>1. worker' = [worker EXCEPT ![p] = s]
      BY <2>9 DEF ResetToPending, TypeOK
    <3>2. status' = [status EXCEPT ![Exec(p)] = "pending"] /\ UNCHANGED <<entry, rows>>
      BY <2>9 DEF ResetToPending
    <3>3. s.pc = "start" /\ s.exec = Exec(p)
      BY <2>0 DEF WorkerStates, Exec
    <3> HIDE DEF s
    <3>4. Knows(s, status')
      BY <3>0, <3>2, <3>3 DEF Knows, TypeOK, TriggerPCs
    <3>5. \A e \in Execs : status'[e] = status[e] \/ (status'[e] # "absent" /\ Untouched(p, e))
      BY <3>0, <3>2 DEF TypeOK
    <3>6. \A e \in Execs : e \in rows' \/ entry'[e] = "waiting" => status'[e] # "absent"
      BY <2>0, <3>0, <3>2 DEF TypeOK
    <3>7. s.pc \notin OwnerPCs
      BY <3>3 DEF TriggerPCs
    <3>8. QED
      BY <3>1, <3>4, <3>5, <3>6, <3>7, RowsChange
  <2>10. CASE Release(p) \/ HandOff(p) \/ FetchDequeued(p) \/ CheckHolder(p) \/ ExpireEntry(p)
    <3>1. PICK l \in {"idle", "mark_ready", "start", "peek", "release", "check_holder"} :
            Goto(p, l) /\ (l = "mark_ready" => At(p, "hand_off"))
      BY <2>10 DEF Release, HandOff, FetchDequeued, CheckHolder, ExpireEntry, Completion
    <3>2. /\ UNCHANGED <<status, rows>>
          /\ \A e \in Execs : entry'[e] = "waiting" => entry[e] = "waiting"
      BY <2>10 DEF Release, HandOff, FetchDequeued, CheckHolder, ExpireEntry, TypeOK
    <3>3. worker[p].pc \in {"release", "hand_off", "fetch", "check_holder", "expire_entry"}
      BY <2>10 DEF Release, HandOff, FetchDequeued, CheckHolder, ExpireEntry, At
    <3>4. QED
      BY <3>1, <3>2, <3>3, TaskGoesOn DEF At, TriggerPCs
  <2>11. CASE Peek(p)
    <3>1. CASE \E e \in Execs :
                 /\ NextInLine(e)
                 /\ worker' = [worker EXCEPT ![p].pc = "hand_off", ![p].next = e]
      <4>1. PICK e \in Execs :
              NextInLine(e) /\ worker' = [worker EXCEPT ![p].pc = "hand_off", ![p].next = e]
        BY <3>1
      <4> DEFINE s == [worker[p] EXCEPT !.pc = "hand_off", !.next = e]
      <4>2. worker' = [worker EXCEPT ![p] = s] /\ UNCHANGED <<status, entry, rows>>
        BY <2>11, <4>1 DEF Peek, TypeOK
      <4>3. s.pc = "hand_off" /\ s.exec = worker[p].exec /\ s.next = e
        BY <2>0 DEF WorkerStates
      <4>4. status[e] # "absent"
        BY <2>0, <4>1 DEF NextInLine, Waiting
      <4>5. Knows(s, status') /\ s.pc \notin OwnerPCs
        BY <2>0, <2>11, <4>2, <4>3, <4>4 DEF Peek, At, Knows, TriggerPCs
      <4> HIDE DEF s
      <4>6. QED
        BY <2>0, <4>2, <4>5, RowsChange
    <3>2. CASE Goto(p, "release")
      BY <2>11, <3>2, TaskGoesOn DEF Peek, At, TriggerPCs
    <3>3. QED
      BY <2>11, <3>1, <3>2 DEF Peek
  <2>12. CASE MarkReady(p)
    <3>0. worker[p].next \in Execs /\ status[worker[p].next] # "absent"
      BY <2>0, <2>12 DEF MarkReady, At, TaskOK, Knows
    <3>1. /\ UNCHANGED <<status, rows>>
          /\ \A e \in Execs : entry'[e] = "waiting" => entry[e] = "waiting"
      BY <2>12 DEF MarkReady, TypeOK
    <3> DEFINE s == IF ApprovalRequired THEN [worker[p] EXCEPT !.pc = "ask_approval"]
                    ELSE [Running(worker[p].next) EXCEPT !.pc = "fetch"]
    <3>2. worker' = [worker EXCEPT ![p] = s]
      BY <2>12 DEF MarkReady, AfterMarkReady, SpawnDequeued, Goto, TypeOK
    <3>3. Knows(s, status') /\ s.pc \notin OwnerPCs
      <4>1. CASE ApprovalRequired
        <5>1. s.pc = "ask_approval" /\ s.exec = worker[p].exec /\ s.next = worker[p].next
          BY <2>0, <4>1 DEF WorkerStates
        <5>2. QED
          BY <2>0, <2>12, <3>0, <3>1, <5>1 DEF MarkReady, At, Knows, TriggerPCs
      <4>2. CASE ~ApprovalRequired
        BY <3>0, <3>1, <4>2 DEF Knows, Running, Resting, TriggerPCs
      <4>3. QED
        BY <4>1, <4>2
    <3> HIDE DEF s
    <3>4. \A e \in Execs : e \in rows' \/ entry'[e] = "waiting" => status'[e] # "absent"
      BY <2>0, <3>1
    <3>5. QED
      BY <3>1, <3>2, <3>3, <3>4, RowsChange
  <2>13. CASE AskApproval(p)
    <3> DEFINE e == worker[p].next
    <3>0. e \in Execs
      BY <2>0, <2>13 DEF AskApproval, At, TaskOK
    <3>1. /\ status' = [status EXCEPT ![e] = IF @ = "pending" THEN "pending_approval" ELSE @]
          /\ UNCHANGED <<entry, rows>>
      BY <2>13 DEF AskApproval
    <3> DEFINE s == Rest(p)
    <3>2. worker' = [worker EXCEPT ![p] = s]
      BY <2>13 DEF AskApproval, Goto, TypeOK
    <3>3. Knows(s, status') /\ s.pc \notin OwnerPCs
      BY ConstantsAssumption DEF Knows, Rest, Resting, ConstantsAssumption, TriggerPCs
    <3> HIDE DEF s, e
    <3>4. \A f \in Execs : status'[f] = status[f] \/ (status'[f] # "absent" /\ Untouched(p, f))
      BY <2>0, <3>0, <3>1 DEF TypeOK
    <3>5. \A f \in Execs : f \in rows' \/ entry'[f] = "waiting" => status'[f] # "absent"
      BY <2>0, <3>0, <3>1 DEF TypeOK
    <3>6. QED
      BY <3>2, <3>3, <3>4, <3>5, RowsChange
  <2>14. CASE Unapprove(p)
    <3> DEFINE e == Exec(p)
    <3>0. e \in Execs /\ status[e] # "absent"
      BY <2>0, <2>14 DEF Unapprove, At, TaskOK, Exec, Knows, TriggerPCs
    <3>1. /\ status' = [status EXCEPT ![e] = IF @ = "approved" THEN "pending" ELSE @]
          /\ UNCHANGED <<entry, rows>>
      BY <2>14 DEF Unapprove
    <3> DEFINE s == Running(e)
    <3>2. worker' = [worker EXCEPT ![p] = s]
      BY <2>14 DEF Unapprove
    <3>3. s.pc = "start" /\ s.exec = e
      BY DEF Running, Resting
    <3> HIDE DEF s, e
    <3>4. Knows(s, status') /\ s.pc \notin OwnerPCs
      BY <3>0, <3>1, <3>3 DEF Knows, TypeOK, TriggerPCs
    <3>5. \A f \in Execs : status'[f] = status[f] \/ (status'[f] # "absent" /\ Untouched(p, f))
      BY <2>0, <3>0, <3>1 DEF TypeOK
    <3>6. \A f \in Execs : f \in rows' \/ entry'[f] = "waiting" => status'[f] # "absent"
      BY <2>0, <3>0, <3>1 DEF TypeOK
    <3>7. QED
      BY <3>2, <3>4, <3>5, <3>6, RowsChange
  <2>15. QED
    BY <1>1, <2>1, <2>2, <2>3, <2>4, <2>5, <2>6, <2>7, <2>8, <2>9, <2>10, <2>11, <2>12,
       <2>13, <2>14
       DEF Step
<1>2. ASSUME NEW p \in Tasks, Request(p) PROVE LifecycleInvariant'
  <2>0. /\ \A e \in Execs : status[e] \notin {"absent", "running", "failed"} => Untouched(p, e)
        /\ \A e \in Execs : Fresh(e) => Untouched(p, e)
        /\ \A e \in Execs : e \in rows \/ entry[e] = "waiting" => status[e] # "absent"
    BY RowsToChange DEF LifecycleInvariant, Fresh, Untouched
  <2>1. CASE Trigger(p)
    <3>1. PICK e \in Execs :
            /\ Fresh(e)
            /\ worker' = [worker EXCEPT ![p] =
                 [Resting EXCEPT !.pc = FirstStatement, !.exec = e, !.request = TRUE]]
      BY <2>1 DEF Trigger
    <3> DEFINE s == [Resting EXCEPT !.pc = FirstStatement, !.exec = e, !.request = TRUE]
    <3>2. worker' = [worker EXCEPT ![p] = s] /\ UNCHANGED <<status, entry, rows>>
      BY <2>1, <3>1 DEF Trigger
    <3>3. s.exec = e /\ s.pc \in {"create", "acquire"}
      BY DEF Resting, FirstStatement
    <3> HIDE DEF s
    <3>4. Knows(s, status') /\ Untouched(p, s.exec)
      BY <2>0, <3>1, <3>2, <3>3 DEF Fresh, Knows, TriggerPCs
    <3>5. QED
      BY <2>0, <3>2, <3>4, RowsChange
  <2>2. CASE Replay(p)
    <3>1. PICK e \in Execs :
            /\ Fresh(e) /\ Insert(e, "pending")
            /\ worker' = [worker EXCEPT ![p] =
                 [Running(e) EXCEPT !.pc = "spawn", !.request = TRUE]]
      BY <2>2 DEF Replay
    <3> DEFINE s == [Running(e) EXCEPT !.pc = "spawn", !.request = TRUE]
    <3>2. /\ worker' = [worker EXCEPT ![p] = s]
          /\ status' = [status EXCEPT ![e] = "pending"] /\ UNCHANGED <<entry, rows>>
      BY <2>2, <3>1 DEF Replay, Insert
    <3>3. s.exec = e /\ s.pc = "spawn"
      BY DEF Running, Resting
    <3> HIDE DEF s
    <3>4. Knows(s, status') /\ s.pc \notin OwnerPCs
      BY <3>2, <3>3 DEF Knows, TypeOK, TriggerPCs
    <3>5. \A f \in Execs : status'[f] = status[f] \/ (status'[f] # "absent" /\ Untouched(p, f))
      BY <2>0, <3>1, <3>2 DEF TypeOK
    <3>6. \A f \in Execs : f \in rows' \/ entry'[f] = "waiting" => status'[f] # "absent"
      BY <2>0, <3>2 DEF TypeOK
    <3>7. QED
      BY <3>2, <3>4, <3>5, <3>6, RowsChange
  <2>3. CASE Approve(p) \/ Reject(p)
    <3>1. PICK e \in AwaitingApproval, x \in {"approved", "rejected"},
               l \in {"unapprove", "expire_entry"} :
            /\ status' = [status EXCEPT ![e] = x]
            /\ worker' = [worker EXCEPT ![p] =
                 [Resting EXCEPT !.pc = l, !.exec = e, !.request = TRUE]]
      BY <2>3 DEF Approve, Reject
    <3> DEFINE s == [Resting EXCEPT !.pc = l, !.exec = e, !.request = TRUE]
    <3>2. /\ worker' = [worker EXCEPT ![p] = s]
          /\ status' = [status EXCEPT ![e] = x] /\ UNCHANGED <<entry, rows>>
      BY <2>3, <3>1 DEF Approve, Reject
    <3>3. s.exec = e /\ s.pc = l /\ e \in Execs /\ Untouched(p, e)
      BY <2>0 DEF Resting, AwaitingApproval
    <3> HIDE DEF s
    <3>4. Knows(s, status') /\ s.pc \notin OwnerPCs
      BY <3>2, <3>3 DEF Knows, TypeOK, TriggerPCs
    <3>5. \A f \in Execs : status'[f] = status[f] \/ (status'[f] # "absent" /\ Untouched(p, f))
      BY <3>2, <3>3 DEF TypeOK
    <3>6. \A f \in Execs : f \in rows' \/ entry'[f] = "waiting" => status'[f] # "absent"
      BY <2>0, <3>2, <3>3 DEF TypeOK
    <3>7. QED
      BY <3>2, <3>4, <3>5, <3>6, RowsChange
  <2>4. QED
    BY <1>2, <2>1, <2>2, <2>3 DEF Request
<1>3. ASSUME NEW p \in Tasks, Failure(p) PROVE LifecycleInvariant'
  <2>1. CASE LogsFail(p)
    <3>1. PICK l \in {"idle", "peek", "release"} : Goto(p, l)
      BY <2>1, NextStatementTyped DEF LogsFail
    <3>2. QED
      BY <2>1, <3>1, TaskGoesOn DEF LogsFail, At, TriggerPCs
  <2>2. CASE Disconnect(p)
    <3>1. /\ worker' = [worker EXCEPT ![p] = Resting]
          /\ UNCHANGED <<status, entry, rows>>
      BY <2>2 DEF Disconnect
    <3>2. Knows(Resting, status') /\ Resting.pc \notin OwnerPCs
      BY ConstantsAssumption DEF Knows, Resting, ConstantsAssumption, TriggerPCs
    <3>3. \A e \in Execs : e \in rows' \/ entry'[e] = "waiting" => status'[e] # "absent"
      BY <3>1 DEF LifecycleInvariant
    <3>4. QED
      BY <3>1, <3>2, <3>3, RowsChange
  <2>3. QED
    BY <1>3, <2>1, <2>2 DEF Failure, StatementFails
<1>4. CASE Sweep \/ SweepEnds
  <2>1. PICK s \in {Resting, Rest(Sweeper)} : worker' = [worker EXCEPT ![Sweeper] = s]
    BY <1>4 DEF Sweep, SweepEnds
  <2>2. Knows(s, status') /\ s.pc \notin OwnerPCs
    BY <2>1, ConstantsAssumption
       DEF Knows, Rest, Resting, ConstantsAssumption, TriggerPCs
  <2>3. /\ UNCHANGED <<status, entry>>
        /\ \A e \in rows' : e \in rows \/ status[e] = "pending_approval"
    BY <1>4 DEF Sweep, SweepEnds, AwaitingApproval
  <2>4. \A e \in Execs : e \in rows' \/ entry'[e] = "waiting" => status'[e] # "absent"
    BY <2>3 DEF LifecycleInvariant
  <2>5. Sweeper \in Tasks
    BY DEF Tasks
  <2>6. QED
    BY <2>1, <2>2, <2>3, <2>4, <2>5, RowsChange
<1>5. CASE MarkExpired
  <2>1. PICK e \in rows :
          /\ status' = [status EXCEPT ![e] = IF @ = "pending_approval" THEN "expired" ELSE @]
          /\ rows' = rows \ {e}
          /\ worker' = [worker EXCEPT ![Sweeper].pc = "expire_entry", ![Sweeper].exec = e]
    BY <1>5 DEF MarkExpired
  <2>2. /\ Sweeper \in Tasks /\ e \in Execs
        /\ worker[Sweeper] \in WorkerStates /\ status[e] # "absent"
    BY <2>1 DEF Tasks, TypeOK, LifecycleInvariant
  <2> DEFINE s == [worker[Sweeper] EXCEPT !.pc = "expire_entry", !.exec = e]
  <2>3. worker' = [worker EXCEPT ![Sweeper] = s]
    BY <2>1 DEF TypeOK
  <2>4. s.pc = "expire_entry" /\ s.exec = e
    BY <2>2 DEF WorkerStates
  <2> HIDE DEF s
  <2>5. Knows(s, status') /\ s.pc \notin OwnerPCs
    BY <2>1, <2>2, <2>4 DEF Knows, TypeOK, TriggerPCs
  <2>6. \A f \in Execs : \/ status'[f] = status[f]
                         \/ status'[f] # "absent" /\ Untouched(Sweeper, f)
    BY <2>1, <2>2, RowsToChange DEF TypeOK
  <2>7. \A f \in Execs : f \in rows' \/ entry'[f] = "waiting" => status'[f] # "absent"
    BY <1>5, <2>1, <2>2 DEF MarkExpired, LifecycleInvariant, TypeOK
  <2>8. QED
    BY <2>2, <2>3, <2>5, <2>6, <2>7, RowsChange
<1>6. CASE RowFails \/ UNCHANGED vars
  <2>1. UNCHANGED <<status, entry, worker>> /\ rows' \subseteq rows
    BY <1>6 DEF RowFails, vars
  <2>2. QED
    BY <2>1 DEF LifecycleInvariant, Knows, Exec
<1>7. CASE Restart
  <2>1. /\ \A p \in Tasks : worker'[p] = Resting
        /\ rows' = {}
        /\ \A e \in Execs : entry'[e] = "waiting" => entry[e] = "waiting"
        /\ \A e \in Execs : status'[e] = status[e] \/ status'[e] = "failed"
    BY <1>7 DEF Restart, StatusAfterRestart
  <2>2. Knows(Resting, status') /\ Resting.pc \notin OwnerPCs
    BY ConstantsAssumption DEF Knows, Resting, ConstantsAssumption, TriggerPCs
  <2>3. QED
    BY <2>1, <2>2 DEF LifecycleInvariant
<1>8. QED
  BY <1>1, <1>2, <1>3, <1>4, <1>5, <1>6, <1>7 DEF Next, SweepStep

----
(***************************************************************************)
(* The steps of the life cycle.                                            *)
(***************************************************************************)
LEMMA StepsFollowLifecycle ==
  ASSUME "db" \notin Faults, TypeOK, TasksOK, ClearedInvariant, LifecycleInvariant, [Next]_vars
  PROVE  [Life!LifecycleNext]_(Life!lifecycleVars)
<1> USE DEF execution, queue, external
<1>0. ApprovalRequired' = ApprovalRequired
  BY HookStays
<1>1. ASSUME NEW p \in Tasks, Step(p) PROVE [Life!LifecycleNext]_(Life!lifecycleVars)
  <2>0. /\ Knows(worker[p], status) /\ TaskOK(worker[p])
        /\ At(p, "start") => Life!Cleared(Exec(p))
    BY DEF LifecycleInvariant, TasksOK, ClearedInvariant, At, RunPCs
  <2>1. CASE \/ TryAcquire(p) \/ CountWaiting(p) \/ Enqueue(p) \/ Spawn(p) \/ CommandEnds(p)
             \/ Release(p) \/ Peek(p) \/ HandOff(p) \/ MarkReady(p) \/ FetchDequeued(p)
             \/ ExpireEntry(p) \/ CheckHolder(p)
    <3>1. UNCHANGED <<status, approvedAt, replays>>
      BY <2>1
         DEF TryAcquire, CountWaiting, Enqueue, Spawn, CommandEnds, Release, Peek, HandOff,
             MarkReady, FetchDequeued, ExpireEntry, CheckHolder
    <3>2. QED
      BY <1>0, <3>1 DEF Life!lifecycleVars
  <2>2. CASE CreateQueued(p) \/ Create(p)
    <3>1. Exec(p) \in Execs /\ status[Exec(p)] = "absent"
      BY <2>0, <2>2 DEF CreateQueued, Create, At, TaskOK, Exec, Knows, TriggerPCs
    <3>2. /\ \E s \in {"pending", "pending_approval"} : status' = [status EXCEPT ![Exec(p)] = s]
          /\ UNCHANGED <<approvedAt, replays>>
      BY <2>2 DEF CreateQueued, Create, Insert
    <3>3. Life!Created(Exec(p))
      BY <1>0, <3>1, <3>2 DEF Life!Created, Life!Moves
    <3>4. QED
      BY <3>1, <3>3 DEF Life!LifecycleNext
  <2>3. CASE MarkRunning(p)
    <3>1. UNCHANGED <<approvedAt, replays>>
      BY <2>3 DEF MarkRunning
    <3>2. CASE status[Exec(p)] = "pending"
      <4>1. Exec(p) \in Execs /\ Life!Cleared(Exec(p))
        BY <2>0, <2>3 DEF MarkRunning, At, TaskOK, Exec
      <4>2. status' = [status EXCEPT ![Exec(p)] = "running"]
        BY <2>3, <3>2 DEF MarkRunning
      <4>3. Life!Started(Exec(p))
        BY <1>0, <3>1, <3>2, <4>1, <4>2 DEF Life!Started, Life!Moves
      <4>4. QED
        BY <4>1, <4>3 DEF Life!LifecycleNext
    <3>3. CASE status[Exec(p)] # "pending"
      BY <1>0, <2>3, <3>1, <3>3 DEF MarkRunning, Life!lifecycleVars
    <3>4. QED
      BY <3>2, <3>3
  <2>4. CASE MarkCompleted(p)
    <3>1. Exec(p) \in Execs /\ status[Exec(p)] = "running"
      BY <2>0, <2>4 DEF MarkCompleted, At, TaskOK, Exec, Knows
    <3>2. /\ \E s \in {"success", "failed", "timed_out"} : status' = [status EXCEPT ![Exec(p)] = s]
          /\ UNCHANGED <<approvedAt, replays>>
      <4>1. StatusOf(worker[p].outcome) \in {"success", "failed", "timed_out"}
        BY DEF StatusOf
      <4>2. QED
        BY <2>4, <3>1, <4>1 DEF MarkCompleted, TypeOK
    <3>3. Life!Ended(Exec(p))
      BY <1>0, <3>1, <3>2 DEF Life!Ended, Life!Moves
    <3>4. QED
      BY <3>1, <3>3 DEF Life!LifecycleNext
  <2>5. CASE ResetToPending(p)
    <3>1. Exec(p) \in Execs /\ status[Exec(p)] = "failed"
      BY <2>0, <2>5 DEF ResetToPending, At, TaskOK, Exec, Knows
    <3>2. Life!Retried(Exec(p))
      BY <1>0, <2>5, <3>1 DEF ResetToPending, Life!Retried, Life!Moves
    <3>3. QED
      BY <3>1, <3>2 DEF Life!LifecycleNext
  <2>6. CASE AskApproval(p)
    <3> DEFINE e == worker[p].next
    <3>1. e \in Execs
      BY <2>0, <2>6 DEF AskApproval, At, TaskOK
    <3>2. /\ status' = [status EXCEPT ![e] = IF @ = "pending" THEN "pending_approval" ELSE @]
          /\ UNCHANGED <<approvedAt, replays>>
      BY <2>6 DEF AskApproval
    <3> HIDE DEF e
    <3>3. CASE status[e] = "pending"
      <4>1. Life!Started(e)
        BY <1>0, <3>1, <3>2, <3>3 DEF Life!Started, Life!Moves, TypeOK
      <4>2. QED
        BY <3>1, <4>1 DEF Life!LifecycleNext
    <3>4. CASE status[e] # "pending"
      BY <1>0, <3>1, <3>2, <3>4 DEF Life!lifecycleVars, TypeOK
    <3>5. QED
      BY <3>3, <3>4
  <2>7. CASE Unapprove(p)
    <3> DEFINE e == Exec(p)
    <3>1. e \in Execs
      BY <2>0, <2>7 DEF Unapprove, At, TaskOK, Exec
    <3>2. /\ status' = [status EXCEPT ![e] = IF @ = "approved" THEN "pending" ELSE @]
          /\ UNCHANGED <<approvedAt, replays>>
      BY <2>7 DEF Unapprove
    <3> HIDE DEF e
    <3>3. CASE status[e] = "approved"
      <4>1. Life!Resumed(e)
        BY <1>0, <3>1, <3>2, <3>3 DEF Life!Resumed, Life!Moves, TypeOK
      <4>2. QED
        BY <3>1, <4>1 DEF Life!LifecycleNext
    <3>4. CASE status[e] # "approved"
      BY <1>0, <3>1, <3>2, <3>4 DEF Life!lifecycleVars, TypeOK
    <3>5. QED
      BY <3>3, <3>4
  <2>8. QED
    BY <1>1, <2>1, <2>2, <2>3, <2>4, <2>5, <2>6, <2>7 DEF Step
<1>2. ASSUME NEW p \in Tasks, Request(p) PROVE [Life!LifecycleNext]_(Life!lifecycleVars)
  <2>1. CASE Trigger(p)
    BY <1>0, <2>1 DEF Trigger, Life!lifecycleVars
  <2>2. CASE Replay(p)
    <3>1. PICK e \in Execs : /\ status[e] = "absent"
                             /\ status' = [status EXCEPT ![e] = "pending"]
                             /\ replays' = replays \cup {e} /\ UNCHANGED approvedAt
      BY <2>2 DEF Replay, Fresh, Insert
    <3>2. Life!Created(e)
      BY <1>0, <3>1 DEF Life!Created, Life!Moves
    <3>3. QED
      BY <3>2 DEF Life!LifecycleNext
  <2>3. CASE Approve(p) \/ Reject(p)
    <3>1. PICK e \in Execs, s \in {"approved", "rejected"} :
            /\ status[e] = "pending_approval"
            /\ status' = [status EXCEPT ![e] = s]
            /\ approvedAt' = approvedAt \cup {e} /\ UNCHANGED replays
      BY <2>3 DEF Approve, Reject, AwaitingApproval
    <3>2. Life!Decided(e)
      BY <1>0, <3>1 DEF Life!Decided, Life!Moves
    <3>3. QED
      BY <3>2 DEF Life!LifecycleNext
  <2>4. QED
    BY <1>2, <2>1, <2>2, <2>3 DEF Request
<1>3. CASE (\E p \in Tasks : Failure(p)) \/ Sweep \/ SweepEnds \/ RowFails \/ UNCHANGED vars
  <2>1. UNCHANGED <<status, approvedAt, replays>>
    BY <1>3 DEF Failure, LogsFail, StatementFails, Disconnect, Sweep, SweepEnds, RowFails, vars
  <2>2. QED
    BY <1>0, <2>1 DEF Life!lifecycleVars
<1>4. CASE MarkExpired
  <2>1. PICK e \in Execs :
          /\ status' = [status EXCEPT ![e] = IF @ = "pending_approval" THEN "expired" ELSE @]
          /\ UNCHANGED <<approvedAt, replays>>
    BY <1>4 DEF MarkExpired, TypeOK
  <2>2. CASE status[e] = "pending_approval"
    <3>1. Life!Decided(e)
      BY <1>0, <2>1, <2>2 DEF Life!Decided, Life!Moves, TypeOK
    <3>2. QED
      BY <3>1 DEF Life!LifecycleNext
  <2>3. CASE status[e] # "pending_approval"
    BY <1>0, <2>1, <2>3 DEF Life!lifecycleVars, TypeOK
  <2>4. QED
    BY <2>2, <2>3
<1>5. CASE Restart
  <2>1. Life!Recovered
    BY <1>0, <1>5 DEF Restart, StatusAfterRestart, Life!Recovered
  <2>2. QED
    BY <2>1 DEF Life!LifecycleNext
<1>6. QED
  BY <1>1, <1>2, <1>3, <1>4, <1>5 DEF Next, SweepStep

\* The status column moves only as ExecutionLifecycle says, whoever writes it:
\* runs, retries, operators, the sweep, recovery; FollowsLifecycle, for every
\* instance in which statements do not fail.
THEOREM LifecycleIsImplemented ==
  ASSUME "db" \notin Faults
  PROVE  Spec => FollowsLifecycle
<1>1. Init => LifecycleInvariant /\ Life!LifecycleInit
  <2> SUFFICES ASSUME Init PROVE LifecycleInvariant /\ Life!LifecycleInit
    OBVIOUS
  <2>1. Knows(Resting, status) /\ Resting.pc \notin OwnerPCs
    BY ConstantsAssumption DEF Knows, Resting, ConstantsAssumption, TriggerPCs
  <2>2. LifecycleInvariant
    BY <2>1 DEF Init, LifecycleInvariant
  <2>3. ApprovalRequired \in BOOLEAN
    BY ConstantsAssumption DEF Init, ApprovalRequired, ConstantsAssumption, HookConfigs
  <2>4. Life!LifecycleInit
    BY <2>3 DEF Init, Life!LifecycleInit
  <2>5. QED
    BY <2>2, <2>4
<1>2. TypeOK /\ TasksOK /\ LifecycleInvariant /\ [Next]_vars => LifecycleInvariant'
  BY LifecycleInvariantKept
<1>3. TypeOK /\ TasksOK /\ ClearedInvariant /\ LifecycleInvariant /\ [Next]_vars
        => [Life!LifecycleNext]_(Life!lifecycleVars)
  BY StepsFollowLifecycle
<1>4. QED
  BY <1>1, <1>2, <1>3, TypeCorrect, ClearedHolds, PTL
     DEF Spec, FollowsLifecycle, Life!LifecycleSpec

=============================================================================
