--------------------------- MODULE ExecutionBarriers ---------------------------
(***************************************************************************)
(* The execution barriers of one hook: concurrency (mutex or queue) and    *)
(* approval, from the trigger that meets them to the task that runs the    *)
(* command and hands the hook's lock on.  barriers/, retry.rs, the         *)
(* executors' use of models/execution.rs, and the handlers of              *)
(* routes/hooks.rs, routes/executions.rs and tasks.rs that touch the lock. *)
(*                                                                         *)
(* Every statement of that code names one hook, so one hook is modelled.   *)
(* A task (a tokio task or a request handler) runs between two awaits      *)
(* without the database, so one action is one SQL statement and what the   *)
(* task does up to the next one.                                           *)
(*                                                                         *)
(* A definition whose comment begins with "Faulty:" is a mistake this code *)
(* could have made, kept beside the definition it would replace to see     *)
(* that the properties notice it; no action uses it.                       *)
(***************************************************************************)
EXTENDS Integers, FiniteSets

CONSTANTS
  Execs,       \* execution ids (UUIDs: generated once, never reused)
  Workers,     \* tasks: request handlers and spawned runs
  Sweeper,     \* the approval sweep, a task of its own
  None,        \* no execution (an absent lock row, an unset field)
  Hooks,       \* the settings the hook may have
  MaxRetries,  \* the effective retry count
  Faults,      \* which failures of the environment happen
  MaxCrashes   \* bound on server crashes

\* The settings that matter here.
HookConfigs == [
  mode     : {"none", "mutex", "queue"},  \* concurrency, "none" if unset
  depth    : Nat \ {0},                   \* concurrency.queue_depth
  approval : BOOLEAN,                     \* approval.required
  timeout  : BOOLEAN]                     \* whether approval.timeout is set

FaultKinds == {
  "db",          \* a statement returns an error and changes nothing
  "expiry",      \* the sweep's mark_expired returns an error
  "logs",        \* an execution's log directory cannot be prepared
  "disconnect"}  \* a client goes away and its request handler is dropped

ASSUME ConstantsAssumption ==
  /\ None \notin Execs
  /\ Sweeper \notin Workers
  /\ Hooks \subseteq HookConfigs
  /\ MaxRetries \in Nat
  /\ MaxCrashes \in Nat
  /\ Faults \subseteq FaultKinds

VARIABLES
  hook,        \* the hook's settings, which stay as they are
  status,      \* executions.status
  approvedAt,  \* the executions whose approved_at is set
  replays,     \* the executions whose retry_of is set: made by a replay
  lock,        \* execution_locks.execution_id of the hook's row, or None
  entry,       \* execution_queue.status of an execution's row, or "none"
  position,    \* execution_queue.position, 0 without a row
  worker,      \* what each task is about to do
  rows,        \* the ids the current sweep has selected and not handled
  crashes      \* crashes so far

execution == <<status, approvedAt, replays>>
queue == <<entry, position>>
external == <<hook, crashes>>
vars == <<hook, status, approvedAt, replays, lock, entry, position, worker, rows,
          crashes>>

Tasks == Workers \cup {Sweeper}

Mode == hook.mode
QueueDepth == hook.depth
ApprovalRequired == hook.approval
ApprovalTimeout == hook.timeout

Life == INSTANCE ExecutionLifecycle WITH approvalRequired <- ApprovalRequired
Terminal == Life!Terminal
Statuses == Life!Statuses

----
(***************************************************************************)
(* Tasks.  pc names the statement a task is about to run.                  *)
(***************************************************************************)
TriggerPCs == {"acquire", "count", "create_queued", "enqueue", "create", "spawn"}
DecisionPCs == {"unapprove", "expire_entry", "check_holder"}
RunPCs == {"start", "executing", "complete", "retry"}
CompletionPCs == {"fetch", "release", "peek", "hand_off", "mark_ready", "ask_approval"}
PCs == {"idle", "rows"} \cup TriggerPCs \cup DecisionPCs \cup RunPCs \cup CompletionPCs

\* How a command ended: with an exit code of zero or not, without one (spawn
\* or wait error, a signal), or killed by the executor's timeout.
Outcomes == {"success", "exit_code", "no_exit_code", "timed_out"}

StatusOf(outcome) ==
  CASE outcome = "success" -> "success"
    [] outcome = "timed_out" -> "timed_out"
    [] OTHER -> "failed"

WorkerStates == [
  pc      : PCs,
  exec    : Execs \cup {None},       \* the execution it works for
  next    : Execs \cup {None},       \* the queued execution it has peeked
  attempt : 0..MaxRetries,           \* retries done so far
  outcome : Outcomes \cup {"none"},  \* of the command that has just ended
  request : BOOLEAN]                 \* an HTTP handler, gone with its client

Resting == [pc |-> "idle", exec |-> None, next |-> None, attempt |-> 0,
            outcome |-> "none", request |-> FALSE]

\* A task that is done.  The sweep goes on with its next row.
Rest(p) == IF p = Sweeper THEN [Resting EXCEPT !.pc = "rows"] ELSE Resting

\* Task p goes on with statement l, or is done.
Goto(p, l) ==
  worker' = [worker EXCEPT ![p] = IF l = "idle" THEN Rest(p)
                                  ELSE [@ EXCEPT !.pc = l]]

At(p, l) == worker[p].pc = l
Exec(p) == worker[p].exec

\* A spawned task that is about to run e's command for the first time.
Running(e) == [Resting EXCEPT !.pc = "start", !.exec = e]

\* An id no row and no task has.
Fresh(e) ==
  /\ status[e] = "absent"
  /\ lock # e
  /\ \A p \in Tasks : Exec(p) # e

Waiting == {e \in Execs : entry[e] = "waiting"}
AwaitingApproval == {e \in Execs : status[e] = "pending_approval"}

\* The results a statement can have: TRUE if it is executed.
Results == IF "db" \in Faults THEN BOOLEAN ELSE {TRUE}

----
(***************************************************************************)
(* trigger_hook, from the id it generates for a request that has passed    *)
(* every earlier check, through concurrency::evaluate, to the spawn.       *)
(***************************************************************************)
FirstStatement == IF Mode = "none" THEN "create" ELSE "acquire"

Trigger(p) ==
  /\ At(p, "idle")
  /\ p \in Workers
  /\ \E e \in Execs :
       /\ Fresh(e)
       /\ worker' = [worker EXCEPT ![p] =
            [Resting EXCEPT !.pc = FirstStatement, !.exec = e, !.request = TRUE]]
  /\ UNCHANGED <<execution, lock, queue, rows, external>>

\* Faulty: INSERT OR REPLACE.
ReplacesHolder(p) ==
  /\ At(p, "acquire")
  /\ lock' = Exec(p)
  /\ Goto(p, "create")
  /\ UNCHANGED <<execution, queue, rows, external>>

\* try_acquire: INSERT OR IGNORE of the hook's row.  A mutex turns away what
\* finds the row taken (503); a queue looks for room.
TryAcquire(p) ==
  /\ At(p, "acquire")
  /\ \/ /\ lock = None
        /\ lock' = Exec(p)
        /\ Goto(p, "create")
     \/ /\ lock # None
        /\ Goto(p, IF Mode = "queue" THEN "count" ELSE "idle")
        /\ UNCHANGED lock
  /\ UNCHANGED <<execution, queue, rows, external>>

\* The depth counts what waits, not what runs.
HasRoom == Cardinality(Waiting) < QueueDepth

\* count_waiting, and the queue-full rejection.
CountWaiting(p) ==
  /\ At(p, "count")
  /\ Goto(p, IF HasRoom THEN "create_queued" ELSE "idle")
  /\ UNCHANGED <<execution, lock, queue, rows, external>>

Insert(e, s) == status' = [status EXCEPT ![e] = s]

\* The record of a deferred execution, which the queue row refers to.
CreateQueued(p) ==
  /\ At(p, "create_queued")
  /\ Insert(Exec(p), "pending")
  /\ Goto(p, "enqueue")
  /\ UNCHANGED <<approvedAt, replays, lock, queue, rows, external>>

\* n = COALESCE(MAX(position), 0) + 1 over all the hook's rows.
NextPosition(n) ==
  \E last \in Execs :
    /\ \A e \in Execs : position[e] <= position[last]
    /\ n = position[last] + 1

\* enqueue, one INSERT ... SELECT.  If only its read-back fails the row is
\* there and the caller, told of a rejection, is gone either way.
Enqueue(p) ==
  /\ At(p, "enqueue")
  /\ \E n \in {position[e] + 1 : e \in Execs} :
       /\ NextPosition(n)
       /\ position' = [position EXCEPT ![Exec(p)] = n]
  /\ entry' = [entry EXCEPT ![Exec(p)] = "waiting"]
  /\ Goto(p, "idle")
  /\ UNCHANGED <<execution, lock, rows, external>>

\* The record of an execution that may proceed: an operator is asked first if
\* the hook requires approval, and the handler is done; else it goes on to
\* log the attempt and to spawn the run.
Create(p) ==
  /\ At(p, "create")
  /\ IF ApprovalRequired
     THEN Insert(Exec(p), "pending_approval") /\ Goto(p, "idle")
     ELSE Insert(Exec(p), "pending") /\ Goto(p, "spawn")
  /\ UNCHANGED <<approvedAt, replays, lock, queue, rows, external>>

\* The handler logs the attempt, spawns the run and answers its client.
Spawn(p) ==
  /\ At(p, "spawn")
  /\ worker' = [worker EXCEPT ![p] = Running(Exec(p))]
  /\ UNCHANGED <<execution, lock, queue, rows, external>>

\* replay_execution: a new record linked to the original and a run of it,
\* past the lock, the queue and the approval.
Replay(p) ==
  /\ At(p, "idle")
  /\ p \in Workers
  /\ \E original, e \in Execs :
       /\ status[original] # "absent"
       /\ Fresh(e)
       /\ Insert(e, "pending")
       /\ replays' = replays \cup {e}
       /\ worker' = [worker EXCEPT ![p] =
            [Running(e) EXCEPT !.pc = "spawn", !.request = TRUE]]
  /\ UNCHANGED <<approvedAt, lock, queue, rows, external>>

----
(***************************************************************************)
(* run_with_retries around one executor call: mark_running, the command,   *)
(* mark_completed.  The executors (shell, script, http) share this shape.  *)
(***************************************************************************)
\* Where on_execution_complete starts: a queue looks for the next execution.
Completion == IF Mode = "queue" THEN "peek" ELSE "release"

\* Faulty: a failed run keeps the lock.
AfterSuccessOnly(p) ==
  IF worker[p].outcome = "success" THEN Completion ELSE "idle"

\* Faulty: a replay passes on a lock it never had.
PassedOnByReplays(p) == IF Mode = "none" THEN "idle" ELSE Completion

\* Once the run has ended and been notified of.  A replay, and a hook without
\* concurrency, have no lock to pass on.
AfterRun(p) ==
  IF Exec(p) \in replays \/ Mode = "none" THEN "idle" ELSE Completion

\* mark_running, which only moves a pending row.  Otherwise the executor
\* reports a failure without an exit code, which ends the run.
MarkRunning(p) ==
  LET e == Exec(p)
  IN /\ At(p, "start")
     /\ IF status[e] = "pending"
        THEN /\ status' = [status EXCEPT ![e] = "running"]
             /\ Goto(p, "executing")
        ELSE /\ Goto(p, AfterRun(p))
             /\ UNCHANGED status
     /\ UNCHANGED <<approvedAt, replays, lock, queue, rows, external>>

\* prepare_log_files fails: a failure without an exit code, and no statement.
LogsFail(p) ==
  /\ "logs" \in Faults
  /\ At(p, "start")
  /\ Goto(p, AfterRun(p))
  /\ UNCHANGED <<execution, lock, queue, rows, external>>

\* The command ends, or the timeout kills it.
CommandEnds(p) ==
  /\ At(p, "executing")
  /\ \E o \in Outcomes :
       worker' = [worker EXCEPT ![p].pc = "complete", ![p].outcome = o]
  /\ UNCHANGED <<execution, lock, queue, rows, external>>

\* Faulty: retries what timed out or could not start; retries once too often.
RetriesAnyOutcome(p) == worker[p].attempt < MaxRetries
RetriesOnceMore(p) ==
  worker[p].outcome = "exit_code" /\ worker[p].attempt <= MaxRetries

\* The retry loop's condition: a non-zero exit code, and attempts left.
Retries(p) ==
  worker[p].outcome = "exit_code" /\ worker[p].attempt < MaxRetries

AfterAttempt(p) == IF Retries(p) THEN "retry" ELSE AfterRun(p)

\* mark_completed, which only moves a running row; its result is logged.
MarkCompleted(p) ==
  LET e == Exec(p)
  IN /\ At(p, "complete")
     /\ status' = [status EXCEPT ![e] =
          IF @ = "running" THEN StatusOf(worker[p].outcome) ELSE @]
     /\ Goto(p, AfterAttempt(p))
     /\ UNCHANGED <<approvedAt, replays, lock, queue, rows, external>>

\* After the backoff, reset_to_pending, whatever the status is by then.
ResetToPending(p) ==
  /\ At(p, "retry")
  /\ status' = [status EXCEPT ![Exec(p)] = "pending"]
  /\ worker' = [worker EXCEPT ![p].pc = "start", ![p].attempt = @ + 1,
                              ![p].outcome = "none"]
  /\ UNCHANGED <<approvedAt, replays, lock, queue, rows, external>>

----
(***************************************************************************)
(* on_execution_complete, called by a run that has ended, by a rejection   *)
(* and by the sweep.                                                       *)
(***************************************************************************)
\* release deletes the hook's row, whoever holds it.
Release(p) ==
  /\ At(p, "release")
  /\ lock' = None
  /\ Goto(p, "idle")
  /\ UNCHANGED <<execution, queue, rows, external>>

\* Faulty: last in, first out.
LastInLine(e) == e \in Waiting /\ \A f \in Waiting : position[f] <= position[e]

\* The waiting row with the lowest position.
NextInLine(e) == e \in Waiting /\ \A f \in Waiting : position[e] <= position[f]

\* peek_next; the lock is released, by a later statement, if nobody waits.
Peek(p) ==
  /\ At(p, "peek")
  /\ \/ \E e \in Execs :
          /\ NextInLine(e)
          /\ worker' = [worker EXCEPT ![p].pc = "hand_off", ![p].next = e]
     \/ Waiting = {} /\ Goto(p, "release")
  /\ UNCHANGED <<execution, lock, queue, rows, external>>

\* Faulty: a release, and the dequeued execution starts without the lock.
HolderReleased(e) == None

\* hand_off updates the hook's row, if there is one.
HolderAfterHandOff(e) == IF lock = None THEN None ELSE e

HandOff(p) ==
  /\ At(p, "hand_off")
  /\ lock' = HolderAfterHandOff(worker[p].next)
  /\ Goto(p, "mark_ready")
  /\ UNCHANGED <<execution, queue, rows, external>>

\* spawn_dequeued_task.  The caller has nothing left to do, and its worker
\* stands for the new task.  (The sweep never gets here: its hooks require
\* approval.)
SpawnDequeued(p) ==
  worker' = [worker EXCEPT ![p] = [Running(worker[p].next) EXCEPT !.pc = "fetch"]]

\* Faulty: never asks; never spawns.
SpawnsUnasked(p) == SpawnDequeued(p)
ForgetsToSpawn(p) == Goto(p, IF ApprovalRequired THEN "ask_approval" ELSE "idle")

\* The dequeued execution is run, or an operator is asked first.
AfterMarkReady(p) ==
  IF ApprovalRequired THEN Goto(p, "ask_approval") ELSE SpawnDequeued(p)

\* mark_ready, whose result is ignored.
MarkReady(p) ==
  LET e == worker[p].next
  IN /\ At(p, "mark_ready")
     /\ \E done \in Results :
          entry' = [entry EXCEPT ![e] = IF done /\ @ = "waiting" THEN "ready" ELSE @]
     /\ AfterMarkReady(p)
     /\ UNCHANGED <<execution, lock, position, rows, external>>

\* mark_pending_approval, which only moves a pending row.
AskApproval(p) ==
  LET e == worker[p].next
  IN /\ At(p, "ask_approval")
     /\ status' = [status EXCEPT ![e] = IF @ = "pending" THEN "pending_approval" ELSE @]
     /\ Goto(p, "idle")
     /\ UNCHANGED <<approvedAt, replays, lock, queue, rows, external>>

\* run_dequeued: get_by_id, then the run.
FetchDequeued(p) ==
  /\ At(p, "fetch")
  /\ Goto(p, "start")
  /\ UNCHANGED <<execution, lock, queue, rows, external>>

----
(***************************************************************************)
(* The operator's decisions, and the sweep that expires what nobody has    *)
(* decided.                                                                *)
(***************************************************************************)
\* mark_approved.  A decision on anything but a pending approval is a
\* conflict and changes nothing.
Approve(p) ==
  /\ At(p, "idle")
  /\ p \in Workers
  /\ \E e \in AwaitingApproval :
       /\ status' = [status EXCEPT ![e] = "approved"]
       /\ approvedAt' = approvedAt \cup {e}
       /\ worker' = [worker EXCEPT ![p] =
            [Resting EXCEPT !.pc = "unapprove", !.exec = e, !.request = TRUE]]
  /\ UNCHANGED <<replays, lock, queue, rows, external>>

\* approved -> pending, and the spawn of the run, without an await between.
Unapprove(p) ==
  LET e == Exec(p)
  IN /\ At(p, "unapprove")
     /\ status' = [status EXCEPT ![e] = IF @ = "approved" THEN "pending" ELSE @]
     /\ worker' = [worker EXCEPT ![p] = Running(e)]
     /\ UNCHANGED <<approvedAt, replays, lock, queue, rows, external>>

\* mark_rejected, which writes approved_at too.
Reject(p) ==
  /\ At(p, "idle")
  /\ p \in Workers
  /\ \E e \in AwaitingApproval :
       /\ status' = [status EXCEPT ![e] = "rejected"]
       /\ approvedAt' = approvedAt \cup {e}
       /\ worker' = [worker EXCEPT ![p] =
            [Resting EXCEPT !.pc = "expire_entry", !.exec = e, !.request = TRUE]]
  /\ UNCHANGED <<replays, lock, queue, rows, external>>

\* The sweep's SELECT: whichever pending approvals are older than the timeout.
Sweep ==
  /\ At(Sweeper, "idle")
  /\ ApprovalRequired /\ ApprovalTimeout
  /\ rows' \in SUBSET AwaitingApproval \ {{}}
  /\ worker' = [worker EXCEPT ![Sweeper] = Rest(Sweeper)]
  /\ UNCHANGED <<execution, lock, queue, external>>

\* mark_expired of the next row: moves a pending approval only, and succeeds
\* whether or not it did.
MarkExpired ==
  /\ At(Sweeper, "rows")
  /\ \E e \in rows :
       /\ status' = [status EXCEPT ![e] = IF @ = "pending_approval" THEN "expired" ELSE @]
       /\ rows' = rows \ {e}
       /\ worker' = [worker EXCEPT ![Sweeper].pc = "expire_entry", ![Sweeper].exec = e]
  /\ UNCHANGED <<approvedAt, replays, lock, queue, external>>

\* Faulty: the sweep returns after its first rows instead of ticking on.
SweepsOnce == At(Sweeper, "rows") /\ rows = {} /\ UNCHANGED vars

\* Every row is handled; the next tick selects again.
SweepEnds ==
  /\ At(Sweeper, "rows")
  /\ rows = {}
  /\ worker' = [worker EXCEPT ![Sweeper] = Resting]
  /\ UNCHANGED <<execution, lock, queue, rows, external>>

\* expire_for_execution, after a rejection or an expiry.
ExpireEntry(p) ==
  /\ At(p, "expire_entry")
  /\ entry' = [entry EXCEPT ![Exec(p)] = IF @ = "waiting" THEN "expired" ELSE @]
  /\ Goto(p, "check_holder")
  /\ UNCHANGED <<execution, lock, position, rows, external>>

\* Faulty: the undone execution keeps the lock.
KeepsTheLock(p) ==
  /\ At(p, "check_holder")
  /\ Goto(p, "idle")
  /\ UNCHANGED <<execution, lock, queue, rows, external>>

\* get_holder: the lock is passed on if the undone execution holds it.
CheckHolder(p) ==
  /\ At(p, "check_holder")
  /\ Goto(p, IF lock = Exec(p) THEN Completion ELSE "idle")
  /\ UNCHANGED <<execution, lock, queue, rows, external>>

----
(***************************************************************************)
(* Failures.                                                               *)
(***************************************************************************)
\* Where a task goes on when its statement returns an error.
OnError(p) ==
  CASE worker[p].pc \in {"start", "retry"} -> AfterRun(p)
    [] worker[p].pc = "complete" -> AfterAttempt(p)
    [] worker[p].pc \in {"fetch", "peek"} -> "release"
    [] worker[p].pc = "expire_entry" -> "check_holder"
    [] OTHER -> "idle"

\* A statement of p fails.  mark_ready's failure is part of MarkReady, and the
\* sweep drops the row whose mark_expired fails.
StatementFails(p) ==
  /\ "db" \in Faults
  /\ worker[p].pc \notin {"idle", "rows", "spawn", "executing", "mark_ready"}
  /\ IF At(p, "unapprove")
     THEN worker' = [worker EXCEPT ![p] = Running(Exec(p))]
     ELSE Goto(p, OnError(p))
  /\ UNCHANGED <<execution, lock, queue, rows, external>>

RowFails ==
  /\ "expiry" \in Faults
  /\ At(Sweeper, "rows")
  /\ \E e \in rows : rows' = rows \ {e}
  /\ UNCHANGED <<execution, lock, queue, worker, external>>

\* The client disconnects, and the server drops the handler at its await.
Disconnect(p) ==
  /\ "disconnect" \in Faults
  /\ worker[p].request
  /\ worker' = [worker EXCEPT ![p] = Resting]
  /\ UNCHANGED <<execution, lock, queue, rows, external>>

Executing(p) == At(p, "executing")

\* recover_barriers fails what was running,
StatusAfterRestart ==
  [e \in Execs |-> IF status[e] = "running" THEN "failed" ELSE status[e]]

\* Faulty: the locks are cleaned before the running executions are failed.
FinishedBeforeRestart == {e \in Execs : status[e] \in Terminal}

\* and then cleans up after the executions that are finished by now.
FinishedByRestart == {e \in Execs : StatusAfterRestart[e] \in Terminal}

\* The server stops at any point and starts again, running recover_barriers
\* before it serves: what was running has failed, a lock held by a finished
\* execution is deleted, and finished executions stop waiting.
Restart ==
  /\ crashes < MaxCrashes
  /\ crashes' = crashes + 1
  /\ worker' = [p \in Tasks |-> Resting]
  /\ rows' = {}
  /\ status' = StatusAfterRestart
  /\ lock' = IF lock \in FinishedByRestart THEN None ELSE lock
  /\ entry' = [e \in Execs |->
       IF entry[e] = "waiting" /\ StatusAfterRestart[e] \in {"rejected", "expired", "failed"}
       THEN "expired" ELSE entry[e]]
  /\ UNCHANGED <<hook, approvedAt, replays, position>>

----
Init ==
  /\ hook \in Hooks
  /\ status = [e \in Execs |-> "absent"]
  /\ approvedAt = {}
  /\ replays = {}
  /\ lock = None
  /\ entry = [e \in Execs |-> "none"]
  /\ position = [e \in Execs |-> 0]
  /\ worker = [p \in Tasks |-> Resting]
  /\ rows = {}
  /\ crashes = 0

\* What a task does once it has begun.
Step(p) ==
  \/ TryAcquire(p) \/ CountWaiting(p) \/ CreateQueued(p) \/ Enqueue(p)
  \/ Create(p) \/ Spawn(p)
  \/ MarkRunning(p) \/ CommandEnds(p) \/ MarkCompleted(p) \/ ResetToPending(p)
  \/ Release(p) \/ Peek(p) \/ HandOff(p) \/ MarkReady(p) \/ AskApproval(p)
  \/ FetchDequeued(p)
  \/ Unapprove(p) \/ ExpireEntry(p) \/ CheckHolder(p)

SweepStep == MarkExpired \/ SweepEnds

\* What clients and operators may do.
Request(p) == Trigger(p) \/ Replay(p) \/ Approve(p) \/ Reject(p)

Failure(p) == LogsFail(p) \/ StatementFails(p) \/ Disconnect(p)

Next ==
  \/ \E p \in Tasks : Step(p) \/ Request(p) \/ Failure(p)
  \/ Sweep \/ SweepStep
  \/ RowFails \/ Restart

Spec == Init /\ [][Next]_vars

----
(***************************************************************************)
(* Fairness.  The runtime goes on polling every task, and the sweep's      *)
(* interval keeps ticking until a pending approval is old enough.  A       *)
(* command ends or is killed by its timeout.  A row the sweep comes to     *)
(* again and again does not fail every time.  Nothing makes a client call  *)
(* or an operator decide.                                                  *)
(***************************************************************************)
SweepOfAll == Sweep /\ rows' = AwaitingApproval
ExpiryOf(e) == MarkExpired /\ Exec(Sweeper)' = e

Fairness ==
  /\ \A p \in Tasks : WF_vars(Step(p))
  /\ WF_vars(SweepStep)
  /\ WF_vars(SweepOfAll)

FairSpec == Spec /\ Fairness

\* For an instance where the sweep's mark_expired may fail.
FairSweepSpec == FairSpec /\ \A e \in Execs : SF_vars(ExpiryOf(e))

----
(***************************************************************************)
(* Properties.                                                             *)
(***************************************************************************)
\* The type invariant.
TypeOK ==
  /\ hook \in Hooks
  /\ status \in [Execs -> Statuses]
  /\ approvedAt \in SUBSET Execs
  /\ replays \in SUBSET Execs
  /\ lock \in Execs \cup {None}
  /\ entry \in [Execs -> {"none", "waiting", "ready", "expired"}]
  /\ position \in [Execs -> Nat]
  /\ worker \in [Tasks -> WorkerStates]
  /\ rows \in SUBSET Execs
  /\ crashes \in 0..MaxCrashes

\* What a busy task works on exists, and it only resets an execution it may
\* retry once more: what makes TypeOK inductive.
TaskOK(s) ==
  /\ s.pc \notin {"idle", "rows"} => s.exec \in Execs
  /\ s.pc \in {"hand_off", "mark_ready", "ask_approval"} => s.next \in Execs
  /\ s.pc = "retry" => s.attempt < MaxRetries

TasksOK == \A p \in Tasks : TaskOK(worker[p])

\* A task that answers for the hook's lock: from its acquisition, or from the
\* decision on an execution that holds it, to its release or hand-off.
Holds(p) ==
  /\ worker[p].pc \in
       {"create", "spawn"} \cup DecisionPCs \cup RunPCs \cup CompletionPCs
  /\ Mode # "none"
  /\ Exec(p) \notin replays

\* The execution it answers for.
Held(p) ==
  IF worker[p].pc \in {"mark_ready", "ask_approval"} THEN worker[p].next ELSE Exec(p)

\* Mutual exclusion: no two tasks of this server execute commands of a hook
\* with concurrency at the same time, replays aside (try_acquire, hand_off,
\* release; README.md:368 "only one execution at a time").
MutualExclusion ==
  \A p, q \in Tasks :
    /\ Executing(p) /\ Holds(p)
    /\ Executing(q) /\ Holds(q)
    => p = q

\* The lock row names the execution a task works for, from the acquisition
\* through every retry, approval and hand-off to the release.  release and
\* hand_off never check the holder: they rely on this.
LockNamesItsTask == \A p \in Tasks : Holds(p) => lock = Held(p)

\* A pending approval holds the hook, with no task at work on it, so nothing
\* starts while an operator thinks (Create and mark_pending_approval keep the
\* lock; the m5 design, "Lock is held while awaiting approval").
ApprovalHoldsTheHook ==
  Mode # "none" =>
    \A e \in AwaitingApproval : lock = e /\ \A p \in Tasks : ~Holds(p)

\* The lock is never left behind: it belongs to a task that will pass it on,
\* or to an execution an operator will decide on.
LockAccountedFor ==
  lock # None =>
    \/ lock \in AwaitingApproval
    \/ \E p \in Tasks : Holds(p) /\ Held(p) = lock

\* No finished execution keeps the hook: whatever crashes cut short, the lock is
\* with a task, or free, or the one who has it could still run (run's
\* completion, recover_barriers).
FinishedExecutionsLetGo ==
  lock # None /\ status[lock] \in Terminal =>
    \E p \in Tasks : Holds(p) /\ Held(p) = lock

\* The queue is first in, first out: an execution leaves it only when nobody
\* who enqueued before is still waiting (enqueue's positions, peek_next).
DequeuedInOrder ==
  [][\A e, f \in Execs :
       /\ entry[e] = "waiting" /\ entry'[e] = "ready"
       /\ entry[f] = "waiting" /\ entry'[f] = "waiting"
       => position[e] < position[f]]_vars

\* The status column only moves as ExecutionLifecycle says: decisions and
\* results are final, and only a failed attempt is repeated.
FollowsLifecycle == Life!LifecycleSpec

\* An execution of a hook that requires approval runs only after a decision.
ClearedBeforeRun ==
  \A e \in Execs : status[e] = "running" => Life!Cleared(e)

\* Every holder gives the lock up, or an operator is to decide on it: each path
\* through the run, its retries and the completion ends in a release or a
\* hand-off.
LockIsPassedOn ==
  \A e \in Execs : lock = e ~> lock # e \/ status[e] = "pending_approval"

\* Every dequeued execution comes to an end, or up to an operator.
DequeuedComesToAnEnd ==
  \A e \in Execs :
    entry[e] = "ready" ~> status[e] \in Terminal \cup {"pending_approval"}

\* With a timeout no approval stays open for ever, whatever operators do and
\* although the sweep drops a row that fails: its next SELECT finds it again.
ApprovalsAreClosed ==
  \A e \in Execs : status[e] = "pending_approval" ~> status[e] # "pending_approval"

----
(***************************************************************************)
(* The inductive invariant behind mutual exclusion, for a hook whose       *)
(* approvals do not expire.                                                *)
(***************************************************************************)
\* At most one task answers for the lock.
SoleHolder == \A p, q \in Tasks : Holds(p) /\ Holds(q) => p = q

\* Replays have records, neither queue nor await a decision, and no task that
\* touches the lock works for one.
ReplaysPassBy ==
  /\ \A e \in Execs :
       /\ status[e] = "absent" => e \notin replays /\ entry[e] = "none"
       /\ entry[e] = "waiting" \/ status[e] = "pending_approval" => e \notin replays
  /\ \A p \in Tasks :
       /\ worker[p].pc \in (TriggerPCs \ {"spawn"}) \cup DecisionPCs \cup CompletionPCs
            => Exec(p) \notin replays
       /\ At(p, "enqueue") => status[Exec(p)] # "absent"
       /\ worker[p].pc \in {"hand_off", "mark_ready", "ask_approval"} =>
            worker[p].next \notin replays /\ status[worker[p].next] # "absent"

\* The sweep never starts.
NoSweep == rows = {} /\ worker[Sweeper] = Resting

LockInvariant ==
  /\ NoSweep
  /\ ReplaysPassBy
  /\ SoleHolder
  /\ LockNamesItsTask
  /\ ApprovalHoldsTheHook

\* The invariant behind ClearedBeforeRun: whoever is about to run a command
\* has the decision already.
ClearedInvariant ==
  /\ ClearedBeforeRun
  /\ \A p \in Tasks :
       /\ worker[p].pc \in RunPCs \cup {"spawn", "unapprove"} => Life!Cleared(Exec(p))
       /\ At(p, "fetch") => ~ApprovalRequired

\* The statements before an execution has a row, and those of its run that
\* change the row's status out of running or failed: one task's at a time.
BeforeRecordPCs == TriggerPCs \ {"enqueue", "spawn"}
OwnerPCs == BeforeRecordPCs \cup {"executing", "complete", "retry"}

\* What a task in state s knows of the rows' statuses st.
Knows(s, st) ==
  /\ s.exec \in Execs => (s.pc \in BeforeRecordPCs <=> st[s.exec] = "absent")
  /\ s.pc \in {"executing", "complete"} => st[s.exec] = "running"
  /\ s.pc = "retry" => st[s.exec] = "failed"
  /\ s.pc \in {"hand_off", "mark_ready", "ask_approval"} => st[s.next] # "absent"

\* The invariant behind FollowsLifecycle, while no statement fails: a task knows
\* the status it is about to change, no other task changes it under it, and
\* only what is recorded is queued or swept.
LifecycleInvariant ==
  /\ \A p \in Tasks : Knows(worker[p], status)
  /\ \A p, q \in Tasks :
       p # q /\ worker[p].pc \in OwnerPCs /\ worker[q].pc \in OwnerPCs
         => Exec(p) # Exec(q)
  /\ \A e \in Execs : e \in rows \/ entry[e] = "waiting" => status[e] # "absent"

\* The statements from a new id to its place in the queue.
JoiningPCs == {"acquire", "count", "create_queued", "enqueue"}

\* An id on its way into the queue is nobody else's, and has no row there.
JoinsAlone(p) ==
  worker[p].pc \in JoiningPCs =>
    /\ entry[Exec(p)] = "none" /\ Exec(p) \notin rows
    /\ status[Exec(p)] = IF At(p, "enqueue") THEN "pending" ELSE "absent"
    /\ \A q \in Tasks \ {p} : Exec(q) # Exec(p)

\* What a task has peeked is in the queue, and first in it while it waits.
PeekedIsFirst(p) ==
  worker[p].pc \in {"hand_off", "mark_ready", "ask_approval"} =>
    /\ entry[worker[p].next] # "none"
    /\ entry[worker[p].next] = "waiting" /\ ~At(p, "ask_approval") =>
         \A e \in Waiting : position[worker[p].next] <= position[e]

\* The invariant behind DequeuedInOrder.
QueueInvariant ==
  /\ \A p \in Tasks : JoinsAlone(p) /\ PeekedIsFirst(p)
  /\ \A e \in Execs : entry[e] # "none" \/ e \in rows => status[e] # "absent"
  /\ \A e, f \in Execs :
       e # f /\ entry[e] # "none" /\ entry[f] # "none" => position[e] # position[f]

\* The lock is with a task or an operator.
LockIsTended == lock \in AwaitingApproval \/ \E p \in Tasks : Holds(p)

\* Or a crash has left it to an execution that nobody works on any more, and
\* that nobody will finish.
LockIsOrphaned ==
  /\ crashes > 0
  /\ status[lock] \in {"absent", "pending", "approved"}
  /\ \A p \in Tasks : Exec(p) # lock

\* A task has the lock only where there is one, does not join the queue with it,
\* and dequeues what waits, or what an operator can still be asked about.
HandsOver(p) ==
  /\ worker[p].pc \in {"acquire"} \cup CompletionPCs => Mode # "none"
  /\ worker[p].pc \in JoiningPCs => Exec(p) # lock
  /\ worker[p].pc \in {"hand_off", "mark_ready"} => worker[p].next \in Waiting
  /\ At(p, "ask_approval") =>
       /\ worker[p].next \notin Waiting
       /\ status[worker[p].next] = "pending"
       /\ \A q \in Tasks : Exec(q) # worker[p].next

\* The invariant behind LockAccountedFor and FinishedExecutionsLetGo, while no
\* statement fails and no client goes away: with QueueInvariant and
\* LockInvariant it says who has the lock, and that what waits has its record
\* and no task.
CustodyInvariant ==
  /\ lock # None => Mode # "none" /\ lock \notin replays /\ (LockIsTended \/ LockIsOrphaned)
  /\ \A e \in Waiting : status[e] = "pending" /\ \A p \in Tasks : Exec(p) # e
  /\ \A p \in Tasks : HandsOver(p)

=============================================================================
