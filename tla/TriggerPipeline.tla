--------------------------- MODULE TriggerPipeline ---------------------------
(***************************************************************************)
(* The way of a webhook request through trigger_hook (routes/hooks.rs):    *)
(* authentication, schema, filters, time windows, cooldown, rate limit,    *)
(* concurrency, approval, the record, the attempt log, and the task that   *)
(* runs the command, retries it, notifies and gives the hook's lock up.    *)
(* Requests of one hook are handled concurrently while the hook's settings *)
(* are edited: a handler works with the settings it loaded first.          *)
(*                                                                         *)
(* ExecutionBarriers splits the barriers into their statements and         *)
(* RateLimits the rate limit into its own; here each is one step, and what *)
(* is examined is how the checks compose.  Between two awaits a handler    *)
(* runs undisturbed, so one action is one database access and what the     *)
(* handler does up to the next.  Approvals are decided elsewhere.          *)
(*                                                                         *)
(* A definition whose comment begins with "Faulty:" is a mistake this code *)
(* could have made, kept to see that the properties notice it.             *)
(***************************************************************************)
EXTENDS Integers, FiniteSets

CONSTANTS
  Requests,     \* webhook requests; a request's id is its execution's too
  None,         \* no execution, no time
  Payloads,     \* JSON values a body may hold
  EmptyObject,  \* the value {}
  Settings,     \* the settings the hook may have
  Minute,       \* the window of max_per_minute
  MaxRetries,   \* the effective retry count
  Fails,        \* whether statements fail and clients go away
  MaxEdits,     \* bound on edits
  MaxTime       \* bound on the clock

Times == 0..MaxTime

NoSchema == {}  \* no payload section: any body will do

\* The settings that matter here.  Times are counted in seconds.
HookSettings == [
  hook        : {"enabled", "disabled", "absent"},
  auth        : BOOLEAN,                      \* whether a token is asked for
  schema      : SUBSET Payloads,              \* what the schema accepts
  filters     : SUBSET Payloads,              \* what the filters let through
  windows     : SUBSET Times,                 \* when the hook is open
  cooldown    : Nat,                          \* 0: none
  ruleRate    : Nat,                          \* max_requests, 0: no rule
  ruleWindow  : Nat \ {0},                    \* its window
  perMinute   : Nat,                          \* max_per_minute, 0: unlimited
  concurrency : {"none", "mutex", "queue"},
  depth       : Nat \ {0},                    \* queue_depth
  approval    : BOOLEAN,
  notifies    : SUBSET {"success", "failed", "timed_out"}]

ASSUME PipelineConstants ==
  /\ IsFiniteSet(Requests)
  /\ None \notin Requests /\ None \notin Times
  /\ EmptyObject \in Payloads
  /\ Settings \subseteq HookSettings /\ Settings # {}
  /\ Minute \in Nat \ {0}
  /\ MaxRetries \in Nat /\ MaxEdits \in Nat /\ MaxTime \in Nat
  /\ Fails \in BOOLEAN

VARIABLES
  now,       \* the wall clock
  settings,  \* the hook's live settings
  edits,     \* edits so far
  request,   \* the handler of each request
  run,       \* the task that runs each execution
  record,    \* executions.status
  started,   \* executions.started_at
  lock,      \* the hook's row of execution_locks
  waiting,   \* the executions waiting in execution_queue
  count,     \* rate_limit_counters.count of each window start
  attempts,  \* trigger_attempts
  notified   \* the executions a notification was sent for

vars == <<now, settings, edits, request, run, record, started, lock, waiting,
          count, attempts, notified>>

Rejections == {"not_found", "unauthorized", "bad_request", "unprocessable",
               "filtered", "schedule_skipped", "cooldown_skipped",
               "rate_limited", "concurrency_rejected"}
Answers == Rejections \cup {"queued", "pending_approval", "fired", "error"}

HandlerPCs == {"new", "cooldown", "rate", "lock", "create", "log", "answered", "dropped"}

RequestStates == [
  pc      : HandlerPCs,
  conf    : Settings,                   \* what the handler loaded
  checked : Times \cup {None},          \* the clock the cooldown passed at
  counted : Times \cup {None},          \* the window it was counted in
  answer  : Answers \cup {"none"}]

\* How a command ended: "no_exit_code" if it was not started or was killed by
\* a signal.
Outcomes == {"success", "failed", "no_exit_code", "timed_out"}
StatusOf(o) == IF o = "no_exit_code" THEN "failed" ELSE o

RunPCs == {"none", "begin", "executing", "retry", "notify", "complete", "ended"}

RunStates == [
  pc       : RunPCs,
  conf     : Settings,       \* whose concurrency and approval it completes with
  notifies : SUBSET {"success", "failed", "timed_out"},
  retries  : 0..MaxRetries,
  outcome  : Outcomes \cup {"none"}]

At(r, l) == request[r].pc = l
Conf(r) == request[r].conf
RunAt(r, l) == run[r].pc = l
Results == IF Fails THEN BOOLEAN ELSE {TRUE}

\* The handler of r goes on with check l, or ends with answer a.
Goto(r, l) == request' = [request EXCEPT ![r].pc = l]
Conclude(r, a) == request' = [request EXCEPT ![r].pc = "log", ![r].answer = a]

----
(***************************************************************************)
(* Without the database: settings, authentication, body, filters, windows. *)
(***************************************************************************)
Bodies == Payloads \cup {"empty", "not_json"}

\* What the rules see of a body: {} stands for one that is not JSON.
RuleValue(b) == IF b \in Payloads THEN b ELSE EmptyObject

\* Faulty: max_per_minute wins where both are set.
PerMinuteWins(c) ==
  IF c.perMinute > 0 THEN [max |-> c.perMinute, window |-> Minute]
                     ELSE [max |-> c.ruleRate, window |-> c.ruleWindow]

\* max_per_minute counts only where trigger_rules has no rate limit.
EffectiveRate(c) ==
  IF c.ruleRate > 0 THEN [max |-> c.ruleRate, window |-> c.ruleWindow]
                    ELSE [max |-> c.perMinute, window |-> Minute]

\* The first check to be done once those before it have passed.
AfterRate(c) == IF c.concurrency = "none" THEN "create" ELSE "lock"
AfterCooldown(c) == IF EffectiveRate(c).max > 0 THEN "rate" ELSE AfterRate(c)
AfterWindows(c) == IF c.cooldown > 0 THEN "cooldown" ELSE AfterCooldown(c)

\* Which check turns a request away before the database is asked.
Verdict(c, b, authentic) ==
  CASE c.hook # "enabled" -> "not_found"
    [] c.auth /\ ~authentic -> "unauthorized"
    [] c.schema # NoSchema /\ b = "not_json" -> "bad_request"
    [] c.schema # NoSchema /\ RuleValue(b) \notin c.schema -> "unprocessable"
    [] RuleValue(b) \notin c.filters -> "filtered"
    [] now \notin c.windows -> "schedule_skipped"
    [] OTHER -> "none"

\* A request arrives.  One for a hook that is not there is not logged.
Receive(r) ==
  /\ At(r, "new")
  /\ \E b \in Bodies, authentic \in BOOLEAN :
       LET v == Verdict(settings, b, authentic)
           pc == CASE v = "not_found" -> "answered"
                   [] v = "none" -> AfterWindows(settings)
                   [] OTHER -> "log"
       IN request' = [request EXCEPT ![r] =
            [pc |-> pc, conf |-> settings, counted |-> None, answer |-> v,
             checked |-> IF pc = "cooldown" THEN now ELSE None]]
  /\ UNCHANGED <<now, settings, edits, run, record, started, lock, waiting, count,
                 attempts, notified>>

----
(***************************************************************************)
(* Cooldown and rate limit.                                                *)
(***************************************************************************)
Started == {e \in Requests : started[e] # None}

\* The latest start of all the hook's executions.
LatestStart == CHOOSE t \in {started[e] : e \in Started} :
                 \A e \in Started : started[e] <= t

\* Faulty: looks only at what still runs.
TooSoonWhileRunning(r) ==
  \E e \in Started : /\ record[e] = "running"
                     /\ request[r].checked - started[e] < Conf(r).cooldown

TooSoon(r) ==
  Started # {} /\ request[r].checked - LatestStart < Conf(r).cooldown

\* cooldown::evaluate: the SELECT, judged by the clock as it was before it.
\* If it fails the request passes; it has then not been checked.
CheckCooldown(r) ==
  /\ At(r, "cooldown")
  /\ \/ /\ TooSoon(r)
        /\ request' = [request EXCEPT ![r].pc = "log", ![r].checked = None,
                                      ![r].answer = "cooldown_skipped"]
     \/ /\ ~TooSoon(r)
        /\ Goto(r, AfterCooldown(Conf(r)))
     \/ /\ FALSE \in Results
        /\ request' = [request EXCEPT ![r].pc = AfterCooldown(Conf(r)),
                                      ![r].checked = None]
  /\ UNCHANGED <<now, settings, edits, run, record, started, lock, waiting, count,
                 attempts, notified>>

\* rate_limit::evaluate: counted, turned away, or let through uncounted when
\* the statement fails.  RateLimits has its two statements.
CheckRate(r) ==
  /\ At(r, "rate")
  /\ LET rate == EffectiveRate(Conf(r))
         w == (now \div rate.window) * rate.window
     IN \/ /\ count[w] < rate.max
           /\ count' = [count EXCEPT ![w] = @ + 1]
           /\ request' = [request EXCEPT ![r].pc = AfterRate(Conf(r)),
                                         ![r].counted = w]
        \/ /\ count[w] >= rate.max
           /\ Conclude(r, "rate_limited")
           /\ UNCHANGED count
        \/ /\ FALSE \in Results
           /\ Goto(r, AfterRate(Conf(r)))
           /\ UNCHANGED count
  /\ UNCHANGED <<now, settings, edits, run, record, started, lock, waiting, attempts,
                 notified>>

----
(***************************************************************************)
(* Concurrency, approval, record, log.                                     *)
(***************************************************************************)
\* concurrency::evaluate: the lock is acquired; or the request is turned away,
\* by a mutex, a full queue or a failing statement; or its execution waits.
\* An execution that was created and could not be enqueued keeps its record.
CheckConcurrency(r) ==
  /\ At(r, "lock")
  /\ \/ /\ lock = None
        /\ lock' = r
        /\ Goto(r, "create")
        /\ UNCHANGED <<record, waiting>>
     \/ /\ \/ lock # None /\ Conf(r).concurrency = "mutex"
           \/ lock # None /\ Cardinality(waiting) >= Conf(r).depth
           \/ FALSE \in Results
        /\ Conclude(r, "concurrency_rejected")
        /\ UNCHANGED <<lock, record, waiting>>
     \/ /\ lock # None /\ Conf(r).concurrency = "queue"
        /\ Cardinality(waiting) < Conf(r).depth
        /\ \E enqueued \in Results :
             /\ waiting' = IF enqueued THEN waiting \cup {r} ELSE waiting
             /\ Conclude(r, IF enqueued THEN "queued" ELSE "concurrency_rejected")
        /\ record' = [record EXCEPT ![r] = "pending"]
        /\ UNCHANGED lock
  /\ UNCHANGED <<now, settings, edits, run, started, count, attempts, notified>>

\* Faulty: asks the live settings whether an operator must approve.
ApprovalAskedNow(r) == settings.approval

\* Whether the execution waits for an operator.
NeedsApproval(r) == Conf(r).approval

\* The execution's record is inserted.  If that fails the client is told so,
\* and the lock, if acquired, stays.
Create(r) ==
  /\ At(r, "create")
  /\ \/ /\ record' = [record EXCEPT ![r] = IF NeedsApproval(r) THEN "pending_approval"
                                                               ELSE "pending"]
        /\ Conclude(r, IF NeedsApproval(r) THEN "pending_approval" ELSE "fired")
     \/ /\ FALSE \in Results
        /\ request' = [request EXCEPT ![r].pc = "answered", ![r].answer = "error"]
        /\ UNCHANGED record
  /\ UNCHANGED <<now, settings, edits, run, started, lock, waiting, count, attempts,
                 notified>>

\* Faulty: a queued request is logged as if it had been turned away.
LoggedAsRejected(a) == IF a = "queued" THEN "concurrency_rejected" ELSE a

\* trigger_attempts.status for an answer, and whether the row names the
\* execution.
LoggedAs(a) == CASE a = "unauthorized" -> "auth_failed"
                 [] a \in {"bad_request", "unprocessable"} -> "validation_failed"
                 [] a = "queued" -> "fired"
                 [] OTHER -> a
Attempt(r, a) == [request |-> r, status |-> LoggedAs(a),
                  execution |-> IF a \in {"queued", "pending_approval", "fired"}
                                THEN r ELSE None]

\* A task about to run a command: settings c, and the notifications of d.
Task(c, d) == [pc |-> "begin", conf |-> c, notifies |-> d.notifies, retries |-> 0,
               outcome |-> "none"]

\* The attempt is logged, whatever comes of that, the run is spawned, and the
\* client is answered.
Log(r) ==
  /\ At(r, "log")
  /\ \E logged \in Results :
       attempts' = IF logged THEN attempts \cup {Attempt(r, request[r].answer)}
                             ELSE attempts
  /\ run' = IF request[r].answer = "fired" THEN [run EXCEPT ![r] = Task(Conf(r), Conf(r))]
                                           ELSE run
  /\ Goto(r, "answered")
  /\ UNCHANGED <<now, settings, edits, record, started, lock, waiting, count, notified>>

\* The client goes away and the handler is dropped at an await.
Drop(r) ==
  /\ Fails
  /\ request[r].pc \in {"cooldown", "rate", "lock", "create", "log"}
  /\ Goto(r, "dropped")
  /\ UNCHANGED <<now, settings, edits, run, record, started, lock, waiting, count,
                 attempts, notified>>

----
(***************************************************************************)
(* The run.                                                                *)
(***************************************************************************)
RunGoto(e, l, o) == run' = [run EXCEPT ![e].pc = l, ![e].outcome = o]

\* mark_running, or its failure, after which the command is not started.
Begin(e) ==
  /\ RunAt(e, "begin")
  /\ \/ /\ record' = [record EXCEPT ![e] = "running"]
        /\ started' = [started EXCEPT ![e] = now]
        /\ RunGoto(e, "executing", "none")
     \/ /\ FALSE \in Results
        /\ RunGoto(e, "notify", "no_exit_code")
        /\ UNCHANGED <<record, started>>
  /\ UNCHANGED <<now, settings, edits, request, lock, waiting, count, attempts, notified>>

\* Faulty: one retry too many.
RetriesOnceMore(e, o) == o = "failed" /\ run[e].retries <= MaxRetries

\* run_with_retries: only an exit code other than zero is worth a retry.
Retries(e, o) == o = "failed" /\ run[e].retries < MaxRetries

\* The command ends and its record is completed (ExecutionBarriers has the
\* statement's failure).
End(e) ==
  /\ RunAt(e, "executing")
  /\ \E o \in Outcomes :
       /\ record' = [record EXCEPT ![e] = StatusOf(o)]
       /\ RunGoto(e, IF Retries(e, o) THEN "retry" ELSE "notify", o)
  /\ UNCHANGED <<now, settings, edits, request, started, lock, waiting, count, attempts,
                 notified>>

\* The delay is over: the record is reset, its start forgotten, and the
\* command run again; or resetting fails, and that was the last attempt.
Retry(e) ==
  /\ RunAt(e, "retry")
  /\ \/ /\ record' = [record EXCEPT ![e] = "pending"]
        /\ started' = [started EXCEPT ![e] = None]
        /\ run' = [run EXCEPT ![e].pc = "begin", ![e].retries = @ + 1]
     \/ /\ FALSE \in Results
        /\ RunGoto(e, "notify", run[e].outcome)
        /\ UNCHANGED <<record, started>>
  /\ UNCHANGED <<now, settings, edits, request, lock, waiting, count, attempts, notified>>

\* Whether somebody wants to know.
Notifies(e) == StatusOf(run[e].outcome) \in run[e].notifies

\* A notification, if one is due, for as long as its timeout allows; the lock
\* is kept meanwhile.  The record may fail to be fetched.
Notify(e) ==
  /\ RunAt(e, "notify")
  /\ \E fetched \in Results :
       notified' = IF fetched /\ Notifies(e) THEN notified \cup {e} ELSE notified
  /\ RunGoto(e, "complete", run[e].outcome)
  /\ UNCHANGED <<now, settings, edits, request, record, started, lock, waiting, count,
                 attempts>>

\* Faulty: asks the live settings how to give the lock up.
CompletesAsLive(e) == settings

\* The settings a run completes with: those it was given.
CompletionConf(e) == run[e].conf

\* on_execution_complete, if the hook had a lock: it goes to an execution that
\* waits, which inherits these settings, runs under them unless the hook is no
\* longer there, and notifies as the live ones say; or it is released.  A run
\* that completes here needed no approval, and nor does the one that inherits.
Complete(e) ==
  /\ RunAt(e, "complete")
  /\ LET c == CompletionConf(e)
         done == [run EXCEPT ![e].pc = "ended"]
     IN \/ /\ c.concurrency = "none"
           /\ run' = done
           /\ UNCHANGED <<lock, waiting>>
        \/ /\ c.concurrency = "mutex" \/ (c.concurrency = "queue" /\ waiting = {})
           /\ lock' = None
           /\ run' = done
           /\ UNCHANGED waiting
        \/ /\ c.concurrency = "queue"
           /\ \E d \in waiting :
                /\ waiting' = waiting \ {d}
                /\ \/ /\ settings.hook # "absent"
                      /\ lock' = d
                      /\ run' = [done EXCEPT ![d] = Task(c, settings)]
                   \/ /\ settings.hook = "absent"
                      /\ lock' = None
                      /\ run' = done
  /\ UNCHANGED <<now, settings, edits, request, record, started, count, attempts,
                 notified>>

----
\* The hook is edited and the configuration reloaded.
Edit ==
  /\ edits < MaxEdits
  /\ \E c \in Settings \ {settings} : settings' = c
  /\ edits' = edits + 1
  /\ UNCHANGED <<now, request, run, record, started, lock, waiting, count, attempts,
                 notified>>

Tick ==
  /\ now < MaxTime
  /\ now' = now + 1
  /\ UNCHANGED <<settings, edits, request, run, record, started, lock, waiting, count,
                 attempts, notified>>

Init ==
  /\ now = 0
  /\ settings \in Settings
  /\ edits = 0
  /\ request = [r \in Requests |-> [pc |-> "new", conf |-> settings, checked |-> None,
                                    counted |-> None, answer |-> "none"]]
  /\ run = [r \in Requests |-> [Task(settings, settings) EXCEPT !.pc = "none"]]
  /\ record = [r \in Requests |-> "absent"]
  /\ started = [r \in Requests |-> None]
  /\ lock = None
  /\ waiting = {}
  /\ count = [w \in Times |-> 0]
  /\ attempts = {}
  /\ notified = {}

Handle(r) ==
  \/ Receive(r) \/ CheckCooldown(r) \/ CheckRate(r) \/ CheckConcurrency(r)
  \/ Create(r) \/ Log(r) \/ Drop(r)

Run(e) == Begin(e) \/ End(e) \/ Retry(e) \/ Notify(e) \/ Complete(e)

Next == (\E r \in Requests : Handle(r) \/ Run(r)) \/ Edit \/ Tick

Spec == Init /\ [][Next]_vars

----
\* The type invariant.
TypeOK ==
  /\ now \in Times /\ settings \in Settings /\ edits \in 0..MaxEdits
  /\ request \in [Requests -> RequestStates]
  /\ run \in [Requests -> RunStates]
  /\ record \in [Requests -> {"absent", "pending", "pending_approval", "running",
                              "success", "failed", "timed_out"}]
  /\ started \in [Requests -> Times \cup {None}]
  /\ lock \in Requests \cup {None}
  /\ waiting \in SUBSET Requests
  /\ count \in [Times -> Nat]
  /\ attempts \in SUBSET [request : Requests, execution : Requests \cup {None},
                          status : {LoggedAs(a) : a \in Answers}]
  /\ notified \in SUBSET Requests

\* A task runs or completes an execution.
Runs(e) == run[e].pc \notin {"none", "ended"}

\* A hook's guards are those of one and the same configuration from the
\* handler's first step to the run's last, although it is edited meanwhile:
\* who runs a command under settings with concurrency has the lock until he
\* gives it up, and nobody runs one under settings that ask for an approval
\* (trigger_hook's snapshot, on_execution_complete's arguments).
RunsAreGuarded ==
  \A e \in Requests : Runs(e) =>
    /\ run[e].conf.concurrency # "none" => lock = e
    /\ ~run[e].conf.approval

\* The lock is on its way to somebody who gives it up, whatever is edited
\* meanwhile, unless its handler died or failed between acquiring it and
\* spawning the run (trigger_hook, the spawned task's last call).
LockAccountedFor ==
  \A r \in Requests : lock = r =>
    \/ Runs(r)
    \/ request[r].pc \in {"create", "log", "dropped"}
    \/ record[r] = "pending_approval"
    \/ request[r].answer = "error"

\* The attempt log tells what became of a request: an attempt that fired or
\* waits for approval names its execution, which is there, and one that was
\* turned away has started nothing and never will (log_rejection and the
\* inserts of trigger_hook).
AttemptsTellTheTruth ==
  \A a \in attempts :
    IF a.status \in {"fired", "pending_approval"}
      THEN a.execution = a.request /\ record[a.request] # "absent"
      ELSE a.execution = None /\ ~Runs(a.request) /\ a.request \notin notified

\* A request passes the cooldown only if every command started before it
\* asked was started long enough before, however handlers interleave and
\* whatever is retried (cooldown::evaluate, get_latest_started_by_hook).
CooldownSeparates ==
  \A r, e \in Requests :
    /\ request[r].pc \notin {"cooldown", "dropped"}
    /\ request[r].checked # None /\ started[e] # None
    => \/ started[e] >= request[r].checked
       \/ request[r].checked - started[e] >= Conf(r).cooldown

\* The requests counted in window w that were judged by settings c.
CountedIn(w, c) == {r \in Requests : request[r].counted = w /\ Conf(r) = c}

\* The rule's limit holds where there is a rule, and max_per_minute where
\* there is none, although both, and settings that follow one another, share
\* the hook's counters (trigger_hook, hook_rate_limit_as_trigger).
LimitIsTheRules ==
  \A w \in Times, c \in Settings :
    Cardinality(CountedIn(w, c)) <= IF c.ruleRate > 0 THEN c.ruleRate ELSE c.perMinute
----
(***************************************************************************)
(* The inductive invariants behind these properties.                       *)
(***************************************************************************)
\* Who waits to retry has a retry left.
RetriesLeft == \A e \in Requests : RunAt(e, "retry") => run[e].retries < MaxRetries

\* The handler of r answers for the execution it is about to create, or has
\* created and not spawned yet.
InCharge(r) ==
  \/ At(r, "create")
  \/ At(r, "log") /\ request[r].answer \in {"fired", "pending_approval"}

\* How far a request has got, what became of its execution, and the lock.
HandlerInLine(r) ==
  /\ request[r].pc \in {"new", "cooldown", "rate", "lock", "create"} =>
       request[r].answer = "none"
  /\ At(r, "lock") => Conf(r).concurrency # "none"
  /\ InCharge(r) => (Conf(r).concurrency # "none" <=> lock = r)
  /\ At(r, "log") /\ request[r].answer = "fired" => ~Conf(r).approval
  /\ r \in waiting => request[r].answer = "queued"
  /\ r \in notified => run[r].pc # "none"
  /\ run[r].pc # "none" => \/ request[r].answer = "queued"
                           \/ request[r].answer = "fired" /\ At(r, "answered")
  /\ request[r].answer \in {"queued", "fired"} => record[r] # "absent"
  /\ request[r].answer = "pending_approval" => record[r] = "pending_approval"

\* A run has the lock exactly if its settings have concurrency.
RunInLine(e) ==
  Runs(e) => /\ run[e].conf.concurrency # "none" <=> lock = e
             /\ ~run[e].conf.approval

HolderInLine(r) ==
  lock = r => \/ Runs(r) \/ InCharge(r) \/ At(r, "dropped")
              \/ request[r].answer \in {"pending_approval", "error"}

InLine(r) == HandlerInLine(r) /\ RunInLine(r) /\ HolderInLine(r)

\* Only what has been answered is logged, as it was answered.
LogInLine ==
  \A a \in attempts : /\ At(a.request, "answered")
                      /\ a = Attempt(a.request, request[a.request].answer)

PipelineInvariant == (\A r \in Requests : InLine(r)) /\ LogInLine

\* Nobody has passed the cooldown by a clock that is ahead.
CooldownInvariant ==
  /\ CooldownSeparates
  /\ \A r \in Requests : request[r].checked # None => request[r].checked <= now

\* The requests counted in window w.
Counted(w) == {r \in Requests : request[r].counted = w}

\* A window's counter is the number of requests it has let through, under
\* whatever settings.
CountersInvariant ==
  /\ \A w \in Times : Cardinality(Counted(w)) = count[w]
  /\ \A r \in Requests :
       request[r].pc \in {"new", "cooldown", "rate"} => request[r].counted = None
  /\ LimitIsTheRules

=============================================================================
