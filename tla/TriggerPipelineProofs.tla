------------------------ MODULE TriggerPipelineProofs ------------------------
(***************************************************************************)
(* Theorems about TriggerPipeline, for any hook settings and payloads, any *)
(* number of requests, edits and retries, and any length of time.          *)
(***************************************************************************)
EXTENDS TriggerPipeline, FiniteSetTheorems, WellFoundedInduction, TLAPS

LEMMA SettingsAreTyped == ASSUME NEW c \in Settings PROVE c \in HookSettings
BY PipelineConstants

\* Which check comes next, and that the lock is asked for exactly by settings
\* with concurrency.
LEMMA NextCheck ==
  ASSUME NEW c \in Settings
  PROVE  /\ AfterRate(c) = IF c.concurrency = "none" THEN "create" ELSE "lock"
         /\ AfterCooldown(c) \in {"rate", AfterRate(c)}
         /\ AfterWindows(c) \in {"cooldown", "rate", AfterRate(c)}
BY DEF AfterRate, AfterCooldown, AfterWindows

\* The window of a rate limit begins at a time of the clock.
LEMMA WindowIsATime ==
  ASSUME NEW t \in Times, NEW c \in Settings
  PROVE  (t \div EffectiveRate(c).window) * EffectiveRate(c).window \in Times
<1> DEFINE d == EffectiveRate(c).window
<1>1. d \in Nat /\ d >= 1
  BY SettingsAreTyped, PipelineConstants DEF EffectiveRate, HookSettings
<1>2. t \in Nat /\ t <= MaxTime
  BY PipelineConstants DEF Times
<1> HIDE DEF d
<1>3. t = d * (t \div d) + (t % d) /\ t \div d \in Int /\ t % d \in 0..(d - 1)
  BY <1>1, <1>2, SMTT(30)
<1>4. t \div d \in Nat
  BY <1>1, <1>2, SMTT(30)
<1>5. (t \div d) * d \in Nat /\ (t \div d) * d <= t
  BY <1>1, <1>2, <1>3, <1>4, SMTT(30)
<1> QED
  BY <1>2, <1>5, PipelineConstants DEF d, Times

----
(***************************************************************************)
(* What a step does to the handler of a request and to a run.              *)
(***************************************************************************)
LEMMA StateTyped ==
  ASSUME TypeOK, NEW r \in Requests
  PROVE  request[r] \in RequestStates /\ run[r] \in RunStates
BY DEF TypeOK

LEMMA GotoIs ==
  ASSUME TypeOK, NEW r \in Requests, NEW l \in HandlerPCs, Goto(r, l)
  PROVE  LET s == [request[r] EXCEPT !.pc = l]
         IN s \in RequestStates /\ request' = [request EXCEPT ![r] = s]
<1>1. [request[r] EXCEPT !.pc = l] \in RequestStates
  BY StateTyped DEF RequestStates
<1> QED
  BY <1>1 DEF Goto

LEMMA ConcludeIs ==
  ASSUME TypeOK, NEW r \in Requests, NEW a \in Answers, Conclude(r, a)
  PROVE  LET s == [request[r] EXCEPT !.pc = "log", !.answer = a]
         IN s \in RequestStates /\ request' = [request EXCEPT ![r] = s]
<1>1. [request[r] EXCEPT !.pc = "log", !.answer = a] \in RequestStates
  BY StateTyped DEF RequestStates, HandlerPCs
<1> QED
  BY <1>1 DEF Conclude

LEMMA TaskTyped ==
  ASSUME NEW c \in Settings, NEW d \in Settings PROVE Task(c, d) \in RunStates
<1>1. d.notifies \in SUBSET {"success", "failed", "timed_out"}
  BY SettingsAreTyped DEF HookSettings
<1> QED
  BY <1>1, PipelineConstants DEF Task, RunStates, RunPCs

LEMMA RequestUpdated ==
  ASSUME TypeOK, NEW r \in Requests, NEW s \in RequestStates,
         request' = [request EXCEPT ![r] = s]
  PROVE  /\ request' \in [Requests -> RequestStates]
         /\ request'[r] = s
         /\ \A q \in Requests \ {r} : request'[q] = request[q]
BY DEF TypeOK

LEMMA RunUpdated ==
  ASSUME TypeOK, NEW e \in Requests, NEW s \in RunStates, run' = [run EXCEPT ![e] = s]
  PROVE  /\ run' \in [Requests -> RunStates]
         /\ run'[e] = s
         /\ \A q \in Requests \ {e} : run'[q] = run[q]
BY DEF TypeOK

----
(***************************************************************************)
(* The steps, one request or run at a time: what r's handler is in         *)
(* afterwards (state s).                                                   *)
(***************************************************************************)
\* The handler of r moves to s, and nothing else about handlers changes.
Moves(r, s) == s \in RequestStates /\ request' = [request EXCEPT ![r] = s]

\* The run of e moves to s, and no other.
RunMoves(e, s) == s \in RunStates /\ run' = [run EXCEPT ![e] = s]

LEMMA ReceiveMoves ==
  ASSUME TypeOK, NEW r \in Requests, Receive(r)
  PROVE  \E s : /\ Moves(r, s)
                /\ s.counted = None /\ s.conf = settings
                /\ s.checked \in {now, None}
                /\ \/ s.pc \in {"answered", "log"} /\ s.answer \in Rejections
                   \/ /\ s.pc = AfterWindows(settings) /\ s.answer = "none"
                      /\ s.checked = IF s.pc = "cooldown" THEN now ELSE None
                /\ s.checked # None => s.pc = "cooldown"
<1> PICK b \in Bodies, authentic \in BOOLEAN :
      LET v == Verdict(settings, b, authentic)
          pc == CASE v = "not_found" -> "answered"
                  [] v = "none" -> AfterWindows(settings)
                  [] OTHER -> "log"
      IN request' = [request EXCEPT ![r] =
           [pc |-> pc, conf |-> settings, counted |-> None, answer |-> v,
            checked |-> IF pc = "cooldown" THEN now ELSE None]]
  BY DEF Receive
<1> DEFINE v == Verdict(settings, b, authentic)
           pc == CASE v = "not_found" -> "answered"
                   [] v = "none" -> AfterWindows(settings)
                   [] OTHER -> "log"
           s == [pc |-> pc, conf |-> settings, counted |-> None, answer |-> v,
                 checked |-> IF pc = "cooldown" THEN now ELSE None]
<1>1. v \in Rejections \cup {"none"}
  BY DEF Verdict, Rejections
<1>2. settings \in Settings /\ now \in Times
  BY DEF TypeOK
<1>3. AfterWindows(settings) \in {"cooldown", "rate", "create", "lock"}
  BY <1>2, NextCheck
<1> HIDE DEF v
<1>4. \/ pc \in {"answered", "log"} /\ v \in Rejections
      \/ pc = AfterWindows(settings) /\ v = "none"
  BY <1>1 DEF Rejections
<1>5. pc \in HandlerPCs
  BY <1>3, <1>4 DEF HandlerPCs
<1> HIDE DEF pc
<1>6. s \in RequestStates
  BY <1>1, <1>2, <1>5 DEF RequestStates, Answers
<1>7. Moves(r, s)
  BY <1>6 DEF Moves, v, pc
<1> QED
  BY <1>4, <1>7
LEMMA CheckCooldownMoves ==
  ASSUME TypeOK, NEW r \in Requests, CheckCooldown(r)
  PROVE  \E s : /\ Moves(r, s) /\ At(r, "cooldown")
                /\ s.conf = Conf(r) /\ s.counted = request[r].counted
                /\ \/ s.pc = "log" /\ s.answer = "cooldown_skipped" /\ s.checked = None
                   \/ /\ s.pc = AfterCooldown(Conf(r)) /\ s.answer = request[r].answer
                      /\ \/ s.checked = request[r].checked /\ ~TooSoon(r)
                         \/ s.checked = None
<1> DEFINE next == AfterCooldown(Conf(r))
<1>1. At(r, "cooldown") /\ request[r] \in RequestStates
  BY StateTyped DEF CheckCooldown
<1>2. Conf(r) \in Settings
  BY <1>1 DEF Conf, RequestStates
<1>3. next \in HandlerPCs
  BY <1>2, NextCheck DEF HandlerPCs
<1> HIDE DEF next
<1>4. CASE /\ TooSoon(r)
           /\ request' = [request EXCEPT ![r].pc = "log", ![r].checked = None,
                                         ![r].answer = "cooldown_skipped"]
  <2> DEFINE s == [request[r] EXCEPT !.pc = "log", !.checked = None,
                                     !.answer = "cooldown_skipped"]
  <2>1. s \in RequestStates
    BY <1>1 DEF RequestStates, HandlerPCs, Answers, Rejections
  <2>2. request' = [request EXCEPT ![r] = s]
    BY <1>4
  <2>3. /\ s.conf = Conf(r) /\ s.counted = request[r].counted
        /\ s.pc = "log" /\ s.answer = "cooldown_skipped" /\ s.checked = None
    BY <1>1 DEF Conf, RequestStates
  <2> QED
    BY <1>1, <2>1, <2>2, <2>3 DEF Moves
<1>5. CASE ~TooSoon(r) /\ Goto(r, next)
  <2> DEFINE s == [request[r] EXCEPT !.pc = next]
  <2>1. Moves(r, s)
    BY <1>3, <1>5, GotoIs DEF Moves
  <2>2. /\ s.conf = Conf(r) /\ s.counted = request[r].counted /\ s.pc = next
        /\ s.answer = request[r].answer /\ s.checked = request[r].checked
    BY <1>1 DEF Conf, RequestStates
  <2> QED
    BY <1>1, <1>5, <2>1, <2>2 DEF next
<1>6. CASE request' = [request EXCEPT ![r].pc = next, ![r].checked = None]
  <2> DEFINE s == [request[r] EXCEPT !.pc = next, !.checked = None]
  <2>1. s \in RequestStates
    BY <1>1, <1>3 DEF RequestStates
  <2>2. request' = [request EXCEPT ![r] = s]
    BY <1>6
  <2>3. /\ s.conf = Conf(r) /\ s.counted = request[r].counted /\ s.pc = next
        /\ s.answer = request[r].answer /\ s.checked = None
    BY <1>1 DEF Conf, RequestStates
  <2> QED
    BY <1>1, <2>1, <2>2, <2>3 DEF Moves, next
<1> QED
  BY <1>4, <1>5, <1>6 DEF CheckCooldown, next

LEMMA CheckRateMoves ==
  ASSUME TypeOK, NEW r \in Requests, CheckRate(r)
  PROVE  LET w == (now \div EffectiveRate(Conf(r)).window) * EffectiveRate(Conf(r)).window
         IN \E s : /\ Moves(r, s) /\ At(r, "rate")
                   /\ s.conf = Conf(r) /\ s.checked = request[r].checked
                   /\ \/ /\ s.pc = "log" /\ s.answer = "rate_limited"
                         /\ s.counted = request[r].counted /\ count' = count
                      \/ /\ s.pc = AfterRate(Conf(r)) /\ s.answer = request[r].answer
                         /\ \/ s.counted = request[r].counted /\ count' = count
                            \/ /\ s.counted = w /\ w \in Times
                               /\ count[w] < EffectiveRate(Conf(r)).max
                               /\ count' = [count EXCEPT ![w] = @ + 1]
<1> DEFINE c == Conf(r)
           w == (now \div EffectiveRate(c).window) * EffectiveRate(c).window
           next == AfterRate(c)
<1>1. At(r, "rate") /\ request[r] \in RequestStates
  BY StateTyped DEF CheckRate
<1>2. c \in Settings
  BY <1>1 DEF Conf, RequestStates
<1>3. next \in HandlerPCs
  BY <1>2, NextCheck DEF HandlerPCs
<1>4. w \in Times
  BY <1>2, WindowIsATime DEF TypeOK
<1>5. \/ /\ count[w] < EffectiveRate(c).max
         /\ count' = [count EXCEPT ![w] = @ + 1]
         /\ request' = [request EXCEPT ![r].pc = next, ![r].counted = w]
      \/ Conclude(r, "rate_limited") /\ count' = count
      \/ Goto(r, next) /\ count' = count
  BY DEF CheckRate
<1> HIDE DEF next, w
<1>6. CASE /\ count[w] < EffectiveRate(c).max
           /\ count' = [count EXCEPT ![w] = @ + 1]
           /\ request' = [request EXCEPT ![r].pc = next, ![r].counted = w]
  <2> DEFINE s == [request[r] EXCEPT !.pc = next, !.counted = w]
  <2>1. s \in RequestStates
    BY <1>1, <1>3, <1>4 DEF RequestStates
  <2>2. request' = [request EXCEPT ![r] = s]
    BY <1>6
  <2>3. /\ s.conf = Conf(r) /\ s.checked = request[r].checked /\ s.pc = next
        /\ s.answer = request[r].answer /\ s.counted = w
    BY <1>1 DEF Conf, RequestStates
  <2> QED
    BY <1>1, <1>4, <1>6, <2>1, <2>2, <2>3 DEF Moves, next, w
<1>7. CASE Conclude(r, "rate_limited") /\ count' = count
  <2> DEFINE s == [request[r] EXCEPT !.pc = "log", !.answer = "rate_limited"]
  <2>1. Moves(r, s)
    BY <1>7, ConcludeIs DEF Moves, Answers, Rejections
  <2>2. /\ s.conf = Conf(r) /\ s.checked = request[r].checked /\ s.pc = "log"
        /\ s.answer = "rate_limited" /\ s.counted = request[r].counted
    BY <1>1 DEF Conf, RequestStates
  <2> QED
    BY <1>1, <1>7, <2>1, <2>2
<1>8. CASE Goto(r, next) /\ count' = count
  <2> DEFINE s == [request[r] EXCEPT !.pc = next]
  <2>1. Moves(r, s)
    BY <1>3, <1>8, GotoIs DEF Moves
  <2>2. /\ s.conf = Conf(r) /\ s.checked = request[r].checked /\ s.pc = next
        /\ s.answer = request[r].answer /\ s.counted = request[r].counted
    BY <1>1 DEF Conf, RequestStates
  <2> QED
    BY <1>1, <1>8, <2>1, <2>2 DEF next
<1> QED
  BY <1>5, <1>6, <1>7, <1>8

\* What is left of a request once its checks are done: only where the handler
\* is, and what it answers, changes.
Settles(r, l, a) ==
  \E s : /\ Moves(r, s)
         /\ s.conf = Conf(r) /\ s.checked = request[r].checked
         /\ s.counted = request[r].counted
         /\ s.pc = l /\ s.answer = a

LEMMA GotoSettles ==
  ASSUME TypeOK, NEW r \in Requests, NEW l \in HandlerPCs, Goto(r, l)
  PROVE  Settles(r, l, request[r].answer)
<1> DEFINE s == [request[r] EXCEPT !.pc = l]
<1>1. Moves(r, s)
  BY GotoIs DEF Moves
<1>2. /\ s.conf = Conf(r) /\ s.checked = request[r].checked
      /\ s.counted = request[r].counted /\ s.pc = l /\ s.answer = request[r].answer
  BY StateTyped DEF Conf, RequestStates
<1> QED
  BY <1>1, <1>2 DEF Settles

LEMMA ConcludeSettles ==
  ASSUME TypeOK, NEW r \in Requests, NEW a \in Answers, Conclude(r, a)
  PROVE  Settles(r, "log", a)
<1> DEFINE s == [request[r] EXCEPT !.pc = "log", !.answer = a]
<1>1. Moves(r, s)
  BY ConcludeIs DEF Moves
<1>2. /\ s.conf = Conf(r) /\ s.checked = request[r].checked
      /\ s.counted = request[r].counted /\ s.pc = "log" /\ s.answer = a
  BY StateTyped DEF Conf, RequestStates
<1> QED
  BY <1>1, <1>2 DEF Settles
LEMMA SettlesTyped ==
  ASSUME TypeOK, NEW r \in Requests, NEW l, NEW a, Settles(r, l, a)
  PROVE  /\ request' \in [Requests -> RequestStates]
         /\ \A q \in Requests \ {r} : request'[q] = request[q]
         /\ request'[r].pc = l /\ request'[r].answer = a
         /\ request'[r].conf = Conf(r) /\ request'[r].checked = request[r].checked
         /\ request'[r].counted = request[r].counted
BY RequestUpdated DEF Settles, Moves

LEMMA ConcurrencySettles ==
  ASSUME TypeOK, NEW r \in Requests, CheckConcurrency(r)
  PROVE  /\ At(r, "lock")
         /\ \/ /\ lock = None /\ lock' = r /\ UNCHANGED <<record, waiting>>
               /\ Settles(r, "create", request[r].answer)
            \/ /\ UNCHANGED <<lock, record, waiting>>
               /\ Settles(r, "log", "concurrency_rejected")
            \/ /\ record' = [record EXCEPT ![r] = "pending"] /\ UNCHANGED lock
               /\ \/ waiting' = waiting \cup {r} /\ Settles(r, "log", "queued")
                  \/ waiting' = waiting /\ Settles(r, "log", "concurrency_rejected")
<1>1. {"concurrency_rejected", "queued"} \subseteq Answers /\ "create" \in HandlerPCs
  BY DEF Answers, Rejections, HandlerPCs
<1>2. Goto(r, "create") => Settles(r, "create", request[r].answer)
  BY <1>1, GotoSettles
<1>3. \A a \in {"concurrency_rejected", "queued"} : Conclude(r, a) => Settles(r, "log", a)
  BY <1>1, ConcludeSettles
<1>4. ASSUME NEW enqueued \in Results,
             waiting' = IF enqueued THEN waiting \cup {r} ELSE waiting,
             Conclude(r, IF enqueued THEN "queued" ELSE "concurrency_rejected")
      PROVE  \/ waiting' = waiting \cup {r} /\ Settles(r, "log", "queued")
             \/ waiting' = waiting /\ Settles(r, "log", "concurrency_rejected")
  <2>1. CASE enqueued
    BY <1>3, <1>4, <2>1
  <2>2. CASE ~enqueued
    BY <1>3, <1>4, <2>2
  <2> QED
    BY <2>1, <2>2
<1> HIDE DEF Results
<1> QED
  BY <1>2, <1>3, <1>4 DEF CheckConcurrency

LEMMA CreateSettles ==
  ASSUME TypeOK, NEW r \in Requests, Create(r)
  PROVE  /\ At(r, "create")
         /\ \/ /\ Conf(r).approval /\ record' = [record EXCEPT ![r] = "pending_approval"]
               /\ Settles(r, "log", "pending_approval")
            \/ /\ ~Conf(r).approval /\ record' = [record EXCEPT ![r] = "pending"]
               /\ Settles(r, "log", "fired")
            \/ record' = record /\ Settles(r, "answered", "error")
<1>1. {"pending_approval", "fired"} \subseteq Answers
  BY DEF Answers
<1>2. \A a \in {"pending_approval", "fired"} : Conclude(r, a) => Settles(r, "log", a)
  BY <1>1, ConcludeSettles
<1>3. ASSUME request' = [request EXCEPT ![r].pc = "answered", ![r].answer = "error"]
      PROVE  Settles(r, "answered", "error")
  <2> DEFINE s == [request[r] EXCEPT !.pc = "answered", !.answer = "error"]
  <2>1. s \in RequestStates
    BY StateTyped DEF RequestStates, HandlerPCs, Answers
  <2>2. request' = [request EXCEPT ![r] = s]
    BY <1>3
  <2>3. /\ s.conf = Conf(r) /\ s.checked = request[r].checked
        /\ s.counted = request[r].counted /\ s.pc = "answered" /\ s.answer = "error"
    BY StateTyped DEF Conf, RequestStates
  <2> QED
    BY <2>1, <2>2, <2>3 DEF Settles, Moves
<1>4. CASE Conf(r).approval
  BY <1>2, <1>3, <1>4 DEF Create, NeedsApproval
<1>5. CASE ~Conf(r).approval
  BY <1>2, <1>3, <1>5 DEF Create, NeedsApproval
<1> QED
  BY <1>4, <1>5 DEF Create

LEMMA LogSettles ==
  ASSUME TypeOK, NEW r \in Requests, Log(r)
  PROVE  /\ At(r, "log") /\ Settles(r, "answered", request[r].answer)
         /\ attempts' = attempts \/ attempts' = attempts \cup {Attempt(r, request[r].answer)}
         /\ \/ request[r].answer = "fired" /\ RunMoves(r, Task(Conf(r), Conf(r)))
            \/ request[r].answer # "fired" /\ run' = run
<1>1. Settles(r, "answered", request[r].answer)
  BY GotoSettles DEF Log, HandlerPCs
<1>2. Task(Conf(r), Conf(r)) \in RunStates
  BY StateTyped, TaskTyped DEF Conf, RequestStates
<1>3. \/ request[r].answer = "fired" /\ RunMoves(r, Task(Conf(r), Conf(r)))
      \/ request[r].answer # "fired" /\ run' = run
  BY <1>2 DEF Log, RunMoves
<1>4. attempts' = attempts \/ attempts' = attempts \cup {Attempt(r, request[r].answer)}
  BY DEF Log
<1> QED
  BY <1>1, <1>3, <1>4 DEF Log

LEMMA DropSettles ==
  ASSUME TypeOK, NEW r \in Requests, Drop(r)
  PROVE  /\ Settles(r, "dropped", request[r].answer)
         /\ request[r].pc \in {"cooldown", "rate", "lock", "create", "log"}
BY GotoSettles DEF Drop, HandlerPCs

----
(***************************************************************************)
(* The run's steps.                                                        *)
(***************************************************************************)
\* A run goes on under its settings.
RunsOn(e, l) ==
  \E s : /\ RunMoves(e, s) /\ s.pc = l /\ s.conf = run[e].conf
         /\ l = "retry" => s.retries < MaxRetries

LEMMA RunGotoRunsOn ==
  ASSUME TypeOK, NEW e \in Requests, NEW l \in RunPCs, NEW o \in Outcomes \cup {"none"},
         RunGoto(e, l, o), l = "retry" => run[e].retries < MaxRetries
  PROVE  RunsOn(e, l)
<1> DEFINE s == [run[e] EXCEPT !.pc = l, !.outcome = o]
<1>1. s \in RunStates
  BY StateTyped DEF RunStates
<1>2. RunMoves(e, s)
  BY <1>1 DEF RunMoves, RunGoto
<1>3. s.pc = l /\ s.conf = run[e].conf /\ s.retries = run[e].retries
  BY StateTyped DEF RunStates
<1>4. l = "retry" => s.retries < MaxRetries
  BY <1>3
<1> HIDE DEF s
<1> QED
  BY <1>2, <1>3, <1>4 DEF RunsOn

LEMMA RunsOnTyped ==
  ASSUME TypeOK, NEW e \in Requests, NEW l, RunsOn(e, l)
  PROVE  /\ run' \in [Requests -> RunStates]
         /\ \A q \in Requests \ {e} : run'[q] = run[q]
         /\ run'[e].pc = l /\ run'[e].conf = run[e].conf
         /\ l = "retry" => run'[e].retries < MaxRetries
<1> PICK s : /\ RunMoves(e, s) /\ s.pc = l /\ s.conf = run[e].conf
             /\ l = "retry" => s.retries < MaxRetries
  BY DEF RunsOn
<1>1. /\ run' \in [Requests -> RunStates] /\ run'[e] = s
      /\ \A q \in Requests \ {e} : run'[q] = run[q]
  BY RunUpdated DEF RunMoves
<1>2. l = "retry" => run'[e].retries < MaxRetries
  BY <1>1
<1> QED
  BY <1>1, <1>2

LEMMA BeginRunsOn ==
  ASSUME TypeOK, NEW e \in Requests, Begin(e)
  PROVE  /\ RunAt(e, "begin")
         /\ \/ /\ record' = [record EXCEPT ![e] = "running"]
               /\ started' = [started EXCEPT ![e] = now] /\ RunsOn(e, "executing")
            \/ UNCHANGED <<record, started>> /\ RunsOn(e, "notify")
<1>1. {"executing", "notify"} \subseteq RunPCs /\ {"none", "no_exit_code"} \subseteq Outcomes \cup {"none"}
  BY DEF RunPCs, Outcomes
<1> QED
  BY <1>1, RunGotoRunsOn DEF Begin

LEMMA EndRunsOn ==
  ASSUME TypeOK, NEW e \in Requests, End(e)
  PROVE  /\ RunAt(e, "executing")
         /\ \E st \in {"success", "failed", "timed_out"} : record' = [record EXCEPT ![e] = st]
         /\ RunsOn(e, "retry") \/ RunsOn(e, "notify")
<1>1. PICK o \in Outcomes : /\ record' = [record EXCEPT ![e] = StatusOf(o)]
                            /\ RunGoto(e, IF Retries(e, o) THEN "retry" ELSE "notify", o)
  BY DEF End
<1>2. StatusOf(o) \in {"success", "failed", "timed_out"}
  BY DEF StatusOf, Outcomes
<1>3. {"retry", "notify"} \subseteq RunPCs /\ o \in Outcomes \cup {"none"}
  BY DEF RunPCs
<1>4. RunsOn(e, "retry") \/ RunsOn(e, "notify")
  <2>1. CASE Retries(e, o)
    <3>1. RunGoto(e, "retry", o) /\ run[e].retries < MaxRetries
      BY <1>1, <2>1 DEF Retries
    <3> QED
      BY <3>1, <1>3, RunGotoRunsOn
  <2>2. CASE ~Retries(e, o)
    <3>1. RunGoto(e, "notify", o)
      BY <1>1, <2>2
    <3> QED
      BY <3>1, <1>3, RunGotoRunsOn
  <2> QED
    BY <2>1, <2>2
<1> QED
  BY <1>1, <1>2, <1>4 DEF End

LEMMA NotifyRunsOn ==
  ASSUME TypeOK, NEW e \in Requests, Notify(e)
  PROVE  /\ RunAt(e, "notify") /\ RunsOn(e, "complete")
         /\ notified' = notified \/ notified' = notified \cup {e}
<1>1. RunGoto(e, "complete", run[e].outcome) /\ run[e].outcome \in Outcomes \cup {"none"}
  BY StateTyped DEF Notify, RunStates
<1>2. RunsOn(e, "complete")
  BY <1>1, RunGotoRunsOn DEF RunPCs
<1>3. notified' = notified \/ notified' = notified \cup {e}
  BY DEF Notify
<1> QED
  BY <1>2, <1>3 DEF Notify
LEMMA RetryRunsOn ==
  ASSUME TypeOK, RetriesLeft, NEW e \in Requests, Retry(e)
  PROVE  /\ RunAt(e, "retry")
         /\ \/ /\ record' = [record EXCEPT ![e] = "pending"]
               /\ started' = [started EXCEPT ![e] = None] /\ RunsOn(e, "begin")
            \/ UNCHANGED <<record, started>> /\ RunsOn(e, "notify")
<1>1. RunAt(e, "retry") /\ run[e] \in RunStates /\ run[e].outcome \in Outcomes \cup {"none"}
  BY StateTyped DEF Retry, RunStates
<1>2. RunGoto(e, "notify", run[e].outcome) => RunsOn(e, "notify")
  BY <1>1, RunGotoRunsOn DEF RunPCs
<1>3. ASSUME run' = [run EXCEPT ![e].pc = "begin", ![e].retries = @ + 1]
      PROVE  RunsOn(e, "begin")
  <2> DEFINE s == [run[e] EXCEPT !.pc = "begin", !.retries = run[e].retries + 1]
  <2>1. run[e].retries + 1 \in 0..MaxRetries
    BY <1>1, PipelineConstants DEF RetriesLeft, RunStates
  <2>2. s \in RunStates
    BY <1>1, <2>1 DEF RunStates, RunPCs
  <2>3. run' = [run EXCEPT ![e] = s]
    BY <1>3
  <2>4. s.pc = "begin" /\ s.conf = run[e].conf
    BY <1>1 DEF RunStates
  <2> QED
    BY <2>2, <2>3, <2>4 DEF RunsOn, RunMoves
<1> QED
  BY <1>1, <1>2, <1>3 DEF Retry

\* The three ways in which a run completes: it leaves the lock alone, it
\* releases it, or it hands it to d, which runs under the same settings or
\* not at all.
LEMMA CompleteEnds ==
  ASSUME TypeOK, NEW e \in Requests, Complete(e)
  PROVE  LET c == run[e].conf
         IN /\ RunAt(e, "complete") /\ c \in Settings
            /\ \/ /\ c.concurrency = "none" /\ UNCHANGED <<lock, waiting>>
                  /\ RunsOn(e, "ended")
               \/ /\ c.concurrency # "none" /\ lock' = None
                  /\ waiting' \in SUBSET waiting /\ RunsOn(e, "ended")
               \/ /\ c.concurrency # "none"
                  /\ \E d \in waiting :
                       /\ waiting' = waiting \ {d} /\ lock' = d
                       /\ run' = [[run EXCEPT ![e].pc = "ended"] EXCEPT ![d] = Task(c, settings)]
<1> DEFINE c == run[e].conf
           done == [run EXCEPT ![e].pc = "ended"]
<1>1. RunAt(e, "complete") /\ run[e] \in RunStates /\ c \in Settings
  BY StateTyped DEF Complete, RunStates
<1>2. run' = done => RunsOn(e, "ended")
  <2> DEFINE s == [run[e] EXCEPT !.pc = "ended"]
  <2>1. s \in RunStates /\ s.pc = "ended" /\ s.conf = run[e].conf
    BY <1>1 DEF RunStates, RunPCs
  <2>2. done = [run EXCEPT ![e] = s]
    OBVIOUS
  <2> QED
    BY <2>1, <2>2 DEF RunsOn, RunMoves
<1> HIDE DEF done
<1>3. \/ /\ c.concurrency = "none" /\ run' = done /\ UNCHANGED <<lock, waiting>>
      \/ /\ c.concurrency = "mutex" \/ (c.concurrency = "queue" /\ waiting = {})
         /\ lock' = None /\ run' = done /\ UNCHANGED waiting
      \/ /\ c.concurrency = "queue"
         /\ \E d \in waiting :
              /\ waiting' = waiting \ {d}
              /\ \/ lock' = d /\ run' = [done EXCEPT ![d] = Task(c, settings)]
                 \/ lock' = None /\ run' = done
  BY DEF Complete, CompletionConf, done
<1>4. CASE c.concurrency = "none" /\ run' = done /\ UNCHANGED <<lock, waiting>>
  BY <1>1, <1>2, <1>4
<1>5. CASE /\ c.concurrency = "mutex" \/ (c.concurrency = "queue" /\ waiting = {})
           /\ lock' = None /\ run' = done /\ UNCHANGED waiting
  BY <1>1, <1>2, <1>5
<1>6. ASSUME c.concurrency = "queue", NEW d \in waiting, waiting' = waiting \ {d},
             \/ lock' = d /\ run' = [done EXCEPT ![d] = Task(c, settings)]
             \/ lock' = None /\ run' = done
      PROVE  \/ /\ c.concurrency # "none" /\ lock' = None
                /\ waiting' \in SUBSET waiting /\ RunsOn(e, "ended")
             \/ /\ c.concurrency # "none"
                /\ waiting' = waiting \ {d} /\ lock' = d
                /\ run' = [done EXCEPT ![d] = Task(c, settings)]
  BY <1>2, <1>6
<1> QED
  BY <1>1, <1>3, <1>4, <1>5, <1>6 DEF done

----
(***************************************************************************)
(* Type correctness.                                                       *)
(***************************************************************************)
RecordStates == {"absent", "pending", "pending_approval", "running",
                 "success", "failed", "timed_out"}
AttemptRows == [request : Requests, execution : Requests \cup {None},
                status : {LoggedAs(a) : a \in Answers}]

LEMMA AttemptTyped ==
  ASSUME NEW r \in Requests, NEW a \in Answers PROVE Attempt(r, a) \in AttemptRows
BY DEF Attempt, AttemptRows

\* The log is written with an answer.
Logging(r) == At(r, "log") => request[r].answer \in Answers
LogsAnswers == \A r \in Requests : Logging(r)

LEMMA MovesTyped ==
  ASSUME TypeOK, LogsAnswers, NEW r \in Requests, NEW s, Moves(r, s),
         s.pc = "log" => s.answer \in Answers
  PROVE  request' \in [Requests -> RequestStates] /\ LogsAnswers'
<1>1. /\ request' \in [Requests -> RequestStates] /\ request'[r] = s
      /\ \A q \in Requests \ {r} : request'[q] = request[q]
  BY RequestUpdated DEF Moves
<1>2. ASSUME NEW q \in Requests PROVE Logging(q)'
  <2>1. CASE q = r
    BY <1>1, <2>1 DEF Logging, At
  <2>2. CASE q # r
    BY <1>1, <2>2 DEF Logging, LogsAnswers, At
  <2> QED
    BY <2>1, <2>2
<1> QED
  BY <1>1, <1>2 DEF LogsAnswers

LEMMA SettlesAnswer ==
  ASSUME TypeOK, LogsAnswers, NEW r \in Requests, NEW l, NEW a, Settles(r, l, a),
         l = "log" => a \in Answers
  PROVE  request' \in [Requests -> RequestStates] /\ LogsAnswers'
BY MovesTyped DEF Settles

LEMMA RunsOnRetries ==
  ASSUME TypeOK, RetriesLeft, NEW e \in Requests, NEW l, RunsOn(e, l)
  PROVE  run' \in [Requests -> RunStates] /\ RetriesLeft'
<1>1. ASSUME NEW q \in Requests, RunAt(q, "retry")' PROVE run'[q].retries < MaxRetries
  <2>1. CASE q = e
    BY <1>1, <2>1, RunsOnTyped DEF RunAt
  <2>2. CASE q # e
    BY <1>1, <2>2, RunsOnTyped DEF RunAt, RetriesLeft
  <2> QED
    BY <2>1, <2>2
<1> QED
  BY <1>1, RunsOnTyped DEF RetriesLeft

\* A task that is spawned has made no retry.
LEMMA SpawnRetries ==
  ASSUME TypeOK, RetriesLeft, NEW e \in Requests, NEW c, NEW d, RunMoves(e, Task(c, d))
  PROVE  run' \in [Requests -> RunStates] /\ RetriesLeft'
<1>1. Task(c, d).pc = "begin"
  BY DEF Task
<1>2. /\ run' \in [Requests -> RunStates] /\ run'[e] = Task(c, d)
      /\ \A q \in Requests \ {e} : run'[q] = run[q]
  BY RunUpdated DEF RunMoves
<1> QED
  BY <1>1, <1>2 DEF RetriesLeft, RunAt

TypedInvariant == TypeOK /\ RetriesLeft /\ LogsAnswers

LEMMA HandleTyped ==
  ASSUME TypedInvariant, NEW r \in Requests, Handle(r) PROVE TypedInvariant'
<1> USE DEF TypedInvariant
<1>1. CASE Receive(r)
  <2>1. PICK s : /\ Moves(r, s)
                 /\ \/ s.pc \in {"answered", "log"} /\ s.answer \in Rejections
                    \/ s.pc = AfterWindows(settings)
    BY <1>1, ReceiveMoves
  <2>2. AfterWindows(settings) # "log"
    BY NextCheck DEF TypeOK
  <2>3. s.pc = "log" => s.answer \in Answers
    BY <2>1, <2>2 DEF Answers
  <2>4. request' \in [Requests -> RequestStates] /\ LogsAnswers'
    BY <2>1, <2>3, MovesTyped
  <2> QED
    BY <1>1, <2>4 DEF Receive, TypeOK, RetriesLeft, RunAt
<1>2. CASE CheckCooldown(r)
  <2>1. PICK s : /\ Moves(r, s) /\ At(r, "cooldown")
                 /\ \/ s.pc = "log" /\ s.answer = "cooldown_skipped"
                    \/ s.pc = AfterCooldown(Conf(r))
    BY <1>2, CheckCooldownMoves
  <2>2. Conf(r) \in Settings
    BY StateTyped DEF Conf, RequestStates
  <2>3. AfterCooldown(Conf(r)) # "log"
    BY <2>2, NextCheck
  <2>4. s.pc = "log" => s.answer \in Answers
    BY <2>1, <2>3 DEF Answers, Rejections
  <2>5. request' \in [Requests -> RequestStates] /\ LogsAnswers'
    BY <2>1, <2>4, MovesTyped
  <2> QED
    BY <1>2, <2>5 DEF CheckCooldown, TypeOK, RetriesLeft, RunAt
<1>3. CASE CheckRate(r)
  <2> DEFINE w == (now \div EffectiveRate(Conf(r)).window) * EffectiveRate(Conf(r)).window
  <2>1. PICK s : /\ Moves(r, s)
                 /\ \/ s.pc = "log" /\ s.answer = "rate_limited" /\ count' = count
                    \/ /\ s.pc = AfterRate(Conf(r))
                       /\ \/ count' = count
                          \/ w \in Times /\ count' = [count EXCEPT ![w] = @ + 1]
    BY <1>3, CheckRateMoves
  <2> HIDE DEF w
  <2>2. Conf(r) \in Settings
    BY StateTyped DEF Conf, RequestStates
  <2>3. AfterRate(Conf(r)) # "log"
    BY <2>2, NextCheck
  <2>4. s.pc = "log" => s.answer \in Answers
    BY <2>1, <2>3 DEF Answers, Rejections
  <2>5. request' \in [Requests -> RequestStates] /\ LogsAnswers'
    BY <2>1, <2>4, MovesTyped
  <2>6. count' \in [Times -> Nat]
    BY <2>1 DEF TypeOK
  <2> QED
    BY <1>3, <2>5, <2>6 DEF CheckRate, TypeOK, RetriesLeft, RunAt
<1>4. CASE CheckConcurrency(r)
  <2>1. "concurrency_rejected" \in Answers /\ "queued" \in Answers
    BY DEF Answers, Rejections
  <2>2. request' \in [Requests -> RequestStates] /\ LogsAnswers'
    BY <1>4, <2>1, ConcurrencySettles, SettlesAnswer
  <2>3. /\ lock' \in Requests \cup {None} /\ waiting' \in SUBSET Requests
        /\ record' = record \/ record' = [record EXCEPT ![r] = "pending"]
    BY <1>4, ConcurrencySettles DEF TypeOK
  <2> QED
    BY <1>4, <2>2, <2>3 DEF CheckConcurrency, TypeOK, RetriesLeft, RunAt
<1>5. CASE Create(r)
  <2>1. "pending_approval" \in Answers /\ "fired" \in Answers
    BY DEF Answers
  <2>2. request' \in [Requests -> RequestStates] /\ LogsAnswers'
    BY <1>5, <2>1, CreateSettles, SettlesAnswer
  <2>3. \/ record' = record \/ record' = [record EXCEPT ![r] = "pending"]
        \/ record' = [record EXCEPT ![r] = "pending_approval"]
    BY <1>5, CreateSettles
  <2> QED
    BY <1>5, <2>2, <2>3 DEF Create, TypeOK, RetriesLeft, RunAt
<1>6. CASE Log(r)
  <2>1. request[r].answer \in Answers
    BY <1>6 DEF Log, LogsAnswers, Logging
  <2>2. request' \in [Requests -> RequestStates] /\ LogsAnswers'
    BY <1>6, LogSettles, SettlesAnswer
  <2>3. attempts' \in SUBSET AttemptRows
    <3>1. attempts \in SUBSET AttemptRows
      BY DEF TypeOK, AttemptRows
    <3>2. Attempt(r, request[r].answer) \in AttemptRows
      BY <2>1, AttemptTyped
    <3> QED
      BY <1>6, <3>1, <3>2, LogSettles
  <2>4. run' \in [Requests -> RunStates] /\ RetriesLeft'
    <3>1. CASE RunMoves(r, Task(Conf(r), Conf(r)))
      BY <3>1, SpawnRetries
    <3>2. CASE run' = run
      BY <3>2 DEF TypeOK, RetriesLeft, RunAt
    <3> QED
      BY <1>6, <3>1, <3>2, LogSettles
  <2> QED
    BY <1>6, <2>2, <2>3, <2>4 DEF Log, TypeOK, AttemptRows
<1>7. CASE Drop(r)
  <2>1. request' \in [Requests -> RequestStates] /\ LogsAnswers'
    BY <1>7, DropSettles, SettlesAnswer
  <2> QED
    BY <1>7, <2>1 DEF Drop, TypeOK, RetriesLeft, RunAt
<1> QED
  BY <1>1, <1>2, <1>3, <1>4, <1>5, <1>6, <1>7 DEF Handle

LEMMA RunTyped ==
  ASSUME TypedInvariant, NEW e \in Requests, Run(e) PROVE TypedInvariant'
<1> USE DEF TypedInvariant
<1>1. UNCHANGED request => LogsAnswers'
  BY DEF LogsAnswers, Logging, At
<1>2. CASE Begin(e)
  <2>1. run' \in [Requests -> RunStates] /\ RetriesLeft'
    BY <1>2, BeginRunsOn, RunsOnRetries
  <2>2. \/ record' = record /\ started' = started
        \/ record' = [record EXCEPT ![e] = "running"] /\ started' = [started EXCEPT ![e] = now]
    BY <1>2, BeginRunsOn
  <2> QED
    BY <1>1, <1>2, <2>1, <2>2 DEF Begin, TypeOK
<1>3. CASE End(e)
  <2>1. run' \in [Requests -> RunStates] /\ RetriesLeft'
    BY <1>3, EndRunsOn, RunsOnRetries
  <2>2. PICK st \in {"success", "failed", "timed_out"} : record' = [record EXCEPT ![e] = st]
    BY <1>3, EndRunsOn
  <2> QED
    BY <1>1, <1>3, <2>1, <2>2 DEF End, TypeOK
<1>4. CASE Retry(e)
  <2>1. run' \in [Requests -> RunStates] /\ RetriesLeft'
    BY <1>4, RetryRunsOn, RunsOnRetries
  <2>2. \/ record' = record /\ started' = started
        \/ record' = [record EXCEPT ![e] = "pending"] /\ started' = [started EXCEPT ![e] = None]
    BY <1>4, RetryRunsOn
  <2> QED
    BY <1>1, <1>4, <2>1, <2>2 DEF Retry, TypeOK
<1>5. CASE Notify(e)
  <2>1. run' \in [Requests -> RunStates] /\ RetriesLeft'
    BY <1>5, NotifyRunsOn, RunsOnRetries
  <2>2. notified' \in SUBSET Requests
    BY <1>5, NotifyRunsOn DEF TypeOK
  <2> QED
    BY <1>1, <1>5, <2>1, <2>2 DEF Notify, TypeOK
<1>6. CASE Complete(e)
  <2> DEFINE c == run[e].conf
             done == [run EXCEPT ![e].pc = "ended"]
  <2>1. /\ lock' \in Requests \cup {None} /\ waiting' \in SUBSET Requests
        /\ RunsOn(e, "ended") \/ \E d \in waiting : run' = [done EXCEPT ![d] = Task(c, settings)]
    BY <1>6, CompleteEnds DEF TypeOK
  <2>2. ASSUME NEW d \in Requests, run' = [done EXCEPT ![d] = Task(c, settings)]
        PROVE  run' \in [Requests -> RunStates] /\ RetriesLeft'
    <3>1. [run[e] EXCEPT !.pc = "ended"] \in RunStates /\ c \in Settings /\ settings \in Settings
      BY StateTyped DEF RunStates, RunPCs, TypeOK
    <3>2. Task(c, settings) \in RunStates /\ Task(c, settings).pc = "begin"
      BY <3>1, TaskTyped DEF Task
    <3>3. done \in [Requests -> RunStates] /\ done[e].pc = "ended"
          /\ \A q \in Requests \ {e} : done[q] = run[q]
      BY <3>1, StateTyped DEF TypeOK, RunStates
    <3> HIDE DEF done
    <3>4. /\ run' \in [Requests -> RunStates] /\ run'[d].pc = "begin"
          /\ \A q \in Requests \ {d} : run'[q] = done[q]
      BY <2>2, <3>2, <3>3
    <3>5. ASSUME NEW q \in Requests, RunAt(q, "retry")' PROVE run'[q].retries < MaxRetries
      BY <3>3, <3>4, <3>5 DEF RunAt, RetriesLeft
    <3> QED
      BY <3>4, <3>5 DEF RetriesLeft
  <2>3. run' \in [Requests -> RunStates] /\ RetriesLeft'
    BY <2>1, <2>2, RunsOnRetries DEF TypeOK
  <2> QED
    BY <1>1, <1>6, <2>1, <2>3 DEF Complete, TypeOK
<1> QED
  BY <1>2, <1>3, <1>4, <1>5, <1>6 DEF Run

LEMMA StepTyped == TypedInvariant /\ [Next]_vars => TypedInvariant'
<1> SUFFICES ASSUME TypedInvariant, [Next]_vars PROVE TypedInvariant'
  OBVIOUS
<1> USE DEF TypedInvariant
<1>1. CASE UNCHANGED <<request, run, record, started, lock, waiting, attempts, notified, count>>
           /\ now' \in Times /\ settings' \in Settings /\ edits' \in 0..MaxEdits
  BY <1>1 DEF TypeOK, RetriesLeft, RunAt, LogsAnswers, Logging, At
<1>2. CASE Edit
  BY <1>1, <1>2, PipelineConstants DEF Edit, TypeOK
<1>3. CASE Tick
  BY <1>1, <1>3, PipelineConstants DEF Tick, TypeOK, Times
<1>4. CASE UNCHANGED vars
  BY <1>1, <1>4 DEF vars, TypeOK
<1> QED
  BY <1>2, <1>3, <1>4, HandleTyped, RunTyped DEF Next

LEMMA InitTyped == Init => TypedInvariant
<1> SUFFICES ASSUME Init PROVE TypedInvariant
  OBVIOUS
<1>1. settings \in Settings /\ now = 0 /\ 0 \in Times
  BY PipelineConstants DEF Init, Times
<1> DEFINE q0 == [pc |-> "new", conf |-> settings, checked |-> None, counted |-> None,
                  answer |-> "none"]
           e0 == [Task(settings, settings) EXCEPT !.pc = "none"]
<1>2. q0 \in RequestStates
  BY <1>1 DEF RequestStates, HandlerPCs
<1>3. e0 \in RunStates /\ e0.pc = "none"
  BY <1>1, TaskTyped DEF RunStates, RunPCs
<1>4. request = [r \in Requests |-> q0] /\ run = [r \in Requests |-> e0]
  BY DEF Init
<1>5. LogsAnswers
  BY <1>4 DEF LogsAnswers, Logging, At
<1> HIDE DEF q0, e0
<1>6. RetriesLeft
  BY <1>3, <1>4 DEF RetriesLeft, RunAt
<1>7. TypeOK
  BY <1>1, <1>2, <1>3, <1>4, PipelineConstants DEF Init, TypeOK
<1> QED
  BY <1>5, <1>6, <1>7 DEF TypedInvariant

\* Every state is what the tables and tasks may hold (executions,
\* execution_locks, execution_queue, trigger_attempts, the spawned task).
THEOREM PipelineTypeCorrect == Spec => []TypeOK
<1>1. Spec => []TypedInvariant
  BY InitTyped, StepTyped, PTL DEF Spec
<1>2. TypedInvariant => TypeOK
  BY DEF TypedInvariant
<1> QED
  BY <1>1, <1>2, PTL

----
(***************************************************************************)
(* The lock, the run and the log of a request (PipelineInvariant).         *)
(***************************************************************************)
\* What the step leaves alone of request q.
LEMMA InLineKept ==
  ASSUME NEW q \in Requests, InLine(q),
         request'[q] = request[q], run'[q] = run[q], record'[q] = record[q],
         lock' = q <=> lock = q, q \in waiting' => q \in waiting,
         q \in notified' => q \in notified
  PROVE  InLine(q)'
<1>1. HandlerInLine(q)'
  BY DEF InLine, HandlerInLine, InCharge, At, Conf
<1>2. RunInLine(q)'
  BY DEF InLine, RunInLine, Runs
<1>3. HolderInLine(q)'
  BY DEF InLine, HolderInLine, Runs, InCharge, At
<1> QED
  BY <1>1, <1>2, <1>3 DEF InLine

LEMMA LogKept ==
  ASSUME LogInLine, attempts' = attempts,
         \A q \in Requests : At(q, "answered") => request'[q] = request[q], TypeOK
  PROVE  LogInLine'
<1>1. \A a \in attempts : a.request \in Requests
  BY DEF TypeOK
<1> QED
  BY <1>1 DEF LogInLine, At

\* A request whose checks are not done has no answer, no lock and no run.
LEMMA EarlyRequest ==
  ASSUME NEW r \in Requests, InLine(r),
         request[r].pc \in {"new", "cooldown", "rate", "lock", "create"}
  PROVE  /\ request[r].answer = "none" /\ r \notin waiting /\ r \notin notified
         /\ run[r].pc = "none"
         /\ request[r].pc # "create" => lock # r
<1>1. /\ request[r].answer = "none" /\ r \notin waiting /\ run[r].pc = "none"
      /\ r \notin notified
  BY DEF InLine, HandlerInLine
<1>2. request[r].pc # "create" => lock # r
  BY <1>1 DEF InLine, HolderInLine, Runs, InCharge, At
<1> QED
  BY <1>1, <1>2

\* Such a request is turned away, or goes on to a check.
LEMMA EarlyStep ==
  ASSUME NEW r \in Requests, InLine(r),
         request[r].pc \in {"new", "cooldown", "rate", "lock"},
         UNCHANGED <<run, lock, waiting, notified>>,
         request'[r].conf \in Settings,
         \/ request'[r].pc \in {"answered", "log"} /\ request'[r].answer \in Rejections
         \/ /\ request'[r].answer = "none"
            /\ request'[r].pc \in {"cooldown", "rate", AfterRate(request'[r].conf)}
  PROVE  InLine(r)'
<1>1. /\ r \notin waiting' /\ r \notin notified' /\ run'[r].pc = "none" /\ lock' # r
  BY EarlyRequest
<1>2. CASE request'[r].pc \in {"answered", "log"} /\ request'[r].answer \in Rejections
  BY <1>1, <1>2 DEF InLine, HandlerInLine, RunInLine, HolderInLine, InCharge, Runs, At,
                    Rejections
<1>3. CASE /\ request'[r].answer = "none"
           /\ request'[r].pc \in {"cooldown", "rate", AfterRate(request'[r].conf)}
  <2>1. /\ request'[r].pc \in {"cooldown", "rate", "lock", "create"}
        /\ request'[r].pc = "lock" => request'[r].conf.concurrency # "none"
        /\ request'[r].pc = "create" => request'[r].conf.concurrency = "none"
    BY <1>3, NextCheck
  <2> QED
    BY <1>1, <1>3, <2>1 DEF InLine, HandlerInLine, RunInLine, HolderInLine, InCharge,
                            Runs, At, Conf
<1> QED
  BY <1>2, <1>3

LEMMA HandleInLine ==
  ASSUME TypedInvariant, PipelineInvariant, NEW r \in Requests, Handle(r)
  PROVE  PipelineInvariant'
<1> USE DEF TypedInvariant
<1>0. InLine(r) /\ request[r] \in RequestStates /\ Conf(r) \in Settings
  BY StateTyped DEF PipelineInvariant, Conf, RequestStates
\* Every step leaves the other requests alone.
<1>1. ASSUME InLine(r)', UNCHANGED <<waiting, notified>>,
             \A q \in Requests \ {r} : /\ request'[q] = request[q] /\ run'[q] = run[q]
                                       /\ record'[q] = record[q] /\ (lock' = q <=> lock = q)
      PROVE  \A q \in Requests : InLine(q)'
  BY <1>1, InLineKept DEF PipelineInvariant
<1>2. ASSUME NEW s, Moves(r, s)
      PROVE  request'[r] = s /\ \A q \in Requests \ {r} : request'[q] = request[q]
  BY <1>2, RequestUpdated DEF Moves
<1>3. ASSUME ~At(r, "answered"), attempts' = attempts,
             \A q \in Requests \ {r} : request'[q] = request[q]
      PROVE  LogInLine'
  BY <1>3, LogKept DEF PipelineInvariant
<1>4. CASE Receive(r)
  <2>1. settings \in Settings
    BY DEF TypeOK
  <2>2. PICK s : /\ Moves(r, s) /\ s.conf = settings
                 /\ \/ s.pc \in {"answered", "log"} /\ s.answer \in Rejections
                    \/ s.pc = AfterWindows(settings) /\ s.answer = "none"
    BY <1>4, ReceiveMoves
  <2>3. /\ request'[r] = s /\ \A q \in Requests \ {r} : request'[q] = request[q]
        /\ At(r, "new") /\ UNCHANGED <<run, record, lock, waiting, attempts, notified>>
    BY <1>2, <1>4, <2>2 DEF Receive
  <2>4. InLine(r)'
    BY <1>0, <2>1, <2>2, <2>3, NextCheck, EarlyStep DEF At
  <2> QED
    BY <1>1, <1>3, <2>3, <2>4 DEF PipelineInvariant, At
<1>5. CASE CheckCooldown(r)
  <2>1. PICK s : /\ Moves(r, s) /\ s.conf = Conf(r)
                 /\ \/ s.pc = "log" /\ s.answer = "cooldown_skipped"
                    \/ s.pc = AfterCooldown(Conf(r)) /\ s.answer = request[r].answer
    BY <1>5, CheckCooldownMoves
  <2>2. /\ request'[r] = s /\ \A q \in Requests \ {r} : request'[q] = request[q]
        /\ At(r, "cooldown") /\ UNCHANGED <<run, record, lock, waiting, attempts, notified>>
    BY <1>2, <1>5, <2>1 DEF CheckCooldown
  <2>3. request[r].answer = "none" /\ "cooldown_skipped" \in Rejections
    BY <1>0, <2>2, EarlyRequest DEF At, Rejections
  <2>4. InLine(r)'
    BY <1>0, <2>1, <2>2, <2>3, NextCheck, EarlyStep DEF At
  <2> QED
    BY <1>1, <1>3, <2>2, <2>4 DEF PipelineInvariant, At
<1>6. CASE CheckRate(r)
  <2>1. PICK s : /\ Moves(r, s) /\ s.conf = Conf(r)
                 /\ \/ s.pc = "log" /\ s.answer = "rate_limited"
                    \/ s.pc = AfterRate(Conf(r)) /\ s.answer = request[r].answer
    BY <1>6, CheckRateMoves
  <2>2. /\ request'[r] = s /\ \A q \in Requests \ {r} : request'[q] = request[q]
        /\ At(r, "rate") /\ UNCHANGED <<run, record, lock, waiting, attempts, notified>>
    BY <1>2, <1>6, <2>1 DEF CheckRate
  <2>3. request[r].answer = "none" /\ "rate_limited" \in Rejections
    BY <1>0, <2>2, EarlyRequest DEF At, Rejections
  <2>4. InLine(r)'
    BY <1>0, <2>1, <2>2, <2>3, EarlyStep DEF At
  <2> QED
    BY <1>1, <1>3, <2>2, <2>4 DEF PipelineInvariant, At
<1>7. CASE CheckConcurrency(r)
  <2>1. /\ At(r, "lock") /\ UNCHANGED <<run, attempts, notified>>
        /\ \A q \in Requests \ {r} : request'[q] = request[q]
        /\ request'[r].conf = Conf(r)
    BY <1>7, ConcurrencySettles, SettlesTyped DEF CheckConcurrency
  <2>2. /\ request[r].answer = "none" /\ r \notin waiting /\ r \notin notified
        /\ run[r].pc = "none" /\ lock # r /\ Conf(r).concurrency # "none"
    BY <1>0, <2>1, EarlyRequest DEF At, InLine, HandlerInLine
  <2>3. record \in [Requests -> RecordStates] /\ waiting \in SUBSET Requests
    BY DEF TypeOK, RecordStates
  <2>4. CASE /\ lock = None /\ lock' = r /\ UNCHANGED <<record, waiting>>
             /\ Settles(r, "create", request[r].answer)
    <3>1. request'[r].pc = "create" /\ request'[r].answer = "none"
      BY <2>2, <2>4, SettlesTyped
    <3>2. InLine(r)'
      BY <2>1, <2>2, <2>4, <3>1 DEF InLine, HandlerInLine, RunInLine, HolderInLine,
                                    InCharge, Runs, At, Conf
    <3> QED
      BY <1>1, <1>3, <2>1, <2>4, <3>2, PipelineConstants DEF PipelineInvariant, At
  <2>5. CASE /\ UNCHANGED lock /\ Settles(r, "log", "concurrency_rejected")
             /\ waiting' = waiting /\ \A q \in Requests \ {r} : record'[q] = record[q]
    <3>1. /\ request'[r].pc = "log" /\ request'[r].answer = "concurrency_rejected"
          /\ "concurrency_rejected" \in Rejections
      BY <2>5, SettlesTyped DEF Rejections
    <3>2. InLine(r)'
      BY <1>0, <2>1, <2>5, <3>1, EarlyStep DEF At
    <3> QED
      BY <1>1, <1>3, <2>1, <2>5, <3>2 DEF PipelineInvariant, At
  <2>6. CASE /\ record' = [record EXCEPT ![r] = "pending"] /\ UNCHANGED lock
             /\ waiting' = waiting \cup {r} /\ Settles(r, "log", "queued")
    <3>1. /\ request'[r].pc = "log" /\ request'[r].answer = "queued"
          /\ record'[r] = "pending"
      BY <2>3, <2>6, SettlesTyped
    <3>2. InLine(r)'
      BY <2>1, <2>2, <2>6, <3>1 DEF InLine, HandlerInLine, RunInLine, HolderInLine,
                                    InCharge, Runs, At, Conf
    <3>3. ASSUME NEW q \in Requests \ {r} PROVE InLine(q)'
      BY <2>1, <2>3, <2>6, InLineKept DEF PipelineInvariant
    <3> QED
      BY <1>3, <2>1, <3>2, <3>3 DEF PipelineInvariant, At
  <2> QED
    BY <1>7, <2>3, <2>4, <2>5, <2>6, ConcurrencySettles
<1>8. CASE Create(r)
  <2>1. /\ At(r, "create") /\ UNCHANGED <<run, lock, waiting, attempts, notified>>
        /\ \A q \in Requests \ {r} : request'[q] = request[q]
        /\ request'[r].conf = Conf(r)
    BY <1>8, CreateSettles, SettlesTyped DEF Create
  <2>2. /\ request[r].answer = "none" /\ r \notin waiting /\ r \notin notified
        /\ run[r].pc = "none" /\ (Conf(r).concurrency # "none" <=> lock = r)
    BY <1>0, <2>1, EarlyRequest DEF At, InLine, HandlerInLine, InCharge
  <2>3. record \in [Requests -> RecordStates]
    BY DEF TypeOK, RecordStates
  <2>4. InLine(r)'
    <3>1. CASE /\ Conf(r).approval /\ record' = [record EXCEPT ![r] = "pending_approval"]
               /\ Settles(r, "log", "pending_approval")
      <4>1. /\ request'[r].pc = "log" /\ request'[r].answer = "pending_approval"
            /\ record'[r] = "pending_approval"
        BY <2>3, <3>1, SettlesTyped
      <4> QED
        BY <2>1, <2>2, <4>1 DEF InLine, HandlerInLine, RunInLine, HolderInLine, InCharge,
                                Runs, At, Conf
    <3>2. CASE /\ ~Conf(r).approval /\ record' = [record EXCEPT ![r] = "pending"]
               /\ Settles(r, "log", "fired")
      <4>1. /\ request'[r].pc = "log" /\ request'[r].answer = "fired"
            /\ record'[r] = "pending"
        BY <2>3, <3>2, SettlesTyped
      <4> QED
        BY <2>1, <2>2, <3>2, <4>1 DEF InLine, HandlerInLine, RunInLine, HolderInLine,
                                      InCharge, Runs, At, Conf
    <3>3. CASE record' = record /\ Settles(r, "answered", "error")
      <4>1. request'[r].pc = "answered" /\ request'[r].answer = "error"
        BY <3>3, SettlesTyped
      <4> QED
        BY <2>1, <2>2, <4>1 DEF InLine, HandlerInLine, RunInLine, HolderInLine, InCharge,
                                Runs, At, Conf
    <3> QED
      BY <1>8, <3>1, <3>2, <3>3, CreateSettles
  <2>5. \A q \in Requests \ {r} : record'[q] = record[q]
    BY <1>8, <2>3, CreateSettles
  <2> QED
    BY <1>1, <1>3, <2>1, <2>4, <2>5 DEF PipelineInvariant, At
<1>9. CASE Log(r)
  <2>1. /\ At(r, "log") /\ UNCHANGED <<record, lock, waiting, notified>>
        /\ \A q \in Requests \ {r} : request'[q] = request[q]
        /\ request'[r].pc = "answered" /\ request'[r].answer = request[r].answer
        /\ request'[r].conf = Conf(r)
    BY <1>9, LogSettles, SettlesTyped DEF Log
  <2>2. InLine(r)' /\ \A q \in Requests \ {r} : run'[q] = run[q]
    <3>1. CASE request[r].answer = "fired" /\ RunMoves(r, Task(Conf(r), Conf(r)))
      <4>1. /\ run'[r].pc = "begin" /\ run'[r].conf = Conf(r)
            /\ \A q \in Requests \ {r} : run'[q] = run[q]
        BY <3>1, RunUpdated DEF RunMoves, Task
      <4>2. ~Conf(r).approval /\ (Conf(r).concurrency # "none" <=> lock = r)
        BY <1>0, <2>1, <3>1 DEF InLine, HandlerInLine, InCharge
      <4> QED
        BY <1>0, <2>1, <3>1, <4>1, <4>2 DEF InLine, HandlerInLine, RunInLine,
                                            HolderInLine, InCharge, Runs, At
    <3>2. CASE request[r].answer # "fired" /\ run' = run
      BY <1>0, <2>1, <3>2 DEF InLine, HandlerInLine, RunInLine, HolderInLine, InCharge,
                              Runs, At, Conf
    <3> QED
      BY <1>9, <3>1, <3>2, LogSettles
  <2>3. LogInLine'
    <3>1. \A a \in attempts' : \/ a \in attempts /\ a.request # r
                               \/ a = Attempt(r, request[r].answer)
      BY <1>9, <2>1, LogSettles DEF PipelineInvariant, LogInLine, At
    <3>2. Attempt(r, request[r].answer).request = r
      BY DEF Attempt
    <3>3. ASSUME NEW a \in attempts, a.request # r
          PROVE  At(a.request, "answered")' /\ a = Attempt(a.request, request'[a.request].answer)
      <4>1. a.request \in Requests
        BY DEF TypeOK
      <4> QED
        BY <2>1, <3>3, <4>1 DEF PipelineInvariant, LogInLine, At
    <3> QED
      BY <2>1, <3>1, <3>2, <3>3 DEF LogInLine, At
  <2> QED
    BY <1>1, <2>1, <2>2, <2>3 DEF PipelineInvariant
<1>10. CASE Drop(r)
  <2>1. /\ request[r].pc \in {"cooldown", "rate", "lock", "create", "log"}
        /\ UNCHANGED <<run, record, lock, waiting, attempts, notified>>
        /\ \A q \in Requests \ {r} : request'[q] = request[q]
        /\ request'[r].pc = "dropped" /\ request'[r].answer = request[r].answer
    BY <1>10, DropSettles, SettlesTyped DEF Drop
  <2>2. InLine(r)'
    BY <1>0, <2>1 DEF InLine, HandlerInLine, RunInLine, HolderInLine, InCharge, Runs, At
  <2> QED
    BY <1>1, <1>3, <2>1, <2>2 DEF PipelineInvariant, At
<1> QED
  BY <1>4, <1>5, <1>6, <1>7, <1>8, <1>9, <1>10 DEF Handle

\* A run that has not ended yet goes on.
LEMMA RunsOnInLine ==
  ASSUME TypeOK, PipelineInvariant, NEW e \in Requests, Runs(e),
         NEW l \in RunPCs \ {"none", "ended"}, RunsOn(e, l),
         UNCHANGED <<request, lock, waiting, attempts>>,
         notified' \in SUBSET (notified \cup {e}),
         record'[e] \in {record[e], "pending", "running", "success", "failed", "timed_out"},
         \A q \in Requests \ {e} : record'[q] = record[q]
  PROVE  PipelineInvariant'
<1>1. /\ InLine(e) /\ run'[e].pc = l /\ run'[e].conf = run[e].conf
      /\ \A q \in Requests \ {e} : run'[q] = run[q]
  BY RunsOnTyped DEF PipelineInvariant
<1>2. request[e].answer \in {"queued", "fired"} /\ record[e] # "absent"
  BY <1>1 DEF InLine, HandlerInLine, Runs
<1>3. HandlerInLine(e)'
  BY <1>1, <1>2 DEF InLine, HandlerInLine, InCharge, At, Conf, Runs
<1>4. RunInLine(e)' /\ HolderInLine(e)'
  BY <1>1 DEF InLine, RunInLine, HolderInLine, Runs
<1>5. ASSUME NEW q \in Requests \ {e} PROVE InLine(q)'
  BY <1>1, InLineKept DEF PipelineInvariant
<1>6. LogInLine'
  BY LogKept DEF PipelineInvariant
<1> QED
  BY <1>3, <1>4, <1>5, <1>6 DEF PipelineInvariant, InLine

LEMMA CompleteInLine ==
  ASSUME TypeOK, PipelineInvariant, NEW e \in Requests, Complete(e)
  PROVE  PipelineInvariant'
<1> DEFINE c == run[e].conf
           done == [run EXCEPT ![e].pc = "ended"]
<1>1. UNCHANGED <<request, record, attempts, notified>>
  BY DEF Complete
<1>2. LogInLine'
  BY <1>1, LogKept DEF PipelineInvariant
<1>3. /\ RunAt(e, "complete") /\ InLine(e)
      /\ (c.concurrency # "none" <=> lock = e) /\ ~c.approval
      /\ request[e].answer \in {"queued", "fired"}
  BY CompleteEnds DEF PipelineInvariant, InLine, RunInLine, HandlerInLine, Runs, RunAt
\* A run that ends without the lock is in line.
<1>4. ASSUME RunsOn(e, "ended"), waiting' \in SUBSET waiting, lock' # e,
             \A q \in Requests \ {e} : lock' = q <=> lock = q
      PROVE  \A q \in Requests : InLine(q)'
  <2>1. run'[e].pc = "ended" /\ \A q \in Requests \ {e} : run'[q] = run[q]
    BY <1>4, RunsOnTyped
  <2>2. InLine(e)'
    <3>1. HandlerInLine(e)'
      BY <1>1, <1>3, <1>4, <2>1 DEF InLine, HandlerInLine, InCharge, At, Conf, RunAt
    <3> QED
      BY <1>4, <2>1, <3>1 DEF InLine, RunInLine, HolderInLine, Runs
  <2>3. ASSUME NEW q \in Requests \ {e} PROVE InLine(q)'
    BY <1>1, <1>4, <2>1, InLineKept DEF PipelineInvariant
  <2> QED
    BY <2>2, <2>3
<1>5. CASE /\ c.concurrency = "none" /\ UNCHANGED <<lock, waiting>>
           /\ RunsOn(e, "ended")
  BY <1>2, <1>3, <1>4, <1>5 DEF PipelineInvariant
<1>6. CASE /\ c.concurrency # "none" /\ lock' = None
           /\ waiting' \in SUBSET waiting /\ RunsOn(e, "ended")
  BY <1>2, <1>3, <1>4, <1>6, PipelineConstants DEF PipelineInvariant
<1>7. ASSUME c.concurrency # "none", NEW d \in waiting,
             waiting' = waiting \ {d}, lock' = d,
             run' = [done EXCEPT ![d] = Task(c, settings)]
      PROVE  PipelineInvariant'
  <2>1. d \in Requests /\ InLine(d) /\ request[d].answer = "queued"
    BY <1>7 DEF TypeOK, PipelineInvariant, InLine, HandlerInLine
  <2>2. /\ done \in [Requests -> RunStates] /\ done[e].pc = "ended"
        /\ \A q \in Requests \ {e} : done[q] = run[q]
    <3>1. [run[e] EXCEPT !.pc = "ended"] \in RunStates
      BY StateTyped DEF RunStates, RunPCs
    <3> QED
      BY <3>1, StateTyped DEF TypeOK, RunStates
  <2> HIDE DEF done
  <2>3. /\ run'[d] = Task(c, settings)
        /\ \A q \in Requests \ {d} : run'[q] = done[q]
    BY <1>7, <2>1, <2>2
  <2>4. run'[d].pc = "begin" /\ run'[d].conf = c
    BY <2>3 DEF Task
  <2>5. InLine(d)'
    <3>1. HandlerInLine(d)'
      BY <1>1, <1>7, <2>1, <2>4 DEF InLine, HandlerInLine, InCharge, At, Conf
    <3> QED
      BY <1>3, <1>7, <2>4, <3>1 DEF InLine, RunInLine, HolderInLine, Runs
  <2>6. ASSUME e # d PROVE InLine(e)'
    <3>1. run'[e].pc = "ended" /\ lock' # e
      BY <1>7, <2>2, <2>3, <2>6
    <3>2. HandlerInLine(e)'
      BY <1>1, <1>3, <1>7, <3>1 DEF InLine, HandlerInLine, InCharge, At, Conf, RunAt
    <3> QED
      BY <3>1, <3>2 DEF InLine, RunInLine, HolderInLine, Runs
  <2>7. ASSUME NEW q \in Requests \ {d, e} PROVE InLine(q)'
    <3>1. run'[q] = run[q] /\ InLine(q) /\ lock # q /\ lock' # q
      BY <1>3, <1>7, <2>2, <2>3 DEF PipelineInvariant
    <3> QED
      BY <1>1, <1>7, <3>1, InLineKept
  <2> QED
    BY <1>2, <2>5, <2>6, <2>7 DEF PipelineInvariant
<1> QED
  BY <1>5, <1>6, <1>7, CompleteEnds

LEMMA RunInLineStep ==
  ASSUME TypedInvariant, PipelineInvariant, NEW e \in Requests, Run(e)
  PROVE  PipelineInvariant'
<1> USE DEF TypedInvariant
<1>1. record \in [Requests -> RecordStates]
  BY DEF TypeOK, RecordStates
<1>2. {"begin", "executing", "retry", "notify", "complete"} \subseteq RunPCs \ {"none", "ended"}
  BY DEF RunPCs
<1>3. CASE Begin(e)
  <2>1. /\ RunAt(e, "begin") /\ UNCHANGED <<request, lock, waiting, attempts, notified>>
        /\ record' = record \/ record' = [record EXCEPT ![e] = "running"]
        /\ RunsOn(e, "executing") \/ RunsOn(e, "notify")
    BY <1>3, BeginRunsOn DEF Begin
  <2> QED
    BY <1>1, <1>2, <2>1, RunsOnInLine DEF RunAt, Runs
<1>4. CASE End(e)
  <2>1. PICK st \in {"success", "failed", "timed_out"} : record' = [record EXCEPT ![e] = st]
    BY <1>4, EndRunsOn
  <2>2. /\ RunAt(e, "executing") /\ UNCHANGED <<request, lock, waiting, attempts, notified>>
        /\ RunsOn(e, "retry") \/ RunsOn(e, "notify")
    BY <1>4, EndRunsOn DEF End
  <2> QED
    BY <1>1, <1>2, <2>1, <2>2, RunsOnInLine DEF RunAt, Runs
<1>5. CASE Retry(e)
  <2>1. /\ RunAt(e, "retry") /\ UNCHANGED <<request, lock, waiting, attempts, notified>>
        /\ record' = record \/ record' = [record EXCEPT ![e] = "pending"]
        /\ RunsOn(e, "begin") \/ RunsOn(e, "notify")
    BY <1>5, RetryRunsOn DEF Retry
  <2> QED
    BY <1>1, <1>2, <2>1, RunsOnInLine DEF RunAt, Runs
<1>6. CASE Notify(e)
  <2>1. /\ RunAt(e, "notify") /\ UNCHANGED <<request, record, lock, waiting, attempts>>
        /\ RunsOn(e, "complete") /\ notified' \in SUBSET (notified \cup {e})
    BY <1>6, NotifyRunsOn DEF Notify
  <2> QED
    BY <1>1, <1>2, <2>1, RunsOnInLine DEF RunAt, Runs
<1> QED
  BY <1>3, <1>4, <1>5, <1>6, CompleteInLine DEF Run

LEMMA StepInLine ==
  TypedInvariant /\ PipelineInvariant /\ [Next]_vars => PipelineInvariant'
<1> SUFFICES ASSUME TypedInvariant, PipelineInvariant, [Next]_vars PROVE PipelineInvariant'
  OBVIOUS
<1>1. CASE UNCHANGED <<request, run, record, lock, waiting, attempts, notified>>
  <2>1. \A q \in Requests : InLine(q)'
    BY <1>1, InLineKept DEF PipelineInvariant
  <2> QED
    BY <1>1, <2>1, LogKept DEF PipelineInvariant, TypedInvariant
<1>2. CASE Edit \/ Tick
  BY <1>1, <1>2 DEF Edit, Tick
<1>3. CASE UNCHANGED vars
  BY <1>1, <1>3 DEF vars
<1> QED
  BY <1>2, <1>3, HandleInLine, RunInLineStep DEF Next

LEMMA InitInLine == Init => PipelineInvariant
<1> SUFFICES ASSUME Init PROVE PipelineInvariant
  OBVIOUS
<1>1. ASSUME NEW r \in Requests PROVE InLine(r)
  <2>1. /\ request[r].pc = "new" /\ request[r].answer = "none" /\ run[r].pc = "none"
        /\ lock # r /\ waiting = {} /\ notified = {}
    BY PipelineConstants DEF Init, Task
  <2> QED
    BY <2>1 DEF InLine, HandlerInLine, RunInLine, HolderInLine, InCharge, Runs, At
<1>2. LogInLine
  BY DEF Init, LogInLine
<1> QED
  BY <1>1, <1>2 DEF PipelineInvariant

THEOREM PipelineInvariantHolds == Spec => []PipelineInvariant
BY InitTyped, StepTyped, InitInLine, StepInLine, PTL DEF Spec

\* Whoever runs a command under settings with concurrency has the hook's lock,
\* and nobody runs one that an operator should have approved
\* (trigger_hook, on_execution_complete).
THEOREM PipelineGuardsRuns == Spec => []RunsAreGuarded
<1>1. PipelineInvariant => RunsAreGuarded
  BY DEF PipelineInvariant, RunsAreGuarded, InLine, RunInLine
<1> QED
  BY <1>1, PipelineInvariantHolds, PTL

\* Whoever has the lock gives it up, waits for an operator, or is a handler
\* that died or failed (trigger_hook, the spawned task).
THEOREM PipelineAccountsForLock == Spec => []LockAccountedFor
<1>1. ASSUME PipelineInvariant, NEW r \in Requests, lock = r
      PROVE  \/ Runs(r)
             \/ request[r].pc \in {"create", "log", "dropped"}
             \/ record[r] = "pending_approval"
             \/ request[r].answer = "error"
  <2>1. HandlerInLine(r) /\ HolderInLine(r)
    BY <1>1 DEF PipelineInvariant, InLine
  <2> QED
    BY <1>1, <2>1 DEF HandlerInLine, HolderInLine, InCharge, At
<1>2. PipelineInvariant => LockAccountedFor
  BY <1>1 DEF LockAccountedFor
<1> QED
  BY <1>2, PipelineInvariantHolds, PTL

\* The attempt log tells what became of each request (trigger_hook,
\* log_rejection).
THEOREM PipelineLogsTheTruth == Spec => []AttemptsTellTheTruth
<1>1. ASSUME TypeOK, PipelineInvariant, NEW a \in attempts
      PROVE  IF a.status \in {"fired", "pending_approval"}
               THEN a.execution = a.request /\ record[a.request] # "absent"
               ELSE a.execution = None /\ ~Runs(a.request) /\ a.request \notin notified
  <2> DEFINE r == a.request
             n == request[r].answer
  <2>1. r \in Requests
    BY <1>1 DEF TypeOK
  <2>2. a = Attempt(r, n) /\ HandlerInLine(r)
    BY <1>1, <2>1 DEF PipelineInvariant, LogInLine, InLine
  <2>3. /\ a.status = LoggedAs(n)
        /\ a.execution = IF n \in {"queued", "pending_approval", "fired"} THEN r ELSE None
    BY <2>2 DEF Attempt
  <2>4. CASE n \in {"queued", "pending_approval", "fired"}
    <3>1. a.execution = r /\ record[r] # "absent"
      BY <2>2, <2>3, <2>4 DEF HandlerInLine
    <3>2. a.status \in {"fired", "pending_approval"}
      BY <2>3, <2>4 DEF LoggedAs
    <3> QED
      BY <3>1, <3>2
  <2>5. CASE n \notin {"queued", "pending_approval", "fired"}
    <3>1. a.execution = None /\ ~Runs(r) /\ r \notin notified
      BY <2>2, <2>3, <2>5 DEF HandlerInLine, Runs
    <3>2. a.status \notin {"fired", "pending_approval"}
      BY <2>3, <2>5 DEF LoggedAs
    <3> QED
      BY <3>1, <3>2
  <2> QED
    BY <2>4, <2>5
<1>2. TypeOK /\ PipelineInvariant => AttemptsTellTheTruth
  BY <1>1 DEF AttemptsTellTheTruth
<1> QED
  BY <1>2, PipelineTypeCorrect, PipelineInvariantHolds, PTL

----
(***************************************************************************)
(* The cooldown and the rate limits, for any settings, any number of       *)
(* requests and any length of time.                                        *)
(***************************************************************************)
\* A set of times has a latest one.
LEMMA LatestTime ==
  ASSUME NEW S \in SUBSET Times, S # {}
  PROVE  \E t \in S : \A u \in S : u <= t
<1> DEFINE R == OpToRel(<, Nat)
           T == {MaxTime - t : t \in S}
<1>1. IsWellFoundedOn(R, Nat)
  BY NatLessThanWellFounded
<1> HIDE DEF R
<1>2. T \subseteq Nat /\ T # {}
  <2>1. \A t \in S : MaxTime - t \in Nat
    BY PipelineConstants DEF Times
  <2> QED
    BY <2>1
<1>3. PICK x \in T : \A y \in T : ~(<<y, x>> \in R)
  <2> HIDE DEF T
  <2> QED
    BY <1>1, <1>2, WFMin
<1>4. \A y \in T : ~(y < x)
  BY <1>2, <1>3 DEF OpToRel, R
<1>5. PICK t \in S : x = MaxTime - t
  BY <1>3
<1>6. ASSUME NEW u \in S PROVE u <= t
  <2>1. ~(MaxTime - u < MaxTime - t)
    BY <1>4, <1>5
  <2> QED
    BY <2>1, PipelineConstants DEF Times
<1> QED
  BY <1>6

\* No command was started after the latest start.
LEMMA LatestStartIsLatest ==
  ASSUME TypeOK, Started # {}
  PROVE  LatestStart \in Times /\ \A e \in Started : started[e] <= LatestStart
<1> DEFINE S == {started[e] : e \in Started}
<1>1. S \in SUBSET Times /\ S # {}
  BY DEF TypeOK, Started
<1>2. \E t \in S : \A u \in S : u <= t
  <2> HIDE DEF S
  <2> QED
    BY <1>1, LatestTime
<1>3. \E t \in S : \A e \in Started : started[e] <= t
  BY <1>2
<1>4. LatestStart \in S /\ \A e \in Started : started[e] <= LatestStart
  BY <1>3 DEF LatestStart
<1> QED
  BY <1>1, <1>4

----
(***************************************************************************)
(* Cooldown.                                                               *)
(***************************************************************************)
\* Request r and the start of e, as CooldownSeparates has them.
Apart(r, e) ==
  /\ request[r].pc \notin {"cooldown", "dropped"}
  /\ request[r].checked # None /\ started[e] # None
  => \/ started[e] >= request[r].checked
     \/ request[r].checked - started[e] >= Conf(r).cooldown

NotAhead(r) == request[r].checked # None => request[r].checked <= now

LEMMA CooldownInvariantIs ==
  CooldownInvariant <=> /\ \A r, e \in Requests : Apart(r, e)
                        /\ \A r \in Requests : NotAhead(r)
BY DEF CooldownInvariant, CooldownSeparates, Apart, NotAhead

LEMMA ApartKept ==
  ASSUME NEW r \in Requests, NEW e \in Requests, Apart(r, e),
         started'[e] \in {started[e], None}, request'[r].checked = request[r].checked,
         request'[r].conf = Conf(r), request[r].pc # "cooldown", request[r].pc # "dropped"
  PROVE  Apart(r, e)'
BY DEF Apart, Conf

LEMMA ApartUnchanged ==
  ASSUME NEW r \in Requests, NEW e \in Requests, Apart(r, e),
         started'[e] \in {started[e], None}, request'[r] = request[r]
  PROVE  Apart(r, e)'
BY DEF Apart, Conf

\* A step of r's handler.
LEMMA HandlerCooldown ==
  ASSUME TypeOK, CooldownInvariant, NEW r \in Requests,
         UNCHANGED <<now, started>>,
         \A q \in Requests \ {r} : request'[q] = request[q],
         request'[r].checked \in {request[r].checked, now, None},
         \A e \in Requests : Apart(r, e)'
  PROVE  CooldownInvariant'
<1>1. \A q, e \in Requests : Apart(q, e)'
  BY CooldownInvariantIs, ApartUnchanged
<1>2. now \in Nat
  BY PipelineConstants DEF TypeOK, Times
<1>3. ASSUME NEW q \in Requests PROVE NotAhead(q)'
  <2>1. CASE q = r
    BY <1>2, <2>1, CooldownInvariantIs DEF NotAhead
  <2>2. CASE q # r
    BY <2>2, CooldownInvariantIs DEF NotAhead
  <2> QED
    BY <2>1, <2>2
<1> QED
  BY <1>1, <1>3 DEF CooldownInvariant, CooldownSeparates, Apart, NotAhead, Conf

LEMMA SettlesCooldown ==
  ASSUME TypeOK, CooldownInvariant, NEW r \in Requests, NEW l, NEW a, Settles(r, l, a),
         UNCHANGED <<now, started>>,
         l = "dropped" \/ request[r].pc \notin {"cooldown", "dropped"}
  PROVE  CooldownInvariant'
<1>1. /\ \A q \in Requests \ {r} : request'[q] = request[q]
      /\ request'[r].pc = l /\ request'[r].conf = Conf(r)
      /\ request'[r].checked = request[r].checked
  BY SettlesTyped
<1>2. ASSUME NEW e \in Requests PROVE Apart(r, e)'
  <2>1. CASE l = "dropped"
    BY <1>1, <2>1 DEF Apart
  <2>2. CASE request[r].pc \notin {"cooldown", "dropped"}
    BY <1>1, <2>2, ApartKept, CooldownInvariantIs
  <2> QED
    BY <2>1, <2>2
<1> QED
  BY <1>1, <1>2, HandlerCooldown

\* Who passes the check is apart from everything started so far.
LEMMA CheckedIsApart ==
  ASSUME TypeOK, NEW r \in Requests, NEW e \in Requests, ~TooSoon(r),
         request[r].checked # None, started[e] # None
  PROVE  request[r].checked - started[e] >= Conf(r).cooldown
<1>1. e \in Started
  BY DEF Started
<1>2. LatestStart \in Nat /\ started[e] \in Nat /\ started[e] <= LatestStart
  BY <1>1, LatestStartIsLatest, PipelineConstants DEF TypeOK, Times
<1>3. request[r].checked \in Nat /\ Conf(r) \in Settings
  BY StateTyped, PipelineConstants DEF RequestStates, Times, Conf
<1>4. Conf(r).cooldown \in Nat
  BY <1>3, SettingsAreTyped DEF HookSettings
<1>5. ~(request[r].checked - LatestStart < Conf(r).cooldown)
  BY <1>1 DEF TooSoon
<1> QED
  BY <1>2, <1>3, <1>4, <1>5

LEMMA HandleCooldown ==
  ASSUME TypedInvariant, CooldownInvariant, NEW r \in Requests, Handle(r)
  PROVE  CooldownInvariant'
<1> USE DEF TypedInvariant
<1>1. ASSUME NEW s, Moves(r, s)
      PROVE  request'[r] = s /\ \A q \in Requests \ {r} : request'[q] = request[q]
  BY <1>1, RequestUpdated DEF Moves
<1>2. CASE Receive(r)
  <2>1. PICK s : /\ Moves(r, s) /\ s.checked \in {now, None}
                 /\ s.checked # None => s.pc = "cooldown"
    BY <1>2, ReceiveMoves
  <2>2. \A e \in Requests : Apart(r, e)'
    BY <1>1, <2>1 DEF Apart
  <2> QED
    BY <1>1, <1>2, <2>1, <2>2, HandlerCooldown DEF Receive
<1>3. CASE CheckCooldown(r)
  <2>1. PICK s : /\ Moves(r, s) /\ s.conf = Conf(r)
                 /\ \/ s.checked = request[r].checked /\ ~TooSoon(r)
                    \/ s.checked = None
    BY <1>3, CheckCooldownMoves
  <2>2. UNCHANGED <<now, started>>
    BY <1>3 DEF CheckCooldown
  <2>3. ASSUME NEW e \in Requests PROVE Apart(r, e)'
    <3>1. CASE s.checked = request[r].checked /\ ~TooSoon(r)
      BY <1>1, <2>1, <2>2, <3>1, CheckedIsApart DEF Apart, Conf
    <3>2. CASE s.checked = None
      BY <1>1, <2>1, <3>2 DEF Apart
    <3> QED
      BY <2>1, <3>1, <3>2
  <2> QED
    BY <1>1, <2>1, <2>2, <2>3, HandlerCooldown
<1>4. CASE CheckRate(r)
  <2>1. PICK s : /\ Moves(r, s) /\ At(r, "rate")
                 /\ s.conf = Conf(r) /\ s.checked = request[r].checked
    BY <1>4, CheckRateMoves
  <2>2. \A e \in Requests : Apart(r, e)'
    BY <1>1, <1>4, <2>1, ApartKept, CooldownInvariantIs DEF CheckRate, At
  <2> QED
    BY <1>1, <1>4, <2>1, <2>2, HandlerCooldown DEF CheckRate
<1>5. CASE CheckConcurrency(r)
  BY <1>5, ConcurrencySettles, SettlesCooldown DEF CheckConcurrency, At
<1>6. CASE Create(r)
  BY <1>6, CreateSettles, SettlesCooldown DEF Create, At
<1>7. CASE Log(r)
  BY <1>7, LogSettles, SettlesCooldown DEF Log, At
<1>8. CASE Drop(r)
  BY <1>8, DropSettles, SettlesCooldown DEF Drop
<1> QED
  BY <1>2, <1>3, <1>4, <1>5, <1>6, <1>7, <1>8 DEF Handle

LEMMA StepCooldown ==
  TypedInvariant /\ CooldownInvariant /\ [Next]_vars => CooldownInvariant'
<1> SUFFICES ASSUME TypedInvariant, CooldownInvariant, [Next]_vars PROVE CooldownInvariant'
  OBVIOUS
<1> USE DEF TypedInvariant
<1>1. now \in Nat
  BY PipelineConstants DEF TypeOK, Times
\* Handlers rest while the clock goes on and starts are forgotten.
<1>2. ASSUME UNCHANGED request, now' \in {now, now + 1},
             \A e \in Requests : started'[e] \in {started[e], None}
      PROVE  CooldownInvariant'
  <2>1. \A r, e \in Requests : Apart(r, e)'
    BY <1>2, ApartUnchanged, CooldownInvariantIs
  <2>2. ASSUME NEW r \in Requests PROVE NotAhead(r)'
    <3>1. request[r].checked \in Nat \/ request[r].checked = None
      BY StateTyped, PipelineConstants DEF RequestStates, Times
    <3> QED
      BY <1>1, <1>2, <3>1, CooldownInvariantIs DEF NotAhead
  <2> QED
    BY <2>1, <2>2 DEF CooldownInvariant, CooldownSeparates, Apart, NotAhead, Conf
<1>3. ASSUME NEW e \in Requests, UNCHANGED <<request, now>>,
             started' = [started EXCEPT ![e] = now]
      PROVE  CooldownInvariant'
  <2>1. ASSUME NEW r \in Requests, NEW d \in Requests PROVE Apart(r, d)'
    <3>1. CASE d = e
      <4>1. started'[d] = now
        BY <1>3, <3>1 DEF TypeOK
      <4>2. NotAhead(r)
        BY CooldownInvariantIs
      <4> QED
        BY <1>3, <4>1, <4>2 DEF Apart, NotAhead
    <3>2. CASE d # e
      BY <1>3, <3>2, ApartUnchanged, CooldownInvariantIs DEF TypeOK
    <3> QED
      BY <3>1, <3>2
  <2>2. \A r \in Requests : NotAhead(r)'
    BY <1>3, CooldownInvariantIs DEF NotAhead
  <2> QED
    BY <2>1, <2>2 DEF CooldownInvariant, CooldownSeparates, Apart, NotAhead, Conf
<1>4. ASSUME NEW e \in Requests, Begin(e) PROVE CooldownInvariant'
  BY <1>2, <1>3, <1>4, BeginRunsOn DEF Begin
<1>5. ASSUME NEW e \in Requests, Retry(e) PROVE CooldownInvariant'
  <2>1. started' = started \/ started' = [started EXCEPT ![e] = None]
    BY <1>5, RetryRunsOn
  <2> QED
    BY <1>2, <1>5, <2>1 DEF Retry, TypeOK
<1>6. ASSUME NEW e \in Requests, End(e) \/ Notify(e) \/ Complete(e)
      PROVE  CooldownInvariant'
  BY <1>2, <1>6 DEF End, Notify, Complete
<1>7. CASE Edit \/ Tick
  BY <1>2, <1>7 DEF Edit, Tick
<1>8. CASE UNCHANGED vars
  BY <1>2, <1>8 DEF vars
<1> QED
  BY <1>4, <1>5, <1>6, <1>7, <1>8, HandleCooldown DEF Next, Run

LEMMA InitCooldown == Init => CooldownInvariant
<1> SUFFICES ASSUME Init PROVE CooldownInvariant
  OBVIOUS
<1>1. \A r \in Requests : request[r].checked = None
  BY DEF Init
<1> QED
  BY <1>1, CooldownInvariantIs DEF Apart, NotAhead

\* However handlers and retries interleave, a request that passed the cooldown
\* asked late enough after every earlier start (cooldown::evaluate).
THEOREM PipelineCoolsDown == Spec => []CooldownSeparates
<1>1. CooldownInvariant => CooldownSeparates
  BY DEF CooldownInvariant
<1> QED
  BY <1>1, InitTyped, StepTyped, InitCooldown, StepCooldown, PTL DEF Spec

----
(***************************************************************************)
(* Rate limits.                                                            *)
(***************************************************************************)
\* What a step that counts nothing leaves alone.
LEMMA CountersKept ==
  ASSUME CountersInvariant, count' = count,
         \A q \in Requests :
           /\ request'[q].counted = request[q].counted
           /\ \/ request'[q].conf = request[q].conf
              \/ request[q].counted = None
           /\ request'[q].pc \in {"new", "cooldown", "rate"} =>
                request[q].pc \in {"new", "cooldown", "rate"}
  PROVE  CountersInvariant'
<1>1. None \notin Times
  BY PipelineConstants
<1>2. ASSUME NEW w \in Times
      PROVE  /\ Counted(w)' = Counted(w)
             /\ \A c \in Settings : CountedIn(w, c)' = CountedIn(w, c)
  BY <1>1, <1>2 DEF Counted, CountedIn, Conf
<1>3. \A w \in Times : Cardinality(Counted(w)') = count'[w]
  BY <1>2 DEF CountersInvariant
<1>4. \A w \in Times, c \in Settings : Cardinality(CountedIn(w, c)') =
                                         Cardinality(CountedIn(w, c))
  BY <1>2
<1>5. LimitIsTheRules'
  BY <1>4 DEF CountersInvariant, LimitIsTheRules
<1>6. \A r \in Requests :
        request'[r].pc \in {"new", "cooldown", "rate"} => request'[r].counted = None
  BY DEF CountersInvariant
<1> QED
  BY <1>3, <1>5, <1>6 DEF CountersInvariant

LEMMA SettlesCounters ==
  ASSUME TypeOK, CountersInvariant, NEW r \in Requests, NEW l, NEW a, Settles(r, l, a),
         l \notin {"new", "cooldown", "rate"}, count' = count
  PROVE  CountersInvariant'
BY SettlesTyped, CountersKept DEF Conf

\* The limit that counts is the rule's, or max_per_minute.
LEMMA RateIsTheRules ==
  ASSUME NEW c \in Settings
  PROVE  /\ EffectiveRate(c).max = IF c.ruleRate > 0 THEN c.ruleRate ELSE c.perMinute
         /\ EffectiveRate(c).max \in Nat
BY SettingsAreTyped DEF EffectiveRate, HookSettings

\* One more request is counted.
LEMMA OneMoreCounted ==
  ASSUME TypeOK, CountersInvariant, NEW r \in Requests, At(r, "rate"), NEW w \in Times,
         NEW s, Moves(r, s), s.conf = Conf(r), s.counted = w,
         s.pc \notin {"new", "cooldown", "rate"},
         count[w] < EffectiveRate(Conf(r)).max, count' = [count EXCEPT ![w] = @ + 1]
  PROVE  CountersInvariant'
<1>1. /\ request'[r] = s /\ \A q \in Requests \ {r} : request'[q] = request[q]
  BY RequestUpdated DEF Moves
<1>2. /\ request[r].counted = None /\ None \notin Times /\ Conf(r) \in Settings
      /\ count \in [Times -> Nat]
  BY StateTyped, PipelineConstants DEF CountersInvariant, At, Conf, RequestStates, TypeOK
<1>3. IsFiniteSet(Counted(w)) /\ r \notin Counted(w)
  BY <1>2, PipelineConstants, FS_Subset DEF Counted
<1>4. Counted(w)' = Counted(w) \cup {r}
  BY <1>1 DEF Counted
<1>5. /\ IsFiniteSet(Counted(w)')
      /\ Cardinality(Counted(w)') = count[w] + 1
  BY <1>3, <1>4, FS_AddElement DEF CountersInvariant
<1>6. \A v \in Times \ {w} : Counted(v)' = Counted(v)
  BY <1>1, <1>2 DEF Counted
<1>7. \A v \in Times : Cardinality(Counted(v)') = count'[v]
  <2>1. count'[w] = count[w] + 1 /\ \A v \in Times \ {w} : count'[v] = count[v]
    BY <1>2
  <2> QED
    BY <1>5, <1>6, <2>1 DEF CountersInvariant
<1>8. ASSUME NEW v \in Times, NEW c \in Settings
      PROVE  Cardinality(CountedIn(v, c)') <= IF c.ruleRate > 0 THEN c.ruleRate
                                                               ELSE c.perMinute
  <2>1. CASE v = w /\ c = Conf(r)
    <3>1. CountedIn(v, c)' \in SUBSET Counted(w)'
      BY <2>1 DEF CountedIn, Counted
    <3>2. /\ Cardinality(CountedIn(v, c)') <= count[w] + 1
          /\ Cardinality(CountedIn(v, c)') \in Nat
      BY <1>5, <3>1, FS_Subset, FS_CardinalityType
    <3>3. count[w] \in Nat /\ count[w] < EffectiveRate(c).max
      BY <1>2, <2>1
    <3> QED
      BY <3>2, <3>3, RateIsTheRules
  <2>2. CASE v # w \/ c # Conf(r)
    <3>1. CountedIn(v, c)' = CountedIn(v, c)
      BY <1>1, <1>2, <2>2 DEF CountedIn, Conf
    <3> QED
      BY <3>1 DEF CountersInvariant, LimitIsTheRules
  <2> QED
    BY <2>1, <2>2
<1>9. \A q \in Requests :
        request'[q].pc \in {"new", "cooldown", "rate"} => request'[q].counted = None
  BY <1>1 DEF CountersInvariant
<1> QED
  BY <1>7, <1>8, <1>9 DEF CountersInvariant, LimitIsTheRules

LEMMA HandleCounters ==
  ASSUME TypedInvariant, CountersInvariant, NEW r \in Requests, Handle(r)
  PROVE  CountersInvariant'
<1> USE DEF TypedInvariant
<1>1. ASSUME NEW s, Moves(r, s)
      PROVE  request'[r] = s /\ \A q \in Requests \ {r} : request'[q] = request[q]
  BY <1>1, RequestUpdated DEF Moves
<1>2. Conf(r) \in Settings
  BY StateTyped DEF Conf, RequestStates
<1>3. CASE Receive(r)
  <2>1. PICK s : Moves(r, s) /\ s.counted = None
    BY <1>3, ReceiveMoves
  <2>2. request[r].counted = None /\ request[r].pc = "new"
    BY <1>3 DEF Receive, At, CountersInvariant
  <2> QED
    BY <1>1, <1>3, <2>1, <2>2, CountersKept DEF Receive
<1>4. CASE CheckCooldown(r)
  <2>1. PICK s : /\ Moves(r, s) /\ At(r, "cooldown")
                 /\ s.conf = Conf(r) /\ s.counted = request[r].counted
    BY <1>4, CheckCooldownMoves
  <2> QED
    BY <1>1, <1>4, <2>1, CountersKept DEF CheckCooldown, At, Conf
<1>5. CASE CheckRate(r)
  <2> DEFINE w == (now \div EffectiveRate(Conf(r)).window) * EffectiveRate(Conf(r)).window
  <2>1. PICK s : /\ Moves(r, s) /\ At(r, "rate") /\ s.conf = Conf(r)
                 /\ s.pc \in {"log", AfterRate(Conf(r))}
                 /\ \/ s.counted = request[r].counted /\ count' = count
                    \/ /\ s.counted = w /\ w \in Times
                       /\ count[w] < EffectiveRate(Conf(r)).max
                       /\ count' = [count EXCEPT ![w] = @ + 1]
    BY <1>5, CheckRateMoves
  <2> HIDE DEF w
  <2>2. s.pc \notin {"new", "cooldown", "rate"}
    BY <1>2, <2>1, NextCheck
  <2>3. CASE s.counted = request[r].counted /\ count' = count
    BY <1>1, <2>1, <2>2, <2>3, CountersKept DEF Conf
  <2>4. CASE /\ s.counted = w /\ w \in Times /\ count[w] < EffectiveRate(Conf(r)).max
             /\ count' = [count EXCEPT ![w] = @ + 1]
    BY <2>1, <2>2, <2>4, OneMoreCounted
  <2> QED
    BY <2>1, <2>3, <2>4
<1>6. CASE CheckConcurrency(r)
  <2>1. \/ Settles(r, "create", request[r].answer)
        \/ Settles(r, "log", "concurrency_rejected") \/ Settles(r, "log", "queued")
    BY <1>6, ConcurrencySettles
  <2> QED
    BY <1>6, <2>1, SettlesCounters DEF CheckConcurrency
<1>7. CASE Create(r)
  BY <1>7, CreateSettles, SettlesCounters DEF Create
<1>8. CASE Log(r)
  BY <1>8, LogSettles, SettlesCounters DEF Log
<1>9. CASE Drop(r)
  BY <1>9, DropSettles, SettlesCounters DEF Drop
<1> QED
  BY <1>3, <1>4, <1>5, <1>6, <1>7, <1>8, <1>9 DEF Handle

LEMMA StepCounters ==
  TypedInvariant /\ CountersInvariant /\ [Next]_vars => CountersInvariant'
<1> SUFFICES ASSUME TypedInvariant, CountersInvariant, [Next]_vars PROVE CountersInvariant'
  OBVIOUS
<1>1. UNCHANGED <<request, count>> => CountersInvariant'
  BY CountersKept
<1>2. ASSUME NEW e \in Requests, Run(e) PROVE CountersInvariant'
  BY <1>1, <1>2 DEF Run, Begin, End, Retry, Notify, Complete
<1>3. CASE Edit \/ Tick
  BY <1>1, <1>3 DEF Edit, Tick
<1>4. CASE UNCHANGED vars
  BY <1>1, <1>4 DEF vars
<1> QED
  BY <1>2, <1>3, <1>4, HandleCounters DEF Next

LEMMA InitCounters == Init => CountersInvariant
<1> SUFFICES ASSUME Init PROVE CountersInvariant
  OBVIOUS
<1>1. \A r \in Requests : request[r].counted = None
  BY DEF Init
<1>2. ASSUME NEW w \in Times
      PROVE  Counted(w) = {} /\ \A c \in Settings : CountedIn(w, c) = {}
  BY <1>1, PipelineConstants DEF Counted, CountedIn
<1>3. \A w \in Times : Cardinality(Counted(w)) = count[w]
  BY <1>2, FS_EmptySet DEF Init
<1>4. \A w \in Times, c \in Settings : Cardinality(CountedIn(w, c)) = 0
  BY <1>2, FS_EmptySet
<1>5. LimitIsTheRules
  BY <1>4, SettingsAreTyped DEF LimitIsTheRules, HookSettings
<1> QED
  BY <1>1, <1>3, <1>5 DEF CountersInvariant

\* No window lets through more requests than the limit they were judged by,
\* whatever other limits were counted in it (trigger_hook's effective limit,
\* rate_limit::evaluate).
THEOREM PipelineKeepsLimit == Spec => []LimitIsTheRules
<1>1. CountersInvariant => LimitIsTheRules
  BY DEF CountersInvariant
<1> QED
  BY <1>1, InitTyped, StepTyped, InitCounters, StepCounters, PTL DEF Spec

=============================================================================
