-------------------------- MODULE MCTriggerPipeline --------------------------
(***************************************************************************)
(* A small instance of TriggerPipeline for TLC: interchangeable requests   *)
(* of a hook that is edited from one of a few settings to another.         *)
(***************************************************************************)
EXTENDS TriggerPipeline, TLC

Interchangeable == Permutations(Requests)

\* A hook that runs one command at a time, without any rule.
Plain == [hook |-> "enabled", auth |-> FALSE, schema |-> NoSchema, filters |-> Payloads,
          windows |-> Times, cooldown |-> 0, ruleRate |-> 0, ruleWindow |-> 1,
          perMinute |-> 0, concurrency |-> "mutex", depth |-> 1, approval |-> FALSE,
          notifies |-> {"failed"}]

\* One with every rule, and a queue.
Ruled == [Plain EXCEPT !.auth = TRUE, !.schema = {"good", "odd"}, !.filters = {"good"},
                       !.windows = {1}, !.cooldown = 1, !.ruleRate = 1, !.perMinute = 2,
                       !.concurrency = "queue", !.notifies = {"success"}]

\* One without a lock, limited by the minute, with a pause between two runs.
Free == [Plain EXCEPT !.cooldown = 2, !.perMinute = 1, !.concurrency = "none"]

\* One whose commands wait for an operator, with the lock.
Approved == [Plain EXCEPT !.approval = TRUE]

Removed == [Plain EXCEPT !.hook = "absent"]

SmallSettings == {Plain, Ruled, Free, Approved, Removed}

=============================================================================
