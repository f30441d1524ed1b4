-------------------------- MODULE MCExecutionBarriers --------------------------
(***************************************************************************)
(* Small instances of ExecutionBarriers for TLC: a few executions and      *)
(* tasks, interchangeable among themselves, and sets of settings.          *)
(***************************************************************************)
EXTENDS ExecutionBarriers, TLC

Interchangeable == Permutations(Execs) \cup Permutations(Workers)

HooksWith(modes, depths, approvals, timeout) ==
  [mode : modes, depth : depths, approval : approvals, timeout : {timeout}]

\* Every mode, with and without approval; approvals do not expire.
LastingHooks ==
  HooksWith({"none", "mutex"}, {1}, BOOLEAN, FALSE)
    \cup HooksWith({"queue"}, {1, 2}, BOOLEAN, FALSE)

\* The hooks that have a lock.
LockedHooks == HooksWith({"mutex", "queue"}, {1}, BOOLEAN, FALSE)

\* Every mode, with approvals that expire.
ExpiringHooks == HooksWith({"none", "mutex", "queue"}, {1}, {TRUE}, TRUE)

\* A queue whose approvals expire, for the disagreement with the documentation.
ExpiringQueueHook == HooksWith({"queue"}, {1}, {TRUE}, TRUE)

=============================================================================
