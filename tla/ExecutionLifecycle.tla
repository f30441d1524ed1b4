-------------------------- MODULE ExecutionLifecycle --------------------------
(***************************************************************************)
(* What the status column of the executions table promises, whatever       *)
(* tasks write it: the transitions of models/execution.rs, the retry loop  *)
(* and the restart, without locks, queues or tasks.  ExecutionBarriers     *)
(* implements this specification.                                          *)
(***************************************************************************)
CONSTANT
  Execs        \* execution ids

VARIABLES
  approvalRequired,  \* the hook's approval.required setting
  status,            \* executions.status; "absent" before the row exists
  approvedAt,        \* the executions whose approved_at column is set
  replays            \* the executions whose retry_of column is set

lifecycleVars == <<approvalRequired, status, approvedAt, replays>>

\* ExecutionStatus::is_terminal.
Terminal == {"success", "failed", "timed_out", "rejected", "expired"}

Statuses ==
  {"absent", "pending", "pending_approval", "approved", "running"} \cup Terminal

LifecycleTypeOK ==
  /\ approvalRequired \in BOOLEAN
  /\ status \in [Execs -> Statuses]
  /\ approvedAt \in SUBSET Execs
  /\ replays \in SUBSET Execs

----
\* Whether e may run: it needs no decision, or an operator has taken one.
Cleared(e) == approvalRequired => e \in approvedAt \cup replays

\* e's row moves from one of the statuses in from to the status to.
Moves(e, from, to) ==
  /\ status[e] \in from
  /\ status' = [status EXCEPT ![e] = to]

Created(e) ==
  /\ \E s \in {"pending", "pending_approval"} : Moves(e, {"absent"}, s)
  /\ replays' \in {replays, replays \cup {e}}
  /\ UNCHANGED <<approvalRequired, approvedAt>>

\* Out of pending: the command starts, or an operator is asked first.
Started(e) ==
  /\ \/ Cleared(e) /\ Moves(e, {"pending"}, "running")
     \/ Moves(e, {"pending"}, "pending_approval")
  /\ UNCHANGED <<approvalRequired, approvedAt, replays>>

\* Out of running: how the command ended.
Ended(e) ==
  /\ \E s \in {"success", "failed", "timed_out"} : Moves(e, {"running"}, s)
  /\ UNCHANGED <<approvalRequired, approvedAt, replays>>

\* A failed attempt is reset for the next one.
Retried(e) ==
  /\ Moves(e, {"failed"}, "pending")
  /\ UNCHANGED <<approvalRequired, approvedAt, replays>>

\* One decision, once: approval, rejection, or expiry when nobody answers.
Decided(e) ==
  /\ \/ /\ \E s \in {"approved", "rejected"} : Moves(e, {"pending_approval"}, s)
        /\ approvedAt' = approvedAt \cup {e}
     \/ /\ Moves(e, {"pending_approval"}, "expired")
        /\ UNCHANGED approvedAt
  /\ UNCHANGED <<approvalRequired, replays>>

\* An approved execution goes back to pending, to be started.
Resumed(e) ==
  /\ Moves(e, {"approved"}, "pending")
  /\ UNCHANGED <<approvalRequired, approvedAt, replays>>

\* A restart fails whatever was running.
Recovered ==
  /\ status' = [e \in Execs |-> IF status[e] = "running" THEN "failed" ELSE status[e]]
  /\ UNCHANGED <<approvalRequired, approvedAt, replays>>

LifecycleInit ==
  /\ approvalRequired \in BOOLEAN
  /\ status = [e \in Execs |-> "absent"]
  /\ approvedAt = {}
  /\ replays = {}

LifecycleNext ==
  \/ \E e \in Execs : \/ Created(e) \/ Started(e) \/ Ended(e) \/ Retried(e)
                      \/ Decided(e) \/ Resumed(e)
  \/ Recovered

LifecycleSpec == LifecycleInit /\ [][LifecycleNext]_lifecycleVars

=============================================================================
