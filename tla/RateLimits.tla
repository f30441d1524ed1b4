------------------------------ MODULE RateLimits ------------------------------
(***************************************************************************)
(* The rate limit of one hook: trigger_rules/rate_limit.rs, run by         *)
(* concurrent request handlers, and the sweep of tasks.rs that deletes old *)
(* counters.  Time is counted in seconds; counters of other hooks have     *)
(* rows of their own.  A handler awaits two statements, each of which may  *)
(* fail, and one action is one statement.                                  *)
(*                                                                         *)
(* A definition whose comment begins with "Faulty:" is a mistake this code *)
(* could have made, kept to see that the properties notice it.             *)
(***************************************************************************)
EXTENDS Integers, FiniteSets

CONSTANTS
  Requests,       \* the requests that reach the rate limit
  WindowSeconds,  \* the configured window, in whole seconds
  MaxRequests,    \* max_requests
  Ttl,            \* RATE_LIMIT_COUNTER_TTL_HOURS, in seconds
  MaxDelay,       \* how long evaluate_at may take
  MaxTime         \* bound on the clock

ASSUME RateConstants ==
  /\ IsFiniteSet(Requests)
  /\ WindowSeconds \in Nat
  /\ MaxRequests \in Nat \ {0}
  /\ Ttl \in Nat
  /\ MaxDelay \in Nat
  /\ MaxTime \in Nat

VARIABLES
  now,      \* the wall clock
  rows,     \* the window starts that have a counter row
  count,    \* rate_limit_counters.count, 0 without a row
  request   \* each request: what it is about to do or its outcome, when it
            \* arrived, and whether its INSERT was executed

vars == <<now, rows, count, request>>

Times == 0..MaxTime

\* A window of less than a second counts as one.
Window == IF WindowSeconds = 0 THEN 1 ELSE WindowSeconds

\* Windows are aligned to the epoch.
WindowStart(t) == (t \div Window) * Window

Start(r) == WindowStart(request[r].at)

PCs == {"new", "insert", "update", "allowed", "rejected", "failed_open", "dropped"}

RequestStates == [pc : PCs, at : Times, seeded : BOOLEAN]

At(r, l) == request[r].pc = l
Active(r) == At(r, "insert") \/ At(r, "update")
Goto(r, l) == request' = [request EXCEPT ![r].pc = l]

----
\* A request reaches the rate limit, which reads the clock.
Arrive(r) ==
  /\ At(r, "new")
  /\ request' = [request EXCEPT ![r].pc = "insert", ![r].at = now]
  /\ UNCHANGED <<now, rows, count>>

\* Faulty: INSERT OR REPLACE.
ReplacesCounter(r) ==
  /\ At(r, "insert")
  /\ rows' = rows \cup {Start(r)}
  /\ count' = [count EXCEPT ![Start(r)] = 0]
  /\ request' = [request EXCEPT ![r].pc = "update", ![r].seeded = TRUE]
  /\ UNCHANGED now

\* INSERT OR IGNORE of the window's counter.  Its result is ignored.
InsertCounter(r) ==
  /\ At(r, "insert")
  /\ \E done \in BOOLEAN :
       /\ rows' = IF done THEN rows \cup {Start(r)} ELSE rows
       /\ request' = [request EXCEPT ![r].pc = "update", ![r].seeded = done]
  /\ UNCHANGED <<now, count>>

\* What the UPDATE's WHERE finds.
HasRoom(r) == Start(r) \in rows /\ count[Start(r)] < MaxRequests

\* UPDATE count = count + 1: a row is counted up and the request allowed, or
\* there is none to count up and the request is rejected (429).
Increment(r) ==
  /\ At(r, "update")
  /\ \/ /\ HasRoom(r)
        /\ count' = [count EXCEPT ![Start(r)] = @ + 1]
        /\ Goto(r, "allowed")
     \/ /\ ~HasRoom(r)
        /\ Goto(r, "rejected")
        /\ UNCHANGED count
  /\ UNCHANGED <<now, rows>>

\* The UPDATE fails, and the request is let through uncounted.
FailOpen(r) ==
  /\ At(r, "update")
  /\ Goto(r, "failed_open")
  /\ UNCHANGED <<now, rows, count>>

\* The client disconnects, or the server stops, and the handler is gone.
Drop(r) ==
  /\ Active(r)
  /\ Goto(r, "dropped")
  /\ UNCHANGED <<now, rows, count>>

\* Faulty: deletes every window but the current one.
ExpiredAtWindowEnd(t) == {w \in rows : w < WindowStart(t)}

\* DELETE WHERE window_start < cutoff: whatever the age of its window, a
\* counter is kept for Ttl from the start of it.
ExpiredAt(t) == {w \in rows : w < t - Ttl}

\* The hourly sweep, which has read the clock before its statement.
SweepCounters ==
  /\ \E t \in 0..now :
       /\ rows' = rows \ ExpiredAt(t)
       /\ count' = [w \in Times |-> IF w \in ExpiredAt(t) THEN 0 ELSE count[w]]
  /\ UNCHANGED <<now, request>>

\* The clock advances.  No handler takes longer than MaxDelay.
Tick ==
  /\ now < MaxTime
  /\ \A r \in Requests : Active(r) => now < request[r].at + MaxDelay
  /\ now' = now + 1
  /\ UNCHANGED <<rows, count, request>>

Init ==
  /\ now = 0
  /\ rows = {}
  /\ count = [w \in Times |-> 0]
  /\ request = [r \in Requests |-> [pc |-> "new", at |-> 0, seeded |-> FALSE]]

Handle(r) ==
  \/ Arrive(r) \/ InsertCounter(r) \/ Increment(r) \/ FailOpen(r) \/ Drop(r)

Next == (\E r \in Requests : Handle(r)) \/ SweepCounters \/ Tick

Spec == Init /\ [][Next]_vars

----
\* The type invariant.  A counter never exceeds the limit.
TypeOK ==
  /\ now \in Times
  /\ rows \in SUBSET Times
  /\ count \in [Times -> 0..MaxRequests]
  /\ request \in [Requests -> RequestStates]

\* The requests the counter of window w let through.
AllowedIn(w) == {r \in Requests : At(r, "allowed") /\ Start(r) = w}

\* No window lets more than max_requests through, however its handlers
\* interleave, and although the sweep deletes counters: none is reborn at zero
\* while requests of its window may still come (evaluate_at, the sweep's Ttl).
WithinLimit == \A w \in Times : Cardinality(AllowedIn(w)) <= MaxRequests

\* A request whose INSERT was executed is rejected only if its window is full:
\* the sweep never takes the row before the UPDATE has counted it up, whatever
\* other requests fail to do.
RejectedOnlyWhenFull ==
  \A r \in Requests :
    At(r, "rejected") /\ request[r].seeded =>
      Cardinality(AllowedIn(Start(r))) >= MaxRequests

----
(***************************************************************************)
(* The inductive invariant behind WithinLimit.                             *)
(***************************************************************************)
\* A counter counts what its window let through; a window without a counter
\* has let nothing through, or is too old for anyone to ask for it again.
CountersAreExact ==
  \A w \in Times :
    /\ Cardinality(AllowedIn(w)) <= MaxRequests
    /\ w \in rows => count[w] = Cardinality(AllowedIn(w))
    /\ w \notin rows => count[w] = 0 /\ (AllowedIn(w) = {} \/ w < now - Ttl)

\* Nobody is late.
ActiveIsRecent ==
  \A r \in Requests :
    /\ request[r].at <= now
    /\ Active(r) => now <= request[r].at + MaxDelay

\* An inserted row is still there when the UPDATE comes.
UpdateFindsRow ==
  \A r \in Requests : At(r, "update") /\ request[r].seeded => Start(r) \in rows

RateInvariant == CountersAreExact /\ ActiveIsRecent

=============================================================================
