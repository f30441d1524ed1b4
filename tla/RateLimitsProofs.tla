--------------------------- MODULE RateLimitsProofs ---------------------------
(***************************************************************************)
(* Theorems about RateLimits, for any window, limit, number of requests    *)
(* and length of time.                                                     *)
(***************************************************************************)
EXTENDS RateLimits, FiniteSetTheorems, TLAPS

LEMMA WindowIsPositive == Window \in Nat /\ Window >= 1
BY RateConstants DEF Window

\* Euclid, for the window's length.
LEMMA Division ==
  ASSUME NEW t \in Nat, NEW d \in Nat, d >= 1
  PROVE  /\ (t \div d) * d \in Nat
         /\ (t \div d) * d <= t
         /\ t < (t \div d) * d + d
<1>1. t = d * (t \div d) + (t % d) /\ t \div d \in Int /\ t % d \in 0..(d - 1)
  BY SMTT(30)
<1>2. t \div d \in Nat
  BY SMTT(30)
<1> QED
  BY <1>1, <1>2, SMTT(30)

\* A window starts at or before each of its seconds, and less than its length
\* before.
LEMMA WindowStartBounds ==
  ASSUME NEW t \in Nat
  PROVE  /\ WindowStart(t) \in 0..t
         /\ t < WindowStart(t) + Window
<1>1. Window \in Nat /\ Window >= 1
  BY WindowIsPositive
<1>2. /\ (t \div Window) * Window \in Nat
      /\ (t \div Window) * Window <= t
      /\ t < (t \div Window) * Window + Window
  BY <1>1, Division
<1> QED
  BY <1>1, <1>2 DEF WindowStart

----
(***************************************************************************)
(* The type invariant.                                                     *)
(***************************************************************************)
LEMMA StartTyped ==
  ASSUME TypeOK, NEW r \in Requests
  PROVE  Start(r) \in Times /\ Start(r) <= request[r].at
         /\ request[r].at < Start(r) + Window
<1>1. request[r].at \in Times /\ request[r].at \in Nat
  BY RateConstants DEF TypeOK, RequestStates, Times
<1>2. WindowStart(request[r].at) \in 0..request[r].at
  BY <1>1, WindowStartBounds
<1>3. request[r].at < WindowStart(request[r].at) + Window
  BY <1>1, WindowStartBounds
<1> QED
  BY <1>1, <1>2, <1>3, RateConstants DEF Start, Times

LEMMA StepTyped == TypeOK /\ [Next]_vars => TypeOK'
<1> SUFFICES ASSUME TypeOK, [Next]_vars PROVE TypeOK'
  OBVIOUS
<1>1. ASSUME NEW r \in Requests, Arrive(r) PROVE TypeOK'
  BY <1>1 DEF TypeOK, RequestStates, Arrive, PCs
<1>2. ASSUME NEW r \in Requests, InsertCounter(r) PROVE TypeOK'
  <2>1. Start(r) \in Times
    BY StartTyped
  <2>2. rows' \in SUBSET Times
    BY <1>2, <2>1 DEF TypeOK, InsertCounter
  <2>3. PICK done \in BOOLEAN :
          request' = [request EXCEPT ![r].pc = "update", ![r].seeded = done]
    BY <1>2 DEF InsertCounter
  <2> DEFINE y == [request[r] EXCEPT !.pc = "update", !.seeded = done]
  <2>4. request[r] \in RequestStates
    BY DEF TypeOK
  <2>5. y \in RequestStates
    BY <2>4 DEF RequestStates, PCs
  <2>6. request' = [request EXCEPT ![r] = y]
    BY <2>3 DEF TypeOK
  <2> HIDE DEF y
  <2>7. request' \in [Requests -> RequestStates]
    BY <2>5, <2>6 DEF TypeOK
  <2> QED
    BY <1>2, <2>2, <2>7 DEF TypeOK, InsertCounter
<1>3. ASSUME NEW r \in Requests, Increment(r) PROVE TypeOK'
  <2>1. Start(r) \in Times
    BY StartTyped
  <2>2. count' \in [Times -> 0..MaxRequests]
    BY <1>3, <2>1, RateConstants DEF TypeOK, Increment, HasRoom
  <2>3. request' \in [Requests -> RequestStates]
    BY <1>3 DEF TypeOK, RequestStates, Increment, Goto, PCs
  <2> QED
    BY <1>3, <2>2, <2>3 DEF TypeOK, Increment
<1>4. ASSUME NEW r \in Requests, FailOpen(r) PROVE TypeOK'
  BY <1>4 DEF TypeOK, RequestStates, FailOpen, Goto, PCs
<1>5. ASSUME NEW r \in Requests, Drop(r) PROVE TypeOK'
  BY <1>5 DEF TypeOK, RequestStates, Drop, Goto, PCs
<1>6. CASE SweepCounters
  BY <1>6, RateConstants DEF TypeOK, SweepCounters
<1>7. CASE Tick
  BY <1>7, RateConstants DEF TypeOK, Tick, Times
<1>8. CASE UNCHANGED vars
  BY <1>8 DEF TypeOK, vars
<1> QED
  BY <1>1, <1>2, <1>3, <1>4, <1>5, <1>6, <1>7, <1>8 DEF Next, Handle

\* Every state is well typed: no counter exceeds the limit (evaluate_at's
\* conditional UPDATE), whatever fails and whatever the sweep deletes.
THEOREM RateTypeCorrect == Spec => []TypeOK
<1>1. Init => TypeOK
  BY RateConstants DEF Init, TypeOK, RequestStates, Times, PCs
<1> QED
  BY <1>1, StepTyped, PTL DEF Spec

----
(***************************************************************************)
(* The limit.                                                              *)
(***************************************************************************)
LEMMA AllowedFinite ==
  ASSUME NEW w PROVE IsFiniteSet(AllowedIn(w)) /\ Cardinality(AllowedIn(w)) \in Nat
<1>1. AllowedIn(w) \subseteq Requests
  BY DEF AllowedIn
<1> QED
  BY <1>1, RateConstants, FS_Subset, FS_CardinalityType

\* A step of a request that is not allowed before and not after leaves what
\* its window let through.
LEMMA AllowedKept ==
  ASSUME TypeOK, NEW r \in Requests, NEW s \in RequestStates,
         request' = [request EXCEPT ![r] = s],
         ~At(r, "allowed"), s.pc # "allowed", NEW w
  PROVE  AllowedIn(w)' = AllowedIn(w)
<1>1. ASSUME NEW q \in Requests, q # r PROVE request'[q] = request[q]
  BY <1>1 DEF TypeOK
<1>2. request'[r] = s
  BY DEF TypeOK
<1>3. ASSUME NEW q \in Requests
      PROVE  (At(q, "allowed") /\ Start(q) = w)' <=> At(q, "allowed") /\ Start(q) = w
  <2>1. CASE q = r
    BY <2>1, <1>2 DEF At
  <2>2. CASE q # r
    BY <2>2, <1>1 DEF At, Start
  <2> QED
    BY <2>1, <2>2
<1> QED
  BY <1>3 DEF AllowedIn, At, Start

LEMMA GotoIsUpdate ==
  ASSUME TypeOK, NEW r \in Requests, NEW l \in PCs, Goto(r, l)
  PROVE  LET s == [request[r] EXCEPT !.pc = l]
         IN s \in RequestStates /\ request' = [request EXCEPT ![r] = s]
<1>1. request[r] \in RequestStates
  BY DEF TypeOK
<1>2. [request[r] EXCEPT !.pc = l] \in RequestStates
  BY <1>1 DEF RequestStates
<1>3. request' = [request EXCEPT ![r] = [request[r] EXCEPT !.pc = l]]
  BY DEF Goto
<1> QED
  BY <1>2, <1>3

\* The counter of an active request's window is younger than the Ttl.
LEMMA ActiveWindowIsRecent ==
  ASSUME TypeOK, ActiveIsRecent, Window + MaxDelay <= Ttl,
         NEW r \in Requests, Active(r)
  PROVE  ~(Start(r) < now - Ttl)
<1>1. now \in Int /\ request[r].at \in Int /\ Start(r) \in Int
  BY StartTyped, RateConstants DEF TypeOK, RequestStates, Times
<1>2. now <= request[r].at + MaxDelay
  BY DEF ActiveIsRecent
<1>3. request[r].at < Start(r) + Window
  BY StartTyped
<1> QED
  BY <1>1, <1>2, <1>3, RateConstants, WindowIsPositive

----
\* Requests that only move on, neither allowed before nor after, and leave
\* the counters to others.
LEMMA PassingStep ==
  ASSUME TypeOK, CountersAreExact, NEW r \in Requests,
         NEW s \in RequestStates,
         request' = [request EXCEPT ![r] = s],
         ~At(r, "allowed"), s.pc # "allowed", UNCHANGED <<now, rows, count>>
  PROVE  CountersAreExact'
<1>1. ASSUME NEW w \in Times PROVE AllowedIn(w)' = AllowedIn(w)
  BY AllowedKept
<1> QED
  BY <1>1 DEF CountersAreExact

LEMMA CountersStayExact ==
  ASSUME TypeOK, CountersAreExact, ActiveIsRecent, Window + MaxDelay <= Ttl,
         [Next]_vars
  PROVE  CountersAreExact'
<1>1. ASSUME NEW r \in Requests, Arrive(r) PROVE CountersAreExact'
  <2> DEFINE s == [request[r] EXCEPT !.pc = "insert", !.at = now]
  <2>1. s \in RequestStates /\ request' = [request EXCEPT ![r] = s]
    BY <1>1 DEF Arrive, TypeOK, RequestStates, PCs
  <2>2. ~At(r, "allowed") /\ s.pc # "allowed" /\ UNCHANGED <<now, rows, count>>
    BY <1>1 DEF Arrive, At, TypeOK, RequestStates
  <2> QED
    BY <2>1, <2>2, PassingStep
<1>2. ASSUME NEW r \in Requests, InsertCounter(r) PROVE CountersAreExact'
  <2>1. ASSUME NEW w \in Times PROVE AllowedIn(w)' = AllowedIn(w)
    <3> PICK done \in BOOLEAN :
          request' = [request EXCEPT ![r].pc = "update", ![r].seeded = done]
      BY <1>2 DEF InsertCounter
    <3> DEFINE s == [request[r] EXCEPT !.pc = "update", !.seeded = done]
    <3>1. s \in RequestStates /\ request' = [request EXCEPT ![r] = s]
      BY DEF TypeOK, RequestStates, PCs
    <3>2. ~At(r, "allowed") /\ s.pc # "allowed"
      BY <1>2 DEF InsertCounter, At, TypeOK, RequestStates
    <3> QED
      BY <3>1, <3>2, AllowedKept
  <2>2. ASSUME NEW w \in Times, w \notin rows, w \in rows'
        PROVE  count[w] = Cardinality(AllowedIn(w))
    <3>1. w = Start(r)
      BY <1>2, <2>2 DEF InsertCounter
    <3>2. ~(w < now - Ttl)
      BY <1>2, <3>1, ActiveWindowIsRecent DEF InsertCounter, Active
    <3>3. count[w] = 0 /\ AllowedIn(w) = {}
      BY <2>2, <3>2 DEF CountersAreExact
    <3> QED
      BY <3>3, FS_EmptySet
  <2>3. UNCHANGED <<now, count>> /\ rows \subseteq rows'
    BY <1>2 DEF InsertCounter
  <2> QED
    BY <2>1, <2>2, <2>3 DEF CountersAreExact
<1>3. ASSUME NEW r \in Requests, Increment(r), HasRoom(r) PROVE CountersAreExact'
  <2>1. /\ At(r, "update")
        /\ count' = [count EXCEPT ![Start(r)] = @ + 1]
        /\ Goto(r, "allowed")
        /\ UNCHANGED <<now, rows>>
    BY <1>3 DEF Increment
  <2>2. /\ request'[r].pc = "allowed"
        /\ request'[r].at = request[r].at
        /\ \A q \in Requests \ {r} : request'[q] = request[q]
    BY <2>1 DEF Goto, TypeOK
  <2>3. ASSUME NEW w \in Times, w = Start(r)
        PROVE  AllowedIn(w)' = AllowedIn(w) \cup {r}
    <3>1. At(r, "allowed")' /\ Start(r)' = w
      BY <2>2, <2>3 DEF Start, At
    <3>2. ASSUME NEW q \in Requests \ {r}
          PROVE  (At(q, "allowed") /\ Start(q) = w)' <=> At(q, "allowed") /\ Start(q) = w
      BY <2>2, <3>2 DEF Start, At
    <3> QED
      BY <3>1, <3>2 DEF AllowedIn, At, Start
  <2>4. ASSUME NEW w \in Times, w # Start(r) PROVE AllowedIn(w)' = AllowedIn(w)
    <3>1. r \notin AllowedIn(w) /\ r \notin AllowedIn(w)'
      BY <2>2, <2>4 DEF AllowedIn, Start
    <3>2. ASSUME NEW q \in Requests \ {r}
          PROVE  (At(q, "allowed") /\ Start(q) = w)' <=> At(q, "allowed") /\ Start(q) = w
      BY <2>2, <3>2 DEF Start, At
    <3> QED
      BY <3>1, <3>2 DEF AllowedIn, At, Start
  <2>5. ASSUME NEW w \in Times, w = Start(r)
        PROVE  Cardinality(AllowedIn(w))' = Cardinality(AllowedIn(w)) + 1
    <3>1. r \notin AllowedIn(w)
      BY <2>1 DEF AllowedIn, At
    <3> QED
      BY <2>3, <2>5, <3>1, AllowedFinite, FS_AddElement
  <2>6. /\ Start(r) \in rows /\ Start(r) \in Times
        /\ count[Start(r)] = Cardinality(AllowedIn(Start(r)))
        /\ count[Start(r)] < MaxRequests
    BY <1>3, StartTyped DEF HasRoom, CountersAreExact
  <2>7. ASSUME NEW w \in Times
        PROVE  /\ Cardinality(AllowedIn(w))' <= MaxRequests
               /\ w \in rows' => count'[w] = Cardinality(AllowedIn(w))'
               /\ w \notin rows' =>
                    count'[w] = 0 /\ (AllowedIn(w)' = {} \/ w < now' - Ttl)
    <3>1. CASE w = Start(r)
      <4>1. count'[w] = count[w] + 1 /\ w \in rows'
        BY <2>1, <2>6, <3>1 DEF TypeOK
      <4>2. count[w] \in Nat
        BY DEF TypeOK
      <4> QED
        BY <2>5, <2>6, <3>1, <4>1, <4>2, RateConstants
    <3>2. CASE w # Start(r)
      <4>1. count'[w] = count[w]
        BY <2>1, <2>6, <3>2 DEF TypeOK
      <4> QED
        BY <2>1, <2>4, <3>2, <4>1 DEF CountersAreExact
    <3> QED
      BY <3>1, <3>2
  <2> QED
    BY <2>7 DEF CountersAreExact
<1>4. ASSUME NEW r \in Requests, NEW l \in PCs \ {"allowed"},
             ~At(r, "allowed"), Goto(r, l), UNCHANGED <<now, rows, count>>
      PROVE  CountersAreExact'
  <2> DEFINE s == [request[r] EXCEPT !.pc = l]
  <2>1. s \in RequestStates /\ request' = [request EXCEPT ![r] = s]
    BY <1>4, GotoIsUpdate
  <2>2. s.pc # "allowed"
    BY <1>4 DEF TypeOK, RequestStates
  <2> QED
    BY <1>4, <2>1, <2>2, PassingStep
<1>5. ASSUME NEW r \in Requests, Increment(r), ~HasRoom(r) PROVE CountersAreExact'
  BY <1>4, <1>5 DEF Increment, At, PCs
<1>6. ASSUME NEW r \in Requests, FailOpen(r) PROVE CountersAreExact'
  BY <1>4, <1>6 DEF FailOpen, At, PCs
<1>7. ASSUME NEW r \in Requests, Drop(r) PROVE CountersAreExact'
  BY <1>4, <1>7 DEF Drop, Active, At, PCs
<1>8. CASE SweepCounters
  <2>1. PICK t \in 0..now :
          /\ rows' = rows \ ExpiredAt(t)
          /\ count' = [w \in Times |-> IF w \in ExpiredAt(t) THEN 0 ELSE count[w]]
    BY <1>8 DEF SweepCounters
  <2>2. UNCHANGED <<now, request>>
    BY <1>8 DEF SweepCounters
  <2>3. ASSUME NEW w \in Times PROVE AllowedIn(w)' = AllowedIn(w)
    BY <2>2 DEF AllowedIn, At, Start
  <2>4. ASSUME NEW w \in Times, w \in ExpiredAt(t) PROVE w < now - Ttl
    BY <2>4, RateConstants DEF ExpiredAt, TypeOK, Times
  <2>5. ASSUME NEW w \in Times
        PROVE  /\ Cardinality(AllowedIn(w))' <= MaxRequests
               /\ w \in rows' => count'[w] = Cardinality(AllowedIn(w))'
               /\ w \notin rows' =>
                    count'[w] = 0 /\ (AllowedIn(w)' = {} \/ w < now' - Ttl)
    <3>1. CASE w \in ExpiredAt(t)
      BY <2>1, <2>2, <2>3, <2>4, <3>1 DEF CountersAreExact
    <3>2. CASE w \notin ExpiredAt(t)
      BY <2>1, <2>2, <2>3, <3>2 DEF CountersAreExact
    <3> QED
      BY <3>1, <3>2
  <2> QED
    BY <2>5 DEF CountersAreExact
<1>9. CASE Tick
  <2>1. now' = now + 1 /\ UNCHANGED <<rows, count, request>>
    BY <1>9 DEF Tick
  <2>2. ASSUME NEW w \in Times PROVE AllowedIn(w)' = AllowedIn(w)
    BY <2>1 DEF AllowedIn, At, Start
  <2>3. ASSUME NEW w \in Times, w < now - Ttl PROVE w < now' - Ttl
    BY <2>1, <2>3, RateConstants DEF TypeOK, Times
  <2> QED
    BY <2>1, <2>2, <2>3 DEF CountersAreExact
<1>10. CASE UNCHANGED vars
  <2>1. ASSUME NEW w \in Times PROVE AllowedIn(w)' = AllowedIn(w)
    BY <1>10 DEF AllowedIn, At, Start, vars
  <2> QED
    BY <1>10, <2>1 DEF CountersAreExact, vars
<1> QED
  BY <1>1, <1>2, <1>3, <1>5, <1>6, <1>7, <1>8, <1>9, <1>10 DEF Next, Handle

LEMMA ActiveStaysRecent ==
  ASSUME TypeOK, ActiveIsRecent, [Next]_vars PROVE ActiveIsRecent'
<1> USE RateConstants DEF TypeOK, RequestStates, Times, ActiveIsRecent, Active, At
<1>1. ASSUME NEW r \in Requests, Arrive(r) PROVE ActiveIsRecent'
  BY <1>1 DEF Arrive
<1>2. ASSUME NEW r \in Requests, NEW l \in PCs, Goto(r, l), UNCHANGED now,
             Active(r) \/ l \notin {"insert", "update"}
      PROVE  ActiveIsRecent'
  BY <1>2 DEF Goto
<1>3. ASSUME NEW r \in Requests, InsertCounter(r) PROVE ActiveIsRecent'
  BY <1>3 DEF InsertCounter
<1>4. ASSUME NEW r \in Requests, Increment(r) PROVE ActiveIsRecent'
  BY <1>2, <1>4 DEF Increment, PCs
<1>5. ASSUME NEW r \in Requests, FailOpen(r) PROVE ActiveIsRecent'
  BY <1>2, <1>5 DEF FailOpen, PCs
<1>6. ASSUME NEW r \in Requests, Drop(r) PROVE ActiveIsRecent'
  BY <1>2, <1>6 DEF Drop, PCs
<1>7. CASE SweepCounters
  BY <1>7 DEF SweepCounters
<1>8. CASE Tick
  BY <1>8 DEF Tick
<1>9. CASE UNCHANGED vars
  BY <1>9 DEF vars
<1> QED
  BY <1>1, <1>3, <1>4, <1>5, <1>6, <1>7, <1>8, <1>9 DEF Next, Handle

LEMMA InitialRates == Init => RateInvariant
<1> SUFFICES ASSUME Init PROVE RateInvariant
  OBVIOUS
<1>1. \A w \in Times : AllowedIn(w) = {}
  BY DEF Init, AllowedIn, At
<1>2. Cardinality({}) = 0
  BY FS_EmptySet
<1>3. CountersAreExact
  <2>1. \A w \in Times : count[w] = 0 /\ w \notin rows
    BY DEF Init
  <2>2. 0 <= MaxRequests
    BY RateConstants
  <2> QED
    BY <1>1, <1>2, <2>1, <2>2 DEF CountersAreExact
<1>4. ActiveIsRecent
  BY RateConstants DEF Init, ActiveIsRecent, Active, At
<1> QED
  BY <1>3, <1>4 DEF RateInvariant

\* No window lets more through than the limit allows, for any limit, window,
\* number of concurrent handlers and order of their statements, also when
\* statements fail and handlers are dropped, as long as a window and the
\* longest evaluation fit into the sweep's Ttl (evaluate_at, the sweep).
THEOREM LimitHolds ==
  ASSUME Window + MaxDelay <= Ttl PROVE Spec => []WithinLimit
<1>1. Init => RateInvariant
  BY InitialRates
<1>2. TypeOK /\ RateInvariant /\ [Next]_vars => RateInvariant'
  BY CountersStayExact, ActiveStaysRecent DEF RateInvariant
<1>3. RateInvariant => WithinLimit
  BY DEF RateInvariant, CountersAreExact, WithinLimit
<1> QED
  BY <1>1, <1>2, <1>3, RateTypeCorrect, PTL DEF Spec

----
(***************************************************************************)
(* No request is rejected early.                                           *)
(***************************************************************************)
\* What is settled stays: a step changes neither the time of a request that
\* has arrived nor an outcome, and only the INSERT's says whether it was done.
LEMMA OutcomesStay ==
  ASSUME TypeOK, [Next]_vars, NEW r \in Requests
  PROVE  /\ At(r, "allowed") => At(r, "allowed")' /\ Start(r)' = Start(r)
         /\ At(r, "rejected") => At(r, "rejected")' /\ Start(r)' = Start(r)
         /\ Active(r) => Start(r)' = Start(r)
         /\ At(r, "rejected")' => At(r, "rejected") \/ (Increment(r) /\ ~HasRoom(r))
         /\ At(r, "update")' => At(r, "update") \/ InsertCounter(r)
         /\ At(r, "update") \/ At(r, "rejected") =>
              request'[r].seeded = request[r].seeded
<1> USE DEF TypeOK, RequestStates, At, Active, Start
<1>1. ASSUME NEW q \in Requests, Handle(q), q # r PROVE request'[r] = request[r]
  BY <1>1 DEF Handle, Arrive, InsertCounter, Increment, FailOpen, Drop, Goto
<1>3. CASE Arrive(r)
  BY <1>3 DEF Arrive
<1>4. CASE InsertCounter(r)
  <2>1. PICK done \in BOOLEAN :
          request' = [request EXCEPT ![r].pc = "update", ![r].seeded = done]
    BY <1>4 DEF InsertCounter
  <2>2. request'[r].pc = "update" /\ request'[r].at = request[r].at
    BY <2>1
  <2>3. request[r].pc = "insert"
    BY <1>4 DEF InsertCounter
  <2> QED
    BY <1>4, <2>2, <2>3
<1>5. CASE Increment(r)
  BY <1>5 DEF Increment, Goto
<1>6. CASE FailOpen(r)
  BY <1>6 DEF FailOpen, Goto
<1>7. CASE Drop(r)
  BY <1>7 DEF Drop, Goto
<1>8. CASE SweepCounters \/ Tick \/ UNCHANGED vars
  BY <1>8 DEF SweepCounters, Tick, vars
<1> QED
  BY <1>1, <1>3, <1>4, <1>5, <1>6, <1>7, <1>8 DEF Next, Handle

LEMMA AllowedGrows ==
  ASSUME TypeOK, [Next]_vars, NEW w \in Times
  PROVE  /\ Cardinality(AllowedIn(w))' \in Nat
         /\ Cardinality(AllowedIn(w)) <= Cardinality(AllowedIn(w))'
<1>1. AllowedIn(w) \subseteq AllowedIn(w)'
  <2>1. ASSUME NEW r \in Requests, At(r, "allowed"), Start(r) = w
        PROVE  At(r, "allowed")' /\ Start(r)' = w
    BY <2>1, OutcomesStay
  <2> QED
    BY <2>1 DEF AllowedIn
<1>2. AllowedIn(w)' \subseteq Requests
  BY DEF AllowedIn
<1>3. IsFiniteSet(AllowedIn(w)')
  BY <1>2, RateConstants, FS_Subset
<1>4. Cardinality(AllowedIn(w)') \in Nat
  BY <1>3, FS_CardinalityType
<1>5. Cardinality(AllowedIn(w)) <= Cardinality(AllowedIn(w)')
  BY <1>1, <1>3, FS_Subset
<1> QED
  BY <1>4, <1>5

\* A request whose INSERT was executed is turned away only from a window that
\* has let max_requests through, whatever fails elsewhere: the INSERT precedes
\* the UPDATE, and the sweep never takes the row from between them.
THEOREM RejectionsAreDue ==
  ASSUME Window + MaxDelay <= Ttl PROVE Spec => []RejectedOnlyWhenFull
<1>1. Init => RateInvariant /\ UpdateFindsRow /\ RejectedOnlyWhenFull
  <2>1. Init => UpdateFindsRow /\ RejectedOnlyWhenFull
    BY DEF Init, UpdateFindsRow, RejectedOnlyWhenFull, At
  <2> QED
    BY <2>1, InitialRates
<1>2. ASSUME TypeOK, RateInvariant, UpdateFindsRow, [Next]_vars
      PROVE  UpdateFindsRow'
  <2> SUFFICES ASSUME NEW r \in Requests, At(r, "update")', request'[r].seeded
               PROVE  Start(r)' \in rows'
    BY DEF UpdateFindsRow
  <2>1. Active(r) /\ Start(r)' = Start(r)
    BY <1>2, OutcomesStay DEF Active, InsertCounter
  <2>2. CASE InsertCounter(r)
    BY <1>2, <2>1, <2>2 DEF InsertCounter, TypeOK, RequestStates
  <2>3. CASE At(r, "update")
    <3>1. Start(r) \in rows
      BY <1>2, <2>3, OutcomesStay DEF UpdateFindsRow
    <3>2. CASE SweepCounters
      <4>1. PICK t \in 0..now : rows' = rows \ ExpiredAt(t)
        BY <3>2 DEF SweepCounters
      <4>2. ~(Start(r) < now - Ttl)
        BY <1>2, <2>1, ActiveWindowIsRecent DEF RateInvariant
      <4>3. now \in Int /\ Start(r) \in Int
        BY <1>2, StartTyped, RateConstants DEF TypeOK, Times
      <4>4. Start(r) \notin ExpiredAt(t)
        BY <4>2, <4>3, RateConstants DEF ExpiredAt
      <4> QED
        BY <2>1, <3>1, <4>1, <4>4
    <3>3. CASE ~SweepCounters
      <4>1. rows \subseteq rows'
        BY <1>2, <3>3 DEF Next, Handle, Arrive, InsertCounter, Increment, FailOpen,
          Drop, Tick, vars
      <4> QED
        BY <2>1, <3>1, <4>1
    <3> QED
      BY <3>2, <3>3
  <2> QED
    BY <1>2, <2>2, <2>3, OutcomesStay
<1>3. ASSUME TypeOK, RateInvariant, UpdateFindsRow, RejectedOnlyWhenFull, [Next]_vars
      PROVE  RejectedOnlyWhenFull'
  <2> SUFFICES ASSUME NEW r \in Requests, At(r, "rejected")', request'[r].seeded
               PROVE  Cardinality(AllowedIn(Start(r)))' >= MaxRequests
    BY DEF RejectedOnlyWhenFull
  <2> DEFINE w == Start(r)
  <2>1. w \in Times
    BY <1>3, StartTyped
  <2>2. Start(r)' = w
    BY <1>3, OutcomesStay DEF Increment, Active
  <2>3. Cardinality(AllowedIn(w)) >= MaxRequests
    <3>1. CASE At(r, "rejected")
      BY <1>3, <3>1, OutcomesStay DEF RejectedOnlyWhenFull
    <3>2. CASE Increment(r) /\ ~HasRoom(r)
      <4>1. w \in rows
        BY <1>3, <3>2, OutcomesStay DEF Increment, UpdateFindsRow
      <4>2. count[w] = Cardinality(AllowedIn(w)) /\ count[w] \in 0..MaxRequests
        BY <1>3, <2>1, <4>1 DEF RateInvariant, CountersAreExact, TypeOK
      <4> QED
        BY <3>2, <4>1, <4>2, RateConstants DEF HasRoom
    <3> QED
      BY <1>3, <3>1, <3>2, OutcomesStay
  <2>4. ASSUME NEW v \in Times, v = Start(r)
        PROVE  Cardinality(AllowedIn(v))' >= MaxRequests
    BY <1>3, <2>3, <2>4, AllowedGrows, AllowedFinite, RateConstants
  <2>5. PICK v \in Times : v = Start(r)
    BY <2>1
  <2>6. Cardinality(AllowedIn(v))' >= MaxRequests /\ Start(r)' = v
    BY <2>2, <2>4, <2>5
  <2> QED
    BY <2>6
<1>4. TypeOK /\ RateInvariant /\ [Next]_vars => RateInvariant'
  BY CountersStayExact, ActiveStaysRecent DEF RateInvariant
<1> QED
  BY <1>1, <1>2, <1>3, <1>4, RateTypeCorrect, PTL DEF Spec

=============================================================================
