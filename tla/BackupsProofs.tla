----------------------------- MODULE BackupsProofs -----------------------------
(***************************************************************************)
(* Theorems about Backups, for any plans, any number of backups and        *)
(* restores by hand, changes, failures and restarts.                       *)
(***************************************************************************)
EXTENDS Backups, FiniteSetTheorems, TLAPS

\* A database that was there, with a configuration at least as new.
Sound(f) == f.db \in Nat /\ f.db <= db /\ Consistent(f)

Fields == {"pc", "conf", "wake", "db", "file", "packed", "name", "entries", "listed"}

\* What a task has in hand: before it packs, before it stores or after it
\* fetched, and once it has told the name.
TaskSound(s) ==
  /\ DOMAIN s = Fields
  /\ s.pc = "pack" => s.db \in Nat /\ s.db <= db
  /\ s.pc \in {"put", "extract", "restored"} => Sound(s)
  /\ s.pc \in {"put", "done"} => s.packed = s.name

BucketSound == \A n \in DOMAIN bucket : Sound(bucket[n]) /\ bucket[n].packed = n

\* The file's last change is the latest of them.
ChangesInOrder ==
  /\ db \in Nat /\ file \in Nat
  /\ \A v \in written : v \in Nat /\ v <= file

TasksSound == task = [t \in Tasks |-> task[t]] /\ \A t \in Tasks : TaskSound(task[t])

BackupInvariant == ChangesInOrder /\ BucketSound /\ TasksSound

----
LEMMA IdleIsSound == TaskSound(Idle) /\ TaskSound(Looking)
BY DEF TaskSound, Idle, Looking, Fields

\* The state of one task changes.
LEMMA TaskMoves ==
  ASSUME TasksSound, NEW t \in Tasks, NEW s, TaskSound(s),
         task' = [task EXCEPT ![t] = s], UNCHANGED <<db, written>>
  PROVE  TasksSound'
<1>1. task' = [u \in Tasks |-> IF u = t THEN s ELSE task[u]]
  BY DEF TasksSound
<1>2. ASSUME NEW u \in Tasks PROVE TaskSound(task[u])'
  <2>1. TaskSound(task'[u])
    BY <1>1 DEF TasksSound
  <2> QED
    BY <2>1 DEF TaskSound, Sound, Consistent
<1>3. task' = [u \in Tasks |-> task'[u]]
  BY <1>1
<1> QED
  BY <1>2, <1>3 DEF TasksSound

\* One task moves and nothing else changes.
LEMMA OnlyTask ==
  ASSUME BackupInvariant, NEW t \in Tasks, NEW s, TaskSound(s), Become(t, s),
         UNCHANGED <<rest, bucket>>
  PROVE  BackupInvariant'
<1>1. TasksSound'
  BY TaskMoves DEF BackupInvariant, Become, rest
<1> QED
  BY <1>1 DEF BackupInvariant, ChangesInOrder, BucketSound, Sound, Consistent, rest

LEMMA FailedMoves ==
  ASSUME NEW t \in Tasks, Failed(t)
  PROVE  \E s : TaskSound(s) /\ Become(t, s)
<1> DEFINE s == [Idle EXCEPT !.pc = IF t = Scheduler THEN "look" ELSE "failed"]
<1>1. TaskSound(s)
  BY DEF TaskSound, Idle, Fields
<1> QED
  BY <1>1 DEF Failed

\* A task at l has nothing to answer for.
LEMMA GotoMoves ==
  ASSUME TasksSound, NEW t \in Tasks, NEW l, Goto(t, l),
         l \notin {"pack", "put", "extract", "restored", "done"}
  PROVE  \E s : TaskSound(s) /\ Become(t, s)
<1> DEFINE s == [task[t] EXCEPT !.pc = l]
<1>1. TaskSound(s)
  BY DEF TasksSound, TaskSound, Fields
<1>2. Become(t, s)
  BY DEF Goto, Become
<1> QED
  BY <1>1, <1>2

LEMMA FailureIsSound ==
  ASSUME BackupInvariant, NEW t \in Tasks, Failed(t), UNCHANGED <<rest, bucket>>
  PROVE  BackupInvariant'
BY FailedMoves, OnlyTask

----
(***************************************************************************)
(* Making a backup.                                                        *)
(***************************************************************************)
LEMMA CreateIsSound ==
  ASSUME BackupInvariant, NEW t \in Tasks, Create(t) PROVE BackupInvariant'
<1>0. TasksSound /\ TaskSound(task[t]) /\ DOMAIN task[t] = Fields
  BY DEF BackupInvariant, TasksSound, TaskSound
<1>1. CASE Snapshot(t)
  <2> DEFINE s == [task[t] EXCEPT !.pc = "pack", !.db = db]
  <2>1. TaskSound(s)
    <3>1. DOMAIN s = Fields /\ s.pc = "pack" /\ s.db = db
      BY <1>0 DEF Fields
    <3> QED
      BY <3>1 DEF TaskSound, BackupInvariant, ChangesInOrder
  <2>2. UNCHANGED <<rest, bucket>> /\ (Become(t, s) \/ Failed(t))
    BY <1>1 DEF Snapshot
  <2> HIDE DEF s
  <2> QED
    BY <2>1, <2>2, OnlyTask, FailureIsSound
<1>2. CASE Pack(t)
  <2> DEFINE s == [task[t] EXCEPT !.pc = "put", !.file = file,
                                  !.packed = now, !.name = NameOf(now)]
  <2>1. task[t].pc = "pack" /\ task[t].db \in Nat /\ task[t].db <= db
    BY <1>0, <1>2 DEF Pack, At, TaskSound
  <2>2. /\ DOMAIN s = Fields /\ s.pc = "put" /\ s.file = file /\ s.db = task[t].db
        /\ s.packed = now /\ s.name = now
    BY <1>0 DEF Fields, NameOf
  <2>3. Sound(s)
    BY <2>1, <2>2 DEF Sound, Consistent, BackupInvariant, ChangesInOrder
  <2>4. TaskSound(s)
    BY <2>2, <2>3 DEF TaskSound
  <2>5. UNCHANGED <<rest, bucket>> /\ (Become(t, s) \/ Failed(t))
    BY <1>2 DEF Pack
  <2> HIDE DEF s
  <2> QED
    BY <2>4, <2>5, OnlyTask, FailureIsSound
<1>3. CASE Put(t)
  <2> DEFINE n == task[t].name
             up == Upload(t)
  <2>1. task[t].pc = "put" /\ Sound(task[t]) /\ task[t].packed = n
    BY <1>0, <1>3 DEF Put, At, TaskSound
  <2>2. Sound(up) /\ up.packed = n
    BY <2>1 DEF Upload, Sound, Consistent
  <2> HIDE DEF n, up
  <2>3. UNCHANGED rest
    BY <1>3 DEF Put
  <2>4. BucketSound'
    <3>1. CASE bucket' = [k \in DOMAIN bucket \cup {n} |-> IF k = n THEN up ELSE bucket[k]]
      <4>1. \A k \in DOMAIN bucket' : Sound(bucket'[k]) /\ bucket'[k].packed = k
        BY <2>2, <3>1 DEF BackupInvariant, BucketSound
      <4> QED
        BY <2>3, <4>1 DEF BucketSound, Sound, Consistent, rest
    <3>2. CASE bucket' = bucket
      BY <2>3, <3>2 DEF BackupInvariant, BucketSound, Sound, Consistent, rest
    <3> QED
      BY <1>3, <3>1, <3>2 DEF Put, n, up
  <2>5. TasksSound'
    <3>1. CASE Failed(t)
      BY <1>0, <2>3, <3>1, FailedMoves, TaskMoves DEF Become, rest
    <3>2. CASE Goto(t, "list")
      BY <1>0, <2>3, <3>2, GotoMoves, TaskMoves DEF Become, rest
    <3>3. CASE Goto(t, "done")
      <4> DEFINE s == [task[t] EXCEPT !.pc = "done"]
      <4>1. /\ DOMAIN s = Fields /\ s.pc = "done" /\ s.packed = task[t].packed
            /\ s.name = task[t].name
        BY <1>0 DEF Fields
      <4>2. TaskSound(s)
        BY <2>1, <4>1 DEF TaskSound, n
      <4>3. task' = [task EXCEPT ![t] = s]
        BY <3>3 DEF Goto
      <4> HIDE DEF s
      <4> QED
        BY <1>0, <2>3, <4>2, <4>3, TaskMoves DEF rest
    <3> QED
      BY <1>3, <3>1, <3>2, <3>3 DEF Put, PutFailed
  <2>6. ChangesInOrder'
    BY <2>3 DEF BackupInvariant, ChangesInOrder, rest
  <2> QED
    BY <2>4, <2>5, <2>6 DEF BackupInvariant
<1> QED
  BY <1>1, <1>2, <1>3 DEF Create

----
(***************************************************************************)
(* Restoring, and what the scheduler does besides.                         *)
(***************************************************************************)
LEMMA RestoreIsSound ==
  ASSUME BackupInvariant, NEW t \in Tasks, Restore(t) PROVE BackupInvariant'
<1>0. TasksSound /\ TaskSound(task[t]) /\ DOMAIN task[t] = Fields
  BY DEF BackupInvariant, TasksSound, TaskSound
<1>1. CASE ListBackups(t)
  <2>1. PICK listed : /\ UNCHANGED <<rest, bucket>>
                      /\ \/ Become(t, [Idle EXCEPT !.pc = "choose", !.entries = listed])
                         \/ Failed(t)
    BY <1>1 DEF ListBackups
  <2> DEFINE s == [Idle EXCEPT !.pc = "choose", !.entries = listed]
  <2>2. TaskSound(s)
    BY DEF TaskSound, Idle, Fields
  <2>3. UNCHANGED <<rest, bucket>> /\ (Become(t, s) \/ Failed(t))
    BY <2>1
  <2> HIDE DEF s
  <2> QED
    BY <2>2, <2>3, OnlyTask, FailureIsSound
<1>2. CASE AskRestore(t)
  <2>1. PICK n \in DOMAIN task[t].entries :
          Become(t, [Idle EXCEPT !.pc = "get", !.conf = plan, !.name = n])
    BY <1>2 DEF AskRestore
  <2> DEFINE s == [Idle EXCEPT !.pc = "get", !.conf = plan, !.name = n]
  <2>2. TaskSound(s)
    BY DEF TaskSound, Idle, Fields
  <2>3. UNCHANGED <<rest, bucket>> /\ Become(t, s)
    BY <1>2, <2>1 DEF AskRestore
  <2> HIDE DEF s
  <2> QED
    BY <2>2, <2>3, OnlyTask
<1>3. CASE Get(t)
  <2> DEFINE found == bucket[task[t].name]
             s == [task[t] EXCEPT !.pc = "extract", !.db = found.db, !.file = found.file]
  <2>1. /\ UNCHANGED <<rest, bucket>>
        /\ \/ task[t].name \in DOMAIN bucket /\ Become(t, s)
           \/ Failed(t)
    BY <1>3 DEF Get
  <2>2. ASSUME task[t].name \in DOMAIN bucket PROVE TaskSound(s)
    <3>1. Sound(found)
      BY <2>2 DEF BackupInvariant, BucketSound
    <3>2. DOMAIN s = Fields /\ s.pc = "extract" /\ s.db = found.db /\ s.file = found.file
      BY <1>0 DEF Fields
    <3> QED
      BY <3>1, <3>2 DEF TaskSound, Sound, Consistent
  <2> HIDE DEF s
  <2> QED
    BY <2>1, <2>2, OnlyTask, FailureIsSound
<1>4. CASE Extract(t)
  <2> DEFINE s == [task[t] EXCEPT !.pc = "restored"]
  <2>1. /\ DOMAIN s = Fields /\ s.pc = "restored" /\ s.db = task[t].db
        /\ s.file = task[t].file
    BY <1>0 DEF Fields
  <2>2. TaskSound(s)
    BY <1>0, <1>4, <2>1 DEF TaskSound, Sound, Consistent, Extract, At
  <2>3. UNCHANGED <<rest, bucket>> /\ (Become(t, s) \/ Failed(t))
    BY <1>4 DEF Extract, Goto, Become
  <2> HIDE DEF s
  <2> QED
    BY <2>2, <2>3, OnlyTask, FailureIsSound
<1> QED
  BY <1>1, <1>2, <1>3, <1>4 DEF Restore

LEMMA SchedulerIsSound ==
  ASSUME BackupInvariant,
         (\E t \in Tasks : Request(t)) \/ Look \/ Paused \/ Due \/ List \/ Deleted
  PROVE  BackupInvariant'
<1>0. /\ Scheduler \in Tasks /\ TasksSound /\ UNCHANGED <<rest, bucket>>
      /\ DOMAIN task[Scheduler] = Fields
  BY DEF Tasks, BackupInvariant, TasksSound, TaskSound, Request, Look, Paused, Due, List,
         Deleted
<1>1. ASSUME NEW w PROVE /\ TaskSound([Idle EXCEPT !.pc = "pause", !.wake = w])
                         /\ TaskSound([Idle EXCEPT !.pc = "sleep", !.wake = w])
  BY DEF TaskSound, Idle, Fields
<1>2. TaskSound([Idle EXCEPT !.pc = "snapshot", !.conf = plan])
  BY DEF TaskSound, Idle, Fields
<1>3. ASSUME NEW t \in Tasks, Request(t) PROVE BackupInvariant'
  BY <1>0, <1>2, <1>3, OnlyTask DEF Request
<1>4. CASE Look
  <2>1. CASE Upcoming = {}
    BY <1>0, <1>1, <1>4, <2>1, OnlyTask DEF Look
  <2>2. CASE Upcoming # {}
    <3>1. \E w : Become(Scheduler, [Idle EXCEPT !.pc = "sleep", !.wake = w])
      BY <1>4, <2>2 DEF Look
    <3> QED
      BY <1>0, <1>1, <3>1, OnlyTask
  <2> QED
    BY <2>1, <2>2
<1>5. CASE Paused \/ Deleted
  BY <1>0, <1>5, IdleIsSound, OnlyTask DEF Paused, Deleted
<1>6. CASE Due
  BY <1>0, <1>2, <1>6, IdleIsSound, OnlyTask DEF Due
<1>7. CASE List
  <2> DEFINE doomed == Doomed(task[Scheduler].conf, Listing)
             s == [task[Scheduler] EXCEPT !.pc = "delete", !.listed = now,
                                          !.entries = doomed]
  <2>1. Become(Scheduler, Looking) \/ Become(Scheduler, s) \/ Failed(Scheduler)
    BY <1>7 DEF List
  <2> HIDE DEF doomed
  <2>2. DOMAIN s = Fields /\ s.pc = "delete"
    BY <1>0 DEF Fields
  <2>3. TaskSound(s)
    BY <2>2 DEF TaskSound
  <2> HIDE DEF s
  <2> QED
    BY <1>0, <2>1, <2>3, IdleIsSound, OnlyTask, FailureIsSound
<1> QED
  BY <1>3, <1>4, <1>5, <1>6, <1>7

LEMMA DeleteIsSound ==
  ASSUME BackupInvariant, Delete PROVE BackupInvariant'
<1>0. /\ Scheduler \in Tasks /\ TasksSound /\ UNCHANGED rest
      /\ TaskSound(task[Scheduler]) /\ DOMAIN task[Scheduler] = Fields
      /\ task[Scheduler].pc = "delete"
  BY DEF Tasks, BackupInvariant, TasksSound, TaskSound, Delete, At
<1>1. PICK n : /\ bucket' \in {Without(bucket, n), bucket}
               /\ \/ task' = [task EXCEPT ![Scheduler].entries =
                                           Without(task[Scheduler].entries, n)]
                  \/ Failed(Scheduler)
  BY DEF Delete
<1>2. BucketSound'
  BY <1>0, <1>1 DEF BackupInvariant, BucketSound, Sound, Consistent, rest, Without
<1>3. TasksSound'
  <2> DEFINE s == [task[Scheduler] EXCEPT !.entries = Without(task[Scheduler].entries, n)]
  <2>1. task' = [task EXCEPT ![Scheduler] = s] \/ Failed(Scheduler)
    BY <1>1
  <2>2. DOMAIN s = Fields /\ s.pc = "delete"
    BY <1>0 DEF Fields
  <2>3. TaskSound(s)
    BY <2>2 DEF TaskSound
  <2> HIDE DEF s
  <2> QED
    BY <1>0, <2>1, <2>3, FailedMoves, TaskMoves DEF Become, rest
<1> QED
  BY <1>0, <1>2, <1>3 DEF BackupInvariant, ChangesInOrder, rest

----
LEMMA StartedIsSound ==
  ASSUME NEW p, task' = Started(p), UNCHANGED <<db, written>> PROVE TasksSound'
<1>1. task' = [t \in Tasks |-> task'[t]]
  BY DEF Started
<1>2. ASSUME NEW t \in Tasks PROVE TaskSound(task'[t])
  <2>1. task'[t] \in {Idle, Looking}
    BY DEF Started
  <2> QED
    BY <2>1, IdleIsSound
<1> QED
  BY <1>1, <1>2 DEF TasksSound, TaskSound, Sound, Consistent

\* A change is later than every database that was stored.
LEMMA ChangesKeepSound ==
  ASSUME BackupInvariant, UNCHANGED <<bucket, task>>,
         \/ db' = NextChange /\ UNCHANGED <<file, written>>
         \/ file' = NextChange /\ written' = written \cup {NextChange} /\ UNCHANGED db
  PROVE  BackupInvariant'
<1>1. NextChange \in Nat /\ NextChange > db /\ NextChange > file
  BY DEF NextChange, BackupInvariant, ChangesInOrder
<1>2. ChangesInOrder'
  BY <1>1 DEF BackupInvariant, ChangesInOrder
<1>3. ASSUME NEW f, Sound(f)
      PROVE  /\ f.db <= db'
             /\ \A v \in written' : v <= f.db => v <= f.file
  BY <1>1, <1>3 DEF Sound, Consistent, BackupInvariant, ChangesInOrder
<1>4. BucketSound'
  BY <1>3 DEF BackupInvariant, BucketSound, Sound, Consistent
<1>5. ASSUME NEW t \in Tasks PROVE TaskSound(task[t])'
  <2>1. TaskSound(task[t])
    BY DEF BackupInvariant, TasksSound
  <2>2. task[t].db \in Nat /\ task[t].db <= db => task[t].db <= db'
    BY <1>1 DEF BackupInvariant, ChangesInOrder
  <2> QED
    BY <1>3, <2>1, <2>2 DEF TaskSound, Sound, Consistent
<1>6. TasksSound'
  BY <1>5 DEF BackupInvariant, TasksSound
<1> QED
  BY <1>2, <1>4, <1>6 DEF BackupInvariant

LEMMA StepIsSound == BackupInvariant /\ [Next]_vars => BackupInvariant'
<1> SUFFICES ASSUME BackupInvariant, [Next]_vars PROVE BackupInvariant'
  OBVIOUS
<1>1. ASSUME UNCHANGED <<db, file, written, bucket, task>> PROVE BackupInvariant'
  BY <1>1 DEF BackupInvariant, ChangesInOrder, BucketSound, TasksSound, TaskSound, Sound,
              Consistent
<1>2. CASE Tick \/ Edit
  BY <1>1, <1>2 DEF Tick, Edit
<1>3. CASE ChangeDb \/ ChangeFile
  BY <1>3, ChangesKeepSound DEF ChangeDb, ChangeFile
<1>4. CASE Restart
  BY <1>4, StartedIsSound DEF Restart, BackupInvariant, ChangesInOrder, BucketSound, Sound,
                              Consistent
<1>5. CASE UNCHANGED vars
  BY <1>1, <1>5 DEF vars
<1> QED
  BY <1>2, <1>3, <1>4, <1>5, CreateIsSound, RestoreIsSound, SchedulerIsSound, DeleteIsSound
     DEF Next

LEMMA InitIsSound == Init => BackupInvariant
<1> SUFFICES ASSUME Init PROVE BackupInvariant
  OBVIOUS
<1>1. ChangesInOrder /\ BucketSound
  BY DEF Init, ChangesInOrder, BucketSound
<1>2. ASSUME NEW t \in Tasks PROVE TaskSound(task[t])
  BY IdleIsSound DEF Init, Started
<1>3. task = [t \in Tasks |-> task[t]]
  BY DEF Init, Started
<1> QED
  BY <1>1, <1>2, <1>3 DEF BackupInvariant, TasksSound

THEOREM BackupInvariantHolds == Spec => []BackupInvariant
BY InitIsSound, StepIsSound, PTL DEF Spec

\* No backup, and nothing that is restored, has a configuration older than its
\* database (create_backup, create_tarball, restore_backup).
THEOREM BackupsConsistent == Spec => []BackupsAreConsistent
<1>1. BackupInvariant => BackupsAreConsistent
  BY DEF BackupInvariant, BackupsAreConsistent, BucketSound, TasksSound, TaskSound, Sound,
         Tasks, At
<1> QED
  BY <1>1, BackupInvariantHolds, PTL

\* Under the name it was told, a creator finds its own backup or one packed in
\* the same second (now_utc_filename, put_object).
THEOREM BackupsKept == Spec => []KeptAsMade
<1>1. BackupInvariant => KeptAsMade
  BY DEF BackupInvariant, KeptAsMade, BucketSound, TasksSound, TaskSound, Tasks, At
<1> QED
  BY <1>1, BackupInvariantHolds, PTL

----
(***************************************************************************)
(* Retention.                                                              *)
(***************************************************************************)
\* Over age when it was listed.
WasOver(s, n) == s.conf.age # None /\ s.entries[n] + s.conf.age < s.listed

\* As many as the plan keeps are in the bucket, stored when n was or later, and
\* none of them is deleted before n.
Outlived(s, n) ==
  /\ s.conf.count # None
  /\ \E kept \in SUBSET (DOMAIN bucket \ {n}) :
       /\ Cardinality(kept) >= s.conf.count
       /\ \A k \in kept : /\ bucket[k].modified >= s.entries[n]
                          /\ k \in DOMAIN s.entries => Before(s.entries, n, k)

\* One doomed is as it was listed, or was stored since.
Doom(s, n) ==
  /\ n \in Nat /\ s.entries[n] \in Nat
  /\ n <= s.entries[n] /\ s.entries[n] <= s.listed
  /\ n \in DOMAIN bucket => bucket[n].modified \in {s.entries[n]} \cup s.listed..now
  /\ WasOver(s, n) \/ Outlived(s, n)

\* While the round's own backup is there, the last one is not at stake; once it
\* is not, what is left to delete is no older.
Deleting(s) ==
  /\ s.listed \in Nat /\ s.listed <= now
  /\ \A n \in DOMAIN s.entries : Doom(s, n)
  /\ s.name \in DOMAIN bucket \/ \A n \in DOMAIN s.entries : s.entries[n] >= s.name

Round == {"snapshot", "pack", "put", "list", "delete"}

RoundSound(s) ==
  /\ s.pc \in Round => s.conf \in Plans \ {None}
  /\ s.pc \in {"list", "delete"} => s.name \in Nat
  /\ s.pc = "list" => s.name \in DOMAIN bucket
  /\ s.pc = "delete" => Deleting(s)

NameSound(s) == s.pc = "put" => s.name \in Nat /\ s.name <= now

\* A backup is packed before it is stored.
StoredInTime ==
  /\ IsFiniteSet(DOMAIN bucket)
  /\ \A n \in DOMAIN bucket :
       /\ n \in Nat /\ bucket[n].modified \in Nat
       /\ n <= bucket[n].modified /\ bucket[n].modified <= now

RetentionInvariant ==
  /\ now \in Nat /\ plan \in Plans
  /\ StoredInTime
  /\ \A t \in Tasks : NameSound(task[t])
  /\ RoundSound(task[Scheduler])

----
LEMMA PlansAre ==
  ASSUME NEW p \in Plans \ {None}
  PROVE  p.count \in Nat \cup {None} /\ p.age \in Nat \cup {None}
BY BackupsConstants

\* The state of one task changes.
LEMMA RoundMoves ==
  ASSUME TasksSound, RetentionInvariant, NEW t \in Tasks, NEW s, Become(t, s),
         NameSound(s), t = Scheduler => RoundSound(s), UNCHANGED <<rest, bucket>>
  PROVE  RetentionInvariant'
<1>1. task' = [u \in Tasks |-> IF u = t THEN s ELSE task[u]]
  BY DEF TasksSound, Become
<1>2. now' = now /\ plan' = plan /\ bucket' = bucket
  BY DEF rest
<1>3. ASSUME NEW u \in Tasks PROVE NameSound(task[u])'
  <2>1. NameSound(task'[u])
    BY <1>1 DEF RetentionInvariant
  <2> QED
    BY <1>2, <2>1 DEF NameSound
<1>4. RoundSound(task[Scheduler])'
  <2>1. RoundSound(task'[Scheduler])
    BY <1>1 DEF RetentionInvariant, Tasks
  <2> QED
    BY <1>2, <2>1 DEF RoundSound, Deleting, Doom, WasOver, Outlived
<1> QED
  BY <1>2, <1>3, <1>4 DEF RetentionInvariant, StoredInTime

LEMMA NothingAtStake ==
  ASSUME NEW s, s.pc \notin Round PROVE NameSound(s) /\ RoundSound(s)
BY DEF NameSound, RoundSound, Round

LEMMA FailureKeepsRound ==
  ASSUME TasksSound, RetentionInvariant, NEW t \in Tasks, Failed(t),
         UNCHANGED <<rest, bucket>>
  PROVE  RetentionInvariant'
<1> DEFINE s == [Idle EXCEPT !.pc = IF t = Scheduler THEN "look" ELSE "failed"]
<1>1. s.pc \notin Round /\ Become(t, s)
  BY DEF Failed, Idle, Round
<1> HIDE DEF s
<1> QED
  BY <1>1, NothingAtStake, RoundMoves

----
(***************************************************************************)
(* What is listed and doomed.                                              *)
(***************************************************************************)
\* All that come after what goes for the count are as new, and stay longer.
LEMMA ExcessIsOutlived ==
  ASSUME StoredInTime, NEW conf \in Plans \ {None}, NEW n \in Excess(conf, Listing)
  PROVE  /\ n \in DOMAIN bucket /\ conf.count # None
         /\ \E kept \in SUBSET (DOMAIN bucket \ {n}) :
              /\ Cardinality(kept) >= conf.count
              /\ \A k \in kept : /\ bucket[k].modified >= bucket[n].modified
                                 /\ Before(Listing, n, k)
<1> DEFINE upto == {m \in DOMAIN bucket : m = n \/ Before(Listing, m, n)}
           kept == DOMAIN bucket \ upto
<1>1. /\ n \in DOMAIN bucket /\ conf.count \in Nat
      /\ Cardinality(upto) + conf.count <= Cardinality(DOMAIN bucket)
  <2>1. DOMAIN Listing = DOMAIN bucket
    BY DEF Listing
  <2> QED
    BY <2>1, PlansAre DEF Excess, Place
<1>2. upto \subseteq DOMAIN bucket /\ DOMAIN bucket \cap upto = upto
  OBVIOUS
<1>3. ASSUME NEW k \in kept
      PROVE  bucket[k].modified >= bucket[n].modified /\ Before(Listing, n, k)
  <2>1. /\ k # n /\ k \in Nat /\ n \in Nat
        /\ bucket[k].modified \in Nat /\ bucket[n].modified \in Nat
        /\ Listing[k] = bucket[k].modified /\ Listing[n] = bucket[n].modified
    BY <1>1, <1>3 DEF StoredInTime, Listing
  <2>2. ~Before(Listing, k, n)
    BY <1>3
  <2> QED
    BY <2>1, <2>2 DEF Before, OldestFirst
<1>4. kept \in SUBSET (DOMAIN bucket \ {n})
  BY <1>1
<1> HIDE DEF upto
<1>5. Cardinality(kept) = Cardinality(DOMAIN bucket) - Cardinality(upto)
  BY <1>2, FS_Difference DEF StoredInTime
<1>6. Cardinality(upto) \in Nat /\ Cardinality(DOMAIN bucket) \in Nat
  BY <1>2, FS_Subset, FS_CardinalityType DEF StoredInTime
<1>7. Cardinality(kept) >= conf.count /\ conf.count # None
  BY <1>1, <1>5, <1>6 DEF Excess
<1> HIDE DEF kept
<1> QED
  BY <1>1, <1>3, <1>4, <1>7

LEMMA DoomedAreSound ==
  ASSUME RetentionInvariant, NEW s, s.conf \in Plans \ {None}, s.name \in DOMAIN bucket,
         s.listed = now, s.entries = Doomed(s.conf, Listing)
  PROVE  Deleting(s)
<1>1. StoredInTime /\ now \in Nat
  BY DEF RetentionInvariant
<1>2. ASSUME NEW n \in DOMAIN s.entries PROVE Doom(s, n)
  <2>1. /\ n \in Excess(s.conf, Listing) \cup OverAge(s.conf, Listing)
        /\ n \in DOMAIN bucket /\ s.entries[n] = Listing[n]
        /\ Listing[n] = bucket[n].modified
    BY <1>2 DEF Doomed, Excess, OverAge, Listing
  <2>2. ASSUME n \in OverAge(s.conf, Listing) PROVE WasOver(s, n)
    BY <2>1, <2>2 DEF OverAge, WasOver
  <2>3. ASSUME n \in Excess(s.conf, Listing) PROVE Outlived(s, n)
    <3>1. PICK kept \in SUBSET (DOMAIN bucket \ {n}) :
            /\ Cardinality(kept) >= s.conf.count
            /\ \A k \in kept : /\ bucket[k].modified >= bucket[n].modified
                               /\ Before(Listing, n, k)
      BY <1>1, <2>3, ExcessIsOutlived
    <3>2. ASSUME NEW k \in kept, k \in DOMAIN s.entries PROVE Before(s.entries, n, k)
      <4>1. s.entries[k] = Listing[k] /\ Before(Listing, n, k)
        BY <3>1, <3>2 DEF Doomed
      <4> QED
        BY <2>1, <4>1 DEF Before
    <3>3. s.conf.count # None
      BY <2>3 DEF Excess
    <3> QED
      BY <2>1, <3>1, <3>2, <3>3 DEF Outlived
  <2> QED
    BY <1>1, <2>1, <2>2, <2>3 DEF Doom, StoredInTime
<1> QED
  BY <1>1, <1>2 DEF Deleting

----
(***************************************************************************)
(* The steps.                                                              *)
(***************************************************************************)
\* An object is stored now.
LEMMA StoreKeepsRound ==
  ASSUME StoredInTime, now \in Nat, NEW n \in Nat, n <= now, NEW t, UNCHANGED <<now, plan>>,
         bucket' = [k \in DOMAIN bucket \cup {n} |-> IF k = n THEN Upload(t) ELSE bucket[k]],
         NEW s, RoundSound(s)
  PROVE  StoredInTime' /\ RoundSound(s)'
<1>1. Upload(t).modified = now
  BY DEF Upload
<1>2. DOMAIN bucket' = DOMAIN bucket \cup {n}
  OBVIOUS
<1>3. \A k \in DOMAIN bucket' : bucket'[k].modified = IF k = n THEN now ELSE bucket[k].modified
  BY <1>1
<1>4. StoredInTime'
  <2>1. IsFiniteSet(DOMAIN bucket')
    BY <1>2, FS_AddElement DEF StoredInTime
  <2>2. ASSUME NEW k \in DOMAIN bucket'
        PROVE  /\ k \in Nat /\ bucket'[k].modified \in Nat
               /\ k <= bucket'[k].modified /\ bucket'[k].modified <= now
    BY <1>2, <1>3, <2>2 DEF StoredInTime
  <2> QED
    BY <2>1, <2>2 DEF StoredInTime
<1>5. ASSUME s.pc = "delete" PROVE Deleting(s)'
  <2>1. Deleting(s)
    BY <1>5 DEF RoundSound
  <2>2. ASSUME NEW m \in DOMAIN s.entries PROVE Doom(s, m)'
    <3>1. Doom(s, m) /\ s.listed \in Nat /\ s.listed <= now
      BY <2>1 DEF Deleting
    <3>2. m \in DOMAIN bucket' => bucket'[m].modified \in {s.entries[m]} \cup s.listed..now
      BY <1>2, <1>3, <3>1 DEF Doom
    <3>3. ASSUME Outlived(s, m) PROVE Outlived(s, m)'
      <4>1. PICK kept \in SUBSET (DOMAIN bucket \ {m}) :
              /\ Cardinality(kept) >= s.conf.count
              /\ \A k \in kept : /\ bucket[k].modified >= s.entries[m]
                                 /\ k \in DOMAIN s.entries => Before(s.entries, m, k)
        BY <3>3 DEF Outlived
      <4>2. s.entries[m] <= now
        BY <2>2, <3>1 DEF Doom
      <4>3. \A k \in kept : bucket'[k].modified >= s.entries[m]
        BY <1>2, <1>3, <4>1, <4>2
      <4>4. kept \in SUBSET (DOMAIN bucket' \ {m})
        BY <1>2
      <4> QED
        BY <3>3, <4>1, <4>3, <4>4 DEF Outlived, Before
    <3> QED
      BY <3>1, <3>2, <3>3 DEF Doom, WasOver
  <2> QED
    BY <1>2, <2>1, <2>2 DEF Deleting
<1> QED
  BY <1>2, <1>4, <1>5 DEF RoundSound

LEMMA CreateKeepsRound ==
  ASSUME BackupInvariant, RetentionInvariant, NEW t \in Tasks, Create(t)
  PROVE  RetentionInvariant'
<1>0. /\ TasksSound /\ DOMAIN task[t] = Fields /\ NameSound(task[t])
      /\ now \in Nat /\ StoredInTime
      /\ t = Scheduler => RoundSound(task[t])
  BY DEF BackupInvariant, TasksSound, TaskSound, RetentionInvariant
<1>1. CASE Snapshot(t)
  <2> DEFINE s == [task[t] EXCEPT !.pc = "pack", !.db = db]
  <2>1. s.pc = "pack" /\ s.conf = task[t].conf /\ task[t].pc = "snapshot"
    BY <1>0, <1>1 DEF Fields, Snapshot, At
  <2>2. UNCHANGED <<rest, bucket>> /\ (Become(t, s) \/ Failed(t))
    BY <1>1 DEF Snapshot
  <2> HIDE DEF s
  <2>3. NameSound(s) /\ (t = Scheduler => RoundSound(s))
    BY <1>0, <2>1 DEF NameSound, RoundSound, Round
  <2> QED
    BY <1>0, <2>2, <2>3, RoundMoves, FailureKeepsRound
<1>2. CASE Pack(t)
  <2> DEFINE s == [task[t] EXCEPT !.pc = "put", !.file = file,
                                  !.packed = now, !.name = NameOf(now)]
  <2>1. /\ s.pc = "put" /\ s.conf = task[t].conf /\ s.name = now
        /\ task[t].pc = "pack"
    BY <1>0, <1>2 DEF Fields, Pack, At, NameOf
  <2>2. UNCHANGED <<rest, bucket>> /\ (Become(t, s) \/ Failed(t))
    BY <1>2 DEF Pack
  <2> HIDE DEF s
  <2>3. NameSound(s) /\ (t = Scheduler => RoundSound(s))
    BY <1>0, <2>1 DEF NameSound, RoundSound, Round
  <2> QED
    BY <1>0, <2>2, <2>3, RoundMoves, FailureKeepsRound
<1>3. CASE Put(t)
  <2> DEFINE n == task[t].name
             l == IF t = Scheduler THEN "list" ELSE "done"
             s == [task[t] EXCEPT !.pc = l]
             up == [k \in DOMAIN bucket \cup {n} |-> IF k = n THEN Upload(t) ELSE bucket[k]]
  <2>1. task[t].pc = "put" /\ n \in Nat /\ n <= now
    BY <1>0, <1>3 DEF Put, At, NameSound
  <2>2. /\ UNCHANGED rest
        /\ \/ bucket' = up /\ (Become(t, s) \/ Failed(t))
           \/ UNCHANGED bucket /\ Failed(t)
    BY <1>3 DEF Put, PutFailed, Goto, Become
  <2>3. s.pc = l /\ s.conf = task[t].conf /\ s.name = n
    BY <1>0 DEF Fields
  <2>4. CASE UNCHANGED bucket /\ Failed(t)
    BY <1>0, <2>2, <2>4, FailureKeepsRound
  <2>5. CASE bucket' = up
    <3>1. now' = now /\ plan' = plan /\ DOMAIN bucket' = DOMAIN bucket \cup {n}
      BY <2>2, <2>5 DEF rest
    <3>2. PICK w : /\ task' = [task EXCEPT ![t] = w]
                   /\ \/ w.pc = l /\ w.conf = task[t].conf /\ w.name = n
                      \/ w.pc \notin Round
      <4>1. CASE Become(t, s)
        BY <2>3, <4>1 DEF Become
      <4>2. CASE Failed(t)
        <5>1. [Idle EXCEPT !.pc = IF t = Scheduler THEN "look" ELSE "failed"].pc \notin Round
          BY DEF Idle, Round
        <5> QED
          BY <4>2, <5>1 DEF Failed, Become
      <4> QED
        BY <2>2, <2>5, <4>1, <4>2
    <3>3. task' = [u \in Tasks |-> IF u = t THEN w ELSE task[u]]
      BY <1>0, <3>2 DEF TasksSound
    <3>4. PICK r : r = task[Scheduler]
      OBVIOUS
    <3>5. RoundSound(r)
      BY <3>4 DEF RetentionInvariant
    <3> HIDE DEF n
    <3>6. StoredInTime' /\ RoundSound(r)'
      BY <1>0, <2>1, <2>5, <3>1, <3>5, StoreKeepsRound
    <3>7. ASSUME NEW u \in Tasks PROVE NameSound(task[u])'
      <4>1. NameSound(task[u]) /\ (u = t => w.pc # "put")
        BY <3>2 DEF RetentionInvariant, Round
      <4> QED
        BY <3>1, <3>3, <4>1 DEF NameSound
    <3>8. ASSUME t = Scheduler PROVE RoundSound(w)'
      BY <1>0, <2>1, <3>1, <3>2, <3>8 DEF RoundSound, Round
    <3>9. RoundSound(task[Scheduler])'
      <4>1. PICK v : v = task'[Scheduler] /\ RoundSound(v)'
        BY <3>3, <3>4, <3>6, <3>8 DEF Tasks
      <4> QED
        BY <4>1 DEF RoundSound, Deleting, Doom, WasOver, Outlived
    <3> QED
      BY <1>0, <3>1, <3>6, <3>7, <3>9 DEF RetentionInvariant
  <2> QED
    BY <2>2, <2>4, <2>5
<1> QED
  BY <1>1, <1>2, <1>3 DEF Create

LEMMA RestoreKeepsRound ==
  ASSUME BackupInvariant, RetentionInvariant, NEW t \in Tasks, Restore(t)
  PROVE  RetentionInvariant'
<1>0. TasksSound /\ DOMAIN task[t] = Fields /\ UNCHANGED <<rest, bucket>>
  BY DEF BackupInvariant, TasksSound, TaskSound, Restore, ListBackups, AskRestore, Get,
         Extract
<1>1. Failed(t) \/ \E s : s.pc \notin Round /\ Become(t, s)
  <2>1. CASE ListBackups(t)
    <3>1. [Idle EXCEPT !.pc = "choose", !.entries = Listing].pc \notin Round
      BY DEF Idle, Round
    <3> QED
      BY <2>1, <3>1 DEF ListBackups
  <2>2. CASE AskRestore(t)
    <3>1. ASSUME NEW n
          PROVE  [Idle EXCEPT !.pc = "get", !.conf = plan, !.name = n].pc \notin Round
      BY DEF Idle, Round
    <3> QED
      BY <2>2, <3>1 DEF AskRestore
  <2>3. CASE Get(t)
    <3>1. ASSUME NEW d, NEW f
          PROVE  [task[t] EXCEPT !.pc = "extract", !.db = d, !.file = f].pc \notin Round
      BY <1>0 DEF Fields, Round
    <3> QED
      BY <2>3, <3>1 DEF Get
  <2>4. CASE Extract(t)
    <3>1. [task[t] EXCEPT !.pc = "restored"].pc \notin Round
      BY <1>0 DEF Fields, Round
    <3> QED
      BY <2>4, <3>1 DEF Extract, Goto, Become
  <2> QED
    BY <2>1, <2>2, <2>3, <2>4 DEF Restore
<1> QED
  BY <1>0, <1>1, NothingAtStake, RoundMoves, FailureKeepsRound

LEMMA SchedulerKeepsRound ==
  ASSUME BackupInvariant, RetentionInvariant,
         (\E t \in Tasks : Request(t)) \/ Look \/ Paused \/ Due \/ List \/ Deleted
  PROVE  RetentionInvariant'
<1>0. /\ Scheduler \in Tasks /\ TasksSound /\ UNCHANGED <<rest, bucket>>
      /\ DOMAIN task[Scheduler] = Fields /\ RoundSound(task[Scheduler])
  BY DEF Tasks, BackupInvariant, TasksSound, TaskSound, Request, Look, Paused, Due, List,
         Deleted, RetentionInvariant
<1>1. ASSUME NEW s, s.pc \in {"look", "pause", "sleep"}, Become(Scheduler, s)
      PROVE  RetentionInvariant'
  BY <1>0, <1>1, NothingAtStake, RoundMoves DEF Round
<1>2. Looking.pc = "look"
  BY DEF Looking, Idle
<1>3. ASSUME NEW t \in Tasks, plan # None,
             Become(t, [Idle EXCEPT !.pc = "snapshot", !.conf = plan])
      PROVE  RetentionInvariant'
  <2> DEFINE s == [Idle EXCEPT !.pc = "snapshot", !.conf = plan]
  <2>1. s.pc = "snapshot" /\ s.conf = plan
    BY DEF Idle
  <2>2. Become(t, s)
    BY <1>3
  <2> HIDE DEF s
  <2>3. NameSound(s) /\ RoundSound(s)
    BY <1>3, <2>1 DEF NameSound, RoundSound, RetentionInvariant
  <2> QED
    BY <1>0, <2>2, <2>3, RoundMoves
<1>4. CASE \E t \in Tasks : Request(t)
  BY <1>3, <1>4 DEF Request
<1>5. CASE Look
  <2>1. ASSUME NEW l \in {"pause", "sleep"}, NEW w,
               Become(Scheduler, [Idle EXCEPT !.pc = l, !.wake = w])
        PROVE  RetentionInvariant'
    <3> DEFINE s == [Idle EXCEPT !.pc = l, !.wake = w]
    <3>1. s.pc \in {"look", "pause", "sleep"} /\ Become(Scheduler, s)
      BY <2>1 DEF Idle
    <3> HIDE DEF s
    <3> QED
      BY <1>1, <3>1
  <2>2. CASE Upcoming = {}
    BY <1>5, <2>1, <2>2 DEF Look
  <2>3. CASE Upcoming # {}
    BY <1>5, <2>1, <2>3 DEF Look
  <2> QED
    BY <2>2, <2>3
<1>6. CASE Paused \/ Deleted
  BY <1>1, <1>2, <1>6 DEF Paused, Deleted
<1>7. CASE Due
  BY <1>0, <1>1, <1>2, <1>3, <1>7 DEF Due
<1>8. CASE List
  <2> DEFINE doomed == Doomed(task[Scheduler].conf, Listing)
             s == [task[Scheduler] EXCEPT !.pc = "delete", !.listed = now,
                                          !.entries = doomed]
  <2>1. Become(Scheduler, Looking) \/ Become(Scheduler, s) \/ Failed(Scheduler)
    BY <1>8 DEF List
  <2>2. /\ task[Scheduler].conf \in Plans \ {None} /\ task[Scheduler].name \in DOMAIN bucket
        /\ task[Scheduler].name \in Nat
    BY <1>0, <1>8 DEF List, At, RoundSound, Round
  <2>3. /\ s.pc = "delete" /\ s.conf = task[Scheduler].conf
        /\ s.name = task[Scheduler].name /\ s.listed = now
        /\ s.entries = Doomed(s.conf, Listing)
    BY <1>0 DEF Fields
  <2> HIDE DEF s
  <2>4. Deleting(s)
    BY <2>2, <2>3, DoomedAreSound
  <2>5. NameSound(s) /\ RoundSound(s)
    BY <2>2, <2>3, <2>4 DEF NameSound, RoundSound
  <2> QED
    BY <1>0, <1>1, <1>2, <2>1, <2>5, RoundMoves, FailureKeepsRound
<1> QED
  BY <1>4, <1>5, <1>6, <1>7, <1>8

\* What is deleted comes before the rest, and so keeps nothing from staying.
LEMMA FirstGoes ==
  ASSUME NEW s, Deleting(s), now \in Nat, UNCHANGED now,
         NEW n \in DOMAIN s.entries,
         \A m \in DOMAIN s.entries \ {n} : Before(s.entries, n, m),
         bucket' = Without(bucket, n),
         NEW r, r.conf = s.conf, r.listed = s.listed, r.name = s.name, s.name \in Nat,
         r.entries = Without(s.entries, n)
  PROVE  Deleting(r)'
<1>1. /\ DOMAIN r.entries = DOMAIN s.entries \ {n}
      /\ \A m \in DOMAIN r.entries : r.entries[m] = s.entries[m]
      /\ DOMAIN bucket' = DOMAIN bucket \ {n}
      /\ \A k \in DOMAIN bucket' : bucket'[k] = bucket[k]
  BY DEF Without
<1>2. \A m \in DOMAIN s.entries : Doom(s, m)
  BY DEF Deleting
<1>3. ASSUME NEW m \in DOMAIN r.entries PROVE Doom(r, m)'
  <2>1. Doom(s, m) /\ r.entries[m] = s.entries[m] /\ m \in DOMAIN s.entries
    BY <1>1, <1>2, <1>3
  <2>2. ASSUME Outlived(s, m) PROVE Outlived(r, m)'
    <3>1. PICK kept \in SUBSET (DOMAIN bucket \ {m}) :
            /\ Cardinality(kept) >= s.conf.count
            /\ \A k \in kept : /\ bucket[k].modified >= s.entries[m]
                               /\ k \in DOMAIN s.entries => Before(s.entries, m, k)
      BY <2>2 DEF Outlived
    <3>2. n \notin kept
      <4>1. Before(s.entries, n, m)
        BY <1>1, <1>3
      <4>2. n \in Nat /\ m \in Nat /\ s.entries[n] \in Nat /\ s.entries[m] \in Nat
        BY <1>2, <2>1 DEF Doom
      <4>3. ~Before(s.entries, m, n)
        BY <1>1, <1>3, <4>1, <4>2 DEF Before, OldestFirst
      <4> QED
        BY <3>1, <4>3
    <3>3. kept \in SUBSET (DOMAIN bucket' \ {m})
      BY <1>1, <3>2
    <3>4. ASSUME NEW k \in kept
          PROVE  /\ bucket'[k].modified >= r.entries[m]
                 /\ k \in DOMAIN r.entries => Before(r.entries, m, k)
      BY <1>1, <2>1, <3>1, <3>3, <3>4 DEF Before
    <3> QED
      BY <2>2, <3>1, <3>3, <3>4 DEF Outlived
  <2>3. m \in DOMAIN bucket' => bucket'[m].modified \in {r.entries[m]} \cup r.listed..now
    BY <1>1, <2>1 DEF Doom
  <2>4. WasOver(s, m) => WasOver(r, m)
    BY <2>1 DEF WasOver
  <2> QED
    BY <2>1, <2>2, <2>3, <2>4 DEF Doom, WasOver
<1>4. r.name \in DOMAIN bucket' \/ \A m \in DOMAIN r.entries : r.entries[m] >= r.name
  <2>1. CASE s.name = n
    <3>1. ASSUME NEW m \in DOMAIN r.entries PROVE r.entries[m] >= n
      <4>1. Before(s.entries, n, m) /\ Doom(s, n) /\ Doom(s, m) /\ r.entries[m] = s.entries[m]
        BY <1>1, <1>2, <3>1
      <4> QED
        BY <4>1 DEF Before, OldestFirst, Doom
    <3> QED
      BY <2>1, <3>1
  <2>2. CASE s.name # n /\ s.name \in DOMAIN bucket
    BY <1>1, <2>2
  <2>3. CASE \A m \in DOMAIN s.entries : s.entries[m] >= s.name
    BY <1>1, <2>3
  <2> QED
    BY <2>1, <2>2, <2>3 DEF Deleting
<1> QED
  BY <1>3, <1>4 DEF Deleting

LEMMA DeleteKeepsRound ==
  ASSUME BackupInvariant, RetentionInvariant, Delete PROVE RetentionInvariant'
<1> DEFINE doomed == task[Scheduler].entries
<1>0. /\ Scheduler \in Tasks /\ TasksSound /\ UNCHANGED rest
      /\ now' = now /\ plan' = plan
      /\ DOMAIN task[Scheduler] = Fields
      /\ task[Scheduler].pc = "delete" /\ RoundSound(task[Scheduler])
  BY DEF Tasks, BackupInvariant, TasksSound, TaskSound, Delete, At, RetentionInvariant, rest
<1>1. PICK n \in DOMAIN doomed :
        /\ \A m \in DOMAIN doomed \ {n} : Before(doomed, n, m)
        /\ \/ /\ bucket' = Without(bucket, n)
              /\ task' = [task EXCEPT ![Scheduler].entries = Without(doomed, n)]
           \/ bucket' \in {Without(bucket, n), bucket} /\ Failed(Scheduler)
  BY DEF Delete
<1>2. StoredInTime'
  <2>1. /\ DOMAIN bucket' \in SUBSET DOMAIN bucket
        /\ \A k \in DOMAIN bucket' : bucket'[k] = bucket[k]
    BY <1>1 DEF Without
  <2>2. StoredInTime
    BY DEF RetentionInvariant
  <2>3. IsFiniteSet(DOMAIN bucket')
    BY <2>1, <2>2, FS_Subset DEF StoredInTime
  <2> QED
    BY <1>0, <2>1, <2>2, <2>3 DEF StoredInTime
<1>3. PICK w : /\ task' = [task EXCEPT ![Scheduler] = w]
               /\ NameSound(w)' /\ RoundSound(w)'
  <2>1. CASE Failed(Scheduler)
    <3> DEFINE w == [Idle EXCEPT !.pc = IF Scheduler = Scheduler THEN "look" ELSE "failed"]
    <3>1. w.pc = "look" /\ task' = [task EXCEPT ![Scheduler] = w]
      BY <2>1 DEF Idle, Failed, Become
    <3> HIDE DEF w
    <3>2. PICK v : v = w
      OBVIOUS
    <3>3. NameSound(v)' /\ RoundSound(v)'
      BY <3>1, <3>2 DEF NameSound, RoundSound, Round
    <3> QED
      BY <3>1, <3>2, <3>3
  <2>2. CASE /\ bucket' = Without(bucket, n)
             /\ task' = [task EXCEPT ![Scheduler].entries = Without(doomed, n)]
    <3>1. PICK s : s = task[Scheduler]
      OBVIOUS
    <3>2. PICK w : w = [task[Scheduler] EXCEPT !.entries = Without(doomed, n)]
      OBVIOUS
    <3>3. /\ w.pc = "delete" /\ w.conf = s.conf /\ w.listed = s.listed /\ w.name = s.name
          /\ w.entries = Without(s.entries, n)
      BY <1>0, <3>1, <3>2 DEF Fields
    <3>4. /\ Deleting(s) /\ s.conf \in Plans \ {None} /\ s.name \in Nat /\ now \in Nat
          /\ n \in DOMAIN s.entries
          /\ \A m \in DOMAIN s.entries \ {n} : Before(s.entries, n, m)
      BY <1>0, <1>1, <3>1 DEF RoundSound, Round, RetentionInvariant
    <3>5. Deleting(w)'
      BY <1>0, <2>2, <3>3, <3>4, FirstGoes
    <3>6. NameSound(w)' /\ RoundSound(w)'
      BY <3>3, <3>4, <3>5 DEF NameSound, RoundSound
    <3>7. task' = [task EXCEPT ![Scheduler] = w]
      BY <2>2, <3>2
    <3> QED
      BY <3>6, <3>7
  <2> QED
    BY <1>1, <2>1, <2>2
<1>4. task' = [u \in Tasks |-> IF u = Scheduler THEN w ELSE task[u]]
  BY <1>0, <1>3 DEF TasksSound
<1>5. ASSUME NEW u \in Tasks PROVE NameSound(task[u])'
  <2>1. NameSound(task[u])
    BY DEF RetentionInvariant
  <2> QED
    BY <1>0, <1>3, <1>4, <2>1 DEF NameSound
<1>6. RoundSound(task[Scheduler])'
  <2>1. task'[Scheduler] = w
    BY <1>0, <1>4
  <2> QED
    BY <1>3, <2>1 DEF RoundSound, Deleting, Doom, WasOver, Outlived
<1> QED
  BY <1>0, <1>2, <1>5, <1>6 DEF RetentionInvariant

LEMMA RetentionKept ==
  BackupInvariant /\ RetentionInvariant /\ [Next]_vars => RetentionInvariant'
<1> SUFFICES ASSUME BackupInvariant, RetentionInvariant, [Next]_vars
             PROVE  RetentionInvariant'
  OBVIOUS
<1>1. ASSUME now' \in Nat, now <= now', plan' \in Plans, UNCHANGED <<bucket, task>>
      PROVE  RetentionInvariant'
  <2>1. StoredInTime'
    BY <1>1 DEF RetentionInvariant, StoredInTime
  <2>2. ASSUME NEW t \in Tasks PROVE NameSound(task[t])'
    BY <1>1 DEF RetentionInvariant, NameSound
  <2>3. RoundSound(task[Scheduler])'
    <3>1. ASSUME Deleting(task[Scheduler]) PROVE Deleting(task[Scheduler])'
      BY <1>1, <3>1 DEF Deleting, Doom, WasOver, Outlived, RetentionInvariant
    <3> QED
      BY <1>1, <3>1 DEF RetentionInvariant, RoundSound
  <2> QED
    BY <1>1, <2>1, <2>2, <2>3 DEF RetentionInvariant
<1>2. CASE Tick \/ ChangeDb \/ ChangeFile \/ Edit \/ UNCHANGED vars
  BY <1>1, <1>2 DEF Tick, ChangeDb, ChangeFile, Edit, vars, RetentionInvariant
<1>3. CASE Restart
  <2>1. /\ task' = [t \in Tasks |-> task'[t]] /\ now' = now /\ plan' = plan
        /\ bucket' = bucket
    BY <1>3 DEF Restart, Started
  <2>2. ASSUME NEW t \in Tasks PROVE task'[t].pc \in {"idle", "look"}
    BY <1>3 DEF Restart, Started, Looking, Idle
  <2>3. Scheduler \in Tasks
    BY DEF Tasks
  <2> QED
    BY <2>1, <2>2, <2>3 DEF RetentionInvariant, StoredInTime, NameSound, RoundSound, Round
<1> QED
  BY <1>2, <1>3, CreateKeepsRound, RestoreKeepsRound, SchedulerKeepsRound, DeleteKeepsRound
     DEF Next

LEMMA InitKeepsRound == Init => RetentionInvariant
<1> SUFFICES ASSUME Init PROVE RetentionInvariant
  OBVIOUS
<1>1. StoredInTime
  BY FS_EmptySet DEF Init, StoredInTime
<1>2. ASSUME NEW t \in Tasks PROVE task[t].pc \in {"idle", "look"}
  BY DEF Init, Started, Looking, Idle
<1>3. Scheduler \in Tasks
  BY DEF Tasks
<1> QED
  BY <1>1, <1>2, <1>3 DEF Init, RetentionInvariant, NameSound, RoundSound, Round

THEOREM RetentionInvariantHolds == Spec => [](BackupInvariant /\ RetentionInvariant)
<1>1. Init => BackupInvariant /\ RetentionInvariant
  BY InitIsSound, InitKeepsRound
<1>2. BackupInvariant /\ RetentionInvariant /\ [Next]_vars
        => (BackupInvariant /\ RetentionInvariant)'
  BY StepIsSound, RetentionKept
<1> QED
  BY <1>1, <1>2, PTL DEF Spec

----
\* What one step deletes.
LEMMA OneGoes ==
  ASSUME RetentionInvariant, [Next]_vars, NEW n \in Gone
  PROVE  LET s == task[Scheduler]
         IN /\ s.pc = "delete" /\ n \in DOMAIN s.entries /\ Doom(s, n)
            /\ bucket' = Without(bucket, n) /\ now' = now
<1>1. Delete
  <2>1. CASE UNCHANGED bucket
    BY <2>1 DEF Gone
  <2>2. CASE \E t \in Tasks : Put(t)
    BY <2>2 DEF Put, Gone
  <2> QED
    BY <2>1, <2>2 DEF Next, vars, rest, Request, Create, Snapshot, Pack, Restore, ListBackups,
         AskRestore, Get, Extract, Look, Paused, Due, List, Deleted, Tick, ChangeDb, ChangeFile,
         Edit, Restart
<1>2. PICK m \in DOMAIN task[Scheduler].entries : bucket' \in {Without(bucket, m), bucket}
  BY <1>1 DEF Delete
<1>3. m = n /\ bucket' = Without(bucket, n)
  BY <1>2 DEF Without, Gone
<1>4. task[Scheduler].pc = "delete" /\ now' = now
  BY <1>1 DEF Delete, At, rest
<1>5. Deleting(task[Scheduler])
  BY <1>4 DEF RetentionInvariant, RoundSound
<1> QED
  BY <1>2, <1>3, <1>4, <1>5 DEF Deleting

\* Retention deletes only what as many as the plan keeps outlive, or what is over
\* age, whatever is stored by hand between the listing and the deletion
\* (apply_retention).
THEOREM RetentionDeletesTheOldest == Spec => RetentionSpares
<1>1. ASSUME RetentionInvariant, [Next]_vars, NEW n \in Gone
      PROVE  LET conf == task[Scheduler].conf
                 newer == {k \in DOMAIN bucket' : bucket[k].modified >= bucket[n].modified}
             IN \/ conf.count # None /\ Cardinality(newer) >= conf.count
                \/ conf.age # None /\ bucket[n].modified + conf.age < now
                \/ bucket[n].modified >= task[Scheduler].listed
  <2> DEFINE s == task[Scheduler]
             newer == {k \in DOMAIN bucket' : bucket[k].modified >= bucket[n].modified}
  <2>1. /\ s.pc = "delete" /\ n \in DOMAIN s.entries /\ Doom(s, n)
        /\ bucket' = Without(bucket, n)
    BY <1>1, OneGoes
  <2>2. /\ n \in DOMAIN bucket /\ s.conf \in Plans \ {None} /\ Deleting(s)
        /\ now \in Nat /\ StoredInTime
    BY <1>1, <2>1 DEF Gone, RetentionInvariant, RoundSound, Round
  <2>3. CASE bucket[n].modified # s.entries[n]
    BY <2>1, <2>2, <2>3 DEF Doom, Deleting
  <2>4. CASE bucket[n].modified = s.entries[n] /\ WasOver(s, n)
    <3>1. s.conf.age \in Nat /\ s.listed \in Nat /\ s.listed <= now /\ s.entries[n] \in Nat
      BY <2>1, <2>2, <2>4, PlansAre DEF WasOver, Deleting, Doom
    <3> QED
      BY <2>2, <2>4, <3>1 DEF WasOver
  <2>5. CASE bucket[n].modified = s.entries[n] /\ Outlived(s, n)
    <3>1. PICK kept \in SUBSET (DOMAIN bucket \ {n}) :
            /\ Cardinality(kept) >= s.conf.count
            /\ \A k \in kept : bucket[k].modified >= bucket[n].modified
      BY <2>5 DEF Outlived
    <3>2. kept \in SUBSET newer /\ newer \in SUBSET DOMAIN bucket
      BY <2>1, <3>1 DEF Without
    <3> HIDE DEF newer
    <3>3. IsFiniteSet(newer)
      BY <2>2, <3>2, FS_Subset DEF StoredInTime
    <3>4. /\ Cardinality(kept) \in Nat /\ Cardinality(newer) \in Nat
          /\ Cardinality(kept) <= Cardinality(newer)
      BY <3>2, <3>3, FS_Subset, FS_CardinalityType
    <3>5. s.conf.count # None /\ s.conf.count \in Nat
      BY <2>2, <2>5, PlansAre DEF Outlived
    <3>6. Cardinality(newer) >= s.conf.count
      BY <3>1, <3>4, <3>5
    <3> QED
      BY <3>5, <3>6 DEF newer
  <2> QED
    BY <2>1, <2>3, <2>4, <2>5 DEF Doom
<1>2. RetentionInvariant /\ [Next]_vars =>
        [\A n \in Gone :
           LET conf == task[Scheduler].conf
               newer == {k \in DOMAIN bucket' : bucket[k].modified >= bucket[n].modified}
           IN \/ conf.count # None /\ Cardinality(newer) >= conf.count
              \/ conf.age # None /\ bucket[n].modified + conf.age < now
              \/ bucket[n].modified >= task[Scheduler].listed]_vars
  BY <1>1
<1> QED
  BY <1>2, RetentionInvariantHolds, PTL DEF Spec, RetentionSpares

\* The bucket is emptied only under a plan that keeps none, or by a round longer
\* than the age: a round deletes nothing before it has stored its own backup
\* (spawn_backup_scheduler, apply_retention).
THEOREM LastBackupIsKept == Spec => LastBackupStays
<1>1. ASSUME RetentionInvariant, [Next]_vars, Gone # {}, DOMAIN bucket' = {}
      PROVE  LET s == task[Scheduler]
             IN s.conf.count = 0 \/ (s.conf.age # None /\ s.name + s.conf.age < now)
  <2> DEFINE s == task[Scheduler]
  <2>1. PICK n : n \in Gone
    BY <1>1
  <2>2. /\ s.pc = "delete" /\ n \in DOMAIN s.entries /\ Doom(s, n)
        /\ bucket' = Without(bucket, n)
    BY <1>1, <2>1, OneGoes
  <2>3. /\ s.conf \in Plans \ {None} /\ s.name \in Nat /\ Deleting(s) /\ now \in Nat
    BY <1>1, <2>2 DEF RetentionInvariant, RoundSound, Round
  <2>4. DOMAIN bucket \ {n} = {}
    BY <1>1, <2>2 DEF Without
  <2>5. CASE Outlived(s, n)
    <3>1. Cardinality({}) >= s.conf.count /\ s.conf.count # None
      BY <2>4, <2>5 DEF Outlived
    <3>2. s.conf.count \in Nat
      BY <2>3, <3>1, PlansAre
    <3> QED
      BY <3>1, <3>2, FS_EmptySet
  <2>6. CASE WasOver(s, n)
    <3>1. s.name <= s.entries[n]
      BY <2>2, <2>3, <2>4 DEF Deleting, Doom
    <3>2. /\ s.conf.age \in Nat /\ s.listed \in Nat /\ s.listed <= now
          /\ s.entries[n] \in Nat
      BY <2>2, <2>3, <2>6, PlansAre DEF WasOver, Deleting, Doom
    <3> QED
      BY <2>3, <2>6, <3>1, <3>2 DEF WasOver
  <2> QED
    BY <2>2, <2>5, <2>6 DEF Doom
<1>2. RetentionInvariant /\ [Next]_vars =>
        [Gone # {} /\ DOMAIN bucket' = {} =>
           LET s == task[Scheduler]
           IN s.conf.count = 0 \/ (s.conf.age # None /\ s.name + s.conf.age < now)]_vars
  BY <1>1
<1> QED
  BY <1>2, RetentionInvariantHolds, PTL DEF Spec, LastBackupStays

=============================================================================
