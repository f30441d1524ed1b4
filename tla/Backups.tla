------------------------------- MODULE Backups -------------------------------
(***************************************************************************)
(* Backups: the snapshot of the database and the configuration file, put   *)
(* into a bucket (backup/mod.rs, tarball.rs, s3.rs), the task that makes   *)
(* them on a schedule and deletes old ones (scheduler.rs), and the ones    *)
(* made by hand (routes/api.rs, main.rs), at the same time.                *)
(*                                                                         *)
(* Time is in seconds.  A backup's name is the second it was packed in.    *)
(* The database and the file change all the time: a change is known by its *)
(* number, counted over both.                                              *)
(*                                                                         *)
(* A definition whose comment begins with "Faulty:" is a mistake this code *)
(* could have made, kept to see that the properties notice it.             *)
(***************************************************************************)
EXTENDS Naturals, FiniteSets
LOCAL INSTANCE FiniteSetsExt

CONSTANTS
  Creators,   \* backups made by hand
  Scheduler,  \* the scheduler's task
  None,
  Plans,      \* what config.backup may be: [schedule, count, age], or None
  Pause,      \* seconds the scheduler waits when there is nothing to wait for
  MaxTime,    \* bound on the clock
  MaxChanges, \* bound on changes of the database and the file
  MaxEdits,   \* bound on edits of the plan
  MaxRestarts \* bound on restarts

ASSUME BackupsConstants ==
  /\ Scheduler \notin Creators
  /\ {Pause, MaxTime, MaxChanges, MaxEdits, MaxRestarts} \subseteq Nat
  /\ \A p \in Plans \ {None} :
       /\ p.schedule \subseteq 1..MaxTime
       /\ {p.count, p.age} \subseteq Nat \cup {None}

VARIABLES
  now,      \* the clock
  plan,     \* config.backup, live
  db,       \* the last change of the database
  file,     \* the last change of the configuration file
  written,  \* every change of the file so far
  bucket,   \* name -> [modified, packed, db, file]
  task,     \* task -> what it is doing
  edits, restarts

vars == <<now, plan, db, file, written, bucket, task, edits, restarts>>
rest == <<now, plan, db, file, written, edits, restarts>>

Tasks == Creators \cup {Scheduler}
Times == 0..MaxTime

\* A task's locals: the plan it loaded, the time it sleeps until, the snapshot,
\* the file as packed and when, the name, the entries listed or to delete, and
\* when they were listed.
Idle == [pc |-> "idle", conf |-> None, wake |-> 0, db |-> 0, file |-> 0,
         packed |-> 0, name |-> 0, entries |-> <<>>, listed |-> 0]

Looking == [Idle EXCEPT !.pc = "look"]

At(t, pc) == task[t].pc = pc
Become(t, s) == task' = [task EXCEPT ![t] = s]
Goto(t, pc) == task' = [task EXCEPT ![t].pc = pc]

\* The scheduler goes on after an error, which is logged; a creator reports it.
Failed(t) == Become(t, [Idle EXCEPT !.pc = IF t = Scheduler THEN "look" ELSE "failed"])

----
(***************************************************************************)
(* create_backup                                                           *)
(***************************************************************************)
\* S3Client::new, a temporary directory, VACUUM INTO: any of them may fail.
Snapshot(t) ==
  /\ At(t, "snapshot")
  /\ \/ Become(t, [task[t] EXCEPT !.pc = "pack", !.db = db])
     \/ Failed(t)
  /\ UNCHANGED <<rest, bucket>>

\* Faulty: named after the minute (of two seconds).
CoarseName(second) == (second \div 2) * 2

\* now_utc_filename
NameOf(second) == second

\* The name, then create_tarball, which reads the file.
Pack(t) ==
  /\ At(t, "pack")
  /\ \/ Become(t, [task[t] EXCEPT !.pc = "put", !.file = file,
                               !.packed = now, !.name = NameOf(now)])
     \/ Failed(t)
  /\ UNCHANGED <<rest, bucket>>

\* Faulty: the database is read as it is when it is sent.
LiveUpload(t) ==
  [modified |-> now, packed |-> task[t].packed, db |-> db, file |-> task[t].file]

Upload(t) ==
  [modified |-> now, packed |-> task[t].packed, db |-> task[t].db, file |-> task[t].file]

\* Faulty: what has failed does not keep retention from running.
PutFailedGoesOn(t) == Goto(t, IF t = Scheduler THEN "list" ELSE "failed")

PutFailed(t) == Failed(t)

\* An error may come back for an object that was stored.
Put(t) ==
  /\ At(t, "put")
  /\ \/ /\ bucket' = [n \in DOMAIN bucket \cup {task[t].name} |->
                        IF n = task[t].name THEN Upload(t) ELSE bucket[n]]
        /\ Goto(t, IF t = Scheduler THEN "list" ELSE "done") \/ PutFailed(t)
     \/ UNCHANGED bucket /\ PutFailed(t)
  /\ UNCHANGED rest

\* POST /api/backup/create and backup create: no retention follows.
Request(t) ==
  /\ t \in Creators /\ At(t, "idle") /\ plan # None
  /\ Become(t, [Idle EXCEPT !.pc = "snapshot", !.conf = plan])
  /\ UNCHANGED <<rest, bucket>>

----
(***************************************************************************)
(* The bucket's listing.                                                   *)
(***************************************************************************)
\* Each name, with the time it was stored at.
Listing == [n \in DOMAIN bucket |-> bucket[n].modified]

\* Faulty: the newest first.
NewestFirst(this, that) == this > that

OldestFirst(this, that) == this < that

\* A stable sort of a listing, which is in the order of the names.
Before(entries, m, n) ==
  \/ OldestFirst(entries[m], entries[n])
  \/ entries[m] = entries[n] /\ m < n

\* The first of them is in place 1.
Place(entries, n) == Cardinality({m \in DOMAIN entries : m = n \/ Before(entries, m, n)})

----
(***************************************************************************)
(* restore_backup: POST /api/backup/restore with confirm, and restore.     *)
(* Every restore has a directory of its own; the one of the API is removed *)
(* when the handler returns, which the model leaves out.                   *)
(***************************************************************************)
\* list_backups
ListBackups(t) ==
  /\ t \in Creators /\ At(t, "idle") /\ plan # None
  /\ \/ Become(t, [Idle EXCEPT !.pc = "choose", !.entries = Listing])
     \/ Failed(t)
  /\ UNCHANGED <<rest, bucket>>

\* Whoever has seen the list asks for one on it.
AskRestore(t) ==
  /\ At(t, "choose") /\ plan # None
  /\ \E n \in DOMAIN task[t].entries :
       Become(t, [Idle EXCEPT !.pc = "get", !.conf = plan, !.name = n])
  /\ UNCHANGED <<rest, bucket>>

\* An object that is not there, or no longer, is an error.
Get(t) ==
  /\ At(t, "get")
  /\ \/ /\ task[t].name \in DOMAIN bucket
        /\ LET found == bucket[task[t].name]
           IN Become(t, [task[t] EXCEPT !.pc = "extract", !.db = found.db, !.file = found.file])
     \/ Failed(t)
  /\ UNCHANGED <<rest, bucket>>

\* extract_tarball
Extract(t) ==
  /\ At(t, "extract")
  /\ Goto(t, "restored") \/ Failed(t)
  /\ UNCHANGED <<rest, bucket>>

Restore(t) == ListBackups(t) \/ AskRestore(t) \/ Get(t) \/ Extract(t)

----
(***************************************************************************)
(* apply_retention, by the scheduler only.                                 *)
(***************************************************************************)
\* The excess over the count, and what is older than the age.  The excess comes
\* first in the sorted listing, and the rest is looked at in its order: so the
\* deletions are in its order too.
Excess(conf, entries) ==
  {n \in DOMAIN entries :
     conf.count # None /\ Place(entries, n) + conf.count <= Cardinality(DOMAIN entries)}

OverAge(conf, entries) ==
  {n \in DOMAIN entries : conf.age # None /\ entries[n] + conf.age < now}

Doomed(conf, entries) ==
  [n \in Excess(conf, entries) \cup OverAge(conf, entries) |-> entries[n]]

List ==
  /\ At(Scheduler, "list")
  /\ LET s == task[Scheduler]
     IN IF s.conf.count = None /\ s.conf.age = None
        THEN Become(Scheduler, Looking)
        ELSE \/ Become(Scheduler, [s EXCEPT !.pc = "delete", !.listed = now,
                                            !.entries = Doomed(s.conf, Listing)])
             \/ Failed(Scheduler)
  /\ UNCHANGED <<rest, bucket>>

Without(f, n) == [m \in DOMAIN f \ {n} |-> f[m]]

\* The first error ends it; what it was about may have been deleted.
Delete ==
  /\ At(Scheduler, "delete")
  /\ LET doomed == task[Scheduler].entries
     IN \E n \in DOMAIN doomed :
          /\ \A m \in DOMAIN doomed \ {n} : Before(doomed, n, m)
          /\ \/ /\ bucket' = Without(bucket, n)
                /\ task' = [task EXCEPT ![Scheduler].entries = Without(doomed, n)]
             \/ bucket' \in {Without(bucket, n), bucket} /\ Failed(Scheduler)
  /\ UNCHANGED rest

Deleted ==
  /\ At(Scheduler, "delete") /\ DOMAIN task[Scheduler].entries = {}
  /\ Become(Scheduler, Looking)
  /\ UNCHANGED <<rest, bucket>>

----
(***************************************************************************)
(* spawn_backup_scheduler                                                  *)
(***************************************************************************)
Upcoming == IF plan = None THEN {} ELSE {d \in plan.schedule : d > now}

\* It sleeps until the next time of the schedule it sees, or for a while.
Look ==
  /\ At(Scheduler, "look")
  /\ Become(Scheduler, IF Upcoming = {} THEN [Idle EXCEPT !.pc = "pause", !.wake = now + Pause]
                       ELSE [Idle EXCEPT !.pc = "sleep", !.wake = Min(Upcoming)])
  /\ UNCHANGED <<rest, bucket>>

Paused ==
  /\ At(Scheduler, "pause") /\ now >= task[Scheduler].wake
  /\ Become(Scheduler, Looking)
  /\ UNCHANGED <<rest, bucket>>

\* The plan is loaded again; its schedule is not looked at.
Due ==
  /\ At(Scheduler, "sleep") /\ now >= task[Scheduler].wake
  /\ IF plan = None THEN Become(Scheduler, Looking)
     ELSE Become(Scheduler, [Idle EXCEPT !.pc = "snapshot", !.conf = plan])
  /\ UNCHANGED <<rest, bucket>>

\* There is a scheduler if there is a schedule when the server starts.
Started(p) ==
  [t \in Tasks |-> IF t = Scheduler /\ p # None /\ p.schedule # {}
                   THEN Looking ELSE Idle]

Restart ==
  /\ restarts < MaxRestarts
  /\ restarts' = restarts + 1
  /\ task' = Started(plan)
  /\ UNCHANGED <<now, plan, db, file, written, edits, bucket>>

----
(***************************************************************************)
(* The clock, the database, the file and who edits the plan.               *)
(***************************************************************************)
Tick ==
  /\ now < MaxTime
  /\ now' = now + 1
  /\ UNCHANGED <<plan, db, file, written, edits, restarts, bucket, task>>

NextChange == (IF db > file THEN db ELSE file) + 1

ChangeDb ==
  /\ NextChange <= MaxChanges
  /\ db' = NextChange
  /\ UNCHANGED <<now, plan, file, written, edits, restarts, bucket, task>>

ChangeFile ==
  /\ NextChange <= MaxChanges
  /\ file' = NextChange /\ written' = written \cup {NextChange}
  /\ UNCHANGED <<now, plan, db, edits, restarts, bucket, task>>

Edit ==
  /\ edits < MaxEdits
  /\ edits' = edits + 1
  /\ plan' \in Plans
  /\ UNCHANGED <<now, db, file, written, restarts, bucket, task>>

Init ==
  /\ now = 0 /\ plan \in Plans
  /\ db = 0 /\ file = 0 /\ written = {0}
  /\ bucket = <<>>
  /\ task = Started(plan)
  /\ edits = 0 /\ restarts = 0

Create(t) == Snapshot(t) \/ Pack(t) \/ Put(t)

Next ==
  \/ \E t \in Tasks : Request(t) \/ Create(t) \/ Restore(t)
  \/ Look \/ Paused \/ Due \/ List \/ Delete \/ Deleted
  \/ Tick \/ ChangeDb \/ ChangeFile \/ Edit \/ Restart

Spec == Init /\ [][Next]_vars

----
(***************************************************************************)
(* Properties.                                                             *)
(***************************************************************************)
\* A backup's configuration is never older than its database: what the
\* configuration was when the database was last written is in it, or what
\* came after, whatever changes while the backup is made.  So with what is
\* restored, whatever is made and deleted while it is.
Consistent(files) == \A v \in written : v <= files.db => v <= files.file

BackupsAreConsistent ==
  /\ \A n \in DOMAIN bucket : Consistent(bucket[n])
  /\ \A t \in Creators : At(t, "restored") => Consistent(task[t])

\* Whoever is told a name finds the backup it made under it, or none if it is
\* deleted: unless another was packed in the same second, and has replaced it.
KeptAsMade ==
  \A t \in Creators : At(t, "done") /\ task[t].name \in DOMAIN bucket =>
    LET found == bucket[task[t].name]
    IN \/ found.db = task[t].db /\ found.file = task[t].file
       \/ found.packed = task[t].packed

\* What is deleted now.
Gone == DOMAIN bucket \ DOMAIN bucket'

\* Retention deletes a backup only if as many as the plan keeps are newer or as
\* new, or if it is over age; backups made by hand meanwhile do not mislead it.
\* (One stored since the listing under a name that was on it goes as well.)
RetentionSpares ==
  [][\A n \in Gone :
       LET conf == task[Scheduler].conf
           newer == {k \in DOMAIN bucket' : bucket[k].modified >= bucket[n].modified}
       IN \/ conf.count # None /\ Cardinality(newer) >= conf.count
          \/ conf.age # None /\ bucket[n].modified + conf.age < now
          \/ bucket[n].modified >= task[Scheduler].listed]_vars

\* The last backup is deleted only under a plan that keeps none, or by a round
\* that took longer than the age since it packed its own: when backups begin to
\* fail, the old ones stay.
LastBackupStays ==
  [][Gone # {} /\ DOMAIN bucket' = {} =>
       LET s == task[Scheduler]
       IN s.conf.count = 0 \/ (s.conf.age # None /\ s.name + s.conf.age < now)]_vars

=============================================================================
