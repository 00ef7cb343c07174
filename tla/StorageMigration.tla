--------------------------- MODULE StorageMigration ---------------------------
(***************************************************************************)
(* Copy-only migration of stored objects between two storage providers: a  *)
(* run has one item and one job of the enrichment queue per object, the    *)
(* handler of a job copies the object's bytes and repoints its row, and    *)
(* the run is closed when its counters say that every item is accounted    *)
(* for.  Beside it: cancellation, deletion and editing of an object, the   *)
(* queue's retries, timeouts and reaper.                                   *)
(*                                                                         *)
(* The queue is modelled in EnrichmentQueue; here a job is its status and  *)
(* its attempts.  One action per statement or provider call of a handler.  *)
(***************************************************************************)
EXTENDS Naturals, FiniteSets

CONSTANTS
  Objects,      \* stored objects, all of them ready
  Execs,        \* executions of the handler, of one API process
  MaxRuns,      \* bound: migration runs
  MaxAttempts,  \* ENRICHMENT_MAX_ATTEMPTS
  Settings      \* what may go wrong, one of which is chosen for a behaviour

AllFaults == {
  "crash",       \* the API process dies
  "dbFault",     \* a database statement of the handler fails
  "slow",        \* a copy outlives the job's timeout
  "retried",     \* an administrator retries a job that ended
  "deleted",     \* an object is deleted
  "edited",      \* the orientation of a photo is edited, its bytes rewritten
  "lateEdit",    \* an edit writes while its object is being migrated
  "lateCancel"}  \* a run is cancelled while items of it are being executed

\* The faults, how many of them happen, how many runs are triggered, and the
\* objects that are stored
Setting == [faults: SUBSET AllFaults, mishaps: Nat, runs: 0 .. MaxRuns,
            objects: (SUBSET Objects) \ {{}}]

ASSUME MigrationAssumption ==
  /\ MaxRuns \in Nat /\ MaxAttempts \in Nat \ {0}
  /\ IsFiniteSet(Objects)
  /\ Settings \subseteq Setting

Providers == {"s3", "r2"}
Other(p) == IF p = "s3" THEN "r2" ELSE "s3"
Runs == 1 .. MaxRuns

VARIABLES
  setting,  \* of this behaviour, never changed
  object,   \* column storage_provider of the object's row, or "gone"
  bytes,    \* what each provider holds under the object's key
  run,      \* table storage_migration_runs
  item,     \* table storage_migration_items
  job,      \* the storage_migration jobs of the queue
  exec,     \* the promise chains of StorageMigrationHandler.process
  admin,    \* the trigger or cancel request being served
  user,     \* the deletion or edit of each object being served
  wish,     \* observation: what the owner of an object made of it
  lastRun, mishaps

vars == <<setting, object, bytes, run, item, job, exec, admin, user, wish, lastRun, mishaps>>

ActiveStatuses == {"pending", "running"}
Closed == {"completed", "failed"}
Run == [status: {"none", "cancelled"} \cup ActiveStatuses \cup Closed, to: Providers,
        total: Nat, migrated: Nat, failed: Nat, skipped: Nat]
NoRun == [status |-> "none", to |-> "s3", total |-> 0, migrated |-> 0, failed |-> 0,
          skipped |-> 0]

Final == {"completed", "failed", "skipped"}
Item == {"none", "pending", "copying"} \cup Final
Job == [status: {"none", "pending", "running", "succeeded", "failed"}, attempts: Nat]

\* The phases inside the handler's try statement
Tried == {"object", "copying", "verifying", "repointing", "already"}
Exec == [phase: {"idle", "item", "run", "skipping", "starting", "marking", "recording",
                 "reading", "closing", "returning", "throwing"} \cup Tried,
         run: 0 .. MaxRuns, object: Objects, orphan: BOOLEAN, last: BOOLEAN,
         from: Providers, caller: {"skip", "copy", "record"}, final: Closed]

Request == [op: {"none", "creating", "itemizing", "enqueuing", "cancelling", "sweeping"},
            run: 0 .. MaxRuns, to: Providers, todo: SUBSET Objects]
NoRequest == [op |-> "none", run |-> 0, to |-> "s3", todo |-> {}]

Idle(o) == [phase |-> "idle", run |-> 0, object |-> o, orphan |-> FALSE, last |-> FALSE,
            from |-> "s3", caller |-> "copy", final |-> "completed"]

Init ==
  /\ setting \in Settings
  /\ object = [o \in Objects |-> IF o \in setting.objects THEN "s3" ELSE "gone"]
  /\ bytes = [o \in Objects |-> [p \in Providers |->
       IF o \in setting.objects /\ p = "s3" THEN "old" ELSE "none"]]
  /\ run = [k \in Runs |-> NoRun]
  /\ item = [k \in Runs |-> [o \in Objects |-> "none"]]
  /\ job = [k \in Runs |-> [o \in Objects |-> [status |-> "none", attempts |-> 0]]]
  /\ \E o \in setting.objects : exec = [e \in Execs |-> Idle(o)]
  /\ admin = NoRequest
  /\ user = [o \in Objects |-> [op |-> "none", at |-> "s3"]]
  /\ wish = [o \in Objects |-> IF o \in setting.objects THEN "original" ELSE "deleted"]
  /\ lastRun = 0 /\ mishaps = 0

Mishap(fault) ==
  /\ fault \in setting.faults /\ mishaps < setting.mishaps
  /\ mishaps' = mishaps + 1
  /\ UNCHANGED setting

-----------------------------------------------------------------------------
(* Triggering and cancelling a run                                         *)

Active(k) == run[k].status \in ActiveStatuses
\* Mutant: only a run that has begun to copy is in the way.
NoneActiveRunning == \A k \in Runs : run[k].status # "running"

NoneActive == \A k \in Runs : ~Active(k)
Exists(o) == object[o] # "gone"
Executing(k) == \E e \in Execs : exec[e].phase # "idle" /\ exec[e].run = k

TriggerReads(to) ==
  /\ admin.op = "none" /\ lastRun < setting.runs
  /\ NoneActive
  /\ lastRun' = lastRun + 1
  /\ admin' = [op |-> "creating", run |-> lastRun + 1, to |-> to,
               todo |-> {o \in Objects : object[o] = Other(to)}]
  /\ UNCHANGED <<run, item, job>>

TriggerCreates ==
  /\ admin.op = "creating"
  /\ run' = [run EXCEPT ![admin.run] =
       [NoRun EXCEPT !.status = "pending", !.to = admin.to, !.total = Cardinality(admin.todo)]]
  /\ admin' = [admin EXCEPT !.op = "itemizing"]
  /\ UNCHANGED <<item, job, lastRun>>

\* One createMany: an object deleted meanwhile makes all of it fail.  A run with
\* nothing to do is completed at once.
TriggerItemizes ==
  /\ admin.op = "itemizing"
  /\ \/ /\ admin.todo = {}
        /\ run' = [run EXCEPT ![admin.run].status = "completed"]
        /\ admin' = NoRequest /\ UNCHANGED item
     \/ /\ admin.todo # {} /\ \A o \in admin.todo : Exists(o)
        /\ item' = [item EXCEPT ![admin.run] =
                      [o \in Objects |-> IF o \in admin.todo THEN "pending" ELSE "none"]]
        /\ admin' = [admin EXCEPT !.op = "enqueuing"] /\ UNCHANGED run
     \/ /\ \E o \in admin.todo : ~Exists(o)
        /\ admin' = NoRequest /\ UNCHANGED <<run, item>>
  /\ UNCHANGED <<job, lastRun>>

TriggerEnqueues(o) ==
  /\ admin.op = "enqueuing" /\ o \in admin.todo
  /\ job' = [job EXCEPT ![admin.run][o] = [status |-> "pending", attempts |-> 0]]
  /\ admin' = IF admin.todo = {o} THEN NoRequest ELSE [admin EXCEPT !.todo = @ \ {o}]
  /\ UNCHANGED <<run, item, lastRun>>

CancelReads(k) ==
  /\ admin.op = "none" /\ Active(k)
  /\ admin' = [NoRequest EXCEPT !.op = "cancelling", !.run = k]
  /\ UNCHANGED <<run, item, job, lastRun>>

CancelWrites ==
  /\ admin.op = "cancelling"
  /\ Executing(admin.run) => "lateCancel" \in setting.faults
  /\ run' = [run EXCEPT ![admin.run].status = "cancelled"]
  /\ admin' = [admin EXCEPT !.op = "sweeping"]
  /\ UNCHANGED <<item, job, lastRun>>

CancelSweeps ==
  /\ admin.op = "sweeping"
  /\ job' = [job EXCEPT ![admin.run] = [o \in Objects |->
       IF @[o].status = "pending" THEN [@[o] EXCEPT !.status = "none"] ELSE @[o]]]
  /\ admin' = NoRequest
  /\ UNCHANGED <<run, item, lastRun>>

RequestStep ==
  /\ \/ TriggerCreates \/ TriggerItemizes \/ CancelWrites \/ CancelSweeps
     \/ \E o \in Objects : TriggerEnqueues(o)
  /\ UNCHANGED <<setting, object, bytes, exec, user, wish, mishaps>>

NewRequest ==
  /\ \/ \E to \in Providers : TriggerReads(to)
     \/ \E k \in Runs : CancelReads(k)
  /\ UNCHANGED <<setting, object, bytes, exec, user, wish, mishaps>>

-----------------------------------------------------------------------------
(* The queue                                                               *)

\* The worker's verdict on a failed attempt, and the reaper's on a dead one
GivenBack(j) == [j EXCEPT !.status = IF j.attempts < MaxAttempts THEN "pending" ELSE "failed"]

Claim(e, k, o) ==
  /\ exec[e].phase = "idle" /\ job[k][o].status = "pending"
  /\ job' = [job EXCEPT ![k][o] = [status |-> "running", attempts |-> @.attempts + 1]]
  /\ exec' = [exec EXCEPT ![e] = [Idle(o) EXCEPT !.phase = "item", !.run = k,
                !.last = job[k][o].attempts + 1 >= MaxAttempts]]
  /\ UNCHANGED <<setting, object, bytes, run, item, admin, user, wish, lastRun, mishaps>>

Holds(e, k, o) ==
  exec[e].phase # "idle" /\ ~exec[e].orphan /\ exec[e].run = k /\ exec[e].object = o

\* resetStuck, of a job whose execution died with its process
Reap(k, o) ==
  /\ job[k][o].status = "running" /\ \A e \in Execs : ~Holds(e, k, o)
  /\ job' = [job EXCEPT ![k][o] = GivenBack(@)]
  /\ UNCHANGED <<setting, object, bytes, run, item, exec, admin, user, wish, lastRun, mishaps>>

\* The worker stops waiting for the handler, which goes on by itself.
TimesOut(e) ==
  /\ exec[e].phase = "copying" /\ ~exec[e].orphan
  /\ Mishap("slow")
  /\ job' = [job EXCEPT ![exec[e].run][exec[e].object] = GivenBack(@)]
  /\ exec' = [exec EXCEPT ![e].orphan = TRUE]
  /\ UNCHANGED <<object, bytes, run, item, admin, user, wish, lastRun>>

RetryJob(k, o) ==
  /\ job[k][o].status \in {"pending", "succeeded", "failed"}
  /\ Mishap("retried")
  /\ job' = [job EXCEPT ![k][o] = [status |-> "pending", attempts |-> 0]]
  /\ UNCHANGED <<object, bytes, run, item, exec, admin, user, wish, lastRun>>

\* What a process held in memory is gone.
Crash ==
  /\ Mishap("crash")
  /\ exec' = [e \in Execs |-> Idle(exec[e].object)]
  /\ admin' = NoRequest
  /\ user' = [o \in Objects |-> [op |-> "none", at |-> "s3"]]
  /\ UNCHANGED <<object, bytes, run, item, job, wish, lastRun>>

-----------------------------------------------------------------------------
(* The handler                                                             *)

K(e) == exec[e].run
O(e) == exec[e].object
At(e, phase) == exec[e].phase = phase
Goto(e, phase) == exec' = [exec EXCEPT ![e].phase = phase]

\* The item is gone with its object, or was completed by an earlier attempt.
Settled(status) == status \in {"none", "completed"}

ReadItem(e) ==
  /\ At(e, "item")
  /\ Goto(e, IF Settled(item[K(e)][O(e)]) THEN "returning" ELSE "run")
  /\ UNCHANGED <<object, bytes, run, item, job>>

ReadRun(e) ==
  /\ At(e, "run")
  /\ Goto(e, CASE run[K(e)].status = "cancelled" -> "skipping"
               [] run[K(e)].status = "pending" -> "starting"
               [] OTHER -> "marking")
  /\ UNCHANGED <<object, bytes, run, item, job>>

Raise(e) == Goto(e, IF exec[e].phase \in Tried /\ exec[e].last THEN "recording" ELSE "throwing")

\* A transaction that sets the item and increments a counter of the run; the
\* update of an item that is gone makes it fail.
Count(e, status, counted) ==
  /\ item[K(e)][O(e)] # "none"
  /\ item' = [item EXCEPT ![K(e)][O(e)] = status]
  /\ run' = [run EXCEPT ![K(e)] = counted]
  /\ exec' = [exec EXCEPT ![e].phase = "reading",
               ![e].caller = CASE status = "skipped" -> "skip"
                               [] status = "failed" -> "record"
                               [] OTHER -> "copy"]

Skip(e) ==
  /\ At(e, "skipping")
  /\ \/ Count(e, "skipped", [run[K(e)] EXCEPT !.skipped = @ + 1])
     \/ item[K(e)][O(e)] = "none" /\ Raise(e) /\ UNCHANGED <<item, run>>
  /\ UNCHANGED <<object, bytes, job>>

\* By id, whatever the run has become since it was read
StartRun(e) ==
  /\ At(e, "starting")
  /\ run' = [run EXCEPT ![K(e)].status = "running"]
  /\ Goto(e, "marking")
  /\ UNCHANGED <<object, bytes, item, job>>

MarkCopying(e) ==
  /\ At(e, "marking")
  /\ \/ /\ item[K(e)][O(e)] # "none"
        /\ item' = [item EXCEPT ![K(e)][O(e)] = "copying"]
        /\ Goto(e, "object")
     \/ item[K(e)][O(e)] = "none" /\ Raise(e) /\ UNCHANGED item
  /\ UNCHANGED <<object, bytes, run, job>>

\* Mutant: an object deleted meanwhile is not noticed.
LoadObjectUnchecked(e) ==
  /\ At(e, "object")
  /\ exec' = [exec EXCEPT ![e].phase = "copying", ![e].from = object[O(e)]]
  /\ UNCHANGED <<object, bytes, run, item, job>>

\* Mutant: bytes that are at the target already are taken for a copy.
LoadObjectReuse(e) ==
  /\ At(e, "object") /\ Exists(O(e))
  /\ exec' = [exec EXCEPT ![e].from = object[O(e)],
       ![e].phase = IF bytes[O(e)][run[K(e)].to] = "none" THEN "copying" ELSE "repointing"]
  /\ UNCHANGED <<object, bytes, run, item, job>>

\* Mutant: the row is repointed before its bytes are there.
LoadObjectRepoint(e) ==
  /\ At(e, "object") /\ Exists(O(e))
  /\ exec' = [exec EXCEPT ![e].phase = "repointing", ![e].from = object[O(e)]]
  /\ UNCHANGED <<object, bytes, run, item, job>>

\* When the object is gone the handler means to skip its item, but the item has
\* been deleted with it and the transaction fails.
LoadObject(e) ==
  /\ At(e, "object")
  /\ \/ ~Exists(O(e)) /\ Raise(e)
     \/ object[O(e)] = run[K(e)].to /\ Goto(e, "already")
     \/ /\ object[O(e)] = Other(run[K(e)].to)
        /\ exec' = [exec EXCEPT ![e].phase = "copying", ![e].from = object[O(e)]]
  /\ UNCHANGED <<object, bytes, run, item, job>>

Already(e) ==
  /\ At(e, "already")
  /\ \/ Count(e, "completed", [run[K(e)] EXCEPT !.migrated = @ + 1])
     \/ item[K(e)][O(e)] = "none" /\ Raise(e) /\ UNCHANGED <<item, run>>
  /\ UNCHANGED <<object, bytes, job>>

Copy(e) ==
  /\ At(e, "copying") /\ bytes[O(e)][exec[e].from] # "none"
  /\ bytes' = [bytes EXCEPT ![O(e)][run[K(e)].to] = bytes[O(e)][exec[e].from]]
  /\ Goto(e, "verifying")
  /\ UNCHANGED <<object, run, item, job>>

\* A provider refuses, or has nothing under the key.
CopyFails(e) ==
  /\ At(e, "copying") /\ Raise(e)
  /\ UNCHANGED <<object, bytes, run, item, job>>

Verify(e) ==
  /\ At(e, "verifying")
  /\ \/ bytes[O(e)][run[K(e)].to] # "none" /\ Goto(e, "repointing")
     \/ bytes[O(e)][run[K(e)].to] = "none" /\ Raise(e)
  /\ UNCHANGED <<object, bytes, run, item, job>>

\* Object, item and counter in one transaction
Repoint(e) ==
  /\ At(e, "repointing")
  /\ \/ /\ Exists(O(e))
        /\ Count(e, "completed", [run[K(e)] EXCEPT !.migrated = @ + 1])
        /\ object' = [object EXCEPT ![O(e)] = run[K(e)].to]
     \/ ~Exists(O(e)) /\ Raise(e) /\ UNCHANGED <<object, item, run>>
  /\ UNCHANGED <<bytes, job>>

\* The terminal attempt leaves its failure on the item.
Record(e) ==
  /\ At(e, "recording")
  /\ \/ Count(e, "failed", [run[K(e)] EXCEPT !.failed = @ + 1])
     \/ item[K(e)][O(e)] = "none" /\ Raise(e) /\ UNCHANGED <<item, run>>
  /\ UNCHANGED <<object, bytes, job>>

Leave(e) == IF exec[e].caller = "record" THEN "throwing" ELSE "returning"

\* Mutant: the run is closed one item early.
AccountedAlmost(r) == r.migrated + r.failed + r.skipped + 1 >= r.total

\* Mutant: the run waits for one more than there are.
AccountedBeyond(r) == r.migrated + r.failed + r.skipped > r.total

Accounted(r) == r.migrated + r.failed + r.skipped >= r.total

\* maybeFinalizeRun reads the run ...
ReadCounts(e) ==
  LET r == run[K(e)] IN
  /\ At(e, "reading")
  /\ IF r.status \in Closed \cup {"cancelled"} \/ ~Accounted(r)
     THEN Goto(e, Leave(e))
     ELSE exec' = [exec EXCEPT ![e].phase = "closing",
                    ![e].final = IF r.failed > 0 THEN "failed" ELSE "completed"]
  /\ UNCHANGED <<object, bytes, run, item, job>>

\* ... and closes it by id.
CloseRun(e) ==
  /\ At(e, "closing")
  /\ run' = [run EXCEPT ![K(e)].status = exec[e].final]
  /\ Goto(e, Leave(e))
  /\ UNCHANGED <<object, bytes, item, job>>

\* The worker records the outcome of an execution it still waits for.
Return(e) ==
  /\ exec[e].phase \in {"returning", "throwing"}
  /\ exec' = [exec EXCEPT ![e] = Idle(O(e))]
  /\ \/ exec[e].orphan /\ UNCHANGED job
     \/ ~exec[e].orphan /\ At(e, "returning")
        /\ job' = [job EXCEPT ![K(e)][O(e)].status = "succeeded"]
     \/ ~exec[e].orphan /\ At(e, "throwing")
        /\ job' = [job EXCEPT ![K(e)][O(e)] = GivenBack(@)]
  /\ UNCHANGED <<object, bytes, run, item>>

ExecStep(e) ==
  /\ \/ ReadItem(e) \/ ReadRun(e) \/ Skip(e) \/ StartRun(e) \/ MarkCopying(e)
     \/ LoadObject(e) \/ Already(e) \/ Copy(e) \/ CopyFails(e) \/ Verify(e)
     \/ Repoint(e) \/ Record(e) \/ ReadCounts(e) \/ CloseRun(e) \/ Return(e)
  /\ UNCHANGED <<setting, admin, user, wish, lastRun, mishaps>>

\* The finalization after a copy is inside the try statement, the one after a
\* recorded failure has an error handler of its own.
StatementFails(e) ==
  /\ exec[e].phase \in {"item", "run", "skipping", "starting", "marking", "object",
                        "already", "repointing", "recording", "reading", "closing"}
  /\ Mishap("dbFault")
  /\ Goto(e, IF /\ exec[e].last
                /\ \/ exec[e].phase \in Tried
                   \/ exec[e].phase \in {"reading", "closing"} /\ exec[e].caller = "copy"
             THEN "recording" ELSE "throwing")
  /\ UNCHANGED <<object, bytes, run, item, job, admin, user, wish, lastRun>>

-----------------------------------------------------------------------------
(* Deleting and editing an object                                          *)

Begin(o, op) ==
  /\ Exists(o) /\ user[o].op = "none"
  /\ user' = [user EXCEPT ![o] = [op |-> op, at |-> object[o]]]
  /\ UNCHANGED <<object, bytes, run, item, job, exec, admin, lastRun>>

\* The bytes go first, at the provider the row named when it was read.
DeleteReads(o) ==
  /\ Mishap("deleted") /\ Begin(o, "deleting")
  /\ wish' = [wish EXCEPT ![o] = "deleted"]

EditReads(o) ==
  /\ wish[o] = "original" /\ Mishap("edited") /\ Begin(o, "editing")
  /\ UNCHANGED wish

DeleteBytes(o) ==
  /\ user[o].op = "deleting"
  /\ bytes' = [bytes EXCEPT ![o][user[o].at] = "none"]
  /\ user' = [user EXCEPT ![o].op = "emptied"]
  /\ UNCHANGED <<object, item, wish>>

\* The items of the object go with its row.
DeleteRow(o) ==
  /\ user[o].op = "emptied"
  /\ object' = [object EXCEPT ![o] = "gone"]
  /\ item' = [k \in Runs |-> [item[k] EXCEPT ![o] = "none"]]
  /\ user' = [user EXCEPT ![o].op = "none"]
  /\ UNCHANGED <<bytes, wish>>

\* The object is being copied, or was repointed after the edit read its row.
Moving(o) ==
  \/ object[o] # user[o].at
  \/ \E e \in Execs :
       exec[e].object = o /\ exec[e].phase \in {"copying", "verifying", "repointing"}

\* The same key of the same provider is overwritten.
EditWrites(o) ==
  /\ user[o].op = "editing"
  /\ Moving(o) => "lateEdit" \in setting.faults
  /\ bytes' = [bytes EXCEPT ![o][user[o].at] = "new"]
  /\ wish' = [wish EXCEPT ![o] = "edited"]
  /\ user' = [user EXCEPT ![o].op = "none"]
  /\ UNCHANGED <<object, item>>

UserStep(o) ==
  /\ DeleteBytes(o) \/ DeleteRow(o) \/ EditWrites(o)
  /\ UNCHANGED <<setting, run, job, exec, admin, lastRun, mishaps>>

-----------------------------------------------------------------------------

Next ==
  \/ RequestStep \/ NewRequest
  \/ \E e \in Execs, k \in Runs, o \in Objects : Claim(e, k, o)
  \/ \E k \in Runs, o \in Objects : Reap(k, o) \/ RetryJob(k, o)
  \/ \E e \in Execs : ExecStep(e) \/ TimesOut(e) \/ StatementFails(e)
  \/ \E o \in Objects : UserStep(o) \/ DeleteReads(o) \/ EditReads(o)
  \/ Crash

Fairness ==
  /\ WF_vars(RequestStep)
  /\ \A e \in Execs : WF_vars(ExecStep(e))
  /\ \A k \in Runs, o \in Objects :
       WF_vars(Reap(k, o)) /\ WF_vars(\E e \in Execs : Claim(e, k, o))
  /\ \A o \in Objects : WF_vars(UserStep(o))

Spec == Init /\ [][Next]_vars /\ Fairness

-----------------------------------------------------------------------------
(* Properties                                                              *)

Without(F) == setting.faults \cap F = {}

TypeOK ==
  /\ setting \in Settings
  /\ object \in [Objects -> Providers \cup {"gone"}]
  /\ bytes \in [Objects -> [Providers -> {"none", "old", "new"}]]
  /\ run \in [Runs -> Run]
  /\ item \in [Runs -> [Objects -> Item]]
  /\ job \in [Runs -> [Objects -> Job]]
  /\ exec \in [Execs -> Exec]
  /\ admin \in Request
  /\ user \in [Objects -> [op: {"none", "deleting", "emptied", "editing"}, at: Providers]]
  /\ wish \in [Objects -> {"original", "edited", "deleted"}]
  /\ lastRun \in 0 .. MaxRuns /\ mishaps \in 0 .. setting.mishaps

\* An object nobody deletes has its bytes where its row says, at every moment of
\* a migration and under every fault: the copy is verified before the row is
\* repointed, and the source is never removed.
Reachable ==
  \A o \in Objects :
    wish[o] # "deleted" => Exists(o) /\ bytes[o][object[o]] # "none"

\* The bytes its row names are the ones its owner last wrote, however often the
\* object has been migrated back and forth since, unless the edit met a migration:
\* every migration copies anew, and what is left at a provider is never taken up.
Current ==
  \A o \in Objects :
    wish[o] = "edited" /\ "lateEdit" \notin setting.faults =>
      Exists(o) /\ bytes[o][object[o]] = "new"

\* No item counts twice: an administrator does not retry a job whose failure has
\* been counted, the worker does not retry one whose copy goes on, no copy that
\* has been counted fails in maybeFinalizeRun, inside the same try statement, and
\* no crash gives back the job of an item skipped in a run that has been started
\* again since.
CountedOnce ==
  /\ Without({"retried", "slow", "dbFault"})
  /\ Without({"crash"}) \/ Without({"lateCancel"})

\* A run is closed when every item of it is settled, and completed only when
\* none has failed: maybeFinalizeRun trusts counters, and no item counts twice.
ClosedInTurn ==
  CountedOnce =>
    \A k \in Runs, o \in Objects :
      run[k].status \in Closed =>
        /\ item[k][o] \in Final \cup {"none"}
        /\ run[k].status = "completed" => item[k][o] # "failed"

\* One run at a time is pending or running: a closed or cancelled run never
\* comes back.  An execution that read the run before it was cancelled, or before
\* an item counted twice closed it, would start it again: it writes by id.
OneActiveRun ==
  CountedOnce /\ Without({"lateCancel"}) => \A j, k \in Runs : Active(j) /\ Active(k) => j = k

\* A run ends, and stops blocking the next one, unless a crash, a lost
\* statement, a deletion or a late cancellation leaves an item uncounted.
RunSettles ==
  \A k \in Runs :
    Active(k) /\ Without({"crash", "dbFault", "deleted", "lateCancel"}) ~> ~Active(k)

\* A run with a job in the queue ends, whatever becomes of its objects.
RunCloses ==
  \A k \in Runs :
    Active(k) /\ (\E o \in Objects : job[k][o].status # "none") ~> ~Active(k)
=============================================================================
