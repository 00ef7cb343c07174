--------------------------- MODULE DatabaseBackup ---------------------------
(***************************************************************************)
(* The scheduled and manual backups of the PostgreSQL database: the run    *)
(* row that is the single slot, the execution that dumps, uploads and      *)
(* verifies, the ten-minute tick that releases stale runs and fires due    *)
(* ones, retention, and an administrator's start, cancel and delete.       *)
(*                                                                         *)
(* Runs are numbered in the order of startedAt.  Clock times are           *)
(* abstracted to: quiet, the heartbeat is older than runStaleMinutes; and  *)
(* day, how many schedule boundaries have passed.                          *)
(***************************************************************************)
EXTENDS Naturals, FiniteSets

CONSTANTS
  Procs,           \* replicas of the API process
  Settings,        \* what is chosen once for a behaviour, see Setting
  MaxRuns,         \* bound: runs ever claimed
  MaxDay,          \* bound: schedule boundaries
  MaxAsked,        \* bound: administrator requests
  MaxCrashes       \* bound: crashes of a process

AllHazards == {
  "lapse",        \* a live run is without heartbeat beyond the stale window
  "lateCancel",   \* a cancellation meets a live run it has no handle of
  "deleteFails",  \* the storage provider fails a delete
  "dbFault",      \* markFailed or a prune fails a database statement
  "lateUpload"}   \* pg_dump fails while its upload is being finished

\* hazards: what the environment may do; keep: databaseBackup.retentionCount;
\* runs and days: bounds, at most MaxRuns and MaxDay
Setting == [hazards: SUBSET AllHazards, keep: Nat \ {0},
            runs: 0 .. MaxRuns, days: 0 .. MaxDay]

ASSUME BackupAssumption ==
  /\ MaxRuns \in Nat /\ MaxDay \in Nat /\ MaxAsked \in Nat /\ MaxCrashes \in Nat
  /\ Settings \subseteq Setting

Runs == 1 .. MaxRuns
NoRun == 0

VARIABLES
  setting,  \* never changed
  row,      \* table database_backup_runs
  object,   \* the archive of a run in the storage provider
  exec,     \* the promise chain of startBackup for a run
  tick,     \* the cron handler of a process
  admin,    \* the cancel or delete request being served
  late,     \* runs that failed and whose upload is still being finished
  day, lastRun, asked, crashes,
  fate      \* observation: who decided to do away with a run's archive

vars == <<setting, late, row, object, exec, tick, admin, day, lastRun, asked, crashes, fate>>

Hazards == setting.hazards
RetentionCount == setting.keep
Without(F) == Hazards \cap F = {}

Triggers == {"scheduled", "manual", "pre_restore"}
Gone == {"absent", "deleted"}
Row == [status: {"running", "completed", "failed", "stale"} \cup Gone,
        trigger: Triggers, keyed: BOOLEAN, quiet: BOOLEAN, day: 0 .. MaxDay]

LivePhases == {"starting", "streaming", "uploaded", "reading", "dropping", "closing"}
Exec == [phase: LivePhases \cup {"idle", "succeeded", "failed"}, proc: Procs]

Tick == [phase: {"idle", "releasing", "clearing", "due", "claiming", "awaiting",
                 "deleting", "removing"},
         run: Runs \cup {NoRun}, keyed: BOOLEAN, todo: SUBSET Runs,
         rule: {"count", "age"}]

Request == [op: {"none", "cancel", "dropping", "closing", "delete", "remove"},
            run: Runs \cup {NoRun}, keyed: BOOLEAN, proc: Procs]

AtRest == [phase |-> "idle", run |-> NoRun, keyed |-> FALSE, todo |-> {}, rule |-> "count"]
NoRequest(p) == [op |-> "none", run |-> NoRun, keyed |-> FALSE, proc |-> p]

Exists(r) == row[r].status \notin Gone
Active(r) == row[r].status = "running"
Live(r) == exec[r].phase \in LivePhases

Init ==
  /\ setting \in Settings
  /\ late = {}
  /\ row = [r \in Runs |-> [status |-> "absent", trigger |-> "manual",
                            keyed |-> FALSE, quiet |-> FALSE, day |-> 0]]
  /\ object = [r \in Runs |-> "none"]
  /\ \E p \in Procs :
       /\ exec = [r \in Runs |-> [phase |-> "idle", proc |-> p]]
       /\ admin = NoRequest(p)
  /\ tick = [p \in Procs |-> AtRest]
  /\ day = 0 /\ lastRun = 0 /\ asked = 0 /\ crashes = 0
  /\ fate = [r \in Runs |-> "kept"]

-----------------------------------------------------------------------------
(* The slot and the execution of a run                                     *)

\* database_backup_runs_active_uniq_idx
SlotFree == \A r \in Runs : ~Active(r)

Claim(p, trigger) ==
  LET r == lastRun + 1 IN
  /\ lastRun < setting.runs /\ SlotFree
  /\ lastRun' = r
  /\ row' = [row EXCEPT ![r] = [status |-> "running", trigger |-> trigger,
                                keyed |-> FALSE, quiet |-> FALSE, day |-> day]]
  /\ exec' = [exec EXCEPT ![r] = [phase |-> "starting", proc |-> p]]

Enter(r, phase) == exec' = [exec EXCEPT ![r].phase = phase]

\* The update by id that stores the key fails when the row is deleted.
RecordKey(r) ==
  /\ exec[r].phase = "starting" /\ Exists(r) /\ ~row[r].keyed
  /\ row' = [row EXCEPT ![r].keyed = TRUE]
  /\ UNCHANGED <<object, exec, fate, late>>

\* A local disk shows the growing file at once, S3 only the complete object.
BeginDump(r) ==
  /\ exec[r].phase = "starting" /\ row[r].keyed
  /\ Enter(r, "streaming")
  /\ \E o \in {"none", "partial"} : object' = [object EXCEPT ![r] = o]
  /\ UNCHANGED <<row, fate, late>>

\* safeUpdateProgress, whatever the status of the row
Beat(r) == row' = [row EXCEPT ![r].quiet = FALSE]

Heartbeat(r) ==
  /\ exec[r].phase = "streaming" /\ Exists(r) /\ row[r].quiet
  /\ Beat(r)
  /\ UNCHANGED <<object, exec, fate, late>>

\* Upload and pg_dump both ended well; the archive may still be damaged.
FinishUpload(r) ==
  /\ exec[r].phase = "streaming"
  /\ Enter(r, "uploaded")
  /\ \E o \in {"partial", "whole"} : object' = [object EXCEPT ![r] = o]
  /\ Beat(r)
  /\ UNCHANGED <<fate, late>>

\* Mutant: verification settles for an object that is there.
OpenAnyArchive(r) ==
  /\ exec[r].phase = "uploaded" /\ object[r] # "none"
  /\ Enter(r, "reading")
  /\ UNCHANGED <<row, object, fate, late>>

\* verifyUploadedArchive opens the object; what is read of it stays readable.
OpenArchive(r) ==
  /\ exec[r].phase = "uploaded" /\ object[r] = "whole"
  /\ Enter(r, "reading")
  /\ UNCHANGED <<row, object, fate, late>>

Complete(r) ==
  /\ exec[r].phase = "reading" /\ Exists(r)
  /\ Enter(r, "succeeded")
  /\ row' = [row EXCEPT ![r].status = "completed", ![r].quiet = FALSE]
  /\ UNCHANGED <<object, fate, late>>

\* Any step of executeRun throws, or the abort handle is called.  Promise.all
\* does not wait for an upload that has all its bytes but has not settled.
FailRun(r) ==
  /\ exec[r].phase \in {"starting", "streaming", "uploaded", "reading"}
  /\ Enter(r, "dropping")
  /\ \/ late' = late
     \/ exec[r].phase = "streaming" /\ "lateUpload" \in Hazards /\ late' = late \cup {r}
  /\ UNCHANGED <<row, object, fate>>

\* The provider settles the upload nobody waits for.
LandUpload(r) ==
  /\ r \in late /\ late' = late \ {r}
  /\ \E o \in {"partial", object[r]} : object' = [object EXCEPT ![r] = o]
  /\ UNCHANGED <<setting, row, exec, tick, admin, day, lastRun, asked, crashes, fate>>

\* provider.delete, which succeeds on an object that is not there
DeleteObject(r) == object' = [object EXCEPT ![r] = "none"]

\* What markFailed and deletePartialObject make of a key they have read
TryDelete(r, keyed) ==
  \/ keyed /\ DeleteObject(r)
  \/ (keyed => "deleteFails" \in Hazards) /\ UNCHANGED object

\* markFailed, first half: find the row, delete the object it names.
DropPartial(r) ==
  /\ exec[r].phase = "dropping"
  /\ Enter(r, "closing")
  /\ \/ TryDelete(r, Exists(r) /\ row[r].keyed)
     \/ "dbFault" \in Hazards /\ UNCHANGED object
  /\ UNCHANGED <<row, fate, late>>

\* Mutant: the row is given a status of the restore audit.
WriteAborted(r) == row' = [row EXCEPT ![r].status = "aborted"]

\* markFailed, second half: the update by id, its error swallowed.
WriteFailed(r) ==
  \/ Exists(r) /\ row' = [row EXCEPT ![r].status = "failed"]
  \/ (Exists(r) => "dbFault" \in Hazards) /\ UNCHANGED row

CloseFailed(r) ==
  /\ exec[r].phase = "closing"
  /\ Enter(r, "failed")
  /\ WriteFailed(r)
  /\ UNCHANGED <<object, fate, late>>

ExecStep(r) ==
  /\ \/ RecordKey(r) \/ BeginDump(r) \/ FinishUpload(r) \/ OpenArchive(r)
     \/ Complete(r) \/ FailRun(r) \/ DropPartial(r) \/ CloseFailed(r)
  /\ UNCHANGED <<setting, tick, admin, day, lastRun, asked, crashes>>

Beats(r) == Heartbeat(r) /\ UNCHANGED <<setting, tick, admin, day, lastRun, asked, crashes>>

\* Nothing refreshes the heartbeat of a dead run; nor, for long enough, of a
\* live one that is not streaming or whose progress writes fail.
GoQuiet(r) ==
  /\ Active(r) /\ ~row[r].quiet
  /\ Live(r) => "lapse" \in Hazards
  /\ row' = [row EXCEPT ![r].quiet = TRUE]
  /\ UNCHANGED <<setting, late, object, exec, tick, admin, day, lastRun, asked, crashes, fate>>

-----------------------------------------------------------------------------
(* The tick: release stale runs, fire a due one, prune after it            *)

At(p, phase) == tick[p].phase = phase
Goto(p, phase) == tick' = [tick EXCEPT ![p].phase = phase]

\* Mutant: a fixed age of the run instead of its heartbeat.
StaleByAge(r) == Active(r)

\* Mutant: only runs that have named an archive are swept.
StaleKeyed(r) == Active(r) /\ row[r].quiet /\ row[r].keyed

Stale(r) == Active(r) /\ row[r].quiet

\* At most one row is running, so the list of candidates has one at most.
StartTick(p) ==
  /\ At(p, "idle")
  /\ \/ \E r \in Runs :
          /\ Stale(r)
          /\ tick' = [tick EXCEPT ![p] = [AtRest EXCEPT !.phase = "releasing",
                                           !.run = r, !.keyed = row[r].keyed]]
     \/ (\A r \in Runs : ~Stale(r)) /\ Goto(p, "due")
  /\ UNCHANGED <<row, object, exec, lastRun, fate>>

\* Conditional on the status: a run that ended meanwhile is left alone.
ReleaseStale(p) ==
  LET r == tick[p].run IN
  /\ At(p, "releasing")
  /\ \/ /\ Active(r)
        /\ row' = [row EXCEPT ![r].status = "stale"]
        /\ Goto(p, "clearing")
     \/ ~Active(r) /\ Goto(p, "due") /\ UNCHANGED row
  /\ UNCHANGED <<object, exec, lastRun, fate>>

ClearStale(p) ==
  /\ At(p, "clearing")
  /\ TryDelete(tick[p].run, tick[p].keyed)
  /\ Goto(p, "due")
  /\ UNCHANGED <<row, exec, lastRun, fate>>

\* Mutant: only a completed run counts as having fired.
DueUntilCompleted ==
  day > 0 /\ \A r \in Runs : row[r].status = "completed" => row[r].day < day

\* The latest run, of any trigger and outcome, started before the boundary.
Due == day > 0 /\ \A r \in Runs : Exists(r) => row[r].day < day

CheckDue(p) ==
  /\ At(p, "due")
  /\ IF Due THEN Goto(p, "claiming") ELSE tick' = [tick EXCEPT ![p] = AtRest]
  /\ UNCHANGED <<row, object, exec, lastRun, fate>>

FireScheduled(p) ==
  /\ At(p, "claiming")
  /\ Claim(p, "scheduled")
  /\ tick' = [tick EXCEPT ![p] = [AtRest EXCEPT !.phase = "awaiting", !.run = lastRun']]
  /\ UNCHANGED <<object, fate>>

\* P2002, or the bound on runs
FireRefused(p) ==
  /\ At(p, "claiming")
  /\ ~SlotFree \/ lastRun = setting.runs
  /\ tick' = [tick EXCEPT ![p] = AtRest]
  /\ UNCHANGED <<row, object, exec, lastRun, fate>>

\* Mutant: pre-restore dumps are counted and pruned as routine backups.
RoutineAny == {r \in Runs : row[r].status = "completed"}

Routine == {r \in Runs : row[r].status = "completed" /\ row[r].trigger # "pre_restore"}
Newer(S, r) == {q \in S : q > r}
Excess == {r \in Routine : Cardinality(Newer(Routine, r)) >= RetentionCount}

\* The completed pre-restore dumps started before some moment
ExpiredBefore(moment) ==
  {r \in Runs : r < moment /\ row[r].status = "completed" /\ row[r].trigger = "pre_restore"}

\* runBackup returns to the tick; only a success prunes.
BackupReturns(p) ==
  LET r == tick[p].run IN
  /\ At(p, "awaiting") /\ ~Live(r)
  /\ tick' = [tick EXCEPT ![p] =
                IF exec[r].phase = "succeeded"
                THEN [AtRest EXCEPT !.phase = "deleting", !.todo = Excess]
                ELSE AtRest]
  /\ UNCHANGED <<row, object, exec, lastRun, fate>>

Oldest(S) == CHOOSE r \in S : \A q \in S : r <= q

\* Mutant: the row goes even when its object could not be deleted.
PruneObjectAnyway(p) ==
  LET r == Oldest(tick[p].todo) IN
  /\ At(p, "deleting") /\ tick[p].todo # {}
  /\ fate' = [fate EXCEPT ![r] = IF @ = "kept" THEN "pruned" ELSE @]
  /\ DeleteObject(r) \/ UNCHANGED object
  /\ tick' = [tick EXCEPT ![p].phase = "removing", ![p].run = r]
  /\ UNCHANGED <<row, exec, lastRun>>

\* The object goes first; a run whose object stays keeps its row.
PruneObject(p) ==
  LET r == Oldest(tick[p].todo) IN
  /\ At(p, "deleting") /\ tick[p].todo # {}
  /\ fate' = [fate EXCEPT ![r] = IF @ = "kept" THEN "pruned" ELSE @]
  /\ \/ /\ DeleteObject(r)
        /\ tick' = [tick EXCEPT ![p].phase = "removing", ![p].run = r]
     \/ /\ "deleteFails" \in Hazards
        /\ tick' = [tick EXCEPT ![p].todo = @ \ {r}]
        /\ UNCHANGED object
  /\ UNCHANGED <<row, exec, lastRun>>

RemoveRow(r) == Exists(r) /\ row' = [row EXCEPT ![r].status = "deleted"]

PruneRow(p) ==
  LET r == tick[p].run IN
  /\ At(p, "removing")
  /\ \/ RemoveRow(r)
     \/ (Exists(r) => "dbFault" \in Hazards) /\ UNCHANGED row
  /\ tick' = [tick EXCEPT ![p].phase = "deleting", ![p].todo = @ \ {r}]
  /\ UNCHANGED <<object, exec, lastRun, fate>>

\* The count rule is followed by the age rule, which ends the tick.
EndRule(p) ==
  /\ At(p, "deleting") /\ tick[p].todo = {}
  /\ \/ /\ tick[p].rule = "count"
        /\ \E moment \in 1 .. lastRun + 1 :
             tick' = [tick EXCEPT ![p].rule = "age", ![p].todo = ExpiredBefore(moment)]
     \/ tick[p].rule = "age" /\ tick' = [tick EXCEPT ![p] = AtRest]
  /\ UNCHANGED <<row, object, exec, lastRun, fate>>

TickStep(p) ==
  /\ \/ StartTick(p) \/ ReleaseStale(p) \/ ClearStale(p) \/ CheckDue(p)
     \/ FireScheduled(p) \/ FireRefused(p) \/ BackupReturns(p)
     \/ PruneObject(p) \/ PruneRow(p) \/ EndRule(p)
  /\ UNCHANGED <<setting, late, admin, day, asked, crashes>>

-----------------------------------------------------------------------------
(* Requests: start, cancel, delete                                         *)

Ask == asked < MaxAsked /\ asked' = asked + 1
Serve(p, op, r) == admin' = [op |-> op, run |-> r, keyed |-> FALSE, proc |-> p]
Served == admin' = NoRequest(admin.proc)

\* A manual start, or the safety dump a restore takes first.
StartRun(p) ==
  /\ Ask
  /\ \E trigger \in {"manual", "pre_restore"} : Claim(p, trigger)
  /\ UNCHANGED <<setting, late, object, tick, admin, day, crashes, fate>>

\* activeRuns holds the abort handle of a run this process is streaming.
AbortRun(p, r) ==
  /\ Ask
  /\ Active(r) /\ exec[r].phase = "streaming" /\ exec[r].proc = p
  /\ FailRun(r)
  /\ UNCHANGED <<setting, tick, admin, day, lastRun, crashes>>

\* Mutant: cancelling does not look at the status.
CancellableAny(r) == Exists(r)

Cancellable(r) == Active(r)

CancelRun(p, r) ==
  /\ Ask /\ admin.op = "none"
  /\ Cancellable(r)
  /\ Live(r) => "lateCancel" \in Hazards
  /\ Serve(p, "cancel", r)
  /\ UNCHANGED <<setting, late, row, object, exec, tick, day, lastRun, crashes, fate>>

DeleteRun(p, r) ==
  /\ Ask /\ admin.op = "none"
  /\ Exists(r) /\ ~Active(r)
  /\ Serve(p, "delete", r)
  /\ UNCHANGED <<setting, late, row, object, exec, tick, day, lastRun, crashes, fate>>

\* No handle in this process: markFailed reads the row ...
CancelReads ==
  /\ admin.op = "cancel"
  /\ ~(exec[admin.run].phase = "streaming" /\ exec[admin.run].proc = admin.proc)
  /\ \E keyed \in {Exists(admin.run) /\ row[admin.run].keyed} \cup
                  {k \in {FALSE} : "dbFault" \in Hazards} :
       admin' = [admin EXCEPT !.op = "dropping", !.keyed = keyed]
  /\ UNCHANGED <<row, object, exec, fate, late>>

\* ... or the run has a handle by now, and is aborted.
CancelAborts ==
  /\ admin.op = "cancel"
  /\ exec[admin.run].phase = "streaming" /\ exec[admin.run].proc = admin.proc
  /\ FailRun(admin.run) /\ Served

CancelDrops ==
  /\ admin.op = "dropping"
  /\ TryDelete(admin.run, admin.keyed)
  /\ admin' = [admin EXCEPT !.op = "closing"]
  /\ UNCHANGED <<row, exec, fate, late>>

CancelCloses ==
  /\ admin.op = "closing"
  /\ WriteFailed(admin.run) /\ Served
  /\ UNCHANGED <<object, exec, fate, late>>

\* deleteRun drops the row even when the object stays.
DeleteDrops ==
  LET r == admin.run IN
  /\ admin.op = "delete"
  /\ admin' = [admin EXCEPT !.op = "remove"]
  /\ \/ /\ row[r].keyed => DeleteObject(r)
        /\ ~row[r].keyed => UNCHANGED object
        /\ fate' = [fate EXCEPT ![r] = "removed"]
     \/ /\ "deleteFails" \in Hazards /\ row[r].keyed
        /\ fate' = [fate EXCEPT ![r] = "abandoned"]
        /\ UNCHANGED object
  /\ UNCHANGED <<row, exec, late>>

DeleteCloses ==
  /\ admin.op = "remove"
  /\ \/ RemoveRow(admin.run)
     \/ ~Exists(admin.run) /\ UNCHANGED row
  /\ Served
  /\ UNCHANGED <<object, exec, fate, late>>

RequestStep ==
  /\ \/ CancelReads \/ CancelAborts \/ CancelDrops \/ CancelCloses
     \/ DeleteDrops \/ DeleteCloses
  /\ UNCHANGED <<setting, tick, day, lastRun, asked, crashes>>

-----------------------------------------------------------------------------

NextDay ==
  /\ day < setting.days
  /\ day' = day + 1
  /\ UNCHANGED <<setting, late, row, object, exec, tick, admin, lastRun, asked, crashes, fate>>

\* The process dies and restarts: what it held in memory is gone.
Crash(p) ==
  /\ crashes < MaxCrashes
  /\ crashes' = crashes + 1
  /\ late' = {r \in late : exec[r].proc # p}
  /\ exec' = [r \in Runs |-> IF exec[r].proc = p THEN [exec[r] EXCEPT !.phase = "idle"]
                                                 ELSE exec[r]]
  /\ tick' = [tick EXCEPT ![p] = AtRest]
  /\ admin' = IF admin.proc = p THEN NoRequest(p) ELSE admin
  /\ UNCHANGED <<setting, row, object, day, lastRun, asked, fate>>

Next ==
  \/ \E r \in Runs : ExecStep(r) \/ LandUpload(r) \/ Beats(r) \/ GoQuiet(r)
  \/ \E p \in Procs : TickStep(p) \/ StartRun(p) \/ Crash(p)
  \/ \E p \in Procs, r \in Runs : AbortRun(p, r) \/ CancelRun(p, r) \/ DeleteRun(p, r)
  \/ RequestStep
  \/ NextDay

Fairness ==
  /\ \A r \in Runs : WF_vars(ExecStep(r)) /\ WF_vars(GoQuiet(r))
  /\ \A p \in Procs : WF_vars(TickStep(p))
  /\ WF_vars(RequestStep)

Spec == Init /\ [][Next]_vars /\ Fairness

-----------------------------------------------------------------------------
(* Properties                                                              *)

TypeOK ==
  /\ setting \in Settings /\ late \subseteq Runs
  /\ row \in [Runs -> Row]
  /\ object \in [Runs -> {"none", "partial", "whole"}]
  /\ exec \in [Runs -> Exec]
  /\ tick \in [Procs -> Tick]
  /\ admin \in Request
  /\ day \in 0 .. MaxDay /\ lastRun \in 0 .. MaxRuns
  /\ asked \in 0 .. MaxAsked /\ crashes \in 0 .. MaxCrashes
  /\ fate \in [Runs -> {"kept", "pruned", "removed", "abandoned"}]

Restorable(r) == row[r].status = "completed" /\ object[r] = "whole"

\* A completed run that nobody asked to remove, and that no request is about to
\* change, has a whole archive: executeRun verifies before it declares success,
\* and nothing deletes the archive later.
CompletedRestorable ==
  \A r \in Runs :
    row[r].status = "completed" /\ fate[r] = "kept" /\ admin.run # r => Restorable(r)

\* A live run beats within the stale window and is not cancelled where it has
\* no abort handle.
Attended == Without({"lapse", "lateCancel"})

\* An attended backup is restorable when it is completed: no failure of the
\* provider or of a database statement, and no crash, deletes its archive.
AttendedRestorable == Attended => CompletedRestorable

\* An archive in storage is named by a row, unless an administrator deleted the
\* row although the provider refused to delete the archive, or while an upload
\* was in the air: markFailed, the stale sweep and retention never leave bytes
\* nothing points at.
ObjectNamed ==
  \A r \in Runs :
    object[r] # "none" =>
      \/ Exists(r) /\ row[r].keyed
      \/ fate[r] = "abandoned"
      \/ fate[r] = "removed" /\ ~Without({"lapse", "lateCancel", "lateUpload"})

\* There is one execution at a time, and it holds the slot: no second pg_dump
\* starts while an attended one is running, however long it takes.
OneDump ==
  Attended => \A r \in Runs : Live(r) => Active(r) /\ \A q \in Runs : Live(q) => q = r

\* Retention takes an archive only when RetentionCount newer routine backups
\* stay that are restorable or that an administrator removed.
RetentionFloor ==
  Attended => \A r \in Runs : fate[r] = "pruned" /\ row[r].trigger # "pre_restore" =>
    Cardinality({q \in Newer(Runs, r) :
                   \/ fate[q] \in {"removed", "abandoned"}
                   \/ /\ fate[q] = "kept" /\ Restorable(q)
                      /\ row[q].trigger # "pre_restore"}) >= RetentionCount

\* The schedule fires once for a boundary, as far as the rows remember it.
OneRunPerBoundary ==
  \A q, r \in Runs :
    /\ Exists(q) /\ row[q].trigger = "scheduled"
    /\ Exists(r) /\ row[r].trigger = "scheduled"
    /\ row[q].day = row[r].day
    => q = r

\* Only a running run completes, and a completed one stays so until removed.
CompletionFinal ==
  [][Attended => \A r \in Runs :
       /\ row[r].status = "completed" => row'[r].status \in {"completed", "deleted"}
       /\ row'[r].status = "completed" => row[r].status \in {"running", "completed"}]_vars

\* Every boundary is served: some run starts after it, unless the next
\* boundary passes first.
BoundaryFires ==
  \A d \in 1 .. MaxDay :
    day = d ~> day > d \/ \E r \in Runs : row[r].status # "absent" /\ row[r].day >= d
=============================================================================
