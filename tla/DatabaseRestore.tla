--------------------------- MODULE DatabaseRestore ---------------------------
(***************************************************************************)
(* Restore of the application's own database from a completed backup, and  *)
(* its rollback: an archive is loaded into a scratch database beside the   *)
(* live one, the two are exchanged by renames while maintenance mode keeps *)
(* requests out, the catalog of backups is carried across, and the process *)
(* exits so that it comes back on the new database.                        *)
(*                                                                         *)
(* A database is a number: 0 is the one the deployment started with, k the *)
(* one attempt k loads.  Attempts have names of their own, as the suffix   *)
(* of a name is the time of the attempt.  What a database holds is         *)
(* abstracted to its table database_backup_runs.                           *)
(***************************************************************************)
EXTENDS Naturals, FiniteSets

CONSTANTS
  NBackups,     \* backups of the schedule: ids 1 .. NBackups
  MaxRestores,  \* bound: attempts; attempt k may take dump NBackups + k
  MaxMishaps,   \* bound: crashes of the process and lost writes
  Settings      \* sets of faults, one of which is chosen for a behaviour

AllFaults == {
  "crash",         \* the process dies
  "dbFault",       \* a write of the restore audit fails and is swallowed
  "rowFails",      \* a row of the catalog cannot be carried over
  "carryFails",    \* the new database cannot be reached for the carry-over
  "putBackFails",  \* the rename that undoes a failed exchange fails as well
  "dropFails",     \* a database cannot be dropped
  "overlap",       \* a request is served while another is, or while a failed
                   \* restore still drops its scratch database
  "again",         \* a backup is restored whose restore is the live database
  "lateBackup",    \* a backup completes after the catalog was exported
  "lifted"}        \* an administrator lifts maintenance during an exchange

ASSUME RestoreAssumption ==
  /\ NBackups \in Nat /\ MaxRestores \in Nat /\ MaxMishaps \in Nat
  /\ \A F \in Settings : F \subseteq AllFaults

Restores == 1 .. MaxRestores
Backups == 1 .. NBackups
Ids == 1 .. NBackups + MaxRestores
DumpOf(k) == NBackups + k

Db == 0 .. MaxRestores
NoDb == MaxRestores + 1

Live == [use |-> "live", of |-> 0]
Scratch(k) == [use |-> "restore", of |-> k]
Old(k) == [use |-> "old", of |-> k]
Superseded(k) == [use |-> "superseded", of |-> k]
Names == {Live} \cup [use : {"restore", "old", "superseded"}, of : Restores]

VARIABLES
  faults,    \* the faults of this behaviour, never changed
  named,     \* the databases of the cluster, by name
  catalog,   \* the table database_backup_runs of each database
  archive,   \* what a completed backup holds: a database and its catalog
  task,      \* the promise chain executeRestore of an attempt
  undo,      \* the rollback being served
  override,  \* the in-memory override of maintenance mode, admins blocked
  replaced,  \* observation: the database an attempt renamed away
  tried, mishaps

vars == <<faults, named, catalog, archive, task, undo, override, replaced, tried, mishaps>>

ActiveStatuses == {"restoring", "verifying", "swapping"}
Refusals == {"guided", "blocked"}
Row == [status: {"absent", "incomplete", "completed"},
        restore: {"none", "completed", "failed"} \cup ActiveStatuses \cup Refusals,
        oldDb: 0 .. MaxRestores, dump: 0 .. NBackups + MaxRestores]
NoRow == [status |-> "absent", restore |-> "none", oldDb |-> 0, dump |-> 0]
Catalogs == [Ids -> Row]
NoRows == [r \in Ids |-> NoRow]
NoArchive == [db |-> NoDb, rows |-> NoRows]

Modes == {"retain_database", "pre_restore_dump"}
Executing == {"artifact", "dumping", "creating", "loading", "verifying", "exporting",
              "exported", "quiet", "gap", "landed", "carried", "failing", "dropping"}
Task == [phase: {"idle", "checked", "ended"} \cup Executing,
         run: 0 .. NBackups + MaxRestores, mode: Modes, scratch: BOOLEAN, copy: Catalogs]
NoTask == [phase |-> "idle", run |-> 0, mode |-> "retain_database",
           scratch |-> FALSE, copy |-> NoRows]

\* The archive of a backup knows the backup itself as a run under way.
TakenBy(r, S) ==
  [q \in Ids |-> IF q \in S THEN [NoRow EXCEPT !.status = "completed"]
                 ELSE IF q = r THEN [NoRow EXCEPT !.status = "incomplete"] ELSE NoRow]

Init ==
  /\ faults \in Settings
  /\ named = [n \in Names |-> IF n = Live THEN 0 ELSE NoDb]
  /\ catalog = [d \in Db |-> IF d = 0 THEN TakenBy(0, {1} \cap Backups) ELSE NoRows]
  /\ archive = [r \in Ids |-> IF r \in {1} \cap Backups
                              THEN [db |-> 0, rows |-> TakenBy(1, {})] ELSE NoArchive]
  /\ task = [k \in Restores |-> NoTask]
  /\ undo = [phase |-> "idle", from |-> 0]
  /\ override = FALSE
  /\ replaced = [k \in Restores |-> NoDb]
  /\ tried = 0 /\ mishaps = 0

-----------------------------------------------------------------------------
(* The cluster and the catalog                                             *)

Present(n) == named[n] # NoDb
LiveDb == named[Live]
Rows == IF Present(Live) THEN catalog[LiveDb] ELSE NoRows
Rename(from, to) == [named EXCEPT ![from] = NoDb, ![to] = named[from]]
CanRename(from, to) == Present(from) /\ ~Present(to)

At(k, phase) == task[k].phase = phase
Goto(k, phase) == task' = [task EXCEPT ![k].phase = phase]
Busy(k) == task[k].phase \in Executing

\* writeRestoreState: an update by id of the live database, its error swallowed
Written(r, row) == [catalog EXCEPT ![LiveDb][r] = row]
Mishap == mishaps < MaxMishaps /\ mishaps' = mishaps + 1

Write(r, row) ==
  LET there == Rows[r].status # "absent" IN
  \/ there /\ catalog' = Written(r, row) /\ UNCHANGED mishaps
  \/ there /\ "dbFault" \in faults /\ Mishap /\ UNCHANGED catalog
  \/ ~there /\ UNCHANGED <<catalog, mishaps>>

WriteStatus(r, status) == Write(r, [Rows[r] EXCEPT !.restore = status])

-----------------------------------------------------------------------------
(* A backup of the schedule, taken while all this goes on                  *)

Swapping(k) == task[k].phase \in {"exported", "quiet"}

BackupCompletes(r) ==
  /\ Present(Live) /\ Rows[r].status = "absent" /\ archive[r] = NoArchive
  /\ (\E k \in Restores : Swapping(k)) => "lateBackup" \in faults
  /\ archive' = [archive EXCEPT ![r] =
       [db |-> LiveDb, rows |-> [Rows EXCEPT ![r].status = "incomplete"]]]
  /\ catalog' = Written(r, [NoRow EXCEPT !.status = "completed"])
  /\ UNCHANGED <<faults, named, task, undo, override, replaced, tried, mishaps>>

-----------------------------------------------------------------------------
(* Requests, kept out by the maintenance guard                             *)

\* Mutant: the long load alone counts as a restore in progress.
SlotFreeLoading == \A r \in Ids : Rows[r].restore # "restoring"

\* assertNoRestoreInProgress
SlotFree == \A r \in Ids : Rows[r].restore \notin ActiveStatuses

Served == ~override /\ Present(Live)
Raced == undo.phase # "idle" \/ \E k \in Restores : task[k].phase \in {"checked", "dropping"}

\* startRestore up to its pre-flight
StartRestore(r) ==
  LET k == tried + 1 IN
  /\ Served /\ tried < MaxRestores
  /\ Rows[r].status = "completed" /\ SlotFree
  /\ Raced => "overlap" \in faults
  /\ Rows[r].restore = "completed" => "again" \in faults
  /\ tried' = k
  /\ task' = [task EXCEPT ![k].phase = "checked", ![k].run = r]
  /\ UNCHANGED <<faults, named, catalog, archive, undo, override, replaced, mishaps>>

\* A rollback renames the retained database, or restores the dump.
RollBack(r) ==
  /\ Served /\ Rows[r].restore = "completed"
  /\ \/ /\ Rows[r].oldDb # 0 /\ Present(Old(Rows[r].oldDb)) /\ undo.phase = "idle"
        /\ (Raced \/ \E k \in Restores : Busy(k)) => "overlap" \in faults
        /\ undo' = [phase |-> "checked", from |-> Rows[r].oldDb]
        /\ UNCHANGED <<faults, named, catalog, archive, task, override, replaced,
                       tried, mishaps>>
     \/ /\ Rows[r].oldDb = 0 /\ Rows[r].dump # 0
        /\ StartRestore(Rows[r].dump)

\* setState(enabled = false) writes the persisted flag first.
LiftMaintenance ==
  /\ override /\ Present(Live)
  /\ (undo.phase # "idle" \/ \E k \in Restores : Busy(k)) => "lifted" \in faults
  /\ override' = FALSE
  /\ UNCHANGED <<faults, named, catalog, archive, task, undo, replaced, tried, mishaps>>

-----------------------------------------------------------------------------
(* The restore of attempt k                                                *)

\* Pre-flight settles the mode, which a lack of disk may lower, and admits.
PreflightAdmits(k) ==
  /\ At(k, "checked")
  /\ \E mode \in Modes :
       task' = [task EXCEPT ![k].phase = "artifact", ![k].mode = mode]
  /\ LET r == task[k].run IN
     Write(r, [Rows[r] EXCEPT !.restore = "restoring", !.oldDb = 0])
  /\ UNCHANGED <<named, archive, override, replaced>>

PreflightRefuses(k) ==
  /\ At(k, "checked")
  /\ Goto(k, "ended")
  /\ \E status \in Refusals : WriteStatus(task[k].run, status)
  /\ UNCHANGED <<named, archive, override, replaced>>

VerifyArtifact(k) ==
  /\ At(k, "artifact")
  /\ Goto(k, IF task[k].mode = "pre_restore_dump" THEN "dumping" ELSE "creating")
  /\ UNCHANGED <<named, catalog, archive, override, replaced, mishaps>>

\* takePreRestoreDump awaits a whole backup of the live database, then records
\* it on the run; if that write is lost the restore goes on all the same.
TakeDump(k) ==
  LET d == DumpOf(k)
      dumped == [Rows EXCEPT ![d] = [NoRow EXCEPT !.status = "completed"]] IN
  /\ At(k, "dumping") /\ Present(Live)
  /\ Goto(k, "creating")
  /\ archive' = [archive EXCEPT ![d] =
       [db |-> LiveDb, rows |-> [Rows EXCEPT ![d].status = "incomplete"]]]
  /\ \/ /\ catalog' = [catalog EXCEPT ![LiveDb] = [dumped EXCEPT ![task[k].run].dump = d]]
        /\ UNCHANGED mishaps
     \/ "dbFault" \in faults /\ Mishap /\ catalog' = [catalog EXCEPT ![LiveDb] = dumped]
  /\ UNCHANGED <<named, override, replaced>>

CreateScratch(k) ==
  /\ At(k, "creating")
  /\ task' = [task EXCEPT ![k].phase = "loading", ![k].scratch = TRUE]
  /\ named' = [named EXCEPT ![Scratch(k)] = k]
  /\ UNCHANGED <<catalog, archive, override, replaced, mishaps>>

\* pg_restore ends well, and the run is marked verifying.
LoadArchive(k) ==
  LET loaded == [catalog EXCEPT ![k] = archive[task[k].run].rows] IN
  /\ At(k, "loading")
  /\ Goto(k, "verifying")
  /\ \/ /\ Present(Live)
        /\ catalog' = [loaded EXCEPT ![LiveDb][task[k].run].restore = "verifying"]
        /\ UNCHANGED mishaps
     \/ Present(Live) /\ "dbFault" \in faults /\ Mishap /\ catalog' = loaded
     \/ ~Present(Live) /\ catalog' = loaded /\ UNCHANGED mishaps
  /\ UNCHANGED <<named, archive, override, replaced>>

\* The loaded database is verified, and the exchange begins.
BeginSwap(k) ==
  /\ At(k, "verifying")
  /\ Goto(k, "exporting")
  /\ WriteStatus(task[k].run, "swapping")
  /\ UNCHANGED <<named, archive, override, replaced>>

\* Mutant: the old database is recorded in the mode that drops it.
AuditSwapped(k) ==
  [Rows[task[k].run] EXCEPT !.restore = "completed",
                            !.oldDb = IF task[k].mode = "retain_database" THEN 0 ELSE k]

\* What the new database is to know of its own restore
Audit(k) ==
  [Rows[task[k].run] EXCEPT !.restore = "completed",
                            !.oldDb = IF task[k].mode = "retain_database" THEN k ELSE 0]

ExportCatalog(k) ==
  /\ At(k, "exporting") /\ Present(Live)
  /\ task' = [task EXCEPT ![k].phase = "exported",
                          ![k].copy = [Rows EXCEPT ![task[k].run] = Audit(k)]]
  /\ UNCHANGED <<named, catalog, archive, override, replaced, mishaps>>

\* Mutant: maintenance mode is left to the persisted setting.
CloseDoorsPersisted(k) ==
  /\ At(k, "exported")
  /\ Goto(k, "quiet")
  /\ UNCHANGED <<named, catalog, archive, override, replaced, mishaps>>

\* maintenance.enable, then every connection is terminated
CloseDoors(k) ==
  /\ At(k, "exported")
  /\ Goto(k, "quiet")
  /\ override' = TRUE
  /\ UNCHANGED <<named, catalog, archive, replaced, mishaps>>

RenameAway(k) ==
  /\ At(k, "quiet") /\ CanRename(Live, Old(k))
  /\ Goto(k, "gap")
  /\ named' = Rename(Live, Old(k))
  /\ replaced' = [replaced EXCEPT ![k] = LiveDb]
  /\ UNCHANGED <<catalog, archive, override, mishaps>>

RenameIn(k) ==
  /\ At(k, "gap") /\ CanRename(Scratch(k), Live)
  /\ Goto(k, "landed")
  /\ named' = Rename(Scratch(k), Live)
  /\ UNCHANGED <<catalog, archive, override, replaced, mishaps>>

\* The second rename fails: the original is put back, if that works.
PutBack(k) ==
  /\ At(k, "gap")
  /\ Goto(k, "failing")
  /\ \/ CanRename(Old(k), Live) /\ named' = Rename(Old(k), Live)
     \/ (CanRename(Old(k), Live) => "putBackFails" \in faults) /\ UNCHANGED named
  /\ UNCHANGED <<catalog, archive, override, replaced, mishaps>>

\* Mutant: ON CONFLICT (id) DO NOTHING
MergedKeeping(new, copy, lost) ==
  [r \in Ids |-> IF r \in lost \/ copy[r].status = "absent" \/ new[r].status # "absent"
                THEN new[r] ELSE [copy[r] EXCEPT !.dump = new[r].dump]]

\* The first pass of reinsertCatalog: the copy wins, except for the dump.
Merged(new, copy, lost) ==
  [r \in Ids |-> IF r \in lost \/ copy[r].status = "absent" THEN new[r]
                ELSE [copy[r] EXCEPT !.dump = new[r].dump]]

\* The second pass: a dump is linked to if its own row is there.
Linked(rows, copy) ==
  [r \in Ids |-> IF /\ rows[r].status # "absent" /\ copy[r].dump # 0
                   /\ rows[copy[r].dump].status # "absent"
                THEN [rows[r] EXCEPT !.dump = copy[r].dump] ELSE rows[r]]

CarryOver(k) ==
  /\ At(k, "landed") /\ Present(Live)
  /\ Goto(k, "carried")
  /\ \E lost \in IF "rowFails" \in faults THEN SUBSET Ids ELSE {{}} :
       catalog' = [catalog EXCEPT ![LiveDb] =
                     Linked(Merged(@, task[k].copy, lost), task[k].copy)]
  /\ UNCHANGED <<named, archive, override, replaced, mishaps>>

\* The carry-over has no connection, and the exchange is not undone.
CarryOverFails(k) ==
  /\ At(k, "landed")
  /\ Present(Live) => "carryFails" \in faults
  /\ Goto(k, "failing")
  /\ UNCHANGED <<named, catalog, archive, override, replaced, mishaps>>

Dropped(n) == [named EXCEPT ![n] = NoDb]

\* Ending the process ends every other promise chain in it.
Stopped == [k \in Restores |-> IF task[k].phase = "idle" THEN task[k]
                              ELSE [NoTask EXCEPT !.phase = "ended", !.run = task[k].run]]

DropOldAndExit(k) ==
  /\ At(k, "carried")
  /\ task' = Stopped /\ override' = FALSE
  /\ undo' = [phase |-> "idle", from |-> 0]
  /\ \/ task[k].mode = "pre_restore_dump" /\ named' = Dropped(Old(k))
     \/ /\ task[k].mode = "pre_restore_dump" => "dropFails" \in faults
        /\ UNCHANGED named
  /\ UNCHANGED <<catalog, archive, replaced, mishaps>>

\* Any of these steps may throw; the dump also when the backup slot is taken.
Throws(k) ==
  /\ task[k].phase \in {"artifact", "dumping", "creating", "loading", "verifying",
                        "exporting", "quiet"}
  /\ Goto(k, "failing")
  /\ UNCHANGED <<named, catalog, archive, override, replaced, mishaps>>

\* Mutant: only a loaded scratch database is thought to need dropping.
LeavesScratchVerified(k) == task[k].scratch /\ catalog[k] # NoRows

LeavesScratch(k) == task[k].scratch

\* Mutant: the status of the backup is written instead of the restore's.
MarkBackupFailed(k) ==
  /\ At(k, "failing")
  /\ Goto(k, IF LeavesScratch(k) THEN "dropping" ELSE "ended")
  /\ Write(task[k].run, [Rows[task[k].run] EXCEPT !.status = "failed"])
  /\ UNCHANGED <<named, archive, override, replaced>>

MarkFailed(k) ==
  /\ At(k, "failing")
  /\ Goto(k, IF LeavesScratch(k) THEN "dropping" ELSE "ended")
  /\ WriteStatus(task[k].run, "failed")
  /\ UNCHANGED <<named, archive, override, replaced>>

DropScratch(k) ==
  /\ At(k, "dropping")
  /\ Goto(k, "ended")
  /\ \/ named' = Dropped(Scratch(k))
     \/ "dropFails" \in faults /\ UNCHANGED named
  /\ UNCHANGED <<catalog, archive, override, replaced, mishaps>>

TaskStep(k) ==
  /\ \/ /\ \/ PreflightAdmits(k) \/ PreflightRefuses(k) \/ VerifyArtifact(k) \/ TakeDump(k)
           \/ CreateScratch(k) \/ LoadArchive(k) \/ BeginSwap(k) \/ ExportCatalog(k)
           \/ CloseDoors(k) \/ RenameAway(k) \/ RenameIn(k) \/ PutBack(k)
           \/ CarryOver(k) \/ CarryOverFails(k) \/ Throws(k) \/ MarkFailed(k)
           \/ DropScratch(k)
        /\ UNCHANGED undo
     \/ DropOldAndExit(k)
  /\ UNCHANGED <<faults, tried>>

-----------------------------------------------------------------------------
(* The rollback by rename                                                  *)

UndoAt(phase) == undo.phase = phase
UndoGoto(phase) == undo' = [undo EXCEPT !.phase = phase]

UndoClosesDoors ==
  /\ UndoAt("checked")
  /\ UndoGoto("quiet") /\ override' = TRUE
  /\ UNCHANGED <<named, task>>

UndoRenamesAway ==
  /\ UndoAt("quiet") /\ CanRename(Live, Superseded(undo.from))
  /\ UndoGoto("gap")
  /\ named' = Rename(Live, Superseded(undo.from))
  /\ UNCHANGED <<task, override>>

\* The request fails; the doors stay closed.
UndoThrows ==
  /\ UndoAt("quiet")
  /\ undo' = [phase |-> "idle", from |-> 0]
  /\ UNCHANGED <<named, task, override>>

UndoPutsBack ==
  LET away == Superseded(undo.from) IN
  /\ UndoAt("gap")
  /\ undo' = [phase |-> "idle", from |-> 0]
  /\ \/ CanRename(away, Live) /\ named' = Rename(away, Live)
     \/ (CanRename(away, Live) => "putBackFails" \in faults) /\ UNCHANGED named
  /\ UNCHANGED <<task, override>>

UndoRenamesInAndExits ==
  /\ UndoAt("gap") /\ CanRename(Old(undo.from), Live)
  /\ named' = Rename(Old(undo.from), Live)
  /\ undo' = [phase |-> "idle", from |-> 0]
  /\ task' = Stopped /\ override' = FALSE

UndoStep ==
  /\ \/ UndoClosesDoors \/ UndoRenamesAway \/ UndoThrows
     \/ UndoPutsBack \/ UndoRenamesInAndExits
  /\ UNCHANGED <<faults, catalog, archive, replaced, tried, mishaps>>

-----------------------------------------------------------------------------

Crash ==
  /\ "crash" \in faults /\ Mishap
  /\ task' = Stopped /\ override' = FALSE
  /\ undo' = [phase |-> "idle", from |-> 0]
  /\ UNCHANGED <<faults, named, catalog, archive, replaced, tried>>

Next ==
  \/ \E r \in Ids : StartRestore(r) \/ RollBack(r)
  \/ \E r \in Backups : BackupCompletes(r)
  \/ \E k \in Restores : TaskStep(k)
  \/ UndoStep \/ LiftMaintenance \/ Crash

Spec == Init /\ [][Next]_vars

-----------------------------------------------------------------------------
(* Properties                                                              *)

Without(F) == faults \cap F = {}

TypeOK ==
  /\ faults \in Settings
  /\ named \in [Names -> Db \cup {NoDb}]
  /\ catalog \in [Db -> Catalogs]
  /\ archive \in [Ids -> [db : Db \cup {NoDb}, rows : Catalogs]]
  /\ task \in [Restores -> Task]
  /\ undo \in [phase : {"idle", "checked", "quiet", "gap"}, from : 0 .. MaxRestores]
  /\ override \in BOOLEAN
  /\ replaced \in [Restores -> Db \cup {NoDb}]
  /\ tried \in 0 .. MaxRestores /\ mishaps \in 0 .. MaxMishaps

\* A restore whose database serves can be undone through the API, either by
\* renaming the very database it replaced or by restoring a completed dump of
\* it: swap and carry-over leave the audit row that rollback reads, in the new
\* database, and in the mode that drops the old one the dump is recorded first.
Undoable ==
  LET k == LiveDb
      row == catalog[k][task[k].run] IN
  /\ Without({"crash", "dbFault", "rowFails", "carryFails", "again", "overlap",
              "lifted"})
  /\ Present(Live) /\ k # 0 /\ ~At(k, "landed")
  => /\ row.restore = "completed"
     /\ \/ row.oldDb = k /\ named[Old(k)] = replaced[k]
        \/ /\ row.oldDb = 0 /\ row.dump # 0
           /\ archive[row.dump].db = replaced[k]
           /\ catalog[k][row.dump].status = "completed"

\* There is no database under the live name only between the two renames of an
\* exchange, and then no request is let in, an administrator's neither: a failed
\* second rename is undone, and nothing ends the process in between.
GapCovered ==
  /\ Without({"crash", "putBackFails", "overlap", "lifted", "dbFault"})
  /\ ~Present(Live)
  => override /\ (undo.phase = "gap" \/ \E k \in Restores : At(k, "gap"))

\* One restore executes at a time: its slot is a status in a table that an
\* exchange replaces by an older one, while maintenance keeps starts out.
OneRestore ==
  Without({"overlap", "dbFault", "lifted"}) =>
    \A j, k \in Restores : Busy(j) /\ Busy(k) => j = k

\* An abandoned scratch database is dropped: one exists only for a restore that
\* is still executing.
ScratchDropped ==
  Without({"crash", "dropFails", "overlap", "dbFault", "lifted"}) =>
    \A k \in Restores : Present(Scratch(k)) => Busy(k)

\* The backups the replaced database knew of are known to the new one when the
\* process exits, those taken after the restored backup included.
CatalogCarried ==
  Without({"rowFails", "lateBackup", "overlap", "lifted", "dbFault"}) =>
    \A k \in Restores, r \in Ids :
      At(k, "carried") /\ catalog[replaced[k]][r].status = "completed"
      => catalog[k][r].status = "completed"

\* The refusal "A database restore is already in progress" is true.
SlotHonest ==
  Present(Live) /\ ~SlotFree => \E k \in Restores : Busy(k)
=============================================================================
