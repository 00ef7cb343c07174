------------------------- MODULE DatabaseRestoreProofs -------------------------
(***************************************************************************)
(* Proofs about DatabaseRestore, for any number of backups and attempts    *)
(* and every set of faults.                                                *)
(***************************************************************************)
EXTENDS DatabaseRestore, TLAPS

-----------------------------------------------------------------------------
(* What is invariantly true, whatever the faults: attempts are numbered,    *)
(* their dumps are new, and a database has one name.                        *)

Before == {"idle", "checked", "artifact", "dumping", "creating"}
Loading == {"loading", "verifying", "exporting", "exported", "quiet", "gap"}

TaskOK(k) ==
  /\ k > tried => task[k] = NoTask
  /\ task[k].phase # "idle" => task[k].run \in Ids /\ task[k].run < DumpOf(k)
  /\ task[k].phase \in Before => \A n \in Names : named[n] # k
  /\ task[k].phase \in Loading => named[Scratch(k)] = k

\* A backup that is known was taken by the schedule or by an attempt so far.
Numbered(rows) == \A r \in Ids : rows[r].status # "absent" => r <= NBackups + tried
Fresh ==
  /\ \A d \in Db : Numbered(catalog[d])
  /\ \A r \in Ids : Numbered(archive[r].rows)
  /\ \A k \in Restores : Numbered(task[k].copy)

Named ==
  /\ \A m, n \in Names : Present(m) /\ named[m] = named[n] => m = n
  /\ \A k \in Restores : named[Scratch(k)] \in {k, NoDb}
  /\ \A k \in Restores : named[Old(k)] \in {replaced[k], NoDb}

Tasks == \A k \in Restores : TaskOK(k)
From == undo.phase # "idle" => undo.from \in Restores

Base == TypeOK /\ Named /\ Tasks /\ Fresh /\ From

-----------------------------------------------------------------------------
(* What holds as long as requests are not served at once, the audit is      *)
(* written and nobody lifts maintenance meanwhile.                          *)

Steady == Without({"overlap", "dbFault", "lifted"})

Running(k) == task[k].phase \notin {"idle", "ended"}
Early == {"artifact", "dumping", "creating", "loading", "verifying", "exporting", "exported"}
Late == {"quiet", "gap", "landed", "carried"}

\* The slot of a restore is taken, by its row in the live catalog.
Taken(r) == Present(Live) /\ Rows[r].status # "absent" /\ Rows[r].restore \in ActiveStatuses

Holds(k) ==
  /\ At(k, "checked") => Present(Live) /\ Rows[task[k].run].status = "completed"
  /\ task[k].phase \in Early => Taken(task[k].run)
  /\ task[k].phase \in Late => override
  /\ At(k, "quiet") => Present(Live)
  /\ At(k, "gap") => ~Present(Live) /\ Present(Old(k))
  /\ task[k].phase \in {"landed", "carried"} => LiveDb = k
  /\ At(k, "failing") => override \/ Taken(task[k].run)

Undoing ==
  /\ undo.phase # "idle" => \A k \in Restores : ~Running(k)
  /\ undo.phase \in {"quiet", "gap"} => override
  /\ undo.phase = "gap" => ~Present(Live) /\ Present(Superseded(undo.from))

SteadyInv ==
  /\ \A j, k \in Restores : Running(j) /\ Running(k) => j = k
  /\ \A k \in Restores : Holds(k)
  /\ Undoing

\* Nothing but an exchange in progress leaves no database under the live name.
Covered == Steady /\ Without({"crash", "putBackFails"})
CoveredInv == Present(Live) \/ undo.phase = "gap" \/ \E k \in Restores : At(k, "gap")

\* A scratch database is known to its restore.
Tidy == Steady /\ Without({"crash", "dropFails"})
TidyInv == \A k \in Restores : Present(Scratch(k)) =>
             Busy(k) /\ task[k].scratch /\ task[k].phase \notin {"landed", "carried"}

\* Completed backups of one catalog are completed in the other.
Passes(from, to) == \A r \in Ids : from[r].status = "completed" => to[r].status = "completed"
Carrying == Steady /\ Without({"rowFails", "lateBackup"})
Carries(k) ==
  /\ task[k].phase \in {"exported", "quiet"} => Passes(Rows, task[k].copy)
  /\ task[k].phase \in {"gap", "landed", "carried"} => replaced[k] \in Db \ {k}
  /\ task[k].phase \in {"gap", "landed"} => Passes(catalog[replaced[k]], task[k].copy)
  /\ At(k, "carried") => Passes(catalog[replaced[k]], catalog[k])
CarryingInv == \A k \in Restores : Carries(k)


-----------------------------------------------------------------------------
(* The names, the table and the tasks, before and after a step              *)

\* Every name a step uses is a name of the cluster, and no two are the same.
LEMMA Naming ==
  ASSUME NEW j \in Restores, NEW k \in Restores
  PROVE  /\ Live \in Names
         /\ Scratch(k) \in Names /\ Old(k) \in Names /\ Superseded(k) \in Names
         /\ Live # Scratch(k) /\ Live # Old(k) /\ Live # Superseded(k)
         /\ Scratch(j) # Old(k) /\ Scratch(j) # Superseded(k) /\ Old(j) # Superseded(k)
         /\ j # k => Scratch(j) # Scratch(k) /\ Old(j) # Old(k)
  BY DEF Names, Live, Scratch, Old, Superseded

\* The numbers of attempts, of their dumps and of databases.
LEMMA Numbers ==
  ASSUME NEW k \in Restores
  PROVE  /\ k \in Nat /\ k \in Db /\ k # NoDb /\ NoDb \notin Db /\ k \in 0 .. MaxRestores
         /\ DumpOf(k) \in Ids /\ DumpOf(k) \notin Backups /\ DumpOf(k) = NBackups + k
         /\ \A j \in Restores : DumpOf(j) = DumpOf(k) => j = k
         /\ NBackups \in Nat /\ Ids \subseteq Nat
         /\ \A r \in Ids : r \in 0 .. NBackups + MaxRestores
         /\ 0 \in 0 .. MaxRestores /\ 0 \in 0 .. NBackups + MaxRestores
  BY RestoreAssumption DEF Restores, Db, NoDb, DumpOf, Ids, Backups

\* The rows of no database, and of a new archive, are rows.
LEMMA RowsAreRows ==
  /\ NoRow \in Row /\ NoRows \in Catalogs /\ NoTask \in Task
  /\ \A r \in Ids : NoRows[r] = NoRow
  /\ NoRow.status = "absent" /\ NoRow.restore = "none"
  /\ NoTask.phase = "idle" /\ NoTask.copy = NoRows /\ ~NoTask.scratch
  <1>1. NoRow \in Row
    BY RestoreAssumption DEF NoRow, Row
  <1>2. NoRows \in Catalogs
    BY <1>1 DEF NoRows, Catalogs
  <1>3. NoTask \in Task
    BY <1>2, RestoreAssumption DEF NoTask, Task, Modes
  <1> QED
    BY <1>1, <1>2, <1>3 DEF NoRows, NoRow, NoTask

\* What the live database holds, if there is one.
LEMMA LiveRows ==
  ASSUME TypeOK
  PROVE  /\ LiveDb \in Db \cup {NoDb} /\ (Present(Live) => LiveDb \in Db)
         /\ Rows \in Catalogs
         /\ Present(Live) => Rows = catalog[LiveDb]
         /\ ~Present(Live) => \A r \in Ids : Rows[r].status = "absent"
  <1>1. Live \in Names
    BY DEF Live, Names
  <1>2. LiveDb \in Db \cup {NoDb}
    BY <1>1 DEF TypeOK, LiveDb
  <1> QED
    BY <1>1, <1>2, RowsAreRows DEF TypeOK, LiveDb, Rows, Present

\* The parts of a task.
LEMMA TaskParts ==
  ASSUME TypeOK, NEW k \in Restores
  PROVE  /\ task[k] \in Task
         /\ task[k].phase \in {"idle", "checked", "ended"} \cup Executing
         /\ task[k].run \in 0 .. NBackups + MaxRestores
         /\ task[k].mode \in Modes /\ task[k].scratch \in BOOLEAN
         /\ task[k].copy \in Catalogs
  BY DEF TypeOK, Task

\* An attempt under way has a number that was given out, and a run.
LEMMA Underway ==
  ASSUME Base, NEW k \in Restores, task[k].phase # "idle"
  PROVE  /\ k <= tried /\ tried \in Nat
         /\ task[k].run \in Ids /\ task[k].run < DumpOf(k)
  <1>1. TaskOK(k)
    BY DEF Base, Tasks
  <1>2. tried \in Nat /\ k \in Nat
    BY RestoreAssumption DEF Base, TypeOK, Restores
  <1> QED
    BY <1>1, <1>2, RowsAreRows DEF TaskOK

\* Going on to another phase changes nothing else.
LEMMA GotoEffect ==
  ASSUME TypeOK, NEW k \in Restores, NEW p, Goto(k, p),
         p \in {"idle", "checked", "ended"} \cup Executing
  PROVE  /\ task' \in [Restores -> Task]
         /\ \A j \in Restores \ {k} : task'[j] = task[j]
         /\ task'[k].phase = p /\ task'[k].run = task[k].run
         /\ task'[k].mode = task[k].mode /\ task'[k].scratch = task[k].scratch
         /\ task'[k].copy = task[k].copy
  BY TaskParts DEF TypeOK, Goto, Task

\* The end of the process leaves no attempt running.
LEMMA StoppedEffect ==
  ASSUME TypeOK, task' = Stopped
  PROVE  /\ task' \in [Restores -> Task]
         /\ \A k \in Restores :
              /\ task'[k].phase \in {"idle", "ended"} /\ task'[k].run = task[k].run
              /\ task[k].phase = "idle" => task'[k] = task[k]
              /\ task[k].phase # "idle" => task'[k].phase = "ended"
              /\ task'[k].copy \in {task[k].copy, NoRows}
  <1> SUFFICES ASSUME NEW k \in Restores
               PROVE  /\ task'[k] \in Task
                      /\ task'[k].phase \in {"idle", "ended"} /\ task'[k].run = task[k].run
                      /\ task[k].phase = "idle" => task'[k] = task[k]
                      /\ task[k].phase # "idle" => task'[k].phase = "ended"
                      /\ task'[k].copy \in {task[k].copy, NoRows}
    BY DEF Stopped
  <1>1. CASE task[k].phase = "idle"
    BY <1>1, TaskParts DEF Stopped
  <1>2. CASE task[k].phase # "idle"
    <2>1. task'[k] = [NoTask EXCEPT !.phase = "ended", !.run = task[k].run]
      BY <1>2 DEF Stopped
    <2> QED
      BY <1>2, <2>1, RowsAreRows, TaskParts DEF Task, NoTask
  <1> QED
    BY <1>1, <1>2

\* A write to the audit: the row in the live database at most, no status of a
\* backup; and the row, if it is there and nothing fails.
LEMMA WriteEffect ==
  ASSUME TypeOK, NEW r \in Ids, NEW row \in Row, row.status = Rows[r].status,
         Write(r, row)
  PROVE  /\ catalog' \in [Db -> Catalogs] /\ mishaps' \in 0 .. MaxMishaps
         /\ \A d \in Db, q \in Ids : catalog'[d][q].status = catalog[d][q].status
         /\ \A d \in Db, q \in Ids : d # LiveDb \/ q # r => catalog'[d][q] = catalog[d][q]
         /\ \A d \in Db : d # LiveDb => catalog'[d] = catalog[d]
         /\ \A d \in Db : catalog'[d][r] \in {catalog[d][r], row}
         /\ "dbFault" \notin faults /\ Rows[r].status # "absent"
              => Present(Live) /\ catalog'[LiveDb][r] = row
  <1>1. CASE UNCHANGED catalog
    <2>1. mishaps' \in 0 .. MaxMishaps
      BY RestoreAssumption DEF TypeOK, Write, Mishap
    <2>2. "dbFault" \notin faults => Rows[r].status = "absent"
            \/ catalog' = Written(r, row)
      BY DEF Write
    <2>3. ASSUME Rows[r].status # "absent", catalog' = Written(r, row)
          PROVE  Present(Live) /\ catalog'[LiveDb][r] = row
      BY <2>3, LiveRows DEF Written, TypeOK, Catalogs
    <2> QED
      BY <1>1, <2>1, <2>2, <2>3 DEF TypeOK
  <1>2. CASE /\ Rows[r].status # "absent" /\ catalog' = Written(r, row) /\ UNCHANGED mishaps
    <2>1. Present(Live) /\ LiveDb \in Db /\ Rows = catalog[LiveDb]
      BY <1>2, LiveRows
    <2>2. /\ catalog' \in [Db -> Catalogs]
          /\ catalog'[LiveDb] = [catalog[LiveDb] EXCEPT ![r] = row]
          /\ \A d \in Db : d # LiveDb => catalog'[d] = catalog[d]
      BY <1>2, <2>1 DEF Written, TypeOK, Catalogs
    <2>3. \A q \in Ids : catalog'[LiveDb][q] = IF q = r THEN row ELSE catalog[LiveDb][q]
      BY <2>1, <2>2 DEF TypeOK, Catalogs
    <2> QED
      BY <1>2, <2>1, <2>2, <2>3 DEF TypeOK
  <1> QED
    BY <1>1, <1>2 DEF Write

\* The same, when only the status of the restore is written.
LEMMA WriteStatusEffect ==
  ASSUME TypeOK, NEW r \in Ids, NEW s, WriteStatus(r, s),
         s \in {"none", "completed", "failed"} \cup ActiveStatuses \cup Refusals
  PROVE  /\ catalog' \in [Db -> Catalogs] /\ mishaps' \in 0 .. MaxMishaps
         /\ \A d \in Db, q \in Ids : catalog'[d][q].status = catalog[d][q].status
         /\ \A d \in Db, q \in Ids : d # LiveDb \/ q # r => catalog'[d][q] = catalog[d][q]
         /\ \A d \in Db : d # LiveDb => catalog'[d] = catalog[d]
         /\ \A d \in Db, q \in Ids : /\ catalog'[d][q].oldDb = catalog[d][q].oldDb
                                     /\ catalog'[d][q].dump = catalog[d][q].dump
         /\ \A d \in Db, q \in Ids : catalog'[d][q].restore \in {catalog[d][q].restore, s}
         /\ "dbFault" \notin faults /\ Rows[r].status # "absent"
              => Present(Live) /\ catalog'[LiveDb][r].restore = s
  <1> DEFINE row == [Rows[r] EXCEPT !.restore = s]
  <1>1. Rows[r] \in Row
    BY LiveRows DEF Catalogs
  <1>2. /\ row \in Row /\ row.status = Rows[r].status /\ row.restore = s
        /\ row.oldDb = Rows[r].oldDb /\ row.dump = Rows[r].dump
    BY <1>1 DEF Row
  <1>3. Write(r, row)
    BY DEF WriteStatus
  <1> HIDE DEF row
  <1>4. /\ catalog' \in [Db -> Catalogs] /\ mishaps' \in 0 .. MaxMishaps
        /\ \A d \in Db, q \in Ids : catalog'[d][q].status = catalog[d][q].status
        /\ \A d \in Db, q \in Ids : d # LiveDb \/ q # r => catalog'[d][q] = catalog[d][q]
        /\ \A d \in Db : d # LiveDb => catalog'[d] = catalog[d]
        /\ \A d \in Db : catalog'[d][r] \in {catalog[d][r], row}
        /\ "dbFault" \notin faults /\ Rows[r].status # "absent"
              => Present(Live) /\ catalog'[LiveDb][r] = row
    BY <1>2, <1>3, WriteEffect
  <1>5. LiveDb \in Db => Rows = catalog[LiveDb]
    BY Numbers, RestoreAssumption DEF LiveDb, Rows, Present, NoDb, Db
  <1>6. \A d \in Db, q \in Ids :
          \/ catalog'[d][q] = catalog[d][q]
          \/ d = LiveDb /\ q = r /\ catalog'[d][q] = row
    BY <1>4
  <1>7. \A d \in Db, q \in Ids :
          \/ catalog'[d][q] = catalog[d][q]
          \/ /\ catalog'[d][q].oldDb = catalog[d][q].oldDb
             /\ catalog'[d][q].dump = catalog[d][q].dump
             /\ catalog'[d][q].restore = s
    BY <1>2, <1>5, <1>6
  <1> QED
    BY <1>2, <1>4, <1>7

\* A rename takes a database from one name to another.
LEMMA RenameEffect ==
  ASSUME TypeOK, Named, NEW from \in Names, NEW to \in Names, from # to,
         CanRename(from, to), named' = Rename(from, to)
  PROVE  /\ named' \in [Names -> Db \cup {NoDb}]
         /\ named'[from] = NoDb /\ named'[to] = named[from]
         /\ \A n \in Names \ {from, to} : named'[n] = named[n]
         /\ \A m, n \in Names : named'[m] # NoDb /\ named'[m] = named'[n] => m = n
         /\ \A d \in Db : (\A n \in Names : named[n] # d) => \A n \in Names : named'[n] # d
  <1>1. /\ named' \in [Names -> Db \cup {NoDb}]
        /\ named'[from] = NoDb /\ named'[to] = named[from]
        /\ \A n \in Names \ {from, to} : named'[n] = named[n]
    BY DEF TypeOK, Rename
  <1>2. \A m, n \in Names : named'[m] # NoDb /\ named'[m] = named'[n] => m = n
    BY <1>1 DEF Named, Present, CanRename
  <1>3. \A d \in Db : (\A n \in Names : named[n] # d) => \A n \in Names : named'[n] # d
    BY <1>1, RestoreAssumption DEF NoDb, Db
  <1> QED
    BY <1>1, <1>2, <1>3

\* A drop frees the name.
LEMMA DropEffect ==
  ASSUME TypeOK, Named, NEW n \in Names, named' = Dropped(n)
  PROVE  /\ named' \in [Names -> Db \cup {NoDb}] /\ named'[n] = NoDb
         /\ \A m \in Names \ {n} : named'[m] = named[m]
         /\ \A l, m \in Names : named'[l] # NoDb /\ named'[l] = named'[m] => l = m
         /\ \A d \in Db : (\A m \in Names : named[m] # d) => \A m \in Names : named'[m] # d
  <1>1. /\ named' \in [Names -> Db \cup {NoDb}] /\ named'[n] = NoDb
        /\ \A m \in Names \ {n} : named'[m] = named[m]
    BY DEF TypeOK, Dropped
  <1> QED
    BY <1>1, RestoreAssumption DEF Named, Present, NoDb, Db

-----------------------------------------------------------------------------
(* Base is inductive                                                        *)

\* A step of one attempt, or of none, keeps every attempt's task in order.
LEMMA KeepsTasks ==
  ASSUME Base, NEW k \in Restores, task[k].phase # "idle", tried' = tried,
         \A j \in Restores \ {k} : task'[j] = task[j],
         task'[k].run = task[k].run,
         \A j \in Restores \ {k} : named'[Scratch(j)] = named[Scratch(j)],
         \A j \in Restores \ {k} :
           (\A n \in Names : named[n] # j) => \A n \in Names : named'[n] # j,
         task'[k].phase \in Before => \A n \in Names : named'[n] # k,
         task'[k].phase \in Loading => named'[Scratch(k)] = k
  PROVE  Tasks'
  <1> SUFFICES ASSUME NEW j \in Restores
               PROVE  TaskOK(j)'
    BY DEF Tasks
  <1>1. TaskOK(j) /\ k <= tried /\ k \in Nat /\ tried \in Nat
    BY Underway, Numbers DEF Base, Tasks
  <1>2. CASE j # k
    BY <1>1, <1>2 DEF TaskOK, DumpOf
  <1>3. CASE j = k
    BY <1>1, <1>3 DEF TaskOK, DumpOf
  <1> QED
    BY <1>2, <1>3

\* If no backup becomes known, none that is not numbered does.
LEMMA KeepsFresh ==
  ASSUME Fresh, tried' = tried,
         \A d \in Db, r \in Ids : catalog'[d][r].status = catalog[d][r].status,
         archive' = archive,
         \A k \in Restores : \/ task'[k].copy = task[k].copy
                             \/ task'[k].copy = NoRows
                             \/ \A r \in Ids : task'[k].copy[r].status = Rows[r].status,
         TypeOK
  PROVE  Fresh'
  <1>1. Numbered(Rows) /\ Numbered(NoRows)
    BY LiveRows, RowsAreRows DEF Fresh, Numbered
  <1>2. ASSUME NEW k \in Restores
        PROVE  Numbered(task[k].copy)'
    BY <1>1, <1>2 DEF Fresh, Numbered
  <1> QED
    BY <1>2 DEF Fresh, Numbered

\* The same steps, when no database is renamed.
LEMMA KeepsNames ==
  ASSUME Base, NEW k \in Restores, task[k].phase # "idle", tried' = tried,
         UNCHANGED <<named, replaced>>,
         \A j \in Restores \ {k} : task'[j] = task[j],
         task'[k].run = task[k].run,
         task'[k].phase \in Before => task[k].phase \in Before,
         task'[k].phase \in Loading => task[k].phase \in Loading
  PROVE  Named' /\ Tasks'
  <1>1. Named'
    BY DEF Base, Named, Present
  <1>2. TaskOK(k)
    BY DEF Base, Tasks
  <1>3. task'[k].phase \in Before => \A n \in Names : named'[n] # k
    BY <1>2 DEF TaskOK
  <1>4. task'[k].phase \in Loading => named'[Scratch(k)] = k
    BY <1>2 DEF TaskOK
  <1> QED
    BY <1>1, <1>3, <1>4, KeepsTasks

LEMMA BaseInit == Init => Base
  <1> SUFFICES ASSUME Init
               PROVE  Base
    OBVIOUS
  <1>1. /\ 0 \in Db /\ NoDb \notin Db /\ 0 # NoDb
        /\ 0 \in 0 .. MaxRestores /\ 0 \in 0 .. MaxMishaps
    BY RestoreAssumption DEF Db, NoDb
  <1>2. ASSUME NEW r, NEW S
        PROVE  TakenBy(r, S) \in Catalogs
    <2>1. [NoRow EXCEPT !.status = "completed"] \in Row
      BY RowsAreRows DEF Row
    <2>2. [NoRow EXCEPT !.status = "incomplete"] \in Row
      BY RowsAreRows DEF Row
    <2> QED
      BY <2>1, <2>2, RowsAreRows DEF TakenBy, Catalogs
  <1>3. named \in [Names -> Db \cup {NoDb}]
    BY <1>1 DEF Init
  <1>4. catalog \in [Db -> Catalogs]
    BY <1>2, RowsAreRows DEF Init
  <1>5. archive \in [Ids -> [db : Db \cup {NoDb}, rows : Catalogs]]
    BY <1>1, <1>2, RowsAreRows DEF Init, NoArchive
  <1>6. task \in [Restores -> Task]
    BY RowsAreRows DEF Init
  <1>7. undo \in [phase : {"idle", "checked", "quiet", "gap"}, from : 0 .. MaxRestores]
    BY <1>1 DEF Init
  <1>8. TypeOK
    BY <1>1, <1>3, <1>4, <1>5, <1>6, <1>7 DEF Init, TypeOK
  <1>9. Named
    BY Naming DEF Init, Named, Present
  <1>10. ASSUME NEW k \in Restores
         PROVE  TaskOK(k)
    <2>1. task[k] = NoTask
      BY DEF Init
    <2>2. \A n \in Names : named[n] # k
      BY Numbers, RestoreAssumption DEF Init, Restores
    <2> QED
      BY <2>1, <2>2, RowsAreRows DEF TaskOK, Loading
  <1>11. Fresh
    <2>1. Numbered(NoRows) /\ Numbered(NoTask.copy)
      BY RowsAreRows DEF Numbered
    <2>2. /\ tried = 0 /\ NBackups \in Nat /\ Ids \subseteq Nat
          /\ \A r \in Ids : r \in Backups => r <= NBackups + tried
      BY RestoreAssumption DEF Init, Backups, Ids
    <2>3. Numbered(TakenBy(0, {1} \cap Backups))
      BY <2>2, RowsAreRows, RestoreAssumption DEF TakenBy, Numbered, Ids
    <2>4. ASSUME 1 \in Backups
          PROVE  Numbered(TakenBy(1, {}))
      BY <2>2, <2>4, RowsAreRows DEF TakenBy, Numbered
    <2>5. \A r \in Ids : Numbered(archive[r].rows)
      BY <2>1, <2>4 DEF Init, NoArchive
    <2>6. \A d \in Db : Numbered(catalog[d])
      BY <2>1, <2>3 DEF Init
    <2>7. \A k \in Restores : Numbered(task[k].copy)
      BY <2>1 DEF Init
    <2> QED
      BY <2>5, <2>6, <2>7 DEF Fresh
  <1>12. From
    BY DEF Init, From
  <1> QED
    BY <1>8, <1>9, <1>10, <1>11, <1>12 DEF Base, Tasks

\* The attempt that starts takes the next number; its run is an earlier one.
LEMMA StartRestoreBase ==
  ASSUME Base, NEW r \in Ids, StartRestore(r)
  PROVE  Base'
  <1> DEFINE k == tried + 1
  <1>1. /\ k \in Restores /\ tried' = k /\ tried \in Nat /\ k > tried
        /\ tried' \in 0 .. MaxRestores
    BY RestoreAssumption DEF Base, TypeOK, StartRestore, Restores
  <1>2. task[k] = NoTask
    BY <1>1 DEF Base, Tasks, TaskOK
  <1>3. r < DumpOf(k)
    <2>1. Numbered(Rows)
      BY LiveRows, RowsAreRows DEF Base, Fresh, Numbered, Rows
    <2>2. r <= NBackups + tried
      BY <2>1 DEF StartRestore, Numbered
    <2> QED
      BY <2>2, <1>1, Numbers DEF DumpOf
  <1>4. /\ task' \in [Restores -> Task]
        /\ \A j \in Restores \ {k} : task'[j] = task[j]
        /\ task'[k].phase = "checked" /\ task'[k].run = r /\ task'[k].copy = task[k].copy
    <2>1. task' = [task EXCEPT ![k].phase = "checked", ![k].run = r]
      BY DEF StartRestore
    <2>2. r \in 0 .. NBackups + MaxRestores /\ task[k] \in Task
      BY <1>1, Numbers, TaskParts DEF Base
    <2> QED
      BY <1>1, <2>1, <2>2 DEF Base, TypeOK, Task
  <1>5. UNCHANGED <<faults, named, catalog, archive, undo, override, replaced, mishaps>>
    BY DEF StartRestore
  <1> HIDE DEF k
  <1>6. TypeOK'
    BY <1>1, <1>4, <1>5 DEF Base, TypeOK
  <1>7. Named' /\ From'
    BY <1>5 DEF Base, Named, From, Present
  <1>8. ASSUME NEW j \in Restores
        PROVE  TaskOK(j)'
    <2>1. TaskOK(j)
      BY DEF Base, Tasks
    <2>2. CASE j = k
      BY <1>1, <1>2, <1>3, <1>4, <1>5, <2>1, <2>2, RowsAreRows DEF TaskOK, DumpOf, Before, Loading
    <2>3. CASE j # k
      BY <1>1, <1>4, <1>5, <2>1, <2>3, Numbers DEF TaskOK, DumpOf, k
    <2> QED
      BY <2>2, <2>3
  <1>9. Fresh'
    <2>1. \A j \in Restores : task'[j].copy = task[j].copy
      BY <1>1, <1>4
    <2>2. \A q \in Ids : q <= NBackups + tried => q <= NBackups + tried'
      BY <1>1, RestoreAssumption DEF Ids
    <2> QED
      BY <2>1, <2>2, <1>5 DEF Base, Fresh, Numbered
  <1> QED
    BY <1>6, <1>7, <1>8, <1>9 DEF Base, Tasks

LEMMA RollBackBase ==
  ASSUME Base, NEW r \in Ids, RollBack(r)
  PROVE  Base'
  <1>1. Rows[r] \in Row
    BY LiveRows DEF Base, Catalogs
  <1>2. CASE /\ Rows[r].oldDb # 0
             /\ undo' = [phase |-> "checked", from |-> Rows[r].oldDb]
             /\ UNCHANGED <<faults, named, catalog, archive, task, override, replaced,
                            tried, mishaps>>
    <2>1. Rows[r].oldDb \in Restores /\ Rows[r].oldDb \in 0 .. MaxRestores
      BY <1>1, <1>2, RestoreAssumption DEF Row, Restores
    <2>2. TypeOK'
      BY <1>2, <2>1 DEF Base, TypeOK
    <2>3. Named'
      BY <1>2 DEF Base, Named, Present
    <2>4. Tasks'
      BY <1>2 DEF Base, Tasks, TaskOK
    <2>5. Fresh'
      BY <1>2 DEF Base, Fresh, Numbered
    <2>6. From'
      BY <1>2, <2>1 DEF From
    <2> QED
      BY <2>2, <2>3, <2>4, <2>5, <2>6 DEF Base
  <1>3. CASE Rows[r].dump # 0 /\ StartRestore(Rows[r].dump)
    <2>1. Rows[r].dump \in Ids
      BY <1>1, <1>3, RestoreAssumption DEF Row, Ids
    <2> QED
      BY <1>3, <2>1, StartRestoreBase
  <1> QED
    BY <1>2, <1>3 DEF RollBack

LEMMA BackupCompletesBase ==
  ASSUME Base, NEW r \in Backups, BackupCompletes(r)
  PROVE  Base'
  <1>1. /\ r \in Ids /\ r <= NBackups /\ tried \in Nat
        /\ LiveDb \in Db /\ Rows = catalog[LiveDb] /\ Rows \in Catalogs
    BY LiveRows, RestoreAssumption DEF Base, TypeOK, BackupCompletes, Backups, Ids
  <1> DEFINE row == [NoRow EXCEPT !.status = "completed"]
             rows == [Rows EXCEPT ![r].status = "incomplete"]
  <1>2. row \in Row
    BY RowsAreRows DEF Row
  <1>3. rows \in Catalogs /\ \A q \in Ids : q # r => rows[q].status = Rows[q].status
    BY <1>1 DEF Catalogs, Row
  <1>4. /\ catalog' = [catalog EXCEPT ![LiveDb][r] = row]
        /\ archive' = [archive EXCEPT ![r] = [db |-> LiveDb, rows |-> rows]]
        /\ UNCHANGED <<faults, named, task, undo, override, replaced, tried, mishaps>>
    BY DEF BackupCompletes, Written
  <1> HIDE DEF row, rows
  <1>5. /\ catalog' \in [Db -> Catalogs]
        /\ \A d \in Db, q \in Ids : q # r => catalog'[d][q] = catalog[d][q]
    BY <1>1, <1>2, <1>4 DEF Base, TypeOK, Catalogs
  <1>6. /\ archive' \in [Ids -> [db : Db \cup {NoDb}, rows : Catalogs]]
        /\ archive'[r].rows = rows /\ \A q \in Ids : q # r => archive'[q] = archive[q]
    BY <1>1, <1>3, <1>4 DEF Base, TypeOK
  <1>7. TypeOK'
    BY <1>4, <1>5, <1>6 DEF Base, TypeOK
  <1>8. Named' /\ From'
    BY <1>4 DEF Base, Named, From, Present
  <1>9. Tasks'
    BY <1>4 DEF Base, Tasks, TaskOK
  <1>10. Fresh'
    <2>1. r <= NBackups + tried
      BY <1>1, RestoreAssumption DEF Ids
    <2>2. ASSUME NEW d \in Db, NEW q \in Ids, catalog'[d][q].status # "absent"
          PROVE  q <= NBackups + tried
      <3>1. CASE q = r
        BY <2>1, <3>1
      <3>2. CASE q # r
        BY <1>5, <2>2, <3>2 DEF Base, Fresh, Numbered
      <3> QED
        BY <3>1, <3>2
    <2>3. ASSUME NEW q \in Ids, rows[q].status # "absent"
          PROVE  q <= NBackups + tried
      <3>1. CASE q = r
        BY <2>1, <3>1
      <3>2. CASE q # r
        BY <1>1, <1>3, <2>3, <3>2 DEF Base, Fresh, Numbered
      <3> QED
        BY <3>1, <3>2
    <2>4. ASSUME NEW q \in Ids, NEW x \in Ids, archive'[q].rows[x].status # "absent"
          PROVE  x <= NBackups + tried
      <3>1. CASE q = r
        BY <1>6, <2>3, <2>4, <3>1
      <3>2. CASE q # r
        BY <1>6, <2>4, <3>2 DEF Base, Fresh, Numbered
      <3> QED
        BY <3>1, <3>2
    <2>5. ASSUME NEW k \in Restores
          PROVE  Numbered(task[k].copy)'
      BY <1>4 DEF Base, Fresh, Numbered
    <2> QED
      BY <1>4, <2>2, <2>4, <2>5 DEF Fresh, Numbered
  <1> QED
    BY <1>7, <1>8, <1>9, <1>10 DEF Base

LEMMA LiftMaintenanceBase ==
  ASSUME Base, LiftMaintenance
  PROVE  Base'
  <1>1. /\ override' = FALSE
        /\ UNCHANGED <<faults, named, catalog, archive, task, undo, replaced, tried, mishaps>>
    BY DEF LiftMaintenance
  <1> QED
    BY <1>1 DEF Base, TypeOK, Named, Present, Tasks, TaskOK, Fresh, Numbered, From

\* Steps that leave names, archives and the backups known as they are.
LEMMA QuietStepBase ==
  ASSUME Base, NEW k \in Restores, task[k].phase # "idle",
         UNCHANGED <<faults, named, archive, undo, replaced, tried>>,
         task' \in [Restores -> Task],
         \A j \in Restores \ {k} : task'[j] = task[j],
         task'[k].run = task[k].run,
         task'[k].phase \in Before => task[k].phase \in Before,
         task'[k].phase \in Loading => task[k].phase \in Loading,
         \/ task'[k].copy = task[k].copy
         \/ \A r \in Ids : task'[k].copy[r].status = Rows[r].status,
         catalog' \in [Db -> Catalogs],
         \A d \in Db, r \in Ids : catalog'[d][r].status = catalog[d][r].status,
         override' \in BOOLEAN, mishaps' \in 0 .. MaxMishaps
  PROVE  Base'
  <1>1. TypeOK'
    BY DEF Base, TypeOK
  <1>2. Named' /\ Tasks'
    BY KeepsNames
  <1>3. From'
    BY DEF Base, From
  <1>4. Fresh'
    <2>1. \A j \in Restores : \/ task'[j].copy = task[j].copy
                              \/ \A r \in Ids : task'[j].copy[r].status = Rows[r].status
      OBVIOUS
    <2> QED
      BY <2>1, KeepsFresh DEF Base
  <1> QED
    BY <1>1, <1>2, <1>3, <1>4 DEF Base

LEMMA PreflightAdmitsBase ==
  ASSUME Base, NEW k \in Restores, PreflightAdmits(k), UNCHANGED <<faults, tried, undo>>
  PROVE  Base'
  <1>1. task[k].phase = "checked" /\ task[k].run \in Ids
    BY Underway DEF PreflightAdmits, At
  <1>2. /\ task' \in [Restores -> Task] /\ \A j \in Restores \ {k} : task'[j] = task[j]
        /\ task'[k].run = task[k].run /\ task'[k].phase = "artifact"
        /\ task'[k].copy = task[k].copy
    <2>1. PICK mode \in Modes :
            task' = [task EXCEPT ![k].phase = "artifact", ![k].mode = mode]
      BY DEF PreflightAdmits
    <2> QED
      BY <2>1, TaskParts, ZenonT(40) DEF Base, TypeOK, Task, Executing
  <1> DEFINE row == [Rows[task[k].run] EXCEPT !.restore = "restoring", !.oldDb = 0]
  <1>3. row \in Row /\ row.status = Rows[task[k].run].status
    <2>1. Rows[task[k].run] \in Row
      BY <1>1, LiveRows DEF Base, Catalogs
    <2> QED
      BY <2>1, Numbers DEF Row, ActiveStatuses
  <1>4. Write(task[k].run, row)
    BY DEF PreflightAdmits
  <1> HIDE DEF row
  <1>5. /\ catalog' \in [Db -> Catalogs] /\ mishaps' \in 0 .. MaxMishaps
        /\ \A d \in Db, q \in Ids : catalog'[d][q].status = catalog[d][q].status
    BY <1>1, <1>3, <1>4, WriteEffect DEF Base
  <1> QED
    BY <1>1, <1>2, <1>5, QuietStepBase DEF PreflightAdmits, Base, TypeOK, Before, Loading

\* A step to a phase p that writes a status of the restore.
LEMMA StatusStepBase ==
  ASSUME Base, NEW k \in Restores, UNCHANGED <<faults, tried, undo>>,
         task[k].phase # "idle", NEW p \in {"ended"} \cup Executing, Goto(k, p),
         p \in Before => task[k].phase \in Before,
         p \in Loading => task[k].phase \in Loading,
         NEW s \in {"failed"} \cup ActiveStatuses \cup Refusals,
         WriteStatus(task[k].run, s),
         UNCHANGED <<named, archive, override, replaced>>
  PROVE  Base'
  <1>1. task[k].run \in Ids
    BY Underway
  <1>2. /\ task' \in [Restores -> Task] /\ \A j \in Restores \ {k} : task'[j] = task[j]
        /\ task'[k].run = task[k].run /\ task'[k].phase = p /\ task'[k].copy = task[k].copy
    BY GotoEffect DEF Base
  <1>3. /\ catalog' \in [Db -> Catalogs] /\ mishaps' \in 0 .. MaxMishaps
        /\ \A d \in Db, q \in Ids : catalog'[d][q].status = catalog[d][q].status
    BY <1>1, WriteStatusEffect DEF Base
  <1> QED
    BY <1>2, <1>3, QuietStepBase DEF Base, TypeOK

LEMMA PreflightRefusesBase ==
  ASSUME Base, NEW k \in Restores, PreflightRefuses(k), UNCHANGED <<faults, tried, undo>>
  PROVE  Base'
  <1>1. PICK s \in Refusals : WriteStatus(task[k].run, s)
    BY DEF PreflightRefuses
  <1>2. /\ task[k].phase = "checked" /\ Goto(k, "ended")
        /\ UNCHANGED <<named, archive, override, replaced>>
    BY DEF PreflightRefuses, At
  <1> QED
    BY <1>1, <1>2, StatusStepBase DEF Before, Loading

LEMMA BeginSwapBase ==
  ASSUME Base, NEW k \in Restores, BeginSwap(k), UNCHANGED <<faults, tried, undo>>
  PROVE  Base'
  BY StatusStepBase DEF BeginSwap, At, Before, Loading, Executing, ActiveStatuses

LEMMA MarkFailedBase ==
  ASSUME Base, NEW k \in Restores, MarkFailed(k), UNCHANGED <<faults, tried, undo>>
  PROVE  Base'
  <1> DEFINE p == IF LeavesScratch(k) THEN "dropping" ELSE "ended"
  <1>1. p \in {"dropping", "ended"}
    OBVIOUS
  <1>2. /\ task[k].phase = "failing" /\ Goto(k, p) /\ WriteStatus(task[k].run, "failed")
        /\ UNCHANGED <<named, archive, override, replaced>>
    BY DEF MarkFailed, At
  <1> HIDE DEF p
  <1> QED
    BY <1>1, <1>2, StatusStepBase DEF Before, Loading, Executing

\* Steps that only go on, and may set the override.
LEMMA GoOnBase ==
  ASSUME Base, NEW k \in Restores, UNCHANGED <<faults, tried, undo>>,
         task[k].phase # "idle", NEW p \in {"ended"} \cup Executing, Goto(k, p),
         p \in Before => task[k].phase \in Before,
         p \in Loading => task[k].phase \in Loading,
         override' \in BOOLEAN,
         UNCHANGED <<named, catalog, archive, replaced, mishaps>>
  PROVE  Base'
  <1>1. /\ task' \in [Restores -> Task] /\ \A j \in Restores \ {k} : task'[j] = task[j]
        /\ task'[k].run = task[k].run /\ task'[k].phase = p /\ task'[k].copy = task[k].copy
    BY GotoEffect DEF Base
  <1>2. /\ catalog' \in [Db -> Catalogs] /\ mishaps' \in 0 .. MaxMishaps
    BY DEF Base, TypeOK
  <1> QED
    BY <1>1, <1>2, QuietStepBase

LEMMA GoingOnBase ==
  ASSUME Base, NEW k \in Restores, UNCHANGED <<faults, tried, undo>>,
         VerifyArtifact(k) \/ CloseDoors(k) \/ CarryOverFails(k) \/ Throws(k)
  PROVE  Base'
  <1>1. override \in BOOLEAN
    BY DEF Base, TypeOK
  <1>2. CASE VerifyArtifact(k)
    <2> DEFINE p == IF task[k].mode = "pre_restore_dump" THEN "dumping" ELSE "creating"
    <2>1. p \in {"dumping", "creating"}
      OBVIOUS
    <2>2. /\ task[k].phase = "artifact" /\ Goto(k, p)
          /\ UNCHANGED <<named, catalog, archive, override, replaced, mishaps>>
      BY <1>2 DEF VerifyArtifact, At
    <2> HIDE DEF p
    <2> QED
      BY <1>1, <2>1, <2>2, GoOnBase DEF Before, Loading, Executing
  <1>3. CASE CloseDoors(k)
    BY <1>3, GoOnBase DEF CloseDoors, At, Before, Loading, Executing
  <1>4. CASE CarryOverFails(k)
    BY <1>1, <1>4, GoOnBase DEF CarryOverFails, At, Before, Loading, Executing
  <1>5. CASE Throws(k)
    BY <1>1, <1>5, GoOnBase DEF Throws, Before, Loading, Executing
  <1> QED
    BY <1>2, <1>3, <1>4, <1>5

LEMMA ExportCatalogBase ==
  ASSUME Base, NEW k \in Restores, ExportCatalog(k), UNCHANGED <<faults, tried, undo>>
  PROVE  Base'
  <1>1. /\ task[k].phase = "exporting" /\ task[k].run \in Ids /\ Rows \in Catalogs
        /\ Rows[task[k].run] \in Row
    BY Underway, LiveRows DEF ExportCatalog, At, Base, Catalogs
  <1>2. Audit(k) \in Row /\ Audit(k).status = Rows[task[k].run].status
    BY <1>1, Numbers DEF Audit, Row
  <1> DEFINE copy == [Rows EXCEPT ![task[k].run] = Audit(k)]
  <1>3. copy \in Catalogs /\ \A r \in Ids : copy[r].status = Rows[r].status
    BY <1>1, <1>2 DEF Catalogs
  <1>4. task' = [task EXCEPT ![k].phase = "exported", ![k].copy = copy]
    BY DEF ExportCatalog
  <1> HIDE DEF copy
  <1>5. /\ task' \in [Restores -> Task] /\ \A j \in Restores \ {k} : task'[j] = task[j]
        /\ task'[k].run = task[k].run /\ task'[k].phase = "exported"
        /\ task'[k].copy = copy
    BY <1>3, <1>4, TaskParts, ZenonT(40) DEF Base, TypeOK, Task, Executing
  <1>6. UNCHANGED <<named, catalog, archive, override, replaced, mishaps>>
    BY DEF ExportCatalog
  <1> QED
    BY <1>1, <1>3, <1>5, <1>6, QuietStepBase DEF Base, TypeOK, Before, Loading

\* The dump of an attempt under way is numbered; it has an archive of its own.
LEMMA TakeDumpBase ==
  ASSUME Base, NEW k \in Restores, TakeDump(k), UNCHANGED <<faults, tried, undo>>
  PROVE  Base'
  <1> DEFINE d == DumpOf(k)
             r == task[k].run
             done == [NoRow EXCEPT !.status = "completed"]
             dumped == [Rows EXCEPT ![d] = done]
             linked == [dumped EXCEPT ![r].dump = d]
             rows == [Rows EXCEPT ![d].status = "incomplete"]
  <1>1. /\ task[k].phase = "dumping" /\ r \in Ids /\ r # d /\ d \in Ids
        /\ d <= NBackups + tried /\ d \in 0 .. NBackups + MaxRestores
        /\ LiveDb \in Db /\ Rows = catalog[LiveDb] /\ Rows \in Catalogs
    BY Underway, LiveRows, Numbers DEF TakeDump, At, Base
  <1>2. done \in Row
    BY RowsAreRows DEF Row
  <1>3. dumped \in Catalogs /\ \A q \in Ids : q # d => dumped[q].status = Rows[q].status
    BY <1>1, <1>2 DEF Catalogs
  <1>4. linked \in Catalogs /\ \A q \in Ids : q # d => linked[q].status = Rows[q].status
    BY <1>1, <1>3 DEF Catalogs, Row
  <1>5. rows \in Catalogs /\ \A q \in Ids : q # d => rows[q].status = Rows[q].status
    BY <1>1 DEF Catalogs, Row
  <1>6. /\ Goto(k, "creating")
        /\ archive' = [archive EXCEPT ![d] = [db |-> LiveDb, rows |-> rows]]
        /\ UNCHANGED <<named, override, replaced>>
    BY DEF TakeDump
  <1>7. \E c \in {dumped, linked} :
          /\ catalog' = [catalog EXCEPT ![LiveDb] = c] /\ mishaps' \in 0 .. MaxMishaps
    BY RestoreAssumption DEF TakeDump, Base, TypeOK, Mishap
  <1> HIDE DEF d, r, dumped, linked, rows, done
  <1>8. PICK c \in {dumped, linked} :
          /\ catalog' = [catalog EXCEPT ![LiveDb] = c] /\ mishaps' \in 0 .. MaxMishaps
    BY <1>7
  <1>9. /\ catalog' \in [Db -> Catalogs]
        /\ \A b \in Db, q \in Ids : q # d => catalog'[b][q].status = catalog[b][q].status
    BY <1>1, <1>3, <1>4, <1>8 DEF Base, TypeOK
  <1>10. /\ archive' \in [Ids -> [db : Db \cup {NoDb}, rows : Catalogs]]
         /\ archive'[d].rows = rows /\ \A q \in Ids : q # d => archive'[q] = archive[q]
    BY <1>1, <1>5, <1>6 DEF Base, TypeOK
  <1>11. /\ task' \in [Restores -> Task] /\ \A j \in Restores \ {k} : task'[j] = task[j]
         /\ task'[k].run = r /\ task'[k].phase = "creating"
         /\ task'[k].copy = task[k].copy
    BY <1>6, GotoEffect DEF Base, Executing, r
  <1>12. TypeOK'
    BY <1>6, <1>8, <1>9, <1>10, <1>11 DEF Base, TypeOK
  <1>13. Named' /\ Tasks'
    BY <1>1, <1>6, <1>11, KeepsNames DEF Before, Loading, r
  <1>14. From'
    BY DEF Base, From
  <1>15. Fresh'
    <2>1. ASSUME NEW b \in Db, NEW q \in Ids, catalog'[b][q].status # "absent"
          PROVE  q <= NBackups + tried
      <3>1. CASE q = d
        BY <1>1, <3>1
      <3>2. CASE q # d
        BY <1>9, <2>1, <3>2 DEF Base, Fresh, Numbered
      <3> QED
        BY <3>1, <3>2
    <2>2. ASSUME NEW q \in Ids, rows[q].status # "absent"
          PROVE  q <= NBackups + tried
      <3>1. CASE q = d
        BY <1>1, <3>1
      <3>2. CASE q # d
        BY <1>1, <1>5, <2>2, <3>2 DEF Base, Fresh, Numbered
      <3> QED
        BY <3>1, <3>2
    <2>3. ASSUME NEW q \in Ids, NEW x \in Ids, archive'[q].rows[x].status # "absent"
          PROVE  x <= NBackups + tried
      <3>1. CASE q = d
        BY <1>10, <2>2, <2>3, <3>1
      <3>2. CASE q # d
        BY <1>10, <2>3, <3>2 DEF Base, Fresh, Numbered
      <3> QED
        BY <3>1, <3>2
    <2>4. \A j \in Restores : task'[j].copy = task[j].copy
      BY <1>11
    <2> QED
      BY <2>1, <2>3, <2>4 DEF Base, Fresh, Numbered
  <1> QED
    BY <1>12, <1>13, <1>14, <1>15 DEF Base

\* The scratch database is a new one, under a name of its own.
LEMMA CreateScratchBase ==
  ASSUME Base, NEW k \in Restores, CreateScratch(k), UNCHANGED <<faults, tried, undo>>
  PROVE  Base'
  <1>1. /\ task[k].phase = "creating" /\ \A n \in Names : named[n] # k
        /\ k \in Db /\ k # NoDb /\ Scratch(k) \in Names
    BY Numbers, Naming DEF CreateScratch, At, Base, Tasks, TaskOK, Before
  <1>2. /\ task' \in [Restores -> Task] /\ \A j \in Restores \ {k} : task'[j] = task[j]
        /\ task'[k].run = task[k].run /\ task'[k].phase = "loading"
        /\ task'[k].copy = task[k].copy
    <2>1. task' = [task EXCEPT ![k].phase = "loading", ![k].scratch = TRUE]
      BY DEF CreateScratch
    <2> QED
      BY <2>1, TaskParts, ZenonT(40) DEF Base, TypeOK, Task, Executing
  <1>3. /\ named' = [named EXCEPT ![Scratch(k)] = k]
        /\ UNCHANGED <<catalog, archive, override, replaced, mishaps>>
    BY DEF CreateScratch
  <1>4. /\ named' \in [Names -> Db \cup {NoDb}] /\ named'[Scratch(k)] = k
        /\ \A n \in Names \ {Scratch(k)} : named'[n] = named[n]
    BY <1>1, <1>3 DEF Base, TypeOK
  <1>5. TypeOK'
    BY <1>2, <1>3, <1>4 DEF Base, TypeOK
  <1>6. Named'
    <2>1. \A m, n \in Names : named'[m] # NoDb /\ named'[m] = named'[n] => m = n
      BY <1>1, <1>4 DEF Base, Named, Present
    <2>2. ASSUME NEW j \in Restores
          PROVE  named'[Scratch(j)] \in {j, NoDb} /\ named'[Old(j)] \in {replaced'[j], NoDb}
      BY <1>3, <1>4, Naming DEF Base, Named
    <2> QED
      BY <2>1, <2>2 DEF Named, Present
  <1>7. Tasks'
    <2>1. \A j \in Restores \ {k} : named'[Scratch(j)] = named[Scratch(j)]
      BY <1>4, Naming
    <2>2. \A j \in Restores \ {k} :
            (\A n \in Names : named[n] # j) => \A n \in Names : named'[n] # j
      BY <1>4
    <2> QED
      BY <1>1, <1>2, <1>4, <2>1, <2>2, KeepsTasks DEF Before
  <1>8. Fresh'
    <2>1. \A j \in Restores : task'[j].copy = task[j].copy
      BY <1>2
    <2> QED
      BY <1>3, <2>1, KeepsFresh DEF Base
  <1>9. From'
    BY DEF Base, From
  <1> QED
    BY <1>5, <1>6, <1>7, <1>8, <1>9 DEF Base

\* What is loaded is what the archive knows.
LEMMA LoadArchiveBase ==
  ASSUME Base, NEW k \in Restores, LoadArchive(k), UNCHANGED <<faults, tried, undo>>
  PROVE  Base'
  <1> DEFINE r == task[k].run
             loaded == [catalog EXCEPT ![k] = archive[r].rows]
  <1>1. /\ task[k].phase = "loading" /\ r \in Ids /\ k \in Db
    BY Underway, Numbers DEF LoadArchive, At
  <1>2. /\ loaded \in [Db -> Catalogs] /\ loaded[k] = archive[r].rows
        /\ \A d \in Db : d # k => loaded[d] = catalog[d]
    BY <1>1 DEF Base, TypeOK
  <1>3. mishaps' \in 0 .. MaxMishaps
    BY RestoreAssumption DEF LoadArchive, Base, TypeOK, Mishap
  <1>4. \/ catalog' = loaded
        \/ Present(Live) /\ catalog' = [loaded EXCEPT ![LiveDb][r].restore = "verifying"]
    BY DEF LoadArchive
  <1>5. Goto(k, "verifying") /\ UNCHANGED <<named, archive, override, replaced>>
    BY DEF LoadArchive
  <1> HIDE DEF r, loaded
  <1>6. /\ catalog' \in [Db -> Catalogs]
        /\ \A d \in Db, q \in Ids : catalog'[d][q].status = loaded[d][q].status
    <2>1. CASE catalog' = loaded
      BY <1>2, <2>1
    <2>2. CASE Present(Live) /\ catalog' = [loaded EXCEPT ![LiveDb][r].restore = "verifying"]
      <3>1. LiveDb \in Db
        BY <2>2, LiveRows DEF Base
      <3>2. loaded[LiveDb] \in Catalogs /\ loaded[LiveDb][r] \in Row
        BY <1>1, <1>2, <3>1 DEF Catalogs
      <3>3. [loaded[LiveDb][r] EXCEPT !.restore = "verifying"] \in Row
        BY <3>2 DEF Row, ActiveStatuses
      <3>4. [loaded[LiveDb] EXCEPT ![r].restore = "verifying"] \in Catalogs
        BY <3>2, <3>3 DEF Catalogs
      <3>5. catalog' = [loaded EXCEPT ![LiveDb] =
                          [loaded[LiveDb] EXCEPT ![r].restore = "verifying"]]
        BY <2>2, <1>2, <3>1
      <3>6. catalog' \in [Db -> Catalogs]
        BY <1>2, <3>1, <3>4, <3>5
      <3>7. \A q \in Ids : [loaded[LiveDb] EXCEPT ![r].restore = "verifying"][q].status
                             = loaded[LiveDb][q].status
        BY <3>2 DEF Catalogs, Row
      <3> QED
        BY <1>2, <3>1, <3>5, <3>6, <3>7
    <2> QED
      BY <1>4, <2>1, <2>2
  <1>7. /\ task' \in [Restores -> Task] /\ \A j \in Restores \ {k} : task'[j] = task[j]
        /\ task'[k].run = task[k].run /\ task'[k].phase = "verifying"
        /\ task'[k].copy = task[k].copy
    BY <1>5, GotoEffect DEF Base, Executing
  <1>8. TypeOK'
    BY <1>3, <1>5, <1>6, <1>7 DEF Base, TypeOK
  <1>9. Named' /\ Tasks'
    BY <1>1, <1>5, <1>7, KeepsNames DEF Before, Loading
  <1>10. From'
    BY DEF Base, From
  <1>11. Fresh'
    <2>1. ASSUME NEW d \in Db, NEW q \in Ids, catalog'[d][q].status # "absent"
          PROVE  q <= NBackups + tried
      BY <1>1, <1>2, <1>6, <2>1 DEF Base, Fresh, Numbered
    <2>2. \A j \in Restores : task'[j].copy = task[j].copy
      BY <1>7
    <2> QED
      BY <1>5, <2>1, <2>2 DEF Base, Fresh, Numbered
  <1> QED
    BY <1>8, <1>9, <1>10, <1>11 DEF Base

\* The carry-over makes known what the copy knew.
LEMMA CarryRows ==
  ASSUME NEW new \in Catalogs, NEW copy \in Catalogs, NEW lost \in SUBSET Ids
  PROVE  /\ Linked(Merged(new, copy, lost), copy) \in Catalogs
         /\ \A r \in Ids :
              LET row == Linked(Merged(new, copy, lost), copy)[r] IN
              IF r \in lost \/ copy[r].status = "absent"
              THEN /\ row.status = new[r].status /\ row.restore = new[r].restore
                   /\ row.oldDb = new[r].oldDb
              ELSE /\ row.status = copy[r].status /\ row.restore = copy[r].restore
                   /\ row.oldDb = copy[r].oldDb
  <1> DEFINE merged == Merged(new, copy, lost)
  <1>1. \A r \in Ids : new[r] \in Row /\ copy[r] \in Row
    BY DEF Catalogs
  <1>2. \A r \in Ids : [copy[r] EXCEPT !.dump = new[r].dump] \in Row
    BY <1>1 DEF Row
  <1>3. merged \in Catalogs
    BY <1>1, <1>2 DEF Merged, Catalogs
  <1>4. \A r \in Ids :
          IF r \in lost \/ copy[r].status = "absent" THEN merged[r] = new[r]
          ELSE /\ merged[r].status = copy[r].status /\ merged[r].restore = copy[r].restore
               /\ merged[r].oldDb = copy[r].oldDb
    BY <1>1, <1>2 DEF Merged, Row
  <1> HIDE DEF merged
  <1>5. \A r \in Ids : merged[r] \in Row /\ [merged[r] EXCEPT !.dump = copy[r].dump] \in Row
    BY <1>1, <1>3 DEF Catalogs, Row
  <1>6. Linked(merged, copy) \in Catalogs
    BY <1>5 DEF Linked, Catalogs
  <1>7. \A r \in Ids : /\ Linked(merged, copy)[r].status = merged[r].status
                       /\ Linked(merged, copy)[r].restore = merged[r].restore
                       /\ Linked(merged, copy)[r].oldDb = merged[r].oldDb
    BY <1>5 DEF Linked, Row
  <1> QED
    BY <1>4, <1>6, <1>7 DEF merged

\* The same, as the step uses it.
LEMMA CarryOverEffect ==
  ASSUME Base, NEW k \in Restores, CarryOver(k)
  PROVE  /\ catalog' \in [Db -> Catalogs] /\ LiveDb \in Db
         /\ \A d \in Db : d # LiveDb => catalog'[d] = catalog[d]
         /\ \E lost \in SUBSET Ids :
              /\ "rowFails" \notin faults => lost = {}
              /\ \A r \in Ids :
                   IF r \in lost \/ task[k].copy[r].status = "absent"
                   THEN catalog'[LiveDb][r].status = catalog[LiveDb][r].status
                   ELSE /\ catalog'[LiveDb][r].status = task[k].copy[r].status
                        /\ catalog'[LiveDb][r].restore = task[k].copy[r].restore
                        /\ catalog'[LiveDb][r].oldDb = task[k].copy[r].oldDb
  <1> DEFINE copy == task[k].copy
             new == catalog[LiveDb]
  <1>1. LiveDb \in Db /\ new \in Catalogs /\ copy \in Catalogs
    BY LiveRows, TaskParts DEF CarryOver, Base, TypeOK
  <1>2. PICK lost \in IF "rowFails" \in faults THEN SUBSET Ids ELSE {{}} :
          catalog' = [catalog EXCEPT ![LiveDb] = Linked(Merged(new, copy, lost), copy)]
    BY DEF CarryOver
  <1>3. lost \in SUBSET Ids /\ ("rowFails" \notin faults => lost = {})
    BY <1>2
  <1> HIDE DEF copy, new
  <1>4. /\ Linked(Merged(new, copy, lost), copy) \in Catalogs
        /\ \A r \in Ids :
             LET row == Linked(Merged(new, copy, lost), copy)[r] IN
             IF r \in lost \/ copy[r].status = "absent"
             THEN /\ row.status = new[r].status /\ row.restore = new[r].restore
                  /\ row.oldDb = new[r].oldDb
             ELSE /\ row.status = copy[r].status /\ row.restore = copy[r].restore
                  /\ row.oldDb = copy[r].oldDb
    BY <1>1, <1>3, CarryRows
  <1>5. /\ catalog' \in [Db -> Catalogs] /\ \A d \in Db : d # LiveDb => catalog'[d] = catalog[d]
        /\ catalog'[LiveDb] = Linked(Merged(new, copy, lost), copy)
    BY <1>1, <1>2, <1>4 DEF Base, TypeOK
  <1>6. \A r \in Ids :
           IF r \in lost \/ copy[r].status = "absent"
           THEN catalog'[LiveDb][r].status = new[r].status
           ELSE /\ catalog'[LiveDb][r].status = copy[r].status
                /\ catalog'[LiveDb][r].restore = copy[r].restore
                /\ catalog'[LiveDb][r].oldDb = copy[r].oldDb
    BY <1>4, <1>5
  <1> QED
    BY <1>1, <1>3, <1>5, <1>6 DEF copy, new

LEMMA CarryOverBase ==
  ASSUME Base, NEW k \in Restores, CarryOver(k), UNCHANGED <<faults, tried, undo>>
  PROVE  Base'
  <1>1. /\ task[k].phase = "landed" /\ Goto(k, "carried")
        /\ UNCHANGED <<named, archive, override, replaced, mishaps>>
    BY DEF CarryOver, At
  <1>2. /\ task' \in [Restores -> Task] /\ \A j \in Restores \ {k} : task'[j] = task[j]
        /\ task'[k].run = task[k].run /\ task'[k].phase = "carried"
        /\ task'[k].copy = task[k].copy
    BY <1>1, GotoEffect DEF Base, Executing
  <1>3. /\ catalog' \in [Db -> Catalogs]
        /\ \A d \in Db, q \in Ids : \/ catalog'[d][q].status = catalog[d][q].status
                                    \/ catalog'[d][q].status = task[k].copy[q].status
    BY CarryOverEffect
  <1>4. TypeOK'
    BY <1>1, <1>2, <1>3 DEF Base, TypeOK
  <1>5. Named' /\ Tasks'
    BY <1>1, <1>2, KeepsNames DEF Before, Loading
  <1>6. From'
    BY DEF Base, From
  <1>7. Fresh'
    <2>1. ASSUME NEW d \in Db, NEW q \in Ids, catalog'[d][q].status # "absent"
          PROVE  q <= NBackups + tried
      BY <1>3, <2>1 DEF Base, Fresh, Numbered
    <2>2. \A j \in Restores : task'[j].copy = task[j].copy
      BY <1>2
    <2> QED
      BY <1>1, <2>1, <2>2 DEF Base, Fresh, Numbered
  <1> QED
    BY <1>4, <1>5, <1>6, <1>7 DEF Base

\* A rename or a drop that one attempt makes, and its next phase.
LEMMA NameStepBase ==
  ASSUME Base, NEW k \in Restores, UNCHANGED <<faults, tried, undo>>,
         task[k].phase # "idle",
         NEW p \in ({"ended"} \cup Executing) \ Before, Goto(k, p),
         named' \in [Names -> Db \cup {NoDb}],
         \A m, n \in Names : named'[m] # NoDb /\ named'[m] = named'[n] => m = n,
         \A d \in Db : (\A n \in Names : named[n] # d) => \A n \in Names : named'[n] # d,
         \A j \in Restores \ {k} : /\ named'[Scratch(j)] = named[Scratch(j)]
                                   /\ named'[Old(j)] = named[Old(j)]
                                   /\ replaced'[j] = replaced[j],
         named'[Scratch(k)] \in {named[Scratch(k)], NoDb},
         p \in Loading => /\ task[k].phase \in Loading
                          /\ named'[Scratch(k)] = named[Scratch(k)],
         named'[Old(k)] \in {replaced'[k], NoDb},
         replaced' \in [Restores -> Db \cup {NoDb}],
         UNCHANGED <<catalog, archive, override, mishaps>>
  PROVE  Base'
  <1>1. /\ task' \in [Restores -> Task] /\ \A j \in Restores \ {k} : task'[j] = task[j]
        /\ task'[k].run = task[k].run /\ task'[k].phase = p /\ task'[k].copy = task[k].copy
    BY GotoEffect DEF Base
  <1>2. TypeOK'
    BY <1>1 DEF Base, TypeOK
  <1>3. Named'
    <2>1. ASSUME NEW j \in Restores
          PROVE  named'[Scratch(j)] \in {j, NoDb} /\ named'[Old(j)] \in {replaced'[j], NoDb}
      BY DEF Base, Named
    <2> QED
      BY <2>1 DEF Named, Present
  <1>4. Tasks'
    <2>1. \A j \in Restores \ {k} :
            (\A n \in Names : named[n] # j) => \A n \in Names : named'[n] # j
      BY Numbers
    <2>2. p \in Loading => named'[Scratch(k)] = k
      BY DEF Base, Tasks, TaskOK
    <2> QED
      BY <1>1, <2>1, <2>2, KeepsTasks
  <1>5. Fresh'
    <2>1. \A j \in Restores : task'[j].copy = task[j].copy
      BY <1>1
    <2> QED
      BY <2>1, KeepsFresh DEF Base
  <1>6. From'
    BY DEF Base, From
  <1> QED
    BY <1>2, <1>3, <1>4, <1>5, <1>6 DEF Base

LEMMA RenameAwayBase ==
  ASSUME Base, NEW k \in Restores, RenameAway(k), UNCHANGED <<faults, tried, undo>>
  PROVE  Base'
  <1>1. /\ task[k].phase = "quiet" /\ Goto(k, "gap") /\ CanRename(Live, Old(k))
        /\ named' = Rename(Live, Old(k)) /\ replaced' = [replaced EXCEPT ![k] = LiveDb]
        /\ UNCHANGED <<catalog, archive, override, mishaps>>
    BY DEF RenameAway, At
  <1>2. /\ named' \in [Names -> Db \cup {NoDb}]
        /\ named'[Live] = NoDb /\ named'[Old(k)] = LiveDb
        /\ \A n \in Names \ {Live, Old(k)} : named'[n] = named[n]
        /\ \A m, n \in Names : named'[m] # NoDb /\ named'[m] = named'[n] => m = n
        /\ \A d \in Db : (\A n \in Names : named[n] # d) => \A n \in Names : named'[n] # d
    BY <1>1, Naming, RenameEffect DEF Base, LiveDb
  <1>3. /\ replaced' \in [Restores -> Db \cup {NoDb}] /\ replaced'[k] = LiveDb
        /\ \A j \in Restores \ {k} : replaced'[j] = replaced[j]
    BY <1>1, LiveRows DEF Base, TypeOK
  <1>4. /\ named'[Scratch(k)] = named[Scratch(k)]
        /\ \A j \in Restores \ {k} : /\ named'[Scratch(j)] = named[Scratch(j)]
                                     /\ named'[Old(j)] = named[Old(j)]
    BY <1>2, Naming
  <1>5. "gap" \in ({"ended"} \cup Executing) \ Before /\ task[k].phase \in Loading
    BY <1>1 DEF Executing, Before, Loading
  <1> QED
    BY <1>1, <1>2, <1>3, <1>4, <1>5, NameStepBase

LEMMA RenameInBase ==
  ASSUME Base, NEW k \in Restores, RenameIn(k), UNCHANGED <<faults, tried, undo>>
  PROVE  Base'
  <1>1. /\ task[k].phase = "gap" /\ Goto(k, "landed") /\ CanRename(Scratch(k), Live)
        /\ named' = Rename(Scratch(k), Live)
        /\ UNCHANGED <<catalog, archive, override, replaced, mishaps>>
    BY DEF RenameIn, At
  <1>2. /\ named' \in [Names -> Db \cup {NoDb}]
        /\ named'[Scratch(k)] = NoDb
        /\ \A n \in Names \ {Live, Scratch(k)} : named'[n] = named[n]
        /\ \A m, n \in Names : named'[m] # NoDb /\ named'[m] = named'[n] => m = n
        /\ \A d \in Db : (\A n \in Names : named[n] # d) => \A n \in Names : named'[n] # d
    BY <1>1, Naming, RenameEffect DEF Base
  <1>3. \A j \in Restores : /\ named'[Old(j)] = named[Old(j)]
                            /\ j # k => named'[Scratch(j)] = named[Scratch(j)]
    BY <1>2, Naming
  <1>4. "landed" \in ({"ended"} \cup Executing) \ Before /\ "landed" \notin Loading
    BY DEF Executing, Before, Loading
  <1>5. named'[Old(k)] \in {replaced'[k], NoDb} /\ replaced' \in [Restores -> Db \cup {NoDb}]
    BY <1>1, <1>3 DEF Base, Named, TypeOK
  <1> QED
    BY <1>1, <1>2, <1>3, <1>4, <1>5, NameStepBase

LEMMA PutBackBase ==
  ASSUME Base, NEW k \in Restores, PutBack(k), UNCHANGED <<faults, tried, undo>>
  PROVE  Base'
  <1>1. /\ task[k].phase = "gap" /\ Goto(k, "failing")
        /\ UNCHANGED <<catalog, archive, override, replaced, mishaps>>
    BY DEF PutBack, At
  <1>2. "failing" \in ({"ended"} \cup Executing) \ Before /\ "failing" \notin Loading
    BY DEF Executing, Before, Loading
  <1>3. replaced' \in [Restores -> Db \cup {NoDb}]
    BY <1>1 DEF Base, TypeOK
  <1>4. CASE CanRename(Old(k), Live) /\ named' = Rename(Old(k), Live)
    <2>1. /\ named' \in [Names -> Db \cup {NoDb}]
          /\ named'[Old(k)] = NoDb
          /\ \A n \in Names \ {Live, Old(k)} : named'[n] = named[n]
          /\ \A m, n \in Names : named'[m] # NoDb /\ named'[m] = named'[n] => m = n
          /\ \A d \in Db : (\A n \in Names : named[n] # d) => \A n \in Names : named'[n] # d
      BY <1>4, Naming, RenameEffect DEF Base
    <2>2. \A j \in Restores : /\ named'[Scratch(j)] = named[Scratch(j)]
                              /\ j # k => named'[Old(j)] = named[Old(j)]
      BY <2>1, Naming
    <2> QED
      BY <1>1, <1>2, <1>3, <2>1, <2>2, NameStepBase
  <1>5. CASE UNCHANGED named
    BY <1>1, <1>2, <1>3, <1>5, NameStepBase DEF Base, TypeOK, Named, Present
  <1> QED
    BY <1>4, <1>5 DEF PutBack

LEMMA DropScratchBase ==
  ASSUME Base, NEW k \in Restores, DropScratch(k), UNCHANGED <<faults, tried, undo>>
  PROVE  Base'
  <1>1. /\ task[k].phase = "dropping" /\ Goto(k, "ended")
        /\ UNCHANGED <<catalog, archive, override, replaced, mishaps>>
    BY DEF DropScratch, At
  <1>2. "ended" \in ({"ended"} \cup Executing) \ Before /\ "ended" \notin Loading
    BY DEF Executing, Before, Loading
  <1>3. /\ replaced' \in [Restores -> Db \cup {NoDb}]
        /\ \A j \in Restores : named[Old(j)] \in {replaced'[j], NoDb}
    BY <1>1 DEF Base, TypeOK, Named
  <1>4. CASE named' = Dropped(Scratch(k))
    <2>1. /\ named' \in [Names -> Db \cup {NoDb}]
          /\ named'[Scratch(k)] = NoDb
          /\ \A n \in Names \ {Scratch(k)} : named'[n] = named[n]
          /\ \A m, n \in Names : named'[m] # NoDb /\ named'[m] = named'[n] => m = n
          /\ \A d \in Db : (\A n \in Names : named[n] # d) => \A n \in Names : named'[n] # d
      BY <1>4, Naming, DropEffect DEF Base
    <2>2. \A j \in Restores : /\ named'[Old(j)] = named[Old(j)]
                              /\ j # k => named'[Scratch(j)] = named[Scratch(j)]
      BY <2>1, Naming
    <2> QED
      BY <1>1, <1>2, <1>3, <2>1, <2>2, NameStepBase
  <1>5. CASE UNCHANGED named
    BY <1>1, <1>2, <1>3, <1>5, NameStepBase DEF Base, TypeOK, Named, Present
  <1> QED
    BY <1>4, <1>5 DEF DropScratch

\* The end of the process, with a drop or a rename, keeps what is on disk.
LEMMA EndBase ==
  ASSUME Base, task' = Stopped, override' \in BOOLEAN,
         undo' = [phase |-> "idle", from |-> 0],
         named' \in [Names -> Db \cup {NoDb}],
         \A m, n \in Names : named'[m] # NoDb /\ named'[m] = named'[n] => m = n,
         \A d \in Db : (\A n \in Names : named[n] # d) => \A n \in Names : named'[n] # d,
         \A j \in Restores : /\ named'[Scratch(j)] = named[Scratch(j)]
                             /\ named'[Old(j)] \in {named[Old(j)], NoDb},
         UNCHANGED <<faults, catalog, archive, replaced, tried>>,
         mishaps' \in 0 .. MaxMishaps
  PROVE  Base'
  <1>1. /\ task' \in [Restores -> Task]
        /\ \A j \in Restores :
             /\ task'[j].phase \in {"idle", "ended"} /\ task'[j].run = task[j].run
             /\ task[j].phase = "idle" => task'[j] = task[j]
             /\ task[j].phase # "idle" => task'[j].phase = "ended"
             /\ task'[j].copy \in {task[j].copy, NoRows}
    BY StoppedEffect DEF Base
  <1>2. TypeOK'
    BY <1>1, RestoreAssumption DEF Base, TypeOK
  <1>3. Named'
    BY DEF Base, Named, Present
  <1>4. ASSUME NEW j \in Restores
        PROVE  TaskOK(j)'
    <2>1. TaskOK(j) /\ j \in Db
      BY Numbers DEF Base, Tasks
    <2>2. CASE task[j].phase = "idle"
      BY <1>1, <2>1, <2>2 DEF TaskOK, DumpOf, Before, Loading
    <2>3. CASE task[j].phase # "idle"
      <3>1. task'[j].phase = "ended" /\ task'[j].run = task[j].run
        BY <1>1, <2>3
      <3>2. task'[j].phase \notin Before /\ task'[j].phase \notin Loading
        BY <3>1 DEF Before, Loading
      <3>3. ~(j > tried)
        BY <2>1, <2>3, RowsAreRows DEF TaskOK
      <3> QED
        BY <2>1, <2>3, <3>1, <3>2, <3>3 DEF TaskOK, DumpOf
    <2> QED
      BY <2>2, <2>3
  <1>5. Fresh'
    <2>1. \A j \in Restores : task'[j].copy = task[j].copy \/ task'[j].copy = NoRows
      BY <1>1
    <2> QED
      BY <2>1, KeepsFresh DEF Base
  <1>6. From'
    BY DEF From
  <1> QED
    BY <1>2, <1>3, <1>4, <1>5, <1>6 DEF Base, Tasks

LEMMA DropOldAndExitBase ==
  ASSUME Base, NEW k \in Restores, DropOldAndExit(k), UNCHANGED <<faults, tried>>
  PROVE  Base'
  <1>1. /\ task' = Stopped /\ override' = FALSE /\ undo' = [phase |-> "idle", from |-> 0]
        /\ UNCHANGED <<catalog, archive, replaced, mishaps>>
    BY DEF DropOldAndExit
  <1>2. mishaps' \in 0 .. MaxMishaps
    BY <1>1 DEF Base, TypeOK
  <1>3. CASE named' = Dropped(Old(k))
    <2>1. /\ named' \in [Names -> Db \cup {NoDb}] /\ named'[Old(k)] = NoDb
          /\ \A n \in Names \ {Old(k)} : named'[n] = named[n]
          /\ \A m, n \in Names : named'[m] # NoDb /\ named'[m] = named'[n] => m = n
          /\ \A d \in Db : (\A n \in Names : named[n] # d) => \A n \in Names : named'[n] # d
      BY <1>3, Naming, DropEffect DEF Base
    <2>2. \A j \in Restores : /\ named'[Scratch(j)] = named[Scratch(j)]
                              /\ named'[Old(j)] \in {named[Old(j)], NoDb}
      BY <2>1, Naming
    <2> QED
      BY <1>1, <1>2, <2>1, <2>2, EndBase
  <1>4. CASE UNCHANGED named
    BY <1>1, <1>2, <1>4, EndBase DEF Base, TypeOK, Named, Present
  <1> QED
    BY <1>3, <1>4 DEF DropOldAndExit

LEMMA CrashBase ==
  ASSUME Base, Crash
  PROVE  Base'
  <1>1. /\ task' = Stopped /\ override' = FALSE /\ undo' = [phase |-> "idle", from |-> 0]
        /\ UNCHANGED <<faults, named, catalog, archive, replaced, tried>>
    BY DEF Crash
  <1>2. mishaps' \in 0 .. MaxMishaps
    BY RestoreAssumption DEF Crash, Mishap, Base, TypeOK
  <1> QED
    BY <1>1, <1>2, EndBase DEF Base, TypeOK, Named, Present

\* The rollback renames as well; the databases of attempts it leaves alone.
LEMMA UndoNamesBase ==
  ASSUME Base, UNCHANGED <<faults, catalog, archive, replaced, tried, mishaps, task>>,
         undo' \in [phase : {"idle", "checked", "quiet", "gap"}, from : 0 .. MaxRestores],
         undo'.phase # "idle" => undo'.from \in Restores,
         override' \in BOOLEAN,
         named' \in [Names -> Db \cup {NoDb}],
         \A m, n \in Names : named'[m] # NoDb /\ named'[m] = named'[n] => m = n,
         \A d \in Db : (\A n \in Names : named[n] # d) => \A n \in Names : named'[n] # d,
         \A j \in Restores : /\ named'[Scratch(j)] = named[Scratch(j)]
                             /\ named'[Old(j)] \in {named[Old(j)], NoDb}
  PROVE  Base'
  <1>1. TypeOK'
    BY DEF Base, TypeOK
  <1>2. Named'
    BY DEF Base, Named, Present
  <1>3. Tasks'
    BY Numbers DEF Base, Tasks, TaskOK
  <1>4. Fresh'
    BY DEF Base, Fresh, Numbered
  <1>5. From'
    BY DEF From
  <1> QED
    BY <1>1, <1>2, <1>3, <1>4, <1>5 DEF Base

LEMMA UndoStepBase ==
  ASSUME Base, UndoStep
  PROVE  Base'
  <1> DEFINE f == undo.from
  <1>1. /\ undo \in [phase : {"idle", "checked", "quiet", "gap"}, from : 0 .. MaxRestores]
        /\ override \in BOOLEAN /\ (undo.phase # "idle" => f \in Restores)
        /\ 0 \in 0 .. MaxRestores
    BY RestoreAssumption DEF Base, TypeOK, From
  <1>2. UNCHANGED <<faults, catalog, archive, replaced, tried, mishaps>>
    BY DEF UndoStep
  <1>3. CASE UndoClosesDoors
    <2>1. /\ undo' \in [phase : {"idle", "checked", "quiet", "gap"}, from : 0 .. MaxRestores]
          /\ undo'.phase # "idle" => undo'.from \in Restores
      BY <1>1, <1>3 DEF UndoClosesDoors, UndoGoto, UndoAt
    <2>2. override' \in BOOLEAN /\ UNCHANGED <<named, task>>
      BY <1>3 DEF UndoClosesDoors
    <2> QED
      BY <1>2, <2>1, <2>2, UndoNamesBase DEF Base, TypeOK, Named, Present
  <1>4. CASE UndoRenamesAway
    <2>1. /\ undo' \in [phase : {"idle", "checked", "quiet", "gap"}, from : 0 .. MaxRestores]
          /\ undo'.phase # "idle" => undo'.from \in Restores
          /\ f \in Restores
      BY <1>1, <1>4 DEF UndoRenamesAway, UndoGoto, UndoAt
    <2>2. /\ CanRename(Live, Superseded(f)) /\ named' = Rename(Live, Superseded(f))
          /\ UNCHANGED <<task, override>>
      BY <1>4 DEF UndoRenamesAway
    <2>3. /\ named' \in [Names -> Db \cup {NoDb}]
          /\ \A n \in Names \ {Live, Superseded(f)} : named'[n] = named[n]
          /\ \A m, n \in Names : named'[m] # NoDb /\ named'[m] = named'[n] => m = n
          /\ \A d \in Db : (\A n \in Names : named[n] # d) => \A n \in Names : named'[n] # d
      BY <2>1, <2>2, Naming, RenameEffect DEF Base
    <2>4. \A j \in Restores : /\ named'[Scratch(j)] = named[Scratch(j)]
                              /\ named'[Old(j)] = named[Old(j)]
      BY <2>1, <2>3, Naming
    <2> QED
      BY <1>1, <1>2, <2>1, <2>2, <2>3, <2>4, UndoNamesBase
  <1>5. CASE UndoThrows
    BY <1>1, <1>2, <1>5, UndoNamesBase DEF UndoThrows, Base, TypeOK, Named, Present
  <1>6. CASE UndoPutsBack
    <2>1. f \in Restores /\ UNCHANGED <<task, override>> /\ undo' = [phase |-> "idle", from |-> 0]
      BY <1>1, <1>6 DEF UndoPutsBack, UndoAt
    <2>2. CASE CanRename(Superseded(f), Live) /\ named' = Rename(Superseded(f), Live)
      <3>1. /\ named' \in [Names -> Db \cup {NoDb}]
            /\ \A n \in Names \ {Live, Superseded(f)} : named'[n] = named[n]
            /\ \A m, n \in Names : named'[m] # NoDb /\ named'[m] = named'[n] => m = n
            /\ \A d \in Db : (\A n \in Names : named[n] # d) => \A n \in Names : named'[n] # d
        BY <2>1, <2>2, Naming, RenameEffect DEF Base
      <3>2. \A j \in Restores : /\ named'[Scratch(j)] = named[Scratch(j)]
                                /\ named'[Old(j)] = named[Old(j)]
        BY <2>1, <3>1, Naming
      <3> QED
        BY <1>1, <1>2, <2>1, <3>1, <3>2, UndoNamesBase
    <2>3. CASE UNCHANGED named
      BY <1>1, <1>2, <2>1, <2>3, UndoNamesBase DEF Base, TypeOK, Named, Present
    <2> QED
      BY <1>6, <2>2, <2>3 DEF UndoPutsBack
  <1>7. CASE UndoRenamesInAndExits
    <2>1. /\ f \in Restores /\ CanRename(Old(f), Live) /\ named' = Rename(Old(f), Live)
          /\ undo' = [phase |-> "idle", from |-> 0] /\ task' = Stopped /\ override' = FALSE
      BY <1>1, <1>7 DEF UndoRenamesInAndExits, UndoAt
    <2>2. /\ named' \in [Names -> Db \cup {NoDb}] /\ named'[Old(f)] = NoDb
          /\ \A n \in Names \ {Live, Old(f)} : named'[n] = named[n]
          /\ \A m, n \in Names : named'[m] # NoDb /\ named'[m] = named'[n] => m = n
          /\ \A d \in Db : (\A n \in Names : named[n] # d) => \A n \in Names : named'[n] # d
      BY <2>1, Naming, RenameEffect DEF Base
    <2>3. \A j \in Restores : /\ named'[Scratch(j)] = named[Scratch(j)]
                              /\ named'[Old(j)] \in {named[Old(j)], NoDb}
      BY <2>1, <2>2, Naming
    <2>4. mishaps' \in 0 .. MaxMishaps
      BY <1>2 DEF Base, TypeOK
    <2> QED
      BY <1>2, <2>1, <2>2, <2>3, <2>4, EndBase
  <1> QED
    BY <1>3, <1>4, <1>5, <1>6, <1>7 DEF UndoStep

\* Base is kept by every step.
LEMMA BaseStep ==
  ASSUME Base, [Next]_vars
  PROVE  Base'
  <1>1. CASE UNCHANGED vars
    <2>1. UNCHANGED <<faults, named, catalog, archive, task, undo, override, replaced,
                      tried, mishaps>>
      BY <1>1 DEF vars
    <2> QED
      BY <2>1 DEF Base, TypeOK, Named, Present, Tasks, TaskOK, Fresh, Numbered, From
  <1>2. CASE \E r \in Ids : StartRestore(r) \/ RollBack(r)
    BY <1>2, StartRestoreBase, RollBackBase
  <1>3. CASE \E r \in Backups : BackupCompletes(r)
    BY <1>3, BackupCompletesBase
  <1>4. ASSUME NEW k \in Restores, TaskStep(k)
        PROVE  Base'
    BY <1>4, PreflightAdmitsBase, PreflightRefusesBase, GoingOnBase, TakeDumpBase,
       CreateScratchBase, LoadArchiveBase, BeginSwapBase, ExportCatalogBase,
       RenameAwayBase, RenameInBase, PutBackBase, CarryOverBase, MarkFailedBase,
       DropScratchBase, DropOldAndExitBase DEF TaskStep
  <1> QED
    BY <1>1, <1>2, <1>3, <1>4, UndoStepBase, LiftMaintenanceBase, CrashBase DEF Next

\* Every variable keeps its type.  The theorem is about DatabaseRestore's
\* TypeOK: renames stay within the names of the cluster, rows within the table.
THEOREM TypeCorrect == Spec => []TypeOK
  <1>1. Base => TypeOK
    BY DEF Base
  <1> QED
    BY BaseInit, BaseStep, <1>1, PTL DEF Spec

-----------------------------------------------------------------------------
(* One restore at a time                                                    *)

\* The live rows after a step that renames nothing.
LEMMA RowsAfter ==
  ASSUME named' = named
  PROVE  /\ LiveDb' = LiveDb /\ (Present(Live)' <=> Present(Live))
         /\ Present(Live) => Rows' = catalog'[LiveDb]
         /\ \A k \in Restores : Present(Old(k))' <=> Present(Old(k))
         /\ catalog' = catalog => Rows' = Rows
  BY DEF LiveDb, Present, Rows, Live, Old

\* While an attempt is under way no other is, and no rollback.
LEMMA Alone ==
  ASSUME SteadyInv, NEW k \in Restores, Running(k)
  PROVE  Holds(k) /\ undo.phase = "idle" /\ \A j \in Restores \ {k} : ~Running(j)
  BY DEF SteadyInv, Undoing

\* A step of that attempt has only its own case to keep.
LEMMA StepKeepsSteady ==
  ASSUME SteadyInv, NEW k \in Restores, Running(k), undo' = undo,
         \A j \in Restores \ {k} : task'[j] = task[j],
         Holds(k)'
  PROVE  SteadyInv'
  <1>1. undo.phase = "idle" /\ \A j \in Restores \ {k} : ~Running(j)
    BY Alone
  <1>2. ASSUME NEW j \in Restores \ {k}
        PROVE  ~Running(j)' /\ Holds(j)'
    <2>1. task'[j].phase \in {"idle", "ended"}
      BY <1>1 DEF Running
    <2> QED
      BY <2>1 DEF Running, Holds, At, Early, Late
  <1>3. Undoing'
    BY <1>1 DEF Undoing
  <1> QED
    BY <1>2, <1>3 DEF SteadyInv

\* After the end of the process there is nothing to keep.
LEMMA EndKeepsSteady ==
  ASSUME TypeOK, task' = Stopped, undo' = [phase |-> "idle", from |-> 0]
  PROVE  SteadyInv' /\ \A k \in Restores : task'[k].phase \in {"idle", "ended"}
  <1>1. \A k \in Restores : task'[k].phase \in {"idle", "ended"}
    BY StoppedEffect
  <1>2. \A k \in Restores : ~Running(k)' /\ Holds(k)'
    BY <1>1 DEF Running, Holds, At, Early, Late
  <1>3. Undoing'
    BY DEF Undoing
  <1> QED
    BY <1>1, <1>2, <1>3 DEF SteadyInv

\* A status written, with no fault, is in the live row.
LEMMA StatusWritten ==
  ASSUME TypeOK, Steady, NEW r \in Ids, NEW s, WriteStatus(r, s), named' = named,
         s \in {"none", "completed", "failed"} \cup ActiveStatuses \cup Refusals,
         Present(Live), Rows[r].status # "absent"
  PROVE  /\ Present(Live)' /\ Rows'[r].restore = s /\ Rows'[r].status = Rows[r].status
         /\ s \in ActiveStatuses => Taken(r)'
  <1>1. "dbFault" \notin faults /\ LiveDb \in Db /\ Rows = catalog[LiveDb]
    BY LiveRows DEF Steady, Without
  <1>2. /\ catalog'[LiveDb][r].restore = s
        /\ catalog'[LiveDb][r].status = catalog[LiveDb][r].status
    BY <1>1, WriteStatusEffect
  <1>3. Present(Live)' /\ Rows' = catalog'[LiveDb]
    BY RowsAfter
  <1> QED
    BY <1>1, <1>2, <1>3 DEF Taken

\* Who starts a restore finds none under way, and no rollback.
LEMMA NobodyRuns ==
  ASSUME Steady, SteadyInv, Served, TypeOK, Base,
         SlotFree \/ \A k \in Restores : ~Busy(k),
         ~Raced
  PROVE  undo.phase = "idle" /\ \A k \in Restores : ~Running(k)
  <1>1. undo.phase = "idle" /\ \A k \in Restores : task[k].phase \notin {"checked", "dropping"}
    BY DEF Raced
  <1>2. ASSUME NEW k \in Restores, Running(k)
        PROVE  FALSE
    <2>1. Holds(k) /\ task[k].run \in Ids /\ ~override
      BY <1>2, Alone, Underway DEF Running, Served
    <2>2. task[k].phase \in Early \cup {"failing"} /\ Taken(task[k].run)
      BY <1>1, <1>2, <2>1, TaskParts DEF Running, Holds, At, Early, Late, Executing
    <2>3. Busy(k)
      BY <2>2 DEF Busy, Early, Executing
    <2> QED
      BY <2>1, <2>2, <2>3 DEF SlotFree, Taken
  <1> QED
    BY <1>1, <1>2

LEMMA StartRestoreSteady ==
  ASSUME Base, Steady, SteadyInv, NEW r \in Ids, StartRestore(r)
  PROVE  SteadyInv'
  <1>0. tried + 1 \in Restores
    BY RestoreAssumption DEF Base, TypeOK, StartRestore, Restores
  <1> PICK k \in Restores : k = tried + 1
    BY <1>0
  <1>1. /\ Served /\ SlotFree /\ ~Raced /\ Rows[r].status = "completed"
        /\ task' = [task EXCEPT ![k].phase = "checked", ![k].run = r]
        /\ UNCHANGED <<named, catalog, undo, override>>
    BY DEF StartRestore, Steady, Without
  <1>2. undo.phase = "idle" /\ \A j \in Restores : ~Running(j)
    BY <1>1, NobodyRuns DEF Base
  <1>4. /\ task'[k].phase = "checked" /\ task'[k].run = r
        /\ \A j \in Restores \ {k} : task'[j] = task[j]
    BY <1>1, TaskParts DEF Base, TypeOK, Task
  <1>5. Present(Live)' /\ Rows'[r].status = "completed" /\ undo' = undo
    BY <1>1, RowsAfter DEF Served
  <1>6. Holds(k)'
    BY <1>4, <1>5 DEF Holds, At, Early, Late
  <1>7. ASSUME NEW j \in Restores \ {k}
        PROVE  ~Running(j)' /\ Holds(j)'
    <2>1. task'[j].phase \in {"idle", "ended"}
      BY <1>2, <1>4 DEF Running
    <2> QED
      BY <2>1 DEF Running, Holds, At, Early, Late
  <1>8. Undoing'
    BY <1>2, <1>5 DEF Undoing
  <1> QED
    BY <1>6, <1>7, <1>8 DEF SteadyInv

LEMMA RollBackSteady ==
  ASSUME Base, Steady, SteadyInv, NEW r \in Ids, RollBack(r)
  PROVE  SteadyInv'
  <1>1. CASE StartRestore(Rows[r].dump) /\ Rows[r].dump # 0
    <2>1. Rows[r].dump \in Ids
      <3>1. Rows[r] \in Row
        BY LiveRows DEF Base, Catalogs
      <3> QED
        BY <1>1, <3>1, RestoreAssumption DEF Row, Ids
    <2> QED
      BY <1>1, <2>1, StartRestoreSteady
  <1>2. CASE /\ undo.phase = "idle"
             /\ (Raced \/ \E k \in Restores : Busy(k)) => "overlap" \in faults
             /\ undo' = [phase |-> "checked", from |-> Rows[r].oldDb]
             /\ UNCHANGED <<faults, named, catalog, archive, task, override, replaced,
                            tried, mishaps>>
    <2>1. ~Raced /\ \A k \in Restores : ~Busy(k)
      BY <1>2 DEF Steady, Without
    <2>2. \A k \in Restores : task[k].phase \in {"idle", "ended"}
      BY <2>1, TaskParts DEF Base, Busy, Raced
    <2>3. \A k \in Restores : ~Running(k)' /\ Holds(k)'
      BY <1>2, <2>2 DEF Running, Holds, At, Early, Late
    <2>4. Undoing'
      BY <1>2, <2>3 DEF Undoing
    <2> QED
      BY <2>3, <2>4 DEF SteadyInv
  <1> QED
    BY <1>1, <1>2 DEF RollBack

LEMMA BackupCompletesSteady ==
  ASSUME Base, SteadyInv, NEW r \in Backups, BackupCompletes(r)
  PROVE  SteadyInv'
  <1>1. /\ UNCHANGED <<named, task, undo, override>> /\ Present(Live)
        /\ Rows[r].status = "absent"
        /\ catalog' = [catalog EXCEPT ![LiveDb][r] = [NoRow EXCEPT !.status = "completed"]]
    BY DEF BackupCompletes, Written
  <1>2. LiveDb \in Db /\ Rows = catalog[LiveDb] /\ r \in Ids
    BY <1>1, LiveRows, RestoreAssumption DEF Base, Backups, Ids
  <1>3. \A q \in Ids : q # r => catalog'[LiveDb][q] = catalog[LiveDb][q]
    BY <1>1, <1>2 DEF Base, TypeOK, Catalogs
  <1>4. Rows' = catalog'[LiveDb] /\ LiveDb' = LiveDb /\ Present(Live)'
    BY <1>1, RowsAfter
  <1>5. \A q \in Ids : Rows[q].status # "absent" => Rows'[q] = Rows[q]
    BY <1>1, <1>2, <1>3, <1>4
  <1>6. ASSUME NEW k \in Restores
        PROVE  Holds(k)'
    <2>1. Holds(k) /\ (task[k].phase # "idle" => task[k].run \in Ids)
      BY Underway DEF SteadyInv
    <2>2. At(k, "checked") => Rows'[task[k].run].status = "completed"
      BY <1>5, <2>1 DEF Holds, At
    <2>3. task[k].phase # "idle" /\ Taken(task[k].run) => Taken(task[k].run)'
      BY <1>1, <1>4, <1>5, <2>1 DEF Taken
    <2>4. Present(Old(k))' <=> Present(Old(k))
      BY <1>1 DEF Present
    <2> QED
      BY <1>1, <1>4, <2>1, <2>2, <2>3, <2>4 DEF Holds, At, Early
  <1>7. \A k \in Restores : Running(k)' <=> Running(k)
    BY <1>1 DEF Running
  <1>8. Undoing'
    BY <1>1, <1>7 DEF SteadyInv, Undoing, Present
  <1> QED
    BY <1>6, <1>7, <1>8 DEF SteadyInv

LEMMA LiftMaintenanceSteady ==
  ASSUME TypeOK, Steady, SteadyInv, LiftMaintenance
  PROVE  SteadyInv'
  <1>1. /\ undo.phase = "idle" /\ \A k \in Restores : ~Busy(k)
        /\ UNCHANGED <<named, catalog, task, undo>>
    BY DEF LiftMaintenance, Steady, Without
  <1>2. ASSUME NEW k \in Restores
        PROVE  Holds(k)'
    <2>1. task[k].phase \in {"idle", "checked", "ended"} /\ Holds(k)
      BY <1>1, TaskParts DEF Busy, SteadyInv
    <2>2. Rows' = Rows /\ (Present(Live)' <=> Present(Live))
      BY <1>1, RowsAfter
    <2> QED
      BY <1>1, <2>1, <2>2 DEF Holds, At, Early, Late
  <1>3. \A k \in Restores : Running(k)' <=> Running(k)
    BY <1>1 DEF Running
  <1>4. Undoing'
    BY <1>1 DEF Undoing
  <1> QED
    BY <1>2, <1>3, <1>4 DEF SteadyInv

\* The live database is not the one being loaded.
LEMMA LoadedApart ==
  ASSUME Base, NEW k \in Restores, task[k].phase \in Before \cup Loading, Present(Live)
  PROVE  LiveDb # k /\ named[Live] # k
  <1>1. /\ Live \in Names /\ Scratch(k) \in Names /\ Live # Scratch(k) /\ k # NoDb
    BY Naming, Numbers
  <1>2. CASE task[k].phase \in Before
    BY <1>1, <1>2 DEF Base, Tasks, TaskOK, LiveDb
  <1>3. CASE task[k].phase \in Loading
    BY <1>1, <1>3 DEF Base, Tasks, TaskOK, LiveDb, Named, Present
  <1> QED
    BY <1>2, <1>3

\* While an attempt has not left its slot, nor the live database its name.
LEMMA SlotSteps ==
  ASSUME Base, Steady, SteadyInv, NEW k \in Restores, UNCHANGED <<faults, tried, undo>>,
         \/ PreflightAdmits(k) \/ VerifyArtifact(k) \/ BeginSwap(k) \/ ExportCatalog(k)
         \/ CloseDoors(k)
  PROVE  Holds(k)' /\ Running(k) /\ \A j \in Restores \ {k} : task'[j] = task[j]
  <1>1. /\ Running(k) => Holds(k)
        /\ task[k].phase # "idle" => task[k].run \in Ids
        /\ Present(Live) => Rows[task[k].run] = catalog[LiveDb][task[k].run]
    BY Alone, Underway, LiveRows DEF Base
  <1>2. CASE PreflightAdmits(k)
    <2> PICK r : r = task[k].run
      OBVIOUS
    <2> DEFINE row == [Rows[r] EXCEPT !.restore = "restoring", !.oldDb = 0]
    <2>1. /\ task[k].phase = "checked" /\ Running(k) /\ UNCHANGED named /\ r \in Ids
          /\ Write(r, row) /\ Present(Live) /\ Rows[r].status = "completed"
      BY <1>1, <1>2 DEF PreflightAdmits, At, Running, Holds
    <2>2. row \in Row /\ row.status = "completed" /\ row.restore = "restoring"
      <3>1. Rows[r] \in Row
        BY <2>1, LiveRows DEF Base, Catalogs
      <3> QED
        BY <2>1, <3>1, Numbers DEF Row, ActiveStatuses
    <2>3. PICK mode \in Modes :
            task' = [task EXCEPT ![k].phase = "artifact", ![k].mode = mode]
      BY <1>2 DEF PreflightAdmits
    <2> HIDE DEF row
    <2>4. catalog'[LiveDb][r] = row
      BY <2>1, <2>2, WriteEffect DEF Base, Steady, Without
    <2>5. Present(Live)' /\ Rows' = catalog'[LiveDb]
      BY <2>1, RowsAfter
    <2>6. Taken(r)'
      BY <2>2, <2>4, <2>5 DEF Taken, ActiveStatuses
    <2>7. /\ task'[k].phase = "artifact" /\ task'[k].run = r
          /\ \A j \in Restores \ {k} : task'[j] = task[j]
      BY <2>3, TaskParts DEF Base, TypeOK, Task
    <2> QED
      BY <2>1, <2>6, <2>7 DEF Holds, At, Early, Late
  <1>3. CASE VerifyArtifact(k) \/ ExportCatalog(k) \/ CloseDoors(k)
    <2>1. /\ task[k].phase \in {"artifact", "exporting", "exported"} /\ Running(k)
          /\ UNCHANGED <<named, catalog>>
      BY <1>3 DEF VerifyArtifact, ExportCatalog, CloseDoors, At, Running
    <2>2. Taken(task[k].run) /\ Rows' = Rows /\ Present(Live) /\ Present(Live)'
      BY <1>1, <2>1, RowsAfter DEF Holds, Early, Taken
    <2>3. Taken(task[k].run)'
          <=> Present(Live)' /\ Rows'[task'[k].run].status # "absent"
              /\ Rows'[task'[k].run].restore \in ActiveStatuses
      BY DEF Taken
    <2>4. CASE VerifyArtifact(k)
      <3> DEFINE p == IF task[k].mode = "pre_restore_dump" THEN "dumping" ELSE "creating"
      <3>1. p \in {"dumping", "creating"} /\ Goto(k, p)
        BY <2>4 DEF VerifyArtifact
      <3> HIDE DEF p
      <3>2. /\ task'[k].phase \in {"dumping", "creating"} /\ task'[k].run = task[k].run
            /\ \A j \in Restores \ {k} : task'[j] = task[j]
        BY <3>1, GotoEffect DEF Base, Executing
      <3> QED
        BY <2>1, <2>2, <2>3, <3>2 DEF Holds, At, Early, Late, Taken
    <2>5. CASE ExportCatalog(k)
      <3>1. /\ task'[k].phase = "exported" /\ task'[k].run = task[k].run
            /\ \A j \in Restores \ {k} : task'[j] = task[j]
        BY <2>5, TaskParts DEF ExportCatalog, Base, TypeOK, Task
      <3> QED
        BY <2>1, <2>2, <2>3, <3>1 DEF Holds, At, Early, Late, Taken
    <2>6. CASE CloseDoors(k)
      <3>1. /\ task'[k].phase = "quiet" /\ override'
            /\ \A j \in Restores \ {k} : task'[j] = task[j]
        BY <2>6, GotoEffect DEF CloseDoors, Base, Executing
      <3> QED
        BY <2>1, <2>2, <3>1 DEF Holds, At, Early, Late
    <2> QED
      BY <1>3, <2>4, <2>5, <2>6
  <1>4. CASE BeginSwap(k)
    <2> PICK r : r = task[k].run
      OBVIOUS
    <2>1. /\ task[k].phase = "verifying" /\ Goto(k, "exporting") /\ Running(k)
          /\ WriteStatus(r, "swapping") /\ named' = named
      BY <1>4 DEF BeginSwap, At, Running
    <2>2. Taken(r) /\ r \in Ids
      BY <1>1, <2>1 DEF Holds, Early
    <2>3. Present(Live) /\ Rows[r].status # "absent" /\ "swapping" \in ActiveStatuses
      BY <2>2 DEF Taken, ActiveStatuses
    <2>4. Taken(r)'
      BY <2>1, <2>2, <2>3, StatusWritten DEF Base
    <2>5. /\ task'[k].phase = "exporting" /\ task'[k].run = r
          /\ \A j \in Restores \ {k} : task'[j] = task[j]
      BY <2>1, GotoEffect DEF Base, Executing
    <2> QED
      BY <2>1, <2>4, <2>5 DEF Holds, At, Early, Late
  <1> QED
    BY <1>2, <1>3, <1>4

\* The dump and the load leave the slot taken too.
LEMMA DataSteps ==
  ASSUME Base, Steady, SteadyInv, NEW k \in Restores, UNCHANGED <<faults, tried, undo>>,
         TakeDump(k) \/ CreateScratch(k) \/ LoadArchive(k)
  PROVE  Holds(k)' /\ Running(k) /\ \A j \in Restores \ {k} : task'[j] = task[j]
  <1> PICK r : r = task[k].run
    OBVIOUS
  <1> DEFINE d == DumpOf(k)
  <1>1. task[k].phase \in {"dumping", "creating", "loading"} /\ Running(k)
    BY DEF TakeDump, CreateScratch, LoadArchive, At, Running
  <1>2. /\ r \in Ids /\ d \in Ids /\ r # d
    BY <1>1, Underway, Numbers
  <1>3. /\ Taken(r) /\ Present(Live) /\ LiveDb \in Db /\ Rows = catalog[LiveDb]
        /\ catalog[LiveDb][r].restore \in ActiveStatuses
        /\ catalog[LiveDb][r].status # "absent" /\ LiveDb # k
    <2>1. Taken(r) /\ Present(Live)
      BY <1>1, Alone DEF Holds, Early, Taken
    <2> QED
      BY <1>1, <2>1, LiveRows, LoadedApart DEF Taken, Base, Before, Loading
  <1>4. /\ task'[k].phase \in {"creating", "loading", "verifying"} /\ task'[k].run = r
        /\ \A j \in Restores \ {k} : task'[j] = task[j]
    <2>1. CASE TakeDump(k)
      BY <2>1, GotoEffect DEF TakeDump, Base, Executing
    <2>2. CASE CreateScratch(k)
      BY <2>2, TaskParts DEF CreateScratch, Base, TypeOK, Task
    <2>3. CASE LoadArchive(k)
      BY <2>3, GotoEffect DEF LoadArchive, Base, Executing
    <2> QED
      BY <2>1, <2>2, <2>3
  <1>5. named'[Live] = named[Live]
    <2>1. CASE CreateScratch(k)
      BY <2>1, Naming DEF CreateScratch, Base, TypeOK
    <2> QED
      BY <2>1 DEF TakeDump, LoadArchive
  <1>6. /\ catalog'[LiveDb][r].restore \in ActiveStatuses
        /\ catalog'[LiveDb][r].status # "absent"
    <2>1. CASE TakeDump(k)
      <3> DEFINE dumped == [Rows EXCEPT ![d] = [NoRow EXCEPT !.status = "completed"]]
      <3>1. dumped[r] = Rows[r] /\ dumped \in [Ids -> Row] /\ r \in Ids
        <4>1. [NoRow EXCEPT !.status = "completed"] \in Row /\ Rows \in Catalogs
          BY RowsAreRows, LiveRows DEF Row, Base
        <4> QED
          BY <1>2, <4>1 DEF Catalogs
      <3>2. \/ catalog' = [catalog EXCEPT ![LiveDb] = [dumped EXCEPT ![r].dump = d]]
            \/ catalog' = [catalog EXCEPT ![LiveDb] = dumped]
        BY <2>1 DEF TakeDump
      <3> HIDE DEF dumped, d
      <3>3. \/ catalog'[LiveDb] = [dumped EXCEPT ![r].dump = d]
            \/ catalog'[LiveDb] = dumped
        BY <1>3, <3>2 DEF Base, TypeOK
      <3>4. catalog'[LiveDb][r].restore = dumped[r].restore
            /\ catalog'[LiveDb][r].status = dumped[r].status
        BY <3>1, <3>3 DEF Row
      <3> QED
        BY <1>3, <3>1, <3>4
    <2>2. CASE CreateScratch(k)
      BY <1>3, <2>2 DEF CreateScratch
    <2>3. CASE LoadArchive(k)
      <3> DEFINE loaded == [catalog EXCEPT ![k] = archive[r].rows]
      <3>1. /\ loaded[LiveDb] = catalog[LiveDb] /\ DOMAIN loaded = Db
            /\ catalog[LiveDb] \in [Ids -> Row]
        BY <1>3, Numbers DEF Base, TypeOK, Catalogs
      <3>2. \/ catalog' = loaded
            \/ catalog' = [loaded EXCEPT ![LiveDb][r].restore = "verifying"]
        BY <2>3 DEF LoadArchive
      <3> HIDE DEF loaded
      <3>3. CASE catalog' = loaded
        BY <1>3, <3>1, <3>3
      <3>4. CASE catalog' = [loaded EXCEPT ![LiveDb][r].restore = "verifying"]
        <4>1. catalog'[LiveDb] = [catalog[LiveDb] EXCEPT ![r].restore = "verifying"]
          BY <1>3, <3>1, <3>4
        <4> QED
          BY <1>2, <1>3, <3>1, <4>1 DEF Row, ActiveStatuses
      <3> QED
        BY <3>2, <3>3, <3>4
    <2> QED
      BY <2>1, <2>2, <2>3
  <1> HIDE DEF d
  <1>7. Taken(r)'
    BY <1>3, <1>5, <1>6 DEF Taken, Rows, LiveDb, Present
  <1> QED
    BY <1>1, <1>4, <1>7 DEF Holds, At, Early, Late

\* Past the slot, maintenance keeps requests out.
LEMMA LateSteps ==
  ASSUME Base, Steady, SteadyInv, NEW k \in Restores, UNCHANGED <<faults, tried, undo>>,
         \/ RenameAway(k) \/ RenameIn(k) \/ PutBack(k) \/ CarryOver(k) \/ CarryOverFails(k)
  PROVE  Holds(k)' /\ Running(k) /\ \A j \in Restores \ {k} : task'[j] = task[j]
  <1>1. /\ task[k].phase \in {"quiet", "gap", "landed"} /\ Running(k) /\ override' = override
        /\ \E p \in {"gap", "landed", "failing", "carried"} : Goto(k, p)
    BY DEF RenameAway, RenameIn, PutBack, CarryOver, CarryOverFails, At, Running
  <1>2. override' /\ Holds(k)
    BY <1>1, Alone DEF Holds, Late
  <1>3. /\ \A j \in Restores \ {k} : task'[j] = task[j]
        /\ \A p \in {"gap", "landed", "failing", "carried"} :
             Goto(k, p) => task'[k].phase = p
    BY <1>1, GotoEffect DEF Base, Executing
  <1>4. CASE RenameAway(k)
    <2>1. task'[k].phase = "gap"
      BY <1>3, <1>4 DEF RenameAway
    <2>2. ~Present(Live)' /\ Present(Old(k))'
      <3>1. named'[Live] = NoDb /\ named'[Old(k)] = named[Live] /\ Present(Live)
        BY <1>4, Naming, RenameEffect DEF RenameAway, Base, CanRename
      <3> QED
        BY <3>1 DEF Present
    <2> QED
      BY <1>1, <1>2, <1>3, <2>1, <2>2 DEF Holds, At, Early, Late
  <1>5. CASE RenameIn(k)
    <2>1. task'[k].phase = "landed" /\ At(k, "gap")
      BY <1>3, <1>5 DEF RenameIn
    <2>2. LiveDb' = k
      <3>1. named'[Live] = named[Scratch(k)]
        BY <1>5, Naming, RenameEffect DEF RenameIn, Base
      <3> QED
        BY <2>1, <3>1 DEF Base, Tasks, TaskOK, At, Loading, LiveDb
    <2> QED
      BY <1>1, <1>2, <1>3, <2>1, <2>2 DEF Holds, At, Early, Late
  <1>6. CASE PutBack(k) \/ CarryOverFails(k)
    <2>1. task'[k].phase = "failing"
      BY <1>3, <1>6 DEF PutBack, CarryOverFails
    <2> QED
      BY <1>1, <1>2, <1>3, <2>1 DEF Holds, At, Early, Late
  <1>7. CASE CarryOver(k)
    <2>1. task'[k].phase = "carried" /\ At(k, "landed") /\ named' = named
      BY <1>3, <1>7 DEF CarryOver
    <2>2. LiveDb' = k
      BY <1>2, <2>1 DEF Holds, At, LiveDb
    <2> QED
      BY <1>1, <1>2, <1>3, <2>1, <2>2 DEF Holds, At, Early, Late
  <1> QED
    BY <1>4, <1>5, <1>6, <1>7

\* A failing attempt has left its slot taken, or maintenance on, and ends.
LEMMA FailingSteps ==
  ASSUME Base, Steady, SteadyInv, NEW k \in Restores, UNCHANGED <<faults, tried, undo>>,
         Throws(k) \/ MarkFailed(k) \/ DropScratch(k) \/ PreflightRefuses(k)
  PROVE  Holds(k)' /\ Running(k) /\ \A j \in Restores \ {k} : task'[j] = task[j]
  <1>1. CASE Throws(k)
    <2>1. /\ task[k].phase \in Early \cup {"quiet"} /\ Running(k) /\ Goto(k, "failing")
          /\ UNCHANGED <<named, catalog, override>>
      BY <1>1 DEF Throws, Early, Running
    <2>2. /\ task'[k].phase = "failing" /\ task'[k].run = task[k].run
          /\ \A j \in Restores \ {k} : task'[j] = task[j]
      BY <2>1, GotoEffect DEF Base, Executing
    <2>3. override \/ Taken(task[k].run)
      BY <2>1, Alone DEF Holds, Late
    <2>4. Rows' = Rows /\ (Present(Live)' <=> Present(Live))
      BY <2>1, RowsAfter
    <2>5. override' \/ (Present(Live)' /\ Rows'[task'[k].run].status # "absent"
                        /\ Rows'[task'[k].run].restore \in ActiveStatuses)
      BY <2>1, <2>2, <2>3, <2>4 DEF Taken
    <2> QED
      BY <2>1, <2>2, <2>5 DEF Holds, At, Early, Late, Taken
  <1>2. CASE MarkFailed(k)
    <2> DEFINE p == IF LeavesScratch(k) THEN "dropping" ELSE "ended"
    <2>1. /\ p \in {"dropping", "ended"} /\ Goto(k, p) /\ task[k].phase = "failing"
      BY <1>2 DEF MarkFailed, At
    <2> HIDE DEF p
    <2>2. /\ task'[k].phase \in {"dropping", "ended"}
          /\ \A j \in Restores \ {k} : task'[j] = task[j]
      BY <2>1, GotoEffect DEF Base, Executing
    <2> QED
      BY <2>1, <2>2 DEF Holds, At, Early, Late, Running
  <1>3. CASE DropScratch(k) \/ PreflightRefuses(k)
    <2>1. Goto(k, "ended") /\ task[k].phase \in {"dropping", "checked"}
      BY <1>3 DEF DropScratch, PreflightRefuses, At
    <2>2. task'[k].phase = "ended" /\ \A j \in Restores \ {k} : task'[j] = task[j]
      BY <2>1, GotoEffect DEF Base, Executing
    <2> QED
      BY <2>1, <2>2 DEF Holds, At, Early, Late, Running
  <1> QED
    BY <1>1, <1>2, <1>3

LEMMA UndoStepSteady ==
  ASSUME Base, Steady, SteadyInv, UndoStep
  PROVE  SteadyInv'
  <1>1. CASE UndoRenamesInAndExits
    BY <1>1, EndKeepsSteady DEF UndoRenamesInAndExits, Base
  <1>2. CASE ~UndoRenamesInAndExits
    <2>1. undo.phase # "idle" /\ task' = task
      BY <1>2 DEF UndoStep, UndoClosesDoors, UndoRenamesAway, UndoThrows, UndoPutsBack, UndoAt
    <2>2. \A k \in Restores : task[k].phase \in {"idle", "ended"}
      BY <2>1 DEF SteadyInv, Undoing, Running
    <2>3. \A k \in Restores : ~Running(k)' /\ Holds(k)'
      BY <2>1, <2>2 DEF Running, Holds, At, Early, Late
    <2>4. Undoing'
      <3>1. CASE UndoClosesDoors
        BY <2>3, <3>1 DEF UndoClosesDoors, UndoAt, UndoGoto, Undoing, Base, TypeOK
      <3>2. CASE UndoRenamesAway
        <4>1. undo.from \in Restores /\ undo.phase = "quiet" /\ override' = override
          BY <3>2 DEF UndoRenamesAway, UndoAt, Base, From
        <4>2. undo'.phase = "gap" /\ undo'.from = undo.from
          BY <3>2 DEF UndoRenamesAway, UndoGoto, Base, TypeOK
        <4>3. named'[Live] = NoDb /\ named'[Superseded(undo.from)] # NoDb
          BY <3>2, <4>1, Naming, RenameEffect
             DEF UndoRenamesAway, Base, CanRename, Present
        <4> QED
          BY <2>3, <4>1, <4>2, <4>3 DEF Undoing, SteadyInv, Present
      <3>3. CASE UndoThrows \/ UndoPutsBack
        BY <3>3 DEF UndoThrows, UndoPutsBack, Undoing
      <3> QED
        BY <1>2, <3>1, <3>2, <3>3 DEF UndoStep
    <2> QED
      BY <2>3, <2>4 DEF SteadyInv
  <1> QED
    BY <1>1, <1>2

LEMMA SteadyStep ==
  ASSUME Base, Steady, SteadyInv, [Next]_vars
  PROVE  SteadyInv'
  <1>1. CASE UNCHANGED vars
    <2>1. UNCHANGED <<faults, named, catalog, archive, task, undo, override, replaced,
                      tried, mishaps>>
      BY <1>1 DEF vars
    <2>2. Rows' = Rows /\ LiveDb' = LiveDb
      BY <2>1 DEF Rows, LiveDb, Present
    <2> QED
      BY <2>1, <2>2 DEF SteadyInv, Holds, Undoing, Running, Taken, Present, At
  <1>2. CASE \E r \in Ids : StartRestore(r) \/ RollBack(r)
    BY <1>2, StartRestoreSteady, RollBackSteady
  <1>3. CASE \E r \in Backups : BackupCompletes(r)
    BY <1>3, BackupCompletesSteady
  <1>4. ASSUME NEW k \in Restores, TaskStep(k)
        PROVE  SteadyInv'
    <2>1. CASE DropOldAndExit(k)
      BY <2>1, EndKeepsSteady DEF DropOldAndExit, Base
    <2>2. CASE ~DropOldAndExit(k)
      <3>1. undo' = undo /\ UNCHANGED <<faults, tried, undo>>
        BY <1>4, <2>2 DEF TaskStep
      <3>2. Holds(k)' /\ Running(k) /\ \A j \in Restores \ {k} : task'[j] = task[j]
        BY <1>4, <2>2, <3>1, SlotSteps, DataSteps, LateSteps, FailingSteps DEF TaskStep
      <3> QED
        BY <3>1, <3>2, StepKeepsSteady
    <2> QED
      BY <2>1, <2>2
  <1>5. CASE Crash
    BY <1>5, EndKeepsSteady DEF Crash, Base
  <1> QED
    BY <1>1, <1>2, <1>3, <1>4, <1>5, UndoStepSteady, LiftMaintenanceSteady
       DEF Next, Base

LEMMA SteadyInit == Init => SteadyInv
  <1> SUFFICES ASSUME Init
               PROVE  SteadyInv
    OBVIOUS
  <1>1. \A k \in Restores : task[k].phase = "idle"
    BY RowsAreRows DEF Init
  <1>2. \A k \in Restores : ~Running(k) /\ Holds(k)
    BY <1>1 DEF Running, Holds, At, Early, Late
  <1>3. Undoing
    BY DEF Init, Undoing
  <1> QED
    BY <1>2, <1>3 DEF SteadyInv

\* The faults of a behaviour are the ones it started with.
LEMMA FaultsStay == ASSUME [Next]_vars PROVE faults' = faults
  <1>1. ASSUME NEW k \in Restores, TaskStep(k)
        PROVE  faults' = faults
    BY <1>1 DEF TaskStep
  <1>2. ASSUME NEW r \in Ids, StartRestore(r) \/ RollBack(r)
        PROVE  faults' = faults
    BY <1>2 DEF StartRestore, RollBack
  <1> QED
    BY <1>1, <1>2 DEF Next, vars, BackupCompletes, UndoStep, LiftMaintenance, Crash

\* One restore executes at a time.  The theorem is about OneRestore: a slot
\* taken in the live table until the doors close, and the closed doors after
\* that, keep every other start out.
THEOREM OneRestoreAtATime == Spec => []OneRestore
  <1> DEFINE I == Base /\ (Steady => SteadyInv)
  <1>1. Init => I
    BY BaseInit, SteadyInit
  <1>2. I /\ [Next]_vars => I'
    <2> SUFFICES ASSUME I, [Next]_vars
                 PROVE  I'
      OBVIOUS
    <2>1. Base' /\ faults' = faults
      BY BaseStep, FaultsStay
    <2>2. Steady' <=> Steady
      BY <2>1 DEF Steady, Without
    <2>3. Steady => SteadyInv'
      BY SteadyStep
    <2> QED
      BY <2>1, <2>2, <2>3
  <1>3. I => OneRestore
    BY DEF OneRestore, Steady, SteadyInv, Running, Busy, Executing
  <1> QED
    BY <1>1, <1>2, <1>3, PTL DEF Spec

-----------------------------------------------------------------------------
(* The live name is covered, and scratch databases are dropped              *)

\* Only an attempt under way takes a step.
LEMMA TaskRuns ==
  ASSUME NEW k \in Restores, TaskStep(k)
  PROVE  Running(k)
  BY DEF TaskStep, Running, At, PreflightAdmits, PreflightRefuses, VerifyArtifact, TakeDump,
         CreateScratch, LoadArchive, BeginSwap, ExportCatalog, CloseDoors, RenameAway,
         RenameIn, PutBack, CarryOver, CarryOverFails, Throws, MarkFailed, DropScratch,
         DropOldAndExit

\* Who serves a request, takes a backup or lifts maintenance renames nothing.
LEMMA RequestEffect ==
  ASSUME \/ \E r \in Ids : StartRestore(r) \/ RollBack(r)
         \/ \E r \in Backups : BackupCompletes(r)
         \/ LiftMaintenance
  PROVE  Present(Live) /\ UNCHANGED <<named, replaced>>
  <1>1. ASSUME NEW r \in Ids, StartRestore(r) \/ RollBack(r)
        PROVE  Present(Live) /\ UNCHANGED <<named, replaced>>
    BY <1>1 DEF StartRestore, RollBack, Served
  <1> QED
    BY <1>1 DEF BackupCompletes, LiftMaintenance

\* What the step of an attempt does to the live name.
LEMMA TaskLive ==
  ASSUME Base, NEW k \in Restores, TaskStep(k)
  PROVE  \/ RenameAway(k) /\ ~Present(Live)' /\ At(k, "gap")'
         \/ RenameIn(k) /\ Present(Live)'
         \/ PutBack(k) /\ (UNCHANGED named \/ Present(Live)')
         \/ /\ ~RenameAway(k) /\ ~RenameIn(k) /\ ~PutBack(k)
            /\ named'[Live] = named[Live]
  <1>1. CASE RenameAway(k)
    <2>1. named'[Live] = NoDb
      BY <1>1, Naming, RenameEffect DEF RenameAway, Base
    <2>2. task'[k].phase = "gap"
      BY <1>1, GotoEffect DEF RenameAway, Base, Executing
    <2> QED
      BY <1>1, <2>1, <2>2 DEF Present, At
  <1>2. CASE RenameIn(k)
    <2>1. named'[Live] = named[Scratch(k)] /\ named[Scratch(k)] # NoDb
      BY <1>2, Naming, RenameEffect DEF RenameIn, Base, CanRename, Present
    <2> QED
      BY <1>2, <2>1 DEF Present
  <1>3. CASE PutBack(k)
    <2>1. CASE CanRename(Old(k), Live) /\ named' = Rename(Old(k), Live)
      <3>1. named'[Live] = named[Old(k)] /\ named[Old(k)] # NoDb
        BY <2>1, Naming, RenameEffect DEF Base, CanRename, Present
      <3> QED
        BY <1>3, <3>1 DEF Present
    <2> QED
      BY <1>3, <2>1 DEF PutBack
  <1>4. CASE CreateScratch(k)
    BY <1>4, Naming DEF CreateScratch, RenameAway, RenameIn, PutBack, At, Base, TypeOK
  <1>5. CASE DropScratch(k)
    BY <1>5, Naming DEF DropScratch, RenameAway, RenameIn, PutBack, At, Base, TypeOK, Dropped
  <1>6. CASE DropOldAndExit(k)
    BY <1>6, Naming DEF DropOldAndExit, RenameAway, RenameIn, PutBack, At, Base, TypeOK,
                        Dropped
  <1>7. CASE /\ ~RenameAway(k) /\ ~RenameIn(k) /\ ~PutBack(k)
             /\ ~CreateScratch(k) /\ ~DropScratch(k) /\ ~DropOldAndExit(k)
    <2>1. named' = named
      BY <1>7 DEF TaskStep, PreflightAdmits, PreflightRefuses, VerifyArtifact, TakeDump,
                  LoadArchive, BeginSwap, ExportCatalog, CloseDoors, CarryOver,
                  CarryOverFails, Throws, MarkFailed
    <2> QED
      BY <1>7, <2>1
  <1> QED
    BY <1>1, <1>2, <1>3, <1>4, <1>5, <1>6, <1>7

LEMMA CoveredStep ==
  ASSUME Base, Covered, SteadyInv, CoveredInv, [Next]_vars
  PROVE  CoveredInv'
  <1>1. CASE UNCHANGED vars
    <2>1. UNCHANGED <<faults, named, catalog, archive, task, undo, override, replaced,
                      tried, mishaps>>
      BY <1>1 DEF vars
    <2> QED
      BY <2>1 DEF CoveredInv, Present, At
  <1>2. CASE \/ \E r \in Ids : StartRestore(r) \/ RollBack(r)
             \/ \E r \in Backups : BackupCompletes(r)
             \/ LiftMaintenance
    BY <1>2, RequestEffect DEF CoveredInv, Present
  <1>3. ASSUME NEW k \in Restores, TaskStep(k)
        PROVE  CoveredInv'
    <2>1. Running(k) /\ Holds(k) /\ undo.phase = "idle" /\ \A j \in Restores \ {k} : ~Running(j)
      BY <1>3, TaskRuns, Alone
    <2>2. Present(Live) \/ At(k, "gap")
      BY <2>1 DEF CoveredInv, Running, At
    <2>3. CASE At(k, "gap")
      <3>1. ~Present(Live) /\ Present(Old(k))
        BY <2>1, <2>3 DEF Holds
      <3>2. RenameIn(k) \/ PutBack(k)
        BY <1>3, <2>3, <3>1
           DEF TaskStep, At, PreflightAdmits, PreflightRefuses, VerifyArtifact, TakeDump,
               CreateScratch, LoadArchive, BeginSwap, ExportCatalog, CloseDoors, RenameAway,
               CarryOver, CarryOverFails, Throws, MarkFailed, DropScratch, DropOldAndExit
      <3>3. CASE RenameIn(k)
        <4>1. named'[Live] = named[Scratch(k)] /\ named[Scratch(k)] # NoDb
          BY <3>3, Naming, RenameEffect DEF RenameIn, Base, CanRename, Present
        <4> QED
          BY <4>1 DEF CoveredInv, Present
      <3>4. CASE PutBack(k)
        <4>1. CanRename(Old(k), Live) /\ "putBackFails" \notin faults
          BY <3>1 DEF CanRename, Covered, Without
        <4>2. named' = Rename(Old(k), Live)
          BY <3>4, <4>1 DEF PutBack
        <4>3. named'[Live] = named[Old(k)]
          BY <4>1, <4>2, Naming, RenameEffect DEF Base
        <4> QED
          BY <3>1, <4>3 DEF CoveredInv, Present
      <3> QED
        BY <3>2, <3>3, <3>4
    <2>4. CASE Present(Live) /\ ~At(k, "gap")
      <3>1. ~RenameIn(k) /\ ~PutBack(k)
        BY <2>4 DEF RenameIn, PutBack
      <3>2. \/ At(k, "gap")'
            \/ named'[Live] = named[Live]
        BY <1>3, <3>1, TaskLive
      <3> QED
        BY <2>4, <3>2 DEF CoveredInv, Present
    <2> QED
      BY <2>2, <2>3, <2>4
  <1>4. CASE UndoStep
    <2>1. undo.phase # "idle" /\ \A k \in Restores : ~At(k, "gap")
      BY <1>4 DEF UndoStep, UndoClosesDoors, UndoRenamesAway, UndoThrows, UndoPutsBack,
                  UndoRenamesInAndExits, UndoAt, SteadyInv, Undoing, Running, At
    <2>2. CASE UndoClosesDoors \/ UndoThrows
      <3>1. undo.phase # "gap" /\ named' = named
        BY <2>2 DEF UndoClosesDoors, UndoThrows, UndoAt
      <3> QED
        BY <2>1, <3>1 DEF CoveredInv, Present
    <2>3. CASE UndoRenamesAway
      BY <2>3 DEF UndoRenamesAway, UndoGoto, CoveredInv, Base, TypeOK
    <2>4. CASE UndoPutsBack
      <3>1. /\ ~Present(Live) /\ Present(Superseded(undo.from)) /\ undo.from \in Restores
            /\ "putBackFails" \notin faults
        BY <2>4 DEF UndoPutsBack, UndoAt, SteadyInv, Undoing, Base, From, Covered, Without
      <3>2. /\ CanRename(Superseded(undo.from), Live)
            /\ named' = Rename(Superseded(undo.from), Live)
        BY <2>4, <3>1 DEF UndoPutsBack, CanRename
      <3>3. named'[Live] = named[Superseded(undo.from)]
        BY <3>1, <3>2, Naming, RenameEffect DEF Base
      <3> QED
        BY <3>1, <3>3 DEF CoveredInv, Present
    <2>5. CASE UndoRenamesInAndExits
      <3>1. /\ CanRename(Old(undo.from), Live) /\ named' = Rename(Old(undo.from), Live)
            /\ undo.from \in Restores
        BY <2>5 DEF UndoRenamesInAndExits, UndoAt, Base, From
      <3>2. named'[Live] = named[Old(undo.from)]
        BY <3>1, Naming, RenameEffect DEF Base
      <3> QED
        BY <3>1, <3>2 DEF CoveredInv, Present, CanRename
    <2> QED
      BY <1>4, <2>2, <2>3, <2>4, <2>5 DEF UndoStep
  <1>5. CASE Crash
    BY <1>5 DEF Crash, Covered, Without
  <1> QED
    BY <1>1, <1>2, <1>3, <1>4, <1>5 DEF Next

\* No request finds the live name without a database.  The theorem is about
\* GapCovered: the name is free only between two renames, and maintenance is on.
THEOREM NoGapServed == Spec => []GapCovered
  <1> DEFINE I == Base /\ (Steady => SteadyInv) /\ (Covered => CoveredInv)
  <1>1. Init => I
    <2> SUFFICES ASSUME Init
                 PROVE  CoveredInv
      BY BaseInit, SteadyInit
    <2>1. named[Live] = 0
      BY Naming, RestoreAssumption DEF Init, Names
    <2> QED
      BY <2>1, RestoreAssumption DEF CoveredInv, Present, NoDb
  <1>2. I /\ [Next]_vars => I'
    <2> SUFFICES ASSUME I, [Next]_vars
                 PROVE  I'
      OBVIOUS
    <2>1. Base' /\ faults' = faults
      BY BaseStep, FaultsStay
    <2>2. (Steady' <=> Steady) /\ (Covered' <=> Covered) /\ (Covered => Steady)
      BY <2>1 DEF Covered, Steady, Without
    <2>3. (Steady => SteadyInv') /\ (Covered => CoveredInv')
      BY <2>2, SteadyStep, CoveredStep
    <2> QED
      BY <2>1, <2>2, <2>3
  <1>3. I => GapCovered
    <2> SUFFICES ASSUME I, ~Present(Live),
                        Without({"crash", "putBackFails", "overlap", "lifted", "dbFault"})
                 PROVE  override /\ (undo.phase = "gap" \/ \E k \in Restores : At(k, "gap"))
      BY DEF GapCovered
    <2>1. Covered /\ Steady
      BY DEF Covered, Steady, Without
    <2>2. undo.phase = "gap" \/ \E k \in Restores : At(k, "gap")
      BY <2>1 DEF CoveredInv
    <2>3. override
      BY <2>1, <2>2 DEF SteadyInv, Undoing, Holds, At, Late
    <2> QED
      BY <2>2, <2>3
  <1> QED
    BY <1>1, <1>2, <1>3, PTL DEF Spec

\* What the step of an attempt does to the names and flags of scratch databases.
LEMMA TaskScratch ==
  ASSUME Base, NEW k \in Restores, TaskStep(k), ~DropOldAndExit(k)
  PROVE  /\ \A j \in Restores \ {k} : /\ named'[Scratch(j)] = named[Scratch(j)]
                                      /\ task'[j] = task[j]
         /\ \/ CreateScratch(k) /\ task'[k].scratch /\ task'[k].phase = "loading"
            \/ RenameIn(k) /\ named'[Scratch(k)] = NoDb
            \/ /\ DropScratch(k)
               /\ named'[Scratch(k)] = NoDb \/ "dropFails" \in faults
            \/ /\ MarkFailed(k) /\ named' = named /\ task'[k].scratch = task[k].scratch
               /\ task'[k].phase = IF task[k].scratch THEN "dropping" ELSE "ended"
            \/ /\ PreflightRefuses(k) /\ named' = named
            \/ /\ named'[Scratch(k)] = named[Scratch(k)] /\ task'[k].scratch = task[k].scratch
               /\ task'[k].phase \in Executing
               /\ task'[k].phase = "landed" => named'[Scratch(k)] = NoDb
               /\ task'[k].phase = "carried" => task[k].phase = "landed"
  <1>1. CASE CreateScratch(k)
    <2>1. named' = [named EXCEPT ![Scratch(k)] = k]
      BY <1>1 DEF CreateScratch
    <2>2. /\ task'[k].scratch /\ task'[k].phase = "loading"
          /\ \A j \in Restores \ {k} : task'[j] = task[j]
      BY <1>1, TaskParts DEF CreateScratch, Base, TypeOK, Task
    <2>3. \A j \in Restores \ {k} : named'[Scratch(j)] = named[Scratch(j)]
      BY <2>1, Naming DEF Base, TypeOK
    <2> QED
      BY <1>1, <2>2, <2>3
  <1>2. CASE RenameIn(k)
    <2>1. \A j \in Restores \ {k} : task'[j] = task[j]
      BY <1>2, GotoEffect DEF RenameIn, Base, Executing
    <2>2. /\ named'[Scratch(k)] = NoDb
          /\ \A n \in Names \ {Live, Scratch(k)} : named'[n] = named[n]
      BY <1>2, Naming, RenameEffect DEF RenameIn, Base
    <2>3. \A j \in Restores \ {k} : named'[Scratch(j)] = named[Scratch(j)]
      BY <2>2, Naming
    <2> QED
      BY <1>2, <2>1, <2>2, <2>3
  <1>3. CASE DropScratch(k)
    <2>1. \A j \in Restores \ {k} : task'[j] = task[j]
      BY <1>3, GotoEffect DEF DropScratch, Base
    <2>2. CASE named' = Dropped(Scratch(k))
      <3>1. /\ named'[Scratch(k)] = NoDb
            /\ \A n \in Names \ {Scratch(k)} : named'[n] = named[n]
        BY <2>2, Naming, DropEffect DEF Base
      <3>2. \A j \in Restores \ {k} : named'[Scratch(j)] = named[Scratch(j)]
        BY <3>1, Naming
      <3> QED
        BY <1>3, <2>1, <3>1, <3>2
    <2>3. CASE "dropFails" \in faults /\ UNCHANGED named
      BY <1>3, <2>1, <2>3
    <2> QED
      BY <1>3, <2>2, <2>3 DEF DropScratch
  <1>4. CASE MarkFailed(k)
    <2> DEFINE p == IF task[k].scratch THEN "dropping" ELSE "ended"
    <2>1. p \in {"dropping", "ended"} /\ Goto(k, p) /\ named' = named
      BY <1>4 DEF MarkFailed, LeavesScratch
    <2> HIDE DEF p
    <2>2. /\ task'[k].phase = p /\ task'[k].scratch = task[k].scratch
          /\ \A j \in Restores \ {k} : task'[j] = task[j]
      BY <2>1, GotoEffect DEF Base, Executing
    <2> QED
      BY <1>4, <2>1, <2>2 DEF p
  <1>5. CASE PreflightRefuses(k)
    BY <1>5, GotoEffect DEF PreflightRefuses, Base
  <1>6. CASE PreflightAdmits(k) \/ ExportCatalog(k)
    <2>1. named' = named
      BY <1>6 DEF PreflightAdmits, ExportCatalog
    <2>2. /\ task'[k].phase \in {"artifact", "exported"} /\ task'[k].scratch = task[k].scratch
          /\ \A j \in Restores \ {k} : task'[j] = task[j]
      <3>1. CASE PreflightAdmits(k)
        <4>1. PICK mode \in Modes :
                task' = [task EXCEPT ![k].phase = "artifact", ![k].mode = mode]
          BY <3>1 DEF PreflightAdmits
        <4> QED
          BY <4>1, TaskParts DEF Base, TypeOK, Task
      <3>2. CASE ExportCatalog(k)
        BY <3>2, TaskParts DEF ExportCatalog, Base, TypeOK, Task
      <3> QED
        BY <1>6, <3>1, <3>2
    <2> QED
      BY <2>1, <2>2 DEF Executing
  <1>7. CASE RenameAway(k)
    <2>1. /\ task'[k].phase = "gap" /\ task'[k].scratch = task[k].scratch
          /\ \A j \in Restores \ {k} : task'[j] = task[j]
      BY <1>7, GotoEffect DEF RenameAway, Base, Executing
    <2>2. \A n \in Names \ {Live, Old(k)} : named'[n] = named[n]
      BY <1>7, Naming, RenameEffect DEF RenameAway, Base
    <2>3. \A j \in Restores : named'[Scratch(j)] = named[Scratch(j)]
      BY <2>2, Naming
    <2> QED
      BY <2>1, <2>3 DEF Executing
  <1>8. CASE PutBack(k)
    <2>1. /\ task'[k].phase = "failing" /\ task'[k].scratch = task[k].scratch
          /\ \A j \in Restores \ {k} : task'[j] = task[j]
      BY <1>8, GotoEffect DEF PutBack, Base, Executing
    <2>2. \A j \in Restores : named'[Scratch(j)] = named[Scratch(j)]
      <3>1. CASE CanRename(Old(k), Live) /\ named' = Rename(Old(k), Live)
        <4>1. \A n \in Names \ {Live, Old(k)} : named'[n] = named[n]
          BY <3>1, Naming, RenameEffect DEF Base
        <4> QED
          BY <4>1, Naming
      <3> QED
        BY <1>8, <3>1 DEF PutBack
    <2> QED
      BY <2>1, <2>2 DEF Executing
  <1>9. CASE VerifyArtifact(k)
    <2> DEFINE p == IF task[k].mode = "pre_restore_dump" THEN "dumping" ELSE "creating"
    <2>1. p \in {"dumping", "creating"} /\ Goto(k, p) /\ named' = named
      BY <1>9 DEF VerifyArtifact
    <2> HIDE DEF p
    <2>2. /\ task'[k].phase \in {"dumping", "creating"} /\ task'[k].scratch = task[k].scratch
          /\ \A j \in Restores \ {k} : task'[j] = task[j]
      BY <2>1, GotoEffect DEF Base, Executing
    <2> QED
      BY <2>1, <2>2 DEF Executing
  <1>10. CASE \/ TakeDump(k) \/ LoadArchive(k) \/ BeginSwap(k) \/ CloseDoors(k)
              \/ CarryOver(k) \/ CarryOverFails(k) \/ Throws(k)
    <2>1. named' = named /\ (CarryOver(k) => task[k].phase = "landed")
      BY <1>10 DEF TakeDump, LoadArchive, BeginSwap, CloseDoors, CarryOver, CarryOverFails,
                   Throws, At
    <2>2. PICK p \in {"creating", "verifying", "exporting", "quiet", "carried", "failing"} :
            Goto(k, p) /\ (p = "carried" => CarryOver(k))
      BY <1>10 DEF TakeDump, LoadArchive, BeginSwap, CloseDoors, CarryOver, CarryOverFails,
                   Throws
    <2>3. /\ task'[k].phase = p /\ task'[k].scratch = task[k].scratch
          /\ \A j \in Restores \ {k} : task'[j] = task[j]
      BY <2>2, GotoEffect DEF Base, Executing
    <2> QED
      BY <2>1, <2>2, <2>3 DEF Executing
  <1> QED
    BY <1>1, <1>2, <1>3, <1>4, <1>5, <1>6, <1>7, <1>8, <1>9, <1>10 DEF TaskStep

LEMMA TidyStep ==
  ASSUME Base, Tidy, SteadyInv, TidyInv, [Next]_vars
  PROVE  TidyInv'
  <1>1. CASE UNCHANGED vars
    <2>1. UNCHANGED <<faults, named, catalog, archive, task, undo, override, replaced,
                      tried, mishaps>>
      BY <1>1 DEF vars
    <2> QED
      BY <2>1 DEF TidyInv, Present, Busy
  <1>2. ASSUME NEW r \in Ids, StartRestore(r)
        PROVE  TidyInv'
    <2>1. PICK k : k = tried + 1
      OBVIOUS
    <2>2. k \in Restores /\ task[k] = NoTask
      <3>1. k \in Restores /\ k > tried
        BY <1>2, <2>1, RestoreAssumption DEF StartRestore, Base, TypeOK, Restores
      <3> QED
        BY <3>1 DEF Base, Tasks, TaskOK
    <2>3. /\ task' = [task EXCEPT ![k].phase = "checked", ![k].run = r] /\ named' = named
      BY <1>2, <2>1 DEF StartRestore
    <2>4. ~Present(Scratch(k)) /\ \A j \in Restores \ {k} : task'[j] = task[j]
      BY <2>2, <2>3, RowsAreRows DEF TidyInv, Busy, Executing, Base, TypeOK
    <2> QED
      BY <2>3, <2>4 DEF TidyInv, Present, Busy
  <1>3. ASSUME NEW r \in Ids, RollBack(r)
        PROVE  TidyInv'
    <2>1. CASE UNCHANGED <<faults, named, catalog, archive, task, override, replaced,
                           tried, mishaps>>
      BY <2>1 DEF TidyInv, Present, Busy
    <2>2. CASE Rows[r].dump # 0 /\ StartRestore(Rows[r].dump)
      <3>1. Rows[r].dump \in Ids
        <4>1. Rows[r] \in Row
          BY LiveRows DEF Base, Catalogs
        <4> QED
          BY <2>2, <4>1, RestoreAssumption DEF Row, Ids
      <3> QED
        BY <1>2, <2>2, <3>1
    <2> QED
      BY <1>3, <2>1, <2>2 DEF RollBack
  <1>4. CASE (\E r \in Backups : BackupCompletes(r)) \/ LiftMaintenance
    BY <1>4 DEF BackupCompletes, LiftMaintenance, TidyInv, Present, Busy
  <1>5. ASSUME NEW k \in Restores, TaskStep(k)
        PROVE  TidyInv'
    <2>1. Running(k) /\ Holds(k) /\ \A j \in Restores \ {k} : ~Running(j)
      BY <1>5, TaskRuns, Alone
    <2>2. \A j \in Restores \ {k} : ~Present(Scratch(j))
      BY <2>1 DEF TidyInv, Running, Busy, Executing
    <2>3. CASE DropOldAndExit(k)
      <3>1. ~Present(Scratch(k))
        BY <2>3 DEF DropOldAndExit, TidyInv, At
      <3>2. \A j \in Restores : named'[Scratch(j)] = named[Scratch(j)]
        BY <2>3, Naming DEF DropOldAndExit, Dropped, Base, TypeOK
      <3> QED
        BY <2>2, <3>1, <3>2 DEF TidyInv, Present
    <2>4. CASE ~DropOldAndExit(k)
      <3>1. \A j \in Restores \ {k} : ~Present(Scratch(j))'
        BY <1>5, <2>2, <2>4, TaskScratch DEF Present
      <3>2. Present(Scratch(k))' =>
              Busy(k)' /\ task'[k].scratch /\ task'[k].phase \notin {"landed", "carried"}
        <4>1. CASE CreateScratch(k) /\ task'[k].scratch /\ task'[k].phase = "loading"
          BY <4>1 DEF Busy, Executing
        <4>2. CASE named'[Scratch(k)] = NoDb
          BY <4>2 DEF Present
        <4>3. CASE DropScratch(k) /\ (named'[Scratch(k)] = NoDb \/ "dropFails" \in faults)
          BY <4>2, <4>3 DEF Tidy, Without
        <4>4. CASE /\ MarkFailed(k) /\ named' = named /\ task'[k].scratch = task[k].scratch
                   /\ task'[k].phase = IF task[k].scratch THEN "dropping" ELSE "ended"
          BY <4>4 DEF TidyInv, Present, Busy, Executing
        <4>5. CASE PreflightRefuses(k) /\ named' = named
          BY <4>5 DEF PreflightRefuses, At, TidyInv, Present, Busy, Executing
        <4>6. CASE /\ named'[Scratch(k)] = named[Scratch(k)]
                   /\ task'[k].scratch = task[k].scratch
                   /\ task'[k].phase \in Executing
                   /\ task'[k].phase = "landed" => named'[Scratch(k)] = NoDb
                   /\ task'[k].phase = "carried" => task[k].phase = "landed"
          BY <4>6 DEF TidyInv, Present, Busy
        <4> QED
          BY <1>5, <2>4, <4>1, <4>2, <4>3, <4>4, <4>5, <4>6, TaskScratch
      <3> QED
        BY <3>1, <3>2 DEF TidyInv
    <2> QED
      BY <2>3, <2>4
  <1>6. CASE UndoStep
    <2>1. undo.phase # "idle"
      BY <1>6 DEF UndoStep, UndoClosesDoors, UndoRenamesAway, UndoThrows, UndoPutsBack,
                  UndoRenamesInAndExits, UndoAt
    <2>2. \A j \in Restores : ~Present(Scratch(j))
      BY <2>1 DEF SteadyInv, Undoing, TidyInv, Running, Busy, Executing
    <2>3. \A j \in Restores : named'[Scratch(j)] = named[Scratch(j)]
      <3>1. undo.from \in Restores
        BY <2>1 DEF Base, From
      <3>2. CASE UNCHANGED named
        BY <3>2
      <3>3. ASSUME NEW from \in Names, NEW to \in Names, from # to,
                   CanRename(from, to), named' = Rename(from, to),
                   \A j \in Restores : Scratch(j) # from /\ Scratch(j) # to
            PROVE  \A j \in Restores : named'[Scratch(j)] = named[Scratch(j)]
        <4>1. \A n \in Names \ {from, to} : named'[n] = named[n]
          BY <3>3, RenameEffect DEF Base
        <4> QED
          BY <3>3, <4>1, Naming
      <3>4. CASE UndoRenamesAway
        BY <3>1, <3>3, <3>4, Naming DEF UndoRenamesAway
      <3>5. CASE /\ CanRename(Superseded(undo.from), Live)
                 /\ named' = Rename(Superseded(undo.from), Live)
        BY <3>1, <3>3, <3>5, Naming
      <3>6. CASE UndoRenamesInAndExits
        BY <3>1, <3>3, <3>6, Naming DEF UndoRenamesInAndExits
      <3> QED
        BY <1>6, <3>2, <3>4, <3>5, <3>6
           DEF UndoStep, UndoClosesDoors, UndoThrows, UndoPutsBack
    <2> QED
      BY <2>2, <2>3 DEF TidyInv, Present
  <1>7. CASE Crash
    BY <1>7 DEF Crash, Tidy, Without
  <1> QED
    BY <1>1, <1>2, <1>3, <1>4, <1>5, <1>6, <1>7 DEF Next

\* No scratch database outlives its restore.  The theorem is about
\* ScratchDropped: whichever step fails, the attempt knows what it created.
THEOREM NoScratchLeft == Spec => []ScratchDropped
  <1> DEFINE I == Base /\ (Steady => SteadyInv) /\ (Tidy => TidyInv)
  <1>1. Init => I
    <2> SUFFICES ASSUME Init
                 PROVE  TidyInv
      BY BaseInit, SteadyInit
    <2>1. \A k \in Restores : named[Scratch(k)] = NoDb
      BY Naming DEF Init
    <2> QED
      BY <2>1 DEF TidyInv, Present
  <1>2. I /\ [Next]_vars => I'
    <2> SUFFICES ASSUME I, [Next]_vars
                 PROVE  I'
      OBVIOUS
    <2>1. Base' /\ faults' = faults
      BY BaseStep, FaultsStay
    <2>2. (Steady' <=> Steady) /\ (Tidy' <=> Tidy) /\ (Tidy => Steady)
      BY <2>1 DEF Tidy, Steady, Without
    <2>3. (Steady => SteadyInv') /\ (Tidy => TidyInv')
      BY <2>2, SteadyStep, TidyStep
    <2> QED
      BY <2>1, <2>2, <2>3
  <1>3. I => ScratchDropped
    BY DEF ScratchDropped, Tidy, Steady, Without, TidyInv
  <1> QED
    BY <1>1, <1>2, <1>3, PTL DEF Spec

-----------------------------------------------------------------------------
(* The catalog is carried across                                            *)

Exchanging == {"exported", "quiet", "gap", "landed", "carried"}

\* The steps of an exchange.
LEMMA ExchangeSteps ==
  ASSUME NEW k \in Restores, TaskStep(k)
  PROVE  /\ At(k, "exported") => CloseDoors(k)
         /\ At(k, "quiet") => RenameAway(k) \/ Throws(k)
         /\ At(k, "gap") => RenameIn(k) \/ PutBack(k)
         /\ At(k, "landed") => CarryOver(k) \/ CarryOverFails(k)
         /\ At(k, "carried") => DropOldAndExit(k)
         /\ ExportCatalog(k) => At(k, "exporting")
  BY DEF TaskStep, At, PreflightAdmits, PreflightRefuses, VerifyArtifact, TakeDump,
         CreateScratch, LoadArchive, BeginSwap, ExportCatalog, CloseDoors, RenameAway,
         RenameIn, PutBack, CarryOver, CarryOverFails, Throws, MarkFailed, DropScratch,
         DropOldAndExit

\* An exchange begins with the export and with nothing else.
LEMMA ExchangeBegins ==
  ASSUME TypeOK, NEW k \in Restores, TaskStep(k), task[k].phase \notin Exchanging
  PROVE  ExportCatalog(k) \/ task'[k].phase \notin Exchanging
  <1>1. CASE PreflightAdmits(k)
    <2>1. PICK mode \in Modes :
            task' = [task EXCEPT ![k].phase = "artifact", ![k].mode = mode]
      BY <1>1 DEF PreflightAdmits
    <2> QED
      BY <2>1, TaskParts DEF TypeOK, Task, Exchanging
  <1>2. CASE CreateScratch(k)
    BY <1>2, TaskParts DEF CreateScratch, TypeOK, Task, Exchanging
  <1>3. CASE DropOldAndExit(k)
    BY <1>3 DEF DropOldAndExit, At, Exchanging
  <1>4. CASE MarkFailed(k) \/ VerifyArtifact(k)
    <2>1. PICK p \in {"dropping", "ended", "dumping", "creating"} : Goto(k, p)
      BY <1>4 DEF MarkFailed, VerifyArtifact
    <2> QED
      BY <2>1, GotoEffect DEF Executing, Exchanging
  <1>5. CASE \/ PreflightRefuses(k) \/ TakeDump(k) \/ LoadArchive(k) \/ BeginSwap(k)
             \/ Throws(k) \/ DropScratch(k) \/ PutBack(k) \/ CarryOverFails(k)
    <2>1. PICK p \in {"ended", "creating", "verifying", "exporting", "failing"} : Goto(k, p)
      BY <1>5 DEF PreflightRefuses, TakeDump, LoadArchive, BeginSwap, Throws, DropScratch,
                  PutBack, CarryOverFails
    <2> QED
      BY <2>1, GotoEffect DEF Executing, Exchanging
  <1>6. CASE CloseDoors(k) \/ RenameAway(k) \/ RenameIn(k) \/ CarryOver(k)
    BY <1>6 DEF CloseDoors, RenameAway, RenameIn, CarryOver, At, Exchanging
  <1> QED
    BY <1>1, <1>2, <1>3, <1>4, <1>5, <1>6 DEF TaskStep

LEMMA CarriesStep ==
  ASSUME Base, Base', Carrying, SteadyInv, SteadyInv', CarryingInv,
         NEW k \in Restores, TaskStep(k)
  PROVE  Carries(k)'
  <1>1. Running(k) /\ Holds(k) /\ Carries(k)
    BY TaskRuns, Alone DEF CarryingInv
  <1>2. CASE task'[k].phase \notin Exchanging
    BY <1>2 DEF Carries, Exchanging, At
  <1>3. CASE ExportCatalog(k) /\ At(k, "exporting")
    <2>1. /\ task[k].run \in Ids /\ Rows \in Catalogs /\ Rows' = Rows
          /\ Rows[task[k].run] \in Row
      BY <1>3, Underway, LiveRows, RowsAfter DEF At, ExportCatalog, Base, Catalogs
    <2> DEFINE copy == [Rows EXCEPT ![task[k].run] = Audit(k)]
    <2>2. Passes(Rows, copy)
      BY <2>1, Numbers DEF Passes, Audit, Catalogs, Row
    <2>3. task'[k].phase = "exported" /\ task'[k].copy = copy
      <3>1. task' = [task EXCEPT ![k].phase = "exported", ![k].copy = copy]
        BY <1>3 DEF ExportCatalog
      <3> HIDE DEF copy
      <3> QED
        BY <3>1, TaskParts DEF Base, TypeOK, Task
    <2> HIDE DEF copy
    <2>4. Passes(Rows', task'[k].copy)
      BY <2>1, <2>2, <2>3
    <2> QED
      BY <2>3, <2>4 DEF Carries, At
  <1>4. CASE CloseDoors(k)
    <2>1. /\ task'[k].phase = "quiet" /\ task'[k].copy = task[k].copy /\ At(k, "exported")
          /\ Rows' = Rows
      BY <1>4, GotoEffect, RowsAfter DEF CloseDoors, Base, Executing
    <2>2. Passes(Rows', task'[k].copy)
      BY <1>1, <2>1 DEF Carries, At
    <2> QED
      BY <2>1, <2>2 DEF Carries, At
  <1>5. CASE RenameAway(k)
    <2>1. /\ task'[k].phase = "gap" /\ task'[k].copy = task[k].copy /\ At(k, "quiet")
          /\ catalog' = catalog /\ Present(Live)
      BY <1>5, GotoEffect DEF RenameAway, Base, Executing, CanRename
    <2>2. replaced'[k] = LiveDb /\ LiveDb \in Db \ {k} /\ Rows = catalog[LiveDb]
      BY <1>5, <2>1, LiveRows, LoadedApart DEF RenameAway, Base, TypeOK, At, Loading
    <2>3. Passes(catalog'[replaced'[k]], task'[k].copy)
      BY <1>1, <2>1, <2>2 DEF Carries, At
    <2> QED
      BY <2>1, <2>2, <2>3 DEF Carries, At
  <1>6. CASE RenameIn(k)
    <2>1. /\ task'[k].phase = "landed" /\ task'[k].copy = task[k].copy /\ At(k, "gap")
          /\ catalog' = catalog /\ replaced' = replaced
      BY <1>6, GotoEffect DEF RenameIn, Base, Executing
    <2> QED
      BY <1>1, <2>1 DEF Carries, At
  <1>7. CASE CarryOver(k)
    <2>1. /\ task'[k].phase = "carried" /\ At(k, "landed") /\ replaced' = replaced
          /\ LiveDb = k /\ replaced[k] \in Db \ {k}
          /\ Passes(catalog[replaced[k]], task[k].copy)
      BY <1>1, <1>7, GotoEffect DEF CarryOver, Base, Executing, Carries, Holds, At
    <2>2. catalog'[replaced[k]] = catalog[replaced[k]]
      BY <1>7, <2>1, CarryOverEffect
    <2>3. PICK lost \in SUBSET Ids :
            /\ "rowFails" \notin faults => lost = {}
            /\ \A r \in Ids :
                 IF r \in lost \/ task[k].copy[r].status = "absent"
                 THEN catalog'[LiveDb][r].status = catalog[LiveDb][r].status
                 ELSE /\ catalog'[LiveDb][r].status = task[k].copy[r].status
                      /\ catalog'[LiveDb][r].restore = task[k].copy[r].restore
                      /\ catalog'[LiveDb][r].oldDb = task[k].copy[r].oldDb
      BY <1>7, CarryOverEffect
    <2>4. lost = {}
      BY <2>3 DEF Carrying, Without
    <2>5. ASSUME NEW r \in Ids, catalog[replaced[k]][r].status = "completed"
          PROVE  catalog'[k][r].status = "completed"
      <3>1. task[k].copy[r].status = "completed"
        BY <2>1, <2>5 DEF Passes
      <3> QED
        BY <2>1, <2>3, <2>4, <3>1
    <2>6. Passes(catalog'[replaced'[k]], catalog'[k])
      BY <2>1, <2>2, <2>5 DEF Passes
    <2> QED
      BY <2>1, <2>6 DEF Carries, At
  <1>8. CASE Throws(k) \/ PutBack(k) \/ CarryOverFails(k)
    <2>1. task'[k].phase = "failing"
      BY <1>8, GotoEffect DEF Throws, PutBack, CarryOverFails, Base, Executing
    <2> QED
      BY <2>1 DEF Carries, At
  <1>9. CASE DropOldAndExit(k)
    <2>1. task'[k].phase \in {"idle", "ended"}
      BY <1>9, StoppedEffect DEF DropOldAndExit, Base
    <2> QED
      BY <2>1 DEF Carries, At
  <1> QED
    BY <1>2, <1>3, <1>4, <1>5, <1>6, <1>7, <1>8, <1>9, ExchangeSteps, ExchangeBegins
       DEF Exchanging, At, Base

LEMMA CarryingStep ==
  ASSUME Base, Base', Carrying, SteadyInv, SteadyInv', CarryingInv, [Next]_vars
  PROVE  CarryingInv'
  <1>1. CASE UNCHANGED vars
    <2>1. UNCHANGED <<faults, named, catalog, archive, task, undo, override, replaced,
                      tried, mishaps>>
      BY <1>1 DEF vars
    <2>2. Rows' = Rows
      BY <2>1 DEF Rows, LiveDb, Present
    <2> QED
      BY <2>1, <2>2 DEF CarryingInv, Carries, Passes, At
  <1>2. CASE UNCHANGED <<named, catalog, replaced>>
             /\ \A k \in Restores : \/ task'[k] = task[k]
                                    \/ task'[k].phase \notin Exchanging
    <2>1. Rows' = Rows
      BY <1>2, RowsAfter
    <2> SUFFICES ASSUME NEW k \in Restores
                 PROVE  Carries(k)'
      BY DEF CarryingInv
    <2>2. CASE task'[k].phase \notin Exchanging
      BY <2>2 DEF Carries, Exchanging, At
    <2>3. CASE task'[k] = task[k]
      BY <1>2, <2>1, <2>3 DEF CarryingInv, Carries, Passes, At
    <2> QED
      BY <1>2, <2>2, <2>3
  <1>3. ASSUME NEW r \in Ids, StartRestore(r)
        PROVE  CarryingInv'
    <2>1. PICK k : k = tried + 1
      OBVIOUS
    <2>2. /\ UNCHANGED <<named, catalog, replaced>> /\ k \in Restores
          /\ task' = [task EXCEPT ![k].phase = "checked", ![k].run = r]
      BY <1>3, <2>1, RestoreAssumption DEF StartRestore, Base, TypeOK, Restores
    <2>3. /\ task'[k].phase = "checked" /\ \A j \in Restores \ {k} : task'[j] = task[j]
      BY <2>2, TaskParts DEF Base, TypeOK, Task
    <2>4. \A j \in Restores : task'[j] = task[j] \/ task'[j].phase \notin Exchanging
      BY <2>3 DEF Exchanging
    <2> QED
      BY <1>2, <2>2, <2>4
  <1>4. ASSUME NEW r \in Ids, RollBack(r)
        PROVE  CarryingInv'
    <2>1. CASE UNCHANGED <<faults, named, catalog, archive, task, override, replaced,
                           tried, mishaps>>
      BY <1>2, <2>1
    <2>2. CASE Rows[r].dump # 0 /\ StartRestore(Rows[r].dump)
      <3>1. Rows[r].dump \in Ids
        <4>1. Rows[r] \in Row
          BY LiveRows DEF Base, Catalogs
        <4> QED
          BY <2>2, <4>1, RestoreAssumption DEF Row, Ids
      <3> QED
        BY <1>3, <2>2, <3>1
    <2> QED
      BY <1>4, <2>1, <2>2 DEF RollBack
  <1>5. ASSUME NEW r \in Backups, BackupCompletes(r)
        PROVE  CarryingInv'
    <2>1. /\ UNCHANGED <<named, replaced, task>> /\ Present(Live)
          /\ \A k \in Restores : ~Swapping(k)
          /\ catalog' = [catalog EXCEPT ![LiveDb][r] = [NoRow EXCEPT !.status = "completed"]]
      BY <1>5 DEF BackupCompletes, Written, Carrying, Without
    <2>2. LiveDb \in Db /\ r \in Ids
      BY <2>1, LiveRows, RestoreAssumption DEF Base, Backups, Ids
    <2>3. /\ \A d \in Db : d # LiveDb => catalog'[d] = catalog[d]
          /\ catalog'[LiveDb] = [catalog[LiveDb] EXCEPT ![r] =
                                  [NoRow EXCEPT !.status = "completed"]]
      BY <2>1, <2>2 DEF Base, TypeOK
    <2>4. ASSUME NEW d \in Db
          PROVE  Passes(catalog[d], catalog'[d])
      <3>1. [NoRow EXCEPT !.status = "completed"].status = "completed"
        BY DEF NoRow
      <3>2. CASE d # LiveDb
        BY <2>3, <3>2 DEF Passes
      <3>3. CASE d = LiveDb
        <4> PICK old, new, row : /\ old = catalog[d] /\ new = catalog'[d]
                                 /\ row = [NoRow EXCEPT !.status = "completed"]
          OBVIOUS
        <4>1. old \in Catalogs /\ new = [old EXCEPT ![r] = row] /\ row.status = "completed"
          BY <2>2, <2>3, <3>1, <3>3 DEF Base, TypeOK
        <4>2. \A q \in Ids : new[q] = old[q] \/ new[q].status = "completed"
          BY <4>1 DEF Catalogs
        <4> QED
          BY <4>2 DEF Passes
      <3> QED
        BY <3>2, <3>3
    <2> SUFFICES ASSUME NEW k \in Restores
                 PROVE  Carries(k)'
      BY DEF CarryingInv
    <2>5. Carries(k) /\ Holds(k) /\ task[k].phase \notin {"exported", "quiet", "gap"}
      BY <2>1 DEF CarryingInv, SteadyInv, Swapping, Holds, At
    <2>6. CASE task[k].phase \in {"landed", "carried"}
      <3>1. LiveDb = k /\ replaced[k] \in Db \ {k}
        BY <2>5, <2>6 DEF Holds, Carries
      <3>2. catalog'[replaced[k]] = catalog[replaced[k]] /\ Passes(catalog[k], catalog'[k])
        BY <2>3, <2>4, <3>1, Numbers
      <3> QED
        BY <2>1, <2>5, <2>6, <3>1, <3>2 DEF Carries, Passes, At
    <2>7. CASE task[k].phase \notin {"landed", "carried"}
      BY <2>1, <2>5, <2>7 DEF Carries, At
    <2> QED
      BY <2>6, <2>7
  <1>6. ASSUME NEW k \in Restores, TaskStep(k)
        PROVE  CarryingInv'
    <2>1. \A j \in Restores \ {k} : ~Running(j)
      BY <1>6, TaskRuns, Alone
    <2>2. \A j \in Restores \ {k} : task'[j].phase \in {"idle", "ended"}
      <3>1. CASE DropOldAndExit(k)
        BY <3>1, StoppedEffect DEF DropOldAndExit, Base
      <3>2. CASE ~DropOldAndExit(k)
        BY <1>6, <2>1, <3>2, TaskScratch DEF Running
      <3> QED
        BY <3>1, <3>2
    <2>3. \A j \in Restores \ {k} : Carries(j)'
      BY <2>2 DEF Carries, At
    <2>4. Carries(k)'
      BY <1>6, CarriesStep
    <2> QED
      BY <2>3, <2>4 DEF CarryingInv
  <1>7. CASE UndoStep
    <2>1. CASE UndoRenamesInAndExits
      <3>1. \A k \in Restores : task'[k].phase \in {"idle", "ended"}
        BY <2>1, StoppedEffect DEF UndoRenamesInAndExits, Base
      <3> QED
        BY <3>1 DEF CarryingInv, Carries, At
    <2>2. CASE ~UndoRenamesInAndExits
      <3>1. undo.phase # "idle" /\ task' = task
        BY <1>7, <2>2 DEF UndoStep, UndoClosesDoors, UndoRenamesAway, UndoThrows,
                          UndoPutsBack, UndoAt
      <3>2. \A k \in Restores : task'[k].phase \in {"idle", "ended"}
        BY <3>1 DEF SteadyInv, Undoing, Running
      <3> QED
        BY <3>2 DEF CarryingInv, Carries, At
    <2> QED
      BY <2>1, <2>2
  <1>8. CASE Crash
    <2>1. \A k \in Restores : task'[k].phase \in {"idle", "ended"}
      BY <1>8, StoppedEffect DEF Crash, Base
    <2> QED
      BY <2>1 DEF CarryingInv, Carries, At
  <1>9. CASE LiftMaintenance
    BY <1>2, <1>9 DEF LiftMaintenance
  <1> QED
    BY <1>1, <1>3, <1>4, <1>5, <1>6, <1>7, <1>8, <1>9 DEF Next

\* No backup is forgotten by an exchange.  The theorem is about CatalogCarried:
\* nothing completes between the export and the renames, and the carry-over
\* makes every exported row win.
THEOREM BackupsCarried == Spec => []CatalogCarried
  <1> DEFINE I == Base /\ (Steady => SteadyInv) /\ (Carrying => CarryingInv)
  <1>1. Init => I
    <2> SUFFICES ASSUME Init
                 PROVE  CarryingInv
      BY BaseInit, SteadyInit
    <2>1. \A k \in Restores : task[k].phase = "idle"
      BY RowsAreRows DEF Init
    <2> QED
      BY <2>1 DEF CarryingInv, Carries, At
  <1>2. I /\ [Next]_vars => I'
    <2> SUFFICES ASSUME I, [Next]_vars
                 PROVE  I'
      OBVIOUS
    <2>1. Base' /\ faults' = faults
      BY BaseStep, FaultsStay
    <2>2. (Steady' <=> Steady) /\ (Carrying' <=> Carrying) /\ (Carrying => Steady)
      BY <2>1 DEF Carrying, Steady, Without
    <2>3. Steady => SteadyInv'
      BY SteadyStep
    <2>4. Carrying => CarryingInv'
      BY <2>1, <2>2, <2>3, CarryingStep
    <2> QED
      BY <2>1, <2>2, <2>3, <2>4
  <1>3. I => CatalogCarried
    BY DEF CatalogCarried, Carrying, Steady, Without, CarryingInv, Carries, Passes, At
  <1> QED
    BY <1>1, <1>2, <1>3, PTL DEF Spec

-----------------------------------------------------------------------------
(* A restore can be undone                                                  *)

Sure == Without({"crash", "dbFault", "rowFails", "carryFails", "again", "overlap", "lifted"})

\* The attempt whose database was replaced: its exchange is over.
Done(d) == task[d].phase \in {"carried", "ended"}
Gone(m) == m \in Restores /\ Done(m) /\ replaced[m] \in Db

\* A table names an old database only in the row of a completed restore; it
\* knows what the archives of its backups know; and it names what the table
\* of a database named in it does.
Orderly(rows) == \A r \in Ids :
  rows[r].oldDb # 0 => rows[r].restore = "completed" /\ rows[r].status # "absent"
Known(rows) == \A b \in Ids : rows[b].status = "completed" =>
  /\ archive[b].db # NoDb
  /\ \A r \in Ids : archive[b].rows[r].status # "absent" => rows[r].status # "absent"
Descends(rows, m) == \A q \in Ids :
  catalog[replaced[m]][q].oldDb # 0 => rows[q].oldDb = catalog[replaced[m]][q].oldDb
Lineage(rows) == \A r \in Ids :
  rows[r].oldDb # 0 => Gone(rows[r].oldDb) /\ Descends(rows, rows[r].oldDb)
Table(rows) == Orderly(rows) /\ Known(rows) /\ Lineage(rows)

Tables == (\A d \in Db : Table(catalog[d])) /\ (\A b \in Ids : Table(archive[b].rows))

\* A database has its audit row, and with it a dump or the database before.
Dumped(k, rows, d) ==
  /\ rows[task[k].run].dump = DumpOf(k) /\ rows[DumpOf(k)].status = "completed"
  /\ archive[DumpOf(k)].db = d
Good(d) == d # 0 =>
  LET row == catalog[d][task[d].run] IN
  /\ Done(d) /\ replaced[d] \in Db
  /\ row.restore = "completed" /\ row.status # "absent"
  /\ row.oldDb = d \/ (row.oldDb = 0 /\ Dumped(d, catalog[d], replaced[d]))
Grounded(d) == \A r \in Ids :
  LET m == catalog[d][r].oldDb IN m # 0 => named[Old(m)] = replaced[m]
Sound(d) == d \in Db /\ Good(d) /\ Grounded(d)

Replacing == \A m \in Restores : replaced[m] \in Db =>
  /\ Good(replaced[m]) /\ \A q \in Ids : catalog[replaced[m]][q].oldDb # m

Filed == \A b \in Ids : archive[b].db # NoDb => b <= NBackups + tried

\* What an attempt under way has made sure of.
Undumped(k) ==
  /\ \A d \in Db : catalog[d][DumpOf(k)].status = "absent"
  /\ \A b \in Ids : archive[b].rows[DumpOf(k)].status = "absent"
  /\ archive[DumpOf(k)].db = NoDb
Named0(k) == IF task[k].mode = "retain_database" THEN k ELSE 0
CopyOf(k, d) ==
  LET copy == task[k].copy IN
  /\ d \in Db \ {k} /\ Orderly(copy) /\ Known(copy)
  /\ copy[task[k].run].restore = "completed" /\ copy[task[k].run].status # "absent"
  /\ copy[task[k].run].oldDb = Named0(k) /\ catalog[d][task[k].run].oldDb = 0
  /\ \A q \in Ids \ {task[k].run} : copy[q].oldDb = catalog[d][q].oldDb
  /\ task[k].mode = "pre_restore_dump" => Dumped(k, copy, d)
Loaded(k, rows) == \A r \in Ids : catalog[k][r].oldDb # 0 => rows[r].status # "absent"

Attempt(k) ==
  /\ Running(k) => k = tried
  /\ task[k].phase \in {"checked", "artifact", "dumping"} => Undumped(k)
  /\ task[k].phase \in {"checked"} \cup (Early \ {"exported"}) =>
       Rows[task[k].run].status = "completed"
  /\ task[k].phase \in {"checked", "quiet", "failing"} \cup Early /\ Present(Live) =>
       Rows[task[k].run].restore # "completed"
  /\ At(k, "gap") => catalog[replaced[k]][task[k].run].restore # "completed"
  /\ At(k, "dumping") => task[k].mode = "pre_restore_dump"
  /\ task[k].phase \in {"creating", "loading", "verifying", "exporting"}
     /\ task[k].mode = "pre_restore_dump" => Dumped(k, Rows, LiveDb)
  /\ task[k].phase \in {"verifying", "exporting"} => Loaded(k, Rows)
  /\ task[k].phase \in {"exported", "quiet", "gap", "landed"} => Loaded(k, task[k].copy)
  /\ task[k].phase \in {"exported", "quiet"} => CopyOf(k, LiveDb)
  /\ task[k].phase \in {"gap", "landed"} => CopyOf(k, replaced[k]) /\ Sound(replaced[k])
  /\ task[k].phase \in {"landed", "carried"} => Present(Old(k))
  /\ At(k, "carried") /\ task[k].mode = "pre_restore_dump" =>
       \A r \in Ids : catalog[k][r].oldDb # k

LiveSound == Present(Live) /\ (\A k \in Restores : ~At(k, "landed")) => Sound(LiveDb)
UndoSound == undo.phase # "idle" =>
  /\ Sound(replaced[undo.from]) /\ Present(Old(undo.from))
  /\ undo.phase = "gap" => Sound(named[Superseded(undo.from)])

SureInv ==
  /\ Tables /\ Replacing /\ Filed /\ LiveSound /\ UndoSound
  /\ \A k \in Restores : Attempt(k)

\* What a step may do to a table other than one being loaded: take in backups
\* just completed, and write to rows of no completed restore.
NewBackup(d, b) ==
  /\ d = LiveDb /\ catalog[d][b].oldDb = 0
  /\ catalog'[d][b].status = "completed" /\ catalog'[d][b].restore # "completed"
  /\ archive'[b] = [db |-> LiveDb, rows |-> [Rows EXCEPT ![b].status = "incomplete"]]
Firm(d) == \A q \in Ids :
  /\ catalog'[d][q].oldDb = catalog[d][q].oldDb
  /\ catalog'[d][q].status = catalog[d][q].status \/ (catalog[d][q].status = "absent" /\ NewBackup(d, q))
  /\ catalog[d][q].restore = "completed" /\ catalog[d][q].status # "absent"
       => catalog'[d][q] = catalog[d][q]

\* A status written to the row of an attempt's run leaves every table firm.
LEMMA StatusFirm ==
  ASSUME Base, NEW r \in Ids, NEW s \in {"failed"} \cup ActiveStatuses \cup Refusals,
         WriteStatus(r, s), Present(Live) => Rows[r].restore # "completed"
  PROVE  \A d \in Db : Firm(d)
  <1>1. /\ \A d \in Db, q \in Ids : catalog'[d][q].status = catalog[d][q].status
        /\ \A d \in Db, q \in Ids : d # LiveDb \/ q # r => catalog'[d][q] = catalog[d][q]
        /\ \A d \in Db, q \in Ids : catalog'[d][q].oldDb = catalog[d][q].oldDb
    BY WriteStatusEffect DEF Base
  <1>2. \A d \in Db : d = LiveDb => Present(Live) /\ Rows = catalog[d]
    BY Numbers, RestoreAssumption DEF Rows, Present, LiveDb, Db, NoDb
  <1> QED
    BY <1>1, <1>2 DEF Firm

\* The rows of an attempt's run, while the attempt is not past its renames.
LEMMA RunRow ==
  ASSUME Base, SureInv, NEW k \in Restores, Present(Live),
         task[k].phase \in {"checked", "quiet", "failing"} \cup Early
  PROVE  /\ task[k].run \in Ids /\ LiveDb \in Db /\ Rows = catalog[LiveDb]
         /\ Rows[task[k].run].restore # "completed" /\ Rows[task[k].run].oldDb = 0
  <1>1. task[k].run \in Ids /\ LiveDb \in Db /\ Rows = catalog[LiveDb]
    BY Underway, LiveRows DEF Early, Base
  <1>2. Rows[task[k].run].restore # "completed"
    BY DEF SureInv, Attempt
  <1> QED
    BY <1>1, <1>2 DEF SureInv, Tables, Table, Orderly

LEMMA PreflightFirm ==
  ASSUME Base, SureInv, SteadyInv, NEW k \in Restores, PreflightAdmits(k)
  PROVE  \A d \in Db : Firm(d)
  <1> PICK r : r = task[k].run
    OBVIOUS
  <1>1. At(k, "checked") /\ Holds(k)
    BY Alone DEF PreflightAdmits, At, Running
  <1>2. /\ r \in Ids /\ LiveDb \in Db /\ Rows = catalog[LiveDb]
        /\ Rows[r].restore # "completed" /\ Rows[r].oldDb = 0
    BY <1>1, RunRow DEF Holds, At
  <1> DEFINE row == [Rows[r] EXCEPT !.restore = "restoring", !.oldDb = 0]
  <1>3. row \in Row /\ row.status = Rows[r].status /\ row.oldDb = 0
    <2>1. Rows[r] \in Row
      BY <1>2, LiveRows DEF Base, Catalogs
    <2> QED
      BY <2>1, Numbers DEF Row, ActiveStatuses
  <1>4. Write(r, row)
    BY DEF PreflightAdmits
  <1> HIDE DEF row
  <1>5. /\ \A d \in Db, q \in Ids : catalog'[d][q].status = catalog[d][q].status
        /\ \A d \in Db, q \in Ids : d # LiveDb \/ q # r => catalog'[d][q] = catalog[d][q]
        /\ \A d \in Db : catalog'[d][r] \in {catalog[d][r], row}
    BY <1>2, <1>3, <1>4, WriteEffect DEF Base
  <1>6. \A d \in Db, q \in Ids : catalog'[d][q].oldDb = catalog[d][q].oldDb
    BY <1>2, <1>3, <1>5
  <1> QED
    BY <1>2, <1>5, <1>6 DEF Firm

\* The dump of an attempt, in the table and in the archive.
LEMMA TakeDumpEffect ==
  ASSUME Base, NEW k \in Restores, TakeDump(k)
  PROVE  /\ LiveDb \in Db /\ Present(Live) /\ Rows = catalog[LiveDb]
         /\ \A d \in Db : d # LiveDb => catalog'[d] = catalog[d]
         /\ \A q \in Ids \ {DumpOf(k), task[k].run} :
              catalog'[LiveDb][q] = catalog[LiveDb][q]
         /\ catalog'[LiveDb][DumpOf(k)] = [NoRow EXCEPT !.status = "completed"]
         /\ \E n : catalog'[LiveDb][task[k].run] =
                     [catalog[LiveDb][task[k].run] EXCEPT !.dump = n]
                   /\ ("dbFault" \notin faults => n = DumpOf(k))
         /\ archive' = [archive EXCEPT ![DumpOf(k)] =
              [db |-> LiveDb, rows |-> [Rows EXCEPT ![DumpOf(k)].status = "incomplete"]]]
  <1> PICK r, d : r = task[k].run /\ d = DumpOf(k)
    OBVIOUS
  <1> DEFINE done == [NoRow EXCEPT !.status = "completed"]
             dumped == [Rows EXCEPT ![d] = done]
  <1>1. /\ r \in Ids /\ r # d /\ d \in Ids
        /\ LiveDb \in Db /\ Rows = catalog[LiveDb] /\ Rows \in Catalogs /\ Present(Live)
    BY Underway, LiveRows, Numbers DEF TakeDump, At, Base
  <1>2. done \in Row
    BY RowsAreRows DEF Row
  <1>3. /\ dumped \in Catalogs /\ dumped[d] = done
        /\ \A q \in Ids \ {d} : dumped[q] = Rows[q]
    BY <1>1, <1>2 DEF Catalogs
  <1>4. \/ catalog' = [catalog EXCEPT ![LiveDb] = [dumped EXCEPT ![r].dump = d]]
        \/ "dbFault" \in faults /\ catalog' = [catalog EXCEPT ![LiveDb] = dumped]
    BY DEF TakeDump
  <1> HIDE DEF done, dumped
  <1>5. \E n : /\ catalog' = [catalog EXCEPT ![LiveDb] = [dumped EXCEPT ![r].dump = n]]
               /\ ("dbFault" \notin faults => n = d)
    <2>1. dumped = [dumped EXCEPT ![r].dump = dumped[r].dump]
      BY <1>1, <1>3 DEF Catalogs, Row
    <2> QED
      BY <1>4, <2>1
  <1>6. PICK n : /\ catalog' = [catalog EXCEPT ![LiveDb] = [dumped EXCEPT ![r].dump = n]]
                 /\ ("dbFault" \notin faults => n = d)
    BY <1>5
  <1>7. /\ \A b \in Db : b # LiveDb => catalog'[b] = catalog[b]
        /\ catalog'[LiveDb] = [dumped EXCEPT ![r].dump = n]
    BY <1>1, <1>6 DEF Base, TypeOK
  <1>8. /\ \A q \in Ids \ {r} : catalog'[LiveDb][q] = dumped[q]
        /\ catalog'[LiveDb][r] = [dumped[r] EXCEPT !.dump = n]
    BY <1>1, <1>3, <1>7 DEF Catalogs
  <1>9. archive' = [archive EXCEPT ![d] =
              [db |-> LiveDb, rows |-> [Rows EXCEPT ![d].status = "incomplete"]]]
    BY DEF TakeDump
  <1> QED
    BY <1>1, <1>3, <1>6, <1>7, <1>8, <1>9 DEF done

LEMMA TakeDumpFirm ==
  ASSUME Base, SureInv, SteadyInv, NEW k \in Restores, TakeDump(k)
  PROVE  \A d \in Db : Firm(d)
  <1> PICK r, b : r = task[k].run /\ b = DumpOf(k)
    OBVIOUS
  <1>1. /\ LiveDb \in Db /\ Present(Live) /\ Rows = catalog[LiveDb]
        /\ \A d \in Db : d # LiveDb => catalog'[d] = catalog[d]
        /\ \A q \in Ids \ {b, r} : catalog'[LiveDb][q] = catalog[LiveDb][q]
        /\ catalog'[LiveDb][b] = [NoRow EXCEPT !.status = "completed"]
        /\ archive' = [archive EXCEPT ![b] =
              [db |-> LiveDb, rows |-> [Rows EXCEPT ![b].status = "incomplete"]]]
    BY TakeDumpEffect
  <1>2. PICK n : catalog'[LiveDb][r] = [catalog[LiveDb][r] EXCEPT !.dump = n]
    BY TakeDumpEffect
  <1>3. At(k, "dumping") /\ b \in Ids /\ r \in Ids /\ Rows[r].restore # "completed"
    BY <1>1, RunRow, Numbers DEF TakeDump, At, Early
  <1>4. /\ catalog[LiveDb][b].status = "absent" /\ Orderly(catalog[LiveDb])
    BY <1>1, <1>3 DEF SureInv, Attempt, Undumped, At, Tables, Table
  <1>5. catalog[LiveDb][b].oldDb = 0
    BY <1>3, <1>4 DEF Orderly
  <1>6. [NoRow EXCEPT !.status = "completed"].oldDb = 0
        /\ [NoRow EXCEPT !.status = "completed"].status = "completed"
        /\ [NoRow EXCEPT !.status = "completed"].restore = "none"
    BY DEF NoRow
  <1>7. archive'[b] = [db |-> LiveDb, rows |-> [Rows EXCEPT ![b].status = "incomplete"]]
    BY <1>1, <1>3 DEF Base, TypeOK
  <1>8. NewBackup(LiveDb, b)
    BY <1>1, <1>5, <1>6, <1>7 DEF NewBackup
  <1>9. catalog[LiveDb][r] \in Row
    BY <1>1, <1>3 DEF Base, TypeOK, Catalogs
  <1>10. /\ catalog'[LiveDb][r].oldDb = catalog[LiveDb][r].oldDb
         /\ catalog'[LiveDb][r].status = catalog[LiveDb][r].status
    BY <1>2, <1>9 DEF Row
  <1>11. Firm(LiveDb)
    BY <1>1, <1>3, <1>4, <1>5, <1>6, <1>8, <1>10, ZenonT(40) DEF Firm
  <1>12. \A d \in Db : d # LiveDb => Firm(d)
    BY <1>1 DEF Firm
  <1> QED
    BY <1>11, <1>12

LEMMA BackupFirm ==
  ASSUME Base, SureInv, NEW r \in Backups, BackupCompletes(r)
  PROVE  /\ \A d \in Db : Firm(d)
         /\ r \in Ids /\ LiveDb \in Db /\ Rows = catalog[LiveDb] /\ archive[r].db = NoDb
         /\ \A d \in Db : d # LiveDb => catalog'[d] = catalog[d]
         /\ \A q \in Ids \ {r} : catalog'[LiveDb][q] = catalog[LiveDb][q]
         /\ catalog'[LiveDb][r].restore = "none" /\ catalog'[LiveDb][r].oldDb = 0
         /\ \A b \in Ids \ {r} : archive'[b] = archive[b]
         /\ archive'[r] = [db |-> LiveDb, rows |-> [Rows EXCEPT ![r].status = "incomplete"]]
  <1>1. /\ r \in Ids /\ LiveDb \in Db /\ Rows = catalog[LiveDb] /\ Rows[r].status = "absent"
        /\ archive[r] = NoArchive
    BY LiveRows, RestoreAssumption DEF Base, BackupCompletes, Backups, Ids
  <1>2. /\ catalog' = [catalog EXCEPT ![LiveDb][r] = [NoRow EXCEPT !.status = "completed"]]
        /\ archive' = [archive EXCEPT ![r] =
              [db |-> LiveDb, rows |-> [Rows EXCEPT ![r].status = "incomplete"]]]
    BY DEF BackupCompletes, Written
  <1>3. [NoRow EXCEPT !.status = "completed"].oldDb = 0
        /\ [NoRow EXCEPT !.status = "completed"].status = "completed"
        /\ [NoRow EXCEPT !.status = "completed"].restore = "none"
    BY DEF NoRow
  <1>4. /\ \A d \in Db : d # LiveDb => catalog'[d] = catalog[d]
        /\ \A q \in Ids \ {r} : catalog'[LiveDb][q] = catalog[LiveDb][q]
        /\ catalog'[LiveDb][r] = [NoRow EXCEPT !.status = "completed"]
    BY <1>1, <1>2 DEF Base, TypeOK, Catalogs
  <1>5. /\ archive'[r] = [db |-> LiveDb, rows |-> [Rows EXCEPT ![r].status = "incomplete"]]
        /\ \A b \in Ids \ {r} : archive'[b] = archive[b]
    BY <1>1, <1>2 DEF Base, TypeOK
  <1>6. catalog[LiveDb][r].oldDb = 0
    BY <1>1 DEF SureInv, Tables, Table, Orderly
  <1>7. NewBackup(LiveDb, r)
    BY <1>1, <1>3, <1>4, <1>5, <1>6 DEF NewBackup
  <1>8. Firm(LiveDb)
    BY <1>1, <1>3, <1>4, <1>6, <1>7 DEF Firm
  <1>9. \A d \in Db : d # LiveDb => Firm(d)
    BY <1>4 DEF Firm
  <1> QED
    BY <1>1, <1>3, <1>4, <1>5, <1>8, <1>9 DEF NoArchive

LEMMA LoadFirm ==
  ASSUME Base, SureInv, SteadyInv, Sure, NEW k \in Restores, LoadArchive(k)
  PROVE  /\ catalog'[k] = archive[task[k].run].rows
         /\ \A d \in Db \ {k} : Firm(d)
         /\ LiveDb \in Db \ {k}
         /\ \A q \in Ids : /\ catalog'[LiveDb][q].status = catalog[LiveDb][q].status
                           /\ catalog'[LiveDb][q].dump = catalog[LiveDb][q].dump
         /\ catalog'[LiveDb][task[k].run].restore # "completed"
  <1> PICK r : r = task[k].run
    OBVIOUS
  <1> DEFINE loaded == [catalog EXCEPT ![k] = archive[r].rows]
  <1>1. At(k, "loading") /\ Holds(k)
    BY Alone DEF LoadArchive, At, Running
  <1>2. /\ Present(Live) /\ r \in Ids /\ LiveDb \in Db /\ Rows = catalog[LiveDb]
        /\ Rows[r].restore # "completed" /\ k \in Db
    BY <1>1, RunRow, Numbers DEF Holds, Early, At, Taken
  <1>3. LiveDb # k
    BY <1>1, <1>2, LoadedApart DEF At, Loading
  <1>4. catalog' = [loaded EXCEPT ![LiveDb][r].restore = "verifying"] \/ catalog' = loaded
    BY DEF LoadArchive
  <1>5. /\ DOMAIN loaded = Db /\ loaded[k] = archive[r].rows
        /\ \A d \in Db \ {k} : loaded[d] = catalog[d]
    BY <1>2 DEF Base, TypeOK
  <1> HIDE DEF loaded
  <1>6. /\ catalog'[k] = archive[r].rows
        /\ \A d \in Db \ {k, LiveDb} : catalog'[d] = catalog[d]
        /\ \/ catalog'[LiveDb] = catalog[LiveDb]
           \/ catalog'[LiveDb] = [catalog[LiveDb] EXCEPT ![r].restore = "verifying"]
    BY <1>2, <1>3, <1>4, <1>5
  <1>7. \A q \in Ids : /\ q # r => catalog'[LiveDb][q] = catalog[LiveDb][q]
                       /\ catalog'[LiveDb][q].oldDb = catalog[LiveDb][q].oldDb
                       /\ catalog'[LiveDb][q].dump = catalog[LiveDb][q].dump
                       /\ catalog'[LiveDb][q].status = catalog[LiveDb][q].status
    <2>1. /\ catalog[LiveDb] \in [Ids -> Row]
          /\ [catalog[LiveDb][r] EXCEPT !.restore = "verifying"].oldDb = catalog[LiveDb][r].oldDb
          /\ [catalog[LiveDb][r] EXCEPT !.restore = "verifying"].dump = catalog[LiveDb][r].dump
          /\ [catalog[LiveDb][r] EXCEPT !.restore = "verifying"].status = catalog[LiveDb][r].status
      BY <1>2 DEF Base, TypeOK, Catalogs, Row
    <2>2. \/ catalog'[LiveDb] = catalog[LiveDb]
          \/ catalog'[LiveDb] = [catalog[LiveDb] EXCEPT ![r] =
                                  [catalog[LiveDb][r] EXCEPT !.restore = "verifying"]]
      BY <1>6, <2>1
    <2> QED
      BY <1>2, <2>1, <2>2
  <1>8. catalog'[LiveDb][r].restore # "completed"
    BY <1>2, <1>6 DEF Base, TypeOK, Catalogs, Row
  <1>9. Firm(LiveDb)
    BY <1>2, <1>7 DEF Firm
  <1>10. \A d \in Db \ {k, LiveDb} : Firm(d)
    BY <1>6 DEF Firm
  <1> QED
    BY <1>2, <1>3, <1>6, <1>7, <1>8, <1>9, <1>10

LEMMA UnchangedFirm ==
  ASSUME catalog' = catalog
  PROVE  \A d \in Db : Firm(d)
  BY DEF Firm

\* An attempt's step to a table: firm, but for its own while it is loaded.
LEMMA TaskFirm ==
  ASSUME Base, SureInv, SteadyInv, Sure, NEW k \in Restores, TaskStep(k)
  PROVE  /\ \A d \in Db \ {k} : Firm(d)
         /\ ~LoadArchive(k) /\ ~CarryOver(k) => Firm(k)
         /\ LoadArchive(k) \/ CarryOver(k) => ~Done(k)
  <1>1. CASE LoadArchive(k)
    BY <1>1, LoadFirm DEF Done, LoadArchive, At
  <1>2. CASE CarryOver(k)
    <2>1. LiveDb = k /\ ~Done(k)
      BY <1>2, TaskRuns, Alone DEF CarryOver, Holds, At, Done
    <2>2. \A d \in Db \ {k} : catalog'[d] = catalog[d]
      BY <1>2, <2>1, CarryOverEffect
    <2> QED
      BY <1>2, <2>1, <2>2 DEF Firm
  <1>3. CASE PreflightAdmits(k)
    BY <1>3, PreflightFirm, Numbers DEF PreflightAdmits, LoadArchive, CarryOver, At
  <1>4. CASE TakeDump(k)
    BY <1>4, TakeDumpFirm, Numbers DEF TakeDump, LoadArchive, CarryOver, At
  <1>5. CASE PreflightRefuses(k) \/ BeginSwap(k) \/ MarkFailed(k)
    <2>1. PICK s \in {"failed"} \cup ActiveStatuses \cup Refusals : WriteStatus(task[k].run, s)
      BY <1>5 DEF PreflightRefuses, BeginSwap, MarkFailed, ActiveStatuses
    <2>2. /\ task[k].phase \in {"checked", "failing"} \cup Early
          /\ task[k].phase \notin {"loading", "landed"}
      BY <1>5 DEF PreflightRefuses, BeginSwap, MarkFailed, At, Early
    <2>3. task[k].run \in Ids /\ (Present(Live) => Rows[task[k].run].restore # "completed")
      BY <2>2, RunRow, Underway DEF Early
    <2>4. \A d \in Db : Firm(d)
      BY <2>1, <2>3, StatusFirm
    <2> QED
      BY <2>2, <2>4, Numbers DEF LoadArchive, CarryOver, At
  <1>6. CASE /\ ~LoadArchive(k) /\ ~CarryOver(k) /\ ~PreflightAdmits(k) /\ ~TakeDump(k)
             /\ ~PreflightRefuses(k) /\ ~BeginSwap(k) /\ ~MarkFailed(k)
    <2>1. catalog' = catalog
      BY <1>6 DEF TaskStep, VerifyArtifact, CreateScratch, ExportCatalog, CloseDoors, RenameAway,
                  RenameIn, PutBack, CarryOverFails, Throws, DropScratch, DropOldAndExit
    <2> QED
      BY <1>6, <2>1, UnchangedFirm, Numbers
  <1> QED
    BY <1>1, <1>2, <1>3, <1>4, <1>5, <1>6

\* Archives are written once; what an attempt past its exchange has replaced,
\* and its run, stay.
Steadfast ==
  /\ \A b \in Ids : archive[b].db # NoDb => archive'[b] = archive[b]
  /\ \A d \in Restores : Done(d) =>
       Done(d)' /\ replaced'[d] = replaced[d] /\ task'[d].run = task[d].run
  /\ \A d \in Db : (d # 0 => Done(d)) => Firm(d)

LEMMA SteadfastStep ==
  ASSUME Base, SureInv, SteadyInv, Sure, [Next]_vars
  PROVE  Steadfast
  <1>1. ASSUME UNCHANGED <<catalog, archive, replaced>>,
               \A d \in Restores : Done(d) =>
                 task'[d].phase \in {"carried", "ended"} /\ task'[d].run = task[d].run
        PROVE  Steadfast
    BY <1>1, UnchangedFirm DEF Steadfast, Done
  <1>2. CASE UNCHANGED vars
    <2>1. UNCHANGED <<catalog, archive, replaced, task>>
      BY <1>2 DEF vars
    <2> QED
      BY <1>1, <2>1 DEF Done
  <1>3. ASSUME NEW r \in Ids, StartRestore(r)
        PROVE  Steadfast
    <2>1. PICK k : k = tried + 1
      OBVIOUS
    <2>2. k \in Restores /\ task[k] = NoTask
      <3>1. k \in Restores /\ k > tried
        BY <1>3, <2>1, RestoreAssumption DEF StartRestore, Base, TypeOK, Restores
      <3> QED
        BY <3>1 DEF Base, Tasks, TaskOK
    <2>3. /\ task' = [task EXCEPT ![k].phase = "checked", ![k].run = r]
          /\ UNCHANGED <<catalog, archive, replaced>>
      BY <1>3, <2>1 DEF StartRestore
    <2>4. ~Done(k) /\ \A j \in Restores \ {k} : task'[j] = task[j]
      BY <2>2, <2>3, RowsAreRows DEF Done, Base, TypeOK
    <2>5. \A d \in Restores : Done(d) =>
                 task'[d].phase \in {"carried", "ended"} /\ task'[d].run = task[d].run
      BY <2>4 DEF Done
    <2> QED
      BY <1>1, <2>3, <2>5
  <1>4. ASSUME NEW r \in Ids, RollBack(r)
        PROVE  Steadfast
    <2>1. CASE UNCHANGED <<faults, named, catalog, archive, task, override, replaced,
                           tried, mishaps>>
      BY <1>1, <2>1 DEF Done
    <2>2. CASE Rows[r].dump # 0 /\ StartRestore(Rows[r].dump)
      <3>1. Rows[r].dump \in Ids
        <4>1. Rows[r] \in Row
          BY LiveRows DEF Base, Catalogs
        <4> QED
          BY <2>2, <4>1, RestoreAssumption DEF Row, Ids
      <3> QED
        BY <1>3, <2>2, <3>1
    <2> QED
      BY <1>4, <2>1, <2>2 DEF RollBack
  <1>5. ASSUME NEW r \in Backups, BackupCompletes(r)
        PROVE  Steadfast
    <2>1. UNCHANGED <<replaced, task>>
      BY <1>5 DEF BackupCompletes
    <2>2. /\ \A d \in Db : Firm(d)
          /\ archive[r].db = NoDb /\ \A b \in Ids \ {r} : archive'[b] = archive[b]
      BY <1>5, BackupFirm
    <2> QED
      BY <2>1, <2>2 DEF Steadfast, Done
  <1>6. ASSUME NEW k \in Restores, TaskStep(k)
        PROVE  Steadfast
    <2>1. CASE DropOldAndExit(k)
      <3>1. UNCHANGED <<catalog, archive, replaced>> /\ task' = Stopped
        BY <2>1 DEF DropOldAndExit
      <3>2. \A d \in Restores : /\ task'[d].run = task[d].run
                                /\ task[d].phase # "idle" => task'[d].phase = "ended"
        BY <3>1, StoppedEffect DEF Base
      <3> QED
        BY <1>1, <3>1, <3>2 DEF Done
    <2>2. CASE ~DropOldAndExit(k)
      <3>1. /\ ~Done(k) /\ \A j \in Restores \ {k} : task'[j] = task[j]
        BY <1>6, <2>2, TaskScratch, TaskRuns, ExchangeSteps DEF Done, Running, At
      <3>2. \A j \in Restores \ {k} : replaced'[j] = replaced[j]
        <4>1. CASE RenameAway(k)
          BY <4>1 DEF RenameAway, Base, TypeOK
        <4>2. CASE ~RenameAway(k)
          <5>1. replaced' = replaced
            BY <1>6, <2>2, <4>2
               DEF TaskStep, PreflightAdmits, PreflightRefuses, VerifyArtifact, TakeDump,
                   CreateScratch, LoadArchive, BeginSwap, ExportCatalog, CloseDoors, RenameIn,
                   PutBack, CarryOver, CarryOverFails, Throws, MarkFailed, DropScratch
          <5> QED
            BY <5>1
        <4> QED
          BY <4>1, <4>2
      <3>3. \A b \in Ids : archive[b].db # NoDb => archive'[b] = archive[b]
        <4>1. CASE TakeDump(k)
          <5>1. /\ archive' = [archive EXCEPT ![DumpOf(k)] =
                     [db |-> LiveDb, rows |-> [Rows EXCEPT ![DumpOf(k)].status = "incomplete"]]]
                /\ archive[DumpOf(k)].db = NoDb
            BY <4>1, TakeDumpEffect DEF TakeDump, SureInv, Attempt, Undumped, At
          <5> QED
            BY <5>1 DEF Base, TypeOK
        <4>2. CASE ~TakeDump(k)
          <5>1. archive' = archive
            BY <1>6, <2>2, <4>2
               DEF TaskStep, PreflightAdmits, PreflightRefuses, VerifyArtifact, RenameAway,
                   CreateScratch, LoadArchive, BeginSwap, ExportCatalog, CloseDoors, RenameIn,
                   PutBack, CarryOver, CarryOverFails, Throws, MarkFailed, DropScratch
          <5> QED
            BY <5>1
        <4> QED
          BY <4>1, <4>2
      <3>4. \A d \in Db : (d # 0 => Done(d)) => Firm(d)
        <4>1. k # 0
          BY Numbers, RestoreAssumption DEF Restores
        <4> QED
          BY <1>6, <3>1, <4>1, TaskFirm
      <3> QED
        BY <3>1, <3>2, <3>3, <3>4 DEF Steadfast, Done
    <2> QED
      BY <2>1, <2>2
  <1>7. CASE UndoStep
    <2>1. UNCHANGED <<catalog, archive, replaced>>
      BY <1>7 DEF UndoStep
    <2>2. task' = task \/ task' = Stopped
      BY <1>7 DEF UndoStep, UndoClosesDoors, UndoRenamesAway, UndoThrows, UndoPutsBack,
                  UndoRenamesInAndExits
    <2>3. \A d \in Restores : Done(d) =>
                 task'[d].phase \in {"carried", "ended"} /\ task'[d].run = task[d].run
      BY <2>2, StoppedEffect DEF Done, Base
    <2> QED
      BY <1>1, <2>1, <2>3
  <1>8. CASE LiftMaintenance
    BY <1>1, <1>8 DEF LiftMaintenance, Done
  <1>9. CASE Crash
    BY <1>9 DEF Crash, Sure, Without
  <1> QED
    BY <1>2, <1>3, <1>4, <1>5, <1>6, <1>7, <1>8, <1>9 DEF Next

\* A database that is good stays so.
LEMMA GoodStays ==
  ASSUME Base, Steadfast, NEW d \in Db, Good(d)
  PROVE  Good(d)'
  <1> SUFFICES ASSUME d # 0
               PROVE  Good(d)'
    BY DEF Good
  <1>1. d \in Restores
    BY RestoreAssumption DEF Db, Restores
  <1>2. /\ Done(d) /\ replaced[d] \in Db
        /\ Done(d)' /\ replaced'[d] = replaced[d] /\ task'[d].run = task[d].run
    BY <1>1 DEF Good, Steadfast
  <1>3. task[d].run \in Ids /\ DumpOf(d) \in Ids
    BY <1>1, <1>2, Underway, Numbers DEF Done
  <1>4. Firm(d)
    BY <1>2 DEF Steadfast
  <1>5. catalog'[d][task[d].run] = catalog[d][task[d].run]
    BY <1>3, <1>4 DEF Firm, Good
  <1>6. catalog[d][DumpOf(d)].status = "completed" => catalog'[d][DumpOf(d)].status = "completed"
    BY <1>3, <1>4 DEF Firm
  <1>7. archive[DumpOf(d)].db = replaced[d] => archive'[DumpOf(d)].db = replaced[d]
    BY <1>2, <1>3, Numbers, RestoreAssumption DEF Steadfast, Db, NoDb
  <1>8. Dumped(d, catalog[d], replaced[d]) => Dumped(d, catalog[d], replaced[d])'
    BY <1>2, <1>5, <1>6, <1>7 DEF Dumped
  <1> QED
    BY <1>2, <1>5, <1>8 DEF Good

\* A table that does not change stays in order.
LEMMA TableStays ==
  ASSUME Base, Steadfast, Replacing, NEW rows, Table(rows)
  PROVE  Table(rows)'
  <1>1. Orderly(rows)'
    BY DEF Table, Orderly
  <1>2. Known(rows)'
    BY DEF Table, Known, Steadfast
  <1>3. ASSUME NEW m, Gone(m)
        PROVE  /\ Gone(m)' /\ replaced'[m] = replaced[m] /\ replaced[m] \in Db
               /\ \A q \in Ids : catalog'[replaced[m]][q].oldDb = catalog[replaced[m]][q].oldDb
    <2>1. Gone(m)' /\ replaced'[m] = replaced[m] /\ replaced[m] \in Db
      BY <1>3 DEF Gone, Steadfast
    <2>2. replaced[m] # 0 => Done(replaced[m])
      BY <1>3 DEF Gone, Replacing, Good
    <2>3. Firm(replaced[m])
      BY <2>1, <2>2 DEF Steadfast
    <2> QED
      BY <2>1, <2>3 DEF Firm
  <1>4. Lineage(rows)'
    <2> SUFFICES ASSUME NEW r \in Ids, rows[r].oldDb # 0
                 PROVE  Gone(rows[r].oldDb)' /\ Descends(rows, rows[r].oldDb)'
      BY DEF Lineage
    <2>1. Gone(rows[r].oldDb) /\ Descends(rows, rows[r].oldDb)
      BY DEF Table, Lineage
    <2> QED
      BY <1>3, <2>1 DEF Descends
  <1> QED
    BY <1>1, <1>2, <1>4 DEF Table

\* A table that takes in backups, with what their archives know, too.
LEMMA TableGrows ==
  ASSUME NEW old, NEW new, Table(old)',
         \A r \in Ids : /\ new[r].oldDb = old[r].oldDb
                        /\ old[r].status # "absent" => new[r].status # "absent"
                        /\ old[r].oldDb # 0 => new[r].restore = "completed",
         \A b \in Ids : new[b].status = "completed" =>
           \/ old[b].status = "completed"
           \/ /\ archive'[b].db # NoDb
              /\ \A r \in Ids : archive'[b].rows[r].status # "absent" => new[r].status # "absent"
  PROVE  Table(new)'
  <1>1. Orderly(new)'
    BY DEF Table, Orderly
  <1>2. Known(new)'
    BY DEF Table, Known
  <1>3. Lineage(new)'
    BY DEF Table, Lineage, Descends
  <1> QED
    BY <1>1, <1>2, <1>3 DEF Table

LEMMA FirmTable ==
  ASSUME Base, SureInv, Steadfast, NEW d \in Db, Firm(d)
  PROVE  Table(catalog[d])'
  <1> PICK old, new : old = catalog[d] /\ new = catalog'[d]
    OBVIOUS
  <1>1. Table(old) /\ Table(old)'
    BY TableStays DEF SureInv, Tables
  <1>2. \A r \in Ids : /\ new[r].oldDb = old[r].oldDb
                       /\ old[r].status # "absent" => new[r].status # "absent"
                       /\ old[r].oldDb # 0 => new[r].restore = "completed"
    BY <1>1 DEF Firm, Table, Orderly
  <1>3. ASSUME NEW b \in Ids, new[b].status = "completed", old[b].status # "completed"
        PROVE  /\ archive'[b].db # NoDb
               /\ \A r \in Ids : archive'[b].rows[r].status # "absent" => new[r].status # "absent"
    <2>1. NewBackup(d, b)
      BY <1>3 DEF Firm
    <2>2. /\ d = LiveDb /\ archive'[b] = [db |-> d, rows |-> [Rows EXCEPT ![b].status = "incomplete"]]
          /\ Rows = old
      BY <2>1, Numbers, RestoreAssumption DEF NewBackup, Rows, Present, LiveDb, NoDb, Db
    <2>3. /\ archive'[b].db = d /\ d # NoDb
          /\ \A r \in Ids \ {b} : archive'[b].rows[r] = old[r]
      BY <2>2, RestoreAssumption DEF NoDb, Db, Base, TypeOK, Catalogs
    <2> QED
      BY <1>2, <1>3, <2>3
  <1>4. \A b \in Ids : new[b].status = "completed" =>
          \/ old[b].status = "completed"
          \/ /\ archive'[b].db # NoDb
             /\ \A r \in Ids : archive'[b].rows[r].status # "absent" => new[r].status # "absent"
    BY <1>3
  <1>5. Table(new)'
    BY <1>1, <1>2, <1>4, TableGrows
  <1> QED
    BY <1>5 DEF Table, Orderly, Known, Lineage, Descends

\* A carry-over that loses no row: the copy's rows win, and its dumps are linked.
LEMMA CarryAll ==
  ASSUME NEW new \in Catalogs, NEW copy \in Catalogs
  PROVE  \A r \in Ids :
           LET row == Linked(Merged(new, copy, {}), copy)[r] IN
           /\ copy[r].status = "absent" =>
                /\ row.status = new[r].status /\ row.restore = new[r].restore
                /\ row.oldDb = new[r].oldDb
           /\ copy[r].status # "absent" =>
                /\ row.status = copy[r].status /\ row.restore = copy[r].restore
                /\ row.oldDb = copy[r].oldDb
           /\ /\ copy[r].status # "absent" /\ copy[r].dump \in Ids
              /\ copy[copy[r].dump].status # "absent"
              => row.dump = copy[r].dump
  <1> DEFINE merged == Merged(new, copy, {})
  <1>1. \A r \in Ids : new[r] \in Row /\ copy[r] \in Row
    BY DEF Catalogs
  <1>2. \A r \in Ids : [copy[r] EXCEPT !.dump = new[r].dump] \in Row
    BY <1>1 DEF Row
  <1>3. \A r \in Ids : merged[r] \in Row
    BY <1>1, <1>2 DEF Merged
  <1>4. \A r \in Ids :
          /\ copy[r].status = "absent" => merged[r] = new[r]
          /\ copy[r].status # "absent" =>
               /\ merged[r].status = copy[r].status /\ merged[r].restore = copy[r].restore
               /\ merged[r].oldDb = copy[r].oldDb
    BY <1>1, <1>2 DEF Merged, Row
  <1> HIDE DEF merged
  <1>5. \A r \in Ids : /\ Linked(merged, copy)[r].status = merged[r].status
                       /\ Linked(merged, copy)[r].restore = merged[r].restore
                       /\ Linked(merged, copy)[r].oldDb = merged[r].oldDb
    BY <1>3 DEF Linked, Row
  <1>6. ASSUME NEW r \in Ids, copy[r].status # "absent", copy[r].dump \in Ids,
               copy[copy[r].dump].status # "absent"
        PROVE  Linked(merged, copy)[r].dump = copy[r].dump
    <2>1. merged[r].status # "absent" /\ merged[copy[r].dump].status # "absent"
      BY <1>4, <1>6
    <2>2. copy[r].dump # 0
      BY <1>6, RestoreAssumption DEF Ids
    <2>3. Linked(merged, copy)[r] = [merged[r] EXCEPT !.dump = copy[r].dump]
      BY <1>6, <2>1, <2>2 DEF Linked
    <2> QED
      BY <1>3, <2>3 DEF Row
  <1> QED
    BY <1>4, <1>5, <1>6 DEF merged

\* What the carry-over leaves in the new live database.
LEMMA CarriedRows ==
  ASSUME Base, Sure, SteadyInv, SureInv, NEW k \in Restores, CarryOver(k)
  PROVE  /\ LiveDb = k /\ k \in Db /\ task[k].run \in Ids
         /\ replaced[k] \in Db \ {k} /\ catalog'[replaced[k]] = catalog[replaced[k]]
         /\ \A r \in Ids :
              /\ task[k].copy[r].status = "absent" =>
                   catalog'[k][r].status = catalog[k][r].status
              /\ task[k].copy[r].status # "absent" =>
                   /\ catalog'[k][r].status = task[k].copy[r].status
                   /\ catalog'[k][r].restore = task[k].copy[r].restore
              /\ catalog'[k][r].oldDb = task[k].copy[r].oldDb
         /\ task[k].mode = "pre_restore_dump" =>
              catalog'[k][task[k].run].dump = DumpOf(k)
  <1> DEFINE copy == task[k].copy
             new == catalog[k]
  <1>1. /\ At(k, "landed") /\ LiveDb = k /\ k \in Db /\ task[k].run \in Ids
        /\ DumpOf(k) \in Ids
    BY TaskRuns, Alone, Underway, Numbers DEF CarryOver, Holds, At, Running
  <1>2. CopyOf(k, replaced[k]) /\ Loaded(k, copy)
    BY <1>1 DEF SureInv, Attempt, At
  <1>3. new \in Catalogs /\ copy \in Catalogs
    BY <1>1, TaskParts DEF Base, TypeOK
  <1>4. "rowFails" \notin faults
    BY DEF Sure, Without
  <1>5. catalog' = [catalog EXCEPT ![k] = Linked(Merged(new, copy, {}), copy)]
    BY <1>1, <1>4 DEF CarryOver
  <1>6. /\ catalog'[k] = Linked(Merged(new, copy, {}), copy)
        /\ \A d \in Db \ {k} : catalog'[d] = catalog[d]
    BY <1>1, <1>5 DEF Base, TypeOK
  <1> HIDE DEF copy, new
  <1>7. \A r \in Ids :
           /\ copy[r].status = "absent" =>
                /\ catalog'[k][r].status = new[r].status
                /\ catalog'[k][r].oldDb = new[r].oldDb
           /\ copy[r].status # "absent" =>
                /\ catalog'[k][r].status = copy[r].status
                /\ catalog'[k][r].restore = copy[r].restore
                /\ catalog'[k][r].oldDb = copy[r].oldDb
           /\ /\ copy[r].status # "absent" /\ copy[r].dump \in Ids
              /\ copy[copy[r].dump].status # "absent"
              => catalog'[k][r].dump = copy[r].dump
    BY <1>3, <1>6, CarryAll
  <1>8. \A r \in Ids : copy[r].status = "absent" => new[r].oldDb = 0 /\ copy[r].oldDb = 0
    BY <1>2 DEF Loaded, CopyOf, Orderly, copy, new
  <1>9. task[k].mode = "pre_restore_dump" => catalog'[k][task[k].run].dump = DumpOf(k)
    BY <1>1, <1>2, <1>7 DEF CopyOf, Dumped, copy
  <1>10. replaced[k] \in Db \ {k}
    BY <1>2 DEF CopyOf
  <1> QED
    BY <1>1, <1>6, <1>7, <1>8, <1>9, <1>10 DEF copy, new

\* The table that has been carried over to is in order.
LEMMA CarriedTable ==
  ASSUME Base, Sure, SteadyInv, SureInv, Steadfast, NEW k \in Restores, CarryOver(k)
  PROVE  Table(catalog[k])'
  <1> PICK new, r, d, copy : new = catalog'[k] /\ r = task[k].run /\ d = replaced[k]
                             /\ copy = task[k].copy
    OBVIOUS
  <1>1. /\ LiveDb = k /\ k \in Db /\ r \in Ids /\ d \in Db \ {k}
        /\ catalog'[d] = catalog[d]
        /\ \A q \in Ids :
              /\ copy[q].status = "absent" => new[q].status = catalog[k][q].status
              /\ copy[q].status # "absent" =>
                   /\ new[q].status = copy[q].status /\ new[q].restore = copy[q].restore
              /\ new[q].oldDb = copy[q].oldDb
    BY CarriedRows
  <1>2. At(k, "landed") /\ CopyOf(k, d)
    BY DEF CarryOver, SureInv, Attempt, At
  <1>3. /\ Orderly(copy) /\ Known(copy)
        /\ copy[r].oldDb = Named0(k) /\ catalog[d][r].oldDb = 0
        /\ \A q \in Ids \ {r} : copy[q].oldDb = catalog[d][q].oldDb
    BY <1>2 DEF CopyOf
  <1>4. Orderly(new)
    BY <1>1, <1>3 DEF Orderly
  <1>5. archive' = archive /\ replaced' = replaced
    BY DEF CarryOver
  <1>6. ASSUME NEW b \in Ids, new[b].status = "completed"
        PROVE  /\ archive'[b].db # NoDb
               /\ \A q \in Ids : archive'[b].rows[q].status # "absent" => new[q].status # "absent"
    <2>1. CASE copy[b].status = "absent"
      <3>1. catalog[k][b].status = "completed" /\ Known(catalog[k])
        BY <1>1, <1>6, <2>1 DEF SureInv, Tables, Table
      <3> QED
        BY <1>1, <1>5, <3>1 DEF Known
    <2>2. CASE copy[b].status # "absent"
      <3>1. copy[b].status = "completed"
        BY <1>1, <1>6, <2>2
      <3> QED
        BY <1>1, <1>3, <1>5, <3>1 DEF Known
    <2> QED
      BY <2>1, <2>2
  <1>7. task'[k].phase = "carried"
    BY GotoEffect DEF CarryOver, Base, Executing
  <1>8. Gone(k)' /\ replaced'[k] = d
    BY <1>1, <1>5, <1>7 DEF Gone, Done
  <1>9. PICK old : old = catalog[d]
    OBVIOUS
  <1>10. Table(old)'
    BY <1>1, <1>9, TableStays DEF SureInv, Tables
  <1>11. ASSUME NEW q \in Ids, new[q].oldDb # 0
         PROVE  Gone(new[q].oldDb)' /\ Descends(new, new[q].oldDb)'
    <2>1. CASE q = r
      <3>1. new[q].oldDb = k
        BY <1>1, <1>3, <1>11, <2>1 DEF Named0
      <3>2. \A x \in Ids : catalog'[d][x].oldDb # 0 => new[x].oldDb = catalog'[d][x].oldDb
        BY <1>1, <1>3
      <3> QED
        BY <1>8, <3>1, <3>2 DEF Descends
    <2>2. CASE q # r
      <3>1. new[q].oldDb = old[q].oldDb /\ old[q].oldDb # 0
        BY <1>1, <1>3, <1>9, <1>11, <2>2
      <3>2. Gone(old[q].oldDb)' /\ Descends(old, old[q].oldDb)'
        BY <1>10, <3>1 DEF Table, Lineage
      <3>3. \A x \in Ids : old[x].oldDb # 0 => new[x].oldDb = old[x].oldDb
        BY <1>1, <1>3, <1>9
      <3>4. Descends(new, old[q].oldDb)'
        BY <3>2, <3>3 DEF Descends
      <3> QED
        BY <3>1, <3>2, <3>4
    <2> QED
      BY <2>1, <2>2
  <1>12. Table(new)'
    BY <1>4, <1>6, <1>11 DEF Table, Orderly, Known, Lineage
  <1> QED
    BY <1>12 DEF Table, Orderly, Known, Lineage, Descends

\* The archive of a backup knows what the live table knows, or less.
LEMMA ArchiveTable ==
  ASSUME Base, SureInv, Steadfast, NEW b \in Ids, Present(Live),
         archive'[b] = [db |-> LiveDb, rows |-> [Rows EXCEPT ![b].status = "incomplete"]]
  PROVE  Table(archive[b].rows)'
  <1> PICK old, new : old = Rows /\ new = [Rows EXCEPT ![b].status = "incomplete"]
    OBVIOUS
  <1>1. /\ LiveDb \in Db /\ old = catalog[LiveDb] /\ old \in Catalogs
    BY LiveRows DEF Base
  <1>2. Table(old) /\ Table(old)'
    BY <1>1, TableStays DEF SureInv, Tables
  <1>3. \A r \in Ids : /\ new[r].oldDb = old[r].oldDb /\ new[r].restore = old[r].restore
                       /\ r # b => new[r].status = old[r].status
                       /\ new[b].status = "incomplete"
    BY <1>1 DEF Catalogs, Row
  <1>4. \A r \in Ids : /\ new[r].oldDb = old[r].oldDb
                       /\ old[r].status # "absent" => new[r].status # "absent"
                       /\ old[r].oldDb # 0 => new[r].restore = "completed"
    BY <1>2, <1>3 DEF Table, Orderly
  <1>5. \A q \in Ids : new[q].status = "completed" =>
          \/ old[q].status = "completed"
          \/ /\ archive'[q].db # NoDb
             /\ \A r \in Ids : archive'[q].rows[r].status # "absent" => new[r].status # "absent"
    BY <1>3
  <1>6. Table(new)'
    <2>1. Orderly(new)'
      BY <1>2, <1>4 DEF Table, Orderly
    <2>2. Known(new)'
      BY <1>2, <1>3, <1>5 DEF Table, Known
    <2>3. ASSUME NEW r \in Ids, new[r].oldDb # 0
          PROVE  Gone(new[r].oldDb)' /\ Descends(new, new[r].oldDb)'
      <3>1. Gone(old[r].oldDb)' /\ Descends(old, old[r].oldDb)' /\ new[r].oldDb = old[r].oldDb
        BY <1>2, <1>3, <2>3 DEF Table, Lineage
      <3> QED
        BY <1>3, <3>1 DEF Descends
    <2>4. Lineage(new)'
      BY <2>3 DEF Lineage
    <2> QED
      BY <2>1, <2>2, <2>4 DEF Table
  <1>7. archive'[b].rows = new
    OBVIOUS
  <1>8. Orderly(archive[b].rows)' /\ Known(archive[b].rows)'
    BY <1>6, <1>7 DEF Table, Orderly, Known
  <1>9. Lineage(archive[b].rows)'
    <2> SUFFICES ASSUME NEW r \in Ids, archive'[b].rows[r].oldDb # 0
                 PROVE  /\ Gone(archive[b].rows[r].oldDb)'
                        /\ Descends(archive[b].rows, archive[b].rows[r].oldDb)'
      BY DEF Lineage
    <2>1. Gone(new[r].oldDb)' /\ Descends(new, new[r].oldDb)'
      BY <1>6, <1>7 DEF Table, Lineage
    <2>2. archive'[b].rows[r].oldDb = new[r].oldDb
      BY <1>7
    <2> QED
      BY <1>7, <2>1, <2>2 DEF Descends, Gone, Done
  <1> QED
    BY <1>8, <1>9 DEF Table

LEMMA TablesStep ==
  ASSUME Base, Sure, SteadyInv, SureInv, Steadfast, [Next]_vars
  PROVE  Tables'
  <1>1. ASSUME \A d \in Db : Firm(d)
        PROVE  \A d \in Db : Table(catalog[d])'
    BY <1>1, FirmTable
  <1>2. ASSUME archive' = archive
        PROVE  \A b \in Ids : Table(archive[b].rows)'
    <2> SUFFICES ASSUME NEW b \in Ids
                 PROVE  Table(archive[b].rows)'
      OBVIOUS
    <2> PICK rows : rows = archive[b].rows
      OBVIOUS
    <2>1. Table(rows)'
      BY TableStays DEF SureInv, Tables
    <2>2. archive'[b].rows = rows
      BY <1>2
    <2>3. Orderly(archive[b].rows)' /\ Known(archive[b].rows)'
      BY <2>1, <2>2 DEF Table, Orderly, Known
    <2>4. Lineage(archive[b].rows)'
      BY <2>1, <2>2, ZenonT(40) DEF Table, Lineage, Descends
    <2> QED
      BY <2>3, <2>4 DEF Table
  <1>3. ASSUME NEW x \in Ids, Present(Live), \A b \in Ids \ {x} : archive'[b] = archive[b],
               archive'[x] = [db |-> LiveDb, rows |-> [Rows EXCEPT ![x].status = "incomplete"]]
        PROVE  \A b \in Ids : Table(archive[b].rows)'
    <2> SUFFICES ASSUME NEW b \in Ids
                 PROVE  Table(archive[b].rows)'
      OBVIOUS
    <2>1. CASE b = x
      BY <1>3, <2>1, ArchiveTable
    <2>2. CASE b # x
      <3> PICK rows : rows = archive[b].rows
        OBVIOUS
      <3>1. Table(rows)'
        BY TableStays DEF SureInv, Tables
      <3>2. archive'[b].rows = rows
        BY <1>3, <2>2
      <3>3. Orderly(archive[b].rows)' /\ Known(archive[b].rows)'
        BY <3>1, <3>2 DEF Table, Orderly, Known
      <3>4. Lineage(archive[b].rows)'
        BY <3>1, <3>2, ZenonT(40) DEF Table, Lineage, Descends
      <3> QED
        BY <3>3, <3>4 DEF Table
    <2> QED
      BY <2>1, <2>2
  <1>4. CASE catalog' = catalog /\ archive' = archive
    BY <1>1, <1>2, <1>4, UnchangedFirm DEF Tables
  <1>5. ASSUME NEW r \in Backups, BackupCompletes(r)
        PROVE  Tables'
    <2>1. Present(Live) /\ r \in Ids
      BY <1>5, BackupFirm DEF BackupCompletes
    <2> QED
      BY <1>1, <1>3, <1>5, <2>1, BackupFirm DEF Tables
  <1>6. ASSUME NEW k \in Restores, TaskStep(k)
        PROVE  Tables'
    <2>1. CASE TakeDump(k)
      <3>1. /\ Present(Live) /\ DumpOf(k) \in Ids
            /\ archive' = [archive EXCEPT ![DumpOf(k)] =
                 [db |-> LiveDb, rows |-> [Rows EXCEPT ![DumpOf(k)].status = "incomplete"]]]
        BY <2>1, TakeDumpEffect, Numbers
      <3>2. /\ \A b \in Ids \ {DumpOf(k)} : archive'[b] = archive[b]
            /\ archive'[DumpOf(k)] =
                 [db |-> LiveDb, rows |-> [Rows EXCEPT ![DumpOf(k)].status = "incomplete"]]
        BY <3>1 DEF Base, TypeOK
      <3>3. \A d \in Db : Firm(d)
        BY <2>1, TakeDumpFirm
      <3> QED
        BY <1>1, <1>3, <3>1, <3>2, <3>3 DEF Tables
    <2>2. CASE ~TakeDump(k)
      <3>1. archive' = archive
        BY <1>6, <2>2
           DEF TaskStep, PreflightAdmits, PreflightRefuses, VerifyArtifact, RenameAway,
               CreateScratch, LoadArchive, BeginSwap, ExportCatalog, CloseDoors, RenameIn,
               PutBack, CarryOver, CarryOverFails, Throws, MarkFailed, DropScratch,
               DropOldAndExit
      <3>2. ASSUME NEW d \in Db
            PROVE  Table(catalog[d])'
        <4>1. CASE Firm(d)
          BY <4>1, FirmTable
        <4>2. CASE d = k /\ CarryOver(k)
          BY <4>2, CarriedTable
        <4>3. CASE d = k /\ LoadArchive(k)
          <5>1. task[k].run \in Ids
            BY <4>3, Underway DEF LoadArchive, At
          <5> PICK rows : rows = archive[task[k].run].rows
            OBVIOUS
          <5>2. Table(rows)'
            BY <5>1, TableStays DEF SureInv, Tables
          <5>3. catalog'[d] = rows
            BY <4>3, LoadFirm
          <5> QED
            BY <5>2, <5>3, ZenonT(40) DEF Table, Orderly, Known, Lineage, Descends
        <4> QED
          BY <1>6, <4>1, <4>2, <4>3, TaskFirm
      <3> QED
        BY <1>2, <3>1, <3>2 DEF Tables
    <2> QED
      BY <2>1, <2>2
  <1>7. CASE UNCHANGED vars
    <2>1. catalog' = catalog /\ archive' = archive
      BY <1>7 DEF vars
    <2> QED
      BY <1>4, <2>1
  <1>8. CASE (\E r \in Ids : StartRestore(r) \/ RollBack(r)) \/ LiftMaintenance \/ UndoStep \/ Crash
    <2>1. catalog' = catalog /\ archive' = archive
      BY <1>8 DEF StartRestore, RollBack, LiftMaintenance, UndoStep, Crash
    <2> QED
      BY <1>4, <2>1
  <1> QED
    BY <1>5, <1>6, <1>7, <1>8 DEF Next

-----------------------------------------------------------------------------
(* The databases that can be undone, from step to step.                     *)

\* A task's step leaves names, tables and what was replaced alone but for the
\* steps named.
LEMMA TaskNames ==
  ASSUME Base, NEW k \in Restores, TaskStep(k)
  PROVE  /\ ~RenameAway(k) => replaced' = replaced
         /\ RenameAway(k) => /\ replaced'[k] = LiveDb /\ LiveDb \in Db
                             /\ \A m \in Restores \ {k} : replaced'[m] = replaced[m]
         /\ \A m \in Restores \ {k} : named'[Old(m)] = named[Old(m)]
         /\ ~RenameAway(k) /\ ~PutBack(k) /\ ~DropOldAndExit(k) => named'[Old(k)] = named[Old(k)]
         /\ DropOldAndExit(k) => named' = named \/ task[k].mode = "pre_restore_dump"
         /\ \A m \in Restores : named'[Superseded(m)] = named[Superseded(m)]
  <1>1. CASE RenameAway(k)
    <2>1. /\ CanRename(Live, Old(k)) /\ named' = Rename(Live, Old(k))
          /\ replaced' = [replaced EXCEPT ![k] = LiveDb]
      BY <1>1 DEF RenameAway
    <2>2. \A n \in Names \ {Live, Old(k)} : named'[n] = named[n]
      BY <2>1, Naming DEF Rename, Base, TypeOK
    <2>3. LiveDb \in Db
      BY <2>1, LiveRows DEF CanRename, Base
    <2>4. /\ \A m \in Restores \ {k} : named'[Old(m)] = named[Old(m)]
          /\ \A m \in Restores : named'[Superseded(m)] = named[Superseded(m)]
      BY <2>2, Naming
    <2>5. ~DropOldAndExit(k)
      BY <1>1 DEF RenameAway, DropOldAndExit, At
    <2> QED
      BY <1>1, <2>1, <2>3, <2>4, <2>5 DEF Base, TypeOK
  <1>2. CASE RenameIn(k)
    <2>1. named' = Rename(Scratch(k), Live) /\ replaced' = replaced
      BY <1>2 DEF RenameIn
    <2>2. \A n \in Names \ {Live, Scratch(k)} : named'[n] = named[n]
      BY <2>1, Naming DEF Rename, Base, TypeOK
    <2>3. \A m \in Restores : named'[Old(m)] = named[Old(m)]
                              /\ named'[Superseded(m)] = named[Superseded(m)]
      BY <2>2, Naming
    <2>4. ~DropOldAndExit(k) /\ ~RenameAway(k)
      BY <1>2 DEF RenameAway, DropOldAndExit, RenameIn, At
    <2> QED
      BY <1>2, <2>1, <2>3, <2>4
  <1>3. CASE PutBack(k)
    <2>1. named' = Rename(Old(k), Live) \/ named' = named
      BY <1>3 DEF PutBack
    <2>2. \A n \in Names \ {Live, Old(k)} : named'[n] = named[n]
      BY <2>1, Naming DEF Rename, Base, TypeOK
    <2>3. /\ \A m \in Restores \ {k} : named'[Old(m)] = named[Old(m)]
          /\ \A m \in Restores : named'[Superseded(m)] = named[Superseded(m)]
      BY <2>2, Naming
    <2>4. ~DropOldAndExit(k) /\ ~RenameAway(k) /\ replaced' = replaced
      BY <1>3 DEF RenameAway, DropOldAndExit, PutBack, At
    <2> QED
      BY <1>3, <2>3, <2>4
  <1>4. CASE CreateScratch(k) \/ DropScratch(k)
    <2>1. \A n \in Names \ {Scratch(k)} : named'[n] = named[n]
      BY <1>4, Naming DEF CreateScratch, DropScratch, Dropped, Base, TypeOK
    <2>2. \A m \in Restores : named'[Old(m)] = named[Old(m)]
                              /\ named'[Superseded(m)] = named[Superseded(m)]
      BY <2>1, Naming
    <2>3. ~DropOldAndExit(k) /\ ~RenameAway(k) /\ replaced' = replaced
      BY <1>4 DEF RenameAway, DropOldAndExit, CreateScratch, DropScratch, At
    <2> QED
      BY <2>2, <2>3
  <1>5. CASE DropOldAndExit(k)
    <2>1. /\ replaced' = replaced
          /\ named' = named \/ (named' = Dropped(Old(k)) /\ task[k].mode = "pre_restore_dump")
      BY <1>5 DEF DropOldAndExit
    <2>2. \A n \in Names \ {Old(k)} : named'[n] = named[n]
      BY <2>1, Naming DEF Dropped, Base, TypeOK
    <2>3. /\ \A m \in Restores \ {k} : named'[Old(m)] = named[Old(m)]
          /\ \A m \in Restores : named'[Superseded(m)] = named[Superseded(m)]
      BY <2>2, Naming
    <2>4. ~RenameAway(k)
      BY <1>5 DEF RenameAway, DropOldAndExit, At
    <2> QED
      BY <1>5, <2>1, <2>3, <2>4
  <1>6. CASE ~RenameAway(k) /\ ~RenameIn(k) /\ ~PutBack(k) /\ ~CreateScratch(k)
             /\ ~DropScratch(k) /\ ~DropOldAndExit(k)
    <2>1. named' = named /\ replaced' = replaced
      BY <1>6 DEF TaskStep, PreflightAdmits, PreflightRefuses, VerifyArtifact, TakeDump,
                  LoadArchive, BeginSwap, ExportCatalog, CloseDoors, CarryOver, CarryOverFails,
                  Throws, MarkFailed
    <2> QED
      BY <1>6, <2>1
  <1> QED
    BY <1>1, <1>2, <1>3, <1>4, <1>5, <1>6

\* So does a rollback.
LEMMA UndoNames ==
  ASSUME Base, UndoStep
  PROVE  /\ UNCHANGED <<faults, catalog, archive, replaced, tried>>
         /\ undo.phase # "idle" /\ undo.from \in Restores
         /\ \A m \in Restores : ~UndoRenamesInAndExits \/ m # undo.from
              => named'[Old(m)] = named[Old(m)]
         /\ UndoRenamesInAndExits => /\ undo'.phase = "idle" /\ LiveDb' = named[Old(undo.from)]
                                     /\ ~Present(Live) /\ Present(Old(undo.from))
                                     /\ \A k \in Restores : task'[k].phase \in {"idle", "ended"}
         /\ ~UndoRenamesInAndExits => task' = task
         /\ UndoRenamesAway =>
              /\ ~Present(Live)' /\ Present(Live) /\ named'[Superseded(undo.from)] = LiveDb
              /\ undo' = [undo EXCEPT !.phase = "gap"]
         /\ UndoPutsBack => /\ undo'.phase = "idle"
                            /\ LiveDb' = LiveDb \/ LiveDb' = named[Superseded(undo.from)]
         /\ ~UndoRenamesInAndExits /\ ~UndoRenamesAway /\ ~UndoPutsBack =>
              named' = named /\ (undo'.phase = "idle" \/ undo' = [undo EXCEPT !.phase = "quiet"])
  <1>1. /\ UNCHANGED <<faults, catalog, archive, replaced, tried>>
        /\ undo.phase # "idle"
    BY DEF UndoStep, UndoClosesDoors, UndoRenamesAway, UndoThrows, UndoPutsBack,
           UndoRenamesInAndExits, UndoAt
  <1>2. undo.from \in Restores
    BY <1>1 DEF Base, From
  <1> PICK f : f = undo.from
    OBVIOUS
  <1>3. f \in Restores /\ undo.from = f
    BY <1>2
  <1>4. CASE UndoRenamesInAndExits
    <2>1. /\ CanRename(Old(f), Live) /\ named' = Rename(Old(f), Live)
          /\ undo' = [phase |-> "idle", from |-> 0] /\ task' = Stopped
      BY <1>3, <1>4 DEF UndoRenamesInAndExits
    <2>2. /\ named'[Live] = named[Old(f)]
          /\ \A n \in Names \ {Live, Old(f)} : named'[n] = named[n]
      BY <1>3, <2>1, Naming DEF Rename, Base, TypeOK
    <2>3. \A m \in Restores \ {f} : named'[Old(m)] = named[Old(m)]
      BY <1>3, <2>2, Naming
    <2>4. \A k \in Restores : task'[k].phase \in {"idle", "ended"}
      BY <2>1, StoppedEffect DEF Base
    <2>5. ~UndoRenamesAway /\ ~UndoPutsBack
      <3>1. undo.phase = "gap"
        BY <1>4 DEF UndoRenamesInAndExits, UndoAt
      <3>2. ~UndoRenamesAway
        BY <3>1 DEF UndoRenamesAway, UndoAt
      <3>3. named' # named
        BY <1>3, <2>1, <2>2 DEF CanRename, Present
      <3>4. named' # Rename(Superseded(f), Live)
        <4>1. named'[Old(f)] = NoDb
          BY <1>3, <2>1, Naming DEF Rename, Base, TypeOK
        <4>2. Rename(Superseded(f), Live)[Old(f)] = named[Old(f)]
          BY <1>3, Naming DEF Rename, Base, TypeOK
        <4> QED
          BY <2>1, <4>1, <4>2 DEF CanRename, Present
      <3> QED
        BY <1>3, <3>2, <3>3, <3>4 DEF UndoPutsBack
    <2> QED
      BY <1>1, <1>3, <1>4, <2>1, <2>2, <2>3, <2>4, <2>5 DEF LiveDb, CanRename
  <1>5. CASE UndoRenamesAway
    <2>1. /\ CanRename(Live, Superseded(f)) /\ named' = Rename(Live, Superseded(f))
          /\ undo' = [undo EXCEPT !.phase = "gap"] /\ task' = task /\ undo.phase = "quiet"
      BY <1>3, <1>5 DEF UndoRenamesAway, UndoGoto, UndoAt
    <2>2. /\ named'[Live] = NoDb /\ named'[Superseded(f)] = named[Live]
          /\ \A n \in Names \ {Live, Superseded(f)} : named'[n] = named[n]
      BY <1>3, <2>1, Naming DEF Rename, Base, TypeOK
    <2>3. \A m \in Restores : named'[Old(m)] = named[Old(m)]
      BY <1>3, <2>2, Naming
    <2>4. ~UndoRenamesInAndExits /\ ~UndoPutsBack
      BY <2>1 DEF UndoRenamesInAndExits, UndoPutsBack, UndoAt
    <2> QED
      BY <1>1, <1>3, <1>5, <2>1, <2>2, <2>3, <2>4 DEF LiveDb, CanRename, Present
  <1>6. CASE UndoPutsBack /\ ~UndoRenamesInAndExits
    <2>1. /\ named' = Rename(Superseded(f), Live) \/ named' = named
          /\ undo'.phase = "idle" /\ task' = task /\ undo.phase = "gap"
      BY <1>3, <1>6 DEF UndoPutsBack, UndoAt
    <2>2. /\ named'[Live] \in {named[Live], named[Superseded(f)]}
          /\ \A n \in Names \ {Live, Superseded(f)} : named'[n] = named[n]
      BY <1>3, <2>1, Naming DEF Rename, Base, TypeOK
    <2>3. \A m \in Restores : named'[Old(m)] = named[Old(m)]
      BY <1>3, <2>2, Naming
    <2>4. ~UndoRenamesAway
      BY <2>1 DEF UndoRenamesAway, UndoAt
    <2> QED
      BY <1>1, <1>3, <1>6, <2>1, <2>2, <2>3, <2>4 DEF LiveDb
  <1>7. CASE (UndoClosesDoors \/ UndoThrows) /\ ~UndoRenamesInAndExits /\ ~UndoRenamesAway
             /\ ~UndoPutsBack
    <2>1. /\ named' = named /\ task' = task
          /\ undo'.phase = "idle" \/ undo' = [undo EXCEPT !.phase = "quiet"]
      BY <1>7 DEF UndoClosesDoors, UndoThrows, UndoGoto
    <2> QED
      BY <1>1, <1>3, <1>7, <2>1
  <1> QED
    BY <1>4, <1>5, <1>6, <1>7 DEF UndoStep

\* The table of a good database is firm.
LEMMA GoodIsFirm ==
  ASSUME Steadfast, NEW d \in Db, Good(d)
  PROVE  Firm(d) /\ (d # 0 => Done(d))
  BY DEF Good, Steadfast

\* A sound database stays sound while the databases it names keep their names.
LEMMA SoundStays ==
  ASSUME Base, SureInv, Steadfast, NEW d, Sound(d),
         \A m \in Restores : Gone(m) /\ (\E r \in Ids : catalog[d][r].oldDb = m)
           => named'[Old(m)] = named[Old(m)]
  PROVE  Sound(d)'
  <1>1. d \in Db /\ Good(d) /\ Grounded(d)
    BY DEF Sound
  <1>2. Firm(d) /\ Good(d)'
    BY <1>1, GoodIsFirm, GoodStays
  <1>3. \A r \in Ids : catalog'[d][r].oldDb = catalog[d][r].oldDb
    BY <1>2 DEF Firm
  <1>4. ASSUME NEW m, NEW r \in Ids, m = catalog[d][r].oldDb, m # 0
        PROVE  named'[Old(m)] = replaced'[m]
    <2>1. Gone(m) /\ named[Old(m)] = replaced[m]
      BY <1>1, <1>4 DEF SureInv, Tables, Table, Lineage, Grounded
    <2>2. m \in Restores /\ Done(m)
      BY <2>1 DEF Gone
    <2>3. named'[Old(m)] = named[Old(m)]
      BY <1>4, <2>1, <2>2
    <2>4. replaced'[m] = replaced[m]
      BY <2>2 DEF Steadfast
    <2> QED
      BY <2>1, <2>3, <2>4
  <1>5. Grounded(d)'
    BY <1>3, <1>4 DEF Grounded
  <1> QED
    BY <1>1, <1>2, <1>5 DEF Sound

\* That is: while no step drops or brings back a database it names.
LEMMA SoundKept ==
  ASSUME Base, Sure, SureInv, Steadfast, [Next]_vars, NEW d, Sound(d),
         \A m \in Restores : DropOldAndExit(m) /\ task[m].mode = "pre_restore_dump"
           => \A r \in Ids : catalog[d][r].oldDb # m,
         UndoRenamesInAndExits => \A r \in Ids : catalog[d][r].oldDb # undo.from
  PROVE  Sound(d)'
  <1> SUFFICES ASSUME NEW m \in Restores, Gone(m), NEW r \in Ids, catalog[d][r].oldDb = m
               PROVE  named'[Old(m)] = named[Old(m)]
    BY SoundStays
  <1>1. Done(m)
    BY DEF Gone
  <1>2. CASE named' = named
    BY <1>2
  <1>3. ASSUME NEW k \in Restores, TaskStep(k)
        PROVE  named'[Old(m)] = named[Old(m)]
    <2>1. CASE k = m
      <3>1. ~RenameAway(k) /\ ~PutBack(k)
        BY <1>1, <2>1 DEF Done, RenameAway, PutBack, At
      <3>2. DropOldAndExit(k) => named' = named
        BY <1>3, <2>1, TaskNames
      <3> QED
        BY <1>2, <1>3, <2>1, <3>1, <3>2, TaskNames
    <2>2. CASE k # m
      BY <1>3, <2>2, TaskNames
    <2> QED
      BY <2>1, <2>2
  <1>4. CASE UndoStep
    BY <1>4, UndoNames
  <1>5. CASE (\E q \in Ids : StartRestore(q) \/ RollBack(q)) \/ (\E q \in Backups : BackupCompletes(q))
             \/ LiftMaintenance
    BY <1>2, <1>5, RequestEffect
  <1>6. CASE Crash
    BY <1>6 DEF Crash, Sure, Without
  <1>7. CASE UNCHANGED vars
    BY <1>2, <1>7 DEF vars
  <1> QED
    BY <1>3, <1>4, <1>5, <1>6, <1>7 DEF Next

\* What is live, when no attempt is between its renames and its carry-over.
LEMMA LiveIsSound ==
  ASSUME SureInv, Present(Live), \A k \in Restores : ~At(k, "landed")
  PROVE  Sound(LiveDb)
  BY DEF SureInv, LiveSound

LEMMA ReplacingStep ==
  ASSUME Base, Sure, SteadyInv, SureInv, Steadfast, [Next]_vars
  PROVE  Replacing'
  <1> SUFFICES ASSUME NEW m \in Restores, replaced'[m] \in Db
               PROVE  /\ Good(replaced[m])'
                      /\ \A q \in Ids : catalog'[replaced'[m]][q].oldDb # m
    BY DEF Replacing
  <1> PICK d : d = replaced'[m]
    OBVIOUS
  <1>1. Good(d) /\ \A q \in Ids : catalog[d][q].oldDb # m
    <2>1. CASE replaced'[m] = replaced[m]
      BY <2>1 DEF SureInv, Replacing
    <2>2. CASE TaskStep(m) /\ RenameAway(m)
      <3>1. At(m, "quiet") /\ Present(Live) /\ d = LiveDb
        BY <2>2, TaskNames DEF RenameAway, CanRename
      <3>2. \A k \in Restores : ~At(k, "landed")
        BY <2>2, <3>1, TaskRuns, Alone DEF At, Running
      <3>3. Sound(d)
        BY <3>1, <3>2, LiveIsSound
      <3>4. ~Gone(m) /\ m # 0
        BY <3>1, Numbers, RestoreAssumption DEF Gone, Done, At, Restores
      <3> QED
        BY <3>3, <3>4 DEF Sound, SureInv, Tables, Table, Lineage
    <2>3. replaced'[m] = replaced[m] \/ (TaskStep(m) /\ RenameAway(m))
      <3>1. CASE replaced' = replaced
        BY <3>1
      <3>2. ASSUME NEW k \in Restores, TaskStep(k)
            PROVE  replaced'[m] = replaced[m] \/ (TaskStep(m) /\ RenameAway(m))
        BY <3>2, TaskNames
      <3>3. CASE UNCHANGED vars
        BY <3>1, <3>3 DEF vars
      <3>4. CASE UndoStep \/ Crash
        BY <3>1, <3>4 DEF UndoStep, Crash
      <3> QED
        BY <3>1, <3>2, <3>3, <3>4, RequestEffect DEF Next
    <2> QED
      BY <2>1, <2>2, <2>3
  <1>2. Good(d)' /\ Firm(d)
    BY <1>1, GoodIsFirm, GoodStays
  <1>3. Good(replaced[m])'
    BY <1>2 DEF Good, Dumped, Done
  <1> QED
    BY <1>1, <1>2, <1>3 DEF Firm

\* A number within the attempts made so far is within those made later.
LEMMA Later ==
  ASSUME NEW n \in Nat, NEW t \in Nat, NEW u \in Nat, NEW b \in Nat, b <= n + t, t <= u
  PROVE  b <= n + u
  OBVIOUS

LEMMA FiledStep ==
  ASSUME Base, Base', Sure, SteadyInv, SureInv, [Next]_vars
  PROVE  Filed'
  <1>1. tried \in Nat /\ tried' \in Nat /\ NBackups \in Nat
    BY RestoreAssumption DEF Base, TypeOK
  <1>2. CASE archive' = archive /\ tried' >= tried
    <2>1. \A b \in Ids : archive'[b].db # NoDb => b <= NBackups + tried
      BY <1>2 DEF SureInv, Filed
    <2>2. \A b \in Ids : b \in Nat
      BY Numbers, <1>1, RestoreAssumption DEF Ids
    <2> PICK t, u : t = tried /\ u = tried'
      OBVIOUS
    <2>3. t \in Nat /\ u \in Nat /\ t <= u
      BY <1>1, <1>2
    <2>4. \A b \in Ids : archive'[b].db # NoDb => b <= NBackups + u
      <3>1. \A b \in Nat : b <= NBackups + t => b <= NBackups + u
        BY <1>1, <2>3, Later
      <3> QED
        BY <2>1, <2>2, <3>1
    <2> QED
      BY <2>4 DEF Filed
  <1>3. ASSUME NEW r \in Backups, BackupCompletes(r)
        PROVE  Filed'
    <2>1. /\ \A b \in Ids \ {r} : archive'[b] = archive[b]
          /\ tried' = tried /\ r \in Nat /\ r <= NBackups
      BY <1>1, <1>3, BackupFirm DEF BackupCompletes, Backups
    <2> QED
      BY <1>1, <2>1, RestoreAssumption DEF SureInv, Filed, Ids
  <1>4. ASSUME NEW k \in Restores, TaskStep(k)
        PROVE  Filed'
    <2>1. tried' = tried
      BY <1>4 DEF TaskStep
    <2>2. CASE TakeDump(k)
      <3>1. \A b \in Ids \ {DumpOf(k)} : archive'[b] = archive[b]
        BY <2>2, TakeDumpEffect DEF Base, TypeOK
      <3>2. DumpOf(k) = NBackups + k /\ k \in Nat /\ k <= tried
        BY <1>4, TaskRuns, Underway, Numbers DEF Running
      <3> QED
        BY <1>1, <2>1, <3>1, <3>2, RestoreAssumption DEF SureInv, Filed, Ids
    <2>3. CASE ~TakeDump(k)
      <3>1. archive' = archive
        BY <1>4, <2>3
           DEF TaskStep, PreflightAdmits, PreflightRefuses, VerifyArtifact, RenameAway,
               CreateScratch, LoadArchive, BeginSwap, ExportCatalog, CloseDoors, RenameIn,
               PutBack, CarryOver, CarryOverFails, Throws, MarkFailed, DropScratch,
               DropOldAndExit
      <3> QED
        BY <1>1, <1>2, <2>1, <3>1
    <2> QED
      BY <2>2, <2>3
  <1>5. CASE (\E r \in Ids : StartRestore(r) \/ RollBack(r)) \/ LiftMaintenance \/ UndoStep \/ Crash
    <2>1. archive' = archive /\ tried' \in {tried, tried + 1}
      BY <1>5 DEF StartRestore, RollBack, LiftMaintenance, UndoStep, Crash
    <2> QED
      BY <1>1, <1>2, <2>1
  <1>6. CASE UNCHANGED vars
    <2>1. archive' = archive /\ tried' = tried
      BY <1>6 DEF vars
    <2> QED
      BY <1>1, <1>2, <2>1
  <1> QED
    BY <1>3, <1>4, <1>5, <1>6 DEF Next

\* The carry-over makes the new live database sound.
LEMMA CarrySound ==
  ASSUME Base, Sure, SteadyInv, SureInv, NEW k \in Restores, TaskStep(k), CarryOver(k)
  PROVE  Sound(k)'
  <1> PICK new, r, d, copy : new = catalog'[k] /\ r = task[k].run /\ d = replaced[k]
                             /\ copy = task[k].copy
    OBVIOUS
  <1>1. /\ LiveDb = k /\ k \in Db /\ r \in Ids /\ d \in Db \ {k}
        /\ \A q \in Ids :
              /\ copy[q].status # "absent" =>
                   /\ new[q].status = copy[q].status /\ new[q].restore = copy[q].restore
              /\ new[q].oldDb = copy[q].oldDb
        /\ task[k].mode = "pre_restore_dump" => new[r].dump = DumpOf(k)
    BY CarriedRows
  <1>2. At(k, "landed") /\ CopyOf(k, d) /\ Sound(d) /\ Present(Old(k))
    BY DEF CarryOver, SureInv, Attempt, At
  <1>3. /\ copy[r].restore = "completed" /\ copy[r].status # "absent"
        /\ copy[r].oldDb = Named0(k)
        /\ \A q \in Ids \ {r} : copy[q].oldDb = catalog[d][q].oldDb
        /\ task[k].mode = "pre_restore_dump" => Dumped(k, copy, d)
    BY <1>2 DEF CopyOf
  <1>4. /\ task'[k].phase = "carried" /\ task'[k].run = r
        /\ UNCHANGED <<named, archive, replaced>>
    BY GotoEffect DEF CarryOver, Base, Executing
  <1>5. named[Old(k)] = d /\ DumpOf(k) \in Ids /\ task[k].mode \in Modes
    BY <1>2, Numbers, TaskParts DEF Base, Named, Present
  <1>6. Good(k)'
    <2>1. new[r].restore = "completed" /\ new[r].status # "absent" /\ new[r].oldDb = Named0(k)
      BY <1>1, <1>3
    <2>2. CASE task[k].mode = "retain_database"
      <3>1. new[r].oldDb = k
        BY <2>1, <2>2 DEF Named0
      <3> QED
        BY <1>1, <1>4, <2>1, <3>1 DEF Good, Done
    <2>3. CASE task[k].mode = "pre_restore_dump"
      <3>1. new[r].oldDb = 0
        BY <2>1, <2>3 DEF Named0
      <3>2. /\ new[r].dump = DumpOf(k) /\ new[DumpOf(k)].status = "completed"
            /\ archive[DumpOf(k)].db = d
        BY <1>1, <1>3, <1>5, <2>3 DEF Dumped
      <3>3. Dumped(k, catalog[k], replaced[k])'
        BY <1>4, <3>2 DEF Dumped
      <3> QED
        BY <1>1, <1>4, <2>1, <3>1, <3>3 DEF Good, Done
    <2> QED
      BY <1>5, <2>2, <2>3 DEF Modes
  <1>7. ASSUME NEW q \in Ids, NEW m, m = new[q].oldDb, m # 0
        PROVE  named'[Old(m)] = replaced'[m]
    <2>1. CASE q = r
      <3>1. m = k
        BY <1>1, <1>3, <1>7, <2>1 DEF Named0
      <3> QED
        BY <1>4, <1>5, <3>1
    <2>2. CASE q # r
      <3>1. catalog[d][q].oldDb = m
        BY <1>1, <1>3, <1>7, <2>2
      <3> QED
        BY <1>2, <1>4, <1>7, <3>1 DEF Sound, Grounded
    <2> QED
      BY <2>1, <2>2
  <1>8. Grounded(k)'
    BY <1>7 DEF Grounded
  <1> QED
    BY <1>1, <1>6, <1>8 DEF Sound

\* A step of an attempt leaves the live database sound, or none.
LEMMA TaskLiveSound ==
  ASSUME Base, Sure, SteadyInv, SureInv, Steadfast, [Next]_vars,
         NEW k \in Restores, TaskStep(k), Present(Live)', ~At(k, "landed")'
  PROVE  Sound(LiveDb)'
  <1>1. /\ Running(k) /\ Holds(k) /\ undo.phase = "idle"
        /\ \A j \in Restores \ {k} : ~Running(j)
    BY TaskRuns, Alone
  <1>2. ~UndoRenamesInAndExits
    BY <1>1 DEF UndoRenamesInAndExits, UndoAt
  <1>3. \A m \in Restores : DropOldAndExit(m) => m = k
    BY <1>1 DEF DropOldAndExit, At, Running
  <1> PICK d : d = LiveDb'
    OBVIOUS
  <1>4. ASSUME Sound(d), ~DropOldAndExit(k) \/ task[k].mode # "pre_restore_dump"
                           \/ \A r \in Ids : catalog[d][r].oldDb # k
        PROVE  Sound(LiveDb)'
    <2>1. Sound(d)'
      BY <1>2, <1>3, <1>4, SoundKept
    <2> QED
      BY <2>1 DEF Sound, Good, Grounded, Dumped, Done
  <1>5. CASE At(k, "landed")
    <2>1. LiveDb = k /\ k # NoDb
      BY <1>1, <1>5, Numbers DEF Holds, At
    <2>2. CarryOver(k)
      BY <1>5, <2>1, ExchangeSteps DEF CarryOverFails, Sure, Without, Present, LiveDb
    <2>3. Sound(k)' /\ named' = named
      BY <2>2, CarrySound DEF CarryOver
    <2>4. LiveDb' = k
      BY <2>1, <2>3 DEF LiveDb
    <2> QED
      BY <2>3, <2>4 DEF Sound, Good, Grounded, Dumped, Done
  <1>6. CASE PutBack(k)
    <2>1. At(k, "gap") /\ ~Present(Live)
      BY <1>1, <1>6 DEF PutBack, Holds, At
    <2>2. named' = Rename(Old(k), Live) /\ CanRename(Old(k), Live)
      BY <1>6, <2>1 DEF PutBack, Present
    <2>3. d = named[Old(k)] /\ named[Old(k)] # NoDb
      BY <2>2, Naming DEF Rename, CanRename, Present, LiveDb, Base, TypeOK
    <2>4. d = replaced[k]
      BY <2>3 DEF Base, Named
    <2>5. Sound(d) /\ ~DropOldAndExit(k)
      BY <2>1, <2>4 DEF SureInv, Attempt, At, DropOldAndExit
    <2> QED
      BY <1>4, <2>5
  <1>7. CASE ~At(k, "landed") /\ ~PutBack(k)
    <2>1. ~RenameIn(k)
      <3>1. RenameIn(k) => task'[k].phase = "landed"
        BY GotoEffect DEF RenameIn, Base, Executing
      <3> QED
        BY <3>1 DEF At
    <2>2. ~RenameAway(k) /\ named'[Live] = named[Live]
      <3>1. RenameAway(k) => ~Present(Live)'
        BY RenameEffect, Naming DEF RenameAway, Present, Base
      <3> QED
        BY <1>7, <2>1, <3>1, TaskLive
    <2>3. d = LiveDb /\ Present(Live)
      BY <2>2 DEF LiveDb, Present
    <2>4. Sound(d)
      BY <1>1, <1>7, <2>3, LiveIsSound DEF At, Running
    <2>5. ASSUME DropOldAndExit(k), task[k].mode = "pre_restore_dump"
          PROVE  \A r \in Ids : catalog[d][r].oldDb # k
      <3>1. At(k, "carried")
        BY <2>5 DEF DropOldAndExit
      <3>2. d = k
        BY <1>1, <2>3, <3>1 DEF Holds, At
      <3> QED
        BY <2>5, <3>1, <3>2 DEF SureInv, Attempt
    <2> QED
      BY <1>4, <2>4, <2>5
  <1> QED
    BY <1>5, <1>6, <1>7

\* So does a rollback.
LEMMA UndoLiveSound ==
  ASSUME Base, Sure, SteadyInv, SureInv, Steadfast, [Next]_vars, UndoStep, Present(Live)'
  PROVE  Sound(LiveDb)'
  <1>1. /\ undo.phase # "idle" /\ undo.from \in Restores
        /\ \A j \in Restores : ~Running(j)
    BY UndoNames DEF SteadyInv, Undoing
  <1>2. \A m \in Restores : ~DropOldAndExit(m) /\ ~At(m, "landed")
    BY <1>1 DEF DropOldAndExit, At, Running
  <1> PICK d, f : d = LiveDb' /\ f = undo.from
    OBVIOUS
  <1>3. ASSUME Sound(d), UndoRenamesInAndExits => \A r \in Ids : catalog[d][r].oldDb # f
        PROVE  Sound(LiveDb)'
    <2>1. Sound(d)'
      BY <1>2, <1>3, SoundKept
    <2> QED
      BY <2>1 DEF Sound, Good, Grounded, Dumped, Done
  <1>4. CASE UndoRenamesInAndExits
    <2>1. d = named[Old(f)] /\ named[Old(f)] # NoDb
      BY <1>4, UndoNames DEF Present
    <2>2. d = replaced[f] /\ f \in Restores
      BY <1>1, <2>1 DEF Base, Named
    <2>3. Sound(d) /\ d \in Db
      BY <1>1, <2>2 DEF SureInv, UndoSound, Sound
    <2>4. \A r \in Ids : catalog[d][r].oldDb # f
      BY <2>2, <2>3 DEF SureInv, Replacing
    <2> QED
      BY <1>3, <2>3, <2>4
  <1>5. CASE ~UndoRenamesInAndExits /\ d = LiveDb
    <2>1. Present(Live)
      BY <1>5 DEF Present, LiveDb
    <2>2. Sound(d)
      BY <1>2, <1>5, <2>1, LiveIsSound
    <2> QED
      BY <1>3, <1>5, <2>2
  <1>6. CASE ~UndoRenamesInAndExits /\ d # LiveDb
    <2>1. UndoPutsBack /\ d = named[Superseded(f)]
      <3>1. ~UndoRenamesAway
        BY UndoNames
      <3>2. CASE UndoPutsBack
        BY <1>6, <3>2, UndoNames
      <3>3. CASE ~UndoPutsBack
        BY <1>6, <3>1, <3>3, UndoNames DEF LiveDb
      <3> QED
        BY <3>2, <3>3
    <2>2. undo.phase = "gap"
      BY <2>1 DEF UndoPutsBack, UndoAt
    <2>3. Sound(d)
      BY <2>1, <2>2 DEF SureInv, UndoSound
    <2> QED
      BY <1>3, <1>6, <2>3
  <1> QED
    BY <1>4, <1>5, <1>6

LEMMA LiveSoundStep ==
  ASSUME Base, Sure, SteadyInv, SureInv, Steadfast, [Next]_vars
  PROVE  LiveSound'
  <1> SUFFICES ASSUME Present(Live)', \A k \in Restores : ~At(k, "landed")'
               PROVE  Sound(LiveDb)'
    BY DEF LiveSound
  <1>1. ASSUME NEW k \in Restores, TaskStep(k)
        PROVE  Sound(LiveDb)'
    BY <1>1, TaskLiveSound
  <1>2. CASE UndoStep
    BY <1>2, UndoLiveSound
  <1>3. CASE Crash
    BY <1>3 DEF Crash, Sure, Without
  <1>4. CASE UNCHANGED vars \/ (\E r \in Ids : StartRestore(r) \/ RollBack(r))
             \/ (\E r \in Backups : BackupCompletes(r)) \/ LiftMaintenance
    <2>1. named' = named
      BY <1>4, RequestEffect DEF vars
    <2>2. \A k \in Restores : ~At(k, "landed")
      <3>1. SUFFICES ASSUME NEW k \in Restores, At(k, "landed")
                     PROVE  task'[k].phase = "landed"
        BY DEF At
      <3>2. CASE task' = task
        BY <3>1, <3>2 DEF At
      <3>3. ASSUME NEW r, StartRestore(r)
            PROVE  task'[k].phase = "landed"
        <4>1. task' = [task EXCEPT ![tried + 1].phase = "checked", ![tried + 1].run = r]
          BY <3>3 DEF StartRestore
        <4>2. k # tried + 1
          BY <3>1, Underway, RestoreAssumption DEF At, Restores
        <4> QED
          BY <3>1, <4>1, <4>2 DEF At, Base, TypeOK
      <3> QED
        BY <1>4, <3>2, <3>3 DEF RollBack, BackupCompletes, LiftMaintenance, vars
    <2> PICK d : d = LiveDb
      OBVIOUS
    <2>3. Sound(d)
      BY <2>1, <2>2, LiveIsSound DEF Present
    <2>4. \A m \in Restores : ~DropOldAndExit(m) \/ \A r \in Ids : catalog[d][r].oldDb # m
                              \/ task[m].mode # "pre_restore_dump"
      <3>1. ASSUME NEW m \in Restores, DropOldAndExit(m), task[m].mode = "pre_restore_dump"
            PROVE  \A r \in Ids : catalog[d][r].oldDb # m
        <4>1. At(m, "carried")
          BY <3>1 DEF DropOldAndExit
        <4>2. d = m
          BY <4>1, Alone DEF Holds, At, Running
        <4> QED
          BY <3>1, <4>1, <4>2 DEF SureInv, Attempt
      <3> QED
        BY <3>1
    <2>5. ~UndoRenamesInAndExits
      BY <2>1 DEF UndoRenamesInAndExits, CanRename, Present
    <2>6. Sound(d)'
      BY <2>3, <2>4, <2>5, SoundKept
    <2>7. LiveDb' = d
      BY <2>1 DEF LiveDb
    <2> QED
      BY <2>6, <2>7 DEF Sound, Good, Grounded, Dumped, Done
  <1> QED
    BY <1>1, <1>2, <1>3, <1>4 DEF Next

\* A request is served only while nothing runs.
LEMMA RequestAlone ==
  ASSUME Base, Sure, SteadyInv, NEW r \in Ids, StartRestore(r) \/ RollBack(r)
  PROVE  Present(Live) /\ undo.phase = "idle" /\ \A k \in Restores : ~Running(k)
  <1>1. "overlap" \notin faults /\ Steady
    BY DEF Sure, Steady, Without
  <1>2. ASSUME NEW q, StartRestore(q)
        PROVE  Served /\ ~Raced /\ SlotFree
    BY <1>1, <1>2 DEF StartRestore
  <1>3. Served /\ ~Raced /\ (SlotFree \/ \A k \in Restores : ~Busy(k))
    <2>1. CASE StartRestore(r) \/ StartRestore(Rows[r].dump)
      BY <1>2, <2>1
    <2>2. CASE RollBack(r) /\ ~StartRestore(Rows[r].dump)
      BY <1>1, <2>2 DEF RollBack
    <2> QED
      BY <2>1, <2>2
  <1> QED
    BY <1>1, <1>3, NobodyRuns DEF Served, Base

\* A rollback that begins brings back a sound database.
LEMMA RollBackSound ==
  ASSUME Base, Sure, SteadyInv, SureInv, NEW r \in Ids, RollBack(r), undo' # undo
  PROVE  /\ UNCHANGED named /\ undo'.from \in Restores /\ undo'.phase = "checked"
         /\ Sound(replaced[undo'.from]) /\ Present(Old(undo'.from))
  <1> PICK m, d, e : m = Rows[r].oldDb /\ d = LiveDb /\ e = replaced[m]
    OBVIOUS
  <1>1. /\ m # 0 /\ Present(Old(m)) /\ UNCHANGED named
        /\ undo' = [phase |-> "checked", from |-> m]
    BY DEF RollBack, StartRestore
  <1>2. Present(Live) /\ \A k \in Restores : ~At(k, "landed")
    BY RequestAlone DEF At, Running
  <1>3. /\ d \in Db /\ Rows = catalog[d] /\ Sound(d)
    BY <1>2, LiveRows, LiveIsSound DEF Base
  <1>4. Gone(m) /\ Descends(catalog[d], m) /\ named[Old(m)] = e
    BY <1>1, <1>3 DEF SureInv, Tables, Table, Lineage, Sound, Grounded
  <1>5. m \in Restores /\ e \in Db
    BY <1>4 DEF Gone
  <1>6. Good(e)
    BY <1>5 DEF SureInv, Replacing
  <1>7. Grounded(e)
    <2>1. SUFFICES ASSUME NEW q \in Ids, catalog[e][q].oldDb # 0
                   PROVE  named[Old(catalog[e][q].oldDb)] = replaced[catalog[e][q].oldDb]
      BY DEF Grounded
    <2>2. catalog[d][q].oldDb = catalog[e][q].oldDb
      BY <1>4, <2>1 DEF Descends
    <2> QED
      BY <1>3, <2>1, <2>2 DEF Sound, Grounded
  <1> QED
    BY <1>1, <1>5, <1>6, <1>7 DEF Sound

LEMMA UndoSoundStep ==
  ASSUME Base, Sure, SteadyInv, SureInv, Steadfast, [Next]_vars
  PROVE  UndoSound'
  <1> SUFFICES ASSUME undo'.phase # "idle"
               PROVE  UndoSound'
    BY DEF UndoSound
  <1> PICK f, x, w : f = undo'.from /\ x = replaced[f] /\ w = named'[Superseded(f)]
    OBVIOUS
  <1>1. ~UndoRenamesInAndExits
    BY DEF UndoRenamesInAndExits
  <1>2. \A m \in Restores : ~DropOldAndExit(m)
    BY DEF DropOldAndExit
  <1>3. ASSUME NEW d, Sound(d)
        PROVE  Sound(d)'
    BY <1>1, <1>2, <1>3, SoundKept
  <1>4. ASSUME replaced' = replaced, Sound(x), named'[Old(f)] # NoDb,
               undo'.phase = "gap" => Sound(w)
        PROVE  UndoSound'
    <2>1. Sound(x)' /\ (undo'.phase = "gap" => Sound(w)')
      BY <1>3, <1>4
    <2>2. Sound(replaced[undo.from])'
      <3>1. replaced'[undo'.from] = x
        BY <1>4
      <3> QED
        BY <2>1, <3>1, ZenonT(60) DEF Sound, Good, Grounded, Dumped, Done
    <2>3. undo'.phase = "gap" => Sound(named[Superseded(undo.from)])'
      BY <2>1, ZenonT(60) DEF Sound, Good, Grounded, Dumped, Done
    <2> QED
      BY <1>4, <2>2, <2>3 DEF UndoSound, Present
  <1>5. CASE undo' = undo /\ UNCHANGED <<named, replaced>>
    <2>1. Sound(x) /\ named[Old(f)] # NoDb /\ (undo'.phase = "gap" => Sound(w))
      BY <1>5 DEF SureInv, UndoSound, Present
    <2> QED
      BY <1>4, <1>5, <2>1
  <1>6. ASSUME NEW r \in Ids, RollBack(r), undo' # undo
        PROVE  UndoSound'
    BY <1>4, <1>6, RollBackSound, RequestEffect DEF Present
  <1>7. CASE UndoStep
    <2>1. /\ undo.phase # "idle" /\ undo.from \in Restores /\ replaced' = replaced
          /\ \A j \in Restores : ~At(j, "landed")
      BY <1>7, UndoNames DEF SteadyInv, Undoing, Running, At
    <2>2. f = undo.from /\ named'[Old(f)] = named[Old(f)]
      BY <1>1, <1>7, UndoNames DEF Base, TypeOK
    <2>3. Sound(x) /\ named[Old(f)] # NoDb
      BY <2>1, <2>2 DEF SureInv, UndoSound, Present
    <2>4. undo'.phase = "gap" => Sound(w)
      <3>1. CASE UndoRenamesAway
        <4>1. Present(Live) /\ w = LiveDb
          BY <1>7, <2>2, <3>1, UndoNames
        <4> QED
          BY <2>1, <4>1, LiveIsSound
      <3>2. CASE ~UndoRenamesAway
        BY <1>1, <1>7, <3>2, UndoNames DEF Base, TypeOK
      <3> QED
        BY <3>1, <3>2
    <2> QED
      BY <1>4, <2>1, <2>2, <2>3, <2>4
  <1>8. ASSUME NEW k \in Restores, TaskStep(k)
        PROVE  UndoSound'
    <2>1. undo.phase = "idle"
      BY <1>8, TaskRuns, Alone
    <2>2. undo' = undo
      BY <1>2, <1>8 DEF TaskStep
    <2> QED
      BY <2>1, <2>2
  <1>9. CASE UNCHANGED vars
    BY <1>5, <1>9 DEF vars
  <1>10. CASE \/ \E r \in Ids : StartRestore(r) \/ (RollBack(r) /\ undo' = undo)
              \/ (\E r \in Backups : BackupCompletes(r)) \/ LiftMaintenance
    <2>1. undo' = undo
      BY <1>10 DEF StartRestore, BackupCompletes, LiftMaintenance
    <2>2. UNCHANGED <<named, replaced>>
      BY <1>10, RequestEffect
    <2> QED
      BY <1>5, <2>1, <2>2
  <1>11. CASE Crash
    BY <1>11 DEF Crash
  <1> QED
    BY <1>6, <1>7, <1>8, <1>9, <1>10, <1>11, SMTT(30) DEF Next

-----------------------------------------------------------------------------
(* What an attempt has made sure of, from step to step.                     *)

\* An attempt that is not under way has nothing to keep.
LEMMA AttemptRests ==
  ASSUME NEW k \in Restores, task'[k].phase \in {"idle", "ended"}
  PROVE  Attempt(k)'
  BY DEF Attempt, Running, At, Early

LEMMA AttemptUnchanged ==
  ASSUME NEW k \in Restores, Attempt(k),
         UNCHANGED <<named, catalog, archive, task, replaced, tried>>
  PROVE  Attempt(k)'
  <1>1. Undumped(k) => Undumped(k)'
    BY DEF Undumped
  <1>2. Dumped(k, Rows, LiveDb) => Dumped(k, Rows, LiveDb)'
    BY DEF Dumped, Rows, LiveDb, Present
  <1>3. /\ Loaded(k, Rows) => Loaded(k, Rows)'
        /\ Loaded(k, task[k].copy) => Loaded(k, task[k].copy)'
    BY DEF Loaded, Rows, LiveDb, Present
  <1>4. /\ CopyOf(k, LiveDb) => CopyOf(k, LiveDb)'
        /\ CopyOf(k, replaced[k]) => CopyOf(k, replaced[k])'
    BY DEF CopyOf, LiveDb, Orderly, Known, Named0, Dumped
  <1>5. Sound(replaced[k]) => Sound(replaced[k])'
    BY DEF Sound, Good, Grounded, Dumped, Done
  <1> QED
    BY <1>1, <1>2, <1>3, <1>4, <1>5 DEF Attempt, Running, At, Early, Rows, LiveDb, Present

\* An exported copy stays right as long as the table it was made from is firm.
LEMMA CopyStays ==
  ASSUME Base, Steadfast, NEW k \in Restores, NEW d \in Db, CopyOf(k, d), Firm(d),
         task'[k].copy = task[k].copy, task'[k].run = task[k].run, task'[k].mode = task[k].mode,
         task[k].run \in Ids
  PROVE  CopyOf(k, d)'
  <1> PICK copy, r : copy = task[k].copy /\ r = task[k].run
    OBVIOUS
  <1>1. /\ d \in Db \ {k} /\ Orderly(copy) /\ Known(copy) /\ r \in Ids
        /\ copy[r].restore = "completed" /\ copy[r].status # "absent"
        /\ copy[r].oldDb = Named0(k) /\ catalog[d][r].oldDb = 0
        /\ \A q \in Ids \ {r} : copy[q].oldDb = catalog[d][q].oldDb
        /\ task[k].mode = "pre_restore_dump" => Dumped(k, copy, d)
    BY DEF CopyOf
  <1>2. \A q \in Ids : catalog'[d][q].oldDb = catalog[d][q].oldDb
    BY DEF Firm
  <1>3. Known(copy)'
    BY <1>1 DEF Known, Steadfast
  <1>4. Orderly(copy)'
    BY <1>1 DEF Orderly
  <1>5. task[k].mode = "pre_restore_dump" => Dumped(k, copy, d)'
    <2>1. SUFFICES ASSUME Dumped(k, copy, d)
                   PROVE  Dumped(k, copy, d)'
      BY <1>1
    <2>2. archive[DumpOf(k)].db # NoDb /\ DumpOf(k) \in Ids
      BY <2>1, Numbers DEF Dumped
    <2> QED
      BY <2>1, <2>2 DEF Dumped, Steadfast
  <1> QED
    BY <1>1, <1>2, <1>3, <1>4, <1>5, ZenonT(40) DEF CopyOf, Named0, Known, Orderly, Dumped

\* A backup that completes takes nothing from an attempt under way.
LEMMA AttemptBackup ==
  ASSUME Base, Sure, SteadyInv, SureInv, Steadfast, [Next]_vars,
         NEW k \in Restores, Running(k), NEW x \in Backups, BackupCompletes(x)
  PROVE  Attempt(k)'
  <1>1. UNCHANGED <<named, task, replaced, tried>> /\ Present(Live)
    BY DEF BackupCompletes
  <1> PICK r, d, e : r = task[k].run /\ d = LiveDb /\ e = DumpOf(k)
    OBVIOUS
  <1>2. /\ \A b \in Db : Firm(b)
        /\ x \in Ids /\ d \in Db /\ Rows = catalog[d]
        /\ \A b \in Db : b # d => catalog'[b] = catalog[b]
        /\ \A q \in Ids \ {x} : catalog'[d][q] = catalog[d][q]
        /\ catalog'[d][x].restore = "none"
        /\ \A b \in Ids \ {x} : archive'[b] = archive[b]
        /\ archive'[x] = [db |-> d, rows |-> [Rows EXCEPT ![x].status = "incomplete"]]
    BY BackupFirm
  <1>3. catalog[d][x].status = "absent" /\ catalog'[d][x].status = "completed"
    <2>1. catalog'[d] = [catalog[d] EXCEPT ![x] = [NoRow EXCEPT !.status = "completed"]]
      BY <1>2 DEF BackupCompletes, Written, Base, TypeOK
    <2>2. catalog'[d][x] = [NoRow EXCEPT !.status = "completed"]
      BY <1>2, <2>1 DEF Base, TypeOK, Catalogs
    <2> QED
      BY <1>2, <2>2 DEF BackupCompletes, NoRow
  <1>4. /\ r \in Ids /\ e \in Ids /\ e # x /\ Attempt(k) /\ Holds(k) /\ undo.phase = "idle"
        /\ k \in Db
    BY Underway, Numbers, Alone DEF Running, SureInv
  <1>5. ~At(k, "gap")
    BY <1>1, <1>4 DEF Holds
  <1>6. Rows' = catalog'[d] /\ LiveDb' = d /\ (Present(Live)' <=> Present(Live))
    BY <1>1, RowsAfter
  <1>7. Undumped(k) => Undumped(k)'
    <2>1. ASSUME Undumped(k)
          PROVE  /\ \A b \in Db : catalog'[b][e].status = "absent"
                 /\ \A b \in Ids : archive'[b].rows[e].status = "absent"
                 /\ archive'[e].db = NoDb
      <3>1. /\ \A b \in Db : catalog[b][e].status = "absent"
            /\ \A b \in Ids : archive[b].rows[e].status = "absent"
            /\ archive[e].db = NoDb
        BY <2>1 DEF Undumped
      <3>2. \A b \in Db : catalog'[b][e].status = "absent"
        BY <1>2, <1>4, <3>1
      <3>3. archive'[x].rows[e].status = "absent"
        BY <1>2, <1>4, <3>1, LiveRows DEF Base, Catalogs
      <3>4. ASSUME NEW b \in Ids
            PROVE  archive'[b].rows[e].status = "absent"
        <4>1. CASE b = x
          BY <3>3, <4>1
        <4>2. CASE b # x
          <5>1. archive'[b] = archive[b]
            BY <1>2, <4>2
          <5> QED
            BY <3>1, <5>1
        <4> QED
          BY <4>1, <4>2
      <3>5. archive'[e].db = NoDb
        BY <1>2, <1>4, <3>1
      <3> QED
        BY <3>2, <3>4, <3>5
    <2> QED
      BY <2>1 DEF Undumped
  <1>8. Rows[r].status = "completed" => catalog'[d][r] = catalog[d][r]
    BY <1>2, <1>3, <1>4
  <1>9. Dumped(k, Rows, d) /\ Rows[r].status = "completed" => Dumped(k, Rows, d)'
    BY <1>1, <1>2, <1>3, <1>4, <1>6, <1>8 DEF Dumped
  <1>10. /\ Loaded(k, Rows) => Loaded(k, Rows)'
         /\ Loaded(k, task[k].copy) => Loaded(k, task[k].copy)'
    <2>1. \A q \in Ids : catalog'[k][q].oldDb = catalog[k][q].oldDb
      BY <1>2, <1>4 DEF Firm
    <2>2. \A q \in Ids : Rows[q].status # "absent" => Rows'[q].status # "absent"
      BY <1>2, <1>3, <1>6
    <2> QED
      BY <1>1, <2>1, <2>2 DEF Loaded
  <1>11. CopyOf(k, d) => CopyOf(k, d)'
    BY <1>1, <1>2, <1>4, CopyStays
  <1> PICK old : old = replaced[k]
    OBVIOUS
  <1>12. CopyOf(k, old) => CopyOf(k, old)'
    <2>1. CopyOf(k, old) => old \in Db
      BY DEF CopyOf
    <2> QED
      BY <1>1, <1>2, <1>4, <2>1, CopyStays
  <1>13. At(k, "landed") /\ Sound(old) => Sound(old)'
    <2>1. ~UndoRenamesInAndExits /\ \A m \in Restores : At(k, "landed") => ~DropOldAndExit(m)
      BY <1>4, Alone DEF UndoRenamesInAndExits, UndoAt, DropOldAndExit, At, Running
    <2> QED
      BY <2>1, SoundKept
  <1>14. task[k].phase \in {"checked", "quiet", "failing"} \cup Early /\ Present(Live) =>
           catalog'[d][r].restore # "completed"
    BY <1>2, <1>4 DEF Attempt
  <1>15. At(k, "carried") /\ task[k].mode = "pre_restore_dump" =>
           \A q \in Ids : catalog'[k][q].oldDb # k
    BY <1>2, <1>4 DEF Attempt, Firm
  <1>16. task[k].phase \in {"checked", "artifact", "dumping"} => Undumped(k)'
    BY <1>4, <1>7 DEF Attempt
  <1>17. task[k].phase \in {"checked"} \cup (Early \ {"exported"}) =>
           Rows[r].status = "completed" /\ Rows'[r].status = "completed"
    BY <1>2, <1>4, <1>6, <1>8 DEF Attempt
  <1>18. task[k].phase \in {"creating", "loading", "verifying", "exporting"}
           /\ task[k].mode = "pre_restore_dump" => Dumped(k, Rows, LiveDb)'
    <2>1. SUFFICES ASSUME task[k].phase \in {"creating", "loading", "verifying", "exporting"},
                          task[k].mode = "pre_restore_dump"
                   PROVE  Dumped(k, Rows, LiveDb)'
      OBVIOUS
    <2>2. Dumped(k, Rows, d)'
      BY <1>4, <1>9, <1>17, <2>1 DEF Attempt, Early
    <2> QED
      BY <1>6, <2>2 DEF Dumped
  <1>19. task[k].phase \in {"verifying", "exporting"} => Loaded(k, Rows)'
    BY <1>4, <1>10 DEF Attempt
  <1>20. task[k].phase \in {"exported", "quiet", "gap", "landed"} => Loaded(k, task[k].copy)'
    BY <1>4, <1>10 DEF Attempt
  <1>21. task[k].phase \in {"exported", "quiet"} => CopyOf(k, LiveDb)'
    <2>1. SUFFICES ASSUME task[k].phase \in {"exported", "quiet"}
                   PROVE  CopyOf(k, LiveDb)'
      OBVIOUS
    <2>2. CopyOf(k, d)'
      BY <1>4, <1>11, <2>1 DEF Attempt
    <2> QED
      BY <1>6, <2>2 DEF CopyOf, Dumped, Named0, Orderly, Known
  <1>22. At(k, "landed") => CopyOf(k, replaced[k])' /\ Sound(replaced[k])'
    <2>1. SUFFICES ASSUME At(k, "landed")
                   PROVE  CopyOf(k, replaced[k])' /\ Sound(replaced[k])'
      OBVIOUS
    <2>2. CopyOf(k, old)' /\ Sound(old)'
      BY <1>4, <1>12, <1>13, <2>1 DEF Attempt, At
    <2>3. replaced'[k] = old
      BY <1>1
    <2>4. CopyOf(k, replaced[k])'
      BY <2>2, <2>3 DEF CopyOf, Dumped, Named0, Orderly, Known
    <2>5. Sound(replaced[k])'
      BY <2>2, <2>3 DEF Sound, Good, Grounded, Dumped, Done
    <2> QED
      BY <2>4, <2>5
  <1>23. /\ Running(k)' => k = tried'
         /\ At(k, "dumping")' => task'[k].mode = "pre_restore_dump"
         /\ task'[k].phase \in {"landed", "carried"} => Present(Old(k))'
    BY <1>1, <1>4 DEF Attempt, Running, At, Present
  <1> QED
    BY <1>1, <1>5, <1>6, <1>14, <1>15, <1>16, <1>17, <1>18, <1>19, <1>20, <1>21, <1>22, <1>23
       DEF Attempt, At

LEMMA TaskFacts ==
  ASSUME Base, SteadyInv, SureInv, NEW k \in Restores, TaskStep(k)
  PROVE  /\ Running(k) /\ Holds(k) /\ Attempt(k) /\ tried' = tried /\ k = tried
         /\ undo.phase = "idle" /\ \A j \in Restores \ {k} : ~Running(j)
         /\ task[k].run \in Ids /\ task[k].run # DumpOf(k) /\ DumpOf(k) \in Ids
         /\ k \in Db /\ k # 0
         /\ Present(Live) => LiveDb \in Db /\ Rows = catalog[LiveDb]
  <1>1. Running(k)
    BY TaskRuns
  <1>2. task[k].run \in Ids /\ task[k].run < DumpOf(k) /\ DumpOf(k) \in Ids
        /\ task[k].run \in Nat /\ DumpOf(k) \in Nat
    BY <1>1, Underway, Numbers DEF Running
  <1>3. k \in Db /\ k # 0
    BY Numbers, RestoreAssumption DEF Restores
  <1>4. Attempt(k) /\ k = tried /\ tried' = tried
    BY <1>1 DEF TaskStep, SureInv, Attempt
  <1>5. task[k].run # DumpOf(k)
    BY <1>2
  <1>6. Holds(k) /\ undo.phase = "idle" /\ \A j \in Restores \ {k} : ~Running(j)
    BY <1>1, Alone
  <1>7. Present(Live) => LiveDb \in Db /\ Rows = catalog[LiveDb]
    BY LiveRows DEF Base
  <1> QED
    BY <1>1, <1>2, <1>3, <1>4, <1>5, <1>6, <1>7

\* Before the archive is loaded.
LEMMA EarlyAttempt ==
  ASSUME Base, Sure, SteadyInv, SureInv, NEW k \in Restores, TaskStep(k),
         PreflightAdmits(k) \/ VerifyArtifact(k) \/ TakeDump(k) \/ CreateScratch(k)
  PROVE  Attempt(k)'
  <1> PICK r, d, e : r = task[k].run /\ d = LiveDb /\ e = DumpOf(k)
    OBVIOUS
  <1>1. /\ Running(k) /\ Holds(k) /\ Attempt(k) /\ tried' = tried /\ k = tried
        /\ r \in Ids /\ r # e /\ e \in Ids
        /\ Present(Live) => d \in Db /\ Rows = catalog[d]
    BY TaskFacts
  <1>2. "dbFault" \notin faults
    BY DEF Sure, Without
  <1>3. CASE PreflightAdmits(k)
    <2>1. /\ At(k, "checked") /\ named' = named /\ archive' = archive
          /\ task'[k].phase = "artifact" /\ task'[k].run = r
      <3>1. PICK mode \in Modes : task' = [task EXCEPT ![k].phase = "artifact", ![k].mode = mode]
        BY <1>3 DEF PreflightAdmits
      <3>2. task'[k].phase = "artifact" /\ task'[k].run = r
        BY <3>1, TaskParts DEF Base, TypeOK, Task
      <3> QED
        BY <1>3, <3>2 DEF PreflightAdmits
    <2>2. /\ Present(Live) /\ Rows[r].status = "completed" /\ Undumped(k)
          /\ Rows[r].restore # "completed"
      BY <1>1, <2>1 DEF Holds, Attempt, At
    <2>3. PICK row : row = [Rows[r] EXCEPT !.restore = "restoring", !.oldDb = 0]
      OBVIOUS
    <2>4. Rows[r] \in Row
      BY <1>1, LiveRows DEF Base, Catalogs
    <2>5. /\ row \in Row /\ row.status = Rows[r].status /\ row.restore = "restoring"
      <3>1. 0 \in 0 .. MaxRestores
        BY Numbers
      <3> QED
        BY <2>3, <2>4, <3>1 DEF Row, ActiveStatuses
    <2>6. Write(r, row)
      BY <1>3, <2>3 DEF PreflightAdmits
    <2>7. /\ \A b \in Db, q \in Ids : catalog'[b][q].status = catalog[b][q].status
          /\ catalog'[d][r] = row
      BY <1>1, <1>2, <2>2, <2>5, <2>6, WriteEffect DEF Base
    <2>8. Rows' = catalog'[d]
      BY <2>1, <2>2, RowsAfter
    <2>9. Undumped(k)'
      BY <1>1, <2>1, <2>2, <2>7 DEF Undumped
    <2>10. Rows'[r].status = "completed" /\ Rows'[r].restore # "completed"
      BY <1>1, <2>2, <2>5, <2>7, <2>8
    <2> QED
      BY <1>1, <2>1, <2>9, <2>10 DEF Attempt, At, Running
  <1>4. CASE VerifyArtifact(k)
    <2>1. /\ At(k, "artifact") /\ UNCHANGED <<named, catalog, archive>>
      BY <1>4 DEF VerifyArtifact
    <2>2. PICK p \in {"dumping", "creating"} :
             Goto(k, p) /\ (p = "dumping" <=> task[k].mode = "pre_restore_dump")
      BY <1>4 DEF VerifyArtifact
    <2>3. task'[k].phase = p /\ task'[k].run = r /\ task'[k].mode = task[k].mode
      BY <2>2, GotoEffect DEF Base, Executing
    <2>4. Rows' = Rows /\ LiveDb' = d
      BY <2>1, RowsAfter
    <2>5. Undumped(k) /\ Rows[r].status = "completed"
          /\ (Present(Live) => Rows[r].restore # "completed")
      BY <1>1, <2>1 DEF Attempt, At, Early
    <2>6. Undumped(k)' /\ (Present(Live)' <=> Present(Live))
      BY <2>1, <2>5, RowsAfter DEF Undumped
    <2> QED
      BY <1>1, <2>2, <2>3, <2>4, <2>5, <2>6 DEF Attempt, At, Running
  <1>5. CASE TakeDump(k)
    <2>1. At(k, "dumping") /\ named' = named
      BY <1>5 DEF TakeDump
    <2>2. /\ task'[k].phase = "creating" /\ task'[k].run = r /\ task'[k].mode = task[k].mode
      BY <1>5, GotoEffect DEF TakeDump, Base, Executing
    <2>3. /\ d \in Db /\ Present(Live) /\ Rows = catalog[d]
          /\ catalog'[d][e] = [NoRow EXCEPT !.status = "completed"]
          /\ archive' = [archive EXCEPT ![e] =
               [db |-> d, rows |-> [Rows EXCEPT ![e].status = "incomplete"]]]
      BY <1>5, TakeDumpEffect
    <2>4. catalog'[d][r] = [catalog[d][r] EXCEPT !.dump = e]
      BY <1>2, <1>5, TakeDumpEffect
    <2>5. catalog[d][r] \in Row
      BY <1>1, <2>3 DEF Base, TypeOK, Catalogs
    <2>6. /\ catalog'[d][r].dump = e /\ catalog'[d][r].status = catalog[d][r].status
          /\ catalog'[d][r].restore = catalog[d][r].restore
      BY <2>4, <2>5 DEF Row
    <2>7. catalog'[d][e].status = "completed" /\ archive'[e].db = d
      BY <1>1, <2>3 DEF NoRow, Base, TypeOK
    <2>8. Rows' = catalog'[d] /\ LiveDb' = d
      BY <2>1, <2>3, RowsAfter
    <2>9. Dumped(k, Rows, LiveDb)'
      BY <2>2, <2>6, <2>7, <2>8 DEF Dumped
    <2>10. Rows[r].status = "completed" /\ Rows[r].restore # "completed"
      BY <1>1, <2>1, <2>3 DEF Attempt, At, Early
    <2> QED
      BY <1>1, <2>2, <2>3, <2>6, <2>8, <2>9, <2>10 DEF Attempt, At, Running
  <1>6. CASE CreateScratch(k)
    <2>1. /\ At(k, "creating") /\ UNCHANGED <<catalog, archive>>
          /\ named' = [named EXCEPT ![Scratch(k)] = k]
      BY <1>6 DEF CreateScratch
    <2>2. /\ task'[k].phase = "loading" /\ task'[k].run = r /\ task'[k].mode = task[k].mode
      BY <1>6, TaskParts DEF CreateScratch, Base, TypeOK, Task
    <2>3. named'[Live] = named[Live]
      BY <2>1, Naming DEF Base, TypeOK
    <2>4. LiveDb' = d /\ (Present(Live)' <=> Present(Live)) /\ Rows' = Rows
      BY <2>1, <2>3 DEF LiveDb, Present, Rows
    <2>5. /\ Rows[r].status = "completed"
          /\ (Present(Live) => Rows[r].restore # "completed")
          /\ task[k].mode = "pre_restore_dump" => Dumped(k, Rows, d)
      BY <1>1, <2>1 DEF Attempt, At, Early
    <2>6. task[k].mode = "pre_restore_dump" => Dumped(k, Rows, LiveDb)'
      BY <2>1, <2>2, <2>4, <2>5 DEF Dumped
    <2> QED
      BY <1>1, <2>2, <2>4, <2>5, <2>6 DEF Attempt, At, Running
  <1> QED
    BY <1>3, <1>4, <1>5, <1>6

\* From the load to the export.
LEMMA LoadAttempt ==
  ASSUME Base, Sure, SteadyInv, SureInv, NEW k \in Restores, TaskStep(k),
         LoadArchive(k) \/ BeginSwap(k)
  PROVE  Attempt(k)'
  <1> PICK r, d, e : r = task[k].run /\ d = LiveDb /\ e = DumpOf(k)
    OBVIOUS
  <1>1. /\ Running(k) /\ Holds(k) /\ Attempt(k) /\ tried' = tried /\ k = tried
        /\ r \in Ids /\ r # e /\ e \in Ids /\ k \in Db
        /\ Present(Live) => d \in Db /\ Rows = catalog[d]
    BY TaskFacts
  <1>2. "dbFault" \notin faults
    BY DEF Sure, Without
  <1>3. /\ task[k].phase \in {"loading", "verifying"} /\ Present(Live)
        /\ named' = named /\ archive' = archive
    BY <1>1 DEF LoadArchive, BeginSwap, At, Holds, Early, Taken
  <1>4. /\ Rows[r].status = "completed" /\ Rows[r].restore # "completed"
        /\ task[k].mode = "pre_restore_dump" => Dumped(k, Rows, d)
    BY <1>1, <1>3 DEF Attempt, At, Early
  <1>5. Rows' = catalog'[d] /\ LiveDb' = d /\ Rows = catalog[d] /\ d \in Db /\ d # k
    BY <1>1, <1>3, RowsAfter, LoadedApart DEF Loading
  <1>6. ASSUME \A q \in Ids : /\ catalog'[d][q].status = catalog[d][q].status
                              /\ catalog'[d][q].dump = catalog[d][q].dump,
               catalog'[d][r].restore # "completed", task'[k].phase \in {"verifying", "exporting"},
               task'[k].run = r, task'[k].mode = task[k].mode,
               \A q \in Ids : catalog'[k][q].oldDb # 0 => catalog[d][q].status # "absent"
        PROVE  Attempt(k)'
    <2>1. task[k].mode = "pre_restore_dump" => Dumped(k, Rows, LiveDb)'
      BY <1>1, <1>3, <1>4, <1>5, <1>6 DEF Dumped
    <2>2. Loaded(k, Rows)'
      BY <1>5, <1>6 DEF Loaded
    <2>3. Rows'[r].status = "completed" /\ Rows'[r].restore # "completed"
      BY <1>1, <1>4, <1>5, <1>6
    <2> QED
      BY <1>1, <1>6, <2>1, <2>2, <2>3 DEF Attempt, At, Running
  <1>7. CASE LoadArchive(k)
    <2>1. /\ task'[k].phase = "verifying" /\ task'[k].run = r /\ task'[k].mode = task[k].mode
      BY <1>7, GotoEffect DEF LoadArchive, Base, Executing
    <2>2. /\ catalog'[k] = archive[r].rows
          /\ \A q \in Ids : /\ catalog'[d][q].status = catalog[d][q].status
                            /\ catalog'[d][q].dump = catalog[d][q].dump
          /\ catalog'[d][r].restore # "completed"
      BY <1>7, LoadFirm
    <2>3. Orderly(archive[r].rows) /\ Known(catalog[d])
      BY <1>1, <1>5 DEF SureInv, Tables, Table
    <2>4. \A q \in Ids : catalog'[k][q].oldDb # 0 => catalog[d][q].status # "absent"
      BY <1>1, <1>4, <1>5, <2>2, <2>3 DEF Orderly, Known
    <2> QED
      BY <1>6, <2>1, <2>2, <2>4
  <1>8. CASE BeginSwap(k)
    <2>1. /\ task'[k].phase = "exporting" /\ task'[k].run = r /\ task'[k].mode = task[k].mode
          /\ At(k, "verifying") /\ WriteStatus(r, "swapping")
      BY <1>8, GotoEffect DEF BeginSwap, Base, Executing
    <2>2. /\ \A q \in Ids : /\ catalog'[d][q].status = catalog[d][q].status
                            /\ catalog'[d][q].dump = catalog[d][q].dump
          /\ catalog'[d][r].restore = "swapping" /\ catalog'[k] = catalog[k]
      BY <1>1, <1>2, <1>4, <1>5, <2>1, WriteStatusEffect DEF ActiveStatuses, Base
    <2>3. Loaded(k, Rows)
      BY <1>1, <2>1 DEF Attempt, At
    <2>4. \A q \in Ids : catalog'[k][q].oldDb # 0 => catalog[d][q].status # "absent"
      BY <1>5, <2>2, <2>3 DEF Loaded
    <2> QED
      BY <1>6, <2>1, <2>2, <2>4
  <1> QED
    BY <1>7, <1>8

\* The export, and the doors.
LEMMA ExportAttempt ==
  ASSUME Base, Sure, SteadyInv, SureInv, Steadfast, NEW k \in Restores, TaskStep(k),
         ExportCatalog(k) \/ CloseDoors(k)
  PROVE  Attempt(k)'
  <1> PICK r, d : r = task[k].run /\ d = LiveDb
    OBVIOUS
  <1>1. /\ Running(k) /\ Holds(k) /\ Attempt(k) /\ tried' = tried /\ k = tried
        /\ r \in Ids /\ k \in Db /\ k # 0 /\ DumpOf(k) \in Ids /\ r # DumpOf(k)
        /\ Present(Live) => d \in Db /\ Rows = catalog[d]
    BY TaskFacts
  <1>2. /\ task[k].phase \in {"exporting", "exported"} /\ Present(Live)
        /\ UNCHANGED <<named, archive, catalog>>
    BY <1>1 DEF ExportCatalog, CloseDoors, At, Holds, Early, Taken
  <1>3. Rows' = Rows /\ LiveDb' = d /\ Rows = catalog[d] /\ d \in Db /\ d # k
    BY <1>1, <1>2, RowsAfter, LoadedApart DEF Loading
  <1>4. Rows[r].restore # "completed"
    BY <1>1, <1>2 DEF Attempt, Early
  <1>5. ASSUME CopyOf(k, d)', Loaded(k, task[k].copy)', task'[k].run = r,
               task'[k].phase \in {"exported", "quiet"}
        PROVE  Attempt(k)'
    <2>1. LiveDb' = d
      BY <1>3
    <2>2. CopyOf(k, LiveDb)'
      BY <1>5, <2>1 DEF CopyOf, Dumped, Named0, Orderly, Known
    <2>3. Rows'[r].restore # "completed"
      BY <1>3, <1>4
    <2>4. k = tried'
      BY <1>1
    <2> QED
      BY <1>5, <2>2, <2>3, <2>4 DEF Attempt, At, Running, Early
  <1>6. CASE ExportCatalog(k)
    <2>1. At(k, "exporting")
      BY <1>6 DEF ExportCatalog
    <2> PICK row, copy : row = Audit(k) /\ copy = [Rows EXCEPT ![r] = row]
      OBVIOUS
    <2>2. Rows \in Catalogs /\ Rows[r] \in Row
      BY <1>1, LiveRows DEF Base, Catalogs
    <2>3. /\ row.restore = "completed" /\ row.oldDb = Named0(k)
          /\ row.status = Rows[r].status /\ row.dump = Rows[r].dump
      BY <2>2 DEF Audit, Named0, Row
    <2>4. /\ task'[k].copy = copy /\ task'[k].phase = "exported" /\ task'[k].run = r
          /\ task'[k].mode = task[k].mode
      BY <1>6, TaskParts DEF ExportCatalog, Base, TypeOK, Task
    <2>5. copy[r] = row /\ \A q \in Ids \ {r} : copy[q] = Rows[q]
      BY <1>1, <2>2 DEF Catalogs
    <2>6. /\ Rows[r].status = "completed" /\ Loaded(k, Rows)
          /\ task[k].mode = "pre_restore_dump" => Dumped(k, Rows, d)
      BY <1>1, <2>1 DEF Attempt, At, Early
    <2>7. Orderly(Rows) /\ Known(Rows) /\ Rows[r].oldDb = 0
      BY <1>2, <1>3, <2>1, RunRow DEF SureInv, Tables, Table, At, Early
    <2>8. \A q \in Ids : copy[q].status = Rows[q].status
      BY <2>3, <2>5
    <2>9. Orderly(copy)
      BY <1>1, <2>3, <2>5, <2>6, <2>7 DEF Orderly
    <2>10. Known(copy)
      BY <2>7, <2>8 DEF Known
    <2>11. task[k].mode = "pre_restore_dump" => Dumped(k, copy, d)
      BY <1>1, <2>3, <2>5, <2>6, <2>8 DEF Dumped
    <2>12. Loaded(k, copy)
      BY <2>6, <2>8 DEF Loaded
    <2>13. \A q \in Ids \ {r} : copy[q].oldDb = catalog[d][q].oldDb
      BY <1>3, <2>5
    <2>14. CopyOf(k, d)'
      <3>1. /\ catalog'[d][r].oldDb = 0 /\ copy[r].restore = "completed"
            /\ copy[r].status # "absent" /\ copy[r].oldDb = Named0(k)
            /\ \A q \in Ids \ {r} : copy[q].oldDb = catalog'[d][q].oldDb
        BY <1>2, <1>3, <2>3, <2>5, <2>6, <2>7, <2>13
      <3>2. Known(copy)' /\ Orderly(copy)'
        BY <1>2, <2>9, <2>10 DEF Known, Orderly
      <3>3. task'[k].mode = "pre_restore_dump" => Dumped(k, copy, d)'
        BY <1>2, <2>4, <2>11 DEF Dumped
      <3>4. Named0(k)' = Named0(k) /\ d \in Db \ {k}
        BY <1>3, <2>4 DEF Named0
      <3> QED
        BY <2>4, <3>1, <3>2, <3>3, <3>4 DEF CopyOf, Known, Orderly, Dumped
    <2>15. Loaded(k, task[k].copy)'
      BY <1>2, <2>4, <2>12 DEF Loaded
    <2> QED
      BY <1>5, <2>4, <2>14, <2>15
  <1>7. CASE CloseDoors(k)
    <2>1. At(k, "exported")
      BY <1>7 DEF CloseDoors
    <2>2. /\ task'[k].copy = task[k].copy /\ task'[k].phase = "quiet" /\ task'[k].run = r
          /\ task'[k].mode = task[k].mode
      BY <1>7, GotoEffect DEF CloseDoors, Base, Executing
    <2>3. CopyOf(k, d) /\ Loaded(k, task[k].copy)
      BY <1>1, <2>1 DEF Attempt, At
    <2>4. CopyOf(k, d)'
      BY <1>1, <1>2, <1>3, <2>2, <2>3, CopyStays, UnchangedFirm
    <2>5. Loaded(k, task[k].copy)'
      BY <1>2, <2>2, <2>3 DEF Loaded
    <2> QED
      BY <1>5, <2>2, <2>4, <2>5
  <1> QED
    BY <1>6, <1>7

\* The exchange.
LEMMA RenameAttempt ==
  ASSUME Base, Sure, SteadyInv, SureInv, Steadfast, [Next]_vars, NEW k \in Restores, TaskStep(k),
         RenameAway(k) \/ RenameIn(k)
  PROVE  Attempt(k)'
  <1> PICK r, d : r = task[k].run /\ d = replaced'[k]
    OBVIOUS
  <1>1. /\ Running(k) /\ Holds(k) /\ Attempt(k) /\ tried' = tried /\ k = tried
        /\ r \in Ids /\ k \in Db /\ undo.phase = "idle"
        /\ \A j \in Restores \ {k} : ~Running(j)
        /\ Present(Live) => LiveDb \in Db /\ Rows = catalog[LiveDb]
    BY TaskFacts
  <1>2. /\ UNCHANGED <<catalog, archive>>
    BY DEF RenameAway, RenameIn
  <1>3. ~UndoRenamesInAndExits /\ \A m \in Restores : ~DropOldAndExit(m)
    BY <1>1 DEF RenameAway, RenameIn, UndoRenamesInAndExits, UndoAt, DropOldAndExit, At, Running
  <1>4. ASSUME CopyOf(k, d), Loaded(k, task[k].copy), Sound(d), d \in Db,
               task'[k].copy = task[k].copy, task'[k].run = r, task'[k].mode = task[k].mode
        PROVE  CopyOf(k, replaced[k])' /\ Loaded(k, task[k].copy)' /\ Sound(replaced[k])'
    <2>1. CopyOf(k, d)' /\ Sound(d)'
      BY <1>1, <1>2, <1>3, <1>4, CopyStays, UnchangedFirm, SoundKept
    <2>2. CopyOf(k, replaced[k])'
      BY <2>1 DEF CopyOf, Dumped, Named0, Orderly, Known
    <2>3. Sound(replaced[k])'
      BY <2>1 DEF Sound, Good, Grounded, Dumped, Done
    <2>4. Loaded(k, task[k].copy)'
      BY <1>2, <1>4 DEF Loaded
    <2> QED
      BY <2>2, <2>3, <2>4
  <1>5. CASE RenameAway(k)
    <2>1. At(k, "quiet") /\ Present(Live) /\ d = LiveDb /\ d \in Db
      BY <1>5, TaskNames DEF RenameAway, CanRename
    <2>2. /\ task'[k].copy = task[k].copy /\ task'[k].phase = "gap" /\ task'[k].run = r
          /\ task'[k].mode = task[k].mode
      BY <1>5, GotoEffect DEF RenameAway, Base, Executing
    <2>3. CopyOf(k, d) /\ Loaded(k, task[k].copy) /\ catalog[d][r].restore # "completed"
      BY <1>1, <2>1 DEF Attempt, At
    <2>4. Sound(d)
      <3>1. \A j \in Restores : ~At(j, "landed")
        BY <1>1, <2>1 DEF At, Running
      <3> QED
        BY <2>1, <3>1, LiveIsSound
    <2>5. CopyOf(k, replaced[k])' /\ Loaded(k, task[k].copy)' /\ Sound(replaced[k])'
      BY <1>4, <2>1, <2>2, <2>3, <2>4
    <2>6. catalog'[replaced'[k]][task'[k].run].restore # "completed"
      BY <1>2, <2>2, <2>3
    <2> QED
      BY <1>1, <2>2, <2>5, <2>6 DEF Attempt, At, Running, Early
  <1>6. CASE RenameIn(k)
    <2>1. At(k, "gap") /\ replaced' = replaced /\ Present(Old(k))
      BY <1>1, <1>6 DEF RenameIn, Holds, At
    <2>2. /\ task'[k].copy = task[k].copy /\ task'[k].phase = "landed" /\ task'[k].run = r
          /\ task'[k].mode = task[k].mode
      BY <1>6, GotoEffect DEF RenameIn, Base, Executing
    <2>3. CopyOf(k, d) /\ Loaded(k, task[k].copy) /\ Sound(d)
      BY <1>1, <2>1 DEF Attempt, At
    <2>4. CopyOf(k, replaced[k])' /\ Loaded(k, task[k].copy)' /\ Sound(replaced[k])'
      BY <1>4, <2>2, <2>3 DEF Sound
    <2>5. named'[Old(k)] = named[Old(k)]
      <3>1. ~RenameAway(k) /\ ~PutBack(k) /\ ~DropOldAndExit(k)
        <4>1. ~RenameAway(k) /\ ~DropOldAndExit(k)
          BY <2>1 DEF RenameAway, DropOldAndExit, At
        <4>2. PutBack(k) => task'[k].phase = "failing"
          BY GotoEffect DEF PutBack, Base, Executing
        <4> QED
          BY <2>2, <4>1, <4>2
      <3> QED
        BY <3>1, TaskNames
    <2>6. Present(Old(k))'
      BY <2>1, <2>5 DEF Present
    <2> QED
      BY <1>1, <2>2, <2>4, <2>6 DEF Attempt, At, Running, Early
  <1> QED
    BY <1>5, <1>6

\* A failure, and the carry-over.
LEMMA OutcomeAttempt ==
  ASSUME Base, Sure, SteadyInv, SureInv, Steadfast, NEW k \in Restores, TaskStep(k),
         PutBack(k) \/ Throws(k) \/ CarryOver(k)
  PROVE  Attempt(k)'
  <1> PICK r : r = task[k].run
    OBVIOUS
  <1>1. /\ Running(k) /\ Holds(k) /\ Attempt(k) /\ tried' = tried /\ k = tried
        /\ r \in Ids /\ k \in Db /\ k # 0
        /\ Present(Live) => LiveDb \in Db /\ Rows = catalog[LiveDb]
    BY TaskFacts
  <1>2. ASSUME task'[k].phase = "failing", task'[k].run = r,
               Present(Live)' => Rows'[r].restore # "completed"
        PROVE  Attempt(k)'
    BY <1>1, <1>2 DEF Attempt, At, Running, Early
  <1>3. CASE Throws(k)
    <2>1. /\ task[k].phase \in {"quiet"} \cup Early /\ UNCHANGED <<named, catalog>>
          /\ task'[k].phase = "failing" /\ task'[k].run = r
      BY <1>3, GotoEffect DEF Throws, Base, Executing, Early
    <2>2. Present(Live) => Rows[r].restore # "completed"
      BY <1>1, <2>1 DEF Attempt, At
    <2> QED
      BY <1>2, <2>1, <2>2, RowsAfter
  <1>4. CASE PutBack(k)
    <2>1. /\ At(k, "gap") /\ ~Present(Live) /\ catalog' = catalog
          /\ task'[k].phase = "failing" /\ task'[k].run = r
      BY <1>1, <1>4, GotoEffect DEF PutBack, Base, Executing, Holds, At
    <2>2. CASE named' = named
      BY <1>2, <2>1, <2>2, RowsAfter
    <2>3. CASE named' = Rename(Old(k), Live) /\ CanRename(Old(k), Live)
      <3>1. named'[Live] = named[Old(k)] /\ named[Old(k)] # NoDb
        BY <2>3, Naming DEF Rename, CanRename, Present, Base, TypeOK
      <3>2. named'[Live] = replaced[k]
        BY <3>1 DEF Base, Named
      <3>3. Present(Live)' => Rows' = catalog[replaced[k]]
        BY <2>1, <3>2 DEF Rows, LiveDb
      <3>4. catalog[replaced[k]][r].restore # "completed"
        BY <1>1, <2>1 DEF Attempt
      <3> QED
        BY <1>2, <2>1, <3>3, <3>4
    <2> QED
      BY <1>4, <2>2, <2>3 DEF PutBack
  <1>5. CASE CarryOver(k)
    <2>1. /\ At(k, "landed") /\ named' = named
          /\ task'[k].phase = "carried" /\ task'[k].run = r /\ task'[k].mode = task[k].mode
      BY <1>5, GotoEffect DEF CarryOver, Base, Executing
    <2> PICK d, copy : d = replaced[k] /\ copy = task[k].copy
      OBVIOUS
    <2>2. CopyOf(k, d) /\ Present(Old(k))
      BY <1>1, <2>1 DEF Attempt, At
    <2>3. \A q \in Ids : catalog'[k][q].oldDb = copy[q].oldDb
      BY <1>5, CarriedRows
    <2>4. ASSUME task[k].mode = "pre_restore_dump", NEW q \in Ids
          PROVE  copy[q].oldDb # k
      <3>1. CASE q = r
        <4>1. copy[q].oldDb = 0
          BY <2>2, <2>4, <3>1 DEF CopyOf, Named0
        <4> QED
          BY <1>1, <4>1
      <3>2. CASE q # r
        BY <2>2, <3>2 DEF CopyOf, SureInv, Replacing
      <3> QED
        BY <3>1, <3>2
    <2>5. Present(Old(k))'
      BY <2>1, <2>2 DEF Present
    <2> QED
      BY <1>1, <2>1, <2>3, <2>4, <2>5 DEF Attempt, At, Running, Early
  <1> QED
    BY <1>3, <1>4, <1>5

\* A restore that starts: its dump is not yet known anywhere.
LEMMA StartAttempt ==
  ASSUME Base, Sure, SteadyInv, SureInv, NEW r \in Ids, StartRestore(r), NEW k \in Restores
  PROVE  Attempt(k)'
  <1>1. \A j \in Restores : ~Running(j)
    BY RequestAlone
  <1> PICK x : x = tried + 1
    OBVIOUS
  <1>2. /\ tried \in Nat /\ x \in Restores /\ x \in Nat /\ x > tried
    BY RestoreAssumption DEF StartRestore, Base, TypeOK, Restores
  <1>3. /\ task' = [task EXCEPT ![x].phase = "checked", ![x].run = r]
        /\ tried' = x /\ UNCHANGED <<named, catalog, archive>>
        /\ Rows[r].status = "completed" /\ Rows[r].restore # "completed"
    BY DEF StartRestore, Sure, Without
  <1>4. CASE k # x
    <2>1. task'[k] = task[k]
      BY <1>2, <1>3, <1>4 DEF Base, TypeOK
    <2> QED
      BY <1>1, <2>1, AttemptRests DEF Running
  <1>5. CASE k = x
    <2>1. task'[k].phase = "checked" /\ task'[k].run = r
      BY <1>2, <1>3, <1>5, TaskParts DEF Base, TypeOK, Task
    <2>2. DumpOf(k) \in Ids /\ ~(DumpOf(k) <= NBackups + tried)
      BY <1>2, <1>5, Numbers
    <2>3. Undumped(k)
      BY <2>2 DEF Undumped, Base, Fresh, Numbered, SureInv, Filed
    <2>4. Undumped(k)' /\ Rows' = Rows
      BY <1>3, <2>3, RowsAfter DEF Undumped
    <2> QED
      BY <1>3, <1>5, <2>1, <2>4 DEF Attempt, At, Running
  <1> QED
    BY <1>4, <1>5

\* Every step of an attempt keeps what it has made sure of.
LEMMA OwnStep ==
  ASSUME Base, Sure, SteadyInv, SureInv, Steadfast, [Next]_vars, NEW k \in Restores, TaskStep(k)
  PROVE  Attempt(k)'
  <1>1. CASE PreflightAdmits(k) \/ VerifyArtifact(k) \/ TakeDump(k) \/ CreateScratch(k)
    BY <1>1, EarlyAttempt
  <1>2. CASE LoadArchive(k) \/ BeginSwap(k)
    BY <1>2, LoadAttempt
  <1>3. CASE ExportCatalog(k) \/ CloseDoors(k)
    BY <1>3, ExportAttempt
  <1>4. CASE RenameAway(k) \/ RenameIn(k)
    BY <1>4, RenameAttempt
  <1>5. CASE PutBack(k) \/ Throws(k) \/ CarryOver(k)
    BY <1>5, OutcomeAttempt
  <1>6. CASE CarryOverFails(k)
    <2>1. LiveDb = k /\ Present(Live)
      BY <1>6, TaskFacts, Numbers DEF CarryOverFails, Holds, At, Present, LiveDb
    <2> QED
      BY <1>6, <2>1 DEF CarryOverFails, Sure, Without
  <1>7. CASE PreflightRefuses(k) \/ DropScratch(k)
    <2>1. task'[k].phase = "ended"
      BY <1>7, GotoEffect DEF PreflightRefuses, DropScratch, Base
    <2> QED
      BY <2>1, AttemptRests
  <1>8. CASE MarkFailed(k)
    <2>1. task'[k].phase \in {"dropping", "ended"}
      <3>1. PICK p \in {"dropping", "ended"} : Goto(k, p)
        BY <1>8 DEF MarkFailed
      <3> QED
        BY <3>1, GotoEffect DEF Base, Executing
    <2>2. tried' = tried /\ k = tried
      BY TaskFacts
    <2> QED
      BY <2>1, <2>2 DEF Attempt, At, Running, Early
  <1>9. CASE DropOldAndExit(k)
    BY <1>9, StoppedEffect, AttemptRests DEF DropOldAndExit, Base
  <1> QED
    BY <1>1, <1>2, <1>3, <1>4, <1>5, <1>6, <1>7, <1>8, <1>9 DEF TaskStep

LEMMA AttemptStep ==
  ASSUME Base, Sure, SteadyInv, SureInv, Steadfast, [Next]_vars, NEW k \in Restores
  PROVE  Attempt(k)'
  <1>1. Attempt(k)
    BY DEF SureInv
  <1>2. CASE UNCHANGED vars \/ LiftMaintenance
    <2>1. UNCHANGED <<named, catalog, archive, task, replaced, tried>>
      BY <1>2 DEF vars, LiftMaintenance
    <2> QED
      BY <1>1, <2>1, AttemptUnchanged
  <1>3. ASSUME NEW r \in Ids, StartRestore(r) \/ RollBack(r)
        PROVE  Attempt(k)'
    <2>1. CASE \E q \in Ids : StartRestore(q)
      BY <2>1, StartAttempt
    <2>2. CASE ~\E q \in Ids : StartRestore(q)
      <3>1. Rows[r].dump # 0 => Rows[r].dump \in Ids
        <4>1. Rows[r] \in Row
          BY LiveRows DEF Base, Catalogs
        <4> QED
          BY <4>1, RestoreAssumption DEF Row, Ids
      <3>2. UNCHANGED <<named, catalog, archive, task, replaced, tried>>
        BY <1>3, <2>2, <3>1 DEF RollBack
      <3> QED
        BY <1>1, <3>2, AttemptUnchanged
    <2> QED
      BY <2>1, <2>2
  <1>4. ASSUME NEW r \in Backups, BackupCompletes(r)
        PROVE  Attempt(k)'
    <2>1. CASE Running(k)
      BY <1>4, <2>1, AttemptBackup
    <2>2. CASE ~Running(k)
      <3>1. task'[k].phase \in {"idle", "ended"}
        BY <1>4, <2>2 DEF BackupCompletes, Running
      <3> QED
        BY <3>1, AttemptRests
    <2> QED
      BY <2>1, <2>2
  <1>5. ASSUME NEW j \in Restores, TaskStep(j)
        PROVE  Attempt(k)'
    <2>1. CASE k = j
      BY <1>5, <2>1, OwnStep
    <2>2. CASE k # j
      <3>1. ~Running(k)
        BY <1>5, <2>2, TaskFacts
      <3>2. task'[k].phase \in {"idle", "ended"}
        <4>1. CASE DropOldAndExit(j)
          BY <4>1, StoppedEffect DEF DropOldAndExit, Base
        <4>2. CASE ~DropOldAndExit(j)
          BY <1>5, <2>2, <3>1, <4>2, TaskScratch DEF Running
        <4> QED
          BY <4>1, <4>2
      <3> QED
        BY <3>2, AttemptRests
    <2> QED
      BY <2>1, <2>2
  <1>6. CASE UndoStep
    <2>1. ~Running(k)
      BY <1>6, UndoNames DEF SteadyInv, Undoing
    <2>2. task'[k].phase \in {"idle", "ended"}
      BY <1>6, <2>1, UndoNames DEF Running
    <2> QED
      BY <2>2, AttemptRests
  <1>7. CASE Crash
    BY <1>7 DEF Crash, Sure, Without
  <1> QED
    BY <1>2, <1>3, <1>4, <1>5, <1>6, <1>7 DEF Next

LEMMA SureStep ==
  ASSUME Base, Base', Sure, SteadyInv, SureInv, [Next]_vars
  PROVE  SureInv'
  <1>1. Steadfast
    BY SteadfastStep
  <1> QED
    BY <1>1, TablesStep, ReplacingStep, FiledStep, LiveSoundStep, UndoSoundStep, AttemptStep
       DEF SureInv

LEMMA SureInit ==
  ASSUME Init
  PROVE  SureInv
  <1>1. /\ named = [n \in Names |-> IF n = Live THEN 0 ELSE NoDb]
        /\ catalog = [d \in Db |-> IF d = 0 THEN TakenBy(0, {1} \cap Backups) ELSE NoRows]
        /\ archive = [r \in Ids |-> IF r \in {1} \cap Backups
                                    THEN [db |-> 0, rows |-> TakenBy(1, {})] ELSE NoArchive]
        /\ task = [k \in Restores |-> NoTask] /\ undo.phase = "idle"
        /\ replaced = [k \in Restores |-> NoDb] /\ tried = 0
    BY DEF Init
  <1>2. 0 \in Db /\ NoDb \notin Db /\ NoDb # 0 /\ NBackups \in Nat
    BY RestoreAssumption DEF Db, NoDb
  <1>3. \A S : \A q, r \in Ids :
          /\ TakenBy(r, S)[q].oldDb = 0
          /\ TakenBy(r, S)[q].restore = "none"
          /\ TakenBy(r, S)[q].status =
               IF q \in S THEN "completed"
               ELSE IF q = r THEN "incomplete" ELSE "absent"
    BY DEF TakenBy, NoRow
  <1>4. \A S : \A q \in Ids :
          /\ TakenBy(0, S)[q].oldDb = 0
          /\ TakenBy(0, S)[q].restore = "none"
          /\ TakenBy(0, S)[q].status = IF q \in S THEN "completed" ELSE "absent"
    BY RestoreAssumption DEF TakenBy, NoRow, Ids
  <1>5. \A q \in Ids : NoRows[q].oldDb = 0 /\ NoRows[q].status = "absent"
    BY DEF NoRows, NoRow
  <1>6. \A b \in Ids : IF b \in {1} \cap Backups
                       THEN archive[b] = [db |-> 0, rows |-> TakenBy(1, {})]
                       ELSE archive[b] = NoArchive
    BY <1>1
  <1>7. ASSUME NEW d \in Db
        PROVE  Table(catalog[d])
    <2>1. \A q \in Ids : catalog[d][q].oldDb = 0
      BY <1>1, <1>4, <1>5
    <2>2. ASSUME NEW b \in Ids, catalog[d][b].status = "completed"
          PROVE  /\ archive[b].db # NoDb
                 /\ \A r \in Ids : archive[b].rows[r].status # "absent" =>
                      catalog[d][r].status # "absent"
      <3>1. d = 0 /\ b \in {1} \cap Backups
        BY <1>1, <1>4, <1>5, <2>2
      <3>2. archive[b].db = 0 /\ archive[b].rows = TakenBy(1, {})
        BY <1>6, <3>1
      <3>3. \A r \in Ids : archive[b].rows[r].status # "absent" => r = 1
        <4>1. 1 \in Ids
          BY <3>1
        <4>2. \A r \in Ids : TakenBy(1, {})[r].status = IF r = 1 THEN "incomplete" ELSE "absent"
          BY DEF TakenBy, NoRow
        <4> QED
          BY <3>2, <4>2
      <3> QED
        BY <1>2, <2>2, <3>1, <3>2, <3>3
    <2> QED
      BY <2>1, <2>2 DEF Table, Orderly, Known, Lineage
  <1>8. ASSUME NEW b \in Ids
        PROVE  Table(archive[b].rows)
    <2>1. \A q \in Ids : archive[b].rows[q].oldDb = 0 /\ archive[b].rows[q].status # "completed"
      <3>1. CASE b \in {1} \cap Backups
        <4>1. 1 \in Ids /\ archive[b].rows = TakenBy(1, {})
          BY <1>6, <3>1
        <4>2. \A q \in Ids : /\ TakenBy(1, {})[q].oldDb = 0
                              /\ TakenBy(1, {})[q].status =
                                   IF q = 1 THEN "incomplete" ELSE "absent"
          BY DEF TakenBy, NoRow
        <4> QED
          BY <4>1, <4>2
      <3>2. CASE b \notin {1} \cap Backups
        BY <1>5, <1>6, <3>2 DEF NoArchive
      <3> QED
        BY <3>1, <3>2
    <2> QED
      BY <2>1 DEF Table, Orderly, Known, Lineage
  <1>9. Replacing
    BY <1>1, <1>2 DEF Replacing
  <1>10. Filed
    <2>1. SUFFICES ASSUME NEW b \in Ids, archive[b].db # NoDb
                   PROVE  b <= NBackups + tried
      BY DEF Filed
    <2>2. b \in {1} \cap Backups
      BY <1>6, <2>1 DEF NoArchive
    <2> QED
      BY <1>1, <1>2, <2>2 DEF Backups
  <1>11. Live \in Names
    BY DEF Names
  <1>12. LiveDb = 0 /\ Sound(0)
    <2>1. LiveDb = 0
      BY <1>1, <1>11 DEF LiveDb
    <2>2. \A q \in Ids : catalog[0][q].oldDb = 0
      BY <1>1, <1>2, <1>4
    <2> QED
      BY <1>2, <2>1, <2>2 DEF Sound, Good, Grounded
  <1>13. \A k \in Restores : Attempt(k)
    BY <1>1, RowsAreRows DEF Attempt, Running, At, Early
  <1> QED
    BY <1>1, <1>7, <1>8, <1>9, <1>10, <1>12, <1>13 DEF SureInv, Tables, LiveSound, UndoSound

\* Undoable: as long as requests are served one at a time, the audit and the
\* catalog are written and the exchange ends in this process, a live database
\* that an attempt loaded has the audit row of its own restore, and that row
\* leads to the database it replaced: by name, or by a completed dump of it.
THEOREM RestoreUndoable == Spec => []Undoable
  <1> DEFINE I == Base /\ (Sure => SteadyInv /\ SureInv)
  <1>1. Init => I
    BY BaseInit, SteadyInit, SureInit
  <1>2. I /\ [Next]_vars => I'
    <2> SUFFICES ASSUME I, [Next]_vars
                 PROVE  I'
      OBVIOUS
    <2>1. Base'
      BY BaseStep
    <2>2. ASSUME Sure'
          PROVE  SteadyInv' /\ SureInv'
      <3>1. Sure /\ Steady
        BY <2>2, FaultsStay DEF Sure, Steady, Without
      <3> QED
        BY <2>1, <3>1, SteadyStep, SureStep
    <2> QED
      BY <2>1, <2>2
  <1>3. I => Undoable
    <2> PICK k, r : k = LiveDb /\ r = task[k].run
      OBVIOUS
    <2> SUFFICES ASSUME Base, SteadyInv, SureInv, Present(Live), k # 0, ~At(k, "landed")
                 PROVE  LET row == catalog[k][r] IN
                        /\ row.restore = "completed"
                        /\ \/ row.oldDb = k /\ named[Old(k)] = replaced[k]
                           \/ /\ row.oldDb = 0 /\ row.dump # 0
                              /\ archive[row.dump].db = replaced[k]
                              /\ catalog[k][row.dump].status = "completed"
      BY DEF Undoable, Sure
    <2>1. \A j \in Restores : ~At(j, "landed")
      BY DEF SteadyInv, Holds, At
    <2>2. Sound(k)
      BY <2>1, LiveIsSound
    <2>3. k \in Restores
      BY <2>2, RestoreAssumption DEF Sound, Db, Restores
    <2>4. r \in Ids
      BY <2>2, <2>3, Underway DEF Sound, Good, Done
    <2>5. DumpOf(k) # 0 /\ DumpOf(k) \in Ids
      BY <2>3, Numbers, RestoreAssumption DEF Ids
    <2> QED
      BY <2>2, <2>4, <2>5 DEF Sound, Good, Grounded, Dumped
  <1> HIDE DEF I
  <1> QED
    BY <1>1, <1>2, <1>3, PTL DEF Spec
=============================================================================
