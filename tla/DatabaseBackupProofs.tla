------------------------- MODULE DatabaseBackupProofs -------------------------
(***************************************************************************)
(* Proofs about DatabaseBackup, for any number of processes, runs, days,   *)
(* requests and crashes, and every setting.                                *)
(*                                                                         *)
(* Nearly every step changes one run, one tick or the request being        *)
(* served.  RunOK, TickOK and AdminOK are what is invariantly true of each *)
(* of them; what a tick or a request relies on of a run is never undone    *)
(* (Lawful), whatever the other processes do.                              *)
(***************************************************************************)
EXTENDS DatabaseBackup, FiniteSetTheorems, WellFoundedInduction, TLAPS

Landed(r) == exec[r].phase \in {"idle", "succeeded"}
Settled(r) == ~Live(r) /\ r \notin late
Erased(r) == object[r] = "none" /\ Settled(r)
Completed(r) == row[r].status = "completed"
IsRoutine(r) == row[r].trigger # "pre_restore"

\* What may change the archive of a run after an administrator removed it
Airborne == ~Without({"lapse", "lateCancel", "lateUpload"})

Untouched(r) ==
  /\ exec[r].phase = "idle" /\ object[r] = "none" /\ fate[r] = "kept"
  /\ r \notin late /\ ~row[r].keyed

RunOK(r) ==
  /\ r > lastRun <=> row[r].status = "absent"
  /\ r > lastRun => Untouched(r)
  /\ Completed(r) => Landed(r)
  /\ r \in late => /\ exec[r].phase \in {"dropping", "closing", "failed"}
                   /\ "lateUpload" \in Hazards
  /\ \/ object[r] # "none"
     \/ exec[r].phase \in {"streaming", "uploaded", "reading"}
     \/ r \in late
     => row[r].keyed
  /\ Attended /\ Live(r) => Active(r) /\ ~row[r].quiet
  /\ Attended /\ ((Completed(r) /\ fate[r] = "kept") \/ exec[r].phase = "reading")
       => object[r] = "whole"
  /\ fate[r] = "removed" => Erased(r) \/ Airborne
  /\ row[r].status = "deleted" =>
       \/ Erased(r)
       \/ fate[r] = "abandoned"
       \/ fate[r] = "removed" /\ Airborne

TickOK(p) ==
  /\ tick[p].phase \in {"releasing", "clearing", "awaiting", "removing"}
       => tick[p].run \in 1 .. lastRun
  /\ tick[p].todo \subseteq 1 .. lastRun
  /\ \A r \in tick[p].todo : Landed(r) /\ (IsRoutine(r) <=> tick[p].rule = "count")
  /\ Attended /\ tick[p].phase \in {"releasing", "clearing"} => ~Live(tick[p].run)
  /\ Attended /\ tick[p].phase = "clearing" => ~Completed(tick[p].run)
  /\ tick[p].phase = "removing" => Erased(tick[p].run) /\ fate[tick[p].run] # "kept"

AdminOK ==
  /\ admin.op # "none" => admin.run \in 1 .. lastRun
  /\ Attended /\ admin.op # "none" => ~Live(admin.run)
  /\ admin.op # "none" => Settled(admin.run) \/ Airborne
  /\ Attended /\ admin.op \in {"cancel", "dropping", "closing"} => ~Completed(admin.run)
  /\ admin.op = "remove" => fate[admin.run] \in {"removed", "abandoned"}

OneActive == \A q, r \in Runs : Active(q) /\ Active(r) => q = r

Inv ==
  /\ TypeOK /\ OneActive /\ AdminOK
  /\ \A r \in Runs : RunOK(r)
  /\ \A p \in Procs : TickOK(p)

\* What no step takes away from a run that was claimed
Lasting(r) ==
  /\ Live(r)' => Live(r)
  /\ Landed(r) => Landed(r)'
  /\ Settled(r) => Settled(r)'
  /\ Erased(r) => Erased(r)'
  /\ Active(r)' => Active(r)
  /\ Completed(r)' => Completed(r) \/ Live(r)
  /\ Attended /\ Completed(r)' => Completed(r) \/ Active(r)
  /\ Attended /\ Completed(r) => row'[r].status \in {"completed", "deleted"}
  /\ row[r].status = "deleted" => row'[r].status = "deleted"
  /\ fate[r] # "kept" => fate'[r] # "kept"
  /\ fate[r] \in {"removed", "abandoned"} => fate'[r] \in {"removed", "abandoned"}
  /\ Attended /\ fate'[r] = "kept" /\ Restorable(r) => Restorable(r)'
  /\ row'[r].trigger = row[r].trigger /\ row'[r].day = row[r].day

Lawful(r) ==
  /\ r <= lastRun => Lasting(r)
  /\ r > lastRun => row'[r].status \in {"absent", "running"}

-----------------------------------------------------------------------------
(* The state of one run.                                                    *)

Statuses == {"running", "completed", "failed", "stale"} \cup Gone
Phases == LivePhases \cup {"idle", "succeeded", "failed"}
Archives == {"none", "partial", "whole"}
Fates == {"kept", "pruned", "removed", "abandoned"}

RunTypes ==
  /\ late \subseteq Runs
  /\ row \in [Runs -> Row] /\ object \in [Runs -> Archives]
  /\ exec \in [Runs -> Exec] /\ fate \in [Runs -> Fates]

SameRun(q) ==
  /\ row'[q] = row[q] /\ object'[q] = object[q] /\ exec'[q] = exec[q]
  /\ fate'[q] = fate[q] /\ (q \in late' <=> q \in late)
Only(r) == \A q \in Runs \ {r} : SameRun(q)

Frame == setting' = setting /\ lastRun' = lastRun

\* A step that changes nothing but run r, and that lawfully
Moves(r) == RunTypes' /\ Only(r) /\ RunOK(r)' /\ Lawful(r)

RowBecomes(r, st, keyed, quiet) ==
  /\ row' \in [Runs -> Row] /\ \A q \in Runs \ {r} : row'[q] = row[q]
  /\ row'[r].status = st /\ row'[r].keyed = keyed /\ row'[r].quiet = quiet
  /\ row'[r].trigger = row[r].trigger /\ row'[r].day = row[r].day

LEMMA RowPut ==
  ASSUME row \in [Runs -> Row], NEW r \in Runs, NEW w \in Row, row' = [row EXCEPT ![r] = w],
         w.trigger = row[r].trigger, w.day = row[r].day
  PROVE  RowBecomes(r, w.status, w.keyed, w.quiet)
BY DEF RowBecomes

LEMMA StatusPut ==
  ASSUME row \in [Runs -> Row], NEW r \in Runs, NEW st \in Statuses,
         row' = [row EXCEPT ![r].status = st]
  PROVE  RowBecomes(r, st, row[r].keyed, row[r].quiet)
<1>1. PICK w : w = [row[r] EXCEPT !.status = st]
  OBVIOUS
<1>2. /\ w \in Row /\ w.status = st /\ w.keyed = row[r].keyed /\ w.quiet = row[r].quiet
      /\ w.trigger = row[r].trigger /\ w.day = row[r].day
  <2>1. row[r] \in Row
    OBVIOUS
  <2>. QED
    BY <1>1, <2>1 DEF Row, Statuses
<1>3. row' = [row EXCEPT ![r] = w]
  BY <1>1
<1>. QED
  BY <1>2, <1>3, RowPut

LEMMA KeyPut ==
  ASSUME row \in [Runs -> Row], NEW r \in Runs, row' = [row EXCEPT ![r].keyed = TRUE]
  PROVE  RowBecomes(r, row[r].status, TRUE, row[r].quiet)
<1>1. PICK w : w = [row[r] EXCEPT !.keyed = TRUE]
  OBVIOUS
<1>2. /\ w \in Row /\ w.status = row[r].status /\ w.keyed = TRUE /\ w.quiet = row[r].quiet
      /\ w.trigger = row[r].trigger /\ w.day = row[r].day
  <2>1. row[r] \in Row
    OBVIOUS
  <2>. QED
    BY <1>1, <2>1 DEF Row, Statuses
<1>3. row' = [row EXCEPT ![r] = w]
  BY <1>1
<1>. QED
  BY <1>2, <1>3, RowPut

LEMMA QuietPut ==
  ASSUME row \in [Runs -> Row], NEW r \in Runs, NEW b \in BOOLEAN,
         row' = [row EXCEPT ![r].quiet = b]
  PROVE  RowBecomes(r, row[r].status, row[r].keyed, b)
<1>1. PICK w : w = [row[r] EXCEPT !.quiet = b]
  OBVIOUS
<1>2. /\ w \in Row /\ w.status = row[r].status /\ w.keyed = row[r].keyed /\ w.quiet = b
      /\ w.trigger = row[r].trigger /\ w.day = row[r].day
  <2>1. row[r] \in Row
    OBVIOUS
  <2>. QED
    BY <1>1, <2>1 DEF Row, Statuses
<1>3. row' = [row EXCEPT ![r] = w]
  BY <1>1
<1>. QED
  BY <1>2, <1>3, RowPut

LEMMA EnterPut ==
  ASSUME exec \in [Runs -> Exec], NEW r \in Runs, NEW ph \in Phases, Enter(r, ph)
  PROVE  /\ exec' \in [Runs -> Exec] /\ \A q \in Runs \ {r} : exec'[q] = exec[q]
         /\ exec'[r].phase = ph /\ exec'[r].proc = exec[r].proc
BY DEF Enter, Exec, Phases, LivePhases
-----------------------------------------------------------------------------
(* Sets of natural numbers.                                                 *)

LEMMA LeastExists ==
  ASSUME NEW S \in SUBSET Nat, S # {}
  PROVE  \E m \in S : \A n \in S : m <= n
<1>1. PICK m \in S : \A n \in S : <<n, m>> \notin OpToRel(<, Nat)
  BY NatLessThanWellFounded, WFMin
<1>2. \A n \in S : ~(n < m)
  BY <1>1 DEF OpToRel
<1>. QED
  BY <1>2

-----------------------------------------------------------------------------
(* The steps of an execution.                                               *)

LEMMA RunFacts ==
  ASSUME Inv, NEW r \in Runs
  PROVE  /\ RunTypes /\ RunOK(r) /\ lastRun \in Nat /\ r \in Nat \ {0}
         /\ row[r] \in Row /\ row[r].status \in Statuses /\ row[r].keyed \in BOOLEAN
         /\ exec[r].phase \in Phases /\ object[r] \in Archives /\ fate[r] \in Fates
BY BackupAssumption DEF Inv, TypeOK, RunTypes, Archives, Fates, Exec, Phases, Row, Statuses, Runs

LEMMA KeyMoves ==
  ASSUME Inv, Frame, NEW r \in Runs, RecordKey(r)
  PROVE  Moves(r)
<1>. USE RunFacts
<1>1. RowBecomes(r, row[r].status, TRUE, row[r].quiet)
  BY KeyPut DEF RecordKey, RunTypes
<1>2. Only(r) /\ RunTypes'
  BY <1>1 DEF RecordKey, Only, SameRun, RunTypes, RowBecomes
<1>3. RunOK(r)' /\ Lawful(r)
  BY <1>1 DEF RecordKey, RowBecomes, RunOK, Lawful, Lasting, Frame, Untouched, Live, LivePhases,
     Landed, Settled, Erased, Completed, Active, Exists, Attended, Without, Hazards,
     Airborne, Restorable, Gone
<1>. QED
  BY <1>2, <1>3 DEF Moves

LEMMA BeginMoves ==
  ASSUME Inv, Frame, NEW r \in Runs, BeginDump(r)
  PROVE  Moves(r)
<1>. USE RunFacts
<1>1. exec[r].phase = "starting" /\ row[r].keyed /\ UNCHANGED <<row, fate, late>>
  BY DEF BeginDump
<1>2. /\ exec' \in [Runs -> Exec] /\ \A q \in Runs \ {r} : exec'[q] = exec[q]
      /\ exec'[r].phase = "streaming"
  BY EnterPut DEF BeginDump, RunTypes, Phases, LivePhases
<1>3. /\ object' \in [Runs -> Archives] /\ \A q \in Runs \ {r} : object'[q] = object[q]
  BY DEF BeginDump, RunTypes, Archives
<1>4. Only(r) /\ RunTypes'
  BY <1>1, <1>2, <1>3 DEF Only, SameRun, RunTypes
<1>5. RunOK(r)' /\ Lawful(r)
  BY <1>1, <1>2 DEF RunOK, Lawful, Lasting, Frame, Untouched, Live, LivePhases,
     Landed, Settled, Erased, Completed, Active, Exists, Attended, Without, Hazards,
     Airborne, Restorable, Gone
<1>. QED
  BY <1>4, <1>5 DEF Moves

LEMMA BeatMoves ==
  ASSUME Inv, Frame, NEW r \in Runs, Heartbeat(r)
  PROVE  Moves(r)
<1>. USE RunFacts
<1>1. RowBecomes(r, row[r].status, row[r].keyed, FALSE)
  BY QuietPut DEF Heartbeat, Beat, RunTypes
<1>2. Only(r) /\ RunTypes'
  BY <1>1 DEF Heartbeat, Only, SameRun, RunTypes, RowBecomes
<1>3. RunOK(r)' /\ Lawful(r)
  BY <1>1 DEF Heartbeat, RowBecomes, RunOK, Lawful, Lasting, Frame, Untouched, Live, LivePhases,
     Landed, Settled, Erased, Completed, Active, Exists, Attended, Without, Hazards,
     Airborne, Restorable, Gone
<1>. QED
  BY <1>2, <1>3 DEF Moves

LEMMA UploadMoves ==
  ASSUME Inv, Frame, NEW r \in Runs, FinishUpload(r)
  PROVE  Moves(r)
<1>. USE RunFacts
<1>1. exec[r].phase = "streaming" /\ UNCHANGED <<fate, late>>
  BY DEF FinishUpload
<1>2. /\ exec' \in [Runs -> Exec] /\ \A q \in Runs \ {r} : exec'[q] = exec[q]
      /\ exec'[r].phase = "uploaded"
  BY EnterPut DEF FinishUpload, RunTypes, Phases, LivePhases
<1>3. /\ object' \in [Runs -> Archives] /\ \A q \in Runs \ {r} : object'[q] = object[q]
  BY DEF FinishUpload, RunTypes, Archives
<1>4. RowBecomes(r, row[r].status, row[r].keyed, FALSE)
  BY QuietPut DEF FinishUpload, Beat, RunTypes
<1>5. Only(r) /\ RunTypes'
  BY <1>1, <1>2, <1>3, <1>4 DEF Only, SameRun, RunTypes, RowBecomes
<1>6. RunOK(r)' /\ Lawful(r)
  BY <1>1, <1>2, <1>4 DEF RowBecomes, RunOK, Lawful, Lasting, Frame, Untouched, Live, LivePhases,
     Landed, Settled, Erased, Completed, Active, Exists, Attended, Without, Hazards,
     Airborne, Restorable, Gone
<1>. QED
  BY <1>5, <1>6 DEF Moves

LEMMA OpenMoves ==
  ASSUME Inv, Frame, NEW r \in Runs, OpenArchive(r)
  PROVE  Moves(r)
<1>. USE RunFacts
<1>1. /\ exec[r].phase = "uploaded" /\ object[r] = "whole"
      /\ UNCHANGED <<row, object, fate, late>>
  BY DEF OpenArchive
<1>2. /\ exec' \in [Runs -> Exec] /\ \A q \in Runs \ {r} : exec'[q] = exec[q]
      /\ exec'[r].phase = "reading"
  BY EnterPut DEF OpenArchive, RunTypes, Phases, LivePhases
<1>3. Only(r) /\ RunTypes'
  BY <1>1, <1>2 DEF Only, SameRun, RunTypes
<1>4. RunOK(r)' /\ Lawful(r)
  BY <1>1, <1>2 DEF RunOK, Lawful, Lasting, Frame, Untouched, Live, LivePhases,
     Landed, Settled, Erased, Completed, Active, Exists, Attended, Without, Hazards,
     Airborne, Restorable, Gone
<1>. QED
  BY <1>3, <1>4 DEF Moves

LEMMA CompleteMoves ==
  ASSUME Inv, Frame, NEW r \in Runs, Complete(r)
  PROVE  Moves(r)
<1>. USE RunFacts
<1>1. /\ exec[r].phase = "reading" /\ Exists(r)
      /\ UNCHANGED <<object, fate, late>>
  BY DEF Complete
<1>2. /\ exec' \in [Runs -> Exec] /\ \A q \in Runs \ {r} : exec'[q] = exec[q]
      /\ exec'[r].phase = "succeeded"
  BY EnterPut DEF Complete, RunTypes, Phases, LivePhases
<1>3. RowBecomes(r, "completed", row[r].keyed, FALSE)
  <2>1. PICK w : w = [row[r] EXCEPT !.status = "completed", !.quiet = FALSE]
    OBVIOUS
  <2>2. /\ w \in Row /\ w.status = "completed" /\ w.keyed = row[r].keyed /\ w.quiet = FALSE
        /\ w.trigger = row[r].trigger /\ w.day = row[r].day
    BY <2>1 DEF Row, Gone
  <2>3. row' = [row EXCEPT ![r] = w]
    BY <2>1 DEF Complete, RunTypes
  <2>. QED
    BY <2>2, <2>3, RowPut DEF RunTypes
<1>4. Only(r) /\ RunTypes'
  BY <1>1, <1>2, <1>3 DEF Only, SameRun, RunTypes, RowBecomes
<1>5. RunOK(r)' /\ Lawful(r)
  BY <1>1, <1>2, <1>3 DEF RowBecomes, RunOK, Lawful, Lasting, Frame, Untouched, Live, LivePhases,
     Landed, Settled, Erased, Completed, Active, Exists, Attended, Without, Hazards,
     Airborne, Restorable, Gone
<1>. QED
  BY <1>4, <1>5 DEF Moves

LEMMA FailMoves ==
  ASSUME Inv, Frame, NEW r \in Runs, FailRun(r)
  PROVE  Moves(r)
<1>. USE RunFacts
<1>1. /\ exec[r].phase \in {"starting", "streaming", "uploaded", "reading"}
      /\ UNCHANGED <<row, object, fate>>
      /\ \/ late' = late
         \/ exec[r].phase = "streaming" /\ "lateUpload" \in Hazards /\ late' = late \cup {r}
  BY DEF FailRun
<1>2. /\ exec' \in [Runs -> Exec] /\ \A q \in Runs \ {r} : exec'[q] = exec[q]
      /\ exec'[r].phase = "dropping"
  BY EnterPut DEF FailRun, RunTypes, Phases, LivePhases
<1>3. Only(r) /\ RunTypes'
  BY <1>1, <1>2 DEF Only, SameRun, RunTypes
<1>4. RunOK(r)' /\ Lawful(r)
  BY <1>1, <1>2 DEF RunOK, Lawful, Lasting, Frame, Untouched, Live, LivePhases,
     Landed, Settled, Erased, Completed, Active, Exists, Attended, Without, Hazards,
     Airborne, Restorable, Gone
<1>. QED
  BY <1>3, <1>4 DEF Moves

LEMMA DropMoves ==
  ASSUME Inv, Frame, NEW r \in Runs, DropPartial(r)
  PROVE  Moves(r)
<1>. USE RunFacts
<1>1. exec[r].phase = "dropping" /\ UNCHANGED <<row, fate, late>>
  BY DEF DropPartial
<1>2. /\ exec' \in [Runs -> Exec] /\ \A q \in Runs \ {r} : exec'[q] = exec[q]
      /\ exec'[r].phase = "closing"
  BY EnterPut DEF DropPartial, RunTypes, Phases, LivePhases
<1>3. /\ object' \in [Runs -> Archives] /\ object'[r] \in {object[r], "none"}
      /\ \A q \in Runs \ {r} : object'[q] = object[q]
  BY DEF DropPartial, TryDelete, DeleteObject, RunTypes, Archives
<1>4. Only(r) /\ RunTypes'
  BY <1>1, <1>2, <1>3 DEF Only, SameRun, RunTypes
<1>5. RunOK(r)' /\ Lawful(r)
  BY <1>1, <1>2, <1>3 DEF RunOK, Lawful, Lasting, Frame, Untouched, Live, LivePhases,
     Landed, Settled, Erased, Completed, Active, Exists, Attended, Without, Hazards,
     Airborne, Restorable, Gone
<1>. QED
  BY <1>4, <1>5 DEF Moves

\* WriteFailed by an execution or a request
LEMMA FailedPut ==
  ASSUME RunTypes, NEW r \in Runs, WriteFailed(r)
  PROVE  \/ row' = row
         \/ Exists(r) /\ RowBecomes(r, "failed", row[r].keyed, row[r].quiet)
BY StatusPut DEF WriteFailed, RunTypes, Statuses

LEMMA CloseMoves ==
  ASSUME Inv, Frame, NEW r \in Runs, CloseFailed(r)
  PROVE  Moves(r)
<1>. USE RunFacts
<1>1. exec[r].phase = "closing" /\ UNCHANGED <<object, fate, late>>
  BY DEF CloseFailed
<1>2. /\ exec' \in [Runs -> Exec] /\ \A q \in Runs \ {r} : exec'[q] = exec[q]
      /\ exec'[r].phase = "failed"
  BY EnterPut DEF CloseFailed, RunTypes, Phases, LivePhases
<1>3. \/ row' = row
      \/ Exists(r) /\ RowBecomes(r, "failed", row[r].keyed, row[r].quiet)
  BY FailedPut DEF CloseFailed
<1>4. Only(r) /\ RunTypes'
  BY <1>1, <1>2, <1>3 DEF Only, SameRun, RunTypes, RowBecomes
<1>5. RunOK(r)' /\ Lawful(r)
  BY <1>1, <1>2, <1>3 DEF RowBecomes, RunOK, Lawful, Lasting, Frame, Untouched, Live, LivePhases,
     Landed, Settled, Erased, Completed, Active, Exists, Attended, Without, Hazards,
     Airborne, Restorable, Gone
<1>. QED
  BY <1>4, <1>5 DEF Moves

LEMMA LandMoves ==
  ASSUME Inv, NEW r \in Runs, LandUpload(r)
  PROVE  Moves(r)
<1>. USE RunFacts
<1>1. /\ r \in late /\ late' = late \ {r}
      /\ UNCHANGED <<setting, row, exec, lastRun, fate>>
  BY DEF LandUpload
<1>2. /\ object' \in [Runs -> Archives] /\ \A q \in Runs \ {r} : object'[q] = object[q]
  BY DEF LandUpload, RunTypes, Archives
<1>3. Only(r) /\ RunTypes'
  BY <1>1, <1>2 DEF Only, SameRun, RunTypes
<1>4. RunOK(r)' /\ Lawful(r)
  BY <1>1, <1>2 DEF RunOK, Lawful, Lasting, Frame, Untouched, Live, LivePhases,
     Landed, Settled, Erased, Completed, Active, Exists, Attended, Without, Hazards,
     Airborne, Restorable, Gone
<1>. QED
  BY <1>3, <1>4 DEF Moves

LEMMA QuietMoves ==
  ASSUME Inv, NEW r \in Runs, GoQuiet(r)
  PROVE  Moves(r)
<1>. USE RunFacts
<1>1. RowBecomes(r, row[r].status, row[r].keyed, TRUE)
  BY QuietPut DEF GoQuiet, RunTypes
<1>2. Only(r) /\ RunTypes'
  BY <1>1 DEF GoQuiet, Only, SameRun, RunTypes, RowBecomes
<1>3. RunOK(r)' /\ Lawful(r)
  BY <1>1 DEF GoQuiet, RowBecomes, RunOK, Lawful, Lasting, Frame, Untouched, Live, LivePhases,
     Landed, Settled, Erased, Completed, Active, Exists, Attended, Without, Hazards,
     Airborne, Restorable, Gone
<1>. QED
  BY <1>2, <1>3 DEF Moves

-----------------------------------------------------------------------------
(* What ticks and requests do to a run.                                     *)

LEMMA StaleMoves ==
  ASSUME Inv, Frame, NEW r \in Runs, Active(r), Attended => ~Live(r),
         row' = [row EXCEPT ![r].status = "stale"], UNCHANGED <<object, exec, fate, late>>
  PROVE  Moves(r) /\ ~Completed(r)'
<1>. USE RunFacts
<1>1. RowBecomes(r, "stale", row[r].keyed, row[r].quiet)
  BY StatusPut DEF RunTypes, Statuses
<1>2. Only(r) /\ RunTypes'
  BY <1>1 DEF Only, SameRun, RunTypes, RowBecomes
<1>3. RunOK(r)' /\ Lawful(r)
  BY <1>1 DEF RowBecomes, RunOK, Lawful, Lasting, Frame, Untouched, Live, LivePhases,
     Landed, Settled, Erased, Completed, Active, Exists, Attended, Without, Hazards,
     Airborne, Restorable, Gone
<1>. QED
  BY <1>1, <1>2, <1>3 DEF Moves, RowBecomes, Completed

LEMMA FailedMoves ==
  ASSUME Inv, Frame, NEW r \in Runs, Attended => ~Live(r) /\ ~Completed(r),
         WriteFailed(r), UNCHANGED <<object, exec, fate, late>>
  PROVE  Moves(r)
<1>. USE RunFacts
<1>1. \/ row' = row
      \/ Exists(r) /\ RowBecomes(r, "failed", row[r].keyed, row[r].quiet)
  BY FailedPut
<1>2. Only(r) /\ RunTypes'
  BY <1>1 DEF Only, SameRun, RunTypes, RowBecomes
<1>3. RunOK(r)' /\ Lawful(r)
  BY <1>1 DEF RowBecomes, RunOK, Lawful, Lasting, Frame, Untouched, Live, LivePhases,
     Landed, Settled, Erased, Completed, Active, Exists, Attended, Without, Hazards,
     Airborne, Restorable, Gone
<1>. QED
  BY <1>2, <1>3 DEF Moves

LEMMA WipeMoves ==
  ASSUME Inv, Frame, NEW r \in Runs, Attended => ~Live(r) /\ ~Completed(r),
         object' = object \/ DeleteObject(r), UNCHANGED <<row, exec, fate, late>>
  PROVE  Moves(r)
<1>. USE RunFacts
<1>1. /\ object' \in [Runs -> Archives] /\ object'[r] \in {object[r], "none"}
      /\ \A q \in Runs \ {r} : object'[q] = object[q]
  BY DEF DeleteObject, RunTypes, Archives
<1>2. Only(r) /\ RunTypes'
  BY <1>1 DEF Only, SameRun, RunTypes
<1>3. RunOK(r)' /\ Lawful(r)
  BY <1>1 DEF RunOK, Lawful, Lasting, Frame, Untouched, Live, LivePhases,
     Landed, Settled, Erased, Completed, Active, Exists, Attended, Without, Hazards,
     Airborne, Restorable, Gone
<1>. QED
  BY <1>2, <1>3 DEF Moves

LEMMA PruneMoves ==
  ASSUME Inv, Frame, NEW r \in Runs, r <= lastRun, Landed(r),
         object' = object \/ DeleteObject(r), UNCHANGED <<row, exec, late>>,
         fate' = [fate EXCEPT ![r] = IF @ = "kept" THEN "pruned" ELSE @]
  PROVE  Moves(r) /\ fate'[r] # "kept"
<1>. USE RunFacts
<1>1. /\ object' \in [Runs -> Archives] /\ object'[r] \in {object[r], "none"}
      /\ \A q \in Runs \ {r} : object'[q] = object[q]
  BY DEF DeleteObject, RunTypes, Archives
<1>2. /\ fate' \in [Runs -> Fates] /\ \A q \in Runs \ {r} : fate'[q] = fate[q]
      /\ fate'[r] = IF fate[r] = "kept" THEN "pruned" ELSE fate[r]
  BY DEF RunTypes, Fates
<1>3. Only(r) /\ RunTypes'
  BY <1>1, <1>2 DEF Only, SameRun, RunTypes
<1>4. RunOK(r)' /\ Lawful(r)
  BY <1>1, <1>2 DEF RunOK, Lawful, Lasting, Frame, Untouched, Live, LivePhases,
     Landed, Settled, Erased, Completed, Active, Exists, Attended, Without, Hazards,
     Airborne, Restorable, Gone
<1>. QED
  BY <1>2, <1>3, <1>4 DEF Moves

LEMMA RemoveMoves ==
  ASSUME Inv, Frame, NEW r \in Runs, Attended => ~Live(r), fate[r] # "kept",
         Erased(r) \/ fate[r] = "abandoned" \/ (fate[r] = "removed" /\ Airborne),
         RemoveRow(r), UNCHANGED <<object, exec, fate, late>>
  PROVE  Moves(r)
<1>. USE RunFacts
<1>1. Exists(r) /\ RowBecomes(r, "deleted", row[r].keyed, row[r].quiet)
  BY StatusPut DEF RemoveRow, RunTypes, Statuses, Gone
<1>2. Only(r) /\ RunTypes'
  BY <1>1 DEF Only, SameRun, RunTypes, RowBecomes
<1>3. RunOK(r)' /\ Lawful(r)
  BY <1>1 DEF RowBecomes, RunOK, Lawful, Lasting, Frame, Untouched, Live, LivePhases,
     Landed, Settled, Erased, Completed, Active, Exists, Attended, Without, Hazards,
     Airborne, Restorable, Gone
<1>. QED
  BY <1>2, <1>3 DEF Moves

LEMMA DeleteMoves ==
  ASSUME Inv, Frame, NEW r \in Runs, r = admin.run, DeleteDrops
  PROVE  Moves(r) /\ fate'[r] \in {"removed", "abandoned"}
<1>. USE RunFacts
<1>1. /\ r <= lastRun /\ (Attended => ~Live(r)) /\ (Settled(r) \/ Airborne)
      /\ UNCHANGED <<row, exec, late>>
  BY DEF Inv, AdminOK, DeleteDrops
<1>2. /\ object' \in [Runs -> Archives] /\ \A q \in Runs \ {r} : object'[q] = object[q]
      /\ fate' \in [Runs -> Fates] /\ \A q \in Runs \ {r} : fate'[q] = fate[q]
      /\ \/ fate'[r] = "removed" /\ object'[r] = IF row[r].keyed THEN "none" ELSE object[r]
         \/ fate'[r] = "abandoned" /\ object'[r] = object[r]
  BY DEF DeleteDrops, DeleteObject, RunTypes, Archives, Fates
<1>3. Only(r) /\ RunTypes'
  BY <1>1, <1>2 DEF Only, SameRun, RunTypes
<1>4. RunOK(r)' /\ Lawful(r)
  BY <1>1, <1>2 DEF RunOK, Lawful, Lasting, Frame, Untouched, Live, LivePhases,
     Landed, Settled, Erased, Completed, Active, Exists, Attended, Without, Hazards,
     Airborne, Restorable, Gone
<1>. QED
  BY <1>2, <1>3, <1>4 DEF Moves

-----------------------------------------------------------------------------
(* What a step does to all runs.                                            *)

Advances ==
  /\ RunTypes' /\ OneActive' /\ setting' = setting
  /\ lastRun' \in lastRun .. MaxRuns
  /\ \A r \in Runs : RunOK(r)' /\ Lawful(r)

LEMMA SameRunLawful ==
  ASSUME Inv, Frame, NEW r \in Runs, SameRun(r)
  PROVE  RunOK(r)' /\ Lawful(r)
BY RunFacts DEF RunOK, SameRun, Lawful, Lasting, Frame, Untouched, Live, LivePhases,
   Landed, Settled, Erased, Completed, Active, Exists, Attended, Without, Hazards,
   Airborne, Restorable, Gone

LEMMA MovesAdvance ==
  ASSUME Inv, Frame, NEW r \in Runs, Moves(r)
  PROVE  Advances
<1>1. \A q \in Runs : RunOK(q)' /\ Lawful(q)
  BY SameRunLawful DEF Moves, Only
<1>2. \A q \in Runs : Active(q)' => Active(q)
  <2> SUFFICES ASSUME NEW q \in Runs, Active(q)' PROVE Active(q)
    OBVIOUS
  <2>1. q > lastRun => ~Active(q)'
    BY <1>1 DEF RunOK, Frame, Active
  <2>. QED
    BY <1>1, <2>1, RunFacts, BackupAssumption DEF Lawful, Lasting, Runs
<1>3. OneActive'
  BY <1>2 DEF Inv, OneActive
<1>. QED
  BY <1>1, <1>3, BackupAssumption DEF Inv, TypeOK, Advances, Moves, Frame

LEMMA SameAdvance ==
  ASSUME Inv, Frame, UNCHANGED <<row, object, exec, fate, late>>
  PROVE  Advances
<1>1. \A q \in Runs : RunOK(q)' /\ Lawful(q)
  BY SameRunLawful DEF SameRun
<1>2. RunTypes' /\ OneActive'
  BY RunFacts DEF Inv, OneActive, Active, TypeOK, RunTypes, Archives, Fates
<1>. QED
  BY <1>1, <1>2, BackupAssumption DEF Inv, TypeOK, Advances, Frame

LEMMA ClaimAdvances ==
  ASSUME Inv, NEW p \in Procs, NEW trigger \in Triggers, Claim(p, trigger),
         setting' = setting, UNCHANGED <<object, fate, late>>
  PROVE  Advances /\ lastRun' = lastRun + 1 /\ lastRun' \in Runs
<1> DEFINE n == lastRun + 1
<1>1. lastRun' = n /\ n \in Runs /\ lastRun \in Nat
  BY BackupAssumption DEF Claim, Inv, TypeOK, Setting, Runs
<1>2. PICK w : w = [status |-> "running", trigger |-> trigger, keyed |-> FALSE,
                    quiet |-> FALSE, day |-> day]
  OBVIOUS
<1>3. w \in Row
  BY <1>2 DEF Row, Inv, TypeOK
<1>4. row' = [row EXCEPT ![n] = w]
  BY <1>2 DEF Claim
<1>5. PICK x : x = [phase |-> "starting", proc |-> p]
  OBVIOUS
<1>6. x \in Exec
  BY <1>5 DEF Exec, LivePhases
<1>7. exec' = [exec EXCEPT ![n] = x]
  BY <1>5 DEF Claim
<1>8. RunTypes' /\ Only(n)
  BY <1>1, <1>3, <1>4, <1>6, <1>7 DEF Inv, TypeOK, RunTypes, Only, SameRun, Archives, Fates
<1>9. row'[n] = w /\ exec'[n] = x
  BY <1>1, <1>4, <1>7 DEF Inv, TypeOK
<1>10. ASSUME NEW q \in Runs PROVE RunOK(q)' /\ Lawful(q)
  <2>1. CASE q = n
    <3>1. ~Active(n) /\ row[n].status = "absent" /\ Untouched(n)
      BY <1>1, RunFacts DEF RunOK, Active
    <3>. QED
      BY <1>1, <1>2, <1>5, <1>9, <2>1, <3>1 DEF RunOK, Lawful, Lasting, Untouched, Live, LivePhases,
         Landed, Settled, Erased, Completed, Active, Attended, Without, Hazards, Airborne
  <2>2. CASE q # n
    <3>1. SameRun(q) /\ q \in Nat /\ (q > lastRun' <=> q > lastRun)
      BY <1>1, <1>8, <2>2 DEF Only, Runs
    <3>. QED
      BY <1>1, <3>1, RunFacts DEF RunOK, SameRun, Lawful, Lasting, Untouched, Live, LivePhases,
         Landed, Settled, Erased, Completed, Active, Exists, Attended, Without, Hazards,
         Airborne, Restorable, Gone
  <2>. QED
    BY <2>1, <2>2
<1>11. OneActive'
  BY <1>8 DEF Claim, SlotFree, Only, SameRun, OneActive, Active
<1>. QED
  BY <1>1, <1>8, <1>10, <1>11, BackupAssumption DEF Advances, Runs

LEMMA CrashAdvances ==
  ASSUME Inv, NEW p \in Procs, Crash(p)
  PROVE  Advances
<1>1. Frame /\ UNCHANGED <<row, object, fate>>
  BY DEF Crash, Frame
<1>2. \A r \in Runs : r \in late' => r \in late
  BY DEF Crash
<1>3. /\ exec' \in [Runs -> Exec]
      /\ \A r \in Runs : \/ exec'[r].phase = "idle" /\ r \notin late'
                         \/ exec'[r] = exec[r] /\ (r \in late' <=> r \in late)
  BY DEF Crash, Inv, TypeOK, Exec, LivePhases
<1>4. RunTypes' /\ OneActive'
  BY <1>1, <1>2, <1>3 DEF Inv, TypeOK, RunTypes, OneActive, Active, Archives, Fates, Crash
<1>5. ASSUME NEW r \in Runs PROVE RunOK(r)' /\ Lawful(r)
  <2>1. CASE exec'[r] = exec[r] /\ (r \in late' <=> r \in late)
    BY <1>1, <2>1, SameRunLawful DEF SameRun
  <2>2. CASE exec'[r].phase = "idle" /\ r \notin late'
    BY <1>1, <2>2, RunFacts DEF RunOK, Frame, Lawful, Lasting, Untouched, Live, LivePhases,
       Landed, Settled, Erased, Completed, Active, Exists, Attended, Without, Hazards,
       Airborne, Restorable, Gone
  <2>. QED
    BY <1>3, <2>1, <2>2
<1>. QED
  BY <1>1, <1>4, <1>5, BackupAssumption DEF Inv, TypeOK, Advances, Frame

-----------------------------------------------------------------------------
(* The tick.                                                                *)

TickPhases == {"idle", "releasing", "clearing", "due", "claiming", "awaiting",
               "deleting", "removing"}

\* The tick of p becomes t, and no other tick changes.
TickBecomes(p, t) ==
  /\ tick' \in [Procs -> Tick] /\ tick'[p] = t
  /\ \A q \in Procs \ {p} : tick'[q] = tick[q]

LEMMA TickFacts ==
  ASSUME Inv, NEW p \in Procs
  PROVE  /\ tick[p] \in Tick /\ TickOK(p)
         /\ tick[p].phase \in TickPhases /\ tick[p].run \in Runs \cup {NoRun}
         /\ tick[p].keyed \in BOOLEAN /\ tick[p].todo \in SUBSET Runs
         /\ tick[p].rule \in {"count", "age"}
BY DEF Inv, TypeOK, Tick, TickPhases

LEMMA TickPut ==
  ASSUME Inv, NEW p \in Procs, NEW t \in Tick, tick' = [tick EXCEPT ![p] = t]
  PROVE  TickBecomes(p, t)
BY DEF Inv, TypeOK, TickBecomes

LEMMA AtRestType == AtRest \in Tick /\ AtRest.phase = "idle" /\ AtRest.todo = {}
BY DEF AtRest, Tick, NoRun

LEMMA GotoPut ==
  ASSUME Inv, NEW p \in Procs, NEW ph \in TickPhases, Goto(p, ph)
  PROVE  \E t \in Tick : /\ TickBecomes(p, t)
                         /\ t.phase = ph /\ t.run = tick[p].run /\ t.keyed = tick[p].keyed
                         /\ t.todo = tick[p].todo /\ t.rule = tick[p].rule
<1>1. PICK t : t = [tick[p] EXCEPT !.phase = ph]
  OBVIOUS
<1>2. /\ t \in Tick /\ t.phase = ph /\ t.run = tick[p].run /\ t.keyed = tick[p].keyed
      /\ t.todo = tick[p].todo /\ t.rule = tick[p].rule
  BY <1>1, TickFacts DEF Tick, TickPhases
<1>3. tick' = [tick EXCEPT ![p] = t]
  BY <1>1 DEF Goto
<1>. QED
  BY <1>2, <1>3, TickPut

LEMMA TickStays ==
  ASSUME Inv, Advances, NEW p \in Procs, tick'[p] = tick[p]
  PROVE  TickOK(p)'
<1>1. TickOK(p) /\ lastRun \in Nat /\ lastRun' \in Nat /\ lastRun <= lastRun' /\ lastRun <= MaxRuns
  BY BackupAssumption DEF Inv, TypeOK, Advances
<1>2. ASSUME NEW r \in 1 .. lastRun PROVE Lawful(r) /\ r \in Runs
  BY <1>1, BackupAssumption DEF Advances, Runs
<1>3. \A r \in tick[p].todo : Landed(r)' /\ (IsRoutine(r)' <=> tick[p].rule = "count")
  BY <1>1, <1>2 DEF TickOK, Lawful, Lasting, IsRoutine
<1>4. ASSUME tick[p].phase \in {"releasing", "clearing", "removing"}
      PROVE  /\ Attended' /\ tick[p].phase \in {"releasing", "clearing"} => ~Live(tick[p].run)'
             /\ Attended' /\ tick[p].phase = "clearing" => ~Completed(tick[p].run)'
             /\ tick[p].phase = "removing" => /\ Erased(tick[p].run)'
                                              /\ fate'[tick[p].run] # "kept"
  BY <1>1, <1>2, <1>4 DEF TickOK, Lawful, Lasting, Advances, Attended, Without, Hazards
<1>. QED
  BY <1>1, <1>3, <1>4 DEF TickOK, Live, Completed, Erased, Settled

LEMMA AdminStays ==
  ASSUME Inv, Advances, admin' = admin
  PROVE  AdminOK'
<1>1. AdminOK /\ lastRun \in Nat /\ lastRun' \in Nat /\ lastRun <= lastRun' /\ lastRun <= MaxRuns
  BY BackupAssumption DEF Inv, TypeOK, Advances
<1>2. ASSUME admin.op # "none" PROVE Lawful(admin.run) /\ admin.run \in 1 .. lastRun
  BY <1>1, <1>2, BackupAssumption DEF AdminOK, Advances, Runs
<1>. QED
  BY <1>1, <1>2 DEF AdminOK, Lawful, Lasting, Advances, Attended, Without, Hazards, Airborne

\* A tick, or a request, is about a run that was claimed.
LEMMA ClaimedRun ==
  ASSUME Inv, NEW r \in 1 .. lastRun
  PROVE  r \in Runs /\ r <= lastRun
BY BackupAssumption DEF Inv, TypeOK, Runs

LEMMA TodoStays ==
  ASSUME Inv, Advances, NEW p \in Procs, NEW T \in SUBSET tick[p].todo
  PROVE  /\ T \subseteq 1 .. lastRun'
         /\ \A r \in T : Landed(r)' /\ (IsRoutine(r)' <=> tick[p].rule = "count")
<1>1. TickOK(p) /\ lastRun \in Nat /\ lastRun' \in Nat /\ lastRun <= lastRun'
  BY BackupAssumption DEF Inv, TypeOK, Advances
<1>2. \A r \in T : r \in 1 .. lastRun /\ r \in Runs /\ Lawful(r)
  BY <1>1, ClaimedRun DEF TickOK, Advances
<1>. QED
  BY <1>1, <1>2 DEF TickOK, Lawful, Lasting, IsRoutine

\* What every step does to the whole state
Keeps == Inv' /\ Advances

\* All that is left to show of a step that changes one tick
LEMMA TickAdvances ==
  ASSUME Inv, Advances, NEW p \in Procs, NEW t \in Tick, TickBecomes(p, t), TickOK(p)',
         UNCHANGED <<admin, day, asked, crashes>>
  PROVE  Keeps
<1>1. \A q \in Procs : TickOK(q)'
  BY TickStays DEF TickBecomes
<1>2. TypeOK'
  BY DEF Inv, Advances, TickBecomes, TypeOK, RunTypes, Archives, Fates
<1>. QED
  BY <1>1, <1>2, AdminStays DEF Keeps, Inv, Advances

\* A tick that goes on to phase ph is as it should be, if what it may have left
\* to do was there before, and phase ph needs no more than Needs says.
Needs(ph, r) ==
  /\ ph \in {"releasing", "clearing", "awaiting", "removing"} => r \in 1 .. lastRun'
  /\ Attended /\ ph \in {"releasing", "clearing"} => ~Live(r)'
  /\ Attended /\ ph = "clearing" => ~Completed(r)'
  /\ ph = "removing" => Erased(r)' /\ fate'[r] # "kept"

LEMMA TickGoesOn ==
  ASSUME Inv, Advances, NEW p \in Procs, NEW t \in Tick, TickBecomes(p, t),
         t.todo \subseteq tick[p].todo, t.todo = {} \/ t.rule = tick[p].rule,
         Needs(t.phase, t.run), UNCHANGED <<admin, day, asked, crashes>>
  PROVE  Keeps
<1>1. /\ t.todo \subseteq 1 .. lastRun'
      /\ \A r \in t.todo : Landed(r)' /\ (IsRoutine(r)' <=> t.rule = "count")
  BY TodoStays
<1>2. TickOK(p)'
  BY <1>1 DEF TickOK, TickBecomes, Needs, Advances, Attended, Without, Hazards,
     Live, Completed, Erased, Settled, Landed, IsRoutine
<1>. QED
  BY <1>2, TickAdvances

LEMMA StartTickInv ==
  ASSUME Inv, Frame, NEW p \in Procs, StartTick(p), UNCHANGED <<late, admin, day, asked, crashes>>
  PROVE  Keeps
<1>1. Advances
  BY SameAdvance DEF StartTick
<1>2. CASE Goto(p, "due")
  <2>1. PICK t \in Tick : TickBecomes(p, t) /\ t.phase = "due" /\ t.todo = tick[p].todo
                          /\ t.rule = tick[p].rule
    BY <1>2, GotoPut DEF TickPhases
  <2>. QED
    BY <1>1, <2>1, TickGoesOn DEF Needs
<1>3. ASSUME NEW r \in Runs, Stale(r),
             tick' = [tick EXCEPT ![p] = [AtRest EXCEPT !.phase = "releasing",
                                           !.run = r, !.keyed = row[r].keyed]]
      PROVE  Keeps
  <2>1. PICK t : t = [AtRest EXCEPT !.phase = "releasing", !.run = r, !.keyed = row[r].keyed]
    OBVIOUS
  <2>2. t \in Tick /\ t.phase = "releasing" /\ t.run = r /\ t.todo = {}
    BY <2>1, RunFacts DEF AtRest, Tick
  <2>3. TickBecomes(p, t)
    BY <1>3, <2>1, <2>2, TickPut
  <2>4. r <= lastRun /\ (Attended => ~Live(r))
    BY <1>3, RunFacts DEF Stale, Active, RunOK
  <2>5. Needs("releasing", r)
    <3>1. exec' = exec /\ lastRun' = lastRun
      BY DEF StartTick, Frame
    <3>2. r \in 1 .. lastRun' /\ (Attended => ~Live(r)')
      BY <2>4, <3>1, RunFacts DEF Live
    <3>. QED
      BY <3>2 DEF Needs
  <2>. QED
    BY <1>1, <2>2, <2>3, <2>5, TickGoesOn
<1>. QED
  BY <1>2, <1>3 DEF StartTick

LEMMA ReleaseInv ==
  ASSUME Inv, Frame, NEW p \in Procs, ReleaseStale(p), UNCHANGED <<late, admin, day, asked, crashes>>
  PROVE  Keeps
<1>1. PICK r \in 1 .. lastRun : r = tick[p].run /\ r \in Runs /\ (Attended => ~Live(r))
  BY TickFacts, ClaimedRun DEF ReleaseStale, At, TickOK
<1>2. CASE Active(r) /\ row' = [row EXCEPT ![r].status = "stale"] /\ Goto(p, "clearing")
  <2>1. Moves(r) /\ ~Completed(r)'
    BY <1>1, <1>2, StaleMoves DEF ReleaseStale
  <2>2. Advances
    BY <1>1, <2>1, MovesAdvance
  <2>3. PICK t \in Tick : TickBecomes(p, t) /\ t.phase = "clearing" /\ t.todo = tick[p].todo
                          /\ t.rule = tick[p].rule /\ t.run = r
    BY <1>1, <1>2, GotoPut DEF TickPhases
  <2>4. Needs("clearing", r)
    BY <1>1, <2>1 DEF Needs, ReleaseStale, Frame, Live
  <2>. QED
    BY <2>2, <2>3, <2>4, TickGoesOn
<1>3. CASE row' = row /\ Goto(p, "due")
  <2>1. Advances
    BY <1>3, SameAdvance DEF ReleaseStale
  <2>2. PICK t \in Tick : TickBecomes(p, t) /\ t.phase = "due" /\ t.todo = tick[p].todo
                          /\ t.rule = tick[p].rule
    BY <1>3, GotoPut DEF TickPhases
  <2>. QED
    BY <2>1, <2>2, TickGoesOn DEF Needs
<1>. QED
  BY <1>1, <1>2, <1>3 DEF ReleaseStale

LEMMA ClearInv ==
  ASSUME Inv, Frame, NEW p \in Procs, ClearStale(p), UNCHANGED <<late, admin, day, asked, crashes>>
  PROVE  Keeps
<1>1. PICK r \in Runs : r = tick[p].run /\ (Attended => ~Live(r) /\ ~Completed(r))
  BY TickFacts, ClaimedRun DEF ClearStale, At, TickOK
<1>2. Advances
  BY <1>1, WipeMoves, MovesAdvance DEF ClearStale, TryDelete
<1>3. PICK t \in Tick : TickBecomes(p, t) /\ t.phase = "due" /\ t.todo = tick[p].todo
                        /\ t.rule = tick[p].rule
  BY GotoPut DEF TickPhases, ClearStale
<1>. QED
  BY <1>2, <1>3, TickGoesOn DEF Needs

\* A tick that comes to its end
LEMMA TickEnds ==
  ASSUME Inv, Advances, NEW p \in Procs, tick' = [tick EXCEPT ![p] = AtRest],
         UNCHANGED <<admin, day, asked, crashes>>
  PROVE  Keeps
<1>1. TickBecomes(p, AtRest)
  BY AtRestType, TickPut
<1>. QED
  BY <1>1, AtRestType, TickGoesOn DEF Needs

LEMMA CheckDueInv ==
  ASSUME Inv, Frame, NEW p \in Procs, CheckDue(p), UNCHANGED <<late, admin, day, asked, crashes>>
  PROVE  Keeps
<1>1. Advances
  BY SameAdvance DEF CheckDue
<1>2. CASE Goto(p, "claiming")
  <2>1. PICK t \in Tick : TickBecomes(p, t) /\ t.phase = "claiming" /\ t.todo = tick[p].todo
                          /\ t.rule = tick[p].rule
    BY <1>2, GotoPut DEF TickPhases
  <2>. QED
    BY <1>1, <2>1, TickGoesOn DEF Needs
<1>. QED
  BY <1>1, <1>2, TickEnds DEF CheckDue

LEMMA FireInv ==
  ASSUME Inv, NEW p \in Procs, FireScheduled(p),
         UNCHANGED <<setting, late, admin, day, asked, crashes>>
  PROVE  Keeps
<1>1. Advances /\ lastRun' = lastRun + 1 /\ lastRun' \in Runs
  BY ClaimAdvances DEF FireScheduled, Triggers
<1>2. PICK t : t = [AtRest EXCEPT !.phase = "awaiting", !.run = lastRun']
  OBVIOUS
<1>3. t \in Tick /\ t.phase = "awaiting" /\ t.run = lastRun' /\ t.todo = {}
  BY <1>1, <1>2 DEF AtRest, Tick
<1>4. TickBecomes(p, t)
  BY <1>2, <1>3, TickPut DEF FireScheduled
<1>5. Needs("awaiting", t.run)
  BY <1>1, <1>3, BackupAssumption DEF Needs, Runs
<1>. QED
  BY <1>1, <1>3, <1>4, <1>5, TickGoesOn

LEMMA RefusedInv ==
  ASSUME Inv, Frame, NEW p \in Procs, FireRefused(p), UNCHANGED <<late, admin, day, asked, crashes>>
  PROVE  Keeps
BY SameAdvance, TickEnds DEF FireRefused

\* A tick that is given new runs to prune
LEMMA TickPrunes ==
  ASSUME Inv, Frame, UNCHANGED <<row, object, exec, fate, late, admin, day, asked, crashes>>,
         NEW p \in Procs, NEW t \in Tick, TickBecomes(p, t), t.phase = "deleting",
         \A r \in t.todo : Completed(r) /\ (IsRoutine(r) <=> t.rule = "count")
  PROVE  Keeps
<1>1. Advances
  BY SameAdvance
<1>2. \A r \in t.todo : r \in 1 .. lastRun' /\ Landed(r)'
  <2> SUFFICES ASSUME NEW r \in t.todo PROVE r \in 1 .. lastRun' /\ Landed(r)'
    OBVIOUS
  <2>1. r \in Runs /\ Completed(r) /\ row[r].status # "absent"
    BY DEF Tick, Completed
  <2>2. r <= lastRun /\ r \in Nat \ {0} /\ Landed(r)
    BY <2>1, RunFacts DEF RunOK
  <2>. QED
    BY <2>2, RunFacts, <2>1 DEF Frame, Landed
<1>3. TickOK(p)'
  BY <1>2 DEF TickOK, TickBecomes, IsRoutine
<1>. QED
  BY <1>1, <1>3, TickAdvances

LEMMA ReturnsInv ==
  ASSUME Inv, Frame, NEW p \in Procs, BackupReturns(p), UNCHANGED <<late, admin, day, asked, crashes>>
  PROVE  Keeps
<1>1. CASE tick' = [tick EXCEPT ![p] = AtRest]
  BY <1>1, SameAdvance, TickEnds DEF BackupReturns
<1>2. CASE tick' = [tick EXCEPT ![p] = [AtRest EXCEPT !.phase = "deleting", !.todo = Excess]]
  <2>1. PICK t : t = [AtRest EXCEPT !.phase = "deleting", !.todo = Excess]
    OBVIOUS
  <2>2. Excess \subseteq Runs /\ \A r \in Excess : Completed(r) /\ IsRoutine(r)
    BY DEF Excess, Routine, Completed, IsRoutine
  <2>3. t \in Tick /\ t.phase = "deleting" /\ t.todo = Excess /\ t.rule = "count"
    BY <2>1, <2>2 DEF AtRest, Tick
  <2>4. TickBecomes(p, t)
    BY <1>2, <2>1, <2>3, TickPut
  <2>. QED
    BY <2>2, <2>3, <2>4, TickPrunes DEF BackupReturns
<1>. QED
  BY <1>1, <1>2 DEF BackupReturns

LEMMA EndRuleInv ==
  ASSUME Inv, Frame, NEW p \in Procs, EndRule(p), UNCHANGED <<late, admin, day, asked, crashes>>
  PROVE  Keeps
<1>1. CASE tick' = [tick EXCEPT ![p] = AtRest]
  BY <1>1, SameAdvance, TickEnds DEF EndRule
<1>2. ASSUME NEW moment \in 1 .. lastRun + 1,
             tick' = [tick EXCEPT ![p].rule = "age", ![p].todo = ExpiredBefore(moment)]
      PROVE  Keeps
  <2>1. PICK t : t = [tick[p] EXCEPT !.rule = "age", !.todo = ExpiredBefore(moment)]
    OBVIOUS
  <2>2. /\ ExpiredBefore(moment) \subseteq Runs
        /\ \A r \in ExpiredBefore(moment) : Completed(r) /\ ~IsRoutine(r)
    BY DEF ExpiredBefore, Completed, IsRoutine
  <2>3. t \in Tick /\ t.phase = "deleting" /\ t.todo = ExpiredBefore(moment) /\ t.rule = "age"
    BY <2>1, <2>2, TickFacts DEF Tick, EndRule, At
  <2>4. tick' = [tick EXCEPT ![p] = t]
    BY <1>2, <2>1 DEF Inv, TypeOK
  <2>5. TickBecomes(p, t)
    BY <2>3, <2>4, TickPut
  <2>. QED
    BY <2>2, <2>3, <2>5, TickPrunes DEF EndRule
<1>. QED
  BY <1>1, <1>2 DEF EndRule

LEMMA OldestIn ==
  ASSUME NEW S \in SUBSET Nat, S # {}
  PROVE  Oldest(S) \in S
BY LeastExists DEF Oldest

LEMMA PruneObjectInv ==
  ASSUME Inv, Frame, NEW p \in Procs, PruneObject(p), UNCHANGED <<late, admin, day, asked, crashes>>
  PROVE  Keeps
<1>1. PICK r \in tick[p].todo : r = Oldest(tick[p].todo)
  BY TickFacts, OldestIn DEF PruneObject, Runs
<1>2. r \in Runs /\ r \in 1 .. lastRun /\ r <= lastRun /\ Landed(r)
  BY <1>1, TickFacts, ClaimedRun DEF TickOK
<1>3. /\ fate' = [fate EXCEPT ![r] = IF @ = "kept" THEN "pruned" ELSE @]
      /\ UNCHANGED <<row, exec>>
      /\ \/ /\ DeleteObject(r)
            /\ tick' = [tick EXCEPT ![p].phase = "removing", ![p].run = r]
         \/ /\ tick' = [tick EXCEPT ![p].todo = @ \ {r}]
            /\ UNCHANGED object
  BY <1>1 DEF PruneObject
<1>4. Moves(r) /\ fate'[r] # "kept"
  BY <1>2, <1>3, PruneMoves
<1>5. Advances
  BY <1>2, <1>4, MovesAdvance
<1>6. CASE DeleteObject(r) /\ tick' = [tick EXCEPT ![p].phase = "removing", ![p].run = r]
  <2>1. PICK t : t = [tick[p] EXCEPT !.phase = "removing", !.run = r]
    OBVIOUS
  <2>2. /\ t \in Tick /\ t.phase = "removing" /\ t.run = r /\ t.todo = tick[p].todo
        /\ t.rule = tick[p].rule
    BY <1>2, <2>1, TickFacts DEF Tick
  <2>3. tick' = [tick EXCEPT ![p] = t]
    BY <1>6, <2>1 DEF Inv, TypeOK
  <2>4. TickBecomes(p, t)
    BY <2>2, <2>3, TickPut
  <2>5. Erased(r)'
    <3>1. object'[r] = "none" /\ exec'[r] = exec[r]
      BY <1>2, <1>3, <1>6, RunFacts DEF DeleteObject, RunTypes
    <3>2. r \notin late' /\ ~Live(r)
      BY <1>2, RunFacts DEF RunOK, Landed, Live, LivePhases
    <3>. QED
      BY <3>1, <3>2 DEF Erased, Settled, Live
  <2>6. Needs("removing", r)
    BY <1>2, <1>4, <2>5 DEF Needs, Frame
  <2>. QED
    BY <1>5, <2>2, <2>4, <2>6, TickGoesOn
<1>7. CASE tick' = [tick EXCEPT ![p].todo = @ \ {r}]
  <2>1. PICK t : t = [tick[p] EXCEPT !.todo = @ \ {r}]
    OBVIOUS
  <2>2. /\ t \in Tick /\ t.phase = "deleting" /\ t.todo \subseteq tick[p].todo
        /\ t.rule = tick[p].rule
    BY <2>1, TickFacts DEF Tick, PruneObject, At
  <2>3. tick' = [tick EXCEPT ![p] = t]
    BY <1>7, <2>1 DEF Inv, TypeOK
  <2>4. TickBecomes(p, t)
    BY <2>2, <2>3, TickPut
  <2>. QED
    BY <1>5, <2>2, <2>4, TickGoesOn DEF Needs
<1>. QED
  BY <1>3, <1>6, <1>7

LEMMA PruneRowInv ==
  ASSUME Inv, Frame, NEW p \in Procs, PruneRow(p), UNCHANGED <<late, admin, day, asked, crashes>>
  PROVE  Keeps
<1>1. PICK r \in Runs : /\ r = tick[p].run /\ r \in 1 .. lastRun
                        /\ Erased(r) /\ fate[r] # "kept"
  BY TickFacts, ClaimedRun DEF PruneRow, At, TickOK
<1>2. Advances
  <2>1. CASE RemoveRow(r)
    BY <1>1, <2>1, RemoveMoves, MovesAdvance DEF PruneRow, Erased, Settled
  <2>2. CASE UNCHANGED row
    BY <2>2, SameAdvance DEF PruneRow
  <2>. QED
    BY <1>1, <2>1, <2>2 DEF PruneRow
<1>3. PICK t : t = [tick[p] EXCEPT !.phase = "deleting", !.todo = @ \ {r}]
  OBVIOUS
<1>4. /\ t \in Tick /\ t.phase = "deleting" /\ t.todo \subseteq tick[p].todo
      /\ t.rule = tick[p].rule
  BY <1>3, TickFacts DEF Tick
<1>5. tick' = [tick EXCEPT ![p] = t]
  BY <1>1, <1>3 DEF PruneRow, Inv, TypeOK
<1>6. TickBecomes(p, t)
  BY <1>4, <1>5, TickPut
<1>. QED
  BY <1>2, <1>4, <1>6, TickGoesOn DEF Needs

LEMMA TickInv ==
  ASSUME Inv, NEW p \in Procs, TickStep(p)
  PROVE  Keeps
<1>1. CASE FireScheduled(p)
  BY <1>1, FireInv DEF TickStep
<1>2. CASE ~FireScheduled(p)
  <2>1. Frame
    BY <1>2 DEF TickStep, Frame, StartTick, ReleaseStale, ClearStale, CheckDue, FireRefused,
       BackupReturns, PruneObject, PruneRow, EndRule
  <2>. QED
    BY <1>2, <2>1, StartTickInv, ReleaseInv, ClearInv, CheckDueInv, RefusedInv, ReturnsInv,
       PruneObjectInv, PruneRowInv, EndRuleInv DEF TickStep
<1>. QED
  BY <1>1, <1>2

-----------------------------------------------------------------------------
(* Requests.                                                                *)

Cancelling == {"cancel", "dropping", "closing"}

\* What a request for op on run r may rely on after the step
AdminNeeds(op, r) ==
  op # "none" =>
    /\ r \in 1 .. lastRun' /\ (Attended => ~Live(r)') /\ (Settled(r)' \/ Airborne)
    /\ Attended /\ op \in Cancelling => ~Completed(r)'
    /\ op = "remove" => fate'[r] \in {"removed", "abandoned"}

LEMMA AdminGoesOn ==
  ASSUME Inv, Advances, NEW a \in Request, admin' = a, AdminNeeds(a.op, a.run),
         UNCHANGED <<tick, day, crashes>>, asked' \in 0 .. MaxAsked
  PROVE  Keeps
<1>1. AdminOK'
  BY DEF AdminOK, AdminNeeds, Cancelling, Advances, Attended, Airborne, Without, Hazards,
     Live, Settled, Completed
<1>2. \A p \in Procs : TickOK(p)'
  BY TickStays
<1>3. TypeOK'
  BY DEF Inv, Advances, TypeOK, RunTypes, Archives, Fates
<1>. QED
  BY <1>1, <1>2, <1>3 DEF Keeps, Inv, Advances

\* The request goes from one await to the next.
LEMMA AdminKeeps ==
  ASSUME Inv, Advances, admin.op # "none", NEW op,
         op \in Cancelling => admin.op \in Cancelling,
         op = "remove" => fate'[admin.run] \in {"removed", "abandoned"}
  PROVE  AdminNeeds(op, admin.run)
<1>1. PICK r \in 1 .. lastRun : r = admin.run /\ r \in Runs /\ r <= lastRun
  BY ClaimedRun DEF Inv, AdminOK
<1>2. r \in 1 .. lastRun' /\ Lawful(r)
  BY <1>1, BackupAssumption DEF Advances, Inv, TypeOK
<1>3. /\ (Attended => ~Live(r)) /\ (Settled(r) \/ Airborne)
      /\ Attended /\ op \in Cancelling => ~Completed(r)
  BY <1>1 DEF Inv, AdminOK, Cancelling
<1>4. AdminNeeds(op, r)
  BY <1>1, <1>2, <1>3 DEF AdminNeeds, Lawful, Lasting
<1>. QED
  BY <1>1, <1>4

LEMMA ServedType ==
  ASSUME Inv, Served
  PROVE  admin' \in Request /\ admin'.op = "none"
BY DEF Inv, TypeOK, Served, NoRequest, Request

LEMMA ServedInv ==
  ASSUME Inv, Advances, Served, UNCHANGED <<tick, day, crashes, asked>>
  PROVE  Keeps
<1>1. PICK a : a = admin'
  OBVIOUS
<1>. QED
  BY <1>1, ServedType, AdminGoesOn DEF AdminNeeds, Inv, TypeOK

LEMMA AdminMoved ==
  ASSUME Inv, NEW op \in {"dropping", "closing", "remove"}, NEW k \in BOOLEAN,
         NEW a \in {[admin EXCEPT !.op = op], [admin EXCEPT !.op = op, !.keyed = k]}
  PROVE  a \in Request /\ a.op = op /\ a.run = admin.run
BY DEF Inv, TypeOK, Request

LEMMA RequestInv ==
  ASSUME Inv, RequestStep
  PROVE  Keeps
<1>1. admin.op # "none" /\ Frame /\ UNCHANGED <<tick, day, asked, crashes>>
  BY DEF RequestStep, Frame, CancelReads, CancelAborts, CancelDrops, CancelCloses,
     DeleteDrops, DeleteCloses
<1>2. PICK r \in Runs : /\ r = admin.run
                        /\ Attended => ~Live(r)
                        /\ Settled(r) \/ Airborne
                        /\ Attended /\ admin.op \in Cancelling => ~Completed(r)
                        /\ admin.op = "remove" => fate[r] \in {"removed", "abandoned"}
  BY <1>1, ClaimedRun DEF Inv, AdminOK, Cancelling
<1>3. asked' \in 0 .. MaxAsked
  BY <1>1 DEF Inv, TypeOK
<1>4. CASE CancelReads
  <2>1. PICK k \in BOOLEAN : admin' = [admin EXCEPT !.op = "dropping", !.keyed = k]
    BY <1>2, <1>4, RunFacts DEF CancelReads
  <2>2. PICK a \in Request : a = admin' /\ a.op = "dropping" /\ a.run = admin.run
    BY <2>1, AdminMoved
  <2>3. Advances
    BY <1>1, <1>4, SameAdvance DEF CancelReads
  <2>4. AdminNeeds("dropping", admin.run)
    BY <1>1, <1>4, <2>3, AdminKeeps DEF CancelReads, Cancelling
  <2>. QED
    BY <1>1, <1>3, <2>2, <2>3, <2>4, AdminGoesOn
<1>5. CASE CancelAborts
  BY <1>1, <1>2, <1>5, FailMoves, MovesAdvance, ServedInv DEF CancelAborts
<1>6. CASE CancelDrops
  <2>1. Advances
    BY <1>1, <1>2, <1>6, WipeMoves, MovesAdvance DEF CancelDrops, TryDelete, Cancelling
  <2>2. PICK a \in Request : a = admin' /\ a.op = "closing" /\ a.run = admin.run
    BY <1>6, AdminMoved DEF CancelDrops
  <2>3. AdminNeeds("closing", admin.run)
    BY <1>1, <1>6, <2>1, AdminKeeps DEF CancelDrops, Cancelling
  <2>. QED
    BY <1>1, <1>3, <2>1, <2>2, <2>3, AdminGoesOn
<1>7. CASE CancelCloses
  BY <1>1, <1>2, <1>7, FailedMoves, MovesAdvance, ServedInv DEF CancelCloses, Cancelling
<1>8. CASE DeleteDrops
  <2>1. Moves(r) /\ fate'[r] \in {"removed", "abandoned"}
    BY <1>1, <1>2, <1>8, DeleteMoves
  <2>2. Advances
    BY <1>1, <2>1, MovesAdvance
  <2>3. PICK a \in Request : a = admin' /\ a.op = "remove" /\ a.run = admin.run
    BY <1>8, AdminMoved DEF DeleteDrops
  <2>4. AdminNeeds("remove", admin.run)
    BY <1>1, <1>2, <2>1, <2>2, AdminKeeps DEF Cancelling
  <2>. QED
    BY <1>1, <1>3, <2>2, <2>3, <2>4, AdminGoesOn
<1>9. CASE DeleteCloses
  <2>1. CASE RemoveRow(r)
    <3>1. Erased(r) \/ fate[r] = "abandoned" \/ (fate[r] = "removed" /\ Airborne)
      BY <1>2, <1>9, RunFacts DEF DeleteCloses, RunOK
    <3>. QED
      BY <1>1, <1>2, <1>9, <2>1, <3>1, RemoveMoves, MovesAdvance, ServedInv DEF DeleteCloses
  <2>2. CASE UNCHANGED row
    BY <1>1, <1>9, <2>2, SameAdvance, ServedInv DEF DeleteCloses
  <2>. QED
    BY <1>2, <1>9, <2>1, <2>2 DEF DeleteCloses
<1>. QED
  BY <1>4, <1>5, <1>6, <1>7, <1>8, <1>9 DEF RequestStep

LEMMA AskType ==
  ASSUME Inv, Ask
  PROVE  asked' \in 0 .. MaxAsked
BY BackupAssumption DEF Inv, TypeOK, Ask

\* A step that changes runs, and neither a tick nor the request
LEMMA RunStepInv ==
  ASSUME Inv, Advances, UNCHANGED <<tick, admin>>, day' \in 0 .. MaxDay,
         asked' \in 0 .. MaxAsked, crashes' = crashes
  PROVE  Keeps
<1>1. TypeOK'
  BY DEF Inv, Advances, TypeOK, RunTypes, Archives, Fates
<1>. QED
  BY <1>1, TickStays, AdminStays DEF Keeps, Inv, Advances

LEMMA AsksInv ==
  ASSUME Inv, NEW p \in Procs, NEW r \in Runs, AbortRun(p, r) \/ CancelRun(p, r) \/ DeleteRun(p, r)
  PROVE  Keeps
<1>1. asked' \in 0 .. MaxAsked
  BY AskType DEF AbortRun, CancelRun, DeleteRun
<1>2. CASE AbortRun(p, r)
  BY <1>1, <1>2, FailMoves, MovesAdvance, RunStepInv DEF AbortRun, Frame, Inv, TypeOK
<1>3. ASSUME NEW op \in {"cancel", "delete"}, Serve(p, op, r), Exists(r), Attended => ~Live(r),
             op = "cancel" => ~Completed(r),
             UNCHANGED <<setting, late, row, object, exec, tick, day, lastRun, crashes, fate>>
      PROVE  Keeps
  <2>1. Advances
    BY <1>3, SameAdvance DEF Frame
  <2>2. PICK a : a = [op |-> op, run |-> r, keyed |-> FALSE, proc |-> p]
    OBVIOUS
  <2>3. a \in Request /\ a.op = op /\ a.run = r /\ admin' = a
    BY <1>3, <2>2 DEF Serve, Request
  <2>4. r <= lastRun /\ (Settled(r) \/ Airborne)
    <3>1. r <= lastRun
      BY <1>3, RunFacts DEF RunOK, Exists, Gone
    <3>2. ~Airborne => Attended /\ r \notin late
      BY RunFacts DEF RunOK, Airborne, Attended, Without
    <3>. QED
      BY <1>3, <3>1, <3>2 DEF Settled
  <2>5. AdminNeeds(op, r)
    BY <1>3, <2>4, RunFacts DEF AdminNeeds, Cancelling, Live, Settled, Completed
  <2>. QED
    BY <1>1, <1>3, <2>1, <2>3, <2>5, AdminGoesOn
<1>4. CASE CancelRun(p, r)
  BY <1>3, <1>4 DEF CancelRun, Cancellable, Active, Exists, Gone, Completed, Attended, Without
<1>5. CASE DeleteRun(p, r)
  BY <1>3, <1>5, RunFacts DEF DeleteRun, RunOK
<1>. QED
  BY <1>2, <1>4, <1>5

LEMMA RunsInv ==
  ASSUME Inv, NEW r \in Runs, ExecStep(r) \/ LandUpload(r) \/ Beats(r) \/ GoQuiet(r)
  PROVE  Keeps
<1>1. Frame /\ UNCHANGED <<tick, admin, day, asked, crashes>>
  BY DEF ExecStep, LandUpload, Beats, GoQuiet, Frame
<1>2. Moves(r)
  BY <1>1, KeyMoves, BeginMoves, BeatMoves, UploadMoves, OpenMoves, CompleteMoves, FailMoves,
     DropMoves, CloseMoves, LandMoves, QuietMoves DEF ExecStep, Beats
<1>. QED
  BY <1>1, <1>2, MovesAdvance, RunStepInv DEF Inv, TypeOK

LEMMA CrashInv ==
  ASSUME Inv, NEW p \in Procs, Crash(p)
  PROVE  Keeps
<1>1. Advances /\ UNCHANGED <<day, asked>>
  BY CrashAdvances DEF Crash
<1>2. TickBecomes(p, AtRest)
  BY AtRestType, TickPut DEF Crash
<1>3. \A q \in Procs : TickOK(q)'
  BY <1>1, <1>2, TickStays, AtRestType DEF TickBecomes, TickOK
<1>4. admin' \in Request /\ AdminOK'
  <2>1. CASE admin' = admin
    BY <1>1, <2>1, AdminStays DEF Inv, TypeOK
  <2>2. CASE admin' = NoRequest(p)
    BY <2>2 DEF NoRequest, Request, AdminOK
  <2>. QED
    BY <2>1, <2>2 DEF Crash
<1>5. TypeOK'
  BY <1>1, <1>2, <1>4, BackupAssumption
     DEF Inv, Advances, TypeOK, RunTypes, Archives, Fates, TickBecomes, Crash
<1>. QED
  BY <1>1, <1>3, <1>4, <1>5 DEF Keeps, Inv, Advances

LEMMA StepInv ==
  ASSUME Inv, [Next]_vars
  PROVE  Keeps
<1>1. ASSUME NEW p \in Procs, StartRun(p)
      PROVE  Keeps
  <2>1. Advances
    BY <1>1, ClaimAdvances DEF StartRun, Triggers
  <2>. QED
    BY <1>1, <2>1, AskType, RunStepInv DEF StartRun, Inv, TypeOK
<1>2. CASE NextDay
  <2>1. Advances /\ day' \in 0 .. MaxDay
    BY <1>2, SameAdvance, BackupAssumption DEF NextDay, Frame, Inv, TypeOK, Setting
  <2>. QED
    BY <1>2, <2>1, RunStepInv DEF NextDay, Inv, TypeOK
<1>3. CASE UNCHANGED vars
  <2>1. Advances
    BY <1>3, SameAdvance DEF vars, Frame
  <2>. QED
    BY <1>3, <2>1, RunStepInv DEF vars, Inv, TypeOK
<1>. QED
  BY <1>1, <1>2, <1>3, RunsInv, TickInv, CrashInv, AsksInv, RequestInv DEF Next

LEMMA InitInv ==
  ASSUME Init
  PROVE  Inv
<1>1. TypeOK
  BY BackupAssumption DEF Init, TypeOK, Row, Gone, Triggers, Exec, LivePhases, NoRequest,
     Request, AtRest, Tick, NoRun, Runs
<1>2. \A r \in Runs : RunOK(r)
  BY BackupAssumption DEF Init, RunOK, Runs, Untouched, Completed, Live, LivePhases
<1>3. OneActive
  BY DEF Init, OneActive, Active
<1>4. AdminOK
  BY DEF Init, AdminOK, NoRequest
<1>5. \A p \in Procs : TickOK(p)
  BY DEF Init, TickOK, AtRest
<1>. QED
  BY <1>1, <1>2, <1>3, <1>4, <1>5 DEF Inv

LEMMA Invariant == Spec => []Inv
BY InitInv, StepInv, PTL DEF Spec, Keeps

-----------------------------------------------------------------------------
(* What follows from the invariant.                                         *)

\* Type correctness: the variables of DatabaseBackup keep their types, in
\* particular a tick only ever holds runs of database_backup_runs.
THEOREM TypeCorrect == Spec => []TypeOK
BY Invariant, PTL DEF Inv

\* No second pg_dump starts while an attended one is running: a live execution
\* holds the slot of database_backup_runs_active_uniq_idx, and no tick or
\* request that releases the slot meets a live run.
THEOREM OneDumpAtATime == Spec => []OneDump
<1>1. Inv => OneDump
  BY DEF Inv, OneActive, OneDump, RunOK
<1>. QED
  BY <1>1, Invariant, PTL

\* A completed backup that nobody decided to do away with is restorable:
\* executeRun has verified the archive, and no late upload, stale sweep,
\* markFailed or cancellation reaches it, whatever fails or crashes.
THEOREM AttendedKept == Spec => []AttendedRestorable
<1>1. Inv => AttendedRestorable
  BY DEF Inv, AttendedRestorable, CompletedRestorable, RunOK, Completed, Restorable
<1>. QED
  BY <1>1, Invariant, PTL

\* Bytes in storage are named by a row, save for what an administrator removed:
\* the key is recorded before the dump begins, and a row goes only after its
\* object, or by deleteRun.
THEOREM ObjectsNamed == Spec => []ObjectNamed
<1>1. ASSUME Inv, NEW r \in Runs, object[r] # "none"
      PROVE  \/ Exists(r) /\ row[r].keyed
             \/ fate[r] = "abandoned"
             \/ fate[r] = "removed" /\ ~Without({"lapse", "lateCancel", "lateUpload"})
  BY <1>1, RunFacts DEF RunOK, Untouched, Erased, Exists, Gone, Airborne
<1>2. Inv => ObjectNamed
  BY <1>1 DEF ObjectNamed
<1>. QED
  BY <1>2, Invariant, PTL

\* In an attended system only a running run becomes completed, and a completed
\* one stays so until it is deleted: neither a late release of a stale run nor
\* a late markFailed overwrites the outcome.
THEOREM CompletionPermanent == Spec => CompletionFinal
<1>1. ASSUME Inv, [Next]_vars, Attended, NEW r \in Runs
      PROVE  /\ row[r].status = "completed" => row'[r].status \in {"completed", "deleted"}
             /\ row'[r].status = "completed" => row[r].status \in {"running", "completed"}
  <2>1. Lawful(r) /\ RunOK(r)
    BY <1>1, StepInv DEF Keeps, Advances, Inv
  <2>. QED
    BY <1>1, <2>1, RunFacts DEF Lawful, Lasting, RunOK, Completed, Active
<1>2. Inv /\ [Next]_vars =>
        (Attended => \A r \in Runs :
           /\ row[r].status = "completed" => row'[r].status \in {"completed", "deleted"}
           /\ row'[r].status = "completed" => row[r].status \in {"running", "completed"})
  BY <1>1
<1>. QED
  BY <1>2, Invariant, PTL DEF Spec, CompletionFinal

-----------------------------------------------------------------------------
(* What retention leaves, and how often the schedule fires.  A tick         *)
(* computes the runs in excess once and deletes them one by one, while      *)
(* requests go on: FloorInv says of every run that a tick has pruned, or    *)
(* holds and has still to prune, that enough newer runs stay that no tick   *)
(* holds.                                                                   *)

\* The runs that some tick is going to prune as too many
Pending == {r \in Runs : \E p \in Procs : tick[p].rule = "count" /\ r \in tick[p].todo}

\* A newer run q that may stand for an older one: restorable and no tick's to
\* prune, or removed by an administrator
Sure(q) ==
  \/ fate[q] \in {"removed", "abandoned"}
  \/ fate[q] = "kept" /\ Restorable(q) /\ IsRoutine(q) /\ q \notin Pending

SureAbove(r) == {q \in Runs : q > r /\ Sure(q)}
Doomed(r) == r \in Pending \/ (fate[r] = "pruned" /\ IsRoutine(r))

Floor(r) == Cardinality(SureAbove(r)) >= RetentionCount
FloorInv == Attended => \A r \in Runs : Doomed(r) => Floor(r)

-----------------------------------------------------------------------------
(* Sets of runs.                                                            *)

LEMMA Wider ==
  ASSUME NEW k \in Nat, NEW T \in SUBSET Runs, NEW S \in SUBSET T, Cardinality(S) >= k
  PROVE  Cardinality(T) >= k
<1>1. IsFiniteSet(Runs)
  BY BackupAssumption, FS_Interval DEF Runs
<1>2. IsFiniteSet(T)
  BY <1>1, FS_Subset
<1>3. Cardinality(S) <= Cardinality(T) /\ Cardinality(S) \in Nat /\ Cardinality(T) \in Nat
  BY <1>2, FS_Subset, FS_CardinalityType
<1>. QED
  BY <1>3

LEMMA GreatestExists ==
  ASSUME NEW N \in Nat, NEW S \in SUBSET (1 .. N), S # {}
  PROVE  \E m \in S : \A n \in S : n <= m
<1> DEFINE Above == {n \in 0 .. N : \A s \in S : s <= n}
<1>1. N \in Above /\ Above \in SUBSET Nat /\ Above # {}
  OBVIOUS
<1>2. \E m \in Above : \A n \in Above : m <= n
  <2> HIDE DEF Above
  <2>. QED
    BY <1>1, LeastExists
<1>3. PICK m \in Above : \A n \in Above : m <= n
  BY <1>2
<1>4. m \in 0 .. N /\ \A s \in S : s <= m
  BY <1>3
<1>5. CASE m \in S
  BY <1>4, <1>5
<1>6. CASE m \notin S
  <2>1. PICK s \in S : TRUE
    OBVIOUS
  <2>2. m - 1 \in 0 .. N /\ \A t \in S : t <= m - 1
    BY <1>4, <1>6, <2>1
  <2>3. m - 1 \in Above
    BY <2>2
  <2>. QED
    BY <1>3, <1>4, <2>3
<1>. QED
  BY <1>5, <1>6

-----------------------------------------------------------------------------
(* The runs that may stand for an older one.                                *)

LEMMA SureFacts ==
  ASSUME Inv, NEW q \in Runs, Sure(q)
  PROVE  q <= lastRun
BY RunFacts DEF Sure, Restorable, RunOK, Untouched

LEMMA PendingFacts ==
  ASSUME Inv, NEW q \in Pending
  PROVE  q \in Runs /\ q <= lastRun /\ IsRoutine(q)
BY TickFacts, ClaimedRun DEF Pending, TickOK

\* What a step makes of the fates, if it is none of retention's
FatesLawful ==
  \A q \in Runs : fate'[q] = "pruned" => fate[q] = "pruned" \/ q \in Pending
                                            \/ (q <= lastRun /\ ~IsRoutine(q))

LEMMA SureStays ==
  ASSUME Inv, Keeps, Attended, FatesLawful, NEW q \in Runs, Sure(q), Pending' \subseteq Pending
  PROVE  Sure(q)'
<1>1. Lasting(q) /\ fate'[q] \in Fates
  BY SureFacts, RunFacts, BackupAssumption
     DEF Keeps, Inv, TypeOK, Advances, Lawful, RunTypes, Runs
<1>2. CASE fate[q] \in {"removed", "abandoned"}
  BY <1>1, <1>2 DEF Lasting, Sure
<1>3. CASE fate[q] = "kept" /\ Restorable(q) /\ IsRoutine(q) /\ q \notin Pending
  <2>1. fate'[q] # "pruned"
    BY <1>3 DEF FatesLawful
  <2>2. CASE fate'[q] = "kept"
    BY <1>1, <1>3, <2>2 DEF Lasting, Sure, IsRoutine
  <2>3. CASE fate'[q] \in {"removed", "abandoned"}
    BY <2>3 DEF Sure
  <2>. QED
    BY <1>1, <2>1, <2>2, <2>3 DEF Fates
<1>. QED
  BY <1>2, <1>3 DEF Sure

LEMMA DoomedBefore ==
  ASSUME Inv, Keeps, FatesLawful, NEW r \in Runs, Doomed(r)', r \notin Pending'
  PROVE  Doomed(r)
<1>1. fate'[r] = "pruned" /\ IsRoutine(r)'
  BY DEF Doomed
<1>2. CASE r <= lastRun
  BY <1>1, <1>2 DEF FatesLawful, Keeps, Advances, Lawful, Lasting, IsRoutine, Doomed
<1>3. CASE r > lastRun
  <2>1. fate[r] = "kept"
    BY <1>3, RunFacts DEF RunOK, Untouched
  <2>2. r \in Pending
    BY <1>1, <1>3, <2>1, RunFacts DEF FatesLawful
  <2>. QED
    BY <2>2 DEF Doomed
<1>. QED
  BY <1>2, <1>3, RunFacts

-----------------------------------------------------------------------------
(* A step that adds nothing to what ticks are going to prune, and one that  *)
(* does.                                                                    *)

LEMMA SameSetting ==
  ASSUME Inv, Keeps
  PROVE  /\ Attended' <=> Attended
         /\ RetentionCount' = RetentionCount /\ RetentionCount \in Nat
BY BackupAssumption DEF Keeps, Advances, Inv, TypeOK, Setting, Attended, Without, Hazards,
   RetentionCount

LEMMA FloorKept ==
  ASSUME Inv, Keeps, FatesLawful, FloorInv, Pending' \subseteq Pending
  PROVE  FloorInv'
<1>1. SUFFICES ASSUME Attended, NEW r \in Runs, Doomed(r)' PROVE Floor(r)'
  BY SameSetting DEF FloorInv
<1>2. Doomed(r)
  <2>1. CASE r \in Pending'
    BY <2>1 DEF Doomed
  <2>2. CASE r \notin Pending'
    BY <1>1, <2>2, DoomedBefore
  <2>. QED
    BY <2>1, <2>2
<1>3. SureAbove(r) \subseteq SureAbove(r)'
  BY <1>1, SureStays DEF SureAbove
<1>4. Cardinality(SureAbove(r)) >= RetentionCount
  BY <1>1, <1>2 DEF FloorInv, Floor
<1>5. SureAbove(r)' \in SUBSET Runs
  BY DEF SureAbove
<1>. QED
  BY <1>3, <1>4, <1>5, SameSetting, Wider DEF Floor

\* Above the newest run in excess, enough runs stay: either the newer routine
\* backups all may stand for it, or one of them is doomed itself, and what
\* stays above that one is enough.
LEMMA AboveExcess ==
  ASSUME Inv, Attended, FloorInv, NEW e \in Excess
  PROVE  Floor(e)
<1>1. e \in Runs /\ Cardinality(Newer(Routine, e)) >= RetentionCount
  BY DEF Excess, Routine
<1>2. RetentionCount \in Nat
  BY BackupAssumption DEF Inv, TypeOK, Setting, RetentionCount
<1>3. CASE \A x \in Newer(Routine, e) : Sure(x)
  <2>1. Newer(Routine, e) \subseteq SureAbove(e)
    BY <1>3 DEF Newer, Routine, SureAbove
  <2>2. SureAbove(e) \in SUBSET Runs
    BY DEF SureAbove
  <2>. QED
    BY <1>1, <1>2, <2>1, <2>2, Wider DEF Floor
<1>4. ASSUME NEW x \in Newer(Routine, e), ~Sure(x)
      PROVE  Floor(e)
  <2>1. x \in Runs /\ x > e /\ Completed(x) /\ IsRoutine(x)
    BY DEF Newer, Routine, Completed, IsRoutine
  <2>2. Doomed(x)
    BY <1>4, <2>1, RunFacts DEF Sure, Doomed, RunOK, Restorable, Completed, Fates
  <2>3. SureAbove(x) \subseteq SureAbove(e)
    BY <1>1, <2>1 DEF SureAbove, Runs
  <2>4. Cardinality(SureAbove(x)) >= RetentionCount
    BY <2>1, <2>2 DEF FloorInv, Floor
  <2>5. SureAbove(e) \in SUBSET Runs
    BY DEF SureAbove
  <2>. QED
    BY <1>2, <2>3, <2>4, <2>5, Wider DEF Floor
<1>. QED
  BY <1>3, <1>4

LEMMA FloorExcess ==
  ASSUME Inv, Keeps, FloorInv, UNCHANGED <<row, object, exec, fate>>,
         Pending' \subseteq Pending \cup Excess, Excess # {}
  PROVE  FloorInv'
<1>1. SUFFICES ASSUME Attended, NEW r \in Runs, Doomed(r)' PROVE Floor(r)'
  BY SameSetting DEF FloorInv
<1>2. PICK e \in Excess : \A x \in Excess : x <= e
  BY GreatestExists, BackupAssumption DEF Excess, Routine, Runs
<1>3. e \in Runs /\ r \in Nat /\ e \in Nat
  BY DEF Excess, Routine, Runs
<1>4. \A q \in Runs : q > e /\ Sure(q) => Sure(q)'
  BY <1>2, <1>3 DEF Sure, Restorable, IsRoutine, Runs
<1>5. PICK m \in Runs : m >= r /\ m >= e /\ Floor(m)
  <2>1. CASE r <= e
    BY <1>1, <1>3, <2>1, AboveExcess
  <2>2. CASE r > e
    <3>1. Doomed(r)
      BY <1>1, <1>2, <1>3, <2>2 DEF Doomed, IsRoutine
    <3>. QED
      BY <1>1, <1>3, <2>2, <3>1 DEF FloorInv
  <2>. QED
    BY <1>3, <2>1, <2>2
<1>6. SureAbove(m) \subseteq SureAbove(r)'
  BY <1>3, <1>4, <1>5 DEF SureAbove, Runs
<1>7. SureAbove(r)' \in SUBSET Runs
  BY DEF SureAbove
<1>. QED
  BY <1>5, <1>6, <1>7, SameSetting, Wider DEF Floor

-----------------------------------------------------------------------------
(* Every step of the system.                                                *)

\* No tick is given a run that is to go as one too many.
TodoNarrows ==
  \A p \in Procs : \A r \in tick'[p].todo :
    tick'[p].rule = "count" => r \in tick[p].todo /\ tick[p].rule = "count"

LEMMA PendingNarrows ==
  ASSUME TodoNarrows
  PROVE  Pending' \subseteq Pending
BY DEF TodoNarrows, Pending

LEMMA TickNarrows ==
  ASSUME Inv, NEW p \in Procs, TickStep(p)
  PROVE  \/ TodoNarrows
         \/ BackupReturns(p) /\ Excess # {} /\ Pending' \subseteq Pending \cup Excess
<1>. USE TickFacts
<1>1. tick \in [Procs -> Tick]
  BY DEF Inv, TypeOK
<1>2. ASSUME NEW t, tick' = [tick EXCEPT ![p] = t],
             t.todo = {} \/ t.rule = "age" \/ (t.todo \subseteq tick[p].todo /\ t.rule = tick[p].rule)
      PROVE  TodoNarrows
  BY <1>1, <1>2 DEF TodoNarrows
<1>3. ASSUME NEW ph, Goto(p, ph)
      PROVE  TodoNarrows
  <2>1. PICK t : t = [tick[p] EXCEPT !.phase = ph]
    OBVIOUS
  <2>2. tick' = [tick EXCEPT ![p] = t] /\ t.todo = tick[p].todo /\ t.rule = tick[p].rule
    BY <1>3, <2>1 DEF Goto, Tick
  <2>. QED
    BY <1>2, <2>2
<1>4. ASSUME tick' = [tick EXCEPT ![p] = AtRest]
      PROVE  TodoNarrows
  BY <1>2, <1>4, AtRestType
<1>5. ASSUME NEW ph, NEW r, NEW k,
             tick' = [tick EXCEPT ![p] = [AtRest EXCEPT !.phase = ph, !.run = r, !.keyed = k]]
      PROVE  TodoNarrows
  <2>1. [AtRest EXCEPT !.phase = ph, !.run = r, !.keyed = k].todo = {}
    BY DEF AtRest
  <2>. QED
    BY <1>2, <1>5, <2>1
<1>6. CASE StartTick(p)
  BY <1>3, <1>5, <1>6 DEF StartTick
<1>7. CASE ReleaseStale(p) \/ ClearStale(p) \/ CheckDue(p) \/ FireRefused(p)
  BY <1>3, <1>4, <1>7 DEF ReleaseStale, ClearStale, CheckDue, FireRefused
<1>8. CASE FireScheduled(p)
  <2>1. [AtRest EXCEPT !.phase = "awaiting", !.run = lastRun'].todo = {}
    BY DEF AtRest
  <2>. QED
    BY <1>2, <1>8, <2>1 DEF FireScheduled
<1>9. CASE BackupReturns(p)
  <2>1. CASE tick' = [tick EXCEPT ![p] = AtRest]
    BY <1>4, <2>1
  <2>2. CASE tick' = [tick EXCEPT ![p] = [AtRest EXCEPT !.phase = "deleting", !.todo = Excess]]
    <3>1. PICK t : t = [AtRest EXCEPT !.phase = "deleting", !.todo = Excess]
      OBVIOUS
    <3>2. t.todo = Excess /\ tick' = [tick EXCEPT ![p] = t]
      BY <2>2, <3>1 DEF AtRest
    <3>3. Pending' \subseteq Pending \cup Excess
      BY <1>1, <3>2 DEF Pending
    <3>. QED
      BY <1>2, <1>9, <3>2, <3>3
  <2>. QED
    BY <1>9, <2>1, <2>2 DEF BackupReturns
<1>10. ASSUME NEW T \in SUBSET tick[p].todo, NEW ph, NEW r,
              \/ tick' = [tick EXCEPT ![p].todo = T]
              \/ tick' = [tick EXCEPT ![p].phase = ph, ![p].run = r]
              \/ tick' = [tick EXCEPT ![p].phase = ph, ![p].todo = T]
       PROVE  TodoNarrows
  <2>1. PICK t : /\ \/ t = [tick[p] EXCEPT !.todo = T]
                    \/ t = [tick[p] EXCEPT !.phase = ph, !.run = r]
                    \/ t = [tick[p] EXCEPT !.phase = ph, !.todo = T]
                 /\ tick' = [tick EXCEPT ![p] = t]
    BY <1>1, <1>10
  <2>2. t.todo \subseteq tick[p].todo /\ t.rule = tick[p].rule
    BY <2>1 DEF Tick
  <2>. QED
    BY <1>2, <2>1, <2>2
<1>11. CASE PruneObject(p)
  BY <1>10, <1>11 DEF PruneObject
<1>12. CASE PruneRow(p)
  <2>1. tick' = [tick EXCEPT ![p].phase = "deleting", ![p].todo = tick[p].todo \ {tick[p].run}]
    BY <1>1, <1>12 DEF PruneRow
  <2>. QED
    BY <1>10, <2>1
<1>13. CASE EndRule(p)
  <2>1. CASE tick' = [tick EXCEPT ![p] = AtRest]
    BY <1>4, <2>1
  <2>2. ASSUME NEW T, tick' = [tick EXCEPT ![p].rule = "age", ![p].todo = T]
        PROVE  TodoNarrows
    <3>1. PICK t : t = [tick[p] EXCEPT !.rule = "age", !.todo = T]
      OBVIOUS
    <3>2. t.rule = "age" /\ tick' = [tick EXCEPT ![p] = t]
      BY <1>1, <2>2, <3>1 DEF Tick
    <3>. QED
      BY <1>2, <3>2
  <2>. QED
    BY <1>13, <2>1, <2>2 DEF EndRule
<1>. QED
  BY <1>6, <1>7, <1>8, <1>9, <1>11, <1>12, <1>13 DEF TickStep

LEMMA StepNarrows ==
  ASSUME Inv, [Next]_vars
  PROVE  \/ TodoNarrows
         \/ \E p \in Procs : /\ BackupReturns(p) /\ UNCHANGED fate
                             /\ Excess # {} /\ Pending' \subseteq Pending \cup Excess
<1>1. ASSUME tick' = tick
      PROVE  TodoNarrows
  BY <1>1 DEF TodoNarrows
<1>2. ASSUME NEW p \in Procs, TickStep(p)
      PROVE  \/ TodoNarrows
             \/ /\ BackupReturns(p) /\ UNCHANGED fate
                /\ Excess # {} /\ Pending' \subseteq Pending \cup Excess
  BY <1>2, TickNarrows DEF BackupReturns
<1>3. ASSUME NEW p \in Procs, Crash(p)
      PROVE  TodoNarrows
  <2>1. tick' = [tick EXCEPT ![p] = AtRest]
    BY <1>3 DEF Crash
  <2>. QED
    BY <2>1, AtRestType DEF TodoNarrows, Inv, TypeOK
<1>4. ASSUME NEW r \in Runs, ExecStep(r) \/ LandUpload(r) \/ Beats(r) \/ GoQuiet(r)
      PROVE  tick' = tick
  BY <1>4 DEF ExecStep, LandUpload, Beats, GoQuiet
<1>5. ASSUME NEW p \in Procs, NEW r \in Runs,
             StartRun(p) \/ AbortRun(p, r) \/ CancelRun(p, r) \/ DeleteRun(p, r)
      PROVE  tick' = tick
  BY <1>5 DEF StartRun, AbortRun, CancelRun, DeleteRun
<1>6. ASSUME NEW p \in Procs, StartRun(p)
      PROVE  tick' = tick
  BY <1>6 DEF StartRun
<1>7. RequestStep \/ NextDay \/ UNCHANGED vars => tick' = tick
  BY DEF RequestStep, NextDay, vars
<1>. QED
  BY <1>1, <1>2, <1>3, <1>4, <1>5, <1>6, <1>7 DEF Next

\* Retention takes an archive only of a run its tick holds.
LEMMA StepFates ==
  ASSUME Inv, [Next]_vars
  PROVE  FatesLawful
<1>1. ASSUME fate' = fate
      PROVE  FatesLawful
  BY <1>1 DEF FatesLawful
<1>2. ASSUME NEW p \in Procs, PruneObject(p)
      PROVE  FatesLawful
  <2>1. PICK r \in tick[p].todo : r = Oldest(tick[p].todo)
    BY <1>2, TickFacts, OldestIn DEF PruneObject, Runs
  <2>2. r \in Runs /\ r <= lastRun /\ (r \in Pending \/ ~IsRoutine(r))
    BY <2>1, TickFacts, ClaimedRun DEF TickOK, Pending
  <2>3. \A q \in Runs \ {r} : fate'[q] = fate[q]
    BY <1>2, <2>1 DEF PruneObject, Inv, TypeOK
  <2>. QED
    BY <2>2, <2>3 DEF FatesLawful
<1>3. ASSUME DeleteDrops
      PROVE  FatesLawful
  <2>1. \A q \in Runs : fate'[q] \in {fate[q], "removed", "abandoned"}
    BY <1>3 DEF DeleteDrops, Inv, TypeOK
  <2>. QED
    BY <2>1 DEF FatesLawful
<1>4. ASSUME NEW p \in Procs, TickStep(p), ~PruneObject(p)
      PROVE  fate' = fate
  BY <1>4 DEF TickStep, StartTick, ReleaseStale, ClearStale, CheckDue, FireScheduled,
     FireRefused, BackupReturns, PruneRow, EndRule
<1>5. ASSUME NEW r \in Runs, ExecStep(r) \/ LandUpload(r) \/ Beats(r) \/ GoQuiet(r)
      PROVE  fate' = fate
  BY <1>5 DEF ExecStep, LandUpload, Beats, GoQuiet, RecordKey, BeginDump, FinishUpload,
     OpenArchive, Complete, FailRun, DropPartial, CloseFailed, Heartbeat
<1>6. ASSUME NEW p \in Procs, NEW r \in Runs, AbortRun(p, r) \/ CancelRun(p, r) \/ DeleteRun(p, r)
      PROVE  fate' = fate
  BY <1>6 DEF AbortRun, FailRun, CancelRun, DeleteRun
<1>7. ASSUME NEW p \in Procs, StartRun(p) \/ Crash(p)
      PROVE  fate' = fate
  BY <1>7 DEF StartRun, Crash
<1>8. ASSUME RequestStep, ~DeleteDrops
      PROVE  fate' = fate
  BY <1>8 DEF RequestStep, CancelReads, CancelAborts, FailRun, CancelDrops, CancelCloses,
     DeleteCloses
<1>9. NextDay \/ UNCHANGED vars => fate' = fate
  BY DEF NextDay, vars
<1>. QED
  BY <1>1, <1>2, <1>3, <1>4, <1>5, <1>6, <1>7, <1>8, <1>9 DEF Next

LEMMA FloorStep ==
  ASSUME Inv, FloorInv, [Next]_vars
  PROVE  FloorInv'
<1>1. Keeps /\ FatesLawful
  BY StepInv, StepFates
<1>2. CASE TodoNarrows
  BY <1>1, <1>2, PendingNarrows, FloorKept
<1>3. ASSUME NEW p \in Procs, BackupReturns(p), UNCHANGED fate,
             Excess # {}, Pending' \subseteq Pending \cup Excess
      PROVE  FloorInv'
  BY <1>1, <1>3, FloorExcess DEF BackupReturns
<1>. QED
  BY <1>2, <1>3, StepNarrows

LEMMA FloorInit ==
  ASSUME Init
  PROVE  FloorInv
<1>1. \A r \in Runs : ~Doomed(r)
  BY DEF Init, Doomed, Pending, AtRest
<1>. QED
  BY <1>1 DEF FloorInv

\* In an attended system retention takes a routine backup only when at least
\* retentionCount newer runs stay that are restorable routine backups, or that
\* an administrator removed: although the list of runs to delete was read
\* before the deletes, and other ticks, requests and crashes come in between.
THEOREM RetentionLeavesFloor == Spec => []RetentionFloor
<1>1. ASSUME Inv, FloorInv
      PROVE  RetentionFloor
  <2> SUFFICES ASSUME Attended, NEW r \in Runs, fate[r] = "pruned", IsRoutine(r)
               PROVE  Cardinality({q \in Newer(Runs, r) :
                         \/ fate[q] \in {"removed", "abandoned"}
                         \/ /\ fate[q] = "kept" /\ Restorable(q)
                            /\ row[q].trigger # "pre_restore"}) >= RetentionCount
    BY DEF RetentionFloor, IsRoutine
  <2> DEFINE Stay == {q \in Newer(Runs, r) :
                         \/ fate[q] \in {"removed", "abandoned"}
                         \/ /\ fate[q] = "kept" /\ Restorable(q)
                            /\ row[q].trigger # "pre_restore"}
  <2>1. SureAbove(r) \subseteq Stay /\ Stay \in SUBSET Runs
    BY DEF SureAbove, Sure, Newer, IsRoutine
  <2>2. Cardinality(SureAbove(r)) >= RetentionCount /\ RetentionCount \in Nat
    BY <1>1, BackupAssumption DEF FloorInv, Doomed, Floor, Inv, TypeOK, Setting, RetentionCount
  <2> HIDE DEF Stay
  <2>3. Cardinality(Stay) >= RetentionCount
    BY <2>1, <2>2, Wider
  <2>. QED
    BY <2>3 DEF Stay
<1>2. Inv /\ FloorInv => RetentionFloor
  BY <1>1
<1>3. Init => FloorInv
  BY FloorInit
<1>4. Inv /\ FloorInv /\ [Next]_vars => FloorInv'
  BY FloorStep
<1>. QED
  BY <1>2, <1>3, <1>4, Invariant, PTL DEF Spec

-----------------------------------------------------------------------------
(* The schedule, with one replica of the API                                *)

OneReplica == \A p, q \in Procs : p = q

Scheduled(r) == Exists(r) /\ row[r].trigger = "scheduled"
Unserved == \A r \in Runs : Scheduled(r) => row[r].day < day

\* A tick that has found the boundary due is the only one to serve it.
DayInv ==
  /\ \A r \in Runs : Exists(r) => row[r].day <= day
  /\ \A p \in Procs : At(p, "claiming") => Unserved
  /\ OneRunPerBoundary

\* A row is there after a step if it was before, or if it is the new one.
Born(q) == q = lastRun' /\ lastRun' = lastRun + 1

LEMMA RowStays ==
  ASSUME Inv, Keeps, NEW q \in Runs, Exists(q)', ~Born(q), lastRun' <= lastRun + 1
  PROVE  Exists(q) /\ row'[q].trigger = row[q].trigger /\ row'[q].day = row[q].day
<1>1. RunOK(q)' /\ Lawful(q) /\ lastRun \in Nat /\ lastRun' \in Nat /\ lastRun <= lastRun'
  BY BackupAssumption DEF Keeps, Inv, TypeOK, Advances
<1>2. q <= lastRun
  BY <1>1, RunFacts DEF RunOK, Exists, Gone, Born
<1>. QED
  BY <1>1, <1>2, RunFacts DEF Lawful, Lasting, RunOK, Exists, Gone

LEMMA ClaimedRow ==
  ASSUME Inv, NEW p \in Procs, NEW trigger \in Triggers, Claim(p, trigger)
  PROVE  /\ lastRun' = lastRun + 1 /\ lastRun' \in Runs
         /\ row'[lastRun'].trigger = trigger /\ row'[lastRun'].day = day
BY BackupAssumption DEF Claim, Inv, TypeOK, Setting, Runs

\* What a step does for the schedule
DayStep ==
  \/ /\ lastRun' = lastRun /\ day' \in {day, day + 1}
     /\ \A p \in Procs : At(p, "claiming")' => At(p, "claiming") \/ (Due /\ day' = day)
  \/ /\ day' = day /\ tick' = tick
     /\ \E p \in Procs, trigger \in Triggers \ {"scheduled"} : Claim(p, trigger)
  \/ /\ day' = day
     /\ \E p \in Procs : Claim(p, "scheduled") /\ At(p, "claiming") /\ ~At(p, "claiming")'

LEMMA StepDays ==
  ASSUME Inv, [Next]_vars
  PROVE  DayStep
<1>1. tick \in [Procs -> Tick]
  BY DEF Inv, TypeOK
<1>2. CASE tick' = tick /\ lastRun' = lastRun /\ day' \in {day, day + 1}
  BY <1>2 DEF DayStep, At
<1>3. ASSUME NEW p \in Procs, NEW r \in Runs,
             \/ ExecStep(r) \/ LandUpload(r) \/ Beats(r) \/ GoQuiet(r)
             \/ AbortRun(p, r) \/ CancelRun(p, r) \/ DeleteRun(p, r)
      PROVE  DayStep
  BY <1>2, <1>3 DEF ExecStep, LandUpload, Beats, GoQuiet, AbortRun, CancelRun, DeleteRun
<1>9. CASE RequestStep \/ NextDay \/ UNCHANGED vars
  BY <1>2, <1>9 DEF RequestStep, NextDay, vars
<1>4. ASSUME NEW p \in Procs, StartRun(p)
      PROVE  DayStep
  BY <1>4 DEF StartRun, DayStep, Triggers
<1>5. ASSUME NEW p \in Procs, Crash(p)
      PROVE  DayStep
  <2>1. \A q \in Procs : At(q, "claiming")' => At(q, "claiming")
    BY <1>1, <1>5 DEF Crash, At, AtRest
  <2>. QED
    BY <1>5, <2>1 DEF Crash, DayStep
<1>6. ASSUME NEW p \in Procs, FireScheduled(p), day' = day
      PROVE  DayStep
  <2>1. ~At(p, "claiming")'
    BY <1>1, <1>6 DEF FireScheduled, At, AtRest
  <2>. QED
    BY <1>6, <2>1 DEF FireScheduled, DayStep
<1>7. ASSUME NEW p \in Procs, CheckDue(p), day' = day
      PROVE  DayStep
  <2>1. \A q \in Procs : At(q, "claiming")' => At(q, "claiming") \/ Due
    BY <1>1, <1>7 DEF CheckDue, Goto, At, AtRest
  <2>. QED
    BY <1>7, <2>1 DEF CheckDue, DayStep
<1>8. ASSUME NEW p \in Procs, day' = day,
             \/ StartTick(p) \/ ReleaseStale(p) \/ ClearStale(p) \/ FireRefused(p)
             \/ BackupReturns(p) \/ PruneObject(p) \/ PruneRow(p) \/ EndRule(p)
      PROVE  DayStep
  <2>1. tick'[p].phase # "claiming" \/ tick'[p].phase = tick[p].phase
    <3>1. CASE StartTick(p) \/ ReleaseStale(p) \/ ClearStale(p)
      <4>1. ASSUME NEW ph \in {"due", "clearing"}, Goto(p, ph)
            PROVE  tick'[p].phase # "claiming"
        <5>1. tick'[p] = [tick[p] EXCEPT !.phase = ph] /\ tick[p] \in Tick
          BY <1>1, <4>1 DEF Goto
        <5>. QED
          BY <4>1, <5>1 DEF Tick
      <4>2. ASSUME NEW r, NEW k, tick' = [tick EXCEPT ![p] =
                     [AtRest EXCEPT !.phase = "releasing", !.run = r, !.keyed = k]]
            PROVE  tick'[p].phase # "claiming"
        BY <1>1, <4>2 DEF AtRest
      <4>. QED
        BY <3>1, <4>1, <4>2 DEF StartTick, ReleaseStale, ClearStale
    <3>2. CASE FireRefused(p) \/ BackupReturns(p)
      <4>1. CASE tick' = [tick EXCEPT ![p] = AtRest]
        BY <1>1, <4>1 DEF AtRest
      <4>2. CASE tick' = [tick EXCEPT ![p] = [AtRest EXCEPT !.phase = "deleting", !.todo = Excess]]
        BY <1>1, <4>2 DEF AtRest
      <4>. QED
        BY <3>2, <4>1, <4>2 DEF FireRefused, BackupReturns
    <3>3. CASE PruneObject(p) \/ PruneRow(p) \/ EndRule(p)
      BY <1>1, <3>3 DEF PruneObject, PruneRow, EndRule, AtRest, Tick
    <3>. QED
      BY <1>8, <3>1, <3>2, <3>3
  <2>2. \A q \in Procs \ {p} : tick'[q] = tick[q]
    BY <1>1, <1>8 DEF StartTick, ReleaseStale, ClearStale, FireRefused, BackupReturns,
       PruneObject, PruneRow, EndRule, Goto
  <2>3. \A q \in Procs : At(q, "claiming")' => At(q, "claiming")
    BY <2>1, <2>2 DEF At
  <2>4. lastRun' = lastRun
    BY <1>8 DEF StartTick, ReleaseStale, ClearStale, FireRefused, BackupReturns,
       PruneObject, PruneRow, EndRule
  <2>. QED
    BY <1>8, <2>3, <2>4 DEF DayStep
<1>. QED
  <2>1. ASSUME NEW p \in Procs, TickStep(p)
        PROVE  DayStep
    BY <1>6, <1>7, <1>8, <2>1 DEF TickStep
  <2>2. CASE \E r \in Runs : ExecStep(r) \/ LandUpload(r) \/ Beats(r) \/ GoQuiet(r)
    <3>1. \E p \in Procs : TRUE
      BY DEF Inv, TypeOK, Request
    <3>. QED
      BY <1>3, <2>2, <3>1
  <2>. QED
    BY <1>3, <1>4, <1>5, <1>9, <2>1, <2>2 DEF Next

LEMMA DaysKept ==
  ASSUME OneReplica, Inv, Keeps, DayInv, DayStep
  PROVE  DayInv'
<1>1. day \in Nat
  BY DEF Inv, TypeOK
<1>2. ASSUME lastRun' = lastRun, day' \in {day, day + 1},
             \A p \in Procs : At(p, "claiming")' => At(p, "claiming") \/ (Due /\ day' = day)
      PROVE  DayInv'
  <2>1. \A q \in Runs : Exists(q)' => /\ Exists(q) /\ row'[q].trigger = row[q].trigger
                                      /\ row'[q].day = row[q].day
    BY <1>2, RowStays, BackupAssumption DEF Born, Inv, TypeOK
  <2>2. \A q \in Runs : row[q].day \in Nat
    BY DEF Inv, TypeOK, Row
  <2>3. ASSUME Unserved \/ (Due /\ day' = day)
        PROVE  Unserved'
    BY <1>1, <1>2, <2>1, <2>2, <2>3 DEF Unserved, Scheduled, Due, Exists
  <2>. QED
    BY <1>1, <1>2, <2>1, <2>2, <2>3 DEF DayInv, OneRunPerBoundary
<1>3. ASSUME NEW p \in Procs, NEW trigger \in Triggers, Claim(p, trigger), day' = day,
             \A q \in Procs : At(q, "claiming")' => At(q, "claiming") /\ trigger # "scheduled",
             trigger = "scheduled" => At(p, "claiming")
      PROVE  DayInv'
  <2>1. PICK n \in Runs : /\ n = lastRun' /\ lastRun' = lastRun + 1
                          /\ row'[n].trigger = trigger /\ row'[n].day = day
    BY <1>3, ClaimedRow
  <2>2. \A q \in Runs \ {n} : Exists(q)' => /\ Exists(q) /\ row'[q].trigger = row[q].trigger
                                            /\ row'[q].day = row[q].day
    BY <2>1, RowStays, BackupAssumption DEF Born, Inv, TypeOK
  <2>3. \A q \in Runs : row[q].day \in Nat
    BY DEF Inv, TypeOK, Row
  <2>4. trigger = "scheduled" => Unserved
    BY <1>3 DEF DayInv
  <2>5. trigger # "scheduled" /\ Unserved => Unserved'
    BY <1>3, <2>1, <2>2 DEF Unserved, Scheduled, Exists
  <2>6. OneRunPerBoundary'
    BY <1>1, <2>1, <2>2, <2>3, <2>4 DEF DayInv, OneRunPerBoundary, Unserved, Scheduled
  <2>7. \A q \in Runs : Exists(q)' => row'[q].day <= day'
    BY <1>1, <1>3, <2>1, <2>2 DEF DayInv
  <2>8. \A q \in Procs : At(q, "claiming")' => Unserved'
    BY <1>3, <2>5 DEF DayInv
  <2>. QED
    BY <2>6, <2>7, <2>8 DEF DayInv, Exists
<1>4. ASSUME NEW p \in Procs, At(p, "claiming"), ~At(p, "claiming")'
      PROVE  \A q \in Procs : ~At(q, "claiming")'
  BY <1>4 DEF OneReplica
<1>. QED
  BY <1>2, <1>3, <1>4 DEF DayStep, Triggers, At

LEMMA DaysInit ==
  ASSUME Init
  PROVE  DayInv
BY DEF Init, DayInv, Exists, Gone, At, AtRest, OneRunPerBoundary

\* With one replica of the API the schedule fires once for a boundary: a process
\* finishes a tick before it starts the next, and a run that is started by hand
\* or ends between the check and the claim does not make a second.
THEOREM OncePerBoundary ==
  ASSUME OneReplica
  PROVE  Spec => []OneRunPerBoundary
<1>1. Init => DayInv
  BY DaysInit
<1>2. Inv /\ DayInv /\ [Next]_vars => DayInv'
  BY DaysKept, StepInv, StepDays
<1>3. DayInv => OneRunPerBoundary
  BY DEF DayInv
<1>. QED
  BY <1>1, <1>2, <1>3, Invariant, PTL DEF Spec

=============================================================================
