------------------------ MODULE StorageMigrationProofs ------------------------
(***************************************************************************)
(* Proofs about StorageMigration, for every set of objects and executions, *)
(* any number of runs and attempts, and every setting.                     *)
(***************************************************************************)
EXTENDS StorageMigration, FiniteSetTheorems, TLAPS

Phases == {"idle", "item", "run", "skipping", "starting", "marking", "recording",
           "reading", "closing", "returning", "throwing"} \cup Tried

(* An execution that is not idle, and a request being served, is about a    *)
(* run: the functions are applied inside their domains.                     *)
Bound ==
  /\ \A e \in Execs : exec[e].phase # "idle" => exec[e].run \in Runs
  /\ admin.op # "none" => admin.run \in Runs

TypeInv == TypeOK /\ Bound

-----------------------------------------------------------------------------
(* Lemmas about the operators on rows and executions. *)

LEMMA SettingType ==
  ASSUME setting \in Settings
  PROVE  /\ setting.mishaps \in Nat /\ setting.runs \in 0 .. MaxRuns
         /\ setting.objects \subseteq Objects /\ setting.objects # {}
BY MigrationAssumption DEF Setting

LEMMA IdleType ==
  ASSUME NEW o \in Objects
  PROVE  /\ Idle(o) \in Exec
         /\ Idle(o).phase = "idle"
BY MigrationAssumption DEF Idle, Exec, Tried, Closed, Providers

LEMMA ExecFields ==
  ASSUME NEW x \in Exec
  PROVE  /\ x.phase \in Phases /\ x.run \in 0 .. MaxRuns /\ x.object \in Objects
         /\ x.orphan \in BOOLEAN /\ x.last \in BOOLEAN /\ x.from \in Providers
         /\ x.caller \in {"skip", "copy", "record"} /\ x.final \in Closed
BY DEF Exec, Phases

LEMMA Moved ==
  ASSUME NEW x \in Exec, NEW ph \in Phases
  PROVE  /\ [x EXCEPT !.phase = ph] \in Exec
         /\ [x EXCEPT !.phase = ph].phase = ph
         /\ [x EXCEPT !.phase = ph].run = x.run
         /\ [x EXCEPT !.phase = ph].object = x.object
BY DEF Exec, Phases

LEMMA GivenBackType ==
  ASSUME NEW j \in Job
  PROVE  /\ GivenBack(j) \in Job
         /\ GivenBack(j).status \in {"pending", "failed"}
BY DEF GivenBack, Job

LEMMA CounterType ==
  ASSUME NEW r \in Run
  PROVE  /\ [r EXCEPT !.migrated = @ + 1] \in Run
         /\ [r EXCEPT !.failed = @ + 1] \in Run
         /\ [r EXCEPT !.skipped = @ + 1] \in Run
         /\ [r EXCEPT !.migrated = @ + 1].to = r.to
         /\ [r EXCEPT !.failed = @ + 1].to = r.to
         /\ [r EXCEPT !.skipped = @ + 1].to = r.to
BY DEF Run

LEMMA StatusType ==
  ASSUME NEW r \in Run, NEW st \in {"cancelled", "pending", "running", "completed", "failed"}
  PROVE  /\ [r EXCEPT !.status = st] \in Run
         /\ [r EXCEPT !.status = st].to = r.to
BY DEF Run, ActiveStatuses, Closed

LEMMA OtherType ==
  ASSUME NEW p \in Providers
  PROVE  Other(p) \in Providers
BY DEF Other, Providers

LEMMA RaisedPhase ==
  ASSUME NEW e \in Execs, Raise(e)
  PROVE  \E ph \in {"recording", "throwing"} : Goto(e, ph)
BY DEF Raise

LEMMA GotoType ==
  ASSUME TypeInv, NEW e \in Execs, exec[e].phase # "idle", NEW ph \in Phases, Goto(e, ph)
  PROVE  /\ exec' \in [Execs -> Exec]
         /\ \A d \in Execs : exec'[d].phase # "idle" => exec'[d].run \in Runs
         /\ exec'[e].phase = ph
<1>1. exec[e] \in Exec
  BY DEF TypeInv, TypeOK
<1>2. exec' = [exec EXCEPT ![e] = [exec[e] EXCEPT !.phase = ph]]
  BY DEF Goto
<1>. QED
  BY <1>1, <1>2, Moved DEF TypeInv, TypeOK, Bound

-----------------------------------------------------------------------------
(* What a step of an execution does: it stays about its run and object, no  *)
(* bytes go, targets stay, only verified bytes lead to repointing, and only *)
(* repointing changes the row of the object.                                *)

Typed ==
  /\ object' \in [Objects -> Providers \cup {"gone"}]
  /\ bytes' \in [Objects -> [Providers -> {"none", "old", "new"}]]
  /\ run' \in [Runs -> Run]
  /\ item' \in [Runs -> [Objects -> Item]]
  /\ job' \in [Runs -> [Objects -> Job]]
  /\ exec' \in [Execs -> Exec]

Stays(e) ==
  /\ \A d \in Execs : d # e => exec'[d] = exec[d]
  /\ exec'[e].phase # "idle" => exec'[e].run = K(e) /\ exec'[e].object = O(e)

BytesStay ==
  \A o \in Objects, p \in Providers : bytes[o][p] # "none" => bytes'[o][p] # "none"

TargetsStay == \A k \in Runs : run'[k].to = run[k].to

Effect(e) ==
  /\ Typed /\ Stays(e) /\ BytesStay /\ TargetsStay
  /\ exec'[e].phase = "repointing" => bytes'[O(e)][run[K(e)].to] # "none"
  /\ \/ object' = object
     \/ /\ exec[e].phase = "repointing" /\ Exists(O(e))
        /\ object' = [object EXCEPT ![O(e)] = run[K(e)].to]
  /\ \A k \in Runs, o \in Objects : k # K(e) => job'[k][o] = job[k][o]

LEMMA MoveEffect ==
  ASSUME TypeInv, NEW e \in Execs, exec[e].phase # "idle",
         NEW x \in Exec, x.phase # "repointing",
         x.run = K(e), x.object = O(e),
         exec' = [exec EXCEPT ![e] = x],
         UNCHANGED <<object, bytes, run, item, job>>
  PROVE  Effect(e)
BY DEF TypeInv, TypeOK, Effect, Typed, Stays, BytesStay, TargetsStay

LEMMA GotoEffect ==
  ASSUME TypeInv, NEW e \in Execs, exec[e].phase # "idle",
         NEW ph \in Phases, ph # "repointing", Goto(e, ph),
         UNCHANGED <<object, bytes, run, item, job>>
  PROVE  Effect(e)
<1> DEFINE x == [exec[e] EXCEPT !.phase = ph]
<1>1. exec[e] \in Exec
  BY DEF TypeInv, TypeOK
<1>2. x \in Exec /\ x.phase = ph /\ x.run = K(e) /\ x.object = O(e)
  BY <1>1, Moved DEF K, O
<1>3. exec' = [exec EXCEPT ![e] = x]
  BY DEF Goto
<1> HIDE DEF x
<1>. QED
  BY <1>2, <1>3, MoveEffect

LEMMA RaiseEffect ==
  ASSUME TypeInv, NEW e \in Execs, exec[e].phase # "idle", Raise(e),
         UNCHANGED <<object, bytes, run, item, job>>
  PROVE  Effect(e)
<1>1. PICK ph \in {"recording", "throwing"} : Goto(e, ph)
  BY RaisedPhase
<1>. QED
  BY <1>1, GotoEffect DEF Phases

LEMMA CountEffect ==
  ASSUME TypeInv, NEW e \in Execs, exec[e].phase # "idle",
         NEW status \in Final, NEW counted \in Run, counted.to = run[K(e)].to,
         Count(e, status, counted), UNCHANGED <<bytes, job>>,
         \/ object' = object
         \/ /\ exec[e].phase = "repointing" /\ Exists(O(e))
            /\ object' = [object EXCEPT ![O(e)] = run[K(e)].to]
  PROVE  Effect(e)
<1> DEFINE caller == CASE status = "skipped" -> "skip"
                       [] status = "failed" -> "record"
                       [] OTHER -> "copy"
           x == [exec[e] EXCEPT !.phase = "reading", !.caller = caller]
<1>1. exec[e] \in Exec /\ K(e) \in Runs /\ O(e) \in Objects
  BY ExecFields DEF TypeInv, TypeOK, Bound, K, O
<1>2. caller \in {"skip", "copy", "record"}
  OBVIOUS
<1>3. exec' = [exec EXCEPT ![e] = x]
  BY DEF Count
<1> HIDE DEF caller
<1>4. x \in Exec /\ x.phase = "reading" /\ x.run = K(e) /\ x.object = O(e)
  BY <1>1, <1>2 DEF Exec, K, O
<1> HIDE DEF x
<1>5. run' \in [Runs -> Run] /\ TargetsStay
  BY <1>1 DEF Count, TypeInv, TypeOK, TargetsStay
<1>6. item' \in [Runs -> [Objects -> Item]]
  BY <1>1 DEF Count, TypeInv, TypeOK, Item
<1>7. run[K(e)].to \in Providers
  BY <1>1 DEF TypeInv, TypeOK, Run
<1>8. object' \in [Objects -> Providers \cup {"gone"}]
  BY <1>1, <1>7 DEF TypeInv, TypeOK
<1>9. exec' \in [Execs -> Exec] /\ Stays(e) /\ exec'[e].phase # "repointing"
  BY <1>3, <1>4 DEF TypeInv, TypeOK, Stays
<1>10. BytesStay /\ bytes' \in [Objects -> [Providers -> {"none", "old", "new"}]]
       /\ job' \in [Runs -> [Objects -> Job]]
  BY DEF BytesStay, TypeInv, TypeOK
<1>. QED
  BY <1>5, <1>6, <1>8, <1>9, <1>10 DEF Effect, Typed

LEMMA JobSet ==
  ASSUME TypeOK, NEW k \in Runs, NEW o \in Objects, NEW y \in Job,
         job' = [job EXCEPT ![k][o] = y]
  PROVE  /\ job' \in [Runs -> [Objects -> Job]]
         /\ \A l \in Runs, q \in Objects :
              job'[l][q] = IF l = k /\ q = o THEN y ELSE job[l][q]
BY DEF TypeOK

LEMMA RunSet ==
  ASSUME TypeOK, NEW k \in Runs, NEW r \in Run, r.to = run[k].to,
         run' = [run EXCEPT ![k] = r]
  PROVE  run' \in [Runs -> Run] /\ TargetsStay
BY DEF TypeOK, TargetsStay

LEMMA WriteEffect ==
  ASSUME TypeInv, NEW e \in Execs, exec[e].phase # "idle",
         NEW ph \in Phases, ph # "repointing", Goto(e, ph),
         run' \in [Runs -> Run], TargetsStay, UNCHANGED <<object, bytes, item, job>>
  PROVE  Effect(e)
<1> DEFINE x == [exec[e] EXCEPT !.phase = ph]
<1>1. exec[e] \in Exec
  BY DEF TypeInv, TypeOK
<1>2. x \in Exec /\ x.phase = ph /\ x.run = K(e) /\ x.object = O(e)
  BY <1>1, Moved DEF K, O
<1>3. exec' = [exec EXCEPT ![e] = x]
  BY DEF Goto
<1> HIDE DEF x
<1>. QED
  BY <1>2, <1>3 DEF TypeInv, TypeOK, Effect, Typed, Stays, BytesStay

LEMMA ReturnEffect ==
  ASSUME TypeInv, NEW e \in Execs, Return(e)
  PROVE  Effect(e)
<1>1. exec[e] \in Exec /\ exec[e].phase # "idle"
  BY DEF Return, TypeInv, TypeOK
<1>2. K(e) \in Runs /\ O(e) \in Objects
  BY <1>1, ExecFields DEF TypeInv, Bound, K, O
<1> DEFINE x == Idle(O(e))
<1>3. x \in Exec /\ x.phase = "idle"
  BY <1>2, IdleType
<1>4. exec' = [exec EXCEPT ![e] = x]
  BY DEF Return
<1> HIDE DEF x
<1>5. exec' \in [Execs -> Exec] /\ Stays(e) /\ exec'[e].phase # "repointing"
  BY <1>3, <1>4 DEF TypeInv, TypeOK, Stays
<1>6. job[K(e)][O(e)] \in Job
  BY <1>2 DEF TypeInv, TypeOK
<1>7. [job[K(e)][O(e)] EXCEPT !.status = "succeeded"] \in Job
      /\ GivenBack(job[K(e)][O(e)]) \in Job
  BY <1>6, GivenBackType DEF Job
<1>8. \/ job' = job
      \/ job' = [job EXCEPT ![K(e)][O(e)] = [job[K(e)][O(e)] EXCEPT !.status = "succeeded"]]
      \/ job' = [job EXCEPT ![K(e)][O(e)] = GivenBack(job[K(e)][O(e)])]
  BY DEF Return
<1>9. /\ job' \in [Runs -> [Objects -> Job]]
      /\ \A k \in Runs, o \in Objects : k # K(e) => job'[k][o] = job[k][o]
  <2>1. CASE job' = job
    BY <2>1 DEF TypeInv, TypeOK
  <2>2. CASE job' = [job EXCEPT ![K(e)][O(e)] = [job[K(e)][O(e)] EXCEPT !.status = "succeeded"]]
    BY <1>2, <1>7, <2>2, JobSet DEF TypeInv
  <2>3. CASE job' = [job EXCEPT ![K(e)][O(e)] = GivenBack(job[K(e)][O(e)])]
    BY <1>2, <1>7, <2>3, JobSet DEF TypeInv
  <2>. QED
    BY <1>8, <2>1, <2>2, <2>3
<1>10. UNCHANGED <<object, bytes, run, item>>
  BY DEF Return
<1>. QED
  BY <1>5, <1>9, <1>10 DEF Effect, Typed, BytesStay, TargetsStay, TypeInv, TypeOK

LEMMA CopyEffect ==
  ASSUME TypeInv, NEW e \in Execs, Copy(e)
  PROVE  Effect(e)
<1>1. exec[e] \in Exec /\ exec[e].phase # "idle"
  BY DEF Copy, At, TypeInv, TypeOK
<1>2. K(e) \in Runs /\ O(e) \in Objects /\ exec[e].from \in Providers
  BY <1>1, ExecFields DEF TypeInv, Bound, K, O
<1>3. run[K(e)].to \in Providers
  BY <1>2 DEF TypeInv, TypeOK, Run
<1> DEFINE x == [exec[e] EXCEPT !.phase = "verifying"]
<1>4. x \in Exec /\ x.phase = "verifying" /\ x.run = K(e) /\ x.object = O(e)
  BY <1>1, Moved DEF Phases, Tried, K, O
<1>5. exec' = [exec EXCEPT ![e] = x]
  BY DEF Copy, Goto
<1> HIDE DEF x
<1>6. exec' \in [Execs -> Exec] /\ Stays(e) /\ exec'[e].phase # "repointing"
  BY <1>4, <1>5 DEF TypeInv, TypeOK, Stays
<1>7. /\ bytes[O(e)][exec[e].from] \in {"old", "new"}
      /\ bytes' = [bytes EXCEPT ![O(e)][run[K(e)].to] = bytes[O(e)][exec[e].from]]
  BY <1>2 DEF Copy, TypeInv, TypeOK
<1>8. bytes' \in [Objects -> [Providers -> {"none", "old", "new"}]] /\ BytesStay
  BY <1>2, <1>3, <1>7 DEF TypeInv, TypeOK, BytesStay
<1>9. UNCHANGED <<object, run, item, job>>
  BY DEF Copy
<1>. QED
  BY <1>6, <1>8, <1>9 DEF Effect, Typed, TargetsStay, TypeInv, TypeOK

LEMMA VerifyEffect ==
  ASSUME TypeInv, NEW e \in Execs, Verify(e)
  PROVE  Effect(e)
<1>1. exec[e] \in Exec /\ exec[e].phase # "idle"
  BY DEF Verify, At, TypeInv, TypeOK
<1>2. UNCHANGED <<object, bytes, run, item, job>>
  BY DEF Verify
<1>3. CASE Raise(e)
  BY <1>1, <1>2, <1>3, RaiseEffect
<1>4. CASE bytes[O(e)][run[K(e)].to] # "none" /\ Goto(e, "repointing")
  <2> DEFINE x == [exec[e] EXCEPT !.phase = "repointing"]
  <2>1. x \in Exec /\ x.phase = "repointing" /\ x.run = K(e) /\ x.object = O(e)
    BY <1>1, Moved DEF Phases, Tried, K, O
  <2>2. exec' = [exec EXCEPT ![e] = x]
    BY <1>4 DEF Goto
  <2> HIDE DEF x
  <2>. QED
    BY <1>2, <1>4, <2>1, <2>2
    DEF Effect, Typed, Stays, BytesStay, TargetsStay, TypeInv, TypeOK
<1>. QED
  BY <1>3, <1>4 DEF Verify

LEMMA LoadEffect ==
  ASSUME TypeInv, NEW e \in Execs, LoadObject(e)
  PROVE  Effect(e)
<1>1. exec[e] \in Exec /\ exec[e].phase # "idle"
  BY DEF LoadObject, At, TypeInv, TypeOK
<1>2. UNCHANGED <<object, bytes, run, item, job>>
  BY DEF LoadObject
<1>3. K(e) \in Runs /\ O(e) \in Objects
  BY <1>1, ExecFields DEF TypeInv, Bound, K, O
<1>4. CASE Raise(e)
  BY <1>1, <1>2, <1>4, RaiseEffect
<1>5. CASE Goto(e, "already")
  BY <1>1, <1>2, <1>5, GotoEffect DEF Phases, Tried
<1>6. CASE /\ object[O(e)] = Other(run[K(e)].to)
           /\ exec' = [exec EXCEPT ![e].phase = "copying", ![e].from = object[O(e)]]
  <2> DEFINE x == [exec[e] EXCEPT !.phase = "copying", !.from = object[O(e)]]
  <2>1. run[K(e)].to \in Providers
    BY <1>3 DEF TypeInv, TypeOK, Run
  <2>2. object[O(e)] \in Providers
    BY <1>6, <2>1, OtherType
  <2>3. x \in Exec /\ x.phase = "copying" /\ x.run = K(e) /\ x.object = O(e)
    BY <1>1, <2>2 DEF Exec, Tried, K, O
  <2>4. exec' = [exec EXCEPT ![e] = x]
    BY <1>6
  <2> HIDE DEF x
  <2>. QED
    BY <1>1, <1>2, <2>3, <2>4, MoveEffect
<1>. QED
  BY <1>4, <1>5, <1>6 DEF LoadObject

LEMMA ExecEffect ==
  ASSUME TypeInv, NEW e \in Execs, ExecStep(e)
  PROVE  Effect(e)
<1>1. exec[e] \in Exec
  BY DEF TypeInv, TypeOK
<1>2. exec[e].phase # "idle" => K(e) \in Runs /\ O(e) \in Objects
  BY <1>1, ExecFields DEF TypeInv, Bound, K, O
<1>3. exec[e].phase # "idle" => run[K(e)] \in Run
  BY <1>2 DEF TypeInv, TypeOK
<1>4. CASE ReadItem(e)
  <2>1. \E ph \in {"returning", "run"} : Goto(e, ph)
    BY <1>4 DEF ReadItem
  <2>. QED
    BY <1>4, <2>1, GotoEffect DEF ReadItem, At, Phases
<1>5. CASE ReadRun(e)
  <2>1. \E ph \in {"skipping", "starting", "marking"} : Goto(e, ph)
    BY <1>5 DEF ReadRun
  <2>. QED
    BY <1>5, <2>1, GotoEffect DEF ReadRun, At, Phases
<1>6. CASE Skip(e)
  BY <1>3, <1>6, RaiseEffect, CountEffect, CounterType DEF Skip, At, Final
<1>7. CASE StartRun(e)
  <2>1. run' = [run EXCEPT ![K(e)] = [run[K(e)] EXCEPT !.status = "running"]]
    BY <1>7 DEF StartRun
  <2>2. run' \in [Runs -> Run] /\ TargetsStay
    <3>1. run[K(e)] \in Run /\ K(e) \in Runs /\ TypeOK
      BY <1>2, <1>3, <1>7 DEF StartRun, At, TypeInv
    <3>2. PICK w : w = [run[K(e)] EXCEPT !.status = "running"]
      OBVIOUS
    <3>3. w \in Run /\ w.to = run[K(e)].to
      BY <3>1, <3>2, StatusType
    <3>. QED
      BY <2>1, <3>1, <3>2, <3>3, RunSet
  <2>. QED
    BY <1>7, <2>2, WriteEffect DEF StartRun, At, Phases
<1>8. CASE MarkCopying(e)
  <2>1. CASE Raise(e) /\ UNCHANGED item
    BY <1>8, <2>1, RaiseEffect DEF MarkCopying, At
  <2>2. CASE /\ item' = [item EXCEPT ![K(e)][O(e)] = "copying"]
             /\ Goto(e, "object")
    <3>1. item' \in [Runs -> [Objects -> Item]]
      BY <1>2, <1>8, <2>2 DEF MarkCopying, At, TypeInv, TypeOK, Item
    <3>2. UNCHANGED <<object, bytes, run, job>>
      BY <1>8 DEF MarkCopying
    <3>3. exec[e] \in Exec /\ "object" \in Phases
      BY DEF TypeInv, TypeOK, Phases, Tried
    <3>4. PICK x : x = [exec[e] EXCEPT !.phase = "object"]
      OBVIOUS
    <3>5. x \in Exec /\ x.phase = "object" /\ x.run = K(e) /\ x.object = O(e)
      BY <3>3, <3>4, Moved DEF K, O
    <3>6. exec' = [exec EXCEPT ![e] = x]
      BY <2>2, <3>4 DEF Goto
    <3>7. exec' \in [Execs -> Exec] /\ exec'[e] = x /\ \A d \in Execs : d # e => exec'[d] = exec[d]
      BY <3>5, <3>6 DEF TypeInv, TypeOK
    <3>8. Typed
      BY <3>1, <3>2, <3>7 DEF Typed, TypeInv, TypeOK
    <3>9. Stays(e) /\ BytesStay /\ TargetsStay
      BY <3>2, <3>5, <3>7 DEF Stays, BytesStay, TargetsStay
    <3>. QED
      BY <3>2, <3>5, <3>7, <3>8, <3>9 DEF Effect
  <2>. QED
    BY <1>8, <2>1, <2>2 DEF MarkCopying
<1>9. CASE LoadObject(e)
  BY <1>9, LoadEffect
<1>10. CASE Already(e)
  BY <1>3, <1>10, RaiseEffect, CountEffect, CounterType DEF Already, At, Final
<1>11. CASE Copy(e)
  BY <1>11, CopyEffect
<1>12. CASE CopyFails(e)
  BY <1>12, RaiseEffect DEF CopyFails, At
<1>13. CASE Verify(e)
  BY <1>13, VerifyEffect
<1>14. CASE Repoint(e)
  BY <1>3, <1>14, RaiseEffect, CountEffect, CounterType DEF Repoint, At, Final
<1>15. CASE Record(e)
  BY <1>3, <1>15, RaiseEffect, CountEffect, CounterType DEF Record, At, Final
<1>16. CASE ReadCounts(e)
  <2>1. CASE Goto(e, Leave(e))
    BY <1>16, <2>1, GotoEffect DEF ReadCounts, At, Leave, Phases
  <2>2. CASE exec' = [exec EXCEPT ![e].phase = "closing",
               ![e].final = IF run[K(e)].failed > 0 THEN "failed" ELSE "completed"]
    <3> DEFINE f == IF run[K(e)].failed > 0 THEN "failed" ELSE "completed"
               x == [exec[e] EXCEPT !.phase = "closing", !.final = f]
    <3>1. f \in Closed
      BY DEF Closed
    <3>2. exec' = [exec EXCEPT ![e] = x]
      BY <2>2
    <3> HIDE DEF f
    <3>3. x \in Exec /\ x.phase = "closing" /\ x.run = K(e) /\ x.object = O(e)
      BY <1>1, <3>1 DEF Exec, K, O
    <3> HIDE DEF x
    <3>. QED
      BY <1>16, <3>2, <3>3, MoveEffect DEF ReadCounts, At
  <2>. QED
    BY <1>16, <2>1, <2>2 DEF ReadCounts
<1>17. CASE CloseRun(e)
  <2>1. run' = [run EXCEPT ![K(e)] = [run[K(e)] EXCEPT !.status = exec[e].final]]
    BY <1>17 DEF CloseRun
  <2>2. exec[e].final \in {"completed", "failed"}
    BY <1>1, ExecFields DEF Closed
  <2>3. run' \in [Runs -> Run] /\ TargetsStay
    <3>1. run[K(e)] \in Run /\ K(e) \in Runs /\ TypeOK
      BY <1>2, <1>3, <1>17 DEF CloseRun, At, TypeInv
    <3>2. PICK w : w = [run[K(e)] EXCEPT !.status = exec[e].final]
      OBVIOUS
    <3>3. w \in Run /\ w.to = run[K(e)].to
      BY <2>2, <3>1, <3>2, StatusType
    <3>. QED
      BY <2>1, <3>1, <3>2, <3>3, RunSet
  <2>4. Leave(e) \in {"throwing", "returning"}
    BY DEF Leave
  <2>. QED
    BY <1>17, <2>3, <2>4, WriteEffect DEF CloseRun, At, Phases
<1>18. CASE Return(e)
  BY <1>18, ReturnEffect
<1>. QED
  BY <1>4, <1>5, <1>6, <1>7, <1>8, <1>9, <1>10, <1>11, <1>12, <1>13, <1>14, <1>15, <1>16,
     <1>17, <1>18 DEF ExecStep

-----------------------------------------------------------------------------
(* Type correctness.                                                       *)

LEMMA TypeInit == Init => TypeInv
<1> SUFFICES ASSUME Init PROVE TypeInv
  OBVIOUS
<1>1. /\ setting \in Settings /\ setting.mishaps \in Nat
      /\ setting.objects \subseteq Objects
  BY SettingType DEF Init
<1>2. NoRun \in Run
  BY DEF NoRun, Run, Providers
<1>3. exec \in [Execs -> Exec] /\ \A e \in Execs : exec[e].phase = "idle"
  BY <1>1, IdleType DEF Init
<1>4. admin \in Request /\ admin.op = "none"
  BY MigrationAssumption DEF Init, NoRequest, Request, Providers
<1>5. job \in [Runs -> [Objects -> Job]]
  BY DEF Init, Job
<1>6. lastRun \in 0 .. MaxRuns /\ mishaps \in 0 .. setting.mishaps
  BY <1>1, MigrationAssumption DEF Init
<1>7. /\ object \in [Objects -> Providers \cup {"gone"}]
      /\ bytes \in [Objects -> [Providers -> {"none", "old", "new"}]]
  BY DEF Init, Providers
<1>8. /\ user \in [Objects -> [op: {"none", "deleting", "emptied", "editing"}, at: Providers]]
      /\ wish \in [Objects -> {"original", "edited", "deleted"}]
  BY DEF Init, Providers
<1>. QED
  BY <1>1, <1>2, <1>3, <1>4, <1>5, <1>6, <1>7, <1>8 DEF Init, TypeInv, TypeOK, Bound, Item

LEMMA RequestTypes ==
  ASSUME TypeInv, RequestStep
  PROVE  /\ run' \in [Runs -> Run] /\ item' \in [Runs -> [Objects -> Item]]
         /\ job' \in [Runs -> [Objects -> Job]]
         /\ admin' \in Request /\ (admin'.op # "none" => admin'.run \in Runs)
         /\ lastRun' = lastRun
<1>1. NoRequest \in Request /\ NoRequest.op = "none"
  BY MigrationAssumption DEF NoRequest, Request, Providers
<1>2. admin \in Request /\ (admin.op # "none" => admin.run \in Runs)
  BY DEF TypeInv, TypeOK, Bound
<1>3. CASE TriggerCreates
  <2> DEFINE r == [NoRun EXCEPT !.status = "pending", !.to = admin.to,
                                !.total = Cardinality(admin.todo)]
  <2>1. Cardinality(admin.todo) \in Nat
    BY <1>2, MigrationAssumption, FS_Subset, FS_CardinalityType DEF Request
  <2>2. r \in Run
    BY <1>2, <2>1 DEF NoRun, Run, Request, ActiveStatuses
  <2>3. run' = [run EXCEPT ![admin.run] = r]
    BY <1>3 DEF TriggerCreates
  <2> HIDE DEF r
  <2>4. run' \in [Runs -> Run]
    BY <2>2, <2>3 DEF TypeInv, TypeOK
  <2>5. admin' \in Request /\ admin'.run = admin.run
    BY <1>2, <1>3 DEF TriggerCreates, Request
  <2>. QED
    BY <1>2, <1>3, <2>4, <2>5 DEF TriggerCreates, TypeInv, TypeOK
<1>4. CASE TriggerItemizes
  <2>1. run[admin.run] \in Run /\ admin.run \in Runs
    BY <1>2, <1>4 DEF TriggerItemizes, TypeInv, TypeOK
  <2>2. [run[admin.run] EXCEPT !.status = "completed"] \in Run
    BY <2>1, StatusType
  <2>3. run' \in [Runs -> Run]
    BY <1>4, <2>1, <2>2 DEF TriggerItemizes, TypeInv, TypeOK
  <2>4. item' \in [Runs -> [Objects -> Item]]
    <3> DEFINE y == [o \in Objects |-> IF o \in admin.todo THEN "pending" ELSE "none"]
    <3>1. y \in [Objects -> Item]
      BY DEF Item
    <3>2. item' = item \/ item' = [item EXCEPT ![admin.run] = y]
      BY <1>4 DEF TriggerItemizes
    <3> HIDE DEF y
    <3>. QED
      BY <2>1, <3>1, <3>2 DEF TypeInv, TypeOK
  <2>5. admin' \in Request /\ (admin'.op # "none" => admin'.run \in Runs)
    BY <1>1, <1>2, <1>4, <2>1 DEF TriggerItemizes, Request
  <2>. QED
    BY <1>4, <2>3, <2>4, <2>5 DEF TriggerItemizes, TypeInv, TypeOK
<1>5. ASSUME NEW o \in Objects, TriggerEnqueues(o)
      PROVE  /\ job' \in [Runs -> [Objects -> Job]] /\ UNCHANGED <<run, item, lastRun>>
             /\ admin' \in Request /\ (admin'.op # "none" => admin'.run \in Runs)
  <2>1. [status |-> "pending", attempts |-> 0] \in Job
    BY DEF Job
  <2>2. job' \in [Runs -> [Objects -> Job]]
    BY <1>2, <1>5, <2>1, JobSet DEF TriggerEnqueues, TypeInv
  <2>3. [admin EXCEPT !.todo = @ \ {o}] \in Request /\ [admin EXCEPT !.todo = @ \ {o}].run = admin.run
    BY <1>2 DEF Request
  <2>. QED
    BY <1>1, <1>2, <1>5, <2>2, <2>3 DEF TriggerEnqueues
<1>6. CASE CancelWrites
  <2>1. run[admin.run] \in Run /\ admin.run \in Runs
    BY <1>2, <1>6 DEF CancelWrites, TypeInv, TypeOK
  <2>2. run' \in [Runs -> Run]
    BY <1>6, <2>1, StatusType DEF CancelWrites, TypeInv, TypeOK
  <2>3. admin' \in Request /\ admin'.run = admin.run
    BY <1>2, <1>6 DEF CancelWrites, Request
  <2>. QED
    BY <1>6, <2>1, <2>2, <2>3 DEF CancelWrites, TypeInv, TypeOK
<1>7. CASE CancelSweeps
  <2> DEFINE k == admin.run
             y == [o \in Objects |->
                IF job[k][o].status = "pending" THEN [job[k][o] EXCEPT !.status = "none"]
                                                ELSE job[k][o]]
  <2>1. k \in Runs
    BY <1>2, <1>7 DEF CancelSweeps
  <2>2. \A o \in Objects : job[k][o] \in Job
    BY <2>1 DEF TypeInv, TypeOK
  <2>3. \A j \in Job : [j EXCEPT !.status = "none"] \in Job
    BY DEF Job
  <2>4. job' = [job EXCEPT ![k] = y]
    BY <1>7, <2>1 DEF CancelSweeps, TypeInv, TypeOK
  <2>5. y \in [Objects -> Job]
    BY <2>2, <2>3
  <2> HIDE DEF k, y
  <2>6. job' \in [Runs -> [Objects -> Job]]
    BY <2>1, <2>4, <2>5 DEF TypeInv, TypeOK
  <2>. QED
    BY <1>1, <1>7, <2>6 DEF CancelSweeps, TypeInv, TypeOK
<1>. QED
  BY <1>3, <1>4, <1>5, <1>6, <1>7 DEF RequestStep, TypeInv, TypeOK

LEMMA MishapType ==
  ASSUME TypeOK, NEW fault, Mishap(fault)
  PROVE  setting' \in Settings /\ mishaps' \in 0 .. setting'.mishaps
BY SettingType DEF TypeOK, Mishap

LEMMA ClaimTypes ==
  ASSUME TypeInv, NEW e \in Execs, NEW k \in Runs, NEW o \in Objects, Claim(e, k, o)
  PROVE  /\ job' \in [Runs -> [Objects -> Job]] /\ exec' \in [Execs -> Exec]
         /\ exec'[e].phase = "item" /\ exec'[e].run = k /\ exec'[e].object = o
         /\ \A d \in Execs : d # e => exec'[d] = exec[d]
         /\ UNCHANGED <<setting, object, bytes, run, item, admin, user, wish, lastRun, mishaps>>
<1>1. job[k][o] \in Job
  BY DEF TypeInv, TypeOK
<1> DEFINE y == [status |-> "running", attempts |-> job[k][o].attempts + 1]
           last == job[k][o].attempts + 1 >= MaxAttempts
           x == [Idle(o) EXCEPT !.phase = "item", !.run = k, !.last = last]
<1>2. y \in Job
  BY <1>1 DEF Job
<1>3. job' = [job EXCEPT ![k][o] = y]
  BY <1>1 DEF Claim, TypeInv, TypeOK
<1>4. last \in BOOLEAN /\ k \in 0 .. MaxRuns
  BY MigrationAssumption DEF Runs
<1>5. exec' = [exec EXCEPT ![e] = x]
  BY DEF Claim
<1> HIDE DEF y, last
<1>6. x \in Exec /\ x.phase = "item" /\ x.run = k /\ x.object = o
  BY <1>4, IdleType DEF Exec, Idle
<1> HIDE DEF x
<1>7. UNCHANGED <<setting, object, bytes, run, item, admin, user, wish, lastRun, mishaps>>
  BY DEF Claim
<1>. QED
  BY <1>2, <1>3, <1>5, <1>6, <1>7, JobSet DEF TypeInv, TypeOK

LEMMA UserTypes ==
  ASSUME TypeInv, NEW o \in Objects, UserStep(o)
  PROVE  TypeInv'
<1>1. user[o].at \in Providers
  BY DEF TypeInv, TypeOK
<1>2. user' \in [Objects -> [op: {"none", "deleting", "emptied", "editing"}, at: Providers]]
  <2>1. PICK op \in {"none", "emptied"} : user' = [user EXCEPT ![o] = [user[o] EXCEPT !.op = op]]
    BY DEF UserStep, DeleteBytes, DeleteRow, EditWrites
  <2>2. [user[o] EXCEPT !.op = op] \in [op: {"none", "deleting", "emptied", "editing"}, at: Providers]
    BY DEF TypeInv, TypeOK
  <2>. QED
    BY <2>1, <2>2 DEF TypeInv, TypeOK
<1>3. bytes' \in [Objects -> [Providers -> {"none", "old", "new"}]]
  <2>1. \/ bytes' = bytes
        \/ \E b \in {"none", "new"} : bytes' = [bytes EXCEPT ![o] = [bytes[o] EXCEPT ![user[o].at] = b]]
    BY DEF UserStep, DeleteBytes, DeleteRow, EditWrites
  <2>2. CASE bytes' = bytes
    BY <2>2 DEF TypeInv, TypeOK
  <2>3. ASSUME NEW b \in {"none", "new"},
               bytes' = [bytes EXCEPT ![o] = [bytes[o] EXCEPT ![user[o].at] = b]]
        PROVE  bytes' \in [Objects -> [Providers -> {"none", "old", "new"}]]
    <3>1. [bytes[o] EXCEPT ![user[o].at] = b] \in [Providers -> {"none", "old", "new"}]
      BY <1>1 DEF TypeInv, TypeOK
    <3>. QED
      BY <2>3, <3>1 DEF TypeInv, TypeOK
  <2>. QED
    BY <2>1, <2>2, <2>3
<1>4. object' \in [Objects -> Providers \cup {"gone"}]
  BY DEF UserStep, DeleteBytes, DeleteRow, EditWrites, TypeInv, TypeOK
<1>5. item' \in [Runs -> [Objects -> Item]]
  <2> DEFINE Left(k) == [item[k] EXCEPT ![o] = "none"]
  <2>1. item' = item \/ item' = [k \in Runs |-> Left(k)]
    BY DEF UserStep, DeleteBytes, DeleteRow, EditWrites
  <2>2. \A k \in Runs : Left(k) \in [Objects -> Item]
    BY DEF TypeInv, TypeOK, Item
  <2> HIDE DEF Left
  <2>. QED
    BY <2>1, <2>2 DEF TypeInv, TypeOK
<1>6. wish' \in [Objects -> {"original", "edited", "deleted"}]
  BY DEF UserStep, DeleteBytes, DeleteRow, EditWrites, TypeInv, TypeOK
<1>7. UNCHANGED <<setting, run, job, exec, admin, lastRun, mishaps>>
  BY DEF UserStep
<1>. QED
  BY <1>2, <1>3, <1>4, <1>5, <1>6, <1>7 DEF TypeInv, TypeOK, Bound

LEMMA BeginTypes ==
  ASSUME TypeInv, NEW o \in Objects, NEW op \in {"deleting", "editing"}, Begin(o, op)
  PROVE  user' \in [Objects -> [op: {"none", "deleting", "emptied", "editing"}, at: Providers]]
BY DEF Begin, Exists, TypeInv, TypeOK

LEMMA TypeStep == TypeInv /\ [Next]_vars => TypeInv'
<1> SUFFICES ASSUME TypeInv, [Next]_vars PROVE TypeInv'
  OBVIOUS
<1>1. CASE RequestStep
  BY <1>1, RequestTypes DEF RequestStep, TypeInv, TypeOK, Bound
<1>2. CASE NewRequest
  <2>1. ASSUME NEW to \in Providers, TriggerReads(to)
        PROVE  /\ admin' \in Request /\ admin'.run \in Runs /\ lastRun' \in 0 .. MaxRuns
               /\ UNCHANGED <<run, item, job>>
    <3>1. lastRun + 1 \in Runs
      BY <2>1, SettingType, MigrationAssumption DEF TriggerReads, TypeInv, TypeOK, Runs
    <3>. QED
      BY <2>1, <3>1, MigrationAssumption DEF TriggerReads, Request, Runs
  <2>2. ASSUME NEW k \in Runs, CancelReads(k)
        PROVE  /\ admin' \in Request /\ admin'.run \in Runs
               /\ UNCHANGED <<run, item, job, lastRun>>
    <3> DEFINE x == [NoRequest EXCEPT !.op = "cancelling", !.run = k]
    <3>1. k \in 0 .. MaxRuns
      BY MigrationAssumption DEF Runs
    <3>2. x \in Request /\ x.run = k
      BY <3>1 DEF NoRequest, Request, Providers
    <3>3. admin' = x /\ UNCHANGED <<run, item, job, lastRun>>
      BY <2>2 DEF CancelReads
    <3> HIDE DEF x
    <3>. QED
      BY <3>2, <3>3
  <2>. QED
    BY <1>2, <2>1, <2>2 DEF NewRequest, TypeInv, TypeOK, Bound
<1>3. ASSUME NEW e \in Execs, NEW k \in Runs, NEW o \in Objects, Claim(e, k, o)
      PROVE  TypeInv'
  <2>1. \A d \in Execs : exec'[d].phase # "idle" => exec'[d].run \in Runs
    BY <1>3, ClaimTypes DEF TypeInv, Bound
  <2>2. job' \in [Runs -> [Objects -> Job]] /\ exec' \in [Execs -> Exec]
    BY <1>3, ClaimTypes
  <2>3. UNCHANGED <<setting, object, bytes, run, item, admin, user, wish, lastRun, mishaps>>
    BY <1>3, ClaimTypes
  <2>. QED
    BY <2>1, <2>2, <2>3 DEF TypeInv, TypeOK, Bound
<1>4. ASSUME NEW k \in Runs, NEW o \in Objects, Reap(k, o)
      PROVE  TypeInv'
  <2>1. job' \in [Runs -> [Objects -> Job]]
    <3>1. GivenBack(job[k][o]) \in Job
      BY GivenBackType DEF TypeInv, TypeOK
    <3>2. job' = [job EXCEPT ![k][o] = GivenBack(job[k][o])]
      BY <1>4 DEF Reap
    <3>. QED
      BY <3>1, <3>2, JobSet DEF TypeInv
  <2>. QED
    BY <1>4, <2>1 DEF Reap, TypeInv, TypeOK, Bound
<1>5. ASSUME NEW k \in Runs, NEW o \in Objects, RetryJob(k, o)
      PROVE  TypeInv'
  <2>1. job' \in [Runs -> [Objects -> Job]]
    BY <1>5, JobSet DEF RetryJob, TypeInv, Job
  <2>. QED
    BY <1>5, <2>1, MishapType DEF RetryJob, TypeInv, TypeOK, Bound
<1>6. ASSUME NEW e \in Execs, ExecStep(e)
      PROVE  TypeInv'
  <2>1. Effect(e)
    BY <1>6, ExecEffect
  <2>2. ASSUME NEW d \in Execs, exec'[d].phase # "idle" PROVE exec'[d].run \in Runs
    <3>1. CASE d = e
      <4>1. exec[e].phase # "idle"
        BY <1>6 DEF ExecStep, ReadItem, ReadRun, Skip, StartRun, MarkCopying, LoadObject, Already,
           Copy, CopyFails, Verify, Repoint, Record, ReadCounts, CloseRun, Return, At
      <4>. QED
        BY <2>1, <2>2, <3>1, <4>1 DEF Effect, Stays, K, TypeInv, Bound
    <3>2. CASE d # e
      BY <2>1, <2>2, <3>2 DEF Effect, Stays, TypeInv, Bound
    <3>. QED
      BY <3>1, <3>2
  <2>. QED
    BY <1>6, <2>1, <2>2 DEF ExecStep, Effect, Typed, TypeInv, TypeOK, Bound
<1>7. ASSUME NEW e \in Execs, TimesOut(e)
      PROVE  TypeInv'
  <2>1. exec[e] \in Exec /\ exec[e].phase # "idle"
    BY <1>7 DEF TimesOut, TypeInv, TypeOK
  <2>2. exec[e].run \in Runs /\ exec[e].object \in Objects
    BY <2>1, ExecFields DEF TypeInv, Bound
  <2>3. job' \in [Runs -> [Objects -> Job]]
    <3>1. GivenBack(job[exec[e].run][exec[e].object]) \in Job
      BY <2>2, GivenBackType DEF TypeInv, TypeOK
    <3>2. job' = [job EXCEPT ![exec[e].run][exec[e].object] = GivenBack(job[exec[e].run][exec[e].object])]
      BY <1>7 DEF TimesOut
    <3>. QED
      BY <2>2, <3>1, <3>2, JobSet DEF TypeInv
  <2>4. [exec[e] EXCEPT !.orphan = TRUE] \in Exec /\ [exec[e] EXCEPT !.orphan = TRUE].run = exec[e].run
    BY <2>1 DEF Exec
  <2>. QED
    BY <1>7, <2>2, <2>3, <2>4, MishapType DEF TimesOut, TypeInv, TypeOK, Bound
<1>8. ASSUME NEW e \in Execs, StatementFails(e)
      PROVE  TypeInv'
  <2>1. exec[e].phase # "idle"
    BY <1>8 DEF StatementFails
  <2>2. \E ph \in {"recording", "throwing"} : Goto(e, ph)
    BY <1>8 DEF StatementFails
  <2>3. exec' \in [Execs -> Exec] /\ \A d \in Execs : exec'[d].phase # "idle" => exec'[d].run \in Runs
    BY <2>1, <2>2, GotoType DEF Phases
  <2>. QED
    BY <1>8, <2>3, MishapType DEF StatementFails, TypeInv, TypeOK, Bound
<1>9. ASSUME NEW o \in Objects, UserStep(o)
      PROVE  TypeInv'
  BY <1>9, UserTypes
<1>10. ASSUME NEW o \in Objects, DeleteReads(o)
       PROVE  TypeInv'
  BY <1>10, BeginTypes, MishapType DEF DeleteReads, Begin, TypeInv, TypeOK, Bound
<1>11. ASSUME NEW o \in Objects, EditReads(o)
       PROVE  TypeInv'
  BY <1>11, BeginTypes, MishapType DEF EditReads, Begin, TypeInv, TypeOK, Bound
<1>12. CASE Crash
  <2>1. exec' \in [Execs -> Exec] /\ \A e \in Execs : exec'[e].phase = "idle"
    BY <1>12, ExecFields, IdleType DEF Crash, TypeInv, TypeOK
  <2>2. admin' \in Request /\ admin'.op = "none"
    BY <1>12, MigrationAssumption DEF Crash, NoRequest, Request, Providers
  <2>3. user' \in [Objects -> [op: {"none", "deleting", "emptied", "editing"}, at: Providers]]
    BY <1>12 DEF Crash, Providers
  <2>. QED
    BY <1>12, <2>1, <2>2, <2>3, MishapType DEF Crash, TypeInv, TypeOK, Bound
<1>13. CASE UNCHANGED vars
  <2>1. TypeOK'
    BY <1>13 DEF vars, TypeInv, TypeOK
  <2>2. exec' = exec /\ admin' = admin
    BY <1>13 DEF vars
  <2>3. Bound'
    BY <2>2 DEF TypeInv, Bound
  <2>. QED
    BY <2>1, <2>3 DEF TypeInv
<1>. QED
  BY <1>1, <1>2, <1>3, <1>4, <1>5, <1>6, <1>7, <1>8, <1>9, <1>10, <1>11, <1>12, <1>13 DEF Next

(* Every variable keeps its type: the counters stay natural numbers, an     *)
(* execution stays about a run and an object, and no bytes appear that were *)
(* neither uploaded nor edited.                                             *)
THEOREM TypeCorrect == Spec => []TypeOK
<1>1. TypeInv => TypeOK
  BY DEF TypeInv
<1>. QED
  BY <1>1, TypeInit, TypeStep, PTL DEF Spec

-----------------------------------------------------------------------------
(* Reachability of the bytes.  It is not inductive: repointing is safe      *)
(* because the copy has been verified (Landed), the target verified is the  *)
(* one repointed to because the row of a run is created once, before any    *)
(* job of it (Unused), and bytes go only when the owner wants it (Meant).   *)

Landed ==
  \A e \in Execs :
    exec[e].phase = "repointing" /\ wish[O(e)] # "deleted" =>
      bytes[O(e)][run[K(e)].to] # "none"

Meant ==
  \A o \in Objects :
    /\ user[o].op \in {"deleting", "emptied"} => wish[o] = "deleted"
    /\ user[o].op = "editing" => wish[o] # "deleted"

UnusedRun(k) ==
  /\ \A o \in Objects : job[k][o].status = "none"
  /\ \A e \in Execs : exec[e].phase # "idle" => exec[e].run # k

Unused ==
  /\ admin.op \in {"creating", "itemizing", "enqueuing"} => admin.run <= lastRun
  /\ \A k \in Runs :
       k > lastRun \/ (admin.op = "creating" /\ admin.run = k) => UnusedRun(k)

Kept == Reachable /\ Landed /\ Meant
SafeInv == TypeInv /\ Kept /\ Unused

LEMMA SafeInit == Init => SafeInv
<1> SUFFICES ASSUME Init PROVE SafeInv
  OBVIOUS
<1>1. TypeInv
  BY TypeInit
<1>2. \A e \in Execs : exec[e].phase = "idle"
  BY SettingType, IdleType DEF Init
<1>3. Reachable
  BY DEF Init, Reachable, Exists, Providers
<1>4. Meant
  BY DEF Init, Meant
<1>5. Unused
  BY <1>2 DEF Init, Unused, UnusedRun, NoRequest
<1>. QED
  BY <1>1, <1>2, <1>3, <1>4, <1>5 DEF SafeInv, Kept, Landed

(* A step that leaves rows, bytes and owners alone, starts no repointing    *)
(* and moves no target under one.                                           *)
LEMMA QuietStep ==
  ASSUME SafeInv, UNCHANGED <<object, bytes, wish>>, Meant',
         \A e \in Execs :
           exec'[e].phase = "repointing" =>
             /\ exec[e].phase = "repointing"
             /\ exec'[e].object = O(e) /\ exec'[e].run = K(e)
             /\ run'[K(e)].to = run[K(e)].to
  PROVE  Kept'
BY DEF SafeInv, Kept, Reachable, Landed, Exists, K, O

LEMMA JobUsed ==
  ASSUME SafeInv, NEW k \in Runs, NEW o \in Objects, job[k][o].status # "none"
  PROVE  k <= lastRun /\ ~(admin.op = "creating" /\ admin.run = k)
BY MigrationAssumption DEF SafeInv, Unused, UnusedRun, TypeInv, TypeOK, Runs

LEMMA ExecUsed ==
  ASSUME SafeInv, NEW e \in Execs, exec[e].phase # "idle"
  PROVE  K(e) \in Runs /\ K(e) <= lastRun /\ ~(admin.op = "creating" /\ admin.run = K(e))
BY MigrationAssumption DEF SafeInv, Unused, UnusedRun, TypeInv, TypeOK, Bound, Runs, K

(* A step that touches one job, of a run in use, and no execution of another *)
(* run.                                                                      *)
LEMMA UsedStep ==
  ASSUME SafeInv, UNCHANGED <<admin, lastRun>>,
         NEW k \in Runs, k <= lastRun, ~(admin.op = "creating" /\ admin.run = k),
         \A l \in Runs, o \in Objects : l # k => job'[l][o] = job[l][o],
         \A e \in Execs : exec'[e].phase # "idle" =>
            exec'[e].run = k \/ (exec[e].phase # "idle" /\ exec'[e].run = exec[e].run)
  PROVE  Unused'
<1> SUFFICES ASSUME NEW l \in Runs, l > lastRun \/ (admin.op = "creating" /\ admin.run = l)
             PROVE  UnusedRun(l)'
  BY DEF SafeInv, Unused
<1>1. UnusedRun(l)
  BY DEF SafeInv, Unused
<1>2. l # k
  BY MigrationAssumption DEF SafeInv, TypeInv, TypeOK, Runs
<1>. QED
  BY <1>1, <1>2 DEF UnusedRun

LEMMA SafeRequest ==
  ASSUME SafeInv, RequestStep
  PROVE  Kept' /\ Unused'
<1>1. admin \in Request /\ (admin.op # "none" => admin.run \in Runs) /\ lastRun \in Nat
      /\ lastRun' = lastRun
  BY RequestTypes, MigrationAssumption DEF SafeInv, TypeInv, TypeOK, Bound
<1>2. UNCHANGED <<object, bytes, exec, user, wish>>
  BY DEF RequestStep
<1>3. Meant'
  BY <1>2 DEF SafeInv, Kept, Meant
<1>4. ASSUME NEW e \in Execs, exec[e].phase # "idle"
      PROVE  run'[K(e)].to = run[K(e)].to
  <2>1. K(e) \in Runs /\ ~(admin.op = "creating" /\ admin.run = K(e))
    BY <1>4, ExecUsed
  <2>2. run[K(e)] \in Run
    BY <2>1 DEF SafeInv, TypeInv, TypeOK
  <2>3. CASE TriggerCreates
    BY <2>1, <2>3 DEF TriggerCreates, SafeInv, TypeInv, TypeOK
  <2>4. CASE TriggerItemizes
    <3> DEFINE r == [run[admin.run] EXCEPT !.status = "completed"]
    <3>1. admin.run \in Runs /\ run[admin.run] \in Run
      BY <1>1, <2>4 DEF TriggerItemizes, SafeInv, TypeInv, TypeOK
    <3>2. r \in Run /\ r.to = run[admin.run].to
      BY <3>1, StatusType
    <3>3. run' = run \/ run' = [run EXCEPT ![admin.run] = r]
      BY <2>4 DEF TriggerItemizes
    <3> HIDE DEF r
    <3>. QED
      BY <2>1, <3>1, <3>2, <3>3, RunSet DEF TargetsStay, SafeInv, TypeInv
  <2>5. CASE CancelWrites
    BY <2>1, <2>2, <2>5, StatusType DEF CancelWrites, SafeInv, TypeInv, TypeOK
  <2>6. CASE run' = run
    BY <2>6
  <2>. QED
    BY <2>3, <2>4, <2>5, <2>6 DEF RequestStep, TriggerEnqueues, CancelSweeps
<1>5. Kept'
  BY <1>2, <1>3, <1>4, QuietStep DEF K, O
<1>6. \A k \in Runs : UnusedRun(k) /\ (admin.op = "enqueuing" => k # admin.run) => UnusedRun(k)'
  <2> SUFFICES ASSUME NEW k \in Runs, UnusedRun(k), admin.op = "enqueuing" => k # admin.run,
                      NEW o \in Objects
               PROVE  job'[k][o].status = "none"
    BY <1>2 DEF UnusedRun
  <2>1. job[k][o].status = "none"
    BY DEF UnusedRun
  <2>2. CASE job' = job
    BY <2>1, <2>2
  <2>3. ASSUME NEW q \in Objects, TriggerEnqueues(q)
        PROVE  job'[k][o].status = "none"
    <3>1. admin.run \in Runs /\ k # admin.run
      BY <1>1, <2>3 DEF TriggerEnqueues
    <3>2. job'[k] = job[k]
      BY <2>3, <3>1 DEF TriggerEnqueues, SafeInv, TypeInv, TypeOK
    <3>. QED
      BY <2>1, <3>2
  <2>4. CASE CancelSweeps
    BY <2>1, <2>4 DEF CancelSweeps, SafeInv, TypeInv, TypeOK
  <2>. QED
    BY <2>2, <2>3, <2>4 DEF RequestStep, TriggerCreates, TriggerItemizes, CancelWrites
<1>7. /\ admin'.op # "creating"
      /\ admin'.op \in {"itemizing", "enqueuing"} =>
           admin.op \in {"creating", "itemizing", "enqueuing"} /\ admin'.run = admin.run
  BY <1>1 DEF RequestStep, TriggerCreates, TriggerItemizes, TriggerEnqueues, CancelWrites,
     CancelSweeps, NoRequest, Request
<1>8. Unused'
  <2>1. ASSUME NEW k \in Runs, k > lastRun
        PROVE  UnusedRun(k)'
    BY <1>1, <1>6, <2>1, MigrationAssumption DEF SafeInv, Unused, Runs
  <2>. QED
    BY <1>1, <1>7, <2>1 DEF SafeInv, Unused
<1>. QED
  BY <1>5, <1>8

LEMMA SafeNewRequest ==
  ASSUME SafeInv, NewRequest
  PROVE  Kept' /\ Unused'
<1>1. UNCHANGED <<object, bytes, run, job, exec, user, wish>>
  BY DEF NewRequest, TriggerReads, CancelReads
<1>2. Meant'
  BY <1>1 DEF SafeInv, Kept, Meant
<1>3. Kept'
  BY <1>1, <1>2, QuietStep DEF K, O
<1>4. \A k \in Runs : UnusedRun(k) => UnusedRun(k)'
  BY <1>1 DEF UnusedRun
<1>5. ASSUME NEW to \in Providers, TriggerReads(to)
      PROVE  Unused'
  <2>1. admin'.op = "creating" /\ admin'.run = lastRun + 1 /\ lastRun' = lastRun + 1
    BY <1>5 DEF TriggerReads
  <2>2. lastRun \in Nat
    BY MigrationAssumption DEF SafeInv, TypeInv, TypeOK
  <2>3. ASSUME NEW k \in Runs, k > lastRun' \/ admin'.run = k
        PROVE  UnusedRun(k)'
    <3>1. k > lastRun
      BY <2>1, <2>2, <2>3, MigrationAssumption DEF Runs
    <3>. QED
      BY <1>4, <3>1 DEF SafeInv, Unused
  <2>. QED
    BY <2>1, <2>2, <2>3 DEF Unused
<1>6. ASSUME NEW k \in Runs, CancelReads(k)
      PROVE  Unused'
  <2>1. admin'.op = "cancelling" /\ lastRun' = lastRun
    BY <1>6 DEF CancelReads, NoRequest
  <2>. QED
    BY <1>4, <2>1 DEF SafeInv, Unused
<1>. QED
  BY <1>3, <1>5, <1>6 DEF NewRequest

LEMMA SafeExec ==
  ASSUME SafeInv, NEW e \in Execs, ExecStep(e)
  PROVE  Kept' /\ Unused'
<1>1. Effect(e)
  BY ExecEffect DEF SafeInv
<1>2. exec[e].phase # "idle"
  BY DEF ExecStep, ReadItem, ReadRun, Skip, StartRun, MarkCopying, LoadObject, Already,
     Copy, CopyFails, Verify, Repoint, Record, ReadCounts, CloseRun, Return, At
<1>3. K(e) \in Runs /\ K(e) <= lastRun /\ ~(admin.op = "creating" /\ admin.run = K(e))
  BY <1>2, ExecUsed
<1>4. UNCHANGED <<admin, user, wish, lastRun>>
  BY DEF ExecStep
<1>5. O(e) \in Objects
  BY <1>2, ExecFields DEF SafeInv, TypeInv, TypeOK, O
<1>6. run[K(e)].to \in Providers
  BY <1>3 DEF SafeInv, TypeInv, TypeOK, Run
<1>7. Reachable'
  <2> SUFFICES ASSUME NEW o \in Objects, wish[o] # "deleted"
               PROVE  object'[o] # "gone" /\ bytes'[o][object'[o]] # "none"
    BY <1>4 DEF Reachable, Exists
  <2>1. object[o] \in Providers /\ bytes[o][object[o]] # "none"
    BY DEF SafeInv, Kept, Reachable, Exists, TypeInv, TypeOK
  <2>2. CASE object' = object
    BY <1>1, <2>1, <2>2 DEF Effect, BytesStay, Providers
  <2>3. CASE /\ exec[e].phase = "repointing"
             /\ object' = [object EXCEPT ![O(e)] = run[K(e)].to]
    <3>1. CASE o = O(e)
      <4>1. object'[o] = run[K(e)].to
        BY <1>5, <2>3, <3>1 DEF SafeInv, TypeInv, TypeOK
      <4>2. bytes[o][run[K(e)].to] # "none"
        BY <2>3, <3>1 DEF SafeInv, Kept, Landed
      <4>. QED
        BY <1>1, <1>6, <4>1, <4>2 DEF Effect, BytesStay, Providers
    <3>2. CASE o # O(e)
      BY <1>1, <2>1, <2>3, <3>2 DEF Effect, BytesStay, Providers, SafeInv, TypeInv, TypeOK
    <3>. QED
      BY <3>1, <3>2
  <2>. QED
    BY <1>1, <2>2, <2>3 DEF Effect
<1>8. Landed'
  <2> SUFFICES ASSUME NEW d \in Execs, exec'[d].phase = "repointing",
                      wish[exec'[d].object] # "deleted"
               PROVE  bytes'[exec'[d].object][run'[exec'[d].run].to] # "none"
    BY <1>4 DEF Landed, O, K
  <2>1. CASE d = e
    BY <1>1, <1>3, <2>1 DEF Effect, Stays, TargetsStay
  <2>2. CASE d # e
    <3>1. exec'[d] = exec[d] /\ exec[d].phase = "repointing"
      BY <1>1, <2>2 DEF Effect, Stays
    <3>2. exec[d].run \in Runs /\ exec[d].object \in Objects
      BY <3>1, ExecFields DEF SafeInv, TypeInv, TypeOK, Bound
    <3>3. bytes[exec[d].object][run[exec[d].run].to] # "none"
      BY <3>1 DEF SafeInv, Kept, Landed, O, K
    <3>4. run[exec[d].run].to \in Providers
      BY <3>2 DEF SafeInv, TypeInv, TypeOK, Run
    <3>. QED
      BY <1>1, <3>1, <3>2, <3>3, <3>4 DEF Effect, TargetsStay, BytesStay
  <2>. QED
    BY <2>1, <2>2
<1>9. Meant'
  BY <1>4 DEF SafeInv, Kept, Meant
<1>10. Unused'
  BY <1>1, <1>2, <1>3, <1>4, UsedStep DEF Effect, Stays, K
<1>. QED
  BY <1>7, <1>8, <1>9, <1>10 DEF Kept

LEMMA SafeUser ==
  ASSUME SafeInv, NEW o \in Objects, UserStep(o)
  PROVE  Kept' /\ Unused'
<1>1. UNCHANGED <<run, job, exec, admin, lastRun>>
  BY DEF UserStep
<1>2. Unused'
  BY <1>1 DEF SafeInv, Unused, UnusedRun
<1>3. user[o].op # "none" /\ user' = [user EXCEPT ![o].op = user'[o].op]
  BY DEF UserStep, DeleteBytes, DeleteRow, EditWrites, SafeInv, TypeInv, TypeOK
<1>4. user[o].at \in Providers
  BY DEF SafeInv, TypeInv, TypeOK
<1>5. CASE EditWrites(o)
  <2>1. wish[o] # "deleted" /\ wish' = [wish EXCEPT ![o] = "edited"] /\ object' = object
    BY <1>5 DEF EditWrites, SafeInv, Kept, Meant
  <2>2. \A q \in Objects : wish'[q] = "deleted" <=> wish[q] = "deleted"
    BY <2>1 DEF SafeInv, TypeInv, TypeOK
  <2>3. BytesStay
    BY <1>4, <1>5 DEF EditWrites, BytesStay, SafeInv, TypeInv, TypeOK
  <2>4. Reachable'
    BY <2>1, <2>2, <2>3 DEF SafeInv, Kept, Reachable, Exists, BytesStay, TypeInv, TypeOK
  <2>5. Meant'
    BY <1>5, <2>2 DEF EditWrites, SafeInv, Kept, Meant, TypeInv, TypeOK
  <2>6. Landed'
    <3> SUFFICES ASSUME NEW e \in Execs, exec[e].phase = "repointing", wish'[O(e)] # "deleted"
                 PROVE  bytes'[O(e)][run[K(e)].to] # "none"
      BY <1>1 DEF Landed, O, K
    <3>1. O(e) \in Objects /\ K(e) \in Runs
      BY ExecFields DEF SafeInv, TypeInv, TypeOK, Bound, O, K
    <3>2. run[K(e)].to \in Providers
      BY <3>1 DEF SafeInv, TypeInv, TypeOK, Run
    <3>. QED
      BY <2>2, <2>3, <3>1, <3>2 DEF SafeInv, Kept, Landed, BytesStay
  <2>. QED
    BY <1>2, <2>4, <2>5, <2>6 DEF Kept
<1>6. CASE DeleteBytes(o) \/ DeleteRow(o)
  <2>1. wish[o] = "deleted" /\ wish' = wish
    BY <1>6 DEF DeleteBytes, DeleteRow, SafeInv, Kept, Meant
  <2>2. \A q \in Objects : q # o => object'[q] = object[q] /\ bytes'[q] = bytes[q]
    BY <1>6 DEF DeleteBytes, DeleteRow, SafeInv, TypeInv, TypeOK
  <2>3. Reachable'
    BY <2>1, <2>2 DEF SafeInv, Kept, Reachable, Exists
  <2>4. Meant'
    <3> SUFFICES ASSUME NEW q \in Objects
                 PROVE  /\ user'[q].op \in {"deleting", "emptied"} => wish[q] = "deleted"
                        /\ user'[q].op = "editing" => wish[q] # "deleted"
      BY <2>1 DEF Meant
    <3>1. q # o => user'[q] = user[q]
      BY <1>6 DEF DeleteBytes, DeleteRow, SafeInv, TypeInv, TypeOK
    <3>2. user'[o].op \in {"emptied", "none"}
      BY <1>6 DEF DeleteBytes, DeleteRow, SafeInv, TypeInv, TypeOK
    <3>. QED
      BY <2>1, <3>1, <3>2 DEF SafeInv, Kept, Meant
  <2>5. Landed'
    <3> SUFFICES ASSUME NEW e \in Execs, exec[e].phase = "repointing", wish[O(e)] # "deleted"
                 PROVE  bytes'[O(e)][run[K(e)].to] # "none"
      BY <1>1, <2>1 DEF Landed, O, K
    <3>1. O(e) \in Objects /\ O(e) # o
      BY <2>1, ExecFields DEF SafeInv, TypeInv, TypeOK, O
    <3>. QED
      BY <2>2, <3>1 DEF SafeInv, Kept, Landed
  <2>. QED
    BY <1>2, <2>3, <2>4, <2>5 DEF Kept
<1>. QED
  BY <1>5, <1>6 DEF UserStep

LEMMA SafeBegin ==
  ASSUME SafeInv, NEW o \in Objects, DeleteReads(o) \/ EditReads(o)
  PROVE  Kept' /\ Unused'
<1>1. UNCHANGED <<object, bytes, run, job, exec, admin, lastRun>>
  BY DEF DeleteReads, EditReads, Begin
<1>2. Unused'
  BY <1>1 DEF SafeInv, Unused, UnusedRun
<1>3. \/ /\ wish' = [wish EXCEPT ![o] = "deleted"]
         /\ user' = [user EXCEPT ![o] = [op |-> "deleting", at |-> object[o]]]
      \/ /\ wish[o] = "original" /\ wish' = wish
         /\ user' = [user EXCEPT ![o] = [op |-> "editing", at |-> object[o]]]
  BY DEF DeleteReads, EditReads, Begin
<1>4. user[o].op = "none"
  BY DEF DeleteReads, EditReads, Begin
<1>5. \A q \in Objects : wish'[q] # "deleted" => wish[q] # "deleted"
  BY <1>3 DEF SafeInv, TypeInv, TypeOK
<1>6. Meant'
  <2> SUFFICES ASSUME NEW q \in Objects
               PROVE  /\ user'[q].op \in {"deleting", "emptied"} => wish'[q] = "deleted"
                      /\ user'[q].op = "editing" => wish'[q] # "deleted"
    BY DEF Meant
  <2>1. /\ user[q].op \in {"deleting", "emptied"} => wish[q] = "deleted"
        /\ user[q].op = "editing" => wish[q] # "deleted"
    BY DEF SafeInv, Kept, Meant
  <2>2. CASE q = o
    BY <1>3, <2>2 DEF SafeInv, TypeInv, TypeOK
  <2>3. CASE q # o
    BY <1>3, <2>1, <2>3 DEF SafeInv, TypeInv, TypeOK
  <2>. QED
    BY <2>2, <2>3
<1>7. Reachable'
  BY <1>1, <1>5 DEF SafeInv, Kept, Reachable, Exists
<1>8. Landed'
  <2> SUFFICES ASSUME NEW e \in Execs, exec[e].phase = "repointing", wish'[O(e)] # "deleted"
               PROVE  bytes[O(e)][run[K(e)].to] # "none"
    BY <1>1 DEF Landed, O, K
  <2>1. O(e) \in Objects
    BY ExecFields DEF SafeInv, TypeInv, TypeOK, O
  <2>. QED
    BY <1>5, <2>1 DEF SafeInv, Kept, Landed
<1>. QED
  BY <1>2, <1>6, <1>7, <1>8 DEF Kept

LEMMA SafeStep == SafeInv /\ [Next]_vars => SafeInv'
<1> SUFFICES ASSUME SafeInv, [Next]_vars PROVE SafeInv'
  OBVIOUS
<1>1. TypeInv'
  BY TypeStep DEF SafeInv
<1>2. CASE RequestStep
  BY <1>1, <1>2, SafeRequest DEF SafeInv
<1>3. CASE NewRequest
  BY <1>1, <1>3, SafeNewRequest DEF SafeInv
<1>4. ASSUME NEW e \in Execs, NEW k \in Runs, NEW o \in Objects, Claim(e, k, o)
      PROVE  Kept' /\ Unused'
  <2>1. /\ exec'[e].phase = "item" /\ exec'[e].run = k
        /\ \A d \in Execs : d # e => exec'[d] = exec[d]
        /\ UNCHANGED <<object, bytes, run, admin, user, wish, lastRun>>
    BY <1>4, ClaimTypes DEF SafeInv
  <2>2. k <= lastRun /\ ~(admin.op = "creating" /\ admin.run = k)
    BY <1>4, JobUsed DEF Claim
  <2>3. \A l \in Runs, q \in Objects : l # k => job'[l][q] = job[l][q]
    BY <1>4 DEF Claim, SafeInv, TypeInv, TypeOK
  <2>4. Unused'
    BY <2>1, <2>2, <2>3, UsedStep
  <2>5. Meant'
    BY <2>1 DEF SafeInv, Kept, Meant
  <2>6. Kept'
    BY <2>1, <2>5, QuietStep DEF K, O
  <2>. QED
    BY <2>4, <2>6
<1>5. ASSUME NEW k \in Runs, NEW o \in Objects, Reap(k, o) \/ RetryJob(k, o)
      PROVE  Kept' /\ Unused'
  <2>1. UNCHANGED <<object, bytes, run, exec, admin, user, wish, lastRun>>
    BY <1>5 DEF Reap, RetryJob
  <2>2. k <= lastRun /\ ~(admin.op = "creating" /\ admin.run = k)
    BY <1>5, JobUsed DEF Reap, RetryJob
  <2>3. \A l \in Runs, q \in Objects : l # k => job'[l][q] = job[l][q]
    BY <1>5 DEF Reap, RetryJob, SafeInv, TypeInv, TypeOK
  <2>4. Unused'
    BY <2>1, <2>2, <2>3, UsedStep
  <2>5. Meant'
    BY <2>1 DEF SafeInv, Kept, Meant
  <2>6. Kept'
    BY <2>1, <2>5, QuietStep DEF K, O
  <2>. QED
    BY <2>4, <2>6
<1>6. ASSUME NEW e \in Execs, ExecStep(e)
      PROVE  Kept' /\ Unused'
  BY <1>6, SafeExec
<1>7. ASSUME NEW e \in Execs, TimesOut(e) \/ StatementFails(e)
      PROVE  Kept' /\ Unused'
  <2>1. UNCHANGED <<object, bytes, run, admin, user, wish, lastRun>>
    BY <1>7 DEF TimesOut, StatementFails
  <2>2. exec[e].phase # "idle" /\ exec[e] \in Exec
    BY <1>7 DEF TimesOut, StatementFails, SafeInv, TypeInv, TypeOK
  <2>3. K(e) \in Runs /\ K(e) <= lastRun /\ ~(admin.op = "creating" /\ admin.run = K(e))
    BY <2>2, ExecUsed
  <2>4. \A l \in Runs, q \in Objects : l # K(e) => job'[l][q] = job[l][q]
    BY <1>7, <2>3 DEF TimesOut, StatementFails, K, SafeInv, TypeInv, TypeOK
  <2>5. /\ \A d \in Execs : d # e => exec'[d] = exec[d]
        /\ exec'[e].phase # "repointing" /\ exec'[e].run = K(e)
    <3>1. CASE TimesOut(e)
      BY <2>2, <3>1 DEF TimesOut, SafeInv, TypeInv, TypeOK, Exec, K
    <3>2. CASE StatementFails(e)
      <4>1. PICK ph \in {"recording", "throwing"} : exec' = [exec EXCEPT ![e] = [exec[e] EXCEPT !.phase = ph]]
        BY <3>2 DEF StatementFails, Goto
      <4>. QED
        BY <2>2, <4>1, Moved DEF SafeInv, TypeInv, TypeOK, Phases, K
    <3>. QED
      BY <1>7, <3>1, <3>2
  <2>6. Unused'
    BY <2>1, <2>3, <2>4, <2>5, UsedStep
  <2>7. Meant'
    BY <2>1 DEF SafeInv, Kept, Meant
  <2>8. Kept'
    BY <2>1, <2>5, <2>7, QuietStep DEF K, O
  <2>. QED
    BY <2>6, <2>8
<1>8. ASSUME NEW o \in Objects, UserStep(o)
      PROVE  Kept' /\ Unused'
  BY <1>8, SafeUser
<1>9. ASSUME NEW o \in Objects, DeleteReads(o) \/ EditReads(o)
      PROVE  Kept' /\ Unused'
  BY <1>9, SafeBegin
<1>10. CASE Crash
  <2>1. UNCHANGED <<object, bytes, run, job, wish, lastRun>> /\ admin'.op = "none"
    BY <1>10 DEF Crash, NoRequest
  <2>2. \A e \in Execs : exec'[e].phase = "idle"
    BY <1>10, ExecFields, IdleType DEF Crash, SafeInv, TypeInv, TypeOK
  <2>3. Meant'
    BY <1>10 DEF Crash, Meant
  <2>4. Kept'
    BY <2>1, <2>2, <2>3, QuietStep
  <2>5. Unused'
    BY <2>1, <2>2 DEF SafeInv, Unused, UnusedRun
  <2>. QED
    BY <1>1, <2>4, <2>5 DEF SafeInv
<1>11. CASE UNCHANGED vars
  <2>1. Reachable'
    BY <1>11 DEF vars, SafeInv, Kept, Reachable, Exists
  <2>2. Landed'
    BY <1>11 DEF vars, SafeInv, Kept, Landed, O, K
  <2>3. Meant'
    BY <1>11 DEF vars, SafeInv, Kept, Meant
  <2>4. Unused'
    BY <1>11 DEF vars, SafeInv, Unused, UnusedRun
  <2>. QED
    BY <1>1, <2>1, <2>2, <2>3, <2>4 DEF SafeInv, Kept
<1>. QED
  BY <1>1, <1>2, <1>3, <1>4, <1>5, <1>6, <1>7, <1>8, <1>9, <1>10, <1>11 DEF Next, SafeInv

(* An object nobody deletes can be read where its row says at every moment   *)
(* of any number of migrations, under every fault of every setting.          *)
THEOREM ObjectsReachable == Spec => []Reachable
<1>1. SafeInv => Reachable
  BY DEF SafeInv, Kept
<1>. QED
  BY <1>1, SafeInit, SafeStep, PTL DEF Spec

-----------------------------------------------------------------------------
(* An edit of an object survives its migrations.                            *)
(*                                                                          *)
(* Current speaks of the provider the row names; a migration copies from    *)
(* what the row named when it was read, and repoints later.  So the         *)
(* invariant follows the edited bytes through an execution: they are at     *)
(* the source it copies from and, once it has copied, at its target.        *)

MovingPhases == {"copying", "verifying", "repointing"}

Edited(o) == wish[o] = "edited" /\ "lateEdit" \notin setting.faults

Carried ==
  \A e \in Execs :
    Edited(O(e)) =>
      /\ exec[e].phase = "copying" => bytes[O(e)][exec[e].from] = "new"
      /\ exec[e].phase \in {"verifying", "repointing"} =>
           bytes[O(e)][run[K(e)].to] = "new"

EditInv == SafeInv /\ Current /\ Carried

LEMMA EditInit == Init => EditInv
<1> SUFFICES ASSUME Init PROVE EditInv
  OBVIOUS
<1>1. SafeInv
  BY SafeInit
<1>2. \A o \in Objects : wish[o] # "edited"
  BY DEF Init
<1>3. \A e \in Execs : exec[e].phase = "idle"
  BY SettingType, IdleType DEF Init
<1>. QED
  BY <1>1, <1>2, <1>3 DEF EditInv, Current, Carried

(* A step that leaves rows, bytes and owners alone, puts no execution into   *)
(* a moving phase and keeps source and target of the ones that are in one.   *)
LEMMA StillStep ==
  ASSUME EditInv, UNCHANGED <<setting, object, bytes, wish>>,
         \A e \in Execs :
           exec'[e].phase \in MovingPhases =>
             /\ exec'[e].phase = exec[e].phase /\ exec'[e].from = exec[e].from
             /\ exec'[e].object = O(e) /\ exec'[e].run = K(e)
             /\ run'[K(e)].to = run[K(e)].to
  PROVE  Current' /\ Carried'
<1>1. Current'
  BY DEF EditInv, Current, Exists
<1>2. Carried'
  BY DEF EditInv, Carried, Edited, MovingPhases, O, K
<1>. QED
  BY <1>1, <1>2

(* Requests create rows of runs that no execution is about, and change the   *)
(* status of the others.                                                     *)
LEMMA TargetKept ==
  ASSUME SafeInv, RequestStep, NEW e \in Execs, exec[e].phase # "idle"
  PROVE  run'[K(e)].to = run[K(e)].to
<1>1. K(e) \in Runs /\ ~(admin.op = "creating" /\ admin.run = K(e))
  BY ExecUsed
<1>2. run[K(e)] \in Run
  BY <1>1 DEF SafeInv, TypeInv, TypeOK
<1>3. CASE TriggerCreates
  BY <1>1, <1>3 DEF TriggerCreates, SafeInv, TypeInv, TypeOK
<1>4. CASE TriggerItemizes
  <2> DEFINE r == [run[admin.run] EXCEPT !.status = "completed"]
  <2>1. admin.run \in Runs /\ run[admin.run] \in Run
    BY <1>4 DEF TriggerItemizes, SafeInv, TypeInv, TypeOK, Bound
  <2>2. r \in Run /\ r.to = run[admin.run].to
    BY <2>1, StatusType
  <2>3. run' = run \/ run' = [run EXCEPT ![admin.run] = r]
    BY <1>4 DEF TriggerItemizes
  <2> HIDE DEF r
  <2>. QED
    BY <1>1, <2>1, <2>2, <2>3, RunSet DEF TargetsStay, SafeInv, TypeInv
<1>5. CASE CancelWrites
  BY <1>1, <1>2, <1>5, StatusType DEF CancelWrites, SafeInv, TypeInv, TypeOK
<1>6. CASE run' = run
  BY <1>6
<1>. QED
  BY <1>3, <1>4, <1>5, <1>6 DEF RequestStep, TriggerEnqueues, CancelSweeps

(* How an execution comes into each of the moving phases, and that only the  *)
(* copy itself touches bytes.                                                *)
MovesInOrder(e) ==
  /\ bytes' = bytes
  /\ exec'[e].phase # "verifying"
  /\ exec'[e].phase = "copying" => exec'[e].from = object[O(e)]
  /\ exec'[e].phase = "repointing" => exec[e].phase = "verifying"

LEMMA GotoMoves ==
  ASSUME TypeInv, NEW e \in Execs, NEW ph \in Phases \ MovingPhases,
         Goto(e, ph), bytes' = bytes
  PROVE  MovesInOrder(e)
BY Moved DEF TypeInv, TypeOK, Goto, MovesInOrder, MovingPhases

LEMMA RaiseMoves ==
  ASSUME TypeInv, NEW e \in Execs, Raise(e), bytes' = bytes
  PROVE  MovesInOrder(e)
BY RaisedPhase, GotoMoves DEF Phases, MovingPhases

LEMMA CountMoves ==
  ASSUME TypeInv, NEW e \in Execs, NEW status, NEW counted,
         Count(e, status, counted), bytes' = bytes
  PROVE  MovesInOrder(e)
<1> DEFINE caller == CASE status = "skipped" -> "skip"
                       [] status = "failed" -> "record"
                       [] OTHER -> "copy"
           x == [exec[e] EXCEPT !.phase = "reading", !.caller = caller]
<1>1. exec[e] \in Exec
  BY DEF TypeInv, TypeOK
<1>2. exec' = [exec EXCEPT ![e] = x]
  BY DEF Count
<1> HIDE DEF caller
<1>3. x.phase = "reading"
  BY <1>1 DEF Exec
<1> HIDE DEF x
<1>. QED
  BY <1>2, <1>3 DEF TypeInv, TypeOK, MovesInOrder

LEMMA ExecMoves ==
  ASSUME TypeInv, NEW e \in Execs, ExecStep(e)
  PROVE  Copy(e) \/ MovesInOrder(e)
<1>1. exec[e] \in Exec
  BY DEF TypeInv, TypeOK
<1>2. CASE ReadItem(e)
  <2>1. \E ph \in {"returning", "run"} : Goto(e, ph)
    BY <1>2 DEF ReadItem
  <2>. QED
    BY <1>2, <2>1, GotoMoves DEF ReadItem, Phases, MovingPhases
<1>3. CASE ReadRun(e)
  <2>1. \E ph \in {"skipping", "starting", "marking"} : Goto(e, ph)
    BY <1>3 DEF ReadRun
  <2>. QED
    BY <1>3, <2>1, GotoMoves DEF ReadRun, Phases, MovingPhases
<1>4. CASE Skip(e)
  BY <1>4, RaiseMoves, CountMoves DEF Skip
<1>5. CASE StartRun(e)
  BY <1>5, GotoMoves DEF StartRun, Phases, MovingPhases
<1>6. CASE MarkCopying(e)
  BY <1>6, GotoMoves, RaiseMoves DEF MarkCopying, Phases, Tried, MovingPhases
<1>7. CASE LoadObject(e)
  <2>1. CASE Raise(e) \/ Goto(e, "already")
    BY <1>7, <2>1, GotoMoves, RaiseMoves DEF LoadObject, Phases, Tried, MovingPhases
  <2>2. CASE exec' = [exec EXCEPT ![e].phase = "copying", ![e].from = object[O(e)]]
    BY <1>1, <1>7, <2>2 DEF LoadObject, MovesInOrder, TypeInv, TypeOK, Exec
  <2>. QED
    BY <1>7, <2>1, <2>2 DEF LoadObject
<1>8. CASE Already(e)
  BY <1>8, RaiseMoves, CountMoves DEF Already
<1>9. CASE CopyFails(e)
  BY <1>9, RaiseMoves DEF CopyFails
<1>10. CASE Verify(e)
  <2>1. CASE Raise(e)
    BY <1>10, <2>1, RaiseMoves DEF Verify
  <2>2. CASE Goto(e, "repointing")
    BY <1>1, <1>10, <2>2, Moved
    DEF Verify, Goto, At, Phases, Tried, MovesInOrder, TypeInv, TypeOK
  <2>. QED
    BY <1>10, <2>1, <2>2 DEF Verify
<1>11. CASE Repoint(e)
  BY <1>11, RaiseMoves, CountMoves DEF Repoint
<1>12. CASE Record(e)
  BY <1>12, RaiseMoves, CountMoves DEF Record
<1>13. CASE ReadCounts(e)
  <2>1. CASE Goto(e, Leave(e))
    BY <1>13, <2>1, GotoMoves DEF ReadCounts, Leave, Phases, MovingPhases
  <2>2. CASE exec' = [exec EXCEPT ![e].phase = "closing",
               ![e].final = IF run[K(e)].failed > 0 THEN "failed" ELSE "completed"]
    BY <1>1, <1>13, <2>2 DEF ReadCounts, MovesInOrder, TypeInv, TypeOK, Exec
  <2>. QED
    BY <1>13, <2>1, <2>2 DEF ReadCounts
<1>14. CASE CloseRun(e)
  BY <1>14, GotoMoves DEF CloseRun, Leave, Phases, MovingPhases
<1>15. CASE Return(e)
  <2>1. O(e) \in Objects
    BY <1>1, ExecFields DEF O
  <2>. QED
    BY <1>15, <2>1, IdleType DEF Return, MovesInOrder, TypeInv, TypeOK
<1>16. CASE Copy(e)
  BY <1>16
<1>. QED
  BY <1>2, <1>3, <1>4, <1>5, <1>6, <1>7, <1>8, <1>9, <1>10, <1>11, <1>12, <1>13, <1>14,
     <1>15, <1>16 DEF ExecStep

LEMMA EditExec ==
  ASSUME EditInv, NEW e \in Execs, ExecStep(e)
  PROVE  Current' /\ Carried'
<1>1. TypeInv /\ Effect(e) /\ exec[e].phase # "idle"
  BY ExecEffect DEF EditInv, SafeInv, ExecStep, ReadItem, ReadRun, Skip, StartRun,
     MarkCopying, LoadObject, Already, Copy, CopyFails, Verify, Repoint, Record, ReadCounts,
     CloseRun, Return, At
<1>2. UNCHANGED <<setting, wish>>
  BY DEF ExecStep
<1>3. K(e) \in Runs /\ O(e) \in Objects /\ exec[e].from \in Providers
  BY <1>1, ExecFields DEF TypeInv, TypeOK, Bound, K, O
<1>4. run[K(e)].to \in Providers
  BY <1>3 DEF EditInv, SafeInv, TypeInv, TypeOK, Run
<1>5. ASSUME Copy(e), Edited(O(e))
      PROVE  bytes' = [bytes EXCEPT ![O(e)][run[K(e)].to] = "new"]
  <2>1. bytes[O(e)][exec[e].from] = "new"
    BY <1>5 DEF EditInv, Carried, Copy, At
  <2>. QED
    BY <1>5, <2>1 DEF Copy
<1>6. ASSUME NEW o \in Objects, NEW p \in Providers, Edited(o), bytes[o][p] = "new"
      PROVE  bytes'[o][p] = "new"
  <2>1. CASE Copy(e) /\ o = O(e)
    BY <1>1, <1>3, <1>4, <1>5, <1>6, <2>1 DEF TypeInv, TypeOK
  <2>2. CASE Copy(e) /\ o # O(e)
    BY <1>3, <1>6, <2>2 DEF Copy
  <2>3. CASE MovesInOrder(e)
    BY <1>6, <2>3 DEF MovesInOrder
  <2>. QED
    BY <1>1, <2>1, <2>2, <2>3, ExecMoves
<1>7. Current'
  <2> SUFFICES ASSUME NEW o \in Objects, Edited(o)
               PROVE  object'[o] # "gone" /\ bytes'[o][object'[o]] = "new"
    BY <1>2 DEF Current, Edited, Exists
  <2>1. object[o] \in Providers /\ bytes[o][object[o]] = "new"
    BY <1>1 DEF EditInv, Current, Edited, Exists, TypeInv, TypeOK
  <2>2. CASE object'[o] = object[o]
    BY <1>6, <2>1, <2>2 DEF Providers
  <2>3. CASE /\ exec[e].phase = "repointing" /\ o = O(e)
             /\ object' = [object EXCEPT ![O(e)] = run[K(e)].to]
    <3>1. object'[o] = run[K(e)].to
      BY <1>1, <2>3 DEF TypeInv, TypeOK
    <3>2. bytes[o][run[K(e)].to] = "new"
      BY <2>3 DEF EditInv, Carried
    <3>. QED
      BY <1>4, <1>6, <3>1, <3>2 DEF Providers
  <2>. QED
    BY <1>1, <2>2, <2>3 DEF Effect, TypeInv, TypeOK
<1>8. Carried'
  <2> SUFFICES ASSUME NEW d \in Execs, Edited(exec'[d].object),
                      exec'[d].phase \in MovingPhases
               PROVE  /\ exec'[d].phase = "copying" =>
                           bytes'[exec'[d].object][exec'[d].from] = "new"
                      /\ exec'[d].phase \in {"verifying", "repointing"} =>
                           bytes'[exec'[d].object][run'[exec'[d].run].to] = "new"
    BY <1>2 DEF Carried, Edited, MovingPhases, O, K
  <2>1. CASE d # e
    <3>1. exec'[d] = exec[d]
      BY <1>1, <2>1 DEF Effect, Stays
    <3>2. /\ exec[d].run \in Runs /\ exec[d].object \in Objects /\ exec[d].from \in Providers
      BY <1>1, <3>1, ExecFields DEF TypeInv, TypeOK, Bound, MovingPhases
    <3>3. run[exec[d].run].to \in Providers /\ run'[exec[d].run].to = run[exec[d].run].to
      BY <1>1, <3>2 DEF TypeInv, TypeOK, Run, Effect, TargetsStay
    <3>4. /\ exec[d].phase = "copying" => bytes[exec[d].object][exec[d].from] = "new"
          /\ exec[d].phase \in {"verifying", "repointing"} =>
               bytes[exec[d].object][run[exec[d].run].to] = "new"
      BY <3>1 DEF EditInv, Carried, O, K
    <3>. QED
      BY <1>6, <3>1, <3>2, <3>3, <3>4
  <2>2. CASE d = e
    <3>1. /\ exec'[e].object = O(e) /\ exec'[e].run = K(e) /\ Edited(O(e))
          /\ run'[K(e)].to = run[K(e)].to
      BY <1>1, <1>3, <2>2 DEF Effect, Stays, TargetsStay, MovingPhases
    <3>2. CASE Copy(e)
      <4>1. exec'[e].phase = "verifying"
        BY <1>1, <3>2, Moved DEF Copy, Goto, Phases, Tried, TypeInv, TypeOK
      <4>2. bytes'[O(e)][run[K(e)].to] = "new"
        BY <1>1, <1>3, <1>4, <1>5, <3>1, <3>2 DEF TypeInv, TypeOK
      <4>. QED
        BY <2>2, <3>1, <4>1, <4>2
    <3>3. CASE MovesInOrder(e)
      <4>1. object[O(e)] # "gone" /\ bytes[O(e)][object[O(e)]] = "new"
        BY <1>3, <3>1 DEF EditInv, Current, Edited, Exists
      <4>2. exec[e].phase = "verifying" => bytes[O(e)][run[K(e)].to] = "new"
        BY <3>1 DEF EditInv, Carried
      <4>. QED
        BY <2>2, <3>1, <3>3, <4>1, <4>2 DEF MovesInOrder
    <3>. QED
      BY <1>1, <3>2, <3>3, ExecMoves
  <2>. QED
    BY <2>1, <2>2
<1>. QED
  BY <1>7, <1>8

(* An edit writes while nobody moves its object, and at the provider its row *)
(* names; a deletion is of an object that is not edited any more.            *)
LEMMA EditUser ==
  ASSUME EditInv, NEW o \in Objects, UserStep(o)
  PROVE  Current' /\ Carried'
<1>1. TypeInv /\ UNCHANGED <<setting, run, exec>>
  BY DEF UserStep, EditInv, SafeInv
<1>2. \A q \in Objects : q # o =>
        object'[q] = object[q] /\ bytes'[q] = bytes[q] /\ wish'[q] = wish[q]
  BY <1>1 DEF UserStep, DeleteBytes, DeleteRow, EditWrites, TypeInv, TypeOK
<1>3. Edited(o)' =>
        /\ object'[o] # "gone" /\ bytes'[o][object'[o]] = "new"
        /\ \A e \in Execs : O(e) = o => exec[e].phase \notin MovingPhases
  <2>1. CASE DeleteBytes(o) \/ DeleteRow(o)
    BY <2>1 DEF DeleteBytes, DeleteRow, Edited, EditInv, SafeInv, Kept, Meant
  <2>2. CASE EditWrites(o)
    <3>1. SUFFICES ASSUME ~Moving(o)
                   PROVE  /\ object'[o] # "gone" /\ bytes'[o][object'[o]] = "new"
                          /\ \A e \in Execs : O(e) = o => exec[e].phase \notin MovingPhases
      BY <1>1, <2>2 DEF EditWrites, Edited
    <3>2. wish[o] # "deleted" /\ object[o] = user[o].at /\ user[o].at \in Providers
      BY <1>1, <2>2, <3>1 DEF EditWrites, Moving, EditInv, SafeInv, Kept, Meant, TypeInv, TypeOK
    <3>3. object' = object /\ bytes'[o][user[o].at] = "new"
      BY <1>1, <2>2, <3>2 DEF EditWrites, TypeInv, TypeOK
    <3>. QED
      BY <3>1, <3>2, <3>3 DEF Moving, MovingPhases, O, Providers
  <2>. QED
    BY <2>1, <2>2 DEF UserStep
<1>4. Current'
  <2> SUFFICES ASSUME NEW q \in Objects, Edited(q)'
               PROVE  object'[q] # "gone" /\ bytes'[q][object'[q]] = "new"
    BY DEF Current, Edited, Exists
  <2>. QED
    BY <1>1, <1>2, <1>3 DEF EditInv, Current, Edited, Exists
<1>5. Carried'
  <2> SUFFICES ASSUME NEW e \in Execs, Edited(O(e))', exec[e].phase \in MovingPhases
               PROVE  /\ exec[e].phase = "copying" => bytes'[O(e)][exec[e].from] = "new"
                      /\ exec[e].phase \in {"verifying", "repointing"} =>
                           bytes'[O(e)][run[K(e)].to] = "new"
    BY <1>1 DEF Carried, MovingPhases, O, K
  <2>1. O(e) \in Objects /\ O(e)' = O(e)
    BY <1>1, ExecFields DEF TypeInv, TypeOK, O
  <2>2. O(e) # o
    BY <1>3, <2>1
  <2>3. Edited(O(e))
    BY <1>1, <1>2, <2>1, <2>2 DEF Edited
  <2>. QED
    BY <1>2, <2>1, <2>2, <2>3 DEF EditInv, Carried
<1>. QED
  BY <1>4, <1>5

LEMMA EditBegin ==
  ASSUME EditInv, NEW o \in Objects, DeleteReads(o) \/ EditReads(o)
  PROVE  Current' /\ Carried'
<1>1. TypeInv /\ UNCHANGED <<setting, object, bytes, run, exec>>
  BY DEF DeleteReads, EditReads, Begin, Mishap, EditInv, SafeInv
<1>2. \A q \in Objects : wish'[q] = "edited" => wish[q] = "edited"
  BY <1>1 DEF DeleteReads, EditReads, TypeInv, TypeOK
<1>3. \A e \in Execs : O(e) \in Objects
  BY <1>1, ExecFields DEF TypeInv, TypeOK, O
<1>4. Current'
  BY <1>1, <1>2 DEF EditInv, Current, Exists
<1>5. Carried'
  BY <1>1, <1>2, <1>3 DEF EditInv, Carried, Edited, O, K
<1>. QED
  BY <1>4, <1>5

LEMMA EditStep == EditInv /\ [Next]_vars => EditInv'
<1> SUFFICES ASSUME EditInv, [Next]_vars PROVE EditInv'
  OBVIOUS
<1>1. SafeInv' /\ TypeInv
  BY SafeStep DEF EditInv, SafeInv
<1>2. CASE RequestStep
  <2>1. UNCHANGED <<setting, object, bytes, exec, wish>>
    BY <1>2 DEF RequestStep
  <2>. QED
    BY <1>1, <1>2, <2>1, TargetKept, StillStep DEF EditInv, MovingPhases, O, K
<1>3. CASE NewRequest
  BY <1>1, <1>3, StillStep DEF EditInv, NewRequest, TriggerReads, CancelReads, O, K
<1>4. ASSUME NEW e \in Execs, NEW k \in Runs, NEW o \in Objects, Claim(e, k, o)
      PROVE  Current' /\ Carried'
  <2>1. exec'[e].phase = "item" /\ \A d \in Execs : d # e => exec'[d] = exec[d]
    BY <1>1, <1>4, ClaimTypes
  <2>2. UNCHANGED <<setting, object, bytes, run, wish>>
    BY <1>4 DEF Claim
  <2>. QED
    BY <2>1, <2>2, StillStep DEF MovingPhases, O, K
<1>5. ASSUME NEW k \in Runs, NEW o \in Objects, Reap(k, o) \/ RetryJob(k, o)
      PROVE  Current' /\ Carried'
  BY <1>5, StillStep DEF Reap, RetryJob, Mishap, O, K
<1>6. ASSUME NEW e \in Execs, ExecStep(e)
      PROVE  Current' /\ Carried'
  BY <1>6, EditExec
<1>7. ASSUME NEW e \in Execs, TimesOut(e)
      PROVE  Current' /\ Carried'
  <2>1. UNCHANGED <<setting, object, bytes, run, wish>>
    BY <1>7 DEF TimesOut, Mishap
  <2>2. exec[e] \in Exec /\ exec' = [exec EXCEPT ![e] = [exec[e] EXCEPT !.orphan = TRUE]]
    BY <1>1, <1>7 DEF TimesOut, TypeInv, TypeOK
  <2>3. \A d \in Execs :
          /\ exec'[d].phase = exec[d].phase /\ exec'[d].from = exec[d].from
          /\ exec'[d].object = exec[d].object /\ exec'[d].run = exec[d].run
    BY <1>1, <2>2 DEF TypeInv, TypeOK, Exec
  <2>. QED
    BY <2>1, <2>3, StillStep DEF O, K
<1>8. ASSUME NEW e \in Execs, StatementFails(e)
      PROVE  Current' /\ Carried'
  <2>1. UNCHANGED <<setting, object, bytes, run, wish>>
    BY <1>8 DEF StatementFails, Mishap
  <2>2. PICK ph \in {"recording", "throwing"} : exec' = [exec EXCEPT ![e] = [exec[e] EXCEPT !.phase = ph]]
    BY <1>8 DEF StatementFails, Goto
  <2>3. exec'[e].phase \notin MovingPhases /\ \A d \in Execs : d # e => exec'[d] = exec[d]
    BY <1>1, <2>2, Moved DEF TypeInv, TypeOK, Phases, MovingPhases
  <2>. QED
    BY <2>1, <2>3, StillStep DEF O, K
<1>9. ASSUME NEW o \in Objects, UserStep(o)
      PROVE  Current' /\ Carried'
  BY <1>9, EditUser
<1>10. ASSUME NEW o \in Objects, DeleteReads(o) \/ EditReads(o)
       PROVE  Current' /\ Carried'
  BY <1>10, EditBegin
<1>11. CASE Crash
  <2>1. UNCHANGED <<setting, object, bytes, run, wish>>
    BY <1>11 DEF Crash, Mishap
  <2>2. \A e \in Execs : exec'[e].phase = "idle"
    BY <1>1, <1>11, ExecFields, IdleType DEF Crash, TypeInv, TypeOK
  <2>3. Current' /\ Carried'
    BY <2>1, <2>2, StillStep DEF MovingPhases
  <2>. QED
    BY <1>1, <2>3 DEF EditInv
<1>12. CASE UNCHANGED vars
  BY <1>1, <1>12, StillStep DEF vars, EditInv, O, K
<1>. QED
  BY <1>1, <1>2, <1>3, <1>4, <1>5, <1>6, <1>7, <1>8, <1>9, <1>10, <1>11, <1>12
  DEF Next, EditInv

(* The bytes the row of an edited object names are the edited ones, through  *)
(* any number of migrations there and back, when no edit meets a migration.  *)
THEOREM EditsSurvive == Spec => []Current
<1>1. EditInv => Current
  BY DEF EditInv
<1>. QED
  BY <1>1, EditInit, EditStep, PTL DEF Spec

-----------------------------------------------------------------------------
(* Runs are closed in turn, and one at a time.                              *)

(* An execution that has found its item still to be done and not counted it. *)
Working(e) ==
  exec[e].phase \in {"run", "skipping", "starting", "marking", "recording"} \cup Tried
Unsettled == {"pending", "copying"}

(* A run that is cancelled for good: its counters do not matter any more.    *)
Free(k) == "lateCancel" \notin setting.faults /\ run[k].status = "cancelled"

(* The items a run has still to count, those deleted under way included.     *)
Open(k) == {o \in Objects : \/ item[k][o] \in Unsettled
                            \/ \E e \in Execs : Working(e) /\ K(e) = k /\ O(e) = o}
Sum(r) == r.migrated + r.failed + r.skipped

(* The queue: an execution has a running job, and has it for itself.         *)
Owned(e) == exec[e].phase # "idle" =>
  /\ ~exec[e].orphan /\ job[K(e)][O(e)].status = "running"
  /\ exec[e].last => job[K(e)][O(e)].attempts >= MaxAttempts
  /\ \A d \in Execs : exec[d].phase # "idle" /\ K(d) = K(e) /\ O(d) = O(e) => d = e
Attended == "crash" \notin setting.faults =>
  \A k \in Runs, o \in Objects : job[k][o].status = "running" => \E e \in Execs : Holds(e, k, o)

(* What an execution knows of its item and of its run.                       *)
CountedAs(caller) == CASE caller = "skip" -> "skipped"
                       [] caller = "record" -> "failed"
                       [] OTHER -> "completed"
Stage(e) == exec[e].phase # "idle" =>
  LET i == item[K(e)][O(e)] IN
  /\ At(e, "item") => i # "failed" /\ (i = "skipped" => Free(K(e)))
  /\ Working(e) => i \in Unsettled \cup {"none"} \/ (i = "skipped" /\ Free(K(e)))
  /\ exec[e].phase \in {"reading", "closing"} => i \in {"none", CountedAs(exec[e].caller)}
  /\ At(e, "throwing") => i \in Unsettled \cup {"none", "failed"}
  /\ At(e, "recording") => exec[e].last
  /\ At(e, "closing") =>
       /\ Open(K(e)) = {}
       /\ exec[e].final = "completed" => \A o \in Objects : item[K(e)][o] # "failed"
  /\ "lateCancel" \notin setting.faults =>
       /\ At(e, "skipping") => run[K(e)].status = "cancelled"
       /\ run[K(e)].status = "cancelled" =>
            exec[e].phase \in {"item", "run", "skipping", "reading", "returning", "throwing"}

(* What has been counted is not executed again, but in a run cancelled for   *)
(* good.                                                                     *)
Counted(k, o) ==
  /\ item[k][o] = "failed" => /\ job[k][o].attempts >= MaxAttempts
                              /\ job[k][o].status \notin {"none", "pending"}
  /\ item[k][o] = "skipped" =>
       IF "lateCancel" \in setting.faults THEN job[k][o].status \in {"running", "succeeded"}
                                          ELSE run[k].status = "cancelled"

(* The counters of a run and what it has still to count do not exceed its    *)
(* total.                                                                    *)
Blank(k) == \A o \in Objects : item[k][o] = "none" /\ job[k][o].status = "none"
FailedIn(k) == \E o \in Objects : item[k][o] = "failed"
Ledger(k) ==
  /\ ~Free(k) => Sum(run[k]) + Cardinality(Open(k)) <= run[k].total
  /\ FailedIn(k) => run[k].failed > 0
  /\ run[k].status \in Closed => Open(k) = {} /\ (run[k].status = "completed" => ~FailedIn(k))
  /\ run[k].status = "none" => Blank(k)
  /\ k > lastRun => run[k].status = "none"

(* The request being served: its run is new until it has items.              *)
Desk ==
  LET k == admin.run IN
  /\ admin.op = "creating" =>
       /\ run[k].status = "none" /\ k <= lastRun
       /\ "lateCancel" \notin setting.faults => NoneActive
  /\ admin.op = "itemizing" =>
       /\ Blank(k) /\ Sum(run[k]) = 0 /\ run[k].total = Cardinality(admin.todo)
       /\ run[k].status = "pending"
  /\ admin.op = "enqueuing" =>
       \A o \in admin.todo : job[k][o].status = "none" /\ item[k][o] \in {"pending", "none"}
  /\ admin.op \in {"enqueuing", "cancelling", "sweeping"} => run[k].status # "none"
OneActive ==
  "lateCancel" \notin setting.faults => \A j, k \in Runs : Active(j) /\ Active(k) => j = k

Turn ==
  /\ \A e \in Execs : Owned(e) /\ Stage(e)
  /\ \A k \in Runs : Ledger(k) /\ \A o \in Objects : Counted(k, o)
  /\ Attended /\ Desk /\ OneActive
TurnInv == TypeInv /\ (CountedOnce => Turn)

-----------------------------------------------------------------------------
(* Frames: what keeps each part of the invariant.                            *)

LEMMA Fewer ==
  ASSUME TypeInv, NEW k \in Runs, NEW T, T \subseteq Open(k)
  PROVE  /\ Cardinality(T) \in Nat /\ Cardinality(Open(k)) \in Nat
         /\ Cardinality(T) <= Cardinality(Open(k))
         /\ \A o \in Open(k) \ T : Cardinality(T) + 1 <= Cardinality(Open(k))
<1> PICK S : S = Open(k)
  OBVIOUS
<1>1. S \subseteq Objects
  BY DEF Open
<1>2. IsFiniteSet(S)
  BY <1>1, MigrationAssumption, FS_Subset
<1>3. IsFiniteSet(T) /\ Cardinality(T) <= Cardinality(S)
  BY <1>2, FS_Subset
<1>4. Cardinality(T) \in Nat /\ Cardinality(S) \in Nat
  BY <1>2, <1>3, FS_CardinalityType
<1>5. ASSUME NEW o \in S \ T PROVE Cardinality(T) + 1 <= Cardinality(S)
  <2>1. IsFiniteSet(S \ {o}) /\ Cardinality(S \ {o}) = Cardinality(S) - 1
    BY <1>2, <1>5, FS_RemoveElement
  <2>2. T \subseteq S \ {o}
    BY <1>5
  <2>3. Cardinality(T) <= Cardinality(S \ {o}) /\ Cardinality(S \ {o}) \in Nat
    BY <2>1, <2>2, FS_Subset, FS_CardinalityType
  <2>. QED
    BY <1>4, <2>1, <2>3
<1>. QED
  BY <1>3, <1>4, <1>5

LEMMA RunFields ==
  ASSUME NEW r \in Run
  PROVE  /\ r.total \in Nat /\ r.migrated \in Nat /\ r.failed \in Nat /\ r.skipped \in Nat
         /\ Sum(r) \in Nat
BY DEF Run, Sum

(* An execution under way: its job and its run exist, and no request is      *)
(* still making them.                                                        *)
LEMMA Busy ==
  ASSUME TypeInv, Turn, NEW e \in Execs, exec[e].phase # "idle"
  PROVE  /\ K(e) \in Runs /\ O(e) \in Objects /\ exec[e] \in Exec
         /\ job[K(e)][O(e)].status = "running" /\ ~exec[e].orphan
         /\ run[K(e)].status # "none"
         /\ admin.op \in {"creating", "itemizing"} => admin.run # K(e)
         /\ admin.op = "enqueuing" /\ admin.run = K(e) => O(e) \notin admin.todo
         /\ \A d \in Execs : exec[d].phase # "idle" /\ K(d) = K(e) /\ O(d) = O(e) => d = e
<1>1. K(e) \in Runs /\ O(e) \in Objects /\ exec[e] \in Exec
  BY ExecFields DEF TypeInv, TypeOK, Bound, K, O
<1>2. Owned(e)
  BY DEF Turn
<1>3. run[K(e)].status # "none"
  BY <1>1, <1>2 DEF Owned, Turn, Ledger, Blank
<1>. QED
  BY <1>1, <1>2, <1>3 DEF Owned, Turn, Desk, Blank

(* An execution at work has its item open: its run is not closed, and nobody *)
(* closes it.                                                                *)
LEMMA AtWork ==
  ASSUME TypeInv, Turn, NEW e \in Execs, Working(e)
  PROVE  /\ exec[e].phase # "idle" /\ O(e) \in Open(K(e)) /\ run[K(e)].status \notin Closed
         /\ \A d \in Execs : exec[d].phase # "idle" /\ K(d) = K(e) => ~At(d, "closing")
<1>1. exec[e].phase # "idle"
  BY DEF Working, Tried
<1>2. O(e) \in Open(K(e))
  BY <1>1, Busy DEF Open
<1>3. run[K(e)].status \notin Closed
  BY <1>1, <1>2, Busy DEF Turn, Ledger
<1>4. ASSUME NEW d \in Execs, exec[d].phase # "idle", K(d) = K(e)
      PROVE  ~At(d, "closing")
  BY <1>2, <1>4 DEF Turn, Stage
<1>. QED
  BY <1>1, <1>2, <1>3, <1>4

(* Nothing is reopened in a run that still counts.                           *)
Shrinks(k) == ~Free(k) => Open(k)' \subseteq Open(k)

LEMMA ShrinksStep ==
  ASSUME NEW k \in Runs,
         ~Free(k) => \A o \in Objects : item'[k][o] \in Unsettled => o \in Open(k),
         ~Free(k) => \A e \in Execs : Working(e)' /\ K(e)' = k => exec'[e].object \in Open(k)
  PROVE  Shrinks(k)
BY DEF Shrinks, Open, Unsettled, O, K

LEMMA OwnedFrame ==
  ASSUME NEW d \in Execs, Owned(d), exec'[d] = exec[d],
         exec[d].phase # "idle" =>
           /\ job'[K(d)][O(d)] = job[K(d)][O(d)]
           /\ \A c \in Execs : exec'[c].phase # "idle" =>
                \/ exec'[c].run = exec[c].run /\ exec'[c].object = exec[c].object
                   /\ exec[c].phase # "idle"
                \/ exec'[c].run # K(d) \/ exec'[c].object # O(d)
  PROVE  Owned(d)'
BY DEF Owned, K, O

LEMMA StageFrame ==
  ASSUME TypeInv, NEW d \in Execs, Stage(d), exec'[d] = exec[d], setting' = setting,
         exec[d].phase # "idle" =>
           /\ item'[K(d)][O(d)] \in {item[K(d)][O(d)], "none"}
           /\ "lateCancel" \notin setting.faults =>
                (run'[K(d)].status = "cancelled" <=> run[K(d)].status = "cancelled")
           /\ At(d, "closing") =>
                \A k \in Runs : k = K(d) => Shrinks(k) /\ (FailedIn(k)' => FailedIn(k))
  PROVE  Stage(d)'
<1> SUFFICES ASSUME exec[d].phase # "idle"
             PROVE  Stage(d)'
  BY DEF Stage
<1> PICK k, o, i, j, p : /\ k = K(d) /\ o = O(d) /\ i = item[k][o] /\ j = item'[k][o]
                         /\ p = exec[d].phase
  OBVIOUS
<1>1. /\ K(d)' = k /\ O(d)' = o /\ exec'[d].phase = p /\ exec'[d].last = exec[d].last
      /\ exec'[d].caller = exec[d].caller /\ exec'[d].final = exec[d].final
      /\ j \in {i, "none"} /\ p # "idle" /\ (Working(d)' <=> Working(d))
  BY DEF K, O, Working
<1>2. Free(k)' <=> Free(k)
  BY DEF Free
<1>3. ASSUME At(d, "closing")
      PROVE  /\ Open(k)' = {}
             /\ exec[d].final = "completed" => \A q \in Objects : item'[k][q] # "failed"
  <2>1. ~Free(k)
    BY <1>3 DEF Stage, Free, At
  <2>2. Open(k) = {} /\ (exec[d].final = "completed" => ~FailedIn(k))
    BY <1>3 DEF Stage, FailedIn
  <2>3. Shrinks(k) /\ (FailedIn(k)' => FailedIn(k))
    BY <1>3 DEF TypeInv, Bound, K
  <2>. QED
    BY <2>1, <2>2, <2>3 DEF Shrinks, FailedIn
<1>4. /\ p = "item" => i # "failed" /\ (i = "skipped" => Free(k))
      /\ Working(d) => i \in Unsettled \cup {"none"} \/ (i = "skipped" /\ Free(k))
      /\ p \in {"reading", "closing"} => i \in {"none", CountedAs(exec[d].caller)}
      /\ p = "throwing" => i \in Unsettled \cup {"none", "failed"}
      /\ p = "recording" => exec[d].last
      /\ "lateCancel" \notin setting.faults =>
           /\ p = "skipping" => run[k].status = "cancelled"
           /\ run[k].status = "cancelled" =>
                p \in {"item", "run", "skipping", "reading", "returning", "throwing"}
  BY DEF Stage, At
<1>5. /\ p = "item" => j # "failed" /\ (j = "skipped" => Free(k)')
      /\ Working(d)' => j \in Unsettled \cup {"none"} \/ (j = "skipped" /\ Free(k)')
      /\ p \in {"reading", "closing"} => j \in {"none", CountedAs(exec[d].caller)}
      /\ p = "throwing" => j \in Unsettled \cup {"none", "failed"}
      /\ "lateCancel" \notin setting'.faults =>
           /\ p = "skipping" => run'[k].status = "cancelled"
           /\ run'[k].status = "cancelled" =>
                p \in {"item", "run", "skipping", "reading", "returning", "throwing"}
  BY <1>1, <1>2, <1>4
<1>6. p = "closing" =>
       /\ Open(k)' = {}
       /\ exec[d].final = "completed" => \A q \in Objects : item'[k][q] # "failed"
  BY <1>3 DEF At
<1>7. Open(K(d))' = Open(k)' /\ Free(K(d))' = Free(k)'
  BY <1>1 DEF Open, Free
<1>. QED
  BY <1>1, <1>4, <1>5, <1>6, <1>7 DEF Stage, At

LEMMA CountedFrame ==
  ASSUME NEW k \in Runs, NEW o \in Objects, Counted(k, o), setting' = setting,
         item'[k][o] \in {item[k][o], "none", "pending", "copying", "completed"},
         job'[k][o] = job[k][o],
         "lateCancel" \notin setting.faults =>
           (run[k].status = "cancelled" => run'[k].status = "cancelled")
  PROVE  Counted(k, o)'
BY DEF Counted

LEMMA LedgerFrame ==
  ASSUME TypeInv, TypeInv', NEW k \in Runs, Ledger(k), setting' = setting, Shrinks(k),
         run'[k] = run[k], FailedIn(k)' => FailedIn(k),
         run[k].status = "none" => Blank(k)', k > lastRun' => k > lastRun
  PROVE  Ledger(k)'
<1> PICK S, T, r : S = Open(k) /\ T = Open(k)' /\ r = run[k]
  OBVIOUS
<1>1. Free(k)' <=> Free(k)
  BY DEF Free
<1>2. run'[k] = r /\ r \in Run
  BY DEF TypeInv, TypeOK
<1>3. ~Free(k) => Sum(r) + Cardinality(T) <= r.total
  <2> SUFFICES ASSUME ~Free(k) PROVE Sum(r) + Cardinality(T) <= r.total
    OBVIOUS
  <2>1. T \subseteq S
    BY DEF Shrinks
  <2>2. /\ Cardinality(T) \in Nat /\ Cardinality(S) \in Nat /\ Cardinality(T) <= Cardinality(S)
    BY <2>1, Fewer
  <2>3. Sum(r) + Cardinality(S) <= r.total
    BY DEF Ledger
  <2>. QED
    BY <1>2, <2>2, <2>3, RunFields
<1>4. r.status \in Closed => T = {} /\ (r.status = "completed" => ~FailedIn(k)')
  <2> SUFFICES ASSUME r.status \in Closed
               PROVE  T = {} /\ (r.status = "completed" => ~FailedIn(k)')
    OBVIOUS
  <2>1. ~Free(k)
    BY DEF Free, Closed
  <2>. QED
    BY <2>1 DEF Ledger, Shrinks
<1>5. (FailedIn(k)' => r.failed > 0) /\ (r.status = "none" => Blank(k)')
      /\ (k > lastRun' => r.status = "none")
  BY DEF Ledger
<1>. QED
  BY <1>1, <1>2, <1>3, <1>4, <1>5 DEF Ledger

-----------------------------------------------------------------------------
(* The steps of an execution, by what they change.                           *)

Keeps(e) ==
  /\ \A d \in Execs : d # e => exec'[d] = exec[d]
  /\ exec'[e].run = K(e) /\ exec'[e].object = O(e)
  /\ exec'[e].orphan = exec[e].orphan /\ exec'[e].last = exec[e].last

(* It reads, or gives up.                                                    *)
Looks(e) ==
  LET p == exec[e].phase
      q == exec'[e].phase IN
  /\ Keeps(e) /\ UNCHANGED <<item, run, job>>
  /\ \/ p = "item" /\ q = "returning"
     \/ p = "item" /\ q = "run" /\ item[K(e)][O(e)] \notin {"none", "completed"}
     \/ p = "run" /\ q = "skipping" /\ run[K(e)].status = "cancelled"
     \/ p = "run" /\ q \in {"starting", "marking"} /\ run[K(e)].status # "cancelled"
     \/ p \in Tried /\ q \in Tried
     \/ p \in Tried /\ q = "recording" /\ exec[e].last
     \/ /\ Working(e) /\ p # "run" /\ q = "throwing"
        /\ p = "skipping" => item[K(e)][O(e)] = "none"

(* It reads the counters.                                                    *)
Adds(e) ==
  LET r == run[K(e)] IN
  /\ Keeps(e) /\ UNCHANGED <<item, run, job>> /\ At(e, "reading")
  /\ exec'[e].caller = exec[e].caller
  /\ \/ exec'[e].phase = Leave(e)
     \/ /\ exec'[e].phase = "closing"
        /\ r.status \notin Closed \cup {"cancelled"} /\ Accounted(r)
        /\ exec'[e].final = "completed" => ~(r.failed > 0)

(* It counts its item.                                                       *)
Tallies(e) ==
  LET r == run[K(e)] IN
  \E st \in Final, new \in Run :
    /\ Keeps(e) /\ UNCHANGED job /\ Working(e) /\ item[K(e)][O(e)] # "none"
    /\ exec'[e].phase = "reading" /\ st = CountedAs(exec'[e].caller)
    /\ item' = [item EXCEPT ![K(e)][O(e)] = st]
    /\ run' = [run EXCEPT ![K(e)] = new]
    /\ new.status = r.status /\ new.total = r.total /\ Sum(new) = Sum(r) + 1
    /\ r.failed > 0 => new.failed > 0
    /\ st = "failed" => At(e, "recording") /\ new.failed > 0
    /\ st = "skipped" => At(e, "skipping")

Marks(e) ==
  /\ Keeps(e) /\ UNCHANGED <<run, job>> /\ At(e, "marking") /\ exec'[e].phase = "object"
  /\ item[K(e)][O(e)] # "none" /\ item' = [item EXCEPT ![K(e)][O(e)] = "copying"]
Starts(e) ==
  /\ Keeps(e) /\ UNCHANGED <<item, job>> /\ At(e, "starting") /\ exec'[e].phase = "marking"
  /\ run' = [run EXCEPT ![K(e)].status = "running"]
Closes(e) ==
  /\ Keeps(e) /\ UNCHANGED <<item, job>> /\ At(e, "closing") /\ exec'[e].phase = Leave(e)
  /\ run' = [run EXCEPT ![K(e)].status = exec[e].final]

LEMMA GotoKeeps ==
  ASSUME TypeInv, NEW e \in Execs, NEW ph \in Phases, Goto(e, ph)
  PROVE  /\ Keeps(e) /\ exec'[e].phase = ph /\ exec'[e].caller = exec[e].caller
         /\ exec'[e].final = exec[e].final
<1>1. exec[e] \in Exec /\ exec' = [exec EXCEPT ![e] = [exec[e] EXCEPT !.phase = ph]]
  BY DEF Goto, TypeInv, TypeOK
<1>2. PICK x : x = [exec[e] EXCEPT !.phase = ph]
  OBVIOUS
<1>3. /\ x.phase = ph /\ x.run = K(e) /\ x.object = O(e) /\ x.orphan = exec[e].orphan
      /\ x.last = exec[e].last /\ x.caller = exec[e].caller /\ x.final = exec[e].final
  BY <1>1, <1>2 DEF Exec, K, O
<1>4. exec'[e] = x /\ \A d \in Execs : d # e => exec'[d] = exec[d]
  BY <1>1, <1>2 DEF TypeInv, TypeOK
<1>. QED
  BY <1>3, <1>4 DEF Keeps

LEMMA RaiseLooks ==
  ASSUME TypeInv, NEW e \in Execs, Working(e), exec[e].phase # "run", Raise(e),
         UNCHANGED <<item, run, job>>, At(e, "skipping") => item[K(e)][O(e)] = "none"
  PROVE  Looks(e)
<1>1. PICK ph \in {"recording", "throwing"} :
        /\ Goto(e, ph)
        /\ ph = "recording" => exec[e].phase \in Tried /\ exec[e].last
  BY DEF Raise
<1>2. Keeps(e) /\ exec'[e].phase = ph
  BY <1>1, GotoKeeps DEF Phases
<1>. QED
  BY <1>1, <1>2 DEF Looks, At

LEMMA CountTallies ==
  ASSUME TypeInv, NEW e \in Execs, Working(e), NEW st \in Final, NEW new \in Run,
         Count(e, st, new), UNCHANGED job,
         new.status = run[K(e)].status, new.total = run[K(e)].total,
         Sum(new) = Sum(run[K(e)]) + 1, run[K(e)].failed > 0 => new.failed > 0,
         st = "failed" => At(e, "recording") /\ new.failed > 0,
         st = "skipped" => At(e, "skipping")
  PROVE  Tallies(e)
<1> DEFINE caller == CASE st = "skipped" -> "skip"
                       [] st = "failed" -> "record"
                       [] OTHER -> "copy"
           x == [exec[e] EXCEPT !.phase = "reading", !.caller = caller]
<1>1. exec[e] \in Exec
  BY DEF TypeInv, TypeOK
<1>2. exec' = [exec EXCEPT ![e] = x]
  BY DEF Count
<1>3. st = CountedAs(caller)
  BY DEF CountedAs, Final
<1> HIDE DEF caller
<1>4. /\ x.phase = "reading" /\ x.run = K(e) /\ x.object = O(e) /\ x.orphan = exec[e].orphan
      /\ x.last = exec[e].last /\ x.caller = caller
  BY <1>1 DEF Exec, K, O
<1> HIDE DEF x
<1>5. exec'[e] = x /\ \A d \in Execs : d # e => exec'[d] = exec[d]
  BY <1>2 DEF TypeInv, TypeOK
<1>6. Keeps(e) /\ exec'[e].phase = "reading" /\ st = CountedAs(exec'[e].caller)
  BY <1>3, <1>4, <1>5 DEF Keeps
<1>. QED
  BY <1>6 DEF Tallies, Count

LEMMA Counters ==
  ASSUME NEW r \in Run, NEW new,
         \/ new = [r EXCEPT !.migrated = @ + 1]
         \/ new = [r EXCEPT !.failed = @ + 1]
         \/ new = [r EXCEPT !.skipped = @ + 1]
  PROVE  /\ new \in Run /\ new.status = r.status /\ new.total = r.total
         /\ Sum(new) = Sum(r) + 1 /\ (r.failed > 0 => new.failed > 0)
         /\ new = [r EXCEPT !.failed = @ + 1] => new.failed > 0
BY DEF Run, Sum

LEMMA Bumps ==
  ASSUME TypeInv, NEW e \in Execs, Working(e), UNCHANGED job,
         \/ At(e, "skipping") /\ Count(e, "skipped", [run[K(e)] EXCEPT !.skipped = @ + 1])
         \/ exec[e].phase \in Tried /\ Count(e, "completed", [run[K(e)] EXCEPT !.migrated = @ + 1])
         \/ At(e, "recording") /\ Count(e, "failed", [run[K(e)] EXCEPT !.failed = @ + 1])
  PROVE  Tallies(e)
<1> PICK r : r = run[K(e)]
  OBVIOUS
<1>1. r \in Run
  BY DEF Working, Tried, TypeInv, TypeOK, Bound, K
<1>2. CASE At(e, "skipping") /\ Count(e, "skipped", [r EXCEPT !.skipped = @ + 1])
  <2> PICK new : new = [r EXCEPT !.skipped = @ + 1]
    OBVIOUS
  <2>. QED
    BY <1>1, <1>2, Counters, CountTallies DEF Final
<1>3. CASE Count(e, "completed", [r EXCEPT !.migrated = @ + 1])
  <2> PICK new : new = [r EXCEPT !.migrated = @ + 1]
    OBVIOUS
  <2>. QED
    BY <1>1, <1>3, Counters, CountTallies DEF Final
<1>4. CASE At(e, "recording") /\ Count(e, "failed", [r EXCEPT !.failed = @ + 1])
  <2> PICK new : new = [r EXCEPT !.failed = @ + 1]
    OBVIOUS
  <2>. QED
    BY <1>1, <1>4, Counters, CountTallies DEF Final
<1>. QED
  BY <1>2, <1>3, <1>4

LEMMA ExecKinds ==
  ASSUME TypeInv, NEW e \in Execs, ExecStep(e)
  PROVE  /\ exec[e].phase # "idle"
         /\ \/ Looks(e) \/ Adds(e) \/ Tallies(e) \/ Marks(e) \/ Starts(e) \/ Closes(e)
            \/ Return(e)
<1>1. CASE ReadItem(e)
  <2>1. PICK ph \in {"returning", "run"} :
          Goto(e, ph) /\ (ph = "run" => ~Settled(item[K(e)][O(e)]))
    BY <1>1 DEF ReadItem
  <2>2. Keeps(e) /\ exec'[e].phase = ph
    BY <2>1, GotoKeeps DEF Phases
  <2>. QED
    BY <1>1, <2>1, <2>2 DEF ReadItem, Looks, At, Settled
<1>2. CASE ReadRun(e)
  <2>1. PICK ph \in {"skipping", "starting", "marking"} :
          Goto(e, ph) /\ (ph = "skipping" <=> run[K(e)].status = "cancelled")
    BY <1>2 DEF ReadRun
  <2>2. Keeps(e) /\ exec'[e].phase = ph
    BY <2>1, GotoKeeps DEF Phases
  <2>. QED
    BY <1>2, <2>1, <2>2 DEF ReadRun, Looks, At
<1>3. CASE Skip(e) \/ Already(e) \/ Repoint(e) \/ Record(e)
  <2>1. exec[e].phase # "idle" /\ Working(e) /\ exec[e].phase # "run"
    BY <1>3 DEF Skip, Already, Repoint, Record, At, Working, Tried
  <2>2. CASE /\ Raise(e) /\ UNCHANGED <<item, run, job>>
             /\ At(e, "skipping") => item[K(e)][O(e)] = "none"
    BY <2>1, <2>2, RaiseLooks
  <2>3. CASE ~(/\ Raise(e) /\ UNCHANGED <<item, run, job>>
               /\ At(e, "skipping") => item[K(e)][O(e)] = "none")
    BY <1>3, <2>1, <2>3, Bumps DEF Skip, Already, Repoint, Record, At, Tried
  <2>. QED
    BY <2>1, <2>2, <2>3
<1>4. CASE StartRun(e)
  BY <1>4, GotoKeeps DEF StartRun, Starts, At, Phases
<1>5. CASE MarkCopying(e)
  <2>1. CASE Raise(e) /\ UNCHANGED item
    BY <1>5, <2>1, RaiseLooks DEF MarkCopying, At, Working
  <2>2. CASE ~(Raise(e) /\ UNCHANGED item)
    BY <1>5, <2>2, GotoKeeps DEF MarkCopying, Marks, At, Phases, Tried
  <2>. QED
    BY <1>5, <2>1, <2>2 DEF MarkCopying, At
<1>6. CASE LoadObject(e) \/ Copy(e) \/ CopyFails(e) \/ Verify(e)
  <2>1. /\ exec[e].phase # "idle" /\ Working(e) /\ exec[e].phase \in Tried
        /\ UNCHANGED <<item, run, job>>
    BY <1>6 DEF LoadObject, Copy, CopyFails, Verify, At, Working, Tried
  <2>2. CASE Raise(e)
    BY <2>1, <2>2, RaiseLooks DEF At, Tried
  <2>3. CASE \E ph \in Tried : Goto(e, ph)
    <3>1. PICK ph \in Tried : Goto(e, ph)
      BY <2>3
    <3>2. Keeps(e) /\ exec'[e].phase = ph
      BY <3>1, GotoKeeps DEF Phases
    <3>. QED
      BY <2>1, <3>1, <3>2 DEF Looks
  <2>4. CASE exec' = [exec EXCEPT ![e].phase = "copying", ![e].from = object[O(e)]]
    <3>1. exec[e] \in Exec
      BY DEF TypeInv, TypeOK
    <3>2. PICK x : x = [exec[e] EXCEPT !.phase = "copying", !.from = object[O(e)]]
      OBVIOUS
    <3>3. /\ x.phase = "copying" /\ x.run = K(e) /\ x.object = O(e)
          /\ x.orphan = exec[e].orphan /\ x.last = exec[e].last
      BY <3>1, <3>2 DEF Exec, K, O
    <3>4. exec'[e] = x /\ \A d \in Execs : d # e => exec'[d] = exec[d]
      BY <2>4, <3>2 DEF TypeInv, TypeOK
    <3>. QED
      BY <2>1, <3>3, <3>4 DEF Looks, Keeps, Tried
  <2>. QED
    BY <1>6, <2>1, <2>2, <2>3, <2>4 DEF LoadObject, Copy, CopyFails, Verify, Tried
<1>7. CASE ReadCounts(e)
  <2>1. /\ exec[e].phase # "idle" /\ At(e, "reading") /\ UNCHANGED <<item, run, job>>
    BY <1>7 DEF ReadCounts, At
  <2>2. CASE Goto(e, Leave(e))
    BY <2>1, <2>2, GotoKeeps DEF Adds, Leave, Phases
  <2>3. CASE ~Goto(e, Leave(e))
    <3> PICK f : f = IF run[K(e)].failed > 0 THEN "failed" ELSE "completed"
      OBVIOUS
    <3>1. /\ exec' = [exec EXCEPT ![e].phase = "closing", ![e].final = f]
          /\ run[K(e)].status \notin Closed \cup {"cancelled"} /\ Accounted(run[K(e)])
      BY <1>7, <2>3 DEF ReadCounts
    <3>2. exec[e] \in Exec
      BY DEF TypeInv, TypeOK
    <3>3. PICK x : x = [exec[e] EXCEPT !.phase = "closing", !.final = f]
      OBVIOUS
    <3>4. /\ x.phase = "closing" /\ x.run = K(e) /\ x.object = O(e) /\ x.final = f
          /\ x.orphan = exec[e].orphan /\ x.last = exec[e].last /\ x.caller = exec[e].caller
      BY <3>2, <3>3 DEF Exec, K, O
    <3>5. exec'[e] = x /\ \A d \in Execs : d # e => exec'[d] = exec[d]
      BY <3>1, <3>3 DEF TypeInv, TypeOK
    <3>. QED
      BY <2>1, <3>1, <3>4, <3>5 DEF Adds, Keeps
  <2>. QED
    BY <2>1, <2>2, <2>3
<1>8. CASE CloseRun(e)
  BY <1>8, GotoKeeps DEF CloseRun, Closes, At, Leave, Phases
<1>9. CASE Return(e)
  BY <1>9 DEF Return
<1>. QED
  BY <1>1, <1>2, <1>3, <1>4, <1>5, <1>6, <1>7, <1>8, <1>9 DEF ExecStep

-----------------------------------------------------------------------------
(* A step of an execution touches its own item, job and run, and starts no   *)
(* run that was not active.                                                  *)

Within(e) ==
  /\ \A d \in Execs : d # e => exec'[d] = exec[d]
  /\ exec'[e].phase # "idle" => Keeps(e)
  /\ \A k \in Runs : k # K(e) => run'[k] = run[k]
  /\ \A k \in Runs, o \in Objects : k # K(e) \/ o # O(e) =>
       item'[k][o] = item[k][o] /\ job'[k][o] = job[k][o]
  /\ run'[K(e)].status # "none"
  /\ "lateCancel" \notin setting.faults =>
       /\ run'[K(e)].status = "cancelled" <=> run[K(e)].status = "cancelled"
       /\ run'[K(e)].status \in ActiveStatuses => run[K(e)].status \in ActiveStatuses
  /\ UNCHANGED <<setting, admin, lastRun>>

LEMMA DeskFrame ==
  ASSUME Desk, UNCHANGED <<setting, admin, lastRun>>,
         admin.op \in {"creating", "itemizing"} =>
           run'[admin.run] = run[admin.run] /\ (Blank(admin.run) => Blank(admin.run)'),
         admin.op = "enqueuing" => \A o \in admin.todo :
           /\ job'[admin.run][o] = job[admin.run][o]
           /\ item'[admin.run][o] \in {item[admin.run][o], "none"},
         admin.op \in {"enqueuing", "cancelling", "sweeping"} =>
           (run[admin.run].status # "none" => run'[admin.run].status # "none"),
         "lateCancel" \notin setting.faults => (NoneActive => NoneActive')
  PROVE  Desk'
BY DEF Desk

LEMMA ExecFrame ==
  ASSUME TypeInv, TypeInv', Turn, NEW e \in Execs, exec[e].phase # "idle", Within(e),
         NEW k \in Runs, NEW o \in Objects, k = K(e), o = O(e),
         Shrinks(k), Working(e) \/ (FailedIn(k)' => FailedIn(k)),
         Owned(e)', Stage(e)', Counted(k, o)', Ledger(k)', Attended'
  PROVE  Turn'
<1>1. ASSUME NEW d \in Execs, d # e, exec[d].phase # "idle"
      PROVE  /\ K(d) \in Runs /\ O(d) \in Objects /\ exec'[d] = exec[d]
             /\ K(d) # k \/ O(d) # o
             /\ item'[K(d)][O(d)] = item[K(d)][O(d)] /\ job'[K(d)][O(d)] = job[K(d)][O(d)]
  BY <1>1, Busy DEF Within
<1>2. ASSUME NEW j \in Runs, j # k
      PROVE  Shrinks(j) /\ run'[j] = run[j] /\ \A q \in Objects : item'[j][q] = item[j][q]
                                                               /\ job'[j][q] = job[j][q]
  <2>1. run'[j] = run[j] /\ \A q \in Objects : item'[j][q] = item[j][q] /\ job'[j][q] = job[j][q]
    BY <1>2 DEF Within
  <2>2. ASSUME NEW q \in Objects, item'[j][q] \in Unsettled
        PROVE  q \in Open(j)
    BY <2>1, <2>2 DEF Open
  <2>3. ASSUME NEW d \in Execs, Working(d)', K(d)' = j
        PROVE  exec'[d].object \in Open(j)
    <3>1. d # e
      BY <1>2, <2>3 DEF Within, Keeps, K, Working, Tried
    <3>2. exec'[d] = exec[d]
      BY <3>1 DEF Within
    <3>3. Working(d) /\ K(d) = j /\ O(d) = exec'[d].object /\ exec[d] \in Exec
      BY <2>3, <3>2 DEF Working, K, O, TypeInv, TypeOK
    <3>. QED
      BY <3>3, ExecFields DEF Open, O
  <2>. QED
    BY <2>1, <2>2, <2>3, ShrinksStep
<1>3. ASSUME NEW d \in Execs PROVE Owned(d)'
  <2>1. CASE d = e
    BY <2>1
  <2>2. CASE d # e
    <3>1. Owned(d) /\ exec'[d] = exec[d]
      BY <2>2 DEF Turn, Within
    <3>2. ASSUME exec[d].phase # "idle", NEW c \in Execs, exec'[c].phase # "idle"
          PROVE  \/ /\ exec'[c].run = exec[c].run /\ exec'[c].object = exec[c].object
                    /\ exec[c].phase # "idle"
                 \/ exec'[c].run # K(d) \/ exec'[c].object # O(d)
      BY <3>2 DEF Within, Keeps, K, O
    <3>. QED
      BY <1>1, <2>2, <3>1, <3>2, OwnedFrame
  <2>. QED
    BY <2>1, <2>2
<1>4. ASSUME NEW d \in Execs PROVE Stage(d)'
  <2>1. CASE d = e
    BY <2>1
  <2>2. CASE d # e
    <3>1. Stage(d) /\ exec'[d] = exec[d] /\ setting' = setting
      BY <2>2 DEF Turn, Within
    <3>2. ASSUME exec[d].phase # "idle"
          PROVE  /\ item'[K(d)][O(d)] \in {item[K(d)][O(d)], "none"}
                 /\ "lateCancel" \notin setting.faults =>
                      (run'[K(d)].status = "cancelled" <=> run[K(d)].status = "cancelled")
      BY <1>1, <1>2, <2>2, <3>2 DEF Within
    <3>3. ASSUME exec[d].phase # "idle", At(d, "closing"), NEW j \in Runs, j = K(d)
          PROVE  Shrinks(j) /\ (FailedIn(j)' => FailedIn(j))
      <4>1. CASE j # k
        BY <1>2, <4>1 DEF FailedIn
      <4>2. CASE j = k
        BY <3>3, <4>2, AtWork
      <4>. QED
        BY <4>1, <4>2
    <3>. QED
      BY <3>1, <3>2, <3>3, StageFrame
  <2>. QED
    BY <2>1, <2>2
<1>5. ASSUME NEW j \in Runs PROVE Ledger(j)'
  <2>1. CASE j = k
    BY <2>1
  <2>2. CASE j # k
    <3>1. run[j].status = "none" => Blank(j)'
      BY <1>2, <2>2 DEF Turn, Ledger, Blank
    <3>. QED
      BY <1>2, <2>2, <3>1, LedgerFrame DEF Turn, Within, FailedIn
  <2>. QED
    BY <2>1, <2>2
<1>6. ASSUME NEW j \in Runs, NEW q \in Objects PROVE Counted(j, q)'
  <2>1. CASE j = k /\ q = o
    BY <2>1
  <2>2. CASE ~(j = k /\ q = o)
    BY <1>2, <2>2, CountedFrame DEF Turn, Within
  <2>. QED
    BY <2>1, <2>2
<1>7. "lateCancel" \notin setting.faults => \A j \in Runs : Active(j)' => Active(j)
  <2>1. ASSUME "lateCancel" \notin setting.faults, NEW j \in Runs, run'[j].status \in ActiveStatuses
        PROVE  run[j].status \in ActiveStatuses
    BY <1>2, <2>1 DEF Within
  <2>. QED
    BY <2>1 DEF Active
<1>8. Desk'
  <2>1. Desk /\ UNCHANGED <<setting, admin, lastRun>>
    BY DEF Turn, Within
  <2>2. admin.op \in {"creating", "itemizing"} =>
           run'[admin.run] = run[admin.run] /\ (Blank(admin.run) => Blank(admin.run)')
    <3> SUFFICES ASSUME admin.op \in {"creating", "itemizing"}
                 PROVE  run'[admin.run] = run[admin.run] /\ (Blank(admin.run) => Blank(admin.run)')
      OBVIOUS
    <3>1. admin.run \in Runs /\ admin.run # k /\ admin' = admin
      BY <2>1, Busy DEF TypeInv, Bound
    <3>. QED
      BY <1>2, <3>1 DEF Blank
  <2>3. ASSUME admin.op = "enqueuing", NEW q \in admin.todo
        PROVE  /\ job'[admin.run][q] = job[admin.run][q]
               /\ item'[admin.run][q] \in {item[admin.run][q], "none"}
    <3>1. admin.run \in Runs /\ q \in Objects /\ (admin.run # k \/ q # o)
      BY <2>3, Busy DEF TypeInv, TypeOK, Bound, Request
    <3>. QED
      BY <3>1 DEF Within
  <2>4. admin.op \in {"enqueuing", "cancelling", "sweeping"} =>
           (run[admin.run].status # "none" => run'[admin.run].status # "none")
    BY DEF Within, TypeInv, Bound
  <2>5. "lateCancel" \notin setting.faults => (NoneActive => NoneActive')
    BY <1>7 DEF NoneActive
  <2>. QED
    BY <2>1, <2>2, <2>3, <2>4, <2>5, DeskFrame
<1>9. OneActive'
  BY <1>7 DEF Turn, OneActive, Within
<1>. QED
  BY <1>3, <1>4, <1>5, <1>6, <1>8, <1>9 DEF Turn

LEMMA KeepsJob ==
  ASSUME TypeInv, Turn, NEW e \in Execs, exec[e].phase # "idle", Keeps(e),
         exec'[e].phase # "idle", UNCHANGED <<job, setting>>
  PROVE  Owned(e)' /\ Attended'
<1>1. \A d \in Execs : exec'[d].phase # "idle" =>
        /\ exec[d].phase # "idle" /\ exec'[d].run = exec[d].run
        /\ exec'[d].object = exec[d].object
  BY DEF Keeps, K, O
<1>2. \A d \in Execs : exec[d].phase # "idle" =>
        /\ exec'[d].phase # "idle" /\ exec'[d].run = exec[d].run
        /\ exec'[d].object = exec[d].object /\ exec'[d].orphan = exec[d].orphan
  BY DEF Keeps, K, O
<1>3. Owned(e) /\ exec'[e].orphan = exec[e].orphan /\ exec'[e].last = exec[e].last
  BY DEF Turn, Keeps
<1>4. Owned(e)'
  BY <1>1, <1>2, <1>3 DEF Owned, K, O
<1>5. Attended'
  BY <1>2 DEF Turn, Attended, Holds
<1>. QED
  BY <1>4, <1>5

(* Nothing is reopened when no item comes to be unsettled and nobody starts  *)
(* to work on one.                                                           *)
LEMMA KeepsOpen ==
  ASSUME TypeInv, NEW e \in Execs, exec[e].phase # "idle", NEW k \in Runs, k = K(e),
         \A d \in Execs : d # e => exec'[d] = exec[d],
         Working(e)' => exec'[e].object = O(e) /\ (~Free(k) => O(e) \in Open(k)),
         \A o \in Objects : item'[k][o] \in Unsettled => o \in Open(k)
  PROVE  Shrinks(k)
<1>1. ASSUME ~Free(k), NEW d \in Execs, Working(d)', K(d)' = k
      PROVE  exec'[d].object \in Open(k)
  <2>1. CASE d = e
    BY <1>1, <2>1
  <2>2. CASE d # e
    <3>1. exec'[d] = exec[d] /\ exec[d] \in Exec
      BY <2>2 DEF TypeInv, TypeOK
    <3>2. Working(d) /\ K(d) = k /\ O(d) = exec'[d].object /\ O(d) \in Objects
      BY <1>1, <3>1, ExecFields DEF Working, K, O
    <3>. QED
      BY <3>2 DEF Open
  <2>. QED
    BY <2>1, <2>2
<1>. QED
  BY <1>1, ShrinksStep

LEMMA LooksTurn ==
  ASSUME TypeInv, TypeInv', Turn, NEW e \in Execs, exec[e].phase # "idle", Looks(e),
         UNCHANGED <<setting, admin, lastRun>>
  PROVE  Turn'
<1> PICK k, o, i, p, q : /\ k = K(e) /\ o = O(e) /\ i = item[k][o]
                         /\ p = exec[e].phase /\ q = exec'[e].phase
  OBVIOUS
<1>1. /\ k \in Runs /\ o \in Objects /\ run[k].status # "none"
      /\ K(e)' = k /\ O(e)' = o /\ Keeps(e)
  BY Busy DEF Looks, Keeps, K, O
<1>2. UNCHANGED <<item, run, job>>
  BY DEF Looks
<1>3. /\ q # "idle" /\ exec'[e].last = exec[e].last
      /\ \/ p = "item" /\ q = "returning"
         \/ p = "item" /\ q = "run" /\ i \notin {"none", "completed"}
         \/ p = "run" /\ q = "skipping" /\ run[k].status = "cancelled"
         \/ p = "run" /\ q \in {"starting", "marking"} /\ run[k].status # "cancelled"
         \/ p \in Tried /\ q \in Tried
         \/ p \in Tried /\ q = "recording" /\ exec[e].last
         \/ /\ Working(e) /\ p # "run" /\ q = "throwing"
            /\ p = "skipping" => i = "none"
  BY <1>1 DEF Looks, Keeps, Tried
<1>4. i \in Item
  BY <1>1 DEF TypeInv, TypeOK
<1>5. /\ p = "item" => i # "failed" /\ (i = "skipped" => Free(k))
      /\ Working(e) => i \in Unsettled \cup {"none"} \/ (i = "skipped" /\ Free(k))
      /\ "lateCancel" \notin setting.faults =>
           /\ p = "skipping" => run[k].status = "cancelled"
           /\ run[k].status = "cancelled" =>
                p \in {"item", "run", "skipping", "reading", "returning", "throwing"}
  BY DEF Turn, Stage, At
<1>6. Free(k)' <=> Free(k)
  BY <1>2 DEF Free
<1>7. Stage(e)'
  <2>1. Working(e)' <=>
          q \in {"run", "skipping", "starting", "marking", "recording"} \cup Tried
    BY DEF Working
  <2>2. Working(e) <=>
          p \in {"run", "skipping", "starting", "marking", "recording"} \cup Tried
    BY DEF Working
  <2>3. q # "item" /\ q \notin {"reading", "closing"} /\ (q = "recording" => exec[e].last)
    BY <1>3 DEF Tried
  <2>4. Working(e)' => i \in Unsettled \cup {"none"} \/ (i = "skipped" /\ Free(k))
    <3>1. p # "item" /\ Working(e)' => Working(e)
      BY <1>3, <2>1, <2>2
    <3>2. p = "item" /\ Working(e)' => i \notin {"none", "completed"}
      BY <1>3, <2>1 DEF Tried
    <3>. QED
      BY <1>4, <1>5, <3>1, <3>2 DEF Item, Final, Unsettled
  <2>5. q = "throwing" => i \in Unsettled \cup {"none", "failed"}
    BY <1>3, <1>5, <2>2 DEF Free, Tried
  <2>6. "lateCancel" \notin setting.faults =>
          /\ q = "skipping" => run[k].status = "cancelled"
          /\ run[k].status = "cancelled" =>
               q \in {"item", "run", "skipping", "reading", "returning", "throwing"}
    BY <1>3, <1>5 DEF Tried
  <2>. QED
    BY <1>1, <1>2, <1>3, <1>6, <2>3, <2>4, <2>5, <2>6 DEF Stage, At
<1>8. Shrinks(k)
  <2>1. \A d \in Execs : d # e => exec'[d] = exec[d]
    BY <1>1 DEF Keeps
  <2>2. \A x \in Objects : item'[k][x] \in Unsettled => x \in Open(k)
    BY <1>2 DEF Open
  <2>3. Working(e)' => (~Free(k) => o \in Open(k))
    <3>1. p # "item" /\ Working(e)' => Working(e)
      BY <1>3 DEF Working, Tried
    <3>2. Working(e) => o \in Open(k)
      BY <1>1 DEF Open
    <3>3. p = "item" /\ Working(e)' => i \in Unsettled \/ Free(k)
      BY <1>3, <1>4, <1>5 DEF Working, Tried, Item, Final, Unsettled
    <3>. QED
      BY <1>1, <3>1, <3>2, <3>3 DEF Open
  <2>. QED
    BY <1>1, <2>1, <2>2, <2>3, KeepsOpen DEF O
<1>9. FailedIn(k)' => FailedIn(k)
  BY <1>2 DEF FailedIn
<1>10. Ledger(k)'
  <2>1. run[k].status = "none" => Blank(k)'
    BY <1>1
  <2>. QED
    BY <1>1, <1>2, <1>8, <1>9, <2>1, LedgerFrame DEF Turn
<1>11. Counted(k, o)'
  BY <1>1, <1>2, CountedFrame DEF Turn
<1>12. Within(e)
  BY <1>1, <1>2 DEF Within, Keeps
<1>13. Owned(e)' /\ Attended'
  BY <1>1, <1>2, <1>3, KeepsJob
<1>. QED
  BY <1>1, <1>7, <1>8, <1>9, <1>10, <1>11, <1>12, <1>13, ExecFrame

LEMMA AddsTurn ==
  ASSUME TypeInv, TypeInv', Turn, NEW e \in Execs, exec[e].phase # "idle", Adds(e),
         UNCHANGED <<setting, admin, lastRun>>
  PROVE  Turn'
<1> PICK k, o, i, q, r : /\ k = K(e) /\ o = O(e) /\ i = item[k][o]
                         /\ q = exec'[e].phase /\ r = run[k]
  OBVIOUS
<1>1. /\ k \in Runs /\ o \in Objects /\ r.status # "none" /\ r \in Run
      /\ K(e)' = k /\ O(e)' = o /\ Keeps(e)
  BY Busy DEF Adds, Keeps, K, O, TypeInv, TypeOK
<1>2. UNCHANGED <<item, run, job>> /\ exec'[e].caller = exec[e].caller
  BY DEF Adds
<1>3. \/ q = "throwing" /\ exec[e].caller = "record"
      \/ q = "returning"
      \/ /\ q = "closing" /\ r.status \notin Closed \cup {"cancelled"} /\ Accounted(r)
         /\ exec'[e].final = "completed" => ~(r.failed > 0)
  BY DEF Adds, Leave
<1>4. i \in {"none", CountedAs(exec[e].caller)}
  BY DEF Turn, Stage, Adds, At
<1>5. Shrinks(k)
  <2>1. \A d \in Execs : d # e => exec'[d] = exec[d]
    BY <1>1 DEF Keeps
  <2>2. \A x \in Objects : item'[k][x] \in Unsettled => x \in Open(k)
    BY <1>2 DEF Open
  <2>3. ~Working(e)'
    BY <1>3 DEF Working, Tried
  <2>. QED
    BY <1>1, <2>1, <2>2, <2>3, KeepsOpen
<1>6. FailedIn(k)' => FailedIn(k)
  BY <1>2 DEF FailedIn
<1>7. ASSUME q = "closing"
      PROVE  /\ Open(k)' = {} /\ r.status # "cancelled"
             /\ exec'[e].final = "completed" => \A x \in Objects : item'[k][x] # "failed"
  <2>1. r.status \notin Closed \cup {"cancelled"} /\ Accounted(r)
        /\ (exec'[e].final = "completed" => ~(r.failed > 0))
    BY <1>3, <1>7
  <2>2. ~Free(k)
    BY <2>1 DEF Free
  <2>3. Sum(r) + Cardinality(Open(k)) <= r.total /\ Sum(r) >= r.total
    BY <1>1, <2>1, <2>2 DEF Turn, Ledger, Accounted, Sum
  <2>4. Open(k) = {}
    <3>1. /\ Cardinality(Open(k)) \in Nat /\ {} \subseteq Open(k)
          /\ \A x \in Open(k) \ {} : Cardinality({}) + 1 <= Cardinality(Open(k))
      BY <1>1, Fewer
    <3>2. Cardinality({}) = 0
      BY FS_EmptySet
    <3>. QED
      BY <1>1, <2>3, <3>1, <3>2, RunFields
  <2>5. Open(k)' = {}
    BY <1>5, <2>2, <2>4 DEF Shrinks
  <2>6. exec'[e].final = "completed" => ~FailedIn(k)
    BY <1>1, <2>1 DEF Turn, Ledger
  <2>. QED
    BY <1>6, <2>1, <2>5, <2>6 DEF FailedIn
<1>8. Stage(e)'
  <2>1. q \in {"throwing", "returning", "closing"} /\ ~Working(e)'
    BY <1>3 DEF Working, Tried
  <2>2. q = "throwing" => i \in Unsettled \cup {"none", "failed"}
    BY <1>3, <1>4 DEF CountedAs
  <2>3. q = "closing" => r.status # "cancelled"
    BY <1>7
  <2>. QED
    BY <1>1, <1>2, <1>4, <1>7, <2>1, <2>2, <2>3 DEF Stage, At
<1>9. Ledger(k)'
  <2>1. run[k].status = "none" => Blank(k)'
    BY <1>1
  <2>. QED
    BY <1>1, <1>2, <1>5, <1>6, <2>1, LedgerFrame DEF Turn
<1>10. Counted(k, o)'
  BY <1>1, <1>2, CountedFrame DEF Turn
<1>11. Within(e)
  BY <1>1, <1>2 DEF Within, Keeps
<1>12. Owned(e)' /\ Attended'
  BY <1>1, <1>2, <1>3, KeepsJob
<1>. QED
  BY <1>1, <1>5, <1>6, <1>8, <1>9, <1>10, <1>11, <1>12, ExecFrame

LEMMA TalliesTurn ==
  ASSUME TypeInv, TypeInv', Turn, NEW e \in Execs, exec[e].phase # "idle", Tallies(e),
         UNCHANGED <<setting, admin, lastRun>>
  PROVE  Turn'
<1> PICK k, o, i, p, r : /\ k = K(e) /\ o = O(e) /\ i = item[k][o]
                         /\ p = exec[e].phase /\ r = run[k]
  OBVIOUS
<1>1. PICK st \in Final, new \in Run :
        /\ Keeps(e) /\ UNCHANGED job /\ Working(e) /\ i # "none"
        /\ exec'[e].phase = "reading" /\ st = CountedAs(exec'[e].caller)
        /\ item' = [item EXCEPT ![k][o] = st]
        /\ run' = [run EXCEPT ![k] = new]
        /\ new.status = r.status /\ new.total = r.total /\ Sum(new) = Sum(r) + 1
        /\ r.failed > 0 => new.failed > 0
        /\ st = "failed" => At(e, "recording") /\ new.failed > 0
        /\ st = "skipped" => At(e, "skipping")
  BY DEF Tallies
<1>2. /\ k \in Runs /\ o \in Objects /\ r.status # "none" /\ r \in Run
      /\ K(e)' = k /\ O(e)' = o /\ job[k][o].status = "running"
      /\ \A d \in Execs : exec[d].phase # "idle" /\ K(d) = k /\ O(d) = o => d = e
  BY <1>1, Busy DEF Keeps, K, O, TypeInv, TypeOK
<1>3. o \in Open(k) /\ r.status \notin Closed
  BY <1>1, AtWork
<1>4. /\ run'[k] = new /\ \A j \in Runs : j # k => run'[j] = run[j]
  BY <1>1, <1>2 DEF TypeInv, TypeOK
<1>5. /\ item'[k][o] = st
      /\ \A j \in Runs, x \in Objects : j # k \/ x # o => item'[j][x] = item[j][x]
  BY <1>1, <1>2 DEF TypeInv, TypeOK
<1>6. Free(k)' <=> Free(k)
  BY <1>1, <1>4 DEF Free
<1>7. Open(k)' \subseteq Open(k) \ {o}
  <2> SUFFICES ASSUME NEW x \in Open(k)'
               PROVE  x \in Open(k) /\ x # o
    OBVIOUS
  <2>1. x \in Objects
    BY DEF Open
  <2>2. CASE item'[k][x] \in Unsettled
    <3>1. x # o
      BY <1>5, <2>2 DEF Unsettled, Final
    <3>. QED
      BY <1>2, <1>5, <2>1, <2>2, <3>1 DEF Open
  <2>3. ASSUME NEW d \in Execs, Working(d)', K(d)' = k, O(d)' = x
        PROVE  x \in Open(k) /\ x # o
    <3>1. d # e
      BY <1>1, <2>3 DEF Working, Tried
    <3>2. exec'[d] = exec[d]
      BY <1>1, <3>1 DEF Keeps
    <3>3. Working(d) /\ K(d) = k /\ O(d) = x /\ exec[d].phase # "idle"
      BY <2>3, <3>2 DEF Working, K, O, Tried
    <3>. QED
      BY <1>2, <2>1, <3>1, <3>3 DEF Open
  <2>. QED
    BY <2>2, <2>3 DEF Open
<1>8. Shrinks(k)
  BY <1>7 DEF Shrinks
<1>9. Ledger(k)'
  <2> PICK S, T : S = Open(k) /\ T = Open(k)'
    OBVIOUS
  <2>1. ~Free(k) => Sum(new) + Cardinality(T) <= new.total
    <3> SUFFICES ASSUME ~Free(k) PROVE Sum(new) + Cardinality(T) <= new.total
      OBVIOUS
    <3>1. Sum(r) + Cardinality(S) <= r.total
      BY <1>2 DEF Turn, Ledger
    <3>2. /\ Cardinality(S) \in Nat /\ Cardinality(T) \in Nat
          /\ Cardinality(T) + 1 <= Cardinality(S)
      BY <1>2, <1>3, <1>7, Fewer
    <3>3. Sum(r) \in Nat /\ Sum(new) \in Nat /\ r.total \in Nat
      BY <1>2, RunFields
    <3>. QED
      BY <1>1, <3>1, <3>2, <3>3
  <2>2. FailedIn(k)' => new.failed > 0
    <3>1. CASE st = "failed"
      BY <1>1, <3>1
    <3>2. CASE st # "failed"
      <4>1. FailedIn(k)' => FailedIn(k)
        BY <1>2, <1>5, <3>2 DEF FailedIn
      <4>. QED
        BY <1>1, <1>2, <4>1 DEF Turn, Ledger
    <3>. QED
      BY <3>1, <3>2
  <2>3. k > lastRun' => new.status = "none"
    BY <1>1, <1>2 DEF Turn, Ledger
  <2>. QED
    BY <1>1, <1>2, <1>3, <1>4, <1>6, <2>1, <2>2, <2>3 DEF Ledger
<1>10. Stage(e)'
  <2>1. exec'[e].phase = "reading" /\ ~Working(e)' /\ item'[k][o] = CountedAs(exec'[e].caller)
    BY <1>1, <1>5 DEF Working, Tried
  <2>. QED
    BY <1>2, <2>1 DEF Stage, At
<1>11. Counted(k, o)'
  <2>1. st = "failed" => job[k][o].attempts >= MaxAttempts
    <3>1. At(e, "recording") => exec[e].last
      BY <1>2 DEF Turn, Stage, At
    <3>2. exec[e].last => job[k][o].attempts >= MaxAttempts
      BY DEF Turn, Owned
    <3>. QED
      BY <1>1, <3>1, <3>2
  <2>2. st = "skipped" /\ "lateCancel" \notin setting.faults => new.status = "cancelled"
    BY <1>1 DEF Turn, Stage, At
  <2>. QED
    BY <1>1, <1>2, <1>4, <1>5, <2>1, <2>2 DEF Counted
<1>12. Within(e)
  BY <1>1, <1>2, <1>4, <1>5 DEF Within, Keeps
<1>13. Owned(e)' /\ Attended'
  BY <1>1, KeepsJob
<1>. QED
  BY <1>1, <1>2, <1>8, <1>9, <1>10, <1>11, <1>12, <1>13, ExecFrame

LEMMA MarksTurn ==
  ASSUME TypeInv, TypeInv', Turn, NEW e \in Execs, exec[e].phase # "idle", Marks(e),
         UNCHANGED <<setting, admin, lastRun>>
  PROVE  Turn'
<1> PICK k, o, i : k = K(e) /\ o = O(e) /\ i = item[k][o]
  OBVIOUS
<1>1. /\ Keeps(e) /\ UNCHANGED <<run, job>> /\ At(e, "marking") /\ Working(e)
      /\ exec'[e].phase = "object" /\ i # "none"
      /\ item' = [item EXCEPT ![k][o] = "copying"]
  BY DEF Marks, Working, At
<1>2. /\ k \in Runs /\ o \in Objects /\ run[k].status # "none" /\ K(e)' = k /\ O(e)' = o
  BY <1>1, Busy DEF Keeps, K, O
<1>3. /\ item'[k][o] = "copying"
      /\ \A j \in Runs, x \in Objects : j # k \/ x # o => item'[j][x] = item[j][x]
  BY <1>1, <1>2 DEF TypeInv, TypeOK
<1>4. o \in Open(k)
  BY <1>1, AtWork
<1>5. "lateCancel" \notin setting.faults => run[k].status # "cancelled"
  BY <1>1 DEF Turn, Stage, At
<1>6. Shrinks(k)
  <2>1. \A d \in Execs : d # e => exec'[d] = exec[d]
    BY <1>1 DEF Keeps
  <2>2. \A x \in Objects : item'[k][x] \in Unsettled => x \in Open(k)
    BY <1>2, <1>3, <1>4 DEF Open
  <2>. QED
    BY <1>2, <1>4, <2>1, <2>2, KeepsOpen DEF O
<1>7. FailedIn(k)' => FailedIn(k)
  BY <1>2, <1>3 DEF FailedIn
<1>8. Ledger(k)'
  <2>1. run[k].status = "none" => Blank(k)'
    BY <1>2
  <2>. QED
    BY <1>1, <1>2, <1>6, <1>7, <2>1, LedgerFrame DEF Turn
<1>9. Stage(e)'
  <2>1. exec'[e].phase = "object" /\ item'[k][o] \in Unsettled /\ run' = run
    BY <1>1, <1>3 DEF Unsettled
  <2>. QED
    BY <1>2, <1>5, <2>1 DEF Stage, At
<1>10. Counted(k, o)'
  BY <1>3 DEF Counted
<1>11. Within(e)
  BY <1>1, <1>2, <1>3 DEF Within, Keeps
<1>12. Owned(e)' /\ Attended'
  BY <1>1, KeepsJob
<1>. QED
  BY <1>2, <1>6, <1>7, <1>8, <1>9, <1>10, <1>11, <1>12, ExecFrame

(* A run's row with another status *)
LEMMA Restatus ==
  ASSUME TypeInv, NEW k \in Runs, NEW st, run' = [run EXCEPT ![k].status = st]
  PROVE  /\ run'[k].status = st /\ run'[k].total = run[k].total
         /\ run'[k].failed = run[k].failed /\ Sum(run'[k]) = Sum(run[k])
         /\ \A j \in Runs : j # k => run'[j] = run[j]
<1>1. run[k] \in Run
  BY DEF TypeInv, TypeOK
<1>2. run'[k] = [run[k] EXCEPT !.status = st] /\ \A j \in Runs : j # k => run'[j] = run[j]
  BY DEF TypeInv, TypeOK
<1>3. PICK r : r = [run[k] EXCEPT !.status = st]
  OBVIOUS
<1>4. /\ r.status = st /\ r.total = run[k].total /\ r.failed = run[k].failed
      /\ r.migrated = run[k].migrated /\ r.skipped = run[k].skipped
  BY <1>1, <1>3 DEF Run
<1>. QED
  BY <1>2, <1>3, <1>4 DEF Sum

LEMMA RestatusLedger ==
  ASSUME TypeInv, TypeInv', NEW k \in Runs, NEW st, st # "none", Ledger(k),
         run' = [run EXCEPT ![k].status = st], ~Free(k), Shrinks(k),
         item' = item, UNCHANGED <<setting, lastRun>>, run[k].status # "none",
         st \in Closed => Open(k) = {} /\ (st = "completed" => ~FailedIn(k))
  PROVE  Ledger(k)'
<1> PICK S, T, r : S = Open(k) /\ T = Open(k)' /\ r = run[k]
  OBVIOUS
<1>1. /\ run'[k].status = st /\ run'[k].total = r.total /\ run'[k].failed = r.failed
      /\ Sum(run'[k]) = Sum(r) /\ r \in Run
  BY Restatus DEF TypeInv, TypeOK
<1>2. T \subseteq S
  BY DEF Shrinks
<1>3. Sum(r) + Cardinality(T) <= r.total
  <2>1. /\ Cardinality(T) \in Nat /\ Cardinality(S) \in Nat /\ Cardinality(T) <= Cardinality(S)
    BY <1>2, Fewer
  <2>2. Sum(r) + Cardinality(S) <= r.total
    BY DEF Ledger
  <2>. QED
    BY <1>1, <2>1, <2>2, RunFields
<1>4. FailedIn(k)' <=> FailedIn(k)
  BY DEF FailedIn
<1>. QED
  BY <1>1, <1>2, <1>3, <1>4 DEF Ledger

LEMMA StartsTurn ==
  ASSUME TypeInv, TypeInv', Turn, NEW e \in Execs, exec[e].phase # "idle", Starts(e),
         UNCHANGED <<setting, admin, lastRun>>
  PROVE  Turn'
<1> PICK k, o : k = K(e) /\ o = O(e)
  OBVIOUS
<1>1. /\ Keeps(e) /\ UNCHANGED <<item, job>> /\ At(e, "starting") /\ Working(e)
      /\ exec'[e].phase = "marking" /\ run' = [run EXCEPT ![k].status = "running"]
  BY DEF Starts, Working, At
<1>2. /\ k \in Runs /\ o \in Objects /\ run[k] \in Run /\ run[k].status # "none"
      /\ K(e)' = k /\ O(e)' = o
  BY <1>1, Busy DEF Keeps, K, O, TypeInv, TypeOK
<1>3. o \in Open(k) /\ run[k].status \notin Closed
  BY <1>1, AtWork
<1>4. "lateCancel" \notin setting.faults => run[k].status # "cancelled"
  BY <1>1 DEF Turn, Stage, At
<1>5. run'[k].status = "running" /\ \A j \in Runs : j # k => run'[j] = run[j]
  BY <1>1, <1>2, Restatus
<1>6. ~Free(k)
  BY <1>4 DEF Free
<1>7. Shrinks(k)
  <2>1. \A d \in Execs : d # e => exec'[d] = exec[d]
    BY <1>1 DEF Keeps
  <2>2. \A x \in Objects : item'[k][x] \in Unsettled => x \in Open(k)
    BY <1>1 DEF Open
  <2>. QED
    BY <1>2, <1>3, <2>1, <2>2, KeepsOpen DEF O
<1>8. FailedIn(k)' => FailedIn(k)
  BY <1>1 DEF FailedIn
<1>9. Ledger(k)'
  BY <1>1, <1>2, <1>6, <1>7, RestatusLedger DEF Turn, Closed
<1>10. Stage(e)'
  <2>1. item[k][o] \in Unsettled \cup {"none"}
    BY <1>1, <1>6 DEF Turn, Stage
  <2>2. exec'[e].phase = "marking" /\ item'[k][o] \in Unsettled \cup {"none"}
    BY <1>1, <2>1
  <2>. QED
    BY <1>2, <1>5, <2>2 DEF Stage, At
<1>11. Counted(k, o)'
  BY <1>1, <1>2, <1>4, <1>5, CountedFrame DEF Turn
<1>12. Within(e)
  <2>1. "lateCancel" \notin setting.faults => run[k].status \in ActiveStatuses
    BY <1>2, <1>3, <1>4 DEF Run
  <2>. QED
    BY <1>1, <1>2, <1>4, <1>5, <2>1 DEF Within, Keeps
<1>13. Owned(e)' /\ Attended'
  BY <1>1, KeepsJob
<1>. QED
  BY <1>2, <1>7, <1>8, <1>9, <1>10, <1>11, <1>12, <1>13, ExecFrame

LEMMA ClosesTurn ==
  ASSUME TypeInv, TypeInv', Turn, NEW e \in Execs, exec[e].phase # "idle", Closes(e),
         UNCHANGED <<setting, admin, lastRun>>
  PROVE  Turn'
<1> PICK k, o, f : k = K(e) /\ o = O(e) /\ f = exec[e].final
  OBVIOUS
<1>1. /\ Keeps(e) /\ UNCHANGED <<item, job>> /\ At(e, "closing")
      /\ exec'[e].phase = Leave(e) /\ run' = [run EXCEPT ![k].status = f]
  BY DEF Closes
<1>2. /\ k \in Runs /\ o \in Objects /\ run[k] \in Run /\ run[k].status # "none"
      /\ K(e)' = k /\ O(e)' = o /\ f \in Closed
  BY <1>1, Busy, ExecFields DEF Keeps, K, O, TypeInv, TypeOK
<1>3. /\ "lateCancel" \notin setting.faults => run[k].status # "cancelled"
      /\ Open(k) = {} /\ (f = "completed" => ~FailedIn(k))
      /\ item[k][o] \in {"none", CountedAs(exec[e].caller)}
  BY <1>1 DEF Turn, Stage, At, FailedIn
<1>4. run'[k].status = f /\ \A j \in Runs : j # k => run'[j] = run[j]
  BY <1>1, <1>2, Restatus
<1>5. ~Free(k)
  BY <1>3 DEF Free
<1>6. exec'[e].phase = "returning" \/ (exec'[e].phase = "throwing" /\ exec[e].caller = "record")
  BY <1>1 DEF Leave
<1>7. Shrinks(k)
  <2>1. \A d \in Execs : d # e => exec'[d] = exec[d]
    BY <1>1 DEF Keeps
  <2>2. \A x \in Objects : item'[k][x] \in Unsettled => x \in Open(k)
    BY <1>1 DEF Open
  <2>3. ~Working(e)'
    BY <1>6 DEF Working, Tried
  <2>. QED
    BY <1>2, <2>1, <2>2, <2>3, KeepsOpen
<1>8. FailedIn(k)' => FailedIn(k)
  BY <1>1 DEF FailedIn
<1>9. Ledger(k)'
  BY <1>1, <1>2, <1>3, <1>5, <1>7, RestatusLedger DEF Turn, Closed
<1>10. Stage(e)'
  <2>1. exec'[e].phase = "throwing" => item[k][o] \in {"none", "failed"}
    BY <1>3, <1>6 DEF CountedAs
  <2>2. ~Working(e)' /\ exec'[e].phase \in {"returning", "throwing"}
    BY <1>6 DEF Working, Tried
  <2>. QED
    BY <1>1, <1>2, <2>1, <2>2 DEF Stage, At
<1>11. Counted(k, o)'
  BY <1>1, <1>2, <1>3, CountedFrame DEF Turn
<1>12. Within(e)
  <2>1. f \notin ActiveStatuses /\ f # "none" /\ f # "cancelled"
    BY <1>2 DEF ActiveStatuses, Closed
  <2>. QED
    BY <1>1, <1>2, <1>3, <1>4, <2>1 DEF Within, Keeps
<1>13. Owned(e)' /\ Attended'
  BY <1>1, <1>6, KeepsJob
<1>. QED
  BY <1>2, <1>7, <1>8, <1>9, <1>10, <1>11, <1>12, <1>13, ExecFrame

LEMMA ReturnTurn ==
  ASSUME TypeInv, TypeInv', Turn, NEW e \in Execs, exec[e].phase # "idle", Return(e),
         UNCHANGED <<setting, admin, lastRun>>
  PROVE  Turn'
<1> PICK k, o, j : k = K(e) /\ o = O(e) /\ j = job[k][o]
  OBVIOUS
<1>1. /\ k \in Runs /\ o \in Objects /\ run[k].status # "none" /\ ~exec[e].orphan
      /\ j.status = "running" /\ j \in Job
  BY Busy DEF TypeInv, TypeOK
<1>2. /\ exec'[e].phase = "idle" /\ \A d \in Execs : d # e => exec'[d] = exec[d]
  BY <1>1, IdleType DEF Return, TypeInv, TypeOK
<1>3. UNCHANGED <<item, run>>
  BY DEF Return
<1>4. PICK new :
        /\ job' = [job EXCEPT ![k][o] = new]
        /\ \/ At(e, "returning") /\ new = [j EXCEPT !.status = "succeeded"]
           \/ At(e, "throwing") /\ new = GivenBack(j)
  <2>1. CASE At(e, "returning") /\ job' = [job EXCEPT ![k][o].status = "succeeded"]
    <3>1. job' = [job EXCEPT ![k][o] = [j EXCEPT !.status = "succeeded"]]
      BY <1>1, <2>1 DEF TypeInv, TypeOK
    <3>. QED
      BY <2>1, <3>1
  <2>2. CASE At(e, "throwing") /\ job' = [job EXCEPT ![k][o] = GivenBack(@)]
    <3>1. job' = [job EXCEPT ![k][o] = GivenBack(j)]
      BY <1>1, <2>2 DEF TypeInv, TypeOK
    <3>. QED
      BY <2>2, <3>1
  <2>. QED
    BY <1>1, <2>1, <2>2 DEF Return
<1>5. /\ new.attempts = j.attempts /\ new.status # "running" /\ new.status # "none"
      /\ At(e, "returning") => new.status = "succeeded"
      /\ j.attempts >= MaxAttempts => new.status # "pending"
  BY <1>1, <1>4, MigrationAssumption DEF GivenBack, Job, At
<1>6. /\ job'[k][o] = new
      /\ \A l \in Runs, x \in Objects : l # k \/ x # o => job'[l][x] = job[l][x]
  BY <1>1, <1>4 DEF TypeInv, TypeOK
<1>7. Shrinks(k)
  <2>1. \A x \in Objects : item'[k][x] \in Unsettled => x \in Open(k)
    BY <1>3 DEF Open
  <2>2. ~Working(e)'
    BY <1>2 DEF Working, Tried
  <2>. QED
    BY <1>1, <1>2, <2>1, <2>2, KeepsOpen
<1>8. FailedIn(k)' => FailedIn(k)
  BY <1>3 DEF FailedIn
<1>9. Ledger(k)'
  <2>1. run[k].status = "none" => Blank(k)'
    BY <1>1
  <2>. QED
    BY <1>1, <1>3, <1>7, <1>8, <2>1, LedgerFrame DEF Turn
<1>10. Owned(e)' /\ Stage(e)'
  BY <1>2 DEF Owned, Stage
<1>11. Counted(k, o)'
  <2>1. Counted(k, o)
    BY <1>1 DEF Turn
  <2>2. At(e, "throwing") => item[k][o] # "skipped"
    BY DEF Turn, Stage, At, Unsettled
  <2>. QED
    BY <1>3, <1>4, <1>5, <1>6, <2>1, <2>2 DEF Counted
<1>12. Within(e)
  BY <1>1, <1>2, <1>3, <1>6 DEF Within
<1>13. Attended'
  <2> SUFFICES ASSUME "crash" \notin setting.faults, NEW l \in Runs, NEW x \in Objects,
                      job'[l][x].status = "running"
               PROVE  \E d \in Execs : Holds(d, l, x)'
    BY DEF Attended
  <2>1. l # k \/ x # o
    BY <1>5, <1>6
  <2>2. PICK d \in Execs : Holds(d, l, x)
    BY <1>6, <2>1 DEF Turn, Attended
  <2>3. d # e
    BY <2>1, <2>2 DEF Holds, K, O
  <2>. QED
    BY <1>2, <2>2, <2>3 DEF Holds
<1>. QED
  BY <1>1, <1>7, <1>8, <1>9, <1>10, <1>11, <1>12, <1>13, ExecFrame

LEMMA ExecTurn ==
  ASSUME TypeInv, TypeInv', Turn, NEW e \in Execs, ExecStep(e)
  PROVE  Turn'
<1>1. UNCHANGED <<setting, admin, lastRun>>
  BY DEF ExecStep
<1>. QED
  BY <1>1, ExecKinds, LooksTurn, AddsTurn, TalliesTurn, MarksTurn, StartsTurn, ClosesTurn,
     ReturnTurn

-----------------------------------------------------------------------------
(* The other steps leave the executions alone.                               *)

LEMMA StillShrinks ==
  ASSUME TypeInv, exec' = exec, NEW k \in Runs,
         \A o \in Objects : item'[k][o] \in {item[k][o], "none"}
  PROVE  Shrinks(k) /\ (FailedIn(k)' => FailedIn(k))
<1>1. \A o \in Objects : item'[k][o] \in Unsettled => o \in Open(k)
  BY DEF Open, Unsettled
<1>2. ASSUME NEW d \in Execs, Working(d)', K(d)' = k
      PROVE  exec'[d].object \in Open(k)
  <2>1. Working(d) /\ K(d) = k /\ O(d) = exec'[d].object /\ exec[d] \in Exec
    BY <1>2 DEF Working, K, O, TypeInv, TypeOK
  <2>. QED
    BY <2>1, ExecFields DEF Open, O
<1>3. FailedIn(k)' => FailedIn(k)
  BY DEF FailedIn
<1>. QED
  BY <1>1, <1>2, <1>3, ShrinksStep

LEMMA StillExecs ==
  ASSUME TypeInv, Turn, setting' = setting, exec' = exec,
         \A d \in Execs : exec[d].phase # "idle" =>
           /\ job'[K(d)][O(d)] = job[K(d)][O(d)]
           /\ item'[K(d)][O(d)] \in {item[K(d)][O(d)], "none"}
           /\ "lateCancel" \notin setting.faults =>
                (run'[K(d)].status = "cancelled" <=> run[K(d)].status = "cancelled"),
         \A d \in Execs, k \in Runs : exec[d].phase # "idle" /\ k = K(d) =>
           Shrinks(k) /\ (FailedIn(k)' => FailedIn(k))
  PROVE  \A d \in Execs : Owned(d)' /\ Stage(d)'
<1> TAKE d \in Execs
<1>1. Owned(d) /\ Stage(d) /\ exec'[d] = exec[d]
  BY DEF Turn
<1>2. \A c \in Execs : exec'[c].phase # "idle" =>
        exec'[c].run = exec[c].run /\ exec'[c].object = exec[c].object /\ exec[c].phase # "idle"
  OBVIOUS
<1>3. Owned(d)'
  BY <1>1, <1>2, OwnedFrame
<1>4. Stage(d)'
  BY <1>1, StageFrame DEF At
<1>. QED
  BY <1>3, <1>4

(* Items go with their object's row, at most.                                *)
LEMMA UserTurn ==
  ASSUME TypeInv, TypeInv', Turn, UNCHANGED <<setting, exec, run, job, admin, lastRun>>,
         \A k \in Runs, o \in Objects : item'[k][o] \in {item[k][o], "none"}
  PROVE  Turn'
<1>1. \A k \in Runs : Shrinks(k) /\ (FailedIn(k)' => FailedIn(k))
  BY StillShrinks
<1>2. \A d \in Execs : Owned(d)' /\ Stage(d)'
  <2>1. \A d \in Execs : exec[d].phase # "idle" => K(d) \in Runs /\ O(d) \in Objects
    BY Busy
  <2>. QED
    BY <1>1, <2>1, StillExecs
<1>3. ASSUME NEW k \in Runs PROVE Ledger(k)'
  <2>1. run[k].status = "none" => Blank(k)'
    BY DEF Turn, Ledger, Blank
  <2>. QED
    BY <1>1, <2>1, LedgerFrame DEF Turn
<1>4. \A k \in Runs, o \in Objects : Counted(k, o)'
  BY CountedFrame DEF Turn
<1>5. Attended' /\ OneActive'
  BY DEF Turn, Attended, Holds, OneActive, Active
<1>6. Desk'
  <2>1. admin.op # "none" => admin.run \in Runs /\ admin.todo \subseteq Objects
    BY DEF TypeInv, TypeOK, Bound, Request
  <2>2. admin.op \in {"creating", "itemizing"} => (Blank(admin.run) => Blank(admin.run)')
    BY <2>1 DEF Blank
  <2>3. NoneActive => NoneActive'
    BY DEF NoneActive, Active
  <2>. QED
    BY <2>1, <2>2, <2>3, DeskFrame DEF Turn
<1>. QED
  BY <1>2, <1>3, <1>4, <1>5, <1>6 DEF Turn

LEMMA ReapTurn ==
  ASSUME TypeInv, TypeInv', Turn, CountedOnce, NEW k \in Runs, NEW o \in Objects, Reap(k, o)
  PROVE  Turn'
<1> PICK j : j = job[k][o]
  OBVIOUS
<1>1. /\ UNCHANGED <<setting, exec, run, item, admin, lastRun>>
      /\ j.status = "running" /\ j \in Job /\ job' = [job EXCEPT ![k][o] = GivenBack(j)]
      /\ \A d \in Execs : ~Holds(d, k, o)
  BY DEF Reap, TypeInv, TypeOK
<1>2. /\ job'[k][o] = GivenBack(j)
      /\ \A l \in Runs, x \in Objects : l # k \/ x # o => job'[l][x] = job[l][x]
  BY <1>1 DEF TypeInv, TypeOK
<1>3. "crash" \in setting.faults /\ "lateCancel" \notin setting.faults
  BY <1>1 DEF Turn, Attended, CountedOnce, Without
<1>4. \A d \in Execs : exec[d].phase # "idle" =>
        /\ K(d) \in Runs /\ O(d) \in Objects
        /\ job'[K(d)][O(d)] = job[K(d)][O(d)]
  BY <1>1, <1>2, Busy DEF Holds, K, O
<1>5. \A l \in Runs : Shrinks(l) /\ (FailedIn(l)' => FailedIn(l))
  BY <1>1, StillShrinks
<1>6. \A d \in Execs : Owned(d)' /\ Stage(d)'
  BY <1>1, <1>4, <1>5, StillExecs
<1>7. ASSUME NEW l \in Runs, Blank(l) PROVE Blank(l)'
  BY <1>1, <1>2, <1>7 DEF Blank
<1>8. \A l \in Runs : Ledger(l)'
  BY <1>1, <1>5, <1>7, LedgerFrame DEF Turn, Ledger
<1>9. ASSUME NEW l \in Runs, NEW x \in Objects PROVE Counted(l, x)'
  <2>1. CASE l = k /\ x = o
    <3>1. /\ GivenBack(j).attempts = j.attempts /\ GivenBack(j).status # "none"
          /\ j.attempts >= MaxAttempts => GivenBack(j).status # "pending"
      BY <1>1, MigrationAssumption DEF GivenBack, Job
    <3>2. Counted(k, o)
      BY DEF Turn
    <3>. QED
      BY <1>1, <1>2, <1>3, <2>1, <3>1, <3>2 DEF Counted
  <2>2. CASE ~(l = k /\ x = o)
    BY <1>1, <1>2, <2>2, CountedFrame DEF Turn
  <2>. QED
    BY <2>1, <2>2
<1>10. Attended' /\ OneActive'
  BY <1>1, <1>3 DEF Turn, Attended, OneActive, Active
<1>11. Desk'
  <2>1. admin.op # "none" => admin.run \in Runs /\ admin.todo \subseteq Objects
    BY DEF TypeInv, TypeOK, Bound, Request
  <2>2. admin.op = "enqueuing" => \A x \in admin.todo :
          job'[admin.run][x] = job[admin.run][x]
    BY <1>1, <1>2, <2>1 DEF Turn, Desk
  <2>3. NoneActive => NoneActive'
    BY <1>1 DEF NoneActive, Active
  <2>. QED
    BY <1>1, <1>7, <2>1, <2>2, <2>3, DeskFrame DEF Turn
<1>. QED
  BY <1>6, <1>8, <1>9, <1>10, <1>11 DEF Turn

LEMMA ClaimTurn ==
  ASSUME TypeInv, TypeInv', Turn, NEW e \in Execs, NEW k \in Runs, NEW o \in Objects,
         Claim(e, k, o)
  PROVE  Turn'
<1> PICK j : j = job[k][o]
  OBVIOUS
<1>1. /\ UNCHANGED <<setting, run, item, admin, lastRun>>
      /\ exec[e].phase = "idle" /\ j.status = "pending" /\ j \in Job
  BY DEF Claim, TypeInv, TypeOK
<1>2. /\ job'[k][o] = [status |-> "running", attempts |-> j.attempts + 1]
      /\ \A l \in Runs, x \in Objects : l # k \/ x # o => job'[l][x] = job[l][x]
  BY DEF Claim, TypeInv, TypeOK
<1>3. /\ exec'[e].phase = "item" /\ K(e)' = k /\ O(e)' = o /\ ~exec'[e].orphan
      /\ exec'[e].run = k /\ exec'[e].object = o
      /\ exec'[e].last => j.attempts + 1 >= MaxAttempts
      /\ \A d \in Execs : d # e => exec'[d] = exec[d]
  BY <1>1 DEF Claim, TypeInv, TypeOK, Idle, K, O
<1>4. ASSUME NEW d \in Execs, exec[d].phase # "idle"
      PROVE  /\ K(d) \in Runs /\ O(d) \in Objects /\ exec'[d] = exec[d]
             /\ K(d) # k \/ O(d) # o
             /\ job'[K(d)][O(d)] = job[K(d)][O(d)]
  BY <1>1, <1>2, <1>3, <1>4, Busy
<1>5. ASSUME NEW l \in Runs PROVE Shrinks(l) /\ (FailedIn(l)' => FailedIn(l))
  <2>1. \A x \in Objects : item'[l][x] \in Unsettled => x \in Open(l)
    BY <1>1 DEF Open
  <2>2. ASSUME NEW d \in Execs, Working(d)', K(d)' = l
        PROVE  exec'[d].object \in Open(l)
    <3>1. d # e
      BY <1>3, <2>2 DEF Working, Tried
    <3>2. /\ Working(d) /\ K(d) = l /\ O(d) = exec'[d].object /\ exec[d] \in Exec
      BY <1>3, <2>2, <3>1 DEF Working, K, O, TypeInv, TypeOK
    <3>. QED
      BY <3>2, ExecFields DEF Open, O
  <2>3. FailedIn(l)' => FailedIn(l)
    BY <1>1 DEF FailedIn
  <2>. QED
    BY <2>1, <2>2, <2>3, ShrinksStep
<1>6. ASSUME NEW d \in Execs PROVE Owned(d)'
  <2>1. CASE d = e
    <3>1. \A c \in Execs : exec'[c].phase # "idle" /\ exec'[c].run = k /\ exec'[c].object = o
            => c = e
      BY <1>3, <1>4 DEF K, O
    <3>2. \A c \in Execs : exec'[c].phase # "idle" /\ K(c)' = k /\ O(c)' = o => c = e
      BY <3>1 DEF K, O
    <3>. QED
      BY <1>2, <1>3, <2>1, <3>2 DEF Owned
  <2>2. CASE d # e
    <3>1. Owned(d) /\ exec'[d] = exec[d]
      BY <1>3, <2>2 DEF Turn
    <3>2. ASSUME exec[d].phase # "idle", NEW c \in Execs, exec'[c].phase # "idle"
          PROVE  \/ /\ exec'[c].run = exec[c].run /\ exec'[c].object = exec[c].object
                    /\ exec[c].phase # "idle"
                 \/ exec'[c].run # K(d) \/ exec'[c].object # O(d)
      BY <1>3, <1>4, <3>2
    <3>. QED
      BY <1>4, <3>1, <3>2, OwnedFrame
  <2>. QED
    BY <2>1, <2>2
<1>7. ASSUME NEW d \in Execs PROVE Stage(d)'
  <2>1. CASE d = e
    <3>1. Counted(k, o)
      BY DEF Turn
    <3>2. item[k][o] # "failed" /\ (item[k][o] = "skipped" => Free(k)')
      BY <1>1, <3>1 DEF Counted, Free
    <3>3. exec'[e].phase = "item" /\ ~Working(e)'
      BY <1>3 DEF Working, Tried
    <3>. QED
      BY <1>1, <1>3, <2>1, <3>2, <3>3 DEF Stage, At
  <2>2. CASE d # e
    BY <1>1, <1>3, <1>4, <1>5, <2>2, StageFrame DEF Turn
  <2>. QED
    BY <2>1, <2>2
<1>8. ASSUME NEW l \in Runs, Blank(l) PROVE Blank(l)'
  BY <1>1, <1>2, <1>8 DEF Blank
<1>9. \A l \in Runs : Ledger(l)'
  BY <1>1, <1>5, <1>8, LedgerFrame DEF Turn, Ledger
<1>10. ASSUME NEW l \in Runs, NEW x \in Objects PROVE Counted(l, x)'
  <2>1. CASE l = k /\ x = o
    <3>1. Counted(k, o)
      BY DEF Turn
    <3>. QED
      BY <1>1, <1>2, <2>1, <3>1 DEF Counted
  <2>2. CASE ~(l = k /\ x = o)
    BY <1>1, <1>2, <2>2, CountedFrame DEF Turn
  <2>. QED
    BY <2>1, <2>2
<1>11. Attended'
  <2> SUFFICES ASSUME "crash" \notin setting.faults, NEW l \in Runs, NEW x \in Objects,
                      job'[l][x].status = "running"
               PROVE  \E d \in Execs : Holds(d, l, x)'
    BY <1>1 DEF Attended
  <2>1. CASE l = k /\ x = o
    BY <1>3, <2>1 DEF Holds
  <2>2. CASE ~(l = k /\ x = o)
    <3>1. PICK d \in Execs : Holds(d, l, x)
      BY <1>2, <2>2 DEF Turn, Attended
    <3>2. d # e
      BY <1>1, <3>1 DEF Holds
    <3>. QED
      BY <1>3, <3>1, <3>2 DEF Holds
  <2>. QED
    BY <2>1, <2>2
<1>12. Desk'
  <2>1. admin.op # "none" => admin.run \in Runs /\ admin.todo \subseteq Objects
    BY DEF TypeInv, TypeOK, Bound, Request
  <2>2. admin.op = "enqueuing" => \A x \in admin.todo :
          job'[admin.run][x] = job[admin.run][x]
    BY <1>1, <1>2, <2>1 DEF Turn, Desk
  <2>3. NoneActive => NoneActive'
    BY <1>1 DEF NoneActive, Active
  <2>. QED
    BY <1>1, <1>8, <2>1, <2>2, <2>3, DeskFrame DEF Turn
<1>13. OneActive'
  BY <1>1 DEF Turn, OneActive, Active
<1>. QED
  BY <1>6, <1>7, <1>9, <1>10, <1>11, <1>12, <1>13 DEF Turn

LEMMA CrashTurn ==
  ASSUME TypeInv, TypeInv', Turn, Crash
  PROVE  Turn'
<1>1. /\ UNCHANGED <<setting, run, item, job, lastRun>> /\ "crash" \in setting.faults
      /\ \A e \in Execs : exec'[e].phase = "idle"
      /\ admin'.op = "none"
  BY IdleType DEF Crash, Mishap, NoRequest, Idle
<1>2. \A e \in Execs : Owned(e)' /\ Stage(e)' /\ ~Working(e)'
  BY <1>1 DEF Owned, Stage, Working, Tried
<1>3. ASSUME NEW k \in Runs PROVE Ledger(k)'
  <2>1. Shrinks(k)
    BY <1>1, <1>2, ShrinksStep DEF Open
  <2>2. (FailedIn(k)' => FailedIn(k)) /\ (run[k].status = "none" => Blank(k)')
    BY <1>1 DEF FailedIn, Turn, Ledger, Blank
  <2>. QED
    BY <1>1, <2>1, <2>2, LedgerFrame DEF Turn
<1>4. \A k \in Runs, o \in Objects : Counted(k, o)'
  BY <1>1, CountedFrame DEF Turn
<1>5. Attended' /\ Desk' /\ OneActive'
  BY <1>1 DEF Turn, Attended, Desk, OneActive, Active
<1>. QED
  BY <1>2, <1>3, <1>4, <1>5 DEF Turn

-----------------------------------------------------------------------------
(* The steps of a request.                                                   *)

LEMMA RequestFields ==
  ASSUME TypeInv, admin.op # "none"
  PROVE  /\ admin.run \in Runs /\ admin.todo \subseteq Objects /\ admin \in Request
         /\ run[admin.run] \in Run
BY DEF TypeInv, TypeOK, Bound, Request

(* A run without items has none open, and no execution.                      *)
LEMMA BlankRun ==
  ASSUME TypeInv, Turn, NEW k \in Runs, Blank(k)
  PROVE  /\ Open(k) = {} /\ ~FailedIn(k)
         /\ \A d \in Execs : exec[d].phase # "idle" => K(d) # k
<1>1. \A d \in Execs : exec[d].phase # "idle" => K(d) # k
  BY Busy DEF Blank
<1>2. \A d \in Execs : Working(d) => exec[d].phase # "idle"
  BY DEF Working, Tried
<1>. QED
  BY <1>1, <1>2 DEF Blank, Open, FailedIn, Unsettled

LEMMA TriggerReadsTurn ==
  ASSUME TypeInv, TypeInv', Turn, NEW to \in Providers, TriggerReads(to),
         UNCHANGED <<setting, exec>>
  PROVE  Turn'
<1> PICK k : k = lastRun + 1
  OBVIOUS
<1>1. /\ UNCHANGED <<run, item, job>> /\ NoneActive /\ lastRun' = k
      /\ admin'.op = "creating" /\ admin'.run = k
  BY DEF TriggerReads
<1>2. lastRun \in Nat /\ k > lastRun /\ k \in Runs
  <2>1. admin'.run \in Runs
    BY <1>1 DEF TypeInv, Bound
  <2>. QED
    BY <1>1, <2>1, MigrationAssumption DEF TypeInv, TypeOK
<1>3. \A d \in Execs : Owned(d)' /\ Stage(d)'
  BY <1>1, StillShrinks, StillExecs, Busy
<1>4. ASSUME NEW l \in Runs PROVE Ledger(l)'
  <2>1. l > lastRun' => l > lastRun
    BY <1>1, <1>2, MigrationAssumption DEF Runs
  <2>2. run[l].status = "none" => Blank(l)'
    BY <1>1 DEF Turn, Ledger, Blank
  <2>. QED
    BY <1>1, <2>1, <2>2, StillShrinks, LedgerFrame DEF Turn
<1>5. \A l \in Runs, x \in Objects : Counted(l, x)'
  BY <1>1, CountedFrame DEF Turn
<1>6. Attended' /\ OneActive'
  BY <1>1 DEF Turn, Attended, Holds, OneActive, Active
<1>7. Desk'
  <2>1. run[k].status = "none"
    BY <1>2 DEF Turn, Ledger
  <2>2. NoneActive' /\ k <= lastRun'
    BY <1>1, <1>2, MigrationAssumption DEF NoneActive, Active, Runs
  <2>. QED
    BY <1>1, <2>1, <2>2 DEF Desk
<1>. QED
  BY <1>3, <1>4, <1>5, <1>6, <1>7 DEF Turn

LEMMA CancelReadsTurn ==
  ASSUME TypeInv, TypeInv', Turn, NEW k \in Runs, CancelReads(k), UNCHANGED <<setting, exec>>
  PROVE  Turn'
<1>1. /\ UNCHANGED <<run, item, job, lastRun>> /\ Active(k)
      /\ admin'.op = "cancelling" /\ admin'.run = k
  BY DEF CancelReads, NoRequest
<1>2. \A d \in Execs : Owned(d)' /\ Stage(d)'
  BY <1>1, StillShrinks, StillExecs, Busy
<1>3. ASSUME NEW l \in Runs PROVE Ledger(l)'
  <2>1. run[l].status = "none" => Blank(l)'
    BY <1>1 DEF Turn, Ledger, Blank
  <2>. QED
    BY <1>1, <2>1, StillShrinks, LedgerFrame DEF Turn
<1>4. \A l \in Runs, x \in Objects : Counted(l, x)'
  BY <1>1, CountedFrame DEF Turn
<1>5. Attended' /\ OneActive'
  BY <1>1 DEF Turn, Attended, Holds, OneActive, Active
<1>6. Desk'
  <2>1. run'[k].status # "none"
    BY <1>1 DEF Active, ActiveStatuses
  <2>. QED
    BY <1>1, <2>1 DEF Desk
<1>. QED
  BY <1>2, <1>3, <1>4, <1>5, <1>6 DEF Turn

LEMMA TriggerCreatesTurn ==
  ASSUME TypeInv, TypeInv', Turn, TriggerCreates, UNCHANGED <<setting, exec>>
  PROVE  Turn'
<1> PICK k, todo, r :
      /\ k = admin.run /\ todo = admin.todo
      /\ r = [NoRun EXCEPT !.status = "pending", !.to = admin.to, !.total = Cardinality(admin.todo)]
  OBVIOUS
<1>1. /\ k \in Runs /\ todo \subseteq Objects /\ admin \in Request /\ admin.op = "creating"
      /\ UNCHANGED <<item, job, lastRun>>
  BY RequestFields DEF TriggerCreates
<1>2. /\ admin'.op = "itemizing" /\ admin'.run = k /\ admin'.todo = todo
  BY <1>1 DEF TriggerCreates, Request
<1>3. r.status = "pending" /\ r.total = Cardinality(todo) /\ Sum(r) = 0
  BY DEF NoRun, Sum
<1>4. run'[k] = r /\ \A l \in Runs : l # k => run'[l] = run[l]
  BY <1>1 DEF TriggerCreates, TypeInv, TypeOK
<1>5. /\ run[k].status = "none" /\ Blank(k) /\ k <= lastRun
      /\ "lateCancel" \notin setting.faults => NoneActive
  BY <1>1 DEF Turn, Desk, Ledger
<1>6. \A l \in Runs : Shrinks(l) /\ (FailedIn(l)' => FailedIn(l))
  BY <1>1, StillShrinks
<1>7. \A d \in Execs : Owned(d)' /\ Stage(d)'
  <2>1. \A d \in Execs : exec[d].phase # "idle" => K(d) \in Runs /\ K(d) # k /\ O(d) \in Objects
    BY <1>1, <1>5, Busy, BlankRun
  <2>. QED
    BY <1>1, <1>4, <1>6, <2>1, StillExecs
<1>8. ASSUME NEW l \in Runs PROVE Ledger(l)'
  <2>1. CASE l # k
    <3>1. run[l].status = "none" => Blank(l)'
      BY <1>1 DEF Turn, Ledger, Blank
    <3>. QED
      BY <1>1, <1>4, <1>6, <2>1, <3>1, LedgerFrame DEF Turn
  <2>2. CASE l = k
    <3> PICK T, c : T = Open(k)' /\ c = Cardinality(todo)
      OBVIOUS
    <3>1. ~Free(k) /\ ~FailedIn(k) /\ Open(k) = {}
      BY <1>1, <1>5, BlankRun DEF Free
    <3>2. T = {} /\ ~FailedIn(k)'
      BY <1>1, <1>6, <3>1 DEF Shrinks
    <3>3. c \in Nat /\ Cardinality(T) = 0
      BY <1>1, <3>2, MigrationAssumption, FS_Subset, FS_CardinalityType, FS_EmptySet
    <3>4. Sum(r) + Cardinality(T) <= r.total
      BY <1>3, <3>3
    <3>5. ~(k > lastRun')
      BY <1>1, <1>5, MigrationAssumption DEF TypeInv, TypeOK, Runs
    <3>. QED
      BY <1>3, <1>4, <2>2, <3>2, <3>4, <3>5 DEF Ledger, Closed
  <2>. QED
    BY <2>1, <2>2
<1>9. \A l \in Runs, x \in Objects : Counted(l, x)'
  <2>1. \A l \in Runs : run[l].status = "cancelled" => run'[l].status = "cancelled"
    BY <1>4, <1>5
  <2>. QED
    BY <1>1, <2>1, CountedFrame DEF Turn
<1>10. Attended'
  BY <1>1 DEF Turn, Attended, Holds
<1>11. OneActive'
  BY <1>4, <1>5 DEF OneActive, Active, NoneActive
<1>12. Desk'
  <2>1. Blank(k)'
    BY <1>1, <1>5 DEF Blank
  <2>. QED
    BY <1>2, <1>3, <1>4, <2>1 DEF Desk
<1>. QED
  BY <1>7, <1>8, <1>9, <1>10, <1>11, <1>12 DEF Turn

LEMMA TriggerItemizesTurn ==
  ASSUME TypeInv, TypeInv', Turn, TriggerItemizes, UNCHANGED <<setting, exec>>
  PROVE  Turn'
<1> PICK k, todo, r : k = admin.run /\ todo = admin.todo /\ r = run[k]
  OBVIOUS
<1>1. /\ k \in Runs /\ todo \subseteq Objects /\ admin \in Request /\ admin.op = "itemizing"
      /\ UNCHANGED <<job, lastRun>>
  BY RequestFields DEF TriggerItemizes
<1>2. Blank(k) /\ Sum(r) = 0 /\ r.total = Cardinality(todo) /\ r.status = "pending"
  BY <1>1 DEF Turn, Desk
<1>3. /\ Open(k) = {} /\ ~FailedIn(k) /\ ~Free(k)
      /\ \A d \in Execs : exec[d].phase # "idle" =>
           K(d) \in Runs /\ O(d) \in Objects /\ K(d) # k
  BY <1>1, <1>2, Busy, BlankRun DEF Free
<1>4. Attended'
  BY <1>1 DEF Turn, Attended, Holds
<1> DEFINE Ends == item' = item /\ admin'.op = "none"
           Begins == /\ run' = run /\ admin' = [admin EXCEPT !.op = "enqueuing"]
                     /\ item' = [item EXCEPT ![k] =
                          [x \in Objects |-> IF x \in todo THEN "pending" ELSE "none"]]
<1>5. CASE Ends /\ (run' = run \/ run' = [run EXCEPT ![k].status = "completed"])
  <2>1. item' = item /\ admin'.op = "none"
    BY <1>5
  <2>2. \A l \in Runs : l # k => run'[l] = run[l]
    BY <1>1, <1>5, Restatus
  <2>3. \/ run' = run
        \/ run' = [run EXCEPT ![k].status = "completed"] /\ run'[k].status = "completed"
    BY <1>1, <1>5, Restatus
  <2>4. \A l \in Runs : Shrinks(l) /\ (FailedIn(l)' => FailedIn(l))
    BY <2>1, StillShrinks
  <2>5. \A d \in Execs : Owned(d)' /\ Stage(d)'
    BY <1>1, <1>3, <2>1, <2>2, <2>4, StillExecs
  <2>6. ASSUME NEW l \in Runs PROVE Ledger(l)'
    <3>1. run[l].status = "none" => Blank(l)'
      BY <1>1, <2>1 DEF Turn, Ledger, Blank
    <3>2. CASE run'[l] = run[l]
      BY <1>1, <2>1, <2>4, <3>1, <3>2, LedgerFrame DEF Turn
    <3>3. CASE l = k /\ run' = [run EXCEPT ![k].status = "completed"]
      BY <1>1, <1>2, <1>3, <2>1, <2>4, <3>3, RestatusLedger DEF Turn
    <3>. QED
      BY <2>2, <2>3, <3>2, <3>3
  <2>7. \A l \in Runs, x \in Objects : Counted(l, x)'
    <3>1. \A l \in Runs : run[l].status = "cancelled" => run'[l].status = "cancelled"
      BY <1>2, <2>2, <2>3
    <3>. QED
      BY <1>1, <2>1, <3>1, CountedFrame DEF Turn
  <2>8. OneActive'
    <3>1. \A l \in Runs : run'[l].status \in ActiveStatuses => run[l].status \in ActiveStatuses
      BY <2>2, <2>3 DEF ActiveStatuses
    <3>. QED
      BY <3>1 DEF Turn, OneActive, Active
  <2>9. Desk'
    BY <2>1 DEF Desk
  <2>. QED
    BY <1>4, <2>5, <2>6, <2>7, <2>8, <2>9 DEF Turn
<1>6. CASE Begins
  <2>1. /\ run' = run /\ admin'.op = "enqueuing" /\ admin'.run = k /\ admin'.todo = todo
        /\ \A x \in Objects : item'[k][x] = IF x \in todo THEN "pending" ELSE "none"
        /\ \A l \in Runs, x \in Objects : l # k => item'[l][x] = item[l][x]
    BY <1>1, <1>6 DEF TypeInv, TypeOK, Request
  <2>2. ASSUME NEW l \in Runs, l # k PROVE Shrinks(l) /\ (FailedIn(l)' => FailedIn(l))
    BY <2>1, <2>2, StillShrinks
  <2>3. \A d \in Execs : Owned(d)' /\ Stage(d)'
    BY <1>1, <1>3, <2>1, <2>2, StillExecs
  <2>4. ASSUME NEW l \in Runs, l # k PROVE Ledger(l)'
    <3>1. run[l].status = "none" => Blank(l)'
      BY <1>1, <2>1, <2>4 DEF Turn, Ledger, Blank
    <3>. QED
      BY <1>1, <2>1, <2>2, <2>4, <3>1, LedgerFrame DEF Turn
  <2>5. Ledger(k)'
    <3> PICK T : T = Open(k)'
      OBVIOUS
    <3>1. \A d \in Execs : Working(d)' => exec[d].phase # "idle" /\ exec'[d].run = K(d)
      BY DEF Working, Tried, K
    <3>2. \A d \in Execs : Working(d)' => K(d)' # k
      BY <1>3, <3>1 DEF K
    <3>3. T \subseteq todo
      BY <1>1, <2>1, <3>2 DEF Open, Unsettled
    <3>4. /\ Cardinality(T) \in Nat /\ Cardinality(todo) \in Nat
          /\ Cardinality(T) <= Cardinality(todo)
      BY <1>1, <3>3, MigrationAssumption, FS_Subset, FS_CardinalityType
    <3>5. Sum(r) + Cardinality(T) <= r.total
      BY <1>2, <3>4
    <3>6. ~FailedIn(k)'
      BY <2>1 DEF FailedIn
    <3>7. k > lastRun' => r.status = "none"
      BY <1>1 DEF Turn, Ledger
    <3>. QED
      BY <1>2, <2>1, <3>5, <3>6, <3>7 DEF Ledger, Closed
  <2>6. ASSUME NEW l \in Runs, NEW x \in Objects PROVE Counted(l, x)'
    <3>1. item'[l][x] \in {item[l][x], "none", "pending"}
      BY <2>1
    <3>. QED
      BY <1>1, <2>1, <3>1, CountedFrame DEF Turn
  <2>7. OneActive'
    BY <2>1 DEF Turn, OneActive, Active
  <2>8. Desk'
    <3>1. \A x \in todo : job'[k][x].status = "none" /\ item'[k][x] \in {"pending", "none"}
      BY <1>1, <1>2, <2>1 DEF Blank
    <3>. QED
      BY <1>2, <2>1, <3>1 DEF Desk
  <2>. QED
    BY <1>4, <2>3, <2>4, <2>5, <2>6, <2>7, <2>8 DEF Turn
<1>. QED
  BY <1>1, <1>5, <1>6 DEF TriggerItemizes, NoRequest

LEMMA TriggerEnqueuesTurn ==
  ASSUME TypeInv, TypeInv', Turn, NEW o \in Objects, TriggerEnqueues(o),
         UNCHANGED <<setting, exec>>
  PROVE  Turn'
<1> PICK k, todo : k = admin.run /\ todo = admin.todo
  OBVIOUS
<1>1. /\ k \in Runs /\ admin \in Request /\ admin.op = "enqueuing" /\ o \in todo
      /\ UNCHANGED <<run, item, lastRun>>
  BY RequestFields DEF TriggerEnqueues
<1>2. /\ job'[k][o] = [status |-> "pending", attempts |-> 0]
      /\ \A l \in Runs, x \in Objects : l # k \/ x # o => job'[l][x] = job[l][x]
  BY <1>1 DEF TriggerEnqueues, TypeInv, TypeOK
<1>3. /\ run[k].status # "none"
      /\ \A x \in todo : job[k][x].status = "none" /\ item[k][x] \in {"pending", "none"}
  BY <1>1 DEF Turn, Desk
<1>4. \A l \in Runs : Shrinks(l) /\ (FailedIn(l)' => FailedIn(l))
  BY <1>1, StillShrinks
<1>5. \A d \in Execs : Owned(d)' /\ Stage(d)'
  <2>1. ASSUME NEW d \in Execs, exec[d].phase # "idle"
        PROVE  K(d) \in Runs /\ O(d) \in Objects /\ job'[K(d)][O(d)] = job[K(d)][O(d)]
    BY <1>1, <1>2, <2>1, Busy
  <2>. QED
    BY <1>1, <1>4, <2>1, StillExecs
<1>6. ASSUME NEW l \in Runs PROVE Ledger(l)'
  <2>1. run[l].status = "none" => Blank(l)'
    BY <1>1, <1>2, <1>3 DEF Turn, Ledger, Blank
  <2>. QED
    BY <1>1, <1>4, <2>1, LedgerFrame DEF Turn
<1>7. ASSUME NEW l \in Runs, NEW x \in Objects PROVE Counted(l, x)'
  <2>1. CASE l = k /\ x = o
    BY <1>1, <1>3, <2>1 DEF Counted
  <2>2. CASE ~(l = k /\ x = o)
    BY <1>1, <1>2, <2>2, CountedFrame DEF Turn
  <2>. QED
    BY <2>1, <2>2
<1>8. Attended'
  <2>1. \A l \in Runs, x \in Objects :
          job'[l][x].status = "running" => job[l][x].status = "running"
    BY <1>2
  <2>. QED
    BY <2>1 DEF Turn, Attended, Holds
<1>9. OneActive'
  BY <1>1 DEF Turn, OneActive, Active
<1>10. Desk'
  <2>1. \/ admin'.op = "none"
        \/ admin'.op = "enqueuing" /\ admin'.run = k /\ admin'.todo = todo \ {o}
    BY <1>1 DEF TriggerEnqueues, NoRequest, Request
  <2>2. todo \subseteq Objects
    BY <1>1, RequestFields
  <2>. QED
    BY <1>1, <1>2, <1>3, <2>1, <2>2 DEF Desk
<1>. QED
  BY <1>5, <1>6, <1>7, <1>8, <1>9, <1>10 DEF Turn

LEMMA CancelWritesTurn ==
  ASSUME TypeInv, TypeInv', Turn, CancelWrites, UNCHANGED <<setting, exec>>
  PROVE  Turn'
<1> PICK k, r : k = admin.run /\ r = run[k]
  OBVIOUS
<1>1. /\ k \in Runs /\ admin \in Request /\ admin.op = "cancelling"
      /\ UNCHANGED <<item, job, lastRun>> /\ run' = [run EXCEPT ![k].status = "cancelled"]
      /\ "lateCancel" \notin setting.faults => ~Executing(k)
      /\ admin'.op = "sweeping" /\ admin'.run = k
  BY RequestFields DEF CancelWrites, Request
<1>2. r.status # "none"
  BY <1>1 DEF Turn, Desk
<1>3. /\ run'[k].status = "cancelled" /\ run'[k].failed = r.failed
      /\ \A l \in Runs : l # k => run'[l] = run[l]
  BY <1>1, Restatus
<1>4. \A l \in Runs : Shrinks(l) /\ (FailedIn(l)' => FailedIn(l))
  BY <1>1, StillShrinks
<1>5. \A d \in Execs : Owned(d)' /\ Stage(d)'
  <2>1. ASSUME NEW d \in Execs, exec[d].phase # "idle"
        PROVE  /\ K(d) \in Runs /\ O(d) \in Objects
               /\ "lateCancel" \notin setting.faults => K(d) # k
    BY <1>1, <2>1, Busy DEF Executing, K
  <2>. QED
    BY <1>1, <1>3, <1>4, <2>1, StillExecs
<1>6. ASSUME NEW l \in Runs PROVE Ledger(l)'
  <2>1. CASE l # k
    <3>1. run[l].status = "none" => Blank(l)'
      BY <1>1 DEF Turn, Ledger, Blank
    <3>. QED
      BY <1>1, <1>3, <1>4, <2>1, <3>1, LedgerFrame DEF Turn
  <2>2. CASE l = k /\ "lateCancel" \in setting.faults
    <3>1. ~Free(k)
      BY <2>2 DEF Free
    <3>. QED
      BY <1>1, <1>2, <1>4, <2>2, <3>1, RestatusLedger DEF Turn, Closed
  <2>3. CASE l = k /\ "lateCancel" \notin setting.faults
    <3>1. Free(k)'
      BY <1>3, <2>3 DEF Free
    <3>2. FailedIn(k)' => r.failed > 0
      BY <1>1, <1>4 DEF Turn, Ledger
    <3>3. ~(k > lastRun')
      BY <1>1, <1>2 DEF Turn, Ledger
    <3>. QED
      BY <1>3, <2>3, <3>1, <3>2, <3>3 DEF Ledger, Closed
  <2>. QED
    BY <2>1, <2>2, <2>3
<1>7. \A l \in Runs, x \in Objects : Counted(l, x)'
  <2>1. \A l \in Runs : run[l].status = "cancelled" => run'[l].status = "cancelled"
    BY <1>3
  <2>. QED
    BY <1>1, <2>1, CountedFrame DEF Turn
<1>8. Attended'
  BY <1>1 DEF Turn, Attended, Holds
<1>9. OneActive'
  BY <1>3 DEF Turn, OneActive, Active, ActiveStatuses
<1>10. Desk'
  BY <1>1, <1>3 DEF Desk
<1>. QED
  BY <1>5, <1>6, <1>7, <1>8, <1>9, <1>10 DEF Turn

LEMMA CancelSweepsTurn ==
  ASSUME TypeInv, TypeInv', Turn, CancelSweeps, UNCHANGED <<setting, exec>>
  PROVE  Turn'
<1> PICK k : k = admin.run
  OBVIOUS
<1>1. /\ k \in Runs /\ admin.op = "sweeping" /\ UNCHANGED <<run, item, lastRun>>
      /\ admin'.op = "none"
  BY RequestFields DEF CancelSweeps, NoRequest
<1>2. run[k].status # "none"
  BY <1>1 DEF Turn, Desk
<1>3. \A l \in Runs, x \in Objects :
        \/ job'[l][x] = job[l][x]
        \/ l = k /\ job[l][x].status = "pending" /\ job'[l][x] = [job[l][x] EXCEPT !.status = "none"]
  BY <1>1 DEF CancelSweeps, TypeInv, TypeOK
<1>4. \A l \in Runs, x \in Objects :
        \/ job'[l][x] = job[l][x]
        \/ l = k /\ job[l][x].status = "pending" /\ job'[l][x].status = "none"
  <2> TAKE l \in Runs, x \in Objects
  <2>1. job[l][x] \in Job
    BY DEF TypeInv, TypeOK
  <2>2. [job[l][x] EXCEPT !.status = "none"].status = "none"
    BY <2>1 DEF Job
  <2>. QED
    BY <1>3, <2>2
<1>5. \A l \in Runs : Shrinks(l) /\ (FailedIn(l)' => FailedIn(l))
  BY <1>1, StillShrinks
<1>6. \A d \in Execs : Owned(d)' /\ Stage(d)'
  <2>1. ASSUME NEW d \in Execs, exec[d].phase # "idle"
        PROVE  K(d) \in Runs /\ O(d) \in Objects /\ job'[K(d)][O(d)] = job[K(d)][O(d)]
    BY <1>4, <2>1, Busy
  <2>. QED
    BY <1>1, <1>5, <2>1, StillExecs
<1>7. ASSUME NEW l \in Runs PROVE Ledger(l)'
  <2>1. run[l].status = "none" => Blank(l)'
    BY <1>1, <1>2, <1>4 DEF Turn, Ledger, Blank
  <2>. QED
    BY <1>1, <1>5, <2>1, LedgerFrame DEF Turn
<1>8. ASSUME NEW l \in Runs, NEW x \in Objects PROVE Counted(l, x)'
  <2>1. CASE job'[l][x] = job[l][x]
    BY <1>1, <2>1, CountedFrame DEF Turn
  <2>2. CASE job'[l][x] # job[l][x]
    <3>1. job[l][x].status = "pending" /\ Counted(l, x)
      BY <1>4, <2>2 DEF Turn
    <3>. QED
      BY <1>1, <3>1 DEF Counted
  <2>. QED
    BY <2>1, <2>2
<1>9. Attended'
  <2>1. \A l \in Runs, x \in Objects :
          job'[l][x].status = "running" => job[l][x].status = "running"
    BY <1>4
  <2>. QED
    BY <2>1 DEF Turn, Attended, Holds
<1>10. OneActive' /\ Desk'
  BY <1>1 DEF Turn, OneActive, Active, Desk
<1>. QED
  BY <1>6, <1>7, <1>8, <1>9, <1>10 DEF Turn

-----------------------------------------------------------------------------

LEMMA TurnInit == Init => Turn
<1> SUFFICES ASSUME Init PROVE Turn
  OBVIOUS
<1>1. /\ \A e \in Execs : exec[e].phase = "idle"
      /\ \A k \in Runs : run[k].status = "none" /\ Blank(k) /\ Sum(run[k]) = 0 /\ run[k].total = 0
      /\ \A k \in Runs : run[k].failed = 0
      /\ admin.op = "none"
  BY DEF Init, Idle, NoRun, NoRequest, Blank, Sum
<1>2. \A e \in Execs : Owned(e) /\ Stage(e) /\ ~Working(e)
  BY <1>1 DEF Owned, Stage, Working, Tried
<1>3. ASSUME NEW k \in Runs PROVE Ledger(k)
  <2>1. Open(k) = {} /\ ~FailedIn(k)
    BY <1>1, <1>2 DEF Open, FailedIn, Blank, Unsettled
  <2>2. Cardinality(Open(k)) = 0
    BY <2>1, FS_EmptySet
  <2>. QED
    BY <1>1, <2>1, <2>2 DEF Ledger, Closed
<1>4. \A k \in Runs, o \in Objects : Counted(k, o)
  BY <1>1 DEF Counted, Blank
<1>5. Attended /\ Desk /\ OneActive
  BY <1>1 DEF Attended, Blank, Desk, OneActive, Active, ActiveStatuses
<1>. QED
  BY <1>2, <1>3, <1>4, <1>5 DEF Turn

LEMMA TurnStep ==
  ASSUME TypeInv, TypeInv', CountedOnce, Turn, [Next]_vars
  PROVE  Turn'
<1>1. CASE RequestStep
  <2>1. UNCHANGED <<setting, exec>>
    BY <1>1 DEF RequestStep
  <2>. QED
    BY <1>1, <2>1, TriggerCreatesTurn, TriggerItemizesTurn, CancelWritesTurn,
       CancelSweepsTurn, TriggerEnqueuesTurn DEF RequestStep
<1>2. CASE NewRequest
  <2>1. UNCHANGED <<setting, exec>>
    BY <1>2 DEF NewRequest
  <2>. QED
    BY <1>2, <2>1, TriggerReadsTurn, CancelReadsTurn DEF NewRequest
<1>3. ASSUME NEW e \in Execs, NEW k \in Runs, NEW o \in Objects, Claim(e, k, o)
      PROVE  Turn'
  BY <1>3, ClaimTurn
<1>4. ASSUME NEW k \in Runs, NEW o \in Objects, Reap(k, o)
      PROVE  Turn'
  BY <1>4, ReapTurn
<1>5. ASSUME NEW e \in Execs, ExecStep(e)
      PROVE  Turn'
  BY <1>5, ExecTurn
<1>6. CASE \/ \E k \in Runs, o \in Objects : RetryJob(k, o)
           \/ \E e \in Execs : TimesOut(e) \/ StatementFails(e)
  BY <1>6 DEF RetryJob, TimesOut, StatementFails, Mishap, CountedOnce, Without
<1>7. ASSUME NEW o \in Objects, UserStep(o) \/ DeleteReads(o) \/ EditReads(o)
      PROVE  Turn'
  <2>1. /\ UNCHANGED <<setting, exec, run, job, admin, lastRun>>
        /\ \A k \in Runs, x \in Objects : item'[k][x] \in {item[k][x], "none"}
    BY <1>7 DEF UserStep, DeleteBytes, DeleteRow, EditWrites, DeleteReads, EditReads, Begin,
                Mishap, TypeInv, TypeOK
  <2>. QED
    BY <2>1, UserTurn
<1>8. CASE Crash
  BY <1>8, CrashTurn
<1>9. CASE UNCHANGED vars
  <2>1. UNCHANGED <<setting, exec, run, job, item, admin, lastRun>>
    BY <1>9 DEF vars
  <2>. QED
    BY <2>1, UserTurn
<1>. QED
  BY <1>1, <1>2, <1>3, <1>4, <1>5, <1>6, <1>7, <1>8, <1>9 DEF Next

LEMMA SettingStays == [Next]_vars => setting' = setting
BY DEF Next, vars, RequestStep, NewRequest, Claim, Reap, RetryJob, ExecStep, TimesOut,
       StatementFails, UserStep, DeleteReads, EditReads, Crash, Mishap

LEMMA TurnInvInit == Init => TurnInv
BY TypeInit, TurnInit DEF TurnInv

LEMMA TurnInvStep == TurnInv /\ [Next]_vars => TurnInv'
<1> SUFFICES ASSUME TurnInv, [Next]_vars PROVE TurnInv'
  OBVIOUS
<1>1. TypeInv /\ TypeInv'
  BY TypeStep DEF TurnInv
<1>2. setting' = setting
  BY SettingStays
<1>3. CountedOnce' <=> CountedOnce
  BY <1>2 DEF CountedOnce, Without
<1>. QED
  BY <1>1, <1>3, TurnStep DEF TurnInv

(* A run is closed when each of its items is settled, and as completed only  *)
(* if none has failed: the counters maybeFinalizeRun compares with the total *)
(* never run ahead of the items.                                             *)
THEOREM RunsClosedInTurn == Spec => []ClosedInTurn
<1>1. TurnInv => ClosedInTurn
  <2> SUFFICES ASSUME TurnInv, CountedOnce, NEW k \in Runs, NEW o \in Objects,
                      run[k].status \in Closed
               PROVE  /\ item[k][o] \in Final \cup {"none"}
                      /\ run[k].status = "completed" => item[k][o] # "failed"
    BY DEF ClosedInTurn
  <2>1. Open(k) = {} /\ (run[k].status = "completed" => ~FailedIn(k))
    BY DEF TurnInv, Turn, Ledger
  <2>2. item[k][o] \in Item
    BY DEF TurnInv, TypeInv, TypeOK
  <2>. QED
    BY <2>1, <2>2 DEF Open, Unsettled, FailedIn, Item, Final
<1>. QED
  BY <1>1, TurnInvInit, TurnInvStep, PTL DEF Spec

(* At most one run is pending or running: a run that has been closed or      *)
(* cancelled is not started again by an execution that read it before.       *)
THEOREM OneRunActive == Spec => []OneActiveRun
<1>1. TurnInv => OneActiveRun
  BY DEF TurnInv, Turn, OneActive, OneActiveRun, Without
<1>. QED
  BY <1>1, TurnInvInit, TurnInvStep, PTL DEF Spec
=============================================================================
