-------------------------- MODULE WorkflowRunsSafety --------------------------
(***************************************************************************)
(* What is executed was approved or dispatched, and what an enriched item  *)
(* is collected by: proofs that rest on the base invariant and on the      *)
(* effects of the actions in WorkflowRunsProofs.                           *)
(***************************************************************************)
EXTENDS WorkflowRunsProofs

-----------------------------------------------------------------------------
(* What a step does to the row of a run.                                    *)

\* The row is created, or written with this status.
Puts(r, status) ==
  /\ run'[r].status = status /\ run'[r].started = run[r].started
  /\ run'[r].approved = run[r].approved /\ run'[r].due = run[r].due
Keeps(r) == Puts(r, run[r].status)

Starts(r) ==
  /\ run'[r].status = "running" /\ run'[r].started
  /\ run'[r].approved = run[r].approved /\ run'[r].due = run[r].due

Opens(r) ==
  /\ run'[r].status = "running" /\ run'[r].started /\ ~run'[r].approved /\ ~run'[r].due
  /\ \E j \in Jobs : Append(j) /\ proc[j].run = 0

Creates(r) == Puts(r, "evaluating") /\ \E p \in Procs : CreateRun(p)

\* The run exists, and its evaluation, a member, its last batch, a cron or
\* time changes it.
Evaluated(r) == \E j \in Jobs : /\ Decide(j) /\ proc[j].run = r
                                /\ \/ Puts(r, "completed") \/ Puts(r, "awaiting_approval")
                                   \/ Starts(r) /\ Bypasses
ApprovedBy(r) ==
  /\ \E p \in Procs : Approve(p) /\ proc[p].run = r
  /\ run'[r].status = "running" /\ run'[r].approved
CancelledBy(r) ==
  /\ \E p \in Procs : Cancel(p) /\ proc[p].run = r
  /\ May("stale") \/ run[r].status \in Cancellable
  /\ Puts(r, "cancelled")
SettledBy(r) ==
  /\ run[r].status = "running"
  /\ \E j \in Jobs : SettleRun(j) /\ proc[j].run = r
  /\ Puts(r, "completed") \/ Puts(r, "completed_with_errors")
EmptyAt(r) ==
  /\ run[r].status = "running" /\ Matched(r) = {}
  /\ \E p \in Procs : DispatchRun(p) /\ proc[p].run = r
  /\ Puts(r, "completed")
Stamped(r) ==
  /\ run[r].status = "running" /\ run[r].due /\ ~run[r].approved
  /\ run'[r].status = "running" /\ run'[r].approved /\ run'[r].due
FallsDue(r) ==
  /\ WindowElapses(r)
  /\ run'[r].status = "running" /\ ~run'[r].approved /\ run'[r].due
FailedBy(r) ==
  /\ \E j \in Jobs : Throws(j) /\ proc[j].run = r /\ proc[j].type = "evaluate"
  /\ Puts(r, "failed")
Changes(r) ==
  \/ Evaluated(r) \/ ApprovedBy(r) \/ CancelledBy(r) \/ SettledBy(r) \/ EmptyAt(r)
  \/ Stamped(r) \/ FallsDue(r) \/ FailedBy(r)
  \/ Expire(r) /\ run[r].status = "awaiting_approval" /\ Puts(r, "expired")
  \/ DeleteOld(r) /\ run'[r] = NoRow

RowStep(r) ==
  \/ Keeps(r)
  \/ r = last + 1 /\ (Creates(r) \/ Opens(r))
  \/ Exists(r) /\ Changes(r)

LEMMA RowSetSteps ==
  ASSUME Base, NEW r \in Runs, NEW st, NEW b, NEW a, NEW d, RowSet(r, st, b, a, d),
         RowStep(r)
  PROVE  \A q \in Runs : RowStep(q)
BY DEF RowSet, RowStep, Keeps, Puts

LEMMA RowSteps ==
  ASSUME Base, Next
  PROVE  \A r \in Runs : RowStep(r)
<1>1. CASE run' = run
  BY <1>1 DEF RowStep, Keeps, Puts
<1>2. ASSUME NEW j \in Jobs, RecordMatched(j) \/ Decide(j)
      PROVE  \A r \in Runs : RowStep(r)
  <2>0. j \in Procs /\ proc[j].type = "evaluate" /\ proc[j].op \in {"page", "decide"}
    BY <1>2, RecordMatchedDoes, DecideDoes DEF Procs, RecordMatched
  <2>1. PICK r \in Runs : r = proc[j].run
    BY <2>0, ProcFacts DEF ProcOK
  <2>2. CASE RecordMatched(j)
    <3>1. RowSet(r, run[r].status, run[r].started, run[r].approved, run[r].due)
      BY <2>1, <2>2, RecordMatchedDoes, MatchedRow, ProcFacts DEF Procs
    <3>2. RowStep(r)
      BY <3>1 DEF RowSet, RowStep, Keeps, Puts
    <3>. QED
      BY <3>1, <3>2, RowSetSteps
  <2>3. CASE Decide(j)
    <3>1. Exists(r)
      BY <2>1, <2>3, DecideDoes
    <3>2. CASE Write(r, "completed")
      <4>1. RowSet(r, "completed", run[r].started, run[r].approved, run[r].due)
        BY <3>2, WriteRow DEF Terminal
      <4>2. RowStep(r)
        BY <2>1, <2>3, <3>1, <4>1 DEF RowSet, RowStep, Changes, Evaluated, Puts
      <4>. QED
        BY <4>1, <4>2, RowSetSteps
    <3>3. CASE Write(r, "awaiting_approval")
      <4>1. RowSet(r, "awaiting_approval", run[r].started, run[r].approved, run[r].due)
        BY <3>3, WriteRow DEF Active
      <4>2. RowStep(r)
        BY <2>1, <2>3, <3>1, <4>1 DEF RowSet, RowStep, Changes, Evaluated, Puts
      <4>. QED
        BY <4>1, <4>2, RowSetSteps
    <3>4. CASE Bypasses /\ run' = [run EXCEPT ![r].status = "running", ![r].started = TRUE]
      <4>1. RowSet(r, "running", TRUE, run[r].approved, run[r].due)
        BY <3>4, StartRow
      <4>2. RowStep(r)
        BY <2>1, <2>3, <3>1, <3>4, <4>1 DEF RowSet, RowStep, Changes, Evaluated, Starts
      <4>. QED
        BY <4>1, <4>2, RowSetSteps
    <3>. QED
      BY <2>1, <2>3, <3>2, <3>3, <3>4, DecideDoes
  <2>. QED
    BY <1>2, <2>2, <2>3
<1>3. ASSUME NEW j \in Jobs, Tally(j) \/ SettleRun(j)
      PROVE  \A r \in Runs : RowStep(r)
  <2>1. PICK r \in Runs : r = proc[j].run
    BY <1>3, BatchFacts DEF Tally, SettleRun
  <2>2. CASE Tally(j)
    <3>1. RowSet(r, run[r].status, run[r].started, run[r].approved, run[r].due)
      BY <2>1, <2>2, TallyDoes, CountedRow
    <3>2. RowStep(r)
      BY <3>1 DEF RowSet, RowStep, Keeps, Puts
    <3>. QED
      BY <3>1, <3>2, RowSetSteps
  <2>3. CASE SettleRun(j) /\ run' # run
    <3>1. PICK st \in {"completed", "completed_with_errors"} :
            run[r].status = "running" /\ Write(r, st)
      BY <2>1, <2>3, SettleRunDoes
    <3>2. RowSet(r, st, run[r].started, run[r].approved, run[r].due)
      BY <3>1, WriteRow DEF Terminal
    <3>3. RowStep(r)
      BY <2>1, <2>3, <3>1, <3>2 DEF RowSet, RowStep, Changes, SettledBy, Puts, Exists
    <3>. QED
      BY <3>2, <3>3, RowSetSteps
  <2>. QED
    BY <1>1, <1>3, <2>2, <2>3
<1>4. ASSUME NEW j \in Jobs, Append(j)
      PROVE  \A r \in Runs : RowStep(r)
  <2>0. j \in Procs
    BY DEF Procs
  <2>1. CASE /\ proc[j].run \in Runs /\ run' = [run EXCEPT ![proc[j].run].matched = @ + 1]
    <3>1. PICK r, n : r = proc[j].run /\ n = run[proc[j].run].matched + 1
      OBVIOUS
    <3>2. r \in Runs /\ n \in Nat
      BY <2>1, <3>1, RowFacts DEF Row
    <3>3. run' = [run EXCEPT ![r].matched = n]
      BY <2>1, <3>1
    <3>4. RowSet(r, run[r].status, run[r].started, run[r].approved, run[r].due)
      BY <3>2, <3>3, MatchedRow
    <3>5. RowStep(r)
      BY <3>4 DEF RowSet, RowStep, Keeps, Puts
    <3>. QED
      BY <3>2, <3>4, <3>5, RowSetSteps
  <2>2. CASE /\ proc[j].run = 0
             /\ run' = [run EXCEPT ![last + 1] =
                  [NoRow EXCEPT !.status = "running", !.started = TRUE, !.matched = 1]]
    <3>1. last + 1 \in Runs
      BY <1>4, <2>0, <2>2, PlaceLeft, AppendDoes DEF Reserves
    <3>2. PICK r \in Runs : r = last + 1
      BY <3>1
    <3>3. RowSet(r, "running", TRUE, FALSE, FALSE)
      BY <2>2, <3>2, OpenRow
    <3>4. RowStep(r)
      BY <1>4, <2>2, <3>2, <3>3 DEF RowSet, RowStep, Opens
    <3>. QED
      BY <3>3, <3>4, RowSetSteps
  <2>. QED
    BY <1>1, <1>4, <2>1, <2>2, AppendDoes
<1>5. ASSUME NEW p \in Procs, CreateRun(p)
      PROVE  \A r \in Runs : RowStep(r)
  <2>1. PICK r \in Runs : r = last + 1 /\ Write(r, "evaluating")
    BY <1>5, CreateRunDoes
  <2>2. RowSet(r, "evaluating", run[r].started, run[r].approved, run[r].due)
    BY <2>1, WriteRow DEF Active
  <2>3. RowStep(r)
    BY <1>5, <2>1, <2>2 DEF RowSet, RowStep, Creates, Puts
  <2>. QED
    BY <2>2, <2>3, RowSetSteps
<1>6. ASSUME NEW p \in Procs, Approve(p), run' # run
      PROVE  \A r \in Runs : RowStep(r)
  <2>1. PICK r \in Runs :
          /\ r = proc[p].run /\ Exists(r)
          /\ run' = [run EXCEPT ![r].status = "running", ![r].started = TRUE,
                                ![r].approved = TRUE]
    BY <1>6, ApproveDoes
  <2>2. RowSet(r, "running", TRUE, TRUE, run[r].due)
    BY <2>1, ApproveRow
  <2>3. RowStep(r)
    BY <1>6, <2>1, <2>2 DEF RowSet, RowStep, Changes, ApprovedBy
  <2>. QED
    BY <2>2, <2>3, RowSetSteps
<1>7. ASSUME NEW p \in Procs, Cancel(p) \/ DispatchRun(p), run' # run
      PROVE  \A r \in Runs : RowStep(r)
  <2>1. PICK r \in Runs : r = proc[p].run
    BY <1>7, CancelDoes, DispatchRunDoes
  <2>2. CASE Cancel(p)
    <3>1. /\ Exists(r) /\ Write(r, "cancelled")
          /\ May("stale") \/ run[r].status \in Cancellable
      BY <1>7, <2>1, <2>2, CancelDoes
    <3>2. RowSet(r, "cancelled", run[r].started, run[r].approved, run[r].due)
      BY <3>1, WriteRow DEF Terminal
    <3>3. RowStep(r)
      BY <2>1, <2>2, <3>1, <3>2 DEF RowSet, RowStep, Changes, CancelledBy, Puts
    <3>. QED
      BY <3>2, <3>3, RowSetSteps
  <2>3. CASE DispatchRun(p)
    <3>1. run[r].status = "running" /\ Write(r, "completed") /\ Matched(r) = {}
      BY <1>7, <2>1, <2>3, DispatchRunDoes
    <3>2. RowSet(r, "completed", run[r].started, run[r].approved, run[r].due)
      BY <3>1, WriteRow DEF Terminal
    <3>3. RowStep(r)
      BY <2>1, <2>3, <3>1, <3>2 DEF RowSet, RowStep, Changes, EmptyAt, Puts, Exists
    <3>. QED
      BY <3>2, <3>3, RowSetSteps
  <2>. QED
    BY <1>7, <2>2, <2>3
<1>8. ASSUME NEW c \in Crons, NEW r \in Runs, StampRun(c, r)
      PROVE  \A q \in Runs : RowStep(q)
  <2>1. run[r].due /\ Undispatched(r) /\ run' = [run EXCEPT ![r].approved = TRUE]
    BY <1>8, StampRunDoes
  <2>2. RowSet(r, run[r].status, run[r].started, TRUE, run[r].due)
    BY <2>1, StampRow
  <2>3. RowStep(r)
    BY <2>1, <2>2 DEF RowSet, RowStep, Changes, Stamped, Undispatched, Exists
  <2>. QED
    BY <2>2, <2>3, RowSetSteps
<1>9. ASSUME NEW r \in Runs, WindowElapses(r) \/ Expire(r) \/ DeleteOld(r)
      PROVE  \A q \in Runs : RowStep(q)
  <2>1. CASE WindowElapses(r)
    <3>1. r \in OpenRuns /\ run' = [run EXCEPT ![r].due = TRUE]
      BY <2>1 DEF WindowElapses
    <3>2. RowSet(r, run[r].status, run[r].started, run[r].approved, TRUE)
      BY <3>1, DueRow
    <3>3. RowStep(r)
      BY <2>1, <3>1, <3>2 DEF RowSet, RowStep, Changes, FallsDue, OpenRuns, Exists
    <3>. QED
      BY <3>2, <3>3, RowSetSteps
  <2>2. CASE Expire(r)
    <3>1. run[r].status = "awaiting_approval" /\ Write(r, "expired")
      BY <2>2 DEF Expire
    <3>2. RowSet(r, "expired", run[r].started, run[r].approved, run[r].due)
      BY <3>1, WriteRow DEF Terminal
    <3>3. RowStep(r)
      BY <2>2, <3>1, <3>2 DEF RowSet, RowStep, Changes, Puts, Exists
    <3>. QED
      BY <3>2, <3>3, RowSetSteps
  <2>3. CASE DeleteOld(r)
    <3>1. run[r].status \in Terminal /\ run' = [run EXCEPT ![r] = NoRow]
      BY <2>3 DEF DeleteOld
    <3>2. \A q \in Runs : run'[q] = IF q = r THEN NoRow ELSE run[q]
      BY <3>1 DEF Base, TypeOK
    <3>. QED
      BY <2>3, <3>1, <3>2 DEF RowStep, Keeps, Puts, Changes, Exists, Terminal
  <2>. QED
    BY <1>9, <2>1, <2>2, <2>3
<1>10. ASSUME NEW j \in Jobs, Throws(j), run' # run
       PROVE  \A r \in Runs : RowStep(r)
  <2>1. PICK r \in Runs : r = proc[j].run /\ Exists(r) /\ Write(r, "failed")
    BY <1>10, ThrowsDoes
  <2>2. RowSet(r, "failed", run[r].started, run[r].approved, run[r].due)
    BY <2>1, WriteRow DEF Terminal
  <2>3. RowStep(r)
    BY <1>10, <2>1, <2>2, ThrowsDoes DEF RowSet, RowStep, Changes, FailedBy, Puts
  <2>. QED
    BY <2>2, <2>3, RowSetSteps
<1>11. \A j \in Jobs : Redeliver(j) => run' = run
  BY DEF Redeliver
<1>12. ASSUME NEW j \in Jobs, JobStep(j)
       PROVE  \A r \in Runs : RowStep(r)
  <2>1. \/ RecordMatched(j) \/ Decide(j) \/ Tally(j) \/ SettleRun(j) \/ Append(j) \/ run' = run
    BY <1>12 DEF JobStep, BeginEvaluate, EvaluatePage, ReadMatched, PostBatch, Posted, BeginBatch,
       ClaimItem, Act, CloseItem, FinishBatch, BeginItem, LockWorkflow
  <2>. QED
    BY <2>1, <1>1, <1>2, <1>3, <1>4
<1>13. ASSUME NEW p \in Procs, RequestStep(p) \/ CronStep(p)
       PROVE  \A r \in Runs : RowStep(r)
  <2>1. \/ CreateRun(p) \/ Approve(p) \/ Cancel(p) \/ DispatchRun(p) \/ run' = run
    BY <1>13 DEF RequestStep, CronStep, AnnounceRun, Exclude, ReadMatched, PostBatch, Posted
  <2>. QED
    BY <2>1, <1>1, <1>5, <1>6, <1>7
<1>14. \A p \in Procs : Asks(p) \/ ScheduleFires(p) \/ Crash(p) => run' = run
  BY DEF Asks, AskCreate, AskApprove, AskCancel, Ask, ScheduleFires, Admitted, Crash
<1>15. \A i \in Items : Signal(i) \/ Vanish(i) => run' = run
  BY DEF Signal, Vanish
<1>. QED
  BY <1>1, <1>8, <1>9, <1>10, <1>11, <1>12, <1>13, <1>14, <1>15 DEF Next, Procs

LEMMA SettingStays ==
  ASSUME Next
  PROVE  setting' = setting
<1>1. ASSUME NEW j \in Jobs, JobStep(j)
      PROVE  setting' = setting
  BY <1>1 DEF JobStep, BeginEvaluate, EvaluatePage, RecordMatched, Decide, ReadMatched, PostBatch,
     Posted, BeginBatch, ClaimItem, Act, CloseItem, Tally, FinishBatch, SettleRun, BeginItem,
     LockWorkflow, Append
<1>2. ASSUME NEW p, RequestStep(p) \/ CronStep(p)
      PROVE  setting' = setting
  BY <1>2 DEF RequestStep, CronStep, CreateRun, AnnounceRun, Exclude, Approve, Cancel, ReadMatched,
     PostBatch, Posted, DispatchRun
<1>3. ASSUME NEW p, \/ Asks(p) \/ ScheduleFires(p) \/ Crash(p)
                    \/ \E r \in Runs : StampRun(p, r)
      PROVE  setting' = setting
  BY <1>3 DEF Asks, AskCreate, AskApprove, AskCancel, Ask, ScheduleFires, Admitted, Crash, StampRun
<1>4. ASSUME NEW x, \/ WindowElapses(x) \/ Expire(x) \/ DeleteOld(x)
                    \/ Throws(x) \/ Redeliver(x) \/ Signal(x) \/ Vanish(x)
      PROVE  setting' = setting
  BY <1>4 DEF WindowElapses, Expire, DeleteOld, Throws, Redeliver, Signal, Vanish
<1>. QED
  BY <1>1, <1>2, <1>3, <1>4 DEF Next

-----------------------------------------------------------------------------
(* Approval: a process works on the items of a run, or has executed one,    *)
(* only if the run was approved, or dispatched, or has been purged since.   *)

Gated == setting.trigger = "manual" /\ setting.preview

Cleared(r) == run[r].approved \/ ~Exists(r)
Works(x) == x.type = "batch" \/ x.op \in {"count", "read", "post"}
AllCleared ==
  /\ \A p \in Procs : Works(proc[p]) => Cleared(proc[p].run)
  /\ \A r \in Runs, i \in Items : acted[r][i] > 0 => Cleared(r)

\* Runs stay approved, and numbers are not used again.
Clears(r) == run'[r].approved \/ run'[r].status = "none"
Lasting == \A r \in Runs : r <= last /\ Cleared(r) => Clears(r)

LEMMA ClearedLasts ==
  ASSUME Base, Next
  PROVE  Lasting
<1>1. ASSUME NEW r \in Runs, r <= last, Cleared(r)
      PROVE  Clears(r)
  <2>1. RowStep(r) /\ ~(r = last + 1)
    BY <1>1, RowSteps, RowFacts
  <2>2. CASE Keeps(r)
    BY <1>1, <2>2 DEF Keeps, Puts, Cleared, Clears, Exists
  <2>3. CASE Exists(r) /\ Changes(r)
    <3>1. run[r].approved
      BY <1>1, <2>3 DEF Cleared
    <3>2. ~FallsDue(r)
      BY <3>1 DEF FallsDue, WindowElapses, OpenRuns
    <3>. QED
      BY <2>3, <3>1, <3>2, NoRowFacts DEF Changes, Evaluated, ApprovedBy, CancelledBy, SettledBy,
         EmptyAt, Stamped, FailedBy, Puts, Starts, Clears
  <2>. QED
    BY <2>1, <2>2, <2>3 DEF RowStep
<1>. QED
  BY <1>1 DEF Lasting

\* A process that works on a run took it over from another, or the run is cleared.
Inherits(p) ==
  Works(proc'[p]) => \/ \E q \in Procs : Works(proc[q]) /\ proc[q].run = proc'[p].run
                     \/ Clears(proc'[p].run)

LEMMA WorksRun ==
  ASSUME Base, NEW p \in Procs, Works(proc[p])
  PROVE  proc[p].run \in Runs /\ proc[p].run <= last
<1>1. proc[p].type # "item" \/ proc[p].op \in ItemOps
  BY ProcFacts DEF ProcOK, Typed
<1>2. proc[p].type # "item" /\ proc[p].op \notin {"idle", "create"}
  BY <1>1, ProcFacts DEF Works, ProcOK, Typed, BatchOps, ItemOps
<1>. QED
  BY <1>2, ProcFacts DEF ProcOK

LEMMA ClearedByWalk ==
  ASSUME Base, AllCleared, Lasting, \A p \in Procs : Inherits(p),
         \A r \in Runs, i \in Items : acted'[r][i] > 0 =>
           acted[r][i] > 0 \/ \E p \in Procs : Works(proc[p]) /\ proc[p].run = r
  PROVE  AllCleared'
<1>1. ASSUME NEW p \in Procs, Works(proc[p])'
      PROVE  Cleared(proc[p].run)'
  <2>1. ASSUME NEW q \in Procs, Works(proc[q]), proc[q].run = proc'[p].run
        PROVE  Clears(proc'[p].run)
    <3>1. proc[q].run \in Runs /\ proc[q].run <= last /\ Cleared(proc[q].run)
      BY <2>1, WorksRun DEF AllCleared
    <3>. QED
      BY <2>1, <3>1 DEF Lasting
  <2>2. Works(proc'[p])
    BY <1>1 DEF Works
  <2>. QED
    BY <2>1, <2>2 DEF Inherits, Clears, Cleared, Exists
<1>2. ASSUME NEW r \in Runs, NEW i \in Items, acted'[r][i] > 0
      PROVE  Cleared(r)'
  <2>1. Cleared(r)
    BY <1>2 DEF AllCleared
  <2>2. CASE r <= last
    BY <2>1, <2>2 DEF Lasting, Clears, Cleared, Exists
  <2>3. r <= last
    <3>1. r > last => acted[r][i] = 0
      BY RowFacts DEF RunOK
    <3>2. acted[r][i] > 0 \/ \E p \in Procs : Works(proc[p]) /\ proc[p].run = r
      BY <1>2
    <3>. QED
      BY <3>1, <3>2, WorksRun, RowFacts
  <2>. QED
    BY <2>2, <2>3, RowFacts
<1>. QED
  BY <1>1, <1>2 DEF AllCleared

\* p goes on as x, and nobody else moves.
LEMMA InheritsOne ==
  ASSUME NEW p \in Procs, NEW x, Becomes(p, x),
         Works(x) => \/ \E q \in Procs : Works(proc[q]) /\ proc[q].run = x.run
                     \/ Clears(x.run)
  PROVE  \A q \in Procs : Inherits(q)
BY DEF Becomes, Inherits

LEMMA ClearedOne ==
  ASSUME Base, AllCleared, Lasting, acted' = acted,
         NEW p \in Procs, NEW x, Becomes(p, x),
         Works(x) => \/ \E q \in Procs : Works(proc[q]) /\ proc[q].run = x.run
                     \/ Clears(x.run)
  PROVE  AllCleared'
BY InheritsOne, ClearedByWalk

\* What is left of a job works on its run only if the job did.
LEMMA RemainsWorks ==
  ASSUME NEW p \in Procs, NEW x, Remains(x, p), Works(x)
  PROVE  Works(proc[p]) /\ proc[p].run = x.run
BY IdleFacts DEF Remains, Works

LEMMA IdleWorksNot == ~Works(Idle)
BY IdleFacts DEF Works

LEMMA ClearedRead ==
  ASSUME Base, AllCleared, Lasting, NEW p \in Procs, ReadMatched(p) \/ PostBatch(p) \/ Posted(p)
  PROVE  AllCleared'
<1>1. CASE ReadMatched(p)
  <2>1. PICK x : Moves(p, x, "read", "post")
    BY <1>1, ReadMatchedDoes
  <2>. QED
    BY <1>1, <2>1, ReadMatchedDoes, ClearedOne DEF Moves, Walks, Same, Works, Frame
<1>2. CASE PostBatch(p)
  <2>1. PICK x, y, k : /\ Spawns(p, x, k, y) /\ Same(x, p) /\ y.run = proc[p].run
    BY <1>2, PostBatchDoes
  <2>2. proc[p].op = "post" /\ acted' = acted
    BY <1>2, PostBatchDoes DEF Frame
  <2>3. \A q \in Procs : Inherits(q)
    BY <2>1, <2>2 DEF Spawns, Same, Works, Inherits
  <2>. QED
    BY <2>2, <2>3, ClearedByWalk
<1>3. CASE Posted(p)
  BY <1>3, PostedDoes, ClearedOne, IdleWorksNot DEF Walks, Frame
<1>. QED
  BY <1>1, <1>2, <1>3

LEMMA ClearedJob ==
  ASSUME Base, AllCleared, Lasting, NEW j \in Jobs, JobStep(j), ~(Decide(j) /\ Bypasses)
  PROVE  AllCleared'
<1>0. j \in Procs
  BY DEF Procs
<1>1. CASE ReadMatched(j) \/ PostBatch(j) \/ Posted(j)
  BY <1>0, <1>1, ClearedRead
<1>2. CASE BeginEvaluate(j)
  <2>1. PICK x : Becomes(j, x) /\ (x = Idle \/ (x.type = "evaluate" /\ x.op = "page"))
    BY <1>2, BeginEvaluateDoes DEF Moves, Walks, Same
  <2>. QED
    BY <1>0, <1>2, <2>1, BeginEvaluateDoes, ClearedOne, IdleWorksNot DEF Works, Frame
<1>3. CASE EvaluatePage(j)
  <2>1. PICK x : Becomes(j, x) /\ x.type = "evaluate" /\ x.op = "page"
    BY <1>3, EvaluatePageDoes DEF Moves, Walks, Same
  <2>2. acted' = acted
    BY <1>3 DEF EvaluatePage
  <2>. QED
    BY <1>0, <2>1, <2>2, ClearedOne DEF Works
<1>4. CASE RecordMatched(j)
  <2>1. PICK x : Becomes(j, x) /\ x.type = "evaluate" /\ x.op = "decide"
    <3>1. proc[j].type = "evaluate" /\ \E x : Moves(j, x, "page", "decide")
      BY <1>4, RecordMatchedDoes
    <3>. QED
      BY <3>1 DEF Moves, Walks, Same
  <2>2. acted' = acted
    BY <1>4 DEF RecordMatched
  <2>. QED
    BY <1>0, <2>1, <2>2, ClearedOne DEF Works
<1>5. CASE Decide(j)
  BY <1>0, <1>5, DecideDoes, ClearedOne, IdleWorksNot DEF Walks
<1>6. CASE \/ BeginBatch(j) \/ ClaimItem(j) \/ CloseItem(j) \/ Tally(j) \/ FinishBatch(j)
           \/ SettleRun(j)
  <2>1. proc[j].type = "batch" /\ acted' = acted
    BY <1>6, BeginBatchDoes, ClaimItemDoes, CloseItemDoes, TallyDoes, FinishBatchDoes,
       SettleRunDoes DEF Frame
  <2>2. \E x : Becomes(j, x) /\ (x = Idle \/ x.run = proc[j].run)
    BY <1>6, BeginBatchDoes, ClaimItemDoes, CloseItemDoes, TallyDoes, FinishBatchDoes,
       SettleRunDoes DEF Moves, Walks, Same
  <2>3. PICK x : Becomes(j, x) /\ (x = Idle \/ x.run = proc[j].run)
    BY <2>2
  <2>. QED
    BY <1>0, <2>1, <2>3, ClearedOne, IdleWorksNot DEF Works
<1>7. CASE Act(j)
  <2>1. PICK x, i :
          /\ i \in Items /\ Becomes(j, x) /\ Same(x, j)
          /\ acted' = acted \/ acted' = [acted EXCEPT ![proc[j].run][i] = @ + 1]
    BY <1>7, ActDoes
  <2>2. Works(proc[j]) /\ Works(x) /\ proc[j].run = x.run
    BY <1>7, <2>1, ActDoes DEF Works, Same
  <2>3. \A q \in Procs : Inherits(q)
    BY <1>0, <2>1, <2>2, InheritsOne
  <2>4. ASSUME NEW r \in Runs, NEW k \in Items, acted'[r][k] > 0
        PROVE  acted[r][k] > 0 \/ \E p \in Procs : Works(proc[p]) /\ proc[p].run = r
    <3>1. CASE r = proc[j].run
      BY <1>0, <2>2, <3>1
    <3>2. CASE r # proc[j].run
      BY <2>1, <2>4, <3>2 DEF Base
    <3>. QED
      BY <3>1, <3>2
  <2>. QED
    BY <2>3, <2>4, ClearedByWalk
<1>8. CASE BeginItem(j)
  <2>1. PICK x : Becomes(j, x) /\ (x = Idle \/ (x.type = "item" /\ x.op = "lock"))
    BY <1>8, BeginItemDoes DEF Moves, Walks, Same
  <2>. QED
    BY <1>0, <1>8, <2>1, BeginItemDoes, ClearedOne, IdleWorksNot DEF Works, Frame
<1>9. CASE LockWorkflow(j)
  <2>1. PICK x : Becomes(j, x) /\ x.type = "item" /\ x.op = "append"
    BY <1>9, LockWorkflowDoes
  <2>. QED
    BY <1>0, <1>9, <2>1, LockWorkflowDoes, ClearedOne DEF Works, Frame
<1>10. CASE Append(j)
  BY <1>0, <1>10, AppendDoes, ClearedOne, IdleWorksNot
<1>. QED
  BY <1>1, <1>2, <1>3, <1>4, <1>5, <1>6, <1>7, <1>8, <1>9, <1>10 DEF JobStep

LEMMA ClearedAlone ==
  ASSUME Base, AllCleared, Lasting, NEW p \in Procs, RequestStep(p) \/ CronStep(p)
  PROVE  AllCleared'
<1>1. CASE ReadMatched(p) \/ PostBatch(p) \/ Posted(p)
  BY <1>1, ClearedRead
<1>2. CASE CreateRun(p)
  <2>1. PICK x : Becomes(p, x) /\ x.type = "none" /\ x.op = "announce"
    BY <1>2, CreateRunDoes
  <2>. QED
    BY <1>2, <2>1, CreateRunDoes, ClearedOne DEF Works
<1>3. CASE AnnounceRun(p)
  <2>1. PICK y, k : Spawns(p, Idle, k, y) /\ y.type = "evaluate" /\ y.op = "pending"
    BY <1>3, AnnounceRunDoes
  <2>2. \A q \in Procs : Inherits(q)
    BY <2>1, IdleWorksNot DEF Spawns, Works, Inherits
  <2>. QED
    BY <1>3, <2>2, AnnounceRunDoes, ClearedByWalk DEF Frame
<1>4. CASE Exclude(p)
  <2>1. PICK x : Becomes(p, x) /\ x.op = "approve" /\ x.type = proc[p].type
    BY <1>4, ExcludeDoes DEF Moves, Walks, Same
  <2>2. acted' = acted /\ proc[p].type = "none"
    BY <1>4, AloneFacts DEF Exclude, Asking
  <2>. QED
    BY <2>1, <2>2, ClearedOne DEF Works
<1>5. CASE Approve(p)
  <2>1. acted' = acted
    BY <1>5, ApproveDoes
  <2>2. CASE Walks(p, Idle)
    BY <2>1, <2>2, ClearedOne, IdleWorksNot DEF Walks
  <2>3. CASE \E x : Moves(p, x, "approve", "read")
    <3>1. PICK x : Becomes(p, x) /\ x.run = proc[p].run
      BY <2>3 DEF Moves, Walks, Same
    <3>2. CASE ~Exists(proc[p].run)
      BY <1>5, <2>1, <3>2, ApproveDoes, ClearedOne, IdleWorksNot DEF Walks
    <3>3. CASE Exists(proc[p].run)
      <4>1. PICK r \in Runs :
              /\ r = proc[p].run
              /\ run' = [run EXCEPT ![r].status = "running", ![r].started = TRUE,
                                    ![r].approved = TRUE]
        BY <1>5, <3>3, ApproveDoes
      <4>2. Clears(r)
        BY <4>1, ApproveRow DEF RowSet, Clears
      <4>. QED
        BY <2>1, <3>1, <4>1, <4>2, ClearedOne
    <3>. QED
      BY <3>2, <3>3
  <2>. QED
    BY <1>5, <2>2, <2>3, ApproveDoes
<1>6. CASE Cancel(p)
  BY <1>6, CancelDoes, ClearedOne, IdleWorksNot DEF Walks
<1>7. CASE DispatchRun(p)
  <2>1. acted' = acted /\ Works(proc[p])
    BY <1>7, DispatchRunDoes DEF Works
  <2>2. PICK x : Becomes(p, x) /\ (x = Idle \/ x.run = proc[p].run)
    BY <1>7, DispatchRunDoes DEF Moves, Walks, Same
  <2>. QED
    BY <2>1, <2>2, ClearedOne, IdleWorksNot
<1>. QED
  BY <1>1, <1>2, <1>3, <1>4, <1>5, <1>6, <1>7 DEF RequestStep, CronStep

LEMMA ClearedAsk ==
  ASSUME Base, AllCleared, Lasting,
         \/ \E p \in Requests : Asks(p)
         \/ \E c \in Crons : ScheduleFires(c) \/ \E r \in Runs : StampRun(c, r)
  PROVE  AllCleared'
<1>0. Requests \subseteq Procs \ Jobs /\ Crons \subseteq Procs \ Jobs
  BY WorkflowAssumption DEF Procs
<1>1. ASSUME NEW p \in Procs \ Jobs, Admitted(p)
      PROVE  AllCleared'
  <2>1. PICK x : Becomes(p, x) /\ x.type = "none" /\ x.op = "create"
    BY <1>1, AdmittedDoes
  <2>. QED
    BY <1>1, <2>1, AdmittedDoes, ClearedOne DEF Works, Frame
<1>2. ASSUME NEW p \in Requests, NEW r \in Runs, AskApprove(p, r) \/ AskCancel(p, r)
      PROVE  AllCleared'
  <2>1. PICK op \in {"exclude", "cancel"} : Ask(p, r, op) /\ run[r].status \in Active
                                          /\ (op = "exclude" => run[r].status = "awaiting_approval")
    BY <1>2 DEF AskApprove, AskCancel, Approvable, Cancellable, Active
  <2>2. r <= last /\ (op = "exclude" => ~Bypasses)
    BY <2>1, RowFacts DEF Exists, Active, RunOK
  <2>3. PICK x : Becomes(p, x) /\ x.type = "none" /\ x.op = op
    BY <2>1, <2>2, AskDoes DEF Walks
  <2>4. acted' = acted
    BY <2>1 DEF Ask
  <2>. QED
    BY <1>0, <2>3, <2>4, ClearedOne DEF Works
<1>3. ASSUME NEW c \in Crons, NEW r \in Runs, StampRun(c, r)
      PROVE  AllCleared'
  <2>1. PICK x : Becomes(c, x) /\ x.run = r
    BY <1>3, StampRunDoes DEF Walks
  <2>2. acted' = acted /\ Clears(r)
    BY <1>3, StampRunDoes, StampRow DEF RowSet, Clears
  <2>. QED
    BY <1>0, <2>1, <2>2, ClearedOne
<1>. QED
  BY <1>0, <1>1, <1>2, <1>3 DEF Asks, AskCreate, ScheduleFires

LEMMA ClearedHappens ==
  ASSUME Base, AllCleared, Lasting,
         \/ \E r \in Runs : WindowElapses(r) \/ Expire(r) \/ DeleteOld(r)
         \/ \E p \in Procs : Crash(p)
         \/ \E j \in Jobs : Throws(j) \/ Redeliver(j)
         \/ \E i \in Items : Signal(i) \/ Vanish(i)
  PROVE  AllCleared'
<1>1. CASE proc' = proc /\ acted' = acted
  BY <1>1, ClearedByWalk DEF Inherits
<1>2. ASSUME NEW p \in Procs, Crash(p)
      PROVE  AllCleared'
  <2>1. PICK x : Becomes(p, x) /\ Remains(x, p)
    BY <1>2, CrashDoes DEF Walks
  <2>. QED
    BY <1>2, <2>1, CrashDoes, RemainsWorks, ClearedOne DEF Frame
<1>3. ASSUME NEW j \in Jobs, Throws(j)
      PROVE  AllCleared'
  <2>1. PICK x : Becomes(j, x) /\ Remains(x, j)
    BY <1>3, ThrowsDoes DEF Walks
  <2>2. acted' = acted /\ j \in Procs
    BY <1>3, ThrowsDoes
  <2>. QED
    BY <2>1, <2>2, RemainsWorks, ClearedOne
<1>4. ASSUME NEW j \in Jobs, Redeliver(j)
      PROVE  AllCleared'
  <2>1. PICK k \in Procs : \E x : Becomes(k, x) /\ Remains(x, j)
    BY <1>4, RedeliverDoes DEF Walks
  <2>2. acted' = acted /\ j \in Procs
    BY <1>4, RedeliverDoes DEF Frame
  <2>. QED
    BY <2>1, <2>2, RemainsWorks, ClearedOne
<1>5. ASSUME NEW i \in Items, Signal(i)
      PROVE  AllCleared'
  <2>1. PICK k \in Procs : \E x : Becomes(k, x) /\ x.type = "item" /\ x.op = "pending"
    BY <1>5, SignalDoes DEF Walks
  <2>. QED
    BY <1>5, <2>1, SignalDoes, ClearedOne DEF Works, Frame
<1>. QED
  BY <1>1, <1>2, <1>3, <1>4, <1>5 DEF WindowElapses, Expire, DeleteOld, Vanish

LEMMA ClearedStep ==
  ASSUME Base, AllCleared, Next, \A j \in Jobs : ~(Decide(j) /\ Bypasses)
  PROVE  AllCleared'
<1>1. Lasting
  BY ClearedLasts
<1>. QED
  BY <1>1, ClearedJob, ClearedAlone, ClearedAsk, ClearedHappens DEF Next, Procs

LEMMA ClearedInit ==
  ASSUME Init
  PROVE  AllCleared
BY IdleWorksNot DEF Init, AllCleared

\* Approval before execution: no action of a previewed manual run is executed
\* before a member approved the run (approveRun writes approved by id before it
\* enqueues the first batch), whatever crashes, is delivered twice or is raced.
THEOREM ApprovalComesFirst == Spec => []ApprovedFirst
<1> DEFINE Inv == Base /\ (Gated => AllCleared)
<1>1. Init => Inv
  BY BaseInit, ClearedInit
<1>2. Inv /\ [Next]_vars => Inv'
  <2> SUFFICES ASSUME Inv, [Next]_vars
               PROVE  Inv'
    OBVIOUS
  <2>1. Base'
    BY BaseStep
  <2>2. ASSUME Gated'
        PROVE  AllCleared'
    <3>1. CASE Next
      <4>1. setting' = setting
        BY <3>1, SettingStays
      <4>2. Gated /\ ~Bypasses
        BY <2>2, <4>1 DEF Gated, Bypasses
      <4>. QED
        BY <3>1, <4>2, ClearedStep
    <3>2. CASE UNCHANGED vars
      BY <2>2, <3>2 DEF vars, Gated, AllCleared, Works, Cleared, Exists
    <3>. QED
      BY <3>1, <3>2
  <2>. QED
    BY <2>1, <2>2
<1>3. Inv => ApprovedFirst
  BY DEF Gated, AllCleared, Cleared, ApprovedFirst
<1>. QED
  BY <1>1, <1>2, <1>3, PTL DEF Spec

-----------------------------------------------------------------------------
(* The micro-runs of a workflow for enriched items: no run is started by    *)
(* hand, so runs are only opened by appending an item.                      *)

Micro == Enriched /\ Without({"runNow"})

\* Nothing evaluates, approves or is about to create a run.
Quiet ==
  /\ \A p \in Procs : /\ proc[p].type # "evaluate"
                      /\ proc[p].op \notin {"create", "announce", "exclude", "approve"}
  /\ \A r \in Runs : run[r].status \notin {"evaluating", "awaiting_approval"}

\* The steps that are left to processes and to time
Executes(j) ==
  \/ BeginBatch(j) \/ ClaimItem(j) \/ Act(j) \/ CloseItem(j) \/ Tally(j)
  \/ FinishBatch(j) \/ SettleRun(j) \/ BeginItem(j) \/ LockWorkflow(j) \/ Append(j)
Goes(p) ==
  \/ ReadMatched(p) \/ PostBatch(p) \/ Posted(p) \/ Cancel(p) \/ DispatchRun(p)
  \/ \E r \in Runs : (p \in Requests /\ AskCancel(p, r)) \/ (p \in Crons /\ StampRun(p, r))
Happens ==
  \/ \E r \in Runs : WindowElapses(r) \/ DeleteOld(r)
  \/ \E p \in Procs : Crash(p)
  \/ \E j \in Jobs : Throws(j) \/ Redeliver(j)
  \/ \E i \in Items : Signal(i) \/ Vanish(i)

LEMMA MicroSteps ==
  ASSUME Base, Micro, Quiet, Next
  PROVE  \/ \E j \in Jobs : Executes(j)
         \/ \E p \in Procs : Goes(p)
         \/ Happens
<1>1. ASSUME NEW j \in Jobs, JobStep(j)
      PROVE  Executes(j) \/ Goes(j)
  <2>1. j \in Procs
    BY DEF Procs
  <2>2. ~BeginEvaluate(j) /\ ~RecordMatched(j) /\ ~EvaluatePage(j) /\ ~Decide(j)
    BY <2>1, BeginEvaluateDoes, EvaluatePageDoes, RecordMatchedDoes, DecideDoes DEF Quiet
  <2>. QED
    BY <1>1, <2>2 DEF JobStep, Executes, Goes
<1>2. ASSUME NEW p \in Procs, RequestStep(p) \/ CronStep(p)
      PROVE  Goes(p)
  <2>1. ~CreateRun(p) /\ ~AnnounceRun(p) /\ ~Exclude(p) /\ ~Approve(p)
    BY DEF Quiet, CreateRun, AnnounceRun, Exclude, Approve
  <2>. QED
    BY <1>2, <2>1 DEF RequestStep, CronStep, Goes
<1>3. ASSUME NEW p \in Requests, Asks(p)
      PROVE  p \in Procs /\ Goes(p)
  <2>1. ~AskCreate(p)
    BY DEF Micro, Enriched, AskCreate, May, Without
  <2>2. \A r \in Runs : ~AskApprove(p, r)
    BY DEF Quiet, AskApprove, Approvable
  <2>. QED
    BY <1>3, <2>1, <2>2 DEF Asks, Goes, Procs
<1>4. \A c \in Crons : ~ScheduleFires(c)
  BY DEF Micro, Enriched, ScheduleFires
<1>5. \A r \in Runs : ~Expire(r)
  BY DEF Quiet, Expire
<1>6. CASE \E j \in Jobs : JobStep(j)
  BY <1>1, <1>6 DEF Procs
<1>7. CASE \E p \in Procs : RequestStep(p) \/ CronStep(p)
  BY <1>2, <1>7
<1>8. CASE \E p \in Requests : Asks(p)
  BY <1>3, <1>8
<1>9. CASE \E c \in Crons, r \in Runs : StampRun(c, r)
  BY <1>9 DEF Goes, Procs
<1>. QED
  BY <1>4, <1>5, <1>6, <1>7, <1>8, <1>9 DEF Next, Happens, Procs

-----------------------------------------------------------------------------
(* What a step does to the processes of a micro-run.                        *)

Calling(x) == x.type = "evaluate" \/ x.op \in {"create", "announce", "exclude", "approve"}
Holding(x) == x.op \in {"lock", "append"}

\* Process p goes on as x, which holds what it held, or takes the lock, or is
\* about to.
Locked(p, x) ==
  /\ LockWorkflow(p) /\ x.type = "item" /\ x.op = "append" /\ x.load = proc[p].load
  /\ (x.run = 0 /\ OpenRuns = {}) \/ x.run \in OpenRuns
LocksNext(p, x) ==
  /\ Frame /\ x.op = "lock" /\ x.run = 0
  /\ \A i \in x.load : ~Collected(i)
Fits(p, x) ==
  /\ ~Calling(x)
  /\ Holding(x) => (p \in Jobs) /\ (x = proc[p] \/ Locked(p, x) \/ LocksNext(p, x))

LEMMA FitsOne ==
  ASSUME Base, Quiet, NEW p \in Procs, NEW x, Becomes(p, x), Fits(p, x)
  PROVE  \A q \in Procs : Fits(q, proc'[q])
<1>1. \A q \in Procs : Holding(proc[q]) => q \in Jobs
  BY ProcFacts DEF Holding, ProcOK, Typed, AloneOps, Asking
<1>. QED
  BY <1>1 DEF Becomes, Fits, Quiet, Calling

LEMMA FitsPlain ==
  ASSUME Base, Quiet, NEW p \in Procs, NEW x, Becomes(p, x), ~Calling(x), ~Holding(x)
  PROVE  \A q \in Procs : Fits(q, proc'[q])
BY FitsOne DEF Fits

LEMMA FitsIdle == ~Calling(Idle) /\ ~Holding(Idle)
BY IdleFacts DEF Calling, Holding

LEMMA FitsRemains ==
  ASSUME Quiet, NEW p \in Procs, NEW x, Remains(x, p)
  PROVE  ~Calling(x) /\ ~Holding(x)
BY FitsIdle DEF Quiet, Remains, Calling, Holding

LEMMA FitsExecutes ==
  ASSUME Base, Quiet, NEW j \in Jobs, Executes(j)
  PROVE  \A q \in Procs : Fits(q, proc'[q])
<1>0. j \in Procs
  BY DEF Procs
<1>1. CASE BeginBatch(j) \/ ClaimItem(j) \/ CloseItem(j)
  <2>1. PICK x : /\ Becomes(j, x)
                 /\ x = Idle \/ (x.type = "batch" /\ x.op \in {"claim", "act", "tally"})
    BY <1>1, BeginBatchDoes, ClaimItemDoes, CloseItemDoes DEF Moves, Walks, Same
  <2>. QED
    BY <1>0, <2>1, FitsPlain, FitsIdle DEF Calling, Holding
<1>2. CASE Tally(j) \/ FinishBatch(j) \/ SettleRun(j)
  <2>1. PICK x : /\ Becomes(j, x)
                 /\ x = Idle \/ (x.type = "batch" /\ x.op \in {"claim", "settle"})
    BY <1>2, TallyDoes, FinishBatchDoes, SettleRunDoes DEF Moves, Walks, Same
  <2>. QED
    BY <1>0, <2>1, FitsPlain, FitsIdle DEF Calling, Holding
<1>3. CASE Act(j)
  <2>1. PICK x, i : Becomes(j, x) /\ Same(x, j) /\ x.op = "close" /\ i \in Items
    BY <1>3, ActDoes
  <2>2. x.type = "batch"
    BY <1>3, <2>1, ActDoes DEF Same
  <2>. QED
    BY <1>0, <2>1, <2>2, FitsPlain DEF Calling, Holding
<1>4. CASE BeginItem(j)
  <2>1. CASE Walks(j, Idle)
    BY <1>0, <2>1, FitsPlain, FitsIdle DEF Walks
  <2>2. CASE ~Walks(j, Idle)
    <3>1. PICK x : Becomes(j, x) /\ Moves(j, x, "pending", "lock")
      BY <1>4, <2>2, BeginItemDoes DEF Moves, Walks
    <3>2. /\ Frame /\ proc[j].type = "item" /\ \A i \in proc[j].load : ~Collected(i)
      BY <1>4, <2>2, BeginItemDoes
    <3>3. x.type = "item" /\ x.op = "lock" /\ x.load = proc[j].load
      BY <3>1, <3>2 DEF Moves, Same
    <3>4. x.run = 0
      BY <3>1, <3>3 DEF Moves, Walks, ProcOK
    <3>5. Fits(j, x)
      BY <3>2, <3>3, <3>4 DEF Fits, LocksNext, Calling
    <3>. QED
      BY <1>0, <3>1, <3>5, FitsOne
  <2>. QED
    BY <2>1, <2>2
<1>5. CASE LockWorkflow(j)
  <2>1. PICK x : /\ Becomes(j, x) /\ x.type = "item" /\ x.op = "append" /\ x.load = proc[j].load
                 /\ (x.run = 0 /\ OpenRuns = {}) \/ x.run \in OpenRuns
    BY <1>5, LockWorkflowDoes
  <2>2. Fits(j, x)
    BY <1>5, <2>1 DEF Fits, Locked, Calling
  <2>. QED
    BY <1>0, <2>1, <2>2, FitsOne
<1>6. CASE Append(j)
  BY <1>0, <1>6, AppendDoes, FitsPlain, FitsIdle
<1>. QED
  BY <1>1, <1>2, <1>3, <1>4, <1>5, <1>6 DEF Executes

LEMMA FitsGoes ==
  ASSUME Base, Quiet, NEW p \in Procs, Goes(p)
  PROVE  \A q \in Procs : Fits(q, proc'[q])
<1>1. CASE ReadMatched(p)
  <2>1. PICK x : Becomes(p, x) /\ x.type = proc[p].type /\ x.op = "post"
    BY <1>1, ReadMatchedDoes DEF Moves, Walks, Same
  <2>. QED
    BY <2>1, FitsPlain DEF Quiet, Calling, Holding
<1>2. CASE PostBatch(p)
  <2>1. PICK x, y, k : /\ Spawns(p, x, k, y) /\ Same(x, p) /\ x.op = "post"
                       /\ y.type = "batch" /\ y.op = "pending"
    BY <1>2, PostBatchDoes
  <2>2. \A q \in Procs : Holding(proc[q]) => q \in Jobs
    BY ProcFacts DEF Holding, ProcOK, Typed, AloneOps, Asking
  <2>. QED
    BY <2>1, <2>2 DEF Spawns, Same, Fits, Quiet, Calling, Holding
<1>3. CASE Posted(p) \/ Cancel(p)
  BY <1>3, PostedDoes, CancelDoes, FitsPlain, FitsIdle DEF Walks
<1>4. CASE DispatchRun(p)
  <2>1. PICK x : Becomes(p, x) /\ (x = Idle \/ (x.type = "none" /\ x.op = "read"))
    BY <1>4, DispatchRunDoes DEF Moves, Walks, Same
  <2>. QED
    BY <2>1, FitsPlain, FitsIdle DEF Calling, Holding
<1>5. ASSUME NEW r \in Runs, p \in Requests, AskCancel(p, r)
      PROVE  \A q \in Procs : Fits(q, proc'[q])
  <2>1. Ask(p, r, "cancel") /\ r <= last
    BY <1>5, RowFacts DEF AskCancel, Cancellable, Active, Exists
  <2>2. PICK x : Becomes(p, x) /\ x.type = "none" /\ x.op = "cancel"
    BY <1>5, <2>1, AskDoes DEF Walks
  <2>. QED
    BY <2>2, FitsPlain DEF Calling, Holding
<1>6. ASSUME NEW r \in Runs, p \in Crons, StampRun(p, r)
      PROVE  \A q \in Procs : Fits(q, proc'[q])
  <2>1. PICK x : Becomes(p, x) /\ x.type = "none" /\ x.op = "count"
    BY <1>6, StampRunDoes DEF Walks
  <2>. QED
    BY <2>1, FitsPlain DEF Calling, Holding
<1>. QED
  BY <1>1, <1>2, <1>3, <1>4, <1>5, <1>6 DEF Goes

LEMMA FitsHappens ==
  ASSUME Base, Quiet, Happens
  PROVE  \A q \in Procs : Fits(q, proc'[q])
<1>1. CASE proc' = proc
  <2>1. \A q \in Procs : Holding(proc[q]) => q \in Jobs
    BY ProcFacts DEF Holding, ProcOK, Typed, AloneOps, Asking
  <2>. QED
    BY <1>1, <2>1 DEF Fits, Quiet, Calling
<1>2. ASSUME NEW p \in Procs, Crash(p)
      PROVE  \A q \in Procs : Fits(q, proc'[q])
  <2>1. PICK x : Becomes(p, x) /\ Remains(x, p)
    BY <1>2, CrashDoes DEF Walks
  <2>. QED
    BY <2>1, FitsRemains, FitsPlain
<1>3. ASSUME NEW j \in Jobs, Throws(j) \/ Redeliver(j)
      PROVE  \A q \in Procs : Fits(q, proc'[q])
  <2>1. PICK k \in Procs : \E x : Becomes(k, x) /\ Remains(x, j)
    BY <1>3, ThrowsDoes, RedeliverDoes DEF Walks
  <2>2. j \in Procs
    BY DEF Procs
  <2>. QED
    BY <2>1, <2>2, FitsRemains, FitsPlain
<1>4. ASSUME NEW i \in Items, Signal(i)
      PROVE  \A q \in Procs : Fits(q, proc'[q])
  <2>1. PICK k \in Procs : \E x : Becomes(k, x) /\ x.type = "item" /\ x.op = "pending"
    BY <1>4, SignalDoes DEF Walks
  <2>. QED
    BY <2>1, FitsPlain DEF Calling, Holding
<1>. QED
  BY <1>1, <1>2, <1>3, <1>4 DEF Happens, WindowElapses, DeleteOld, Vanish

LEMMA FitsAll ==
  ASSUME Base, Micro, Quiet, Next
  PROVE  \A q \in Procs : Fits(q, proc'[q])
BY MicroSteps, FitsExecutes, FitsGoes, FitsHappens

LEMMA NoDecide ==
  ASSUME Base, Quiet
  PROVE  \A j \in Jobs : ~Decide(j)
BY DecideDoes DEF Quiet, Procs

LEMMA AtMostOne ==
  ASSUME NEW S, \A r, s \in S : r = s
  PROVE  Cardinality(S) <= 1
<1>1. CASE S = {}
  BY <1>1, FS_EmptySet
<1>2. CASE S # {}
  <2>1. PICK r : S = {r}
    BY <1>2
  <2>. QED
    BY <2>1, FS_Singleton
<1>. QED
  BY <1>1, <1>2

LEMMA PurgedNone ==
  ASSUME NEW k, Purge(k), NEW r \in Runs, NEW i \in Items, Base, item[r][i] = "none"
  PROVE  item'[r][i] = "none"
BY DEF Purge, Base, TypeOK

\* Only appending gives a run an item.
AddsTo(r, i) ==
  \E k \in Jobs : /\ Append(k) /\ proc[k].op = "append" /\ proc[k].load = {i}
                  /\ r = proc[k].run \/ (proc[k].run = 0 /\ r = last + 1)

LEMMA ItemsPut ==
  ASSUME Base, NEW r \in Runs, NEW i \in Items, NEW q, NEW k, NEW s,
         item' = [item EXCEPT ![q][k] = s], item'[r][i] # item[r][i]
  PROVE  q = r /\ k = i
BY DEF Base, TypeOK

LEMMA ItemsAdded ==
  ASSUME Base, Micro, Quiet, Next, NEW r \in Runs, NEW i \in Items,
         item[r][i] = "none", item'[r][i] # "none"
  PROVE  AddsTo(r, i)
<1>1. CASE \E j \in Jobs : Executes(j)
  <2>1. PICK j \in Jobs : Executes(j)
    BY <1>1
  <2>2. CASE CloseItem(j)
    <3>1. PICK k \in Items : /\ Claimable(proc[j].run, k)
                             /\ item' = [item EXCEPT ![proc[j].run][k] = proc[j].out]
      BY <2>2, CloseItemDoes
    <3>2. proc[j].run = r /\ k = i
      BY <3>1, ItemsPut
    <3>. QED
      BY <3>1, <3>2 DEF Claimable
  <2>3. CASE Act(j)
    <3>1. item' = item \/ \E k : Purge(k)
      BY <2>3, ActDoes
    <3>. QED
      BY <3>1, PurgedNone
  <2>4. CASE Append(j)
    <3>1. proc[j].op = "append"
      BY <2>4, AppendDoes
    <3>2. PICK k \in Items :
            /\ proc[j].load = {k}
            /\ \/ item' = [item EXCEPT ![proc[j].run][k] = "matched"]
               \/ proc[j].run = 0 /\ item' = [item EXCEPT ![last + 1][k] = "matched"]
      BY <2>4, AppendDoes
    <3>3. CASE item' = [item EXCEPT ![proc[j].run][k] = "matched"]
      <4>1. proc[j].run = r /\ k = i
        BY <3>3, ItemsPut
      <4>. QED
        BY <2>4, <3>1, <3>2, <4>1 DEF AddsTo
    <3>4. CASE proc[j].run = 0 /\ item' = [item EXCEPT ![last + 1][k] = "matched"]
      <4>1. last + 1 = r /\ k = i
        <5>1. item' = [item EXCEPT ![last + 1][k] = "matched"]
          BY <3>4
        <5>. QED
          BY <5>1, ItemsPut
      <4>. QED
        BY <2>4, <3>1, <3>2, <3>4, <4>1 DEF AddsTo
    <3>. QED
      BY <3>2, <3>3, <3>4
  <2>. QED
    BY <2>1, <2>2, <2>3, <2>4 DEF Executes, BeginBatch, ClaimItem, Tally, FinishBatch, SettleRun,
       BeginItem, LockWorkflow
<1>2. CASE \E p \in Procs : Goes(p)
  BY <1>2 DEF Goes, ReadMatched, PostBatch, Posted, Cancel, DispatchRun, AskCancel, Ask, StampRun
<1>3. CASE Happens
  <2>1. \/ item' = item \/ \E k \in Items : Purge(k)
        \/ \E q \in Runs : item' = [item EXCEPT ![q] = [k \in Items |-> "none"]]
    BY <1>3 DEF Happens, WindowElapses, DeleteOld, Crash, Throws, Redeliver, Signal, Vanish
  <2>2. ASSUME NEW q \in Runs, item' = [item EXCEPT ![q] = [k \in Items |-> "none"]]
        PROVE  FALSE
    BY <2>2 DEF Base, TypeOK
  <2>. QED
    BY <2>1, <2>2, PurgedNone
<1>. QED
  BY <1>1, <1>2, <1>3, MicroSteps

-----------------------------------------------------------------------------
(* One micro-run collects: there is one holder of the lock, and it opens a  *)
(* run only when none is open.                                              *)

Appending(j) == proc[j].op = "append"
OneOpen ==
  /\ Quiet /\ AllCleared
  /\ \A j, k \in Jobs : Appending(j) /\ Appending(k) => j = k
  /\ \A j \in Jobs : Appending(j) /\ proc[j].run = 0 => OpenRuns = {}
  /\ \A r, s \in OpenRuns : r = s

LEMMA OpenShrinks ==
  ASSUME Base, Micro, Quiet, Next, NEW r \in OpenRuns'
  PROVE  r \in OpenRuns \/ (r = last + 1 /\ Opens(r))
<1>1. setting' = setting
  BY SettingStays
<1>2. /\ r \in Runs /\ Enriched /\ run'[r].status = "running" /\ run'[r].started
      /\ ~run'[r].approved /\ ~run'[r].due
  BY <1>1 DEF OpenRuns, Micro
<1>3. RowStep(r)
  BY <1>2, RowSteps
<1>4. CASE Keeps(r)
  BY <1>2, <1>4 DEF Keeps, Puts, OpenRuns, Enriched
<1>5. ~Evaluated(r)
  <2>1. \A j \in Jobs : ~Decide(j)
    BY NoDecide
  <2>. QED
    BY <2>1 DEF Evaluated
<1>. QED
  BY <1>2, <1>3, <1>4, <1>5, NoRowFacts DEF RowStep, Creates, Changes, Puts, ApprovedBy, CancelledBy,
     SettledBy, EmptyAt, Stamped, FallsDue, FailedBy

LEMMA OpensAppends ==
  ASSUME Base, NEW r, Opens(r)
  PROVE  \E j \in Jobs : Append(j) /\ Appending(j) /\ proc[j].run = 0 /\ proc'[j] = Idle
BY AppendDoes DEF Opens, Becomes, Appending

LEMMA QuietKept ==
  ASSUME Base, Micro, Quiet, Next
  PROVE  Quiet'
<1>1. \A p \in Procs : ~Calling(proc'[p])
  BY FitsAll DEF Fits
<1>2. ASSUME NEW r \in Runs
      PROVE  run'[r].status \notin {"evaluating", "awaiting_approval"}
  <2>1. RowStep(r)
    BY RowSteps
  <2>2. ~Creates(r)
    BY DEF Creates, CreateRun, Quiet
  <2>3. ~Evaluated(r)
    BY NoDecide DEF Evaluated
  <2>. QED
    BY <2>1, <2>2, <2>3, NoRowFacts DEF Quiet, RowStep, Keeps, Opens, Changes, Puts, ApprovedBy,
       CancelledBy, SettledBy, EmptyAt, Stamped, FallsDue, FailedBy
<1>. QED
  BY <1>1, <1>2 DEF Quiet, Calling

LEMMA OneOpenKept ==
  ASSUME Base, Micro, OneOpen, Next
  PROVE  OneOpen'
<1>. USE DEF OneOpen
<1>1. Quiet'
  BY QuietKept
<1>2. AllCleared'
  BY NoDecide, ClearedStep
<1>3. \A p \in Procs : Fits(p, proc'[p])
  BY FitsAll
<1>4. Jobs \subseteq Procs
  BY DEF Procs
<1>5. ASSUME NEW j \in Jobs, LockWorkflow(j), NEW k \in Jobs, proc'[k].op = "append"
      PROVE  k = j
  <2>1. \E x : Becomes(j, x)
    BY <1>5, LockWorkflowDoes
  <2>2. proc[k].op # "append"
    BY <1>5 DEF LockWorkflow, Unlocked
  <2>. QED
    BY <1>4, <1>5, <2>1, <2>2 DEF Becomes
<1>6. \A j \in Jobs : proc'[j].op = "append" => proc'[j] = proc[j] \/ Locked(j, proc'[j])
  BY <1>3, <1>4 DEF Fits, Holding, LocksNext
<1>7. ASSUME NEW j \in Jobs, NEW k \in Jobs, Appending(j)', Appending(k)'
      PROVE  j = k
  BY <1>5, <1>6, <1>7 DEF Appending, Locked
<1>8. ASSUME NEW j \in Jobs, Appending(j)', (proc[j].run = 0)'
      PROVE  OpenRuns' = {}
  <2>1. CASE LockWorkflow(j) /\ OpenRuns = {}
    BY <2>1, LockWorkflowDoes DEF Frame, OpenRuns
  <2>2. CASE proc'[j] = proc[j]
    <3>1. OpenRuns = {} /\ Appending(j)
      BY <1>8, <2>2 DEF Appending
    <3>2. ASSUME NEW r \in OpenRuns'
          PROVE  FALSE
      <4>1. Opens(r)
        BY <3>1, <3>2, OpenShrinks
      <4>2. PICK k \in Jobs : Appending(k) /\ proc'[k] = Idle
        BY <4>1, OpensAppends
      <4>3. k = j
        BY <3>1, <4>2
      <4>. QED
        BY <1>8, <4>2, <4>3, IdleFacts DEF Appending
    <3>. QED
      BY <3>2
  <2>. QED
    BY <1>6, <1>8, <2>1, <2>2 DEF Appending, Locked, OpenRuns, Runs
<1>9. ASSUME NEW r \in OpenRuns', NEW s \in OpenRuns'
      PROVE  r = s
  <2>1. CASE \E q : Opens(q)
    <3>1. OpenRuns = {}
      BY <2>1, OpensAppends
    <3>. QED
      BY <1>9, <3>1, OpenShrinks
  <2>2. CASE ~\E q : Opens(q)
    BY <1>9, <2>2, OpenShrinks
  <2>. QED
    BY <2>1, <2>2
<1>. QED
  BY <1>1, <1>2, <1>7, <1>8, <1>9

LEMMA OneOpenInit ==
  ASSUME Init
  PROVE  OneOpen
<1>1. \A p \in Procs : proc[p].type = "none" /\ proc[p].op = "idle"
  BY IdleFacts DEF Init
<1>2. \A r \in Runs : run[r].status = "none"
  BY NoRowFacts DEF Init
<1>. QED
  BY <1>1, <1>2, ClearedInit DEF OneOpen, Quiet, Appending, OpenRuns, Procs

\* At most one micro-run collects at a time: whoever opens one holds the row of
\* the workflow (SELECT ... FOR UPDATE in appendToMicroRun), saw that none was
\* open when it took the lock, and nothing else makes a run collect again.
THEOREM OneMicroRunCollects == Spec => []OneCollecting
<1> DEFINE Inv == Base /\ (Micro => OneOpen)
<1>1. Init => Inv
  BY BaseInit, OneOpenInit
<1>2. Inv /\ [Next]_vars => Inv'
  <2> SUFFICES ASSUME Inv, [Next]_vars
               PROVE  Inv'
    OBVIOUS
  <2>1. Base'
    BY BaseStep
  <2>2. ASSUME Micro'
        PROVE  OneOpen'
    <3>1. CASE Next
      <4>1. setting' = setting
        BY <3>1, SettingStays
      <4>2. Micro
        BY <2>2, <4>1 DEF Micro, Enriched, Without
      <4>. QED
        BY <3>1, <4>2, OneOpenKept
    <3>2. CASE UNCHANGED vars
      BY <2>2, <3>2 DEF vars, Micro, Enriched, Without, OneOpen, Quiet, AllCleared, Works, Cleared,
         Exists, Appending, OpenRuns
    <3>. QED
      BY <3>1, <3>2
  <2>. QED
    BY <2>1, <2>2
<1>3. Inv => OneCollecting
  <2> SUFFICES ASSUME Inv, Without({"runNow"})
               PROVE  Cardinality(OpenRuns) <= 1
    BY DEF OneCollecting
  <2>1. \A r, s \in OpenRuns : r = s
    BY DEF Micro, Enriched, OneOpen, OpenRuns
  <2>. QED
    BY <2>1, AtMostOne
<1>. QED
  BY <1>1, <1>2, <1>3, PTL DEF Spec

-----------------------------------------------------------------------------
(* One micro-run has the item: the run an item is added to is still open    *)
(* when the item is added, and it is the only one that was open since the   *)
(* evaluate-once guard was read.                                            *)

Still == Micro /\ Without({"window"})

\* The run collects, or was cancelled.
Receives(r) == r \in OpenRuns \/ run[r].status = "cancelled"
Has(r, i) == run[r].status # "cancelled" /\ item[r][i] # "none"

OneHas ==
  /\ OneOpen
  /\ \A j \in Jobs, i \in Items, r \in Runs :
       Holding(proc[j]) /\ i \in proc[j].load /\ item[r][i] # "none" => Receives(r)
  /\ \A j \in Jobs : Appending(j) /\ proc[j].run # 0 => Receives(proc[j].run)
  /\ \A i \in Items, r, s \in Runs : Has(r, i) /\ Has(s, i) => r = s

LEMMA CancelledLasts ==
  ASSUME Base, Micro, Quiet, Next, NEW r \in Runs, run[r].status = "cancelled", ~DeleteOld(r)
  PROVE  run'[r].status = "cancelled"
<1>1. RowStep(r) /\ r # last + 1
  BY RowSteps, RowFacts DEF Exists
<1>2. ~Evaluated(r) /\ ~FailedBy(r) /\ ~ApprovedBy(r)
  BY NoDecide DEF Evaluated, FailedBy, ApprovedBy, Approve, Quiet, Procs
<1>. QED
  BY <1>1, <1>2 DEF RowStep, Keeps, Puts, Changes, CancelledBy, SettledBy, EmptyAt, Stamped,
     FallsDue, WindowElapses, OpenRuns

\* While an item is being added nothing closes the run but a cancellation.
LEMMA ReceivesOn ==
  ASSUME Base, Still, OneOpen, Next, NEW j \in Jobs, Holding(proc[j]), NEW r \in Runs, Receives(r)
  PROVE  Receives(r)' \/ DeleteOld(r)
<1>1. setting' = setting /\ RowStep(r) /\ Quiet
  BY SettingStays, RowSteps DEF OneOpen
<1>2. ~Evaluated(r) /\ ~FailedBy(r) /\ ~ApprovedBy(r)
  BY <1>1, NoDecide DEF Evaluated, FailedBy, ApprovedBy, Approve, Quiet, Procs
<1>3. ~FallsDue(r)
  BY DEF FallsDue, WindowElapses, Still, Without, May, Holding
<1>4. Exists(r) /\ r # last + 1
  <2>1. Exists(r)
    BY DEF Receives, OpenRuns, Exists
  <2>. QED
    BY <2>1, RowFacts
<1>5. CASE run[r].status = "cancelled"
  BY <1>1, <1>5, CancelledLasts DEF Receives, Still
<1>6. CASE r \in OpenRuns
  <2>1. ~Cleared(r)
    BY <1>6 DEF OpenRuns, Cleared, Exists
  <2>2. ~SettledBy(r)
    <3>1. ASSUME NEW k \in Jobs, SettleRun(k), proc[k].run = r
          PROVE  FALSE
      <4>1. Works(proc[k]) /\ k \in Procs
        BY <3>1, SettleRunDoes DEF Works, Procs
      <4>. QED
        BY <2>1, <3>1, <4>1 DEF OneOpen, AllCleared
    <3>. QED
      BY <3>1 DEF SettledBy
  <2>3. ~EmptyAt(r)
    <3>1. \A p \in Procs : DispatchRun(p) => Works(proc[p])
      BY DEF DispatchRun, Works
    <3>. QED
      BY <2>1, <3>1 DEF EmptyAt, OneOpen, AllCleared
  <2>4. ~Stamped(r)
    BY <1>6 DEF Stamped, OpenRuns
  <2>5. Keeps(r) \/ run'[r].status = "cancelled" \/ DeleteOld(r)
    BY <1>1, <1>2, <1>3, <1>4, <1>6, <2>2, <2>3, <2>4
    DEF RowStep, Changes, CancelledBy, Puts, OpenRuns
  <2>. QED
    BY <1>1, <1>6, <2>5 DEF Receives, Keeps, Puts, OpenRuns
<1>. QED
  BY <1>5, <1>6 DEF Receives

LEMMA NoneDeleted ==
  ASSUME Base, NEW r \in Runs, DeleteOld(r)
  PROVE  /\ \A i \in Items : item'[r][i] = "none"
         /\ \A p \in Procs : proc[p].run # r
BY DEF Base, TypeOK, DeleteOld

LEMMA AppendHolds ==
  ASSUME NEW j, Appending(j) \/ Append(j)
  PROVE  Holding(proc[j])
BY DEF Appending, Append, Holding

\* The run an item is added to.
LEMMA AddedReceives ==
  ASSUME Base, Still, OneHas, Next, NEW r \in Runs, NEW i \in Items, AddsTo(r, i),
         item'[r][i] # "none"
  PROVE  Receives(r)'
<1>1. PICK k \in Jobs : /\ Append(k) /\ Appending(k) /\ proc[k].load = {i}
                        /\ r = proc[k].run \/ (proc[k].run = 0 /\ r = last + 1)
  BY DEF AddsTo, Appending
<1>2. CASE r = proc[k].run
  <2>1. Receives(r)
    BY <1>1, <1>2 DEF OneHas, Runs
  <2>2. ~DeleteOld(r)
    BY <1>1, <1>2, NoneDeleted DEF Procs
  <2>. QED
    BY <1>1, <2>1, <2>2, ReceivesOn, AppendHolds DEF OneHas
<1>3. CASE proc[k].run = 0 /\ r = last + 1
  <2>1. item[r][i] = "none" /\ run[r].status = "none"
    BY <1>3, RowFacts DEF RunOK, Exists
  <2>2. run' = [run EXCEPT ![r] =
                  [NoRow EXCEPT !.status = "running", !.started = TRUE, !.matched = 1]]
    <3>1. \/ UNCHANGED <<run, item, last>>
          \/ proc[k].run \in Runs
          \/ run' = [run EXCEPT ![last + 1] =
                       [NoRow EXCEPT !.status = "running", !.started = TRUE, !.matched = 1]]
      BY <1>1, AppendDoes
    <3>2. 0 \notin Runs
      BY DEF Runs
    <3>. QED
      BY <1>3, <2>1, <3>1, <3>2
  <2>3. RowSet(r, "running", TRUE, FALSE, FALSE)
    BY <2>2, OpenRow
  <2>. QED
    BY <2>3, SettingStays DEF RowSet, Receives, OpenRuns, Still, Micro, Enriched
<1>. QED
  BY <1>1, <1>2, <1>3

LEMMA HoldingReceives ==
  ASSUME Base, Still, OneHas, Next, NEW j \in Jobs, NEW i \in Items, NEW r \in Runs,
         Holding(proc'[j]), i \in proc'[j].load, item'[r][i] # "none"
  PROVE  Receives(r)'
<1>. USE DEF OneHas
<1>0. j \in Procs /\ Quiet /\ Micro
  BY DEF Procs, Still, OneOpen
<1>1. proc'[j] = proc[j] \/ Locked(j, proc'[j]) \/ LocksNext(j, proc'[j])
  BY <1>0, FitsAll DEF Fits
<1>2. CASE LocksNext(j, proc'[j])
  BY <1>2 DEF LocksNext, Collected, Frame
<1>3. CASE Locked(j, proc'[j])
  <2>1. Frame /\ proc[j].op = "lock" /\ proc'[j].load = proc[j].load
    BY <1>3, LockWorkflowDoes DEF Locked
  <2>2. Receives(r)
    BY <2>1 DEF Frame, Holding
  <2>. QED
    BY <2>1, <2>2 DEF Frame, Receives, OpenRuns
<1>4. CASE proc'[j] = proc[j]
  <2>1. CASE item[r][i] # "none"
    <3>1. Receives(r)
      BY <1>4, <2>1
    <3>2. ~DeleteOld(r)
      BY NoneDeleted
    <3>. QED
      BY <1>4, <3>1, <3>2, ReceivesOn
  <2>2. CASE item[r][i] = "none"
    <3>1. AddsTo(r, i)
      BY <1>0, <2>2, ItemsAdded
    <3>. QED
      BY <3>1, AddedReceives
  <2>. QED
    BY <2>1, <2>2
<1>. QED
  BY <1>1, <1>2, <1>3, <1>4

LEMMA AppendReceives ==
  ASSUME Base, Still, OneHas, Next, NEW j \in Jobs, proc'[j].op = "append",
         NEW r \in Runs, proc'[j].run = r
  PROVE  Receives(r)'
<1>. USE DEF OneHas
<1>0. j \in Procs /\ Quiet /\ Micro
  BY DEF Procs, Still, OneOpen
<1>1. proc'[j] = proc[j] \/ Locked(j, proc'[j])
  BY <1>0, FitsAll DEF Fits, Holding, LocksNext
<1>2. CASE Locked(j, proc'[j])
  <2>1. Frame /\ (r \in OpenRuns \/ r = 0)
    BY <1>2, LockWorkflowDoes DEF Locked
  <2>2. r # 0
    BY DEF Runs
  <2>. QED
    BY <2>1, <2>2 DEF Frame, Receives, OpenRuns
<1>3. CASE proc'[j] = proc[j]
  <2>1. Appending(j) /\ r = proc[j].run /\ r # 0
    BY <1>3 DEF Appending, Runs
  <2>2. ~DeleteOld(r)
    BY <1>0, <2>1, NoneDeleted
  <2>. QED
    BY <2>1, <2>2, ReceivesOn, AppendHolds
<1>. QED
  BY <1>1, <1>2, <1>3

\* A run that has the item had it, or is given it by whoever holds the lock.
LEMMA HasBefore ==
  ASSUME Base, Still, OneHas, Next, NEW r \in Runs, NEW i \in Items, Has(r, i)'
  PROVE  Has(r, i) \/ AddsTo(r, i)
<1>0. Quiet /\ Micro
  BY DEF OneHas, OneOpen, Still
<1>1. CASE item[r][i] = "none"
  BY <1>0, <1>1, ItemsAdded DEF Has
<1>2. CASE item[r][i] # "none" /\ run[r].status = "cancelled"
  <2>1. ~DeleteOld(r)
    BY NoneDeleted DEF Has
  <2>2. run'[r].status = "cancelled"
    BY <1>0, <1>2, <2>1, CancelledLasts
  <2>. QED
    BY <2>2 DEF Has
<1>. QED
  BY <1>1, <1>2 DEF Has

LEMMA OneHasKept ==
  ASSUME Base, Still, OneHas, Next
  PROVE  OneHas'
<1>1. OneOpen'
  BY OneOpenKept DEF OneHas, Still
<1>2. ASSUME NEW j \in Jobs, NEW i \in Items, NEW r \in Runs,
             Holding(proc[j])', (i \in proc[j].load)', (item[r][i] # "none")'
      PROVE  Receives(r)'
  BY <1>2, HoldingReceives DEF Holding
<1>3. ASSUME NEW j \in Jobs, Appending(j)', (proc[j].run # 0)'
      PROVE  Receives(proc[j].run)'
  <2>1. PICK r : r = proc'[j].run
    OBVIOUS
  <2>2. r \in Runs
    BY <1>3, <2>1, BaseStep DEF Base, TypeOK, Proc, Procs
  <2>3. Receives(r)'
    BY <1>3, <2>1, <2>2, AppendReceives DEF Appending
  <2>. QED
    BY <2>1, <2>3 DEF Receives, OpenRuns
<1>4. ASSUME NEW i \in Items, NEW r \in Runs, NEW s \in Runs, Has(r, i)', Has(s, i)'
      PROVE  r = s
  <2>0. Quiet /\ Micro
    BY DEF OneHas, OneOpen, Still
  <2>1. ASSUME NEW q \in Runs, NEW t \in Runs, AddsTo(q, i), Has(q, i)', Has(t, i)
        PROVE  q = t
    <3>1. PICK k \in Jobs : /\ Append(k) /\ Appending(k) /\ proc[k].load = {i}
                            /\ q = proc[k].run \/ (proc[k].run = 0 /\ q = last + 1)
      BY <2>1 DEF AddsTo, Appending
    <3>2. t \in OpenRuns
      BY <2>1, <3>1, AppendHolds DEF OneHas, Has, Receives
    <3>3. q = proc[k].run
      BY <3>1, <3>2 DEF OneHas, OneOpen
    <3>4. q \in OpenRuns \/ run[q].status = "cancelled"
      BY <3>1, <3>3 DEF OneHas, Receives, Runs
    <3>5. ~DeleteOld(q)
      BY <3>1, <3>3, NoneDeleted DEF Procs
    <3>6. run[q].status # "cancelled"
      BY <2>0, <2>1, <3>5, CancelledLasts DEF Has
    <3>. QED
      BY <3>2, <3>4, <3>6 DEF OneHas, OneOpen
  <2>2. CASE AddsTo(r, i) /\ AddsTo(s, i)
    BY <2>2 DEF AddsTo, OneHas, OneOpen, Appending, Runs
  <2>3. CASE Has(r, i) /\ Has(s, i)
    BY <2>3 DEF OneHas
  <2>. QED
    BY <1>4, <2>1, <2>2, <2>3, HasBefore
<1>. QED
  BY <1>1, <1>2, <1>3, <1>4 DEF OneHas

LEMMA OneHasInit ==
  ASSUME Init
  PROVE  OneHas
<1>1. \A j \in Jobs : proc[j].op = "idle"
  BY IdleFacts DEF Init, Procs
<1>. QED
  BY <1>1, OneOpenInit DEF OneHas, Init, Holding, Appending, Has

\* Collected once: an item that is enriched is collected by one micro-run only,
\* cancelled ones apart.  The evaluate-once guard of the workflow_evaluate_item
\* handler is read before the lock is taken; while items are added faster than
\* the collection window closes, the unique (run, item) key does the rest.
THEOREM EnrichedOnce == Spec => []CollectedOnce
<1> DEFINE Inv == Base /\ (Still => OneHas)
<1>1. Init => Inv
  BY BaseInit, OneHasInit
<1>2. Inv /\ [Next]_vars => Inv'
  <2> SUFFICES ASSUME Inv, [Next]_vars
               PROVE  Inv'
    OBVIOUS
  <2>1. Base'
    BY BaseStep
  <2>2. ASSUME Still'
        PROVE  OneHas'
    <3>1. CASE Next
      <4>1. setting' = setting
        BY <3>1, SettingStays
      <4>2. Still
        BY <2>2, <4>1 DEF Still, Micro, Enriched, Without
      <4>. QED
        BY <3>1, <4>2, OneHasKept
    <3>2. CASE UNCHANGED vars
      BY <2>2, <3>2 DEF vars, Still, Micro, Enriched, Without, OneHas, OneOpen, Quiet, AllCleared,
         Works, Cleared, Exists, Appending, OpenRuns, Holding, Receives, Has
    <3>. QED
      BY <3>1, <3>2
  <2>. QED
    BY <2>1, <2>2
<1>3. Inv => CollectedOnce
  <2> SUFFICES ASSUME Inv, Enriched, Without({"window", "runNow"}), NEW i \in Items
               PROVE  Cardinality({r \in Runs : run[r].status # "cancelled" /\ item[r][i] # "none"})
                        <= 1
    BY DEF CollectedOnce, Enriched
  <2> DEFINE S == {r \in Runs : run[r].status # "cancelled" /\ item[r][i] # "none"}
  <2>1. \A r, s \in S : r = s
    BY DEF Still, Micro, Without, OneHas, Has
  <2> HIDE DEF S
  <2>2. Cardinality(S) <= 1
    BY <2>1, AtMostOne
  <2>. QED
    BY <2>2 DEF S
<1>. QED
  BY <1>1, <1>2, <1>3, PTL DEF Spec
=============================================================================
