-------------------------- MODULE WorkflowRunsOrder --------------------------
(***************************************************************************)
(* Who is at work on a run: proofs of what is never done twice, undone,    *)
(* misreported or left out of the counters.                                *)
(***************************************************************************)
EXTENDS WorkflowRunsSafety

-----------------------------------------------------------------------------
(* What a step does to one process: p goes on as x.                         *)

Begins(p, x) ==
  /\ proc[p] = Idle
  /\ \/ x.type = "none" /\ x.op = "create" /\ x.run = 0
     \/ x.type = "item" /\ x.op = "pending" /\ x.run = 0 /\ \E i \in Items : Signal(i)
     \/ /\ p \in Requests /\ x.type = "none" /\ x.run \in Runs
        /\ (AskApprove(p, x.run) /\ x.op = "exclude") \/ (AskCancel(p, x.run) /\ x.op = "cancel")
     \/ p \in Crons /\ x.type = "none" /\ x.op = "count" /\ x.run \in Runs /\ StampRun(p, x.run)
     \/ \E q \in Procs : /\ AnnounceRun(q) /\ proc[q].op = "announce" /\ proc'[q] = Idle
                         /\ x.type = "evaluate" /\ x.op = "pending" /\ x.run = proc[q].run
     \/ \E q \in Procs : /\ PostBatch(q) /\ proc[q].op = "post" /\ q # p
                         /\ x.type = "batch" /\ x.op = "pending" /\ x.run = proc[q].run
                         /\ x.load \subseteq proc[q].todo /\ x.todo = {}
                         /\ proc'[q].todo = proc[q].todo \ x.load
     \/ \E j \in Jobs : Redeliver(j) /\ Remains(x, j)

Requeues(p, x) ==
  /\ Crash(p) \/ Throws(p)
  /\ Remains(x, p) /\ x # Idle

Evaluates(p, x) ==
  /\ Same(x, p) /\ proc[p].type = "evaluate"
  /\ \/ /\ proc[p].op = "pending" /\ x.op = "page" /\ run[proc[p].run].status = "evaluating"
        /\ run'[proc[p].run].status = run[proc[p].run].status
     \/ /\ proc[p].op = "page" /\ x.op \in {"page", "decide"}
        /\ run'[proc[p].run].status = run[proc[p].run].status
     \/ proc[p].op = "decide" /\ x.op = "read" /\ p \in Jobs /\ Decide(p) /\ Bypasses

Approves(p, x) ==
  /\ Same(x, p) /\ proc[p].type = "none"
  /\ \/ proc[p].op = "exclude" /\ x.op = "approve" /\ Exclude(p)
     \/ proc[p].op = "approve" /\ x.op = "read" /\ Approve(p)
     \/ proc[p].op = "count" /\ x.op = "read" /\ Frame

Dispatches(p, x) ==
  /\ Same(x, p) /\ x.op = "post" /\ Frame
  /\ \/ proc[p].op = "read" /\ x.todo = Matched(proc[p].run)
     \/ proc[p].op = "post" /\ x.todo \subseteq proc[p].todo

Batches(p, x) ==
  LET i == Least(proc[p].todo) IN
  /\ Same(x, p) /\ proc[p].type = "batch" /\ p \in Jobs
  /\ \/ proc[p].op = "pending" /\ x.op = "claim" /\ x.todo = proc[p].load
     \/ /\ proc[p].op = "claim" /\ x.op = "act" /\ x.todo = proc[p].todo
        /\ Claimable(proc[p].run, i) /\ Frame
     \/ proc[p].op \in {"claim", "tally"} /\ x.op = "claim" /\ x.todo = proc[p].todo \ {i}
     \/ proc[p].op = "act" /\ x.op = "close" /\ x.todo = proc[p].todo /\ Act(p)
     \/ proc[p].op = "close" /\ x.op = "tally" /\ x.todo = proc[p].todo
     \/ proc[p].op = "claim" /\ x.op = "settle" /\ Drained(proc[p].run) /\ Frame

Collects(p, x) ==
  /\ proc[p].type = "item" /\ x.type = "item"
  /\ \/ proc[p].op = "pending" /\ x.op = "lock" /\ x.run = 0
     \/ proc[p].op = "lock" /\ x.op = "append" /\ (x.run = 0 \/ x.run \in OpenRuns)

Announces(p, x) ==
  CreateRun(p) /\ x.type = "none" /\ x.op = "announce" /\ x.run = last + 1

ProcStep(p, x) ==
  \/ x = proc[p] \/ x = Idle
  \/ Begins(p, x) \/ Requeues(p, x) \/ Evaluates(p, x) \/ Approves(p, x) \/ Dispatches(p, x)
  \/ Batches(p, x) \/ Collects(p, x) \/ Announces(p, x)

LEMMA StepsOne ==
  ASSUME NEW p \in Procs, NEW x, Becomes(p, x), ProcStep(p, x)
  PROVE  \A q \in Procs : ProcStep(q, proc'[q])
BY DEF Becomes, ProcStep

LEMMA StepsIdle ==
  ASSUME NEW p \in Procs, Becomes(p, Idle)
  PROVE  \A q \in Procs : ProcStep(q, proc'[q])
BY StepsOne DEF ProcStep

LEMMA StepsEvaluate ==
  ASSUME Base, NEW j \in Jobs,
         BeginEvaluate(j) \/ EvaluatePage(j) \/ RecordMatched(j) \/ Decide(j)
  PROVE  \A q \in Procs : ProcStep(q, proc'[q])
<1>0. j \in Procs
  BY DEF Procs
<1>1. CASE BeginEvaluate(j)
  <2>1. CASE Walks(j, Idle)
    BY <1>0, <2>1, StepsIdle DEF Walks
  <2>2. CASE ~Walks(j, Idle)
    <3>1. PICK x : Moves(j, x, "pending", "page") /\ run[proc[j].run].status = "evaluating"
      BY <1>1, <2>2, BeginEvaluateDoes
    <3>2. proc[j].type = "evaluate" /\ run' = run
      BY <1>1 DEF BeginEvaluate, Claim
    <3>3. ProcStep(j, x) /\ Becomes(j, x)
      BY <3>1, <3>2 DEF ProcStep, Evaluates, Moves, Walks
    <3>. QED
      BY <1>0, <3>3, StepsOne
  <2>. QED
    BY <2>1, <2>2
<1>2. CASE EvaluatePage(j)
  <2>1. PICK x : Moves(j, x, "page", "page")
    BY <1>2, EvaluatePageDoes
  <2>2. proc[j].type = "evaluate" /\ run' = run
    BY <1>2, EvaluatePageDoes
  <2>3. ProcStep(j, x) /\ Becomes(j, x)
    BY <2>1, <2>2 DEF ProcStep, Evaluates, Moves, Walks
  <2>. QED
    BY <1>0, <2>3, StepsOne
<1>3. CASE RecordMatched(j)
  <2>1. PICK x : Moves(j, x, "page", "decide")
    BY <1>3, RecordMatchedDoes
  <2>2. proc[j].type = "evaluate" /\ run'[proc[j].run].status = run[proc[j].run].status
    <3>1. proc[j].type = "evaluate" /\ run' = [run EXCEPT ![proc[j].run].matched = proc[j].n]
      BY <1>3, RecordMatchedDoes
    <3>2. proc[j].run \in Runs /\ proc[j].n \in Nat
      BY <1>0, <3>1, ProcFacts DEF ProcOK, Typed, EvaluateOps
    <3>. QED
      BY <3>1, <3>2, MatchedRow DEF RowSet
  <2>3. ProcStep(j, x) /\ Becomes(j, x)
    BY <2>1, <2>2 DEF ProcStep, Evaluates, Moves, Walks
  <2>. QED
    BY <1>0, <2>3, StepsOne
<1>4. CASE Decide(j)
  <2>1. CASE Walks(j, Idle)
    BY <1>0, <2>1, StepsIdle DEF Walks
  <2>2. CASE ~Walks(j, Idle)
    <3>1. PICK x : Moves(j, x, "decide", "read")
      BY <1>4, <2>2, DecideDoes
    <3>2. proc[j].type = "evaluate" /\ Bypasses
      BY <1>4, <2>2, DecideDoes
    <3>3. ProcStep(j, x) /\ Becomes(j, x)
      BY <1>4, <3>1, <3>2 DEF ProcStep, Evaluates, Moves, Walks
    <3>. QED
      BY <1>0, <3>3, StepsOne
  <2>. QED
    BY <2>1, <2>2
<1>. QED
  BY <1>1, <1>2, <1>3, <1>4

LEMMA StepsRead ==
  ASSUME Base, NEW p \in Procs, ReadMatched(p) \/ PostBatch(p) \/ Posted(p)
  PROVE  \A q \in Procs : ProcStep(q, proc'[q])
<1>1. CASE ReadMatched(p)
  <2>1. PICK x : Moves(p, x, "read", "post") /\ x.todo = Matched(proc[p].run)
    BY <1>1, ReadMatchedDoes
  <2>2. Frame
    BY <1>1, ReadMatchedDoes
  <2>3. ProcStep(p, x) /\ Becomes(p, x)
    BY <2>1, <2>2 DEF ProcStep, Dispatches, Moves, Walks
  <2>. QED
    BY <2>3, StepsOne
<1>2. CASE PostBatch(p)
  <2>1. PICK x, y, k :
          /\ Spawns(p, x, k, y) /\ Same(x, p) /\ x.op = "post"
          /\ y.type = "batch" /\ y.op = "pending" /\ y.run = proc[p].run /\ y.todo = {}
          /\ y.load \subseteq proc[p].todo /\ x.todo = proc[p].todo \ y.load
    BY <1>2, PostBatchDoes
  <2>2. Frame /\ proc[p].op = "post"
    BY <1>2, PostBatchDoes
  <2>3. ProcStep(p, x) /\ proc'[p] = x
    BY <2>1, <2>2 DEF ProcStep, Dispatches, Spawns
  <2>4. ProcStep(k, y) /\ proc'[k] = y
    BY <1>2, <2>1, <2>2, <2>3 DEF ProcStep, Begins, Spawns
  <2>. QED
    BY <2>1, <2>3, <2>4 DEF Spawns, ProcStep
<1>3. CASE Posted(p)
  BY <1>3, PostedDoes, StepsIdle DEF Walks
<1>. QED
  BY <1>1, <1>2, <1>3

LEMMA StepsBatch ==
  ASSUME Base, NEW j \in Jobs,
         \/ BeginBatch(j) \/ ClaimItem(j) \/ Act(j) \/ CloseItem(j) \/ Tally(j)
         \/ FinishBatch(j) \/ SettleRun(j)
  PROVE  \A q \in Procs : ProcStep(q, proc'[q])
<1>0. j \in Procs
  BY DEF Procs
<1>1. CASE Walks(j, Idle)
  BY <1>0, <1>1, StepsIdle DEF Walks
<1>2. CASE BeginBatch(j) /\ ~Walks(j, Idle)
  <2>1. PICK x : Moves(j, x, "pending", "claim") /\ x.todo = proc[j].load
    BY <1>2, BeginBatchDoes
  <2>2. proc[j].type = "batch"
    BY <1>2, BeginBatchDoes
  <2>3. ProcStep(j, x) /\ Becomes(j, x)
    BY <2>1, <2>2 DEF ProcStep, Batches, Moves, Walks
  <2>. QED
    BY <1>0, <2>3, StepsOne
<1>3. CASE ClaimItem(j) /\ ~Walks(j, Idle)
  <2>1. PICK i : i = Least(proc[j].todo)
    OBVIOUS
  <2>2. PICK x : /\ Becomes(j, x) /\ Same(x, j)
                 /\ \/ x.op = "act" /\ x.todo = proc[j].todo /\ Claimable(proc[j].run, i)
                    \/ x.op = "claim" /\ x.todo = proc[j].todo \ {i}
    BY <1>3, <2>1, ClaimItemDoes DEF Moves, Walks
  <2>3. proc[j].type = "batch" /\ proc[j].op = "claim" /\ Frame
    BY <1>3, ClaimItemDoes
  <2>4. ProcStep(j, x)
    BY <2>1, <2>2, <2>3 DEF ProcStep, Batches
  <2>. QED
    BY <1>0, <2>2, <2>4, StepsOne
<1>4. CASE Act(j)
  <2>1. PICK x, i : /\ Becomes(j, x) /\ Same(x, j) /\ x.op = "close" /\ x.todo = proc[j].todo
                    /\ i \in Items
    BY <1>4, ActDoes
  <2>2. proc[j].type = "batch" /\ proc[j].op = "act"
    BY <1>4, ActDoes
  <2>3. ProcStep(j, x)
    BY <1>4, <2>1, <2>2 DEF ProcStep, Batches
  <2>. QED
    BY <1>0, <2>1, <2>3, StepsOne
<1>5. CASE CloseItem(j)
  <2>1. PICK x : Moves(j, x, "close", "tally") /\ x.todo = proc[j].todo
    BY <1>5, CloseItemDoes
  <2>2. proc[j].type = "batch"
    BY <1>5, CloseItemDoes
  <2>3. ProcStep(j, x) /\ Becomes(j, x)
    BY <2>1, <2>2 DEF ProcStep, Batches, Moves, Walks
  <2>. QED
    BY <1>0, <2>3, StepsOne
<1>6. CASE Tally(j)
  <2>1. PICK x : Moves(j, x, "tally", "claim") /\ x.todo = proc[j].todo \ {Least(proc[j].todo)}
    BY <1>6, TallyDoes
  <2>2. proc[j].type = "batch"
    BY <1>6, TallyDoes
  <2>3. ProcStep(j, x) /\ Becomes(j, x)
    BY <2>1, <2>2 DEF ProcStep, Batches, Moves, Walks
  <2>. QED
    BY <1>0, <2>3, StepsOne
<1>7. CASE FinishBatch(j) /\ ~Walks(j, Idle)
  <2>1. PICK x : Moves(j, x, "claim", "settle") /\ Drained(proc[j].run)
    BY <1>7, FinishBatchDoes
  <2>2. proc[j].type = "batch" /\ Frame
    BY <1>7, FinishBatchDoes
  <2>3. ProcStep(j, x) /\ Becomes(j, x)
    BY <2>1, <2>2 DEF ProcStep, Batches, Moves, Walks
  <2>. QED
    BY <1>0, <2>3, StepsOne
<1>. QED
  BY <1>1, <1>2, <1>3, <1>4, <1>5, <1>6, <1>7, SettleRunDoes

LEMMA StepsItem ==
  ASSUME Base, NEW j \in Jobs, BeginItem(j) \/ LockWorkflow(j) \/ Append(j)
  PROVE  \A q \in Procs : ProcStep(q, proc'[q])
<1>0. j \in Procs
  BY DEF Procs
<1>1. CASE BeginItem(j)
  <2>1. CASE Walks(j, Idle)
    BY <1>0, <2>1, StepsIdle DEF Walks
  <2>2. CASE ~Walks(j, Idle)
    <3>1. PICK x : Moves(j, x, "pending", "lock")
      BY <1>1, <2>2, BeginItemDoes
    <3>2. proc[j].type = "item"
      BY <1>1, BeginItemDoes
    <3>3. x.type = "item" /\ x.op = "lock" /\ proc[j].op = "pending" /\ Becomes(j, x)
      BY <3>1, <3>2 DEF Moves, Same, Walks
    <3>4. x.run = 0
      BY <3>1, <3>3 DEF Moves, Walks, ProcOK
    <3>5. ProcStep(j, x)
      BY <3>2, <3>3, <3>4 DEF ProcStep, Collects
    <3>. QED
      BY <1>0, <3>3, <3>5, StepsOne
  <2>. QED
    BY <2>1, <2>2
<1>2. CASE LockWorkflow(j)
  <2>1. PICK x : /\ Becomes(j, x) /\ x.type = "item" /\ x.op = "append"
                 /\ x.run = 0 \/ x.run \in OpenRuns
    BY <1>2, LockWorkflowDoes
  <2>2. proc[j].type = "item" /\ proc[j].op = "lock"
    BY <1>2, LockWorkflowDoes
  <2>3. ProcStep(j, x)
    BY <2>1, <2>2 DEF ProcStep, Collects
  <2>. QED
    BY <1>0, <2>1, <2>3, StepsOne
<1>3. CASE Append(j)
  BY <1>0, <1>3, AppendDoes, StepsIdle
<1>. QED
  BY <1>1, <1>2, <1>3

LEMMA StepsAlone ==
  ASSUME Base, NEW p \in Procs,
         CreateRun(p) \/ AnnounceRun(p) \/ Exclude(p) \/ Approve(p) \/ Cancel(p) \/ DispatchRun(p)
  PROVE  \A q \in Procs : ProcStep(q, proc'[q])
<1>1. CASE CreateRun(p)
  <2>1. PICK x : Becomes(p, x) /\ x.type = "none" /\ x.op = "announce" /\ x.run = last + 1
    BY <1>1, CreateRunDoes
  <2>2. ProcStep(p, x)
    BY <1>1, <2>1 DEF ProcStep, Announces
  <2>. QED
    BY <2>1, <2>2, StepsOne
<1>2. CASE AnnounceRun(p)
  <2>1. PICK y, k : /\ Spawns(p, Idle, k, y)
                    /\ y.type = "evaluate" /\ y.op = "pending" /\ y.run = proc[p].run
    BY <1>2, AnnounceRunDoes
  <2>2. proc[p].op = "announce" /\ proc'[p] = Idle /\ proc'[k] = y /\ proc[k] = Idle
    BY <1>2, <2>1, AnnounceRunDoes DEF Spawns
  <2>3. ProcStep(k, y) /\ ProcStep(p, Idle)
    BY <1>2, <2>1, <2>2 DEF ProcStep, Begins
  <2>. QED
    BY <2>1, <2>2, <2>3 DEF Spawns, ProcStep
<1>3. CASE Exclude(p)
  <2>1. PICK x : Moves(p, x, "exclude", "approve")
    BY <1>3, ExcludeDoes
  <2>2. proc[p].type = "none"
    BY <1>3, AloneFacts DEF Exclude, Asking
  <2>3. ProcStep(p, x) /\ Becomes(p, x)
    BY <1>3, <2>1, <2>2 DEF ProcStep, Approves, Moves, Walks
  <2>. QED
    BY <2>3, StepsOne
<1>4. CASE Approve(p)
  <2>1. CASE Walks(p, Idle)
    BY <2>1, StepsIdle DEF Walks
  <2>2. CASE ~Walks(p, Idle)
    <3>1. PICK x : Moves(p, x, "approve", "read")
      BY <1>4, <2>2, ApproveDoes
    <3>2. proc[p].type = "none"
      BY <1>4, ApproveDoes
    <3>3. ProcStep(p, x) /\ Becomes(p, x)
      BY <1>4, <3>1, <3>2 DEF ProcStep, Approves, Moves, Walks
    <3>. QED
      BY <3>3, StepsOne
  <2>. QED
    BY <2>1, <2>2
<1>5. CASE Cancel(p)
  BY <1>5, CancelDoes, StepsIdle DEF Walks
<1>6. CASE DispatchRun(p)
  <2>1. CASE Walks(p, Idle)
    BY <2>1, StepsIdle DEF Walks
  <2>2. CASE ~Walks(p, Idle)
    <3>1. PICK x : Moves(p, x, "count", "read") /\ run' = run
      BY <1>6, <2>2, DispatchRunDoes
    <3>2. proc[p].type = "none" /\ Frame
      BY <1>6, <3>1, DispatchRunDoes DEF Frame
    <3>3. ProcStep(p, x) /\ Becomes(p, x)
      BY <3>1, <3>2 DEF ProcStep, Approves, Moves, Walks
    <3>. QED
      BY <3>3, StepsOne
  <2>. QED
    BY <2>1, <2>2
<1>. QED
  BY <1>1, <1>2, <1>3, <1>4, <1>5, <1>6

LEMMA StepsAsk ==
  ASSUME Base,
         \/ \E p \in Requests : Asks(p)
         \/ \E c \in Crons : ScheduleFires(c) \/ \E r \in Runs : StampRun(c, r)
  PROVE  \A q \in Procs : ProcStep(q, proc'[q])
<1>0. Requests \subseteq Procs \ Jobs /\ Crons \subseteq Procs \ Jobs
  BY WorkflowAssumption DEF Procs
<1>1. ASSUME NEW p \in Procs \ Jobs, Admitted(p)
      PROVE  \A q \in Procs : ProcStep(q, proc'[q])
  <2>1. PICK x : Becomes(p, x) /\ x.type = "none" /\ x.op = "create" /\ x.run = 0
    BY <1>1, AdmittedDoes
  <2>2. ProcStep(p, x)
    BY <1>1, <2>1, AdmittedDoes DEF ProcStep, Begins
  <2>. QED
    BY <2>1, <2>2, StepsOne
<1>2. ASSUME NEW p \in Requests, NEW r \in Runs, AskApprove(p, r) \/ AskCancel(p, r)
      PROVE  \A q \in Procs : ProcStep(q, proc'[q])
  <2>1. PICK op \in {"exclude", "cancel"} :
          /\ Ask(p, r, op) /\ run[r].status \in Active
          /\ op = "exclude" => run[r].status = "awaiting_approval" /\ AskApprove(p, r)
          /\ op = "cancel" => AskCancel(p, r)
    BY <1>2 DEF AskApprove, AskCancel, Approvable, Cancellable, Active
  <2>2. r <= last /\ (op = "exclude" => ~Bypasses)
    BY <2>1, RowFacts DEF Exists, Active, RunOK
  <2>3. PICK x : Becomes(p, x) /\ x.type = "none" /\ x.op = op /\ x.run = r
    BY <2>1, <2>2, AskDoes DEF Walks
  <2>4. proc[p] = Idle
    BY <2>1, <2>2, AskDoes
  <2>5. ProcStep(p, x)
    BY <2>1, <2>3, <2>4 DEF ProcStep, Begins
  <2>. QED
    BY <1>0, <2>3, <2>5, StepsOne
<1>3. ASSUME NEW c \in Crons, NEW r \in Runs, StampRun(c, r)
      PROVE  \A q \in Procs : ProcStep(q, proc'[q])
  <2>1. PICK x : Becomes(c, x) /\ x.type = "none" /\ x.op = "count" /\ x.run = r
    BY <1>3, StampRunDoes DEF Walks
  <2>2. ProcStep(c, x)
    BY <1>3, <2>1, StampRunDoes DEF ProcStep, Begins
  <2>. QED
    BY <1>0, <2>1, <2>2, StepsOne
<1>. QED
  BY <1>0, <1>1, <1>2, <1>3 DEF Asks, AskCreate, ScheduleFires

LEMMA StepsHappens ==
  ASSUME Base,
         \/ \E r \in Runs : WindowElapses(r) \/ Expire(r) \/ DeleteOld(r)
         \/ \E p \in Procs : Crash(p)
         \/ \E j \in Jobs : Throws(j) \/ Redeliver(j)
         \/ \E i \in Items : Signal(i) \/ Vanish(i)
  PROVE  \A q \in Procs : ProcStep(q, proc'[q])
<1>1. CASE proc' = proc
  BY <1>1 DEF ProcStep
<1>2. ASSUME NEW p \in Procs, Crash(p) \/ (p \in Jobs /\ Throws(p))
      PROVE  \A q \in Procs : ProcStep(q, proc'[q])
  <2>1. PICK x : Becomes(p, x) /\ Remains(x, p)
    BY <1>2, CrashDoes, ThrowsDoes DEF Walks
  <2>2. ProcStep(p, x)
    BY <1>2, <2>1 DEF ProcStep, Requeues
  <2>. QED
    BY <2>1, <2>2, StepsOne
<1>3. ASSUME NEW j \in Jobs, Redeliver(j)
      PROVE  \A q \in Procs : ProcStep(q, proc'[q])
  <2>1. PICK k \in Procs : proc[k] = Idle /\ \E x : Becomes(k, x) /\ Remains(x, j)
    BY <1>3, RedeliverDoes DEF Walks
  <2>2. PICK x : Becomes(k, x) /\ Remains(x, j)
    BY <2>1
  <2>3. ProcStep(k, x)
    BY <1>3, <2>1, <2>2 DEF ProcStep, Begins
  <2>. QED
    BY <2>2, <2>3, StepsOne
<1>4. ASSUME NEW i \in Items, Signal(i)
      PROVE  \A q \in Procs : ProcStep(q, proc'[q])
  <2>1. PICK k \in Procs : /\ proc[k] = Idle
                           /\ \E x : Becomes(k, x) /\ x.type = "item" /\ x.op = "pending" /\ x.run = 0
    BY <1>4, SignalDoes DEF Walks
  <2>2. PICK x : Becomes(k, x) /\ x.type = "item" /\ x.op = "pending" /\ x.run = 0
    BY <2>1
  <2>3. ProcStep(k, x)
    BY <1>4, <2>1, <2>2 DEF ProcStep, Begins
  <2>. QED
    BY <2>2, <2>3, StepsOne
<1>. QED
  BY <1>1, <1>2, <1>3, <1>4 DEF WindowElapses, Expire, DeleteOld, Vanish, Procs

LEMMA ProcSteps ==
  ASSUME Base, Next
  PROVE  \A q \in Procs : ProcStep(q, proc'[q])
<1>1. ASSUME NEW j \in Jobs, JobStep(j)
      PROVE  \A q \in Procs : ProcStep(q, proc'[q])
  BY <1>1, StepsEvaluate, StepsRead, StepsBatch, StepsItem DEF JobStep, Procs
<1>. QED
  BY <1>1, StepsRead, StepsAlone, StepsAsk, StepsHappens DEF Next, RequestStep, CronStep, Procs

-----------------------------------------------------------------------------
(* What a step does to an item of a run, to what was executed for it, and   *)
(* to the media.                                                            *)

Added(r, i) ==
  /\ item'[r][i] = "matched"
  /\ \/ AddsTo(r, i)
     \/ \E j \in Jobs : EvaluatePage(j) /\ proc[j].op = "page" /\ proc[j].run = r
Removed(r, i) ==
  /\ item'[r][i] = "none"
  /\ (i \notin media' /\ (May("emptied") \/ ~Bypasses)) \/ DeleteOld(r)
LeftOut(r, i) ==
  item'[r][i] = "excluded" /\ \E p \in Procs : Exclude(p) /\ proc[p].run = r
ClosedBy(r, i) ==
  \E j \in Jobs : CloseItem(j) /\ proc[j].run = r /\ i = Least(proc[j].todo)

ItemStep(r, i) ==
  \/ item'[r][i] = item[r][i] \/ Removed(r, i)
  \/ item[r][i] = "none" /\ Added(r, i)
  \/ item[r][i] = "matched" /\ (LeftOut(r, i) \/ ClosedBy(r, i))
ActedStep(r, i) ==
  \/ acted'[r][i] = acted[r][i]
  \/ \E j \in Jobs : Act(j) /\ proc[j].run = r /\ i = Least(proc[j].todo) /\ i \in media

LEMMA PurgedStep ==
  ASSUME Base, NEW k \in Items, Purge(k), May("emptied") \/ ~Bypasses, NEW r \in Runs, NEW i \in Items
  PROVE  ItemStep(r, i) /\ media' \subseteq media
BY DEF Purge, ItemStep, Removed, Base, TypeOK

LEMMA ItemSteps ==
  ASSUME Base, Next, NEW r \in Runs, NEW i \in Items
  PROVE  ItemStep(r, i)
<1>1. CASE item' = item
  BY <1>1 DEF ItemStep
<1>2. ASSUME NEW j \in Jobs, EvaluatePage(j)
      PROVE  ItemStep(r, i)
  <2>1. CASE item'[r][i] # item[r][i]
    <3>1. PICK k \in Items : item' = [item EXCEPT ![proc[j].run][k] = IF @ = "none" THEN "matched" ELSE @]
      BY <1>2, <2>1, EvaluatePageDoes
    <3>2. proc[j].run \in Runs /\ proc[j].op = "page"
      BY <1>2, EvaluatePageDoes DEF EvaluatePage
    <3>3. proc[j].run = r /\ item[r][i] = "none" /\ item'[r][i] = "matched"
      BY <2>1, <3>1, <3>2 DEF Base, TypeOK
    <3>. QED
      BY <1>2, <3>2, <3>3 DEF ItemStep, Added
  <2>. QED
    BY <2>1 DEF ItemStep
<1>3. ASSUME NEW j \in Jobs, Act(j)
      PROVE  ItemStep(r, i)
  <2>1. item' = item \/ \E k \in Items : Purge(k) /\ ~Bypasses
    BY <1>3, ActDoes
  <2>. QED
    BY <1>1, <2>1, PurgedStep
<1>4. ASSUME NEW j \in Jobs, CloseItem(j)
      PROVE  ItemStep(r, i)
  <2>1. CASE item'[r][i] # item[r][i]
    <3>1. PICK k \in Items : /\ k = Least(proc[j].todo) /\ Claimable(proc[j].run, k)
                             /\ item' = [item EXCEPT ![proc[j].run][k] = proc[j].out]
      BY <1>4, <2>1, CloseItemDoes
    <3>2. proc[j].run = r /\ k = i
      BY <2>1, <3>1, ItemsPut
    <3>. QED
      BY <1>4, <3>1, <3>2 DEF ItemStep, ClosedBy, Claimable
  <2>. QED
    BY <2>1 DEF ItemStep
<1>5. ASSUME NEW j \in Jobs, Append(j)
      PROVE  ItemStep(r, i)
  <2>1. CASE item'[r][i] # item[r][i]
    <3>1. PICK k \in Items :
            /\ proc[j].load = {k}
            /\ \/ /\ item' = [item EXCEPT ![proc[j].run][k] = "matched"]
                  /\ item[proc[j].run][k] = "none"
               \/ proc[j].run = 0 /\ item' = [item EXCEPT ![last + 1][k] = "matched"]
      BY <1>5, <2>1, AppendDoes
    <3>2. proc[j].op = "append"
      BY <1>5, AppendDoes
    <3>3. CASE /\ item' = [item EXCEPT ![proc[j].run][k] = "matched"]
               /\ item[proc[j].run][k] = "none"
      <4>1. item' = [item EXCEPT ![proc[j].run][k] = "matched"]
        BY <3>3
      <4>2. proc[j].run = r /\ k = i
        BY <2>1, <4>1, ItemsPut
      <4>3. item'[r][i] = "matched"
        BY <4>1, <4>2 DEF Base, TypeOK
      <4>. QED
        BY <1>5, <3>1, <3>2, <3>3, <4>2, <4>3 DEF ItemStep, Added, AddsTo
    <3>4. CASE proc[j].run = 0 /\ item' = [item EXCEPT ![last + 1][k] = "matched"]
      <4>1. item' = [item EXCEPT ![last + 1][k] = "matched"]
        BY <3>4
      <4>2. last + 1 = r /\ k = i
        BY <2>1, <4>1, ItemsPut
      <4>3. item'[r][i] = "matched"
        BY <4>1, <4>2 DEF Base, TypeOK
      <4>4. item[r][i] = "none"
        BY <4>2, RowFacts DEF RunOK
      <4>. QED
        BY <1>5, <3>1, <3>2, <3>4, <4>2, <4>3, <4>4 DEF ItemStep, Added, AddsTo
    <3>. QED
      BY <3>1, <3>3, <3>4
  <2>. QED
    BY <2>1 DEF ItemStep
<1>6. ASSUME NEW p \in Procs, Exclude(p)
      PROVE  ItemStep(r, i)
  <2>1. CASE item'[r][i] # item[r][i]
    <3>1. PICK X \in SUBSET Matched(proc[p].run) :
            item' = [item EXCEPT ![proc[p].run] = [k \in Items |-> IF k \in X THEN "excluded" ELSE @[k]]]
      BY <1>6, ExcludeDoes
    <3>2. proc[p].run = r /\ i \in X /\ item'[r][i] = "excluded"
      BY <2>1, <3>1 DEF Base, TypeOK
    <3>3. item[r][i] = "matched"
      BY <3>1, <3>2 DEF Matched
    <3>. QED
      BY <1>6, <3>2, <3>3 DEF ItemStep, LeftOut
  <2>. QED
    BY <2>1 DEF ItemStep
<1>7. ASSUME NEW q \in Runs, DeleteOld(q)
      PROVE  ItemStep(r, i)
  <2>1. CASE q = r
    BY <1>7, <2>1 DEF DeleteOld, ItemStep, Removed, Base, TypeOK
  <2>2. CASE q # r
    BY <1>7, <2>2 DEF DeleteOld, ItemStep, Base, TypeOK
  <2>. QED
    BY <2>1, <2>2
<1>8. ASSUME NEW k \in Items, Vanish(k)
      PROVE  ItemStep(r, i)
  BY <1>8, PurgedStep DEF Vanish
<1>9. ASSUME NEW j \in Jobs, JobStep(j)
      PROVE  ItemStep(r, i)
  <2>1. EvaluatePage(j) \/ Act(j) \/ CloseItem(j) \/ Append(j) \/ item' = item
    BY <1>9 DEF JobStep, BeginEvaluate, RecordMatched, Decide, ReadMatched, PostBatch, Posted,
       BeginBatch, ClaimItem, Tally, FinishBatch, SettleRun, BeginItem, LockWorkflow
  <2>. QED
    BY <2>1, <1>1, <1>2, <1>3, <1>4, <1>5
<1>10. ASSUME NEW p \in Procs, RequestStep(p) \/ CronStep(p)
       PROVE  ItemStep(r, i)
  <2>1. Exclude(p) \/ item' = item
    BY <1>10 DEF RequestStep, CronStep, CreateRun, AnnounceRun, Approve, Cancel, DispatchRun,
       ReadMatched, PostBatch, Posted
  <2>. QED
    BY <2>1, <1>1, <1>6
<1>11. \A p \in Procs : Asks(p) \/ ScheduleFires(p) \/ Crash(p) => item' = item
  BY DEF Asks, AskCreate, AskApprove, AskCancel, Ask, ScheduleFires, Admitted, Crash
<1>12. ASSUME NEW x, \/ WindowElapses(x) \/ Expire(x) \/ Throws(x) \/ Redeliver(x) \/ Signal(x)
                     \/ \E c \in Crons : StampRun(c, x)
       PROVE  item' = item
  BY <1>12 DEF WindowElapses, Expire, Throws, Redeliver, Signal, StampRun
<1>. QED
  BY <1>1, <1>7, <1>8, <1>9, <1>10, <1>11, <1>12 DEF Next, Procs

\* Requests and cron handlers execute nothing and delete no media.
LEMMA AloneLeaves ==
  ASSUME NEW p, RequestStep(p) \/ CronStep(p) \/ Asks(p) \/ ScheduleFires(p) \/ Crash(p)
  PROVE  media' = media /\ acted' = acted
<1>1. CreateRun(p) \/ AnnounceRun(p) \/ Exclude(p) \/ Approve(p) \/ Cancel(p) \/ DispatchRun(p)
        => media' = media /\ acted' = acted
  BY DEF CreateRun, AnnounceRun, Exclude, Approve, Cancel, DispatchRun
<1>2. ReadMatched(p) \/ PostBatch(p) \/ Posted(p) => media' = media /\ acted' = acted
  BY DEF ReadMatched, PostBatch, Posted
<1>3. RequestStep(p) \/ CronStep(p) => media' = media /\ acted' = acted
  BY <1>1, <1>2 DEF RequestStep, CronStep
<1>4. Asks(p) => media' = media /\ acted' = acted
  BY DEF Asks, AskCreate, AskApprove, AskCancel, Ask, Admitted
<1>5. ScheduleFires(p) \/ Crash(p) => media' = media /\ acted' = acted
  BY DEF ScheduleFires, Admitted, Crash
<1>. QED
  BY <1>3, <1>4, <1>5

LEMMA ActedSteps ==
  ASSUME Base, Next, NEW r \in Runs, NEW i \in Items
  PROVE  ActedStep(r, i)
<1>1. CASE acted' = acted
  BY <1>1 DEF ActedStep
<1>2. ASSUME NEW j \in Jobs, Act(j)
      PROVE  ActedStep(r, i)
  <2>1. CASE acted'[r][i] # acted[r][i]
    <3>1. PICK x, k : /\ k = Least(proc[j].todo) /\ k \in Items
                      /\ k \notin media => x.out = "skipped"
                      /\ \/ x.out = "skipped" /\ acted' = acted
                         \/ acted' = [acted EXCEPT ![proc[j].run][k] = @ + 1]
                      /\ proc'[j] = x
      BY <1>2, ActDoes DEF Becomes
    <3>2. acted' = [acted EXCEPT ![proc[j].run][k] = @ + 1]
      BY <2>1, <3>1
    <3>3. proc[j].run = r /\ k = i
      BY <2>1, <3>2 DEF Base
    <3>4. i \in media
      BY <1>2, <2>1, <3>1, <3>3 DEF Act
    <3>. QED
      BY <1>2, <3>1, <3>3, <3>4 DEF ActedStep
  <2>. QED
    BY <2>1 DEF ActedStep
<1>3. ASSUME NEW j \in Jobs, JobStep(j)
      PROVE  ActedStep(r, i)
  <2>1. Act(j) \/ acted' = acted
    BY <1>3 DEF JobStep, BeginEvaluate, EvaluatePage, RecordMatched, Decide, ReadMatched, PostBatch,
       Posted, BeginBatch, ClaimItem, CloseItem, Tally, FinishBatch, SettleRun, BeginItem,
       LockWorkflow, Append
  <2>. QED
    BY <2>1, <1>1, <1>2
<1>4. \A p \in Procs : RequestStep(p) \/ CronStep(p) \/ Asks(p) \/ ScheduleFires(p) \/ Crash(p)
        => acted' = acted
  BY AloneLeaves
<1>5. ASSUME NEW x, \/ WindowElapses(x) \/ Expire(x) \/ DeleteOld(x) \/ Throws(x) \/ Redeliver(x)
                    \/ Signal(x) \/ Vanish(x) \/ \E c \in Crons : StampRun(c, x)
      PROVE  acted' = acted
  BY <1>5 DEF WindowElapses, Expire, DeleteOld, Throws, Redeliver, Signal, Vanish, StampRun
<1>. QED
  BY <1>1, <1>3, <1>4, <1>5 DEF Next, Procs

LEMMA MediaShrinks ==
  ASSUME Base, Next
  PROVE  media' \subseteq media
<1>1. ASSUME NEW j \in Jobs, JobStep(j)
      PROVE  media' \subseteq media
  <2>1. Act(j) \/ media' = media
    BY <1>1 DEF JobStep, BeginEvaluate, EvaluatePage, RecordMatched, Decide, ReadMatched, PostBatch,
       Posted, BeginBatch, ClaimItem, CloseItem, Tally, FinishBatch, SettleRun, BeginItem,
       LockWorkflow, Append
  <2>. QED
    BY <2>1, ActDoes
<1>2. \A p \in Procs : RequestStep(p) \/ CronStep(p) \/ Asks(p) \/ ScheduleFires(p) \/ Crash(p)
        => media' = media
  BY AloneLeaves
<1>3. ASSUME NEW x, \/ WindowElapses(x) \/ Expire(x) \/ DeleteOld(x) \/ Throws(x) \/ Redeliver(x)
                    \/ Signal(x) \/ Vanish(x) \/ \E c \in Crons : StampRun(c, x)
      PROVE  media' \subseteq media
  BY <1>3 DEF WindowElapses, Expire, DeleteOld, Throws, Redeliver, Signal, Vanish, Purge, StampRun
<1>. QED
  BY <1>1, <1>2, <1>3 DEF Next, Procs

-----------------------------------------------------------------------------
(* A process is at work on runs that exist.                                 *)

Rooted == \A p \in Procs : proc[p].run # 0 => Exists(proc[p].run)

LEMMA RunOrigin ==
  ASSUME Base, Next, NEW p \in Procs, NEW r \in Runs, proc'[p].run = r
  PROVE  \/ \E q \in Procs : proc[q].run = r
         \/ Exists(r)
         \/ r = last + 1 /\ CreateRun(p)
<1>1. r # 0
  BY WorkflowAssumption DEF Runs
<1>2. PICK x : x = proc'[p]
  OBVIOUS
<1>3. ProcStep(p, x) /\ x.run = r /\ x # Idle
  BY <1>1, <1>2, ProcSteps, IdleFacts
<1>4. CASE Begins(p, x)
  BY <1>1, <1>3, <1>4 DEF Begins, AskApprove, AskCancel, StampRun, Undispatched, Approvable, Cancellable,
     Active, Exists, Remains, Procs
<1>5. CASE Requeues(p, x)
  BY <1>1, <1>3, <1>5 DEF Requeues, Remains
<1>6. CASE Collects(p, x)
  BY <1>1, <1>3, <1>6 DEF Collects, OpenRuns, Exists
<1>. QED
  BY <1>2, <1>3, <1>4, <1>5, <1>6 DEF ProcStep, Evaluates, Approves, Dispatches, Batches, Announces, Same

LEMMA ExistsOn ==
  ASSUME Base, Next, NEW r \in Runs, Exists(r)
  PROVE  run'[r].status # "none" \/ DeleteOld(r)
<1>1. RowStep(r) /\ r # last + 1
  BY RowSteps, RowFacts
<1>. QED
  BY <1>1 DEF RowStep, Keeps, Puts, Exists, Changes, Evaluated, Starts, ApprovedBy, CancelledBy, SettledBy,
     EmptyAt, Stamped, FallsDue, FailedBy

LEMMA RootedKept ==
  ASSUME Base, Rooted, Next
  PROVE  Rooted'
<1>1. ASSUME NEW p \in Procs, NEW r \in Runs, proc'[p].run = r
      PROVE  run'[r].status # "none"
  <2>1. CASE r = last + 1 /\ CreateRun(p)
    BY <2>1, CreateRunDoes, WriteRow DEF RowSet, Active
  <2>2. CASE Exists(r) /\ DeleteOld(r)
    BY <1>1, <2>2 DEF DeleteOld
  <2>3. CASE Exists(r) /\ ~DeleteOld(r)
    BY <2>3, ExistsOn
  <2>4. CASE \E q \in Procs : proc[q].run = r
    <3>1. r # 0
      BY WorkflowAssumption DEF Runs
    <3>. QED
      BY <2>2, <2>3, <2>4, <3>1 DEF Rooted
  <2>. QED
    BY <1>1, <2>1, <2>2, <2>3, <2>4, RunOrigin
<1>2. \A p \in Procs : proc'[p].run \in Runs \cup {0}
  <2>1. proc' \in [Procs -> Proc]
    BY BaseStep DEF Base, TypeOK
  <2>. QED
    BY <2>1 DEF Proc
<1>. QED
  BY <1>1, <1>2 DEF Rooted, Exists

LEMMA RootedInit ==
  ASSUME Init
  PROVE  Rooted
BY IdleFacts DEF Init, Rooted

\* No process is at work on a run that is not there yet.
LEMMA NobodyAhead ==
  ASSUME Base, NEW p \in Procs
  PROVE  proc[p].run # last + 1
BY ProcFacts DEF ProcOK

-----------------------------------------------------------------------------
(* Where the batches of a run come from.                                    *)

BatchAt(p, r) == proc[p].type = "batch" /\ proc[p].run = r

LEMMA BatchOrigin ==
  ASSUME Base, Next, NEW p \in Procs, NEW r \in Runs, BatchAt(p, r)'
  PROVE  \/ BatchAt(p, r) /\ proc'[p].load = proc[p].load
         \/ \E q \in Procs : /\ proc[q].op = "post" /\ proc[q].run = r /\ p # q /\ PostBatch(q)
                             /\ proc'[p].load \subseteq proc[q].todo /\ proc[p] = Idle
                             /\ proc'[q].todo = proc[q].todo \ proc'[p].load
         \/ \E q \in Procs : Redeliver(q) /\ q \in Jobs /\ BatchAt(q, r)
<1>1. PICK x : x = proc'[p]
  OBVIOUS
<1>2. ProcStep(p, x) /\ x.run = r /\ x.type = "batch" /\ x # Idle
  BY <1>1, ProcSteps, IdleFacts DEF BatchAt
<1>3. CASE Begins(p, x)
  BY <1>1, <1>2, <1>3 DEF Begins, BatchAt, Remains, Procs
<1>4. CASE Requeues(p, x)
  BY <1>1, <1>2, <1>4 DEF Requeues, Remains, BatchAt
<1>5. CASE Collects(p, x) \/ Announces(p, x)
  BY <1>2, <1>5 DEF Collects, Announces
<1>. QED
  BY <1>1, <1>2, <1>3, <1>4, <1>5 DEF ProcStep, Evaluates, Approves, Dispatches, Batches, Same, BatchAt

-----------------------------------------------------------------------------
(* A run that is being evaluated, by anybody, has not been started: its     *)
(* evaluation is unique.  This needs a job to be executed once, and a       *)
(* workflow that is not the enrichment's.                                   *)

Plain == ~Enriched /\ Without({"redeliver"})

IsEvaluator(x) == x.type = "evaluate" \/ x.op = "announce"
Evaluator(p, r) == IsEvaluator(proc[p]) /\ proc[p].run = r
Finds(x) == x.op \in {"announce", "page", "decide"}
Budding(r) == \/ run[r].status = "evaluating"
              \/ \E p \in Procs : Finds(proc[p]) /\ proc[p].run = r

\* What may be at work on a run that is being evaluated
Early(x) == x.op = "cancel" \/ Finds(x) \/ (x.type = "evaluate" /\ x.op = "pending")

PlainInv ==
  /\ \A p \in Procs : proc[p].type # "item" /\ proc[p].op # "count"
  /\ \A r \in Runs, p, q \in Procs : Evaluator(p, r) /\ Evaluator(q, r) => p = q
  /\ \A r \in Runs : Budding(r) =>
       /\ run[r].status \in {"evaluating", "cancelled"} /\ ~run[r].started /\ ~run[r].approved
       /\ \A p \in Procs : proc[p].run = r => Early(proc[p])

LEMMA PlainOps ==
  ASSUME Base, Plain, PlainInv, Next
  PROVE  \A p \in Procs : proc'[p].type # "item" /\ proc'[p].op # "count"
<1> SUFFICES ASSUME NEW p \in Procs
             PROVE  proc'[p].type # "item" /\ proc'[p].op # "count"
  OBVIOUS
<1>1. PICK x : x = proc'[p]
  OBVIOUS
<1>2. ProcStep(p, x) /\ proc[p].type # "item" /\ proc[p].op # "count"
  BY <1>1, ProcSteps DEF PlainInv
<1>3. CASE Begins(p, x)
  <2>1. ~\E j \in Jobs : Redeliver(j)
    BY DEF Redeliver, Plain, Without, May
  <2>2. ~StampRun(p, x.run) \/ x.run \notin Runs
    BY RowFacts DEF StampRun, RunOK, Plain
  <2>3. ~(x.type = "item")
    <3>1. \A i \in Items : ~Signal(i)
      BY DEF Signal, Plain, Enriched
    <3>. QED
      BY <1>1, <1>3, <2>1, <3>1 DEF Begins
  <2>. QED
    BY <1>1, <1>3, <2>1, <2>2, <2>3 DEF Begins
<1>. QED
  BY <1>1, <1>2, <1>3, IdleFacts DEF ProcStep, Requeues, Remains, Evaluates, Approves, Dispatches,
     Batches, Collects, Announces, Same

LEMMA EvaluatorOrigin ==
  ASSUME Base, Plain, Next, NEW p \in Procs, NEW r \in Runs, Evaluator(p, r)'
  PROVE  \/ Evaluator(p, r)
         \/ CreateRun(p) /\ r = last + 1
         \/ \E q \in Procs : /\ AnnounceRun(q) /\ Evaluator(q, r)
                             /\ proc[q].op = "announce" /\ proc'[q] = Idle
<1>1. PICK x : x = proc'[p]
  OBVIOUS
<1>2. ProcStep(p, x) /\ x.run = r /\ IsEvaluator(x) /\ ~IsEvaluator(Idle)
  BY <1>1, ProcSteps, IdleFacts DEF Evaluator, IsEvaluator
<1>3. ~\E j \in Jobs : Redeliver(j)
  BY DEF Redeliver, Plain, Without, May
<1>4. CASE Begins(p, x)
  BY <1>1, <1>2, <1>3, <1>4 DEF Begins, Evaluator, IsEvaluator
<1>5. CASE Requeues(p, x)
  BY <1>1, <1>2, <1>5 DEF Requeues, Remains, Evaluator, IsEvaluator
<1>6. CASE Announces(p, x)
  BY <1>2, <1>6 DEF Announces
<1>. QED
  BY <1>1, <1>2, <1>4, <1>5, <1>6 DEF ProcStep, Evaluates, Approves, Dispatches, Batches, Collects,
     Same, Evaluator, IsEvaluator

\* Where an evaluator comes from nothing else becomes one.
LEMMA OneEvaluatorKept ==
  ASSUME Base, Plain, PlainInv, Next, NEW r \in Runs, NEW p \in Procs, NEW q \in Procs,
         Evaluator(p, r)', Evaluator(q, r)'
  PROVE  p = q
<1>1. ASSUME NEW s \in Procs, NEW t \in Procs, CreateRun(s), r = last + 1, Evaluator(t, r)'
      PROVE  s = t
  <2>1. proc'[t] = proc[t] \/ s = t
    BY <1>1, CreateRunDoes DEF Becomes
  <2>. QED
    BY <1>1, <2>1, NobodyAhead DEF Evaluator
<1>2. ASSUME NEW s \in Procs, AnnounceRun(s), Evaluator(s, r), proc'[s] = Idle, Evaluator(p, r)',
             Evaluator(q, r)'
      PROVE  p = q
  <2>1. PICK k, y : Spawns(s, Idle, k, y)
    BY <1>2, AnnounceRunDoes
  <2>2. ASSUME NEW t \in Procs, Evaluator(t, r)'
        PROVE  t = k
    <3>1. t # s
      BY <1>2, <2>2, IdleFacts DEF Evaluator, IsEvaluator
    <3>2. CASE t # k
      <4>1. proc'[t] = proc[t]
        BY <2>1, <3>1, <3>2 DEF Spawns
      <4>. QED
        BY <1>2, <2>2, <3>1, <4>1 DEF Evaluator, PlainInv
    <3>. QED
      BY <3>2
  <2>. QED
    BY <1>2, <2>2
<1>. QED
  BY <1>1, <1>2, EvaluatorOrigin DEF PlainInv

\* An evaluation that decides, or throws, is over.
LEMMA EvaluatorLeaves ==
  ASSUME Base, Plain, PlainInv, Next, NEW r \in Runs, NEW j \in Jobs, Decide(j) \/ Throws(j),
         Evaluator(j, r), NEW p \in Procs, Finds(proc'[p])
  PROVE  proc'[p].run # r
<1>0. j \in Procs
  BY DEF Procs
<1>1. SUFFICES ASSUME proc'[p].run = r
               PROVE  FALSE
  OBVIOUS
<1>2. proc'[p].type = "evaluate" \/ proc'[p].op = "announce"
  <2>1. ProcOK(proc[p], p, last, media)'
    BY BaseStep DEF Base
  <2>. QED
    BY <2>1 DEF ProcOK, Typed, Finds, AloneOps, BatchOps, ItemOps, Asking
<1>3. ~Finds(proc'[j])
  <2>1. CASE Decide(j)
    BY <2>1, DecideDoes, IdleFacts DEF Moves, Walks, Becomes, Finds
  <2>2. CASE Throws(j)
    BY <2>2, ThrowsDoes, IdleFacts DEF Walks, Becomes, Finds, Remains
  <2>. QED
    BY <2>1, <2>2
<1>4. Evaluator(p, r)'
  BY <1>1, <1>2 DEF Evaluator, IsEvaluator
<1>5. proc[j].type = "evaluate" \/ proc[j].op # "announce"
  BY DecideDoes, ThrowsDoes, AloneFacts
<1>6. p # j
  BY <1>3
<1>7. ~Evaluator(p, r)
  BY <1>0, <1>6 DEF PlainInv
<1>8. ~(CreateRun(p) /\ r = last + 1)
  BY <1>0, NobodyAhead DEF Evaluator
<1>. QED
  BY <1>0, <1>4, <1>5, <1>7, <1>8, EvaluatorOrigin, AloneFacts DEF PlainInv

LEMMA BuddingOrigin ==
  ASSUME Base, Plain, PlainInv, Next, NEW r \in Runs, Budding(r)'
  PROVE  Budding(r) \/ (r = last + 1 /\ \E p \in Procs : CreateRun(p))
<1>1. CASE run'[r].status = "evaluating"
  BY <1>1, RowSteps DEF RowStep, Keeps, Puts, Creates, Opens, Changes, Evaluated, Starts, ApprovedBy,
     CancelledBy, SettledBy, EmptyAt, Stamped, FallsDue, FailedBy, NoRow, Budding
<1>2. ASSUME NEW p \in Procs, NEW x, x = proc'[p], Finds(x), x.run = r
      PROVE  Budding(r) \/ (r = last + 1 /\ \E q \in Procs : CreateRun(q))
  <2>1. ProcStep(p, x) /\ x # Idle
    BY <1>2, ProcSteps, IdleFacts DEF Finds
  <2>2. ~\E j \in Jobs : Redeliver(j)
    BY DEF Redeliver, Plain, Without, May
  <2>3. ~Begins(p, x) /\ ~Requeues(p, x) /\ ~Approves(p, x) /\ ~Dispatches(p, x) /\ ~Batches(p, x)
        /\ ~Collects(p, x)
    BY <1>2, <2>1, <2>2 DEF Begins, Requeues, Remains, Approves, Dispatches, Batches, Collects, Finds
  <2>4. CASE Announces(p, x)
    BY <1>2, <2>4 DEF Announces
  <2>5. CASE Evaluates(p, x)
    BY <1>2, <2>5 DEF Evaluates, Same, Finds, Budding
  <2>. QED
    BY <1>2, <2>1, <2>3, <2>4, <2>5 DEF ProcStep, Budding
<1>. QED
  BY <1>1, <1>2 DEF Budding

LEMMA BuddingRow ==
  ASSUME Base, Plain, PlainInv, Next, NEW r \in Runs, Budding(r), Budding(r)'
  PROVE  /\ run'[r].status \in {"evaluating", "cancelled"} /\ ~run'[r].started /\ ~run'[r].approved
         /\ \A j \in Jobs : (Decide(j) \/ Throws(j)) /\ Evaluator(j, r) => run'[r].status = "evaluating"
<1>1. RowStep(r) /\ run[r].status \in {"evaluating", "cancelled"} /\ ~run[r].started /\ ~run[r].approved
  BY RowSteps DEF PlainInv
<1>2. ASSUME NEW j \in Jobs, Decide(j) \/ Throws(j), Evaluator(j, r)
      PROVE  run'[r].status = "evaluating"
  BY <1>2, EvaluatorLeaves DEF Budding
<1>3. ~Evaluated(r) /\ ~FailedBy(r)
  <2>1. \A j \in Jobs : Decide(j) /\ proc[j].run = r => Evaluator(j, r)
    BY DecideDoes DEF Evaluator, IsEvaluator
  <2>2. \A j \in Jobs : proc[j].type = "evaluate" /\ proc[j].run = r => Evaluator(j, r)
    BY DEF Evaluator, IsEvaluator
  <2>. QED
    BY <1>2, <2>1, <2>2 DEF Evaluated, FailedBy, Puts, Starts
<1>4. ~ApprovedBy(r)
  BY DEF ApprovedBy, Approve, PlainInv, Early, Finds
<1>5. ~FallsDue(r)
  BY <1>1 DEF FallsDue, WindowElapses, OpenRuns
<1>6. ~DeleteOld(r)
  <2>1. ASSUME DeleteOld(r)
        PROVE  FALSE
    <3>1. run'[r].status = "none"
      BY <2>1, NoRowFacts DEF DeleteOld, Base, TypeOK
    <3>2. proc' = proc /\ \A p \in Procs : proc[p].run # r
      BY <2>1 DEF DeleteOld
    <3>. QED
      BY <3>1, <3>2 DEF Budding
  <2>. QED
    BY <2>1
<1>7. ~Opens(r)
  <2>1. \A j \in Jobs : ~Append(j)
    BY AppendDoes DEF PlainInv, Procs
  <2>. QED
    BY <2>1 DEF Opens
<1>. QED
  BY <1>1, <1>2, <1>3, <1>4, <1>5, <1>6, <1>7 DEF RowStep, Keeps, Puts, Creates, Changes, CancelledBy,
     SettledBy, EmptyAt, Stamped

LEMMA DecidedRow ==
  ASSUME Base, NEW j \in Jobs, Decide(j), NEW r \in Runs, proc[j].run = r
  PROVE  run'[r].status \in {"completed", "running", "awaiting_approval"}
<1>1. \/ Write(r, "completed") \/ Write(r, "awaiting_approval")
      \/ run' = [run EXCEPT ![r].status = "running", ![r].started = TRUE]
  BY DecideDoes
<1>2. CASE Write(r, "completed")
  BY <1>2, WriteRow DEF RowSet, Terminal
<1>3. CASE Write(r, "awaiting_approval")
  BY <1>3, WriteRow DEF RowSet, Active
<1>4. CASE run' = [run EXCEPT ![r].status = "running", ![r].started = TRUE]
  BY <1>4, StartRow DEF RowSet
<1>. QED
  BY <1>1, <1>2, <1>3, <1>4

LEMMA BuddingProcs ==
  ASSUME Base, Plain, PlainInv, Next, NEW r \in Runs, Budding(r), Budding(r)',
         NEW p \in Procs, proc'[p].run = r
  PROVE  Early(proc'[p])
<1>1. PICK x : x = proc'[p] /\ x.run = r
  OBVIOUS
<1>2. ProcStep(p, x) /\ x # Idle
  <2>1. r # 0
    BY WorkflowAssumption DEF Runs
  <2>. QED
    BY <1>1, <2>1, ProcSteps, IdleFacts
<1>3. \A q \in Procs : proc[q].run = r => Early(proc[q])
  BY DEF PlainInv
<1>4. run[r].status \in {"evaluating", "cancelled"}
  BY DEF PlainInv
<1>5. CASE Begins(p, x)
  <2>1. ~\E j \in Jobs : Redeliver(j)
    BY DEF Redeliver, Plain, Without, May
  <2>2. r # 0
    BY WorkflowAssumption DEF Runs
  <2>3. ~AskApprove(p, r) /\ ~StampRun(p, r)
    BY <1>4 DEF AskApprove, Approvable, StampRun, Undispatched
  <2>. QED
    BY <1>1, <1>3, <1>5, <2>1, <2>2, <2>3 DEF Begins, Early, Finds
<1>6. CASE Requeues(p, x)
  <2>1. proc[p].run = r
    BY <1>1, <1>2, <1>6, WorkflowAssumption DEF Requeues, Remains, Runs
  <2>2. proc[p].type = "evaluate" \/ proc[p].type = "none"
    <3>1. Early(proc[p]) /\ Typed(proc[p], p)
      BY <1>3, <2>1, ProcFacts DEF ProcOK
    <3>. QED
      BY <3>1 DEF Early, Finds, Typed, BatchOps, ItemOps
  <2>3. p \in Jobs /\ x.type = proc[p].type /\ x.op = "pending"
    BY <1>2, <1>6 DEF Requeues, Remains
  <2>4. proc[p].op # "idle"
    BY <1>6, <2>3, CrashDoes, ThrowsDoes DEF Requeues
  <2>5. proc[p].type # "none"
    BY <2>3, <2>4, ProcFacts DEF ProcOK, Typed
  <2>. QED
    BY <1>1, <2>2, <2>3, <2>5 DEF Early
<1>7. CASE Evaluates(p, x)
  <2>1. ~Decide(p)
    <3>1. ASSUME p \in Jobs, Decide(p)
          PROVE  FALSE
      <4>1. Evaluator(p, r)
        BY <1>1, <1>7 DEF Evaluates, Same, Evaluator, IsEvaluator
      <4>2. run'[r].status = "evaluating"
        BY <3>1, <4>1, BuddingRow
      <4>3. run'[r].status # "evaluating"
        BY <3>1, <4>1, DecidedRow DEF Evaluator
      <4>. QED
        BY <4>2, <4>3
    <3>. QED
      BY <1>7, <3>1 DEF Evaluates, Decide, Finds, Early
  <2>. QED
    BY <1>1, <1>7, <2>1 DEF Evaluates, Early, Finds
<1>8. ~Approves(p, x) /\ ~Dispatches(p, x) /\ ~Batches(p, x)
  BY <1>1, <1>3, ProcFacts DEF Approves, Dispatches, Batches, Same, Early, Finds
<1>9. ~Collects(p, x)
  BY DEF Collects, PlainInv
<1>10. CASE Announces(p, x)
  BY <1>1, <1>10 DEF Announces, Early, Finds
<1>. QED
  BY <1>1, <1>2, <1>3, <1>5, <1>6, <1>7, <1>8, <1>9, <1>10 DEF ProcStep

LEMMA BuddingNew ==
  ASSUME Base, NEW p \in Procs, CreateRun(p), NEW r \in Runs, r = last + 1
  PROVE  /\ run'[r].status = "evaluating" /\ ~run'[r].started /\ ~run'[r].approved
         /\ \A q \in Procs : proc'[q].run = r => Early(proc'[q])
<1>1. PICK x : Becomes(p, x) /\ x.op = "announce"
  BY CreateRunDoes
<1>2. \A q \in Procs : proc[q].run # r
  BY NobodyAhead
<1>3. run[r] = NoRow
  BY RowFacts DEF RunOK
<1>4. RowSet(r, "evaluating", run[r].started, run[r].approved, run[r].due)
  BY CreateRunDoes, WriteRow DEF Active
<1>. QED
  BY <1>1, <1>2, <1>3, <1>4, NoRowFacts DEF Becomes, Early, Finds, RowSet

LEMMA PlainKept ==
  ASSUME Base, Plain, PlainInv, Next
  PROVE  PlainInv'
<1>1. \A p \in Procs : proc'[p].type # "item" /\ proc'[p].op # "count"
  BY PlainOps
<1>2. \A r \in Runs, p, q \in Procs : Evaluator(p, r)' /\ Evaluator(q, r)' => p = q
  BY OneEvaluatorKept
<1>3. ASSUME NEW r \in Runs, Budding(r)'
      PROVE  /\ run'[r].status \in {"evaluating", "cancelled"} /\ ~run'[r].started /\ ~run'[r].approved
             /\ \A p \in Procs : proc'[p].run = r => Early(proc'[p])
  BY <1>3, BuddingOrigin, BuddingRow, BuddingProcs, BuddingNew
<1>. QED
  BY <1>1, <1>2, <1>3 DEF PlainInv, Early, Finds

LEMMA PlainInit ==
  ASSUME Init
  PROVE  PlainInv
BY IdleFacts, NoRowFacts DEF Init, PlainInv, Evaluator, IsEvaluator, Budding, Finds

-----------------------------------------------------------------------------
(* How a run reports itself.  A run settles when none of its items waits,   *)
(* and none is added or closed with an error afterwards.                    *)

Honest(r) ==
  run[r].started /\ run[r].status \in {"completed", "completed_with_errors"}
    => Matched(r) = {} /\ (run[r].status = "completed" => ~Erred(r))

LEMMA HonestKept ==
  ASSUME Base, Next, NEW r \in Runs, Honest(r),
         run[r].started /\ run[r].status \in {"completed", "completed_with_errors"}
           => \A i \in Items : ~Added(r, i),
         \A j \in Jobs : Decide(j) /\ proc[j].run = r => ~run[r].started,
         \A j \in Jobs : SettleRun(j) /\ proc[j].run = r /\ run[r].status = "running" => Matched(r) = {},
         EmptyAt(r) => ~Erred(r)
  PROVE  Honest(r)'
<1> SUFFICES ASSUME run'[r].started, run'[r].status \in {"completed", "completed_with_errors"}
             PROVE  Matched(r)' = {} /\ (run'[r].status = "completed" => ~Erred(r)')
  BY DEF Honest
<1>1. RowStep(r)
  BY RowSteps
<1>2. CASE Keeps(r)
  <2>1. /\ run[r].started /\ run'[r].status = run[r].status
        /\ Matched(r) = {} /\ (run[r].status = "completed" => ~Erred(r))
    BY <1>2 DEF Keeps, Puts, Honest
  <2>2. \A i \in Items : ~Added(r, i) /\ item[r][i] # "matched"
    BY <2>1 DEF Matched
  <2>3. \A i \in Items : item'[r][i] = item[r][i] \/ item'[r][i] = "none"
    BY <2>2, ItemSteps DEF ItemStep, Removed
  <2>. QED
    BY <2>1, <2>2, <2>3 DEF Matched, Erred
<1>3. ASSUME NEW j \in Jobs, SettleRun(j), proc[j].run = r, run[r].status = "running"
      PROVE  Matched(r)' = {} /\ (run'[r].status = "completed" => ~Erred(r)')
  <2>1. Matched(r) = {} /\ item' = item
    BY <1>3, SettleRunDoes
  <2>2. run'[r].status = "completed" => ~Erred(r)
    <3>1. CASE Erred(r)
      <4>1. Write(r, "completed_with_errors")
        BY <1>3, <3>1, SettleRunDoes
      <4>. QED
        BY <4>1, WriteRow DEF Terminal, RowSet
    <3>. QED
      BY <3>1
  <2>. QED
    BY <2>1, <2>2 DEF Matched, Erred
<1>4. CASE SettledBy(r)
  BY <1>3, <1>4 DEF SettledBy
<1>5. CASE EmptyAt(r)
  <2>1. item' = item /\ Matched(r) = {} /\ ~Erred(r)
    BY <1>5, DispatchRunDoes DEF EmptyAt
  <2>. QED
    BY <2>1 DEF Matched, Erred
<1>6. ~Evaluated(r)
  BY DEF Evaluated, Puts, Starts
<1>. QED
  BY <1>1, <1>2, <1>4, <1>5, <1>6, NoRowFacts DEF RowStep, Creates, Opens, Changes, Puts, Starts,
     ApprovedBy, CancelledBy, Stamped, FallsDue, FailedBy

\* Without an enriched workflow: what is about to settle has nothing waiting.
SettlesEmpty == \A p \in Procs : proc[p].op = "settle" => Matched(proc[p].run) = {}

LEMMA PlainAdds ==
  ASSUME Base, Plain, PlainInv, NEW r \in Runs, NEW i \in Items, Added(r, i)
  PROVE  /\ ~run[r].started
         /\ \A p \in Procs : proc[p].run = r => proc[p].op # "settle"
<1>1. ~AddsTo(r, i)
  BY AppendDoes DEF AddsTo, PlainInv, Procs
<1>2. Budding(r)
  BY <1>1 DEF Added, Budding, Finds, Procs
<1>3. \A p \in Procs : Early(proc[p]) => proc[p].op # "settle"
  BY DEF Early, Finds
<1>. QED
  BY <1>2, <1>3 DEF PlainInv

LEMMA SettleOrigin ==
  ASSUME Base, Next, NEW p \in Procs, proc'[p].op = "settle"
  PROVE  \/ proc'[p] = proc[p]
         \/ proc'[p].run = proc[p].run /\ Drained(proc[p].run) /\ Frame
<1>1. PICK x : x = proc'[p] /\ x.op = "settle"
  OBVIOUS
<1>2. ProcStep(p, x) /\ x # Idle
  BY <1>1, ProcSteps, IdleFacts
<1>3. ~Begins(p, x) /\ ~Requeues(p, x) /\ ~Evaluates(p, x) /\ ~Approves(p, x) /\ ~Dispatches(p, x)
      /\ ~Announces(p, x)
  BY <1>1, <1>2 DEF Begins, Requeues, Remains, Evaluates, Approves, Dispatches, Announces
<1>4. ~Collects(p, x)
  BY <1>1 DEF Collects
<1>. QED
  BY <1>1, <1>2, <1>3, <1>4 DEF ProcStep, Batches, Same

LEMMA SettleRuns ==
  ASSUME Base, NEW p \in Procs, proc[p].op = "settle"
  PROVE  proc[p].type = "batch" /\ proc[p].run \in Runs
BY ProcFacts DEF ProcOK, Typed, AloneOps, EvaluateOps, ItemOps, Asking

LEMMA SettlesEmptyKept ==
  ASSUME Base, Plain, PlainInv, SettlesEmpty, Next
  PROVE  SettlesEmpty'
<1> SUFFICES ASSUME NEW p \in Procs, proc'[p].op = "settle"
             PROVE  \A i \in Items : item'[proc'[p].run][i] # "matched"
  BY DEF SettlesEmpty, Matched
<1>1. CASE proc'[p] = proc[p]
  <2>1. PICK r \in Runs : r = proc[p].run
    BY <1>1, SettleRuns
  <2>2. Matched(r) = {}
    BY <1>1, <2>1 DEF SettlesEmpty
  <2>3. ASSUME NEW i \in Items
        PROVE  item'[r][i] # "matched"
    <3>1. item[r][i] # "matched"
      BY <2>2 DEF Matched
    <3>2. ~Added(r, i)
      BY <1>1, <2>1, PlainAdds
    <3>. QED
      BY <3>1, <3>2, ItemSteps DEF ItemStep, Removed
  <2>. QED
    BY <1>1, <2>1, <2>3
<1>2. CASE proc'[p].run = proc[p].run /\ Drained(proc[p].run) /\ Frame
  BY <1>2 DEF Drained, Matched, Frame
<1>. QED
  BY <1>1, <1>2, SettleOrigin

LEMMA PlainHonest ==
  ASSUME Base, Plain, PlainInv, SettlesEmpty, Next, NEW r \in Runs, Honest(r)
  PROVE  Honest(r)'
<1>1. run[r].started => \A i \in Items : ~Added(r, i)
  BY PlainAdds
<1>2. \A j \in Jobs : Decide(j) /\ proc[j].run = r => ~run[r].started
  BY DecideDoes DEF PlainInv, Budding, Finds, Procs
<1>3. \A j \in Jobs : SettleRun(j) /\ proc[j].run = r => Matched(r) = {}
  BY SettleRunDoes DEF SettlesEmpty, Procs
<1>4. ~EmptyAt(r)
  BY DispatchRunDoes DEF EmptyAt, PlainInv
<1>. QED
  BY <1>1, <1>2, <1>3, <1>4, HonestKept

-----------------------------------------------------------------------------
(* The same of micro-runs.  A batch about to settle has nothing waiting, or *)
(* its run was cancelled; an outcome is recorded only after the dispatch,   *)
(* which therefore finds no error.                                          *)

StillInv ==
  /\ OneHas /\ Rooted
  /\ \A p \in Procs : proc[p].op = "settle" =>
       Matched(proc[p].run) = {} \/ run[proc[p].run].status = "cancelled"
  /\ \A r \in Runs, i \in Items : item[r][i] \in ItemDone => Exists(r) /\ run[r].approved
  /\ \A p \in Procs : proc[p].op = "count" =>
       /\ \A q \in Procs : Works(proc[q]) /\ proc[q].run = proc[p].run => q = p
       /\ \A i \in Items : item[proc[p].run][i] \notin ItemDone

LEMMA WorksApproved ==
  ASSUME Base, AllCleared, Rooted, NEW p \in Procs, Works(proc[p])
  PROVE  /\ proc[p].run \in Runs /\ Exists(proc[p].run) /\ run[proc[p].run].approved
         /\ ~DeleteOld(proc[p].run)
<1>1. proc[p].run \in Runs /\ proc[p].run # 0
  BY WorksRun, WorkflowAssumption DEF Runs
<1>. QED
  BY <1>1, NoneDeleted DEF AllCleared, Rooted, Cleared

LEMMA ApprovedOn ==
  ASSUME Base, Next, NEW r \in Runs, Exists(r), run[r].approved, ~DeleteOld(r)
  PROVE  run'[r].status # "none" /\ run'[r].approved
<1>1. r <= last
  BY RowFacts
<1>2. Clears(r)
  BY <1>1, ClearedLasts DEF Lasting, Cleared
<1>3. run'[r].status # "none"
  BY ExistsOn
<1>. QED
  BY <1>2, <1>3 DEF Clears

LEMMA MicroAdds ==
  ASSUME Base, Quiet, NEW r \in Runs, NEW i \in Items, Added(r, i)
  PROVE  AddsTo(r, i) /\ item'[r][i] = "matched"
BY EvaluatePageDoes DEF Added, Quiet, Procs

LEMMA DoneApproved ==
  ASSUME Base, Still, StillInv, Next, NEW r \in Runs, NEW i \in Items, item'[r][i] \in ItemDone
  PROVE  run'[r].status # "none" /\ run'[r].approved
<1>0. AllCleared /\ Rooted
  BY DEF StillInv, OneHas, OneOpen
<1>1. CASE item'[r][i] = item[r][i]
  <2>1. ~DeleteOld(r)
    BY NoneDeleted DEF ItemDone
  <2>. QED
    BY <1>1, <2>1, ApprovedOn DEF StillInv
<1>2. ASSUME NEW j \in Jobs, CloseItem(j), proc[j].run = r
      PROVE  run'[r].status # "none" /\ run'[r].approved
  <2>1. run' = run /\ Works(proc[j]) /\ j \in Procs
    BY <1>2, CloseItemDoes DEF Works, Procs
  <2>. QED
    BY <1>0, <1>2, <2>1, WorksApproved DEF Exists
<1>3. ~Removed(r, i) /\ ~Added(r, i) /\ ~LeftOut(r, i)
  BY DEF Removed, Added, LeftOut, ItemDone
<1>. QED
  BY <1>1, <1>2, <1>3, ItemSteps DEF ItemStep, ClosedBy

LEMMA WorksOrigin ==
  ASSUME Base, Quiet, Next, NEW q \in Procs, NEW r \in Runs, Works(proc'[q]), proc'[q].run = r
  PROVE  \/ Works(proc[q]) /\ proc[q].run = r
         \/ \E s \in Procs : Works(proc[s]) /\ proc[s].op # "count" /\ proc[s].run = r
         \/ StampRun(q, r)
<1>1. PICK x : x = proc'[q] /\ Works(x) /\ x.run = r
  OBVIOUS
<1>2. ProcStep(q, x) /\ x # Idle
  BY <1>1, ProcSteps, IdleWorksNot
<1>3. \A s \in Procs : proc[s].type = "batch" => proc[s].op # "count"
  BY ProcFacts DEF ProcOK, Typed, BatchOps
<1>4. CASE Begins(q, x)
  <2>1. CASE \E j \in Jobs : Redeliver(j) /\ Remains(x, j)
    <3>1. PICK j \in Jobs : Remains(x, j)
      BY <2>1
    <3>. QED
      BY <1>1, <1>2, <1>3, <3>1 DEF Remains, Works, Procs
  <2>2. CASE ~\E j \in Jobs : Redeliver(j) /\ Remains(x, j)
    BY <1>1, <1>4, <2>2 DEF Begins, Works
  <2>. QED
    BY <2>1, <2>2
<1>5. CASE Requeues(q, x)
  BY <1>1, <1>2, <1>5 DEF Requeues, Remains, Works
<1>6. ~Evaluates(q, x)
  BY DEF Evaluates, Quiet
<1>7. CASE Approves(q, x)
  BY <1>1, <1>7 DEF Approves, Same, Works, Quiet
<1>8. CASE Dispatches(q, x) \/ Batches(q, x)
  BY <1>1, <1>8 DEF Dispatches, Batches, Same, Works
<1>9. ~Collects(q, x) /\ ~Announces(q, x)
  BY <1>1 DEF Collects, Announces, Works
<1>. QED
  BY <1>1, <1>2, <1>4, <1>5, <1>6, <1>7, <1>8, <1>9 DEF ProcStep

LEMMA CountOrigin ==
  ASSUME Base, Next, NEW p \in Procs, proc'[p].op = "count"
  PROVE  \/ proc'[p] = proc[p] /\ proc[p].run \in Runs
         \/ p \in Crons /\ proc'[p].run \in Runs /\ StampRun(p, proc'[p].run)
<1>1. PICK x : x = proc'[p] /\ x.op = "count"
  OBVIOUS
<1>2. ProcStep(p, x) /\ x # Idle
  BY <1>1, ProcSteps, IdleFacts
<1>3. ~Requeues(p, x) /\ ~Evaluates(p, x) /\ ~Approves(p, x) /\ ~Dispatches(p, x)
      /\ ~Batches(p, x) /\ ~Collects(p, x) /\ ~Announces(p, x)
  BY <1>1, <1>2 DEF Requeues, Remains, Evaluates, Approves, Dispatches, Batches, Collects, Announces
<1>4. CASE Begins(p, x)
  BY <1>1, <1>2, <1>4 DEF Begins, Remains
<1>5. CASE x = proc[p]
  BY <1>1, <1>5, AloneFacts
<1>. QED
  BY <1>1, <1>2, <1>3, <1>4, <1>5 DEF ProcStep

LEMMA CountAlone ==
  ASSUME Base, Still, StillInv, Next, NEW p \in Procs, proc'[p].op = "count"
  PROVE  /\ \A q \in Procs : Works(proc'[q]) /\ proc'[q].run = proc'[p].run => q = p
         /\ \A i \in Items : item'[proc'[p].run][i] \notin ItemDone
<1>0. AllCleared /\ Rooted /\ Quiet
  BY DEF StillInv, OneHas, OneOpen
<1>1. CASE proc'[p] = proc[p] /\ proc[p].run \in Runs
  <2>1. PICK r \in Runs : r = proc[p].run
    BY <1>1
  <2>2. /\ proc[p].op = "count" /\ Works(proc[p])
        /\ \A q \in Procs : Works(proc[q]) /\ proc[q].run = r => q = p
        /\ \A i \in Items : item[r][i] \notin ItemDone
    BY <1>1, <2>1 DEF StillInv, Works
  <2>3. \A q \in Procs : ~StampRun(q, r)
    BY <1>0, <2>1, <2>2, WorksApproved DEF StampRun, Undispatched
  <2>4. ASSUME NEW q \in Procs, Works(proc'[q]), proc'[q].run = r
        PROVE  q = p
    BY <1>0, <2>2, <2>3, <2>4, WorksOrigin
  <2>5. ASSUME NEW i \in Items
        PROVE  item'[r][i] \notin ItemDone
    <3>1. ~ClosedBy(r, i)
      BY <2>2, CloseItemDoes DEF ClosedBy, Works, Moves, Procs
    <3>2. ~LeftOut(r, i) \/ item'[r][i] \notin ItemDone
      BY DEF LeftOut, ItemDone
    <3>. QED
      BY <2>2, <3>1, <3>2, ItemSteps DEF ItemStep, Removed, Added, ItemDone
  <2>. QED
    BY <1>1, <2>1, <2>4, <2>5
<1>2. CASE p \in Crons /\ proc'[p].run \in Runs /\ StampRun(p, proc'[p].run)
  <2>1. PICK r \in Runs : r = proc'[p].run /\ StampRun(p, r)
    BY <1>2
  <2>2. ~run[r].approved /\ item' = item
    BY <1>2, <2>1, StampRunDoes DEF Undispatched
  <2>3. \A q \in Procs : q # p => proc'[q] = proc[q]
    BY <1>2, <2>1, StampRunDoes DEF Walks, Becomes
  <2>4. \A q \in Procs : Works(proc[q]) => proc[q].run # r
    BY <1>0, <2>2, WorksApproved
  <2>. QED
    BY <2>1, <2>2, <2>3, <2>4 DEF StillInv
<1>. QED
  BY <1>1, <1>2, CountOrigin

LEMMA StillSettles ==
  ASSUME Base, Still, StillInv, Next, NEW p \in Procs, proc'[p].op = "settle"
  PROVE  \/ \A i \in Items : item'[proc'[p].run][i] # "matched"
         \/ run'[proc'[p].run].status = "cancelled"
<1>0. AllCleared /\ Rooted /\ Quiet /\ OneHas /\ Micro
  BY DEF StillInv, OneHas, OneOpen, Still
<1>1. CASE proc'[p] = proc[p]
  <2>1. PICK r \in Runs : r = proc[p].run /\ Works(proc[p])
    BY <1>1, SettleRuns DEF Works
  <2>2. Exists(r) /\ run[r].approved /\ ~DeleteOld(r)
    BY <1>0, <2>1, WorksApproved
  <2>3. CASE run[r].status = "cancelled"
    BY <1>0, <1>1, <2>1, <2>2, <2>3, CancelledLasts
  <2>4. ASSUME Matched(r) = {}, run'[r].status # "cancelled", NEW i \in Items, item'[r][i] = "matched"
        PROVE  FALSE
    <3>1. AddsTo(r, i)
      <4>1. item[r][i] # "matched"
        BY <2>4 DEF Matched
      <4>2. Added(r, i)
        BY <2>4, <4>1, ItemSteps DEF ItemStep, Removed
      <4>. QED
        BY <1>0, <4>2, MicroAdds
    <3>2. Receives(r)'
      BY <1>0, <2>4, <3>1, AddedReceives
    <3>3. run'[r].approved
      BY <2>2, ApprovedOn
    <3>. QED
      BY <2>4, <3>2, <3>3 DEF Receives, OpenRuns
  <2>5. Matched(r) = {} \/ run[r].status = "cancelled"
    BY <1>1, <2>1 DEF StillInv
  <2>. QED
    BY <1>1, <2>1, <2>3, <2>4, <2>5
<1>2. CASE proc'[p].run = proc[p].run /\ Drained(proc[p].run) /\ Frame
  BY <1>2 DEF Drained, Matched, Frame
<1>. QED
  BY <1>1, <1>2, SettleOrigin

LEMMA StillKept ==
  ASSUME Base, Still, StillInv, Next
  PROVE  StillInv'
<1>1. OneHas' /\ Rooted'
  BY OneHasKept, RootedKept DEF StillInv
<1>2. ASSUME NEW p \in Procs, proc'[p].op = "settle"
      PROVE  Matched(proc[p].run)' = {} \/ run'[proc'[p].run].status = "cancelled"
  BY <1>2, StillSettles DEF Matched
<1>3. ASSUME NEW r \in Runs, NEW i \in Items, item'[r][i] \in ItemDone
      PROVE  Exists(r)' /\ run'[r].approved
  BY <1>3, DoneApproved DEF Exists
<1>4. ASSUME NEW p \in Procs, proc'[p].op = "count"
      PROVE  /\ \A q \in Procs : Works(proc[q])' /\ proc'[q].run = proc'[p].run => q = p
             /\ \A i \in Items : item'[proc'[p].run][i] \notin ItemDone
  BY <1>4, CountAlone DEF Works
<1>. QED
  BY <1>1, <1>2, <1>3, <1>4 DEF StillInv

LEMMA StillInit ==
  ASSUME Init
  PROVE  StillInv
<1>1. \A r \in Runs, i \in Items : item[r][i] = "none"
  BY DEF Init
<1>2. \A p \in Procs : proc[p].op = "idle"
  BY IdleFacts DEF Init
<1>. QED
  BY <1>1, <1>2, OneHasInit, RootedInit DEF StillInv, ItemDone

LEMMA AppendKeeps ==
  ASSUME Base, NEW r \in Runs, NEW i \in Items, AddsTo(r, i), Exists(r)
  PROVE  run'[r].status = run[r].status
<1>1. PICK k \in Jobs : Append(k)
  BY DEF AddsTo
<1>2. r # last + 1
  BY RowFacts
<1>3. \/ run' = run
      \/ proc[k].run \in Runs /\ run' = [run EXCEPT ![proc[k].run].matched = @ + 1]
      \/ run' = [run EXCEPT ![last + 1] =
                   [NoRow EXCEPT !.status = "running", !.started = TRUE, !.matched = 1]]
  BY <1>1, AppendDoes
<1>4. run \in [Runs -> Row] /\ run[r] \in Row
  BY DEF Base, TypeOK
<1>5. CASE proc[k].run \in Runs /\ run' = [run EXCEPT ![proc[k].run].matched = @ + 1]
  <2>1. PICK q \in Runs : q = proc[k].run
    BY <1>5
  <2>2. run' = [run EXCEPT ![q].matched = run[q].matched + 1]
    BY <1>5, <2>1
  <2>. QED
    BY <1>4, <2>2 DEF Row
<1>. QED
  BY <1>2, <1>3, <1>4, <1>5

LEMMA StillHonest ==
  ASSUME Base, Still, StillInv, Next, NEW r \in Runs, Honest(r)
  PROVE  Honest(r)'
<1>0. Quiet /\ OneHas
  BY DEF StillInv, OneHas, OneOpen
<1>1. ASSUME run[r].status \in {"completed", "completed_with_errors"}, NEW i \in Items, Added(r, i)
      PROVE  FALSE
  <2>1. AddsTo(r, i) /\ item'[r][i] # "none"
    BY <1>0, <1>1, MicroAdds
  <2>2. run'[r].status = run[r].status
    BY <1>1, <2>1, AppendKeeps DEF Exists
  <2>3. Receives(r)'
    BY <1>0, <2>1, AddedReceives
  <2>. QED
    BY <1>1, <2>2, <2>3 DEF Receives, OpenRuns
<1>2. \A j \in Jobs : ~Decide(j)
  BY <1>0, NoDecide
<1>3. \A j \in Jobs : SettleRun(j) /\ proc[j].run = r /\ run[r].status = "running" => Matched(r) = {}
  BY SettleRunDoes DEF StillInv, Procs
<1>4. EmptyAt(r) => ~Erred(r)
  BY DispatchRunDoes DEF EmptyAt, StillInv, Erred, ItemDone
<1>. QED
  BY <1>1, <1>2, <1>3, <1>4, HonestKept

HonestInv ==
  /\ Base
  /\ Plain => PlainInv /\ SettlesEmpty
  /\ Still => StillInv
  /\ Plain \/ Still => \A r \in Runs : Honest(r)

LEMMA HonestInit == Init => HonestInv
<1> SUFFICES ASSUME Init PROVE HonestInv
  OBVIOUS
<1>1. SettlesEmpty
  BY IdleFacts DEF Init, SettlesEmpty
<1>2. \A r \in Runs : Honest(r)
  BY NoRowFacts DEF Init, Honest
<1>. QED
  BY <1>1, <1>2, BaseInit, PlainInit, StillInit DEF HonestInv

LEMMA HonestStutters ==
  ASSUME HonestInv, UNCHANGED vars
  PROVE  HonestInv'
<1>1. UNCHANGED <<setting, run, item, media, proc, last, acted>>
  BY DEF vars
<1>2. Base'
  BY BaseStep DEF HonestInv
<1>3. (Plain' <=> Plain) /\ (Still' <=> Still)
  BY <1>1 DEF Plain, Still, Micro, Enriched, Without
<1>4. PlainInv => PlainInv'
  BY <1>1 DEF PlainInv, Evaluator, IsEvaluator, Budding, Finds, Early
<1>5. SettlesEmpty => SettlesEmpty'
  BY <1>1 DEF SettlesEmpty, Matched
<1>6. OneHas => OneHas'
  <2>1. Quiet => Quiet'
    BY <1>1 DEF Quiet
  <2>2. AllCleared => AllCleared'
    BY <1>1 DEF AllCleared, Works, Cleared, Exists
  <2>3. OneOpen => OneOpen'
    BY <1>1, <2>1, <2>2 DEF OneOpen, Appending, OpenRuns
  <2>. QED
    BY <1>1, <2>3 DEF OneHas, Holding, Appending, Receives, OpenRuns, Has
<1>7. StillInv => StillInv'
  BY <1>1, <1>6 DEF StillInv, Rooted, Exists, Matched, Works
<1>8. ASSUME NEW r \in Runs, Honest(r)
      PROVE  Honest(r)'
  BY <1>1, <1>8 DEF Honest, Matched, Erred
<1>. QED
  BY <1>2, <1>3, <1>4, <1>5, <1>7, <1>8 DEF HonestInv

LEMMA HonestStep ==
  ASSUME HonestInv, Next
  PROVE  HonestInv'
<1>1. Base /\ Base'
  BY BaseStep DEF HonestInv
<1>2. (Plain' <=> Plain) /\ (Still' <=> Still)
  BY SettingStays DEF Plain, Still, Micro, Enriched, Without
<1>3. CASE Plain
  <2>1. PlainInv /\ SettlesEmpty /\ ~Still
    BY <1>3 DEF HonestInv, Plain, Still, Micro
  <2>2. PlainInv' /\ SettlesEmpty'
    BY <1>1, <1>3, <2>1, PlainKept, SettlesEmptyKept
  <2>3. ASSUME NEW r \in Runs
        PROVE  Honest(r)'
    BY <1>1, <1>3, <2>1, PlainHonest DEF HonestInv
  <2>. QED
    BY <1>1, <1>2, <2>1, <2>2, <2>3 DEF HonestInv
<1>4. CASE Still
  <2>1. StillInv /\ ~Plain
    BY <1>4 DEF HonestInv, Plain, Still, Micro
  <2>2. StillInv'
    BY <1>1, <1>4, <2>1, StillKept
  <2>3. ASSUME NEW r \in Runs
        PROVE  Honest(r)'
    BY <1>1, <1>4, <2>1, StillHonest DEF HonestInv
  <2>. QED
    BY <1>1, <1>2, <2>1, <2>2, <2>3 DEF HonestInv
<1>. QED
  BY <1>1, <1>2, <1>3, <1>4 DEF HonestInv

\* Settled honestly: a run that was executed and says completed left no item
\* waiting and none in error, whatever crashes, throws or is cancelled while
\* its batches are executed: maybeFinalizeRun counts what still waits before
\* it writes, and nothing joins a run that is through.
THEOREM RunsSettleHonestly == Spec => []SettledHonest
<1>1. HonestInv /\ [Next]_vars => HonestInv'
  BY HonestStutters, HonestStep
<1>2. HonestInv => SettledHonest
  <2> SUFFICES ASSUME HonestInv, Without({"window", "redeliver", "runNow"})
               PROVE  \A r \in Runs : Honest(r)
    BY DEF SettledHonest, Honest, Drained
  <2>1. Plain \/ Still
    BY DEF Plain, Still, Micro, Without
  <2>. QED
    BY <2>1 DEF HonestInv
<1>. QED
  BY <1>1, <1>2, HonestInit, PTL DEF Spec

-----------------------------------------------------------------------------
(* A run that is reviewed.  As long as a request writes on the status it    *)
(* read and a job is executed once, a run that awaits approval has no       *)
(* evaluation and one member at work on it, and was neither started nor     *)
(* approved.                                                                *)

Steady == ~Enriched /\ Without({"stale", "redeliver"})

SteadyInv ==
  /\ PlainInv
  /\ Gated => AllCleared
  /\ \A r \in Runs : run[r].status = "awaiting_approval" =>
       ~run[r].started /\ ~run[r].approved /\ \A p \in Procs : ~Evaluator(p, r)
  /\ \A p \in Procs : proc[p].op \in {"page", "decide"} => run[proc[p].run].status = "evaluating"
  /\ \A p \in Procs : proc[p].op \in {"exclude", "approve"} =>
       run[proc[p].run].status = "awaiting_approval"
  /\ \A p, q \in Procs : proc[p].op \in Asking /\ proc[q].op \in Asking /\ proc[p].run = proc[q].run
       => p = q

LEMMA SteadyPlain ==
  ASSUME Steady
  PROVE  Plain /\ ~May("stale") /\ ~May("redeliver")
BY DEF Steady, Plain, Without, May

LEMMA AwaitingKept ==
  ASSUME Base, Steady, SteadyInv, Next, NEW r \in Runs, run'[r].status = "awaiting_approval"
  PROVE  ~run'[r].started /\ ~run'[r].approved /\ \A p \in Procs : ~Evaluator(p, r)'
<1>1. RowStep(r) /\ PlainInv /\ Plain
  BY RowSteps, SteadyPlain DEF SteadyInv
<1>2. CASE Keeps(r)
  <2>1. /\ run[r].status = "awaiting_approval" /\ ~run[r].started /\ ~run[r].approved
        /\ \A p \in Procs : ~Evaluator(p, r)
    BY <1>2 DEF Keeps, Puts, SteadyInv
  <2>2. r # last + 1
    BY <2>1, RowFacts DEF Exists
  <2>3. \A p \in Procs : ~Evaluator(p, r)'
    BY <1>1, <2>1, <2>2, EvaluatorOrigin
  <2>. QED
    BY <1>2, <2>1, <2>3 DEF Keeps, Puts
<1>3. ASSUME NEW j \in Jobs, Decide(j), proc[j].run = r, Puts(r, "awaiting_approval")
      PROVE  ~run'[r].started /\ ~run'[r].approved /\ \A p \in Procs : ~Evaluator(p, r)'
  <2>1. j \in Procs /\ proc[j].type = "evaluate" /\ proc[j].op = "decide" /\ Evaluator(j, r)
    BY <1>3, DecideDoes DEF Procs, Evaluator, IsEvaluator
  <2>2. ~run[r].started /\ ~run[r].approved
    BY <1>1, <1>3, <2>1 DEF PlainInv, Budding, Finds
  <2>3. proc'[j] = Idle
    <3>1. ~(run' = [run EXCEPT ![r].status = "running", ![r].started = TRUE])
      BY StartRow DEF RowSet
    <3>. QED
      BY <1>3, <3>1, DecideDoes DEF Walks, Becomes
  <2>4. ASSUME NEW p \in Procs, Evaluator(p, r)'
        PROVE  FALSE
    <3>1. p # j
      BY <2>3, <2>4, IdleFacts DEF Evaluator, IsEvaluator
    <3>2. ~Evaluator(p, r) /\ r # last + 1
      BY <1>1, <1>3, <2>1, <3>1, NobodyAhead DEF PlainInv
    <3>3. PICK q \in Procs : Evaluator(q, r) /\ proc[q].op = "announce"
      BY <1>1, <2>4, <3>2, EvaluatorOrigin
    <3>. QED
      BY <1>1, <2>1, <3>3 DEF PlainInv
  <2>. QED
    BY <1>3, <2>2, <2>4 DEF Puts
<1>. QED
  BY <1>1, <1>2, <1>3, NoRowFacts DEF RowStep, Creates, Opens, Changes, Evaluated, Puts, Starts, ApprovedBy,
     CancelledBy, SettledBy, EmptyAt, Stamped, FallsDue, FailedBy

LEMMA EvaluatingKept ==
  ASSUME Base, Steady, SteadyInv, Next, NEW p \in Procs, proc'[p].op \in {"page", "decide"}
  PROVE  run'[proc'[p].run].status = "evaluating"
<1>0. Plain /\ PlainInv
  BY SteadyPlain DEF SteadyInv
<1>1. PICK x : x = proc'[p] /\ x.op \in {"page", "decide"}
  OBVIOUS
<1>2. ProcStep(p, x) /\ x # Idle
  BY <1>1, ProcSteps, IdleFacts
<1>3. ~Begins(p, x) /\ ~Requeues(p, x) /\ ~Approves(p, x) /\ ~Dispatches(p, x)
      /\ ~Batches(p, x) /\ ~Collects(p, x) /\ ~Announces(p, x)
  <2>1. ~\E j \in Jobs : Redeliver(j)
    BY SteadyPlain DEF Redeliver
  <2>. QED
    BY <1>1, <1>2, <2>1 DEF Begins, Requeues, Remains, Approves, Dispatches, Batches, Collects, Announces
<1>4. CASE Evaluates(p, x)
  BY <1>1, <1>4 DEF Evaluates, Same, SteadyInv
<1>5. CASE x = proc[p]
  <2>1. PICK r \in Runs : r = proc[p].run
    <3>1. proc[p].run \in Runs \cup {0} /\ ProcOK(proc[p], p, last, media)
      BY ProcFacts
    <3>2. proc[p].run # 0
      BY <1>1, <1>5, <3>1 DEF ProcOK, Typed, ItemOps, AloneOps, Asking
    <3>. QED
      BY <3>1, <3>2
  <2>2. run[r].status = "evaluating" /\ RowStep(r) /\ r # last + 1
    <3>1. run[r].status = "evaluating"
      BY <1>1, <1>5, <2>1 DEF SteadyInv
    <3>. QED
      BY <3>1, RowSteps, RowFacts DEF Exists
  <2>3. p \in Jobs /\ proc[p].type = "evaluate" /\ Evaluator(p, r)
    BY <1>1, <1>5, <2>1, ProcFacts DEF ProcOK, Typed, AloneOps, BatchOps, ItemOps, Asking, Evaluator, IsEvaluator
  <2>4. ASSUME NEW j \in Jobs, Decide(j) \/ Throws(j), proc[j].run = r, proc[j].type = "evaluate"
        PROVE  FALSE
    <3>1. j = p
      BY <1>0, <2>3, <2>4 DEF PlainInv, Evaluator, IsEvaluator, Procs
    <3>2. proc'[j].op \notin {"page", "decide"}
      <4>1. CASE Decide(j)
        BY <4>1, DecideDoes, IdleFacts DEF Moves, Walks, Becomes
      <4>2. CASE Throws(j)
        BY <4>2, ThrowsDoes, IdleFacts DEF Walks, Becomes, Remains
      <4>. QED
        BY <2>4, <4>1, <4>2
    <3>. QED
      BY <1>1, <3>1, <3>2
  <2>5. ~Evaluated(r) /\ ~FailedBy(r)
    BY <2>4, DecideDoes DEF Evaluated, FailedBy
  <2>6. ~ApprovedBy(r)
    <3>1. Budding(r)
      BY <1>1, <1>5, <2>1 DEF Budding, Finds
    <3>. QED
      BY <1>0, <3>1 DEF ApprovedBy, Approve, PlainInv, Early, Finds
  <2>7. ~CancelledBy(r)
    <3>1. Evaluating(r)
      BY <1>1, <1>5, <2>1, <2>3 DEF Evaluating
    <3>. QED
      BY <3>1, CancelDoes, SteadyPlain DEF CancelledBy
  <2>8. run'[r].status = "evaluating"
    BY <2>2, <2>5, <2>6, <2>7 DEF RowStep, Keeps, Puts, Changes, SettledBy, EmptyAt, Stamped, FallsDue,
       WindowElapses, OpenRuns, DeleteOld, Terminal
  <2>. QED
    BY <1>1, <1>5, <2>1, <2>8
<1>. QED
  BY <1>2, <1>3, <1>4, <1>5 DEF ProcStep

LEMMA AskOrigin ==
  ASSUME Base, Next, NEW p \in Procs, proc'[p].op \in Asking
  PROVE  \/ proc'[p] = proc[p]
         \/ Exclude(p) /\ proc'[p].op = "approve" /\ proc'[p].run = proc[p].run
         \/ \E r \in Runs : /\ proc'[p].run = r /\ p \in Requests
                            /\ \/ AskApprove(p, r) /\ proc'[p].op = "exclude"
                               \/ AskCancel(p, r) /\ proc'[p].op = "cancel"
<1>1. PICK x : x = proc'[p] /\ x.op \in Asking
  OBVIOUS
<1>2. ProcStep(p, x) /\ x # Idle
  BY <1>1, ProcSteps, IdleFacts DEF Asking
<1>3. ~Requeues(p, x) /\ ~Evaluates(p, x) /\ ~Dispatches(p, x)
      /\ ~Batches(p, x) /\ ~Collects(p, x) /\ ~Announces(p, x)
  BY <1>1, <1>2 DEF Requeues, Remains, Evaluates, Dispatches, Batches, Collects, Announces, Asking
<1>4. CASE Begins(p, x)
  <2>1. ~\E j \in Jobs : Remains(x, j)
    BY <1>1, <1>2 DEF Remains, Asking
  <2>. QED
    BY <1>1, <1>4, <2>1 DEF Begins, Asking
<1>5. CASE Approves(p, x)
  BY <1>1, <1>5 DEF Approves, Same, Asking
<1>. QED
  BY <1>1, <1>2, <1>3, <1>4, <1>5 DEF ProcStep

LEMMA AskAlone ==
  ASSUME Base, ~May("stale"), NEW p \in Requests, NEW r \in Runs, AskApprove(p, r) \/ AskCancel(p, r)
  PROVE  /\ \A q \in Procs : q # p => proc'[q] = proc[q]
         /\ \A q \in Procs : proc[q].op \in Asking => proc[q].run # r
         /\ run' = run /\ item' = item
<1>1. PICK op \in {"exclude", "cancel"} : Ask(p, r, op)
  BY DEF AskApprove, AskCancel
<1>2. ~Held(r) /\ run' = run /\ item' = item
  BY <1>1 DEF Ask
<1>3. \A q \in Procs : proc[q].op \in Asking => proc[q].run # r
  BY <1>2, ProcFacts DEF Held, Asking, ProcOK
<1>4. \A q \in Procs : q # p => proc'[q] = proc[q]
  BY <1>1 DEF Ask, Base, TypeOK
<1>. QED
  BY <1>2, <1>3, <1>4

LEMMA OneAskKept ==
  ASSUME Base, Steady, SteadyInv, Next, NEW p \in Procs, NEW q \in Procs,
         proc'[p].op \in Asking, proc'[q].op \in Asking, proc'[p].run = proc'[q].run
  PROVE  p = q
<1>1. ASSUME NEW s \in Procs, proc'[s].op \in Asking,
             ~(proc[s].op \in Asking /\ proc[s].run = proc'[s].run),
             NEW t \in Procs, t # s, proc'[t].op \in Asking
      PROVE  proc'[t].run # proc'[s].run
  <2>1. PICK r \in Runs : proc'[s].run = r /\ s \in Requests /\ (AskApprove(s, r) \/ AskCancel(s, r))
    BY <1>1, AskOrigin DEF Exclude, Asking
  <2>. QED
    BY <1>1, <2>1, AskAlone, SteadyPlain
<1>. QED
  BY <1>1 DEF SteadyInv

LEMMA ReviewKept ==
  ASSUME Base, Steady, SteadyInv, Next, NEW p \in Procs, proc'[p].op \in {"exclude", "approve"}
  PROVE  run'[proc'[p].run].status = "awaiting_approval"
<1>0. Plain /\ PlainInv /\ ~May("stale") /\ proc'[p].op \in Asking
  BY SteadyPlain DEF SteadyInv, Asking
<1>1. CASE Exclude(p) /\ proc'[p].run = proc[p].run
  BY <1>1, ExcludeDoes DEF Moves, SteadyInv
<1>2. ASSUME NEW r \in Runs, proc'[p].run = r, p \in Requests, AskApprove(p, r)
      PROVE  run'[r].status = "awaiting_approval"
  BY <1>0, <1>2, AskAlone DEF AskApprove, Approvable
<1>3. CASE proc'[p] = proc[p]
  <2>1. PICK r \in Runs : r = proc[p].run /\ p \in Requests
    <3>1. proc[p].op \in Asking
      BY <1>0, <1>3
    <3>. QED
      BY <3>1, AloneFacts, ProcFacts DEF ProcOK, Asking
  <2>2. run[r].status = "awaiting_approval" /\ \A q \in Procs : ~Evaluator(q, r)
    BY <1>3, <2>1 DEF SteadyInv
  <2>3. RowStep(r) /\ r # last + 1
    BY <2>2, RowSteps, RowFacts DEF Exists
  <2>4. ~Evaluated(r) /\ ~FailedBy(r)
    BY <2>2, DecideDoes DEF Evaluated, FailedBy, Evaluator, IsEvaluator, Procs
  <2>5. ASSUME NEW q \in Procs, proc[q].run = r, Approve(q) \/ Cancel(q)
        PROVE  FALSE
    <3>1. proc[q].op \in {"approve", "cancel"} /\ proc'[q].op \notin {"exclude", "approve"}
      <4>1. CASE Approve(q)
        BY <4>1, ApproveDoes, IdleFacts DEF Moves, Walks, Becomes
      <4>2. CASE Cancel(q)
        BY <4>2, CancelDoes, IdleFacts DEF Walks, Becomes
      <4>. QED
        BY <2>5, <4>1, <4>2
    <3>2. q = p
      BY <1>0, <1>3, <2>1, <2>5, <3>1 DEF SteadyInv, Asking
    <3>. QED
      BY <3>1, <3>2
  <2>6. ~ApprovedBy(r) /\ ~CancelledBy(r)
    BY <2>5 DEF ApprovedBy, CancelledBy
  <2>7. ~Expire(r)
    BY <1>0, <1>3, <2>1 DEF Expire, Held
  <2>8. run'[r].status = "awaiting_approval"
    BY <2>2, <2>3, <2>4, <2>6, <2>7 DEF RowStep, Keeps, Puts, Changes, SettledBy, EmptyAt, Stamped,
       FallsDue, WindowElapses, OpenRuns, DeleteOld, Terminal
  <2>. QED
    BY <1>3, <2>1, <2>8
<1>. QED
  BY <1>0, <1>1, <1>2, <1>3, AskOrigin

LEMMA SteadyKept ==
  ASSUME Base, Steady, SteadyInv, Next
  PROVE  SteadyInv'
<1>1. PlainInv'
  BY PlainKept, SteadyPlain DEF SteadyInv
<1>2. Gated' => AllCleared'
  <2>1. Gated' <=> Gated
    BY SettingStays DEF Gated
  <2>2. Gated => ~Bypasses
    BY DEF Gated, Bypasses
  <2>. QED
    BY <2>1, <2>2, ClearedStep DEF SteadyInv
<1>3. ASSUME NEW r \in Runs, run'[r].status = "awaiting_approval"
      PROVE  ~run'[r].started /\ ~run'[r].approved /\ \A p \in Procs : ~Evaluator(p, r)'
  BY <1>3, AwaitingKept
<1>4. ASSUME NEW p \in Procs, proc'[p].op \in {"page", "decide"}
      PROVE  run'[proc'[p].run].status = "evaluating"
  BY <1>4, EvaluatingKept
<1>5. ASSUME NEW p \in Procs, proc'[p].op \in {"exclude", "approve"}
      PROVE  run'[proc'[p].run].status = "awaiting_approval"
  BY <1>5, ReviewKept
<1>6. ASSUME NEW p \in Procs, NEW q \in Procs, proc'[p].op \in Asking, proc'[q].op \in Asking,
             proc'[p].run = proc'[q].run
      PROVE  p = q
  BY <1>6, OneAskKept
<1>. QED
  BY <1>1, <1>2, <1>3, <1>4, <1>5, <1>6 DEF SteadyInv

LEMMA SteadyInit ==
  ASSUME Init
  PROVE  SteadyInv
<1>1. \A p \in Procs : proc[p] = Idle
  BY DEF Init
<1>2. \A r \in Runs : run[r].status = "none"
  BY NoRowFacts DEF Init
<1>. QED
  BY <1>1, <1>2, PlainInit, ClearedInit, IdleFacts DEF SteadyInv, Asking

\* Where a member reviews a run, nothing works on it.
LEMMA ReviewedRests ==
  ASSUME Base, Steady, SteadyInv, NEW p \in Procs, proc[p].op \in {"exclude", "approve"},
         NEW r \in Runs, proc[p].run = r
  PROVE  /\ \A q \in Procs : Works(proc[q]) => proc[q].run # r
         /\ \A i \in Items : acted[r][i] = 0
<1>1. Exists(r) /\ ~run[r].approved
  BY DEF SteadyInv, Exists
<1>2. Gated
  BY ProcFacts DEF ProcOK, Gated, Bypasses, Base, TypeOK
<1>3. Gated => AllCleared
  BY DEF SteadyInv
<1>4. \A i \in Items : ~(acted[r][i] > 0) /\ acted[r][i] \in Nat
  BY <1>1, <1>2, <1>3 DEF AllCleared, Cleared, Base
<1>. QED
  BY <1>1, <1>2, <1>3, <1>4 DEF AllCleared, Cleared

-----------------------------------------------------------------------------
(* What a member left out.  An item that is about to be executed was        *)
(* claimed, and cannot be left out any more; what is left out was never     *)
(* executed.                                                                *)

LEMMA ActOrigin ==
  ASSUME Base, Next, NEW p \in Procs, proc'[p].op = "act"
  PROVE  /\ proc[p].type = "batch" /\ proc[p].run \in Runs
         /\ proc'[p].run = proc[p].run /\ proc'[p].todo = proc[p].todo
         /\ \/ proc'[p] = proc[p]
            \/ Claimable(proc[p].run, Least(proc[p].todo)) /\ Frame
<1>1. PICK x : x = proc'[p] /\ x.op = "act"
  OBVIOUS
<1>2. ProcStep(p, x) /\ x # Idle
  BY <1>1, ProcSteps, IdleFacts
<1>3. ~Begins(p, x) /\ ~Requeues(p, x) /\ ~Evaluates(p, x) /\ ~Approves(p, x) /\ ~Dispatches(p, x)
      /\ ~Collects(p, x) /\ ~Announces(p, x)
  BY <1>1, <1>2 DEF Begins, Requeues, Remains, Evaluates, Approves, Dispatches, Collects, Announces
<1>4. proc[p].type = "batch" => proc[p].run \in Runs
  BY WorksRun DEF Works
<1>5. CASE x = proc[p]
  <2>1. proc[p].type = "batch"
    BY <1>1, <1>5, ProcFacts DEF ProcOK, Typed, AloneOps, EvaluateOps, ItemOps, Asking
  <2>. QED
    BY <1>1, <1>4, <1>5, <2>1
<1>6. CASE Batches(p, x)
  BY <1>1, <1>4, <1>6 DEF Batches, Same
<1>. QED
  BY <1>1, <1>2, <1>3, <1>5, <1>6 DEF ProcStep

ExclusionInv ==
  /\ Base /\ (Steady => SteadyInv)
  /\ Steady =>
       /\ \A p \in Procs : proc[p].op = "act" =>
            item[proc[p].run][Least(proc[p].todo)] # "excluded"
       /\ \A r \in Runs, i \in Items : item[r][i] = "excluded" => acted[r][i] = 0

LEMMA LeftOutRests ==
  ASSUME Base, Steady, SteadyInv, NEW r \in Runs, NEW i \in Items, LeftOut(r, i)
  PROVE  /\ \A q \in Procs : Works(proc[q]) => proc[q].run # r
         /\ \A k \in Items : acted[r][k] = 0
<1>1. PICK p \in Procs : Exclude(p) /\ proc[p].run = r
  BY DEF LeftOut
<1>2. proc[p].op = "exclude"
  BY <1>1 DEF Exclude
<1>. QED
  BY <1>1, <1>2, ReviewedRests

LEMMA ExclusionStep ==
  ASSUME ExclusionInv, Next
  PROVE  ExclusionInv'
<1>1. Base /\ Base' /\ (Steady' <=> Steady)
  BY BaseStep, SettingStays DEF ExclusionInv, Steady, Enriched, Without
<1>2. CASE ~Steady
  BY <1>1, <1>2 DEF ExclusionInv
<1>3. CASE Steady
  <2>1. SteadyInv /\ SteadyInv'
    BY <1>1, <1>3, SteadyKept DEF ExclusionInv
  <2>2. ASSUME NEW r \in Runs, NEW i \in Items, item'[r][i] = "excluded", item[r][i] # "excluded"
        PROVE  LeftOut(r, i)
    <3>1. ~ClosedBy(r, i)
      <4>1. ASSUME NEW j \in Jobs, CloseItem(j)
            PROVE  item'[r][i] # "excluded" \/ item'[r][i] = item[r][i]
        <5>1. proc[j].op = "close" /\ proc[j].out \in Outs
          BY <1>1, <4>1, ProcFacts DEF CloseItem, Procs
        <5>2. proc[j].out # "excluded"
          BY <5>1, WorkflowAssumption DEF Outs
        <5>. QED
          BY <1>1, <4>1, <5>2 DEF CloseItem, Base, TypeOK
      <4>. QED
        BY <2>2, <4>1 DEF ClosedBy
    <3>. QED
      BY <1>1, <2>2, <3>1, ItemSteps DEF ItemStep, Removed, Added
  <2>3. ASSUME NEW p \in Procs, proc'[p].op = "act"
        PROVE  item'[proc'[p].run][Least(proc'[p].todo)] # "excluded"
    <3>0. PICK r \in Runs : r = proc[p].run
      BY <1>1, <2>3, ActOrigin
    <3>1. PICK i : i = Least(proc[p].todo)
      OBVIOUS
    <3>2. proc'[p].run = r /\ Least(proc'[p].todo) = i /\ Works(proc[p]) /\ i \in Items
      <4>1. proc[p].todo \in SUBSET Items /\ proc[p].todo # {}
        <5>1. proc'[p].todo # {}
          BY <1>1, <2>3 DEF Base, ProcOK
        <5>. QED
          BY <1>1, <2>3, <5>1, ActOrigin, ProcFacts
      <4>. QED
        BY <1>1, <2>3, <3>0, <3>1, <4>1, ActOrigin, LeastItem DEF Works
    <3>3. item[r][i] # "excluded"
      BY <1>1, <1>3, <2>3, <3>0, <3>1, ActOrigin DEF ExclusionInv, Claimable
    <3>4. ~LeftOut(r, i)
      BY <1>1, <1>3, <2>1, <3>0, <3>1, <3>2, LeftOutRests
    <3>. QED
      BY <2>2, <3>2, <3>3, <3>4
  <2>4. ASSUME NEW r \in Runs, NEW i \in Items, item'[r][i] = "excluded"
        PROVE  acted'[r][i] = 0
    <3>1. CASE item[r][i] = "excluded"
      <4>1. acted[r][i] = 0
        BY <1>3, <3>1 DEF ExclusionInv
      <4>2. \A j \in Jobs : Act(j) /\ proc[j].run = r => i # Least(proc[j].todo)
        BY <1>3, <3>1 DEF ExclusionInv, Act, Procs
      <4>. QED
        BY <1>1, <4>1, <4>2, ActedSteps DEF ActedStep
    <3>2. CASE item[r][i] # "excluded"
      <4>1. acted[r][i] = 0 /\ \A q \in Procs : Works(proc[q]) => proc[q].run # r
        BY <1>1, <1>3, <2>1, <2>2, <2>4, <3>2, LeftOutRests
      <4>2. \A j \in Jobs : Act(j) => proc[j].run # r
        BY <1>1, <4>1, ActDoes DEF Works, Procs
      <4>. QED
        BY <1>1, <4>1, <4>2, ActedSteps DEF ActedStep
    <3>. QED
      BY <3>1, <3>2
  <2>. QED
    BY <1>1, <2>1, <2>3, <2>4 DEF ExclusionInv
<1>. QED
  BY <1>2, <1>3

LEMMA SteadyStutters ==
  ASSUME UNCHANGED vars
  PROVE  (Steady' <=> Steady) /\ (SteadyInv => SteadyInv')
<1>1. UNCHANGED <<setting, run, item, media, proc, last, acted>>
  BY DEF vars
<1>2. PlainInv => PlainInv'
  BY <1>1 DEF PlainInv, Evaluator, IsEvaluator, Budding, Finds, Early
<1>3. (Gated => AllCleared) => (Gated' => AllCleared')
  BY <1>1 DEF Gated, AllCleared, Works, Cleared, Exists
<1>. QED
  BY <1>1, <1>2, <1>3 DEF Steady, Enriched, Without, SteadyInv, Evaluator, IsEvaluator, Asking

\* Left out for good: an item a member excluded when approving a run is never
\* executed for it, as long as a request does not write on a stale status and no
\* job is executed twice at a time: the claim of an item and its exclusion both
\* look for matched, in a run that is under review and in one that was approved.
THEOREM ExcludedUntouched == Spec => []ExclusionHolds
<1>1. Init => ExclusionInv
  <2> SUFFICES ASSUME Init PROVE ExclusionInv
    OBVIOUS
  <2>1. \A p \in Procs : proc[p].op # "act"
    BY IdleFacts DEF Init
  <2>2. \A r \in Runs, i \in Items : item[r][i] # "excluded"
    BY DEF Init
  <2>. QED
    BY <2>1, <2>2, BaseInit, SteadyInit DEF ExclusionInv
<1>2. ExclusionInv /\ [Next]_vars => ExclusionInv'
  <2>1. ASSUME ExclusionInv, UNCHANGED vars
        PROVE  ExclusionInv'
    <3>1. UNCHANGED <<item, proc, acted>>
      BY <2>1 DEF vars
    <3>2. Base'
      BY <2>1, BaseStep DEF ExclusionInv
    <3>. QED
      BY <2>1, <3>1, <3>2, SteadyStutters DEF ExclusionInv
  <2>. QED
    BY <2>1, ExclusionStep
<1>3. ExclusionInv => ExclusionHolds
  <2> SUFFICES ASSUME ExclusionInv, Without({"stale", "redeliver"}), NEW r \in Runs, NEW i \in Items,
                      item[r][i] = "excluded"
               PROVE  acted[r][i] = 0
    BY DEF ExclusionHolds
  <2>1. ~Bypasses
    BY DEF ExclusionInv, Base, RunOK
  <2>2. Steady
    BY <2>1 DEF Bypasses, Steady, Enriched
  <2>. QED
    BY <2>2 DEF ExclusionInv
<1>. QED
  BY <1>1, <1>2, <1>3, PTL DEF Spec

-----------------------------------------------------------------------------
(* Nothing is done twice.  One process hands out the items of a run, once,  *)
(* to batches that share none.                                              *)

\* As long as requests write on the status they read, jobs are executed once
\* at a time and no run of a workflow for enriched items is started by hand.
Calm == Without({"stale", "redeliver"}) /\ (Enriched => Without({"runNow"}))
CalmInv == (~Enriched => SteadyInv) /\ (Enriched => OneOpen)

Dispatching(x) == x.op \in {"count", "read", "post"}
DispatcherAt(p, r) == Dispatching(proc[p]) /\ proc[p].run = r

DispatchInv ==
  /\ \A r \in Runs, p, q \in Procs : DispatcherAt(p, r) /\ DispatcherAt(q, r) => p = q
  /\ \A r \in Runs, p, q \in Procs : DispatcherAt(p, r) /\ BatchAt(q, r) =>
       proc[p].op = "post" /\ proc[q].load \cap proc[p].todo = {}
  /\ \A r \in Runs, p, q \in Procs : BatchAt(p, r) /\ BatchAt(q, r) =>
       p = q \/ proc[p].load \cap proc[q].load = {}
  /\ \A p \in Procs : proc[p].op = "act" =>
       \/ item[proc[p].run][Least(proc[p].todo)] = "matched"
       \/ Least(proc[p].todo) \notin media

\* Process p begins to hand out the items of run r.
HandsOut(p, r) ==
  \/ p \in Jobs /\ Decide(p) /\ proc[p].run = r
  \/ Approve(p) /\ proc[p].run = r
  \/ p \in Crons /\ StampRun(p, r)

LEMMA DispatchOrigin ==
  ASSUME Base, Next, NEW p \in Procs, NEW r \in Runs, DispatcherAt(p, r)'
  PROVE  \/ /\ DispatcherAt(p, r)
            /\ \/ proc'[p].op # "post" /\ proc[p].op # "post"
               \/ proc'[p].op = "post" /\ proc[p].op = "read" /\ Frame
                  /\ proc'[p].todo = Matched(r)
               \/ /\ proc'[p].op = "post" /\ proc[p].op = "post"
                  /\ proc'[p].todo \subseteq proc[p].todo
         \/ HandsOut(p, r) /\ proc'[p].op # "post" /\ ~Dispatching(proc[p])
<1>1. PICK x : x = proc'[p]
  OBVIOUS
<1>2. ProcStep(p, x) /\ x.op \in {"count", "read", "post"} /\ x.run = r /\ x # Idle
  BY <1>1, ProcSteps, IdleFacts DEF DispatcherAt, Dispatching
<1>3. CASE Begins(p, x)
  BY <1>1, <1>2, <1>3, IdleFacts DEF Begins, Remains, HandsOut, Dispatching
<1>4. CASE Evaluates(p, x) \/ Approves(p, x) \/ Dispatches(p, x) \/ x = proc[p]
  BY <1>1, <1>2, <1>4 DEF Evaluates, Approves, Dispatches, Same, HandsOut, DispatcherAt, Dispatching
<1>5. ~Requeues(p, x) /\ ~Batches(p, x) /\ ~Collects(p, x) /\ ~Announces(p, x)
  BY <1>2 DEF Requeues, Remains, Batches, Collects, Announces
<1>. QED
  BY <1>2, <1>3, <1>4, <1>5 DEF ProcStep

\* Whoever begins to hand out the items of a run is the first at work on it.
LEMMA HandsOutFirst ==
  ASSUME Base, Calm, CalmInv, NEW p \in Procs, NEW r \in Runs, HandsOut(p, r)
  PROVE  /\ \A q \in Procs : Works(proc[q]) => proc[q].run # r
         /\ \A q \in Procs : q # p => proc'[q] = proc[q]
<1>1. \A q \in Procs : q # p => proc'[q] = proc[q]
  <2>1. CASE p \in Jobs /\ Decide(p)
    BY <2>1, DecideDoes DEF Moves, Walks, Becomes
  <2>2. CASE Approve(p)
    BY <2>2, ApproveDoes DEF Moves, Walks, Becomes
  <2>3. CASE p \in Crons /\ StampRun(p, r)
    BY <2>3, StampRunDoes DEF Walks, Becomes
  <2>. QED
    BY <2>1, <2>2, <2>3 DEF HandsOut
<1>2. CASE Enriched
  <2>1. Quiet /\ AllCleared
    BY <1>2 DEF CalmInv, OneOpen
  <2>2. ~Approve(p) /\ ~(p \in Jobs /\ Decide(p))
    BY <2>1, DecideDoes DEF Quiet, Approve
  <2>3. ~Cleared(r)
    BY <2>2 DEF HandsOut, StampRun, Undispatched, Cleared, Exists
  <2>. QED
    BY <1>1, <2>1, <2>3 DEF AllCleared
<1>3. CASE ~Enriched
  <2>1. SteadyInv /\ PlainInv /\ Steady
    BY <1>3 DEF CalmInv, SteadyInv, Calm, Steady
  <2>2. CASE p \in Jobs /\ Decide(p) /\ proc[p].run = r
    <3>1. Budding(r)
      BY <2>2, DecideDoes DEF Budding, Finds
    <3>2. ASSUME NEW q \in Procs, Early(proc[q])
          PROVE  ~Works(proc[q])
      BY <3>2, ProcFacts DEF Early, Works, Finds, ProcOK, Typed, BatchOps, Asking
    <3>. QED
      BY <1>1, <2>1, <3>1, <3>2 DEF PlainInv
  <2>3. CASE Approve(p) /\ proc[p].run = r
    BY <1>1, <2>1, <2>3, ApproveDoes, ReviewedRests
  <2>4. ~StampRun(p, r)
    BY <1>3, RowFacts DEF StampRun, RunOK
  <2>. QED
    BY <2>2, <2>3, <2>4 DEF HandsOut
<1>. QED
  BY <1>2, <1>3

LEMMA DispatcherWorks ==
  ASSUME NEW p \in Procs, NEW r \in Runs, DispatcherAt(p, r) \/ BatchAt(p, r)
  PROVE  Works(proc[p]) /\ proc[p].run = r
BY DEF DispatcherAt, Dispatching, BatchAt, Works

LEMMA OneDispatcherKept ==
  ASSUME Base, Calm, CalmInv, DispatchInv, Next, NEW r \in Runs, NEW p \in Procs, NEW q \in Procs,
         DispatcherAt(p, r)', DispatcherAt(q, r)'
  PROVE  p = q
<1>1. ASSUME NEW s \in Procs, HandsOut(s, r), ~Dispatching(proc[s]),
             NEW t \in Procs, DispatcherAt(t, r)'
      PROVE  t = s
  <2>1. CASE t # s
    <3>1. proc'[t] = proc[t]
      BY <1>1, <2>1, HandsOutFirst
    <3>2. DispatcherAt(t, r)
      BY <1>1, <3>1 DEF DispatcherAt
    <3>. QED
      BY <1>1, <3>2, HandsOutFirst, DispatcherWorks
  <2>. QED
    BY <2>1
<1>2. CASE DispatcherAt(p, r) /\ DispatcherAt(q, r)
  BY <1>2 DEF DispatchInv
<1>. QED
  BY <1>1, <1>2, DispatchOrigin

\* Where the batches of a run come from when jobs are executed once.
Posts(q, p, r) ==
  /\ proc[q].op = "post" /\ proc[q].run = r /\ p # q /\ PostBatch(q)
  /\ proc'[p].load \subseteq proc[q].todo /\ proc[p] = Idle
  /\ proc'[q].todo = proc[q].todo \ proc'[p].load

LEMMA BatchFrom ==
  ASSUME Base, Calm, Next, NEW p \in Procs, NEW r \in Runs, BatchAt(p, r)'
  PROVE  \/ BatchAt(p, r) /\ proc'[p].load = proc[p].load
         \/ \E q \in Procs : Posts(q, p, r)
<1>1. \A q \in Procs : ~Redeliver(q)
  BY DEF Calm, Without, Redeliver, May
<1>. QED
  BY <1>1, BatchOrigin DEF Posts

LEMMA DisjointKept ==
  ASSUME Base, Calm, CalmInv, DispatchInv, Next, NEW r \in Runs, NEW p \in Procs, NEW q \in Procs,
         BatchAt(p, r)', BatchAt(q, r)', p # q
  PROVE  proc'[p].load \cap proc'[q].load = {}
<1>1. CASE BatchAt(p, r) /\ proc'[p].load = proc[p].load /\ BatchAt(q, r) /\ proc'[q].load = proc[q].load
  BY <1>1 DEF DispatchInv
<1>2. ASSUME NEW a \in Procs, NEW b \in Procs, NEW s \in Procs, BatchAt(a, r),
             proc'[a].load = proc[a].load, Posts(s, b, r)
      PROVE  proc'[a].load \cap proc'[b].load = {}
  <2>1. DispatcherAt(s, r)
    BY <1>2 DEF Posts, DispatcherAt, Dispatching
  <2>2. proc[a].load \cap proc[s].todo = {}
    BY <1>2, <2>1 DEF DispatchInv
  <2>. QED
    BY <1>2, <2>2 DEF Posts
<1>3. ASSUME NEW s \in Procs, NEW t \in Procs, Posts(s, p, r), Posts(t, q, r)
      PROVE  FALSE
  <2>1. PICK x, y, k : Spawns(s, x, k, y)
    BY <1>3, PostBatchDoes DEF Posts
  <2>2. p # s /\ proc[p] = Idle /\ proc'[p] # proc[p] /\ proc[q] = Idle /\ proc'[q] # proc[q]
    BY <1>3, IdleFacts DEF Posts, BatchAt
  <2>3. q # s
    BY <1>3, IdleFacts DEF Posts
  <2>. QED
    BY <2>1, <2>2, <2>3 DEF Spawns
<1>. QED
  BY <1>1, <1>2, <1>3, BatchFrom

LEMMA HandedKept ==
  ASSUME Base, Calm, CalmInv, DispatchInv, Next, NEW r \in Runs, NEW p \in Procs, NEW q \in Procs,
         DispatcherAt(p, r)', BatchAt(q, r)'
  PROVE  proc'[p].op = "post" /\ proc'[q].load \cap proc'[p].todo = {}
<1>1. ASSUME NEW s \in Procs, Posts(s, q, r)
      PROVE  proc'[p].op = "post" /\ proc'[q].load \cap proc'[p].todo = {}
  <2>1. DispatcherAt(s, r) /\ proc[s].op = "post"
    BY <1>1 DEF Posts, DispatcherAt, Dispatching
  <2>2. ~HandsOut(p, r)
    BY <2>1, HandsOutFirst, DispatcherWorks
  <2>3. DispatcherAt(p, r)
    BY <2>2, DispatchOrigin
  <2>4. p = s
    BY <2>1, <2>3 DEF DispatchInv
  <2>5. proc'[p].op = "post"
    BY <2>1, <2>2, <2>4, DispatchOrigin
  <2>. QED
    BY <1>1, <2>4, <2>5 DEF Posts
<1>2. CASE BatchAt(q, r) /\ proc'[q].load = proc[q].load
  <2>1. ~HandsOut(p, r)
    BY <1>2, HandsOutFirst, DispatcherWorks
  <2>2. DispatcherAt(p, r)
    BY <2>1, DispatchOrigin
  <2>3. proc[p].op = "post" /\ proc[q].load \cap proc[p].todo = {}
    BY <1>2, <2>2 DEF DispatchInv
  <2>4. proc'[p].op = "post" /\ proc'[p].todo \subseteq proc[p].todo
    BY <2>1, <2>3, DispatchOrigin
  <2>. QED
    BY <1>2, <2>3, <2>4
<1>. QED
  BY <1>1, <1>2, BatchFrom

LEMMA LeftOutAlone ==
  ASSUME Base, Calm, CalmInv, NEW r \in Runs, NEW i \in Items, LeftOut(r, i)
  PROVE  \A q \in Procs : Works(proc[q]) => proc[q].run # r
<1>1. CASE Enriched
  BY <1>1 DEF CalmInv, OneOpen, Quiet, LeftOut, Exclude
<1>2. CASE ~Enriched
  <2>1. Steady /\ SteadyInv
    BY <1>2 DEF Calm, CalmInv, Steady
  <2>. QED
    BY <2>1, LeftOutRests
<1>. QED
  BY <1>1, <1>2

\* Between its claim and the record of its outcome nobody else settles an item.
LEMMA ClaimLasts ==
  ASSUME Base, Calm, CalmInv, DispatchInv, Next, NEW p \in Procs, proc'[p].op = "act"
  PROVE  \/ item'[proc'[p].run][Least(proc'[p].todo)] = "matched"
         \/ Least(proc'[p].todo) \notin media'
<1>1. PICK r \in Runs : r = proc[p].run
  BY ActOrigin
<1>2. PICK i : i = Least(proc[p].todo)
  OBVIOUS
<1>3. proc'[p].run = r /\ Least(proc'[p].todo) = i /\ BatchAt(p, r)
  BY <1>1, <1>2, ActOrigin DEF BatchAt
<1>4. i \in proc[p].load /\ i \in Items
  <2>1. proc[p].todo \in SUBSET Items /\ proc[p].todo \subseteq proc[p].load
    BY <1>3, ProcFacts DEF ProcOK, BatchAt
  <2>2. Base'
    BY BaseStep
  <2>3. proc'[p].todo # {}
    BY <2>2 DEF Base, ProcOK
  <2>4. proc[p].todo # {}
    BY <2>3, ActOrigin
  <2>. QED
    BY <1>2, <2>1, <2>4, LeastItem
<1>5. CASE Claimable(r, i) /\ Frame
  BY <1>3, <1>5 DEF Claimable, Frame
<1>6. CASE proc'[p] = proc[p]
  <2>1. item[r][i] = "matched" \/ i \notin media
    BY <1>1, <1>2, <1>6 DEF DispatchInv
  <2>2. CASE i \notin media
    BY <1>3, <2>2, MediaShrinks
  <2>3. CASE item[r][i] = "matched"
    <3>1. Works(proc[p]) /\ proc[p].run = r /\ r # 0
      BY <1>3, DispatcherWorks, WorkflowAssumption DEF Runs
    <3>2. ~LeftOut(r, i) /\ ~DeleteOld(r)
      BY <1>4, <3>1, LeftOutAlone DEF DeleteOld
    <3>3. ~ClosedBy(r, i)
      <4>1. ASSUME NEW j \in Jobs, CloseItem(j), proc[j].run = r, i = Least(proc[j].todo)
            PROVE  FALSE
        <5>1. proc[j].type = "batch" /\ j \in Procs /\ i \in proc[j].todo /\ proc[j].op = "close"
          BY <4>1, CloseItemDoes DEF Procs, CloseItem
        <5>2. i \in proc[j].load
          BY <5>1, ProcFacts DEF ProcOK
        <5>3. proc[p].op = "act"
          BY <1>6
        <5>. QED
          BY <1>3, <1>4, <4>1, <5>1, <5>2, <5>3 DEF DispatchInv, BatchAt
      <4>. QED
        BY <4>1 DEF ClosedBy
    <3>. QED
      BY <1>3, <1>4, <2>3, <3>2, <3>3, ItemSteps DEF ItemStep, Removed
  <2>. QED
    BY <2>1, <2>2, <2>3
<1>. QED
  BY <1>1, <1>2, <1>5, <1>6, ActOrigin

LEMMA DispatchKept ==
  ASSUME Base, Calm, CalmInv, DispatchInv, Next
  PROVE  DispatchInv'
<1>1. \A r \in Runs, p, q \in Procs : DispatcherAt(p, r)' /\ DispatcherAt(q, r)' => p = q
  BY OneDispatcherKept
<1>2. \A r \in Runs, p, q \in Procs : DispatcherAt(p, r)' /\ BatchAt(q, r)' =>
        proc'[p].op = "post" /\ proc'[q].load \cap proc'[p].todo = {}
  BY HandedKept
<1>3. \A r \in Runs, p, q \in Procs : BatchAt(p, r)' /\ BatchAt(q, r)' =>
        p = q \/ proc'[p].load \cap proc'[q].load = {}
  BY DisjointKept
<1>4. \A p \in Procs : proc'[p].op = "act" =>
        \/ item'[proc'[p].run][Least(proc'[p].todo)] = "matched"
        \/ Least(proc'[p].todo) \notin media'
  BY ClaimLasts
<1>. QED
  BY <1>1, <1>2, <1>3, <1>4 DEF DispatchInv

LEMMA CalmKept ==
  ASSUME Base, Calm, CalmInv, Next
  PROVE  CalmInv'
<1>1. Enriched' <=> Enriched
  BY SettingStays DEF Enriched
<1>2. CASE Enriched
  <2>1. Micro /\ OneOpen
    BY <1>2 DEF Calm, CalmInv, Micro
  <2>. QED
    BY <1>1, <1>2, <2>1, OneOpenKept DEF CalmInv
<1>3. CASE ~Enriched
  <2>1. Steady /\ SteadyInv
    BY <1>3 DEF Calm, CalmInv, Steady
  <2>. QED
    BY <1>1, <1>3, <2>1, SteadyKept DEF CalmInv
<1>. QED
  BY <1>2, <1>3

LEMMA CalmStutters ==
  ASSUME UNCHANGED vars
  PROVE  /\ (Calm' <=> Calm) /\ (CalmInv => CalmInv')
         /\ (DispatchInv => DispatchInv')
<1>1. UNCHANGED <<setting, run, item, media, proc, last, acted>>
  BY DEF vars
<1>2. (Calm' <=> Calm) /\ (Enriched' <=> Enriched)
  BY <1>1 DEF Calm, Without, Enriched
<1>3. OneOpen => OneOpen'
  BY <1>1 DEF OneOpen, Quiet, AllCleared, Works, Cleared, Exists, Appending, OpenRuns
<1>4. DispatchInv => DispatchInv'
  BY <1>1 DEF DispatchInv, DispatcherAt, BatchAt, Dispatching
<1>. QED
  BY <1>2, <1>3, <1>4, SteadyStutters DEF CalmInv

\* Every run is handed out once, as long as Calm.
OrderInv == Base /\ (Calm => CalmInv /\ DispatchInv)

LEMMA OrderStep ==
  ASSUME OrderInv, [Next]_vars
  PROVE  OrderInv'
<1>1. Base'
  BY BaseStep DEF OrderInv
<1>2. CASE Next
  <2>1. Calm' <=> Calm
    BY <1>2, SettingStays DEF Calm, Without, Enriched
  <2>. QED
    BY <1>1, <1>2, <2>1, CalmKept, DispatchKept DEF OrderInv
<1>3. CASE UNCHANGED vars
  BY <1>1, <1>3, CalmStutters DEF OrderInv
<1>. QED
  BY <1>2, <1>3

LEMMA OrderInit ==
  ASSUME Init
  PROVE  OrderInv
<1>1. \A p \in Procs : proc[p].op = "idle" /\ proc[p].type = "none"
  BY IdleFacts DEF Init
<1>2. DispatchInv
  BY <1>1 DEF DispatchInv, DispatcherAt, BatchAt, Dispatching
<1>. QED
  BY <1>2, BaseInit, SteadyInit, OneOpenInit DEF OrderInv, CalmInv

\* Once: whenever the actions of an item are executed, no outcome of it was
\* recorded before, whatever crashes, throws or is retried.  The claim in
\* processItem only asks for matched, and leaves the row as it is; that no
\* other batch records an outcome between a claim and the actions is because
\* enqueueExecuteBatches runs once for a run and its batches share no item.
THEOREM NeverReapplied == Spec => NoReapply
<1>1. Init => OrderInv
  BY OrderInit
<1>2. OrderInv /\ [Next]_vars => OrderInv'
  BY OrderStep
<1>3. OrderInv /\ [Next]_vars =>
        (Without({"stale", "redeliver", "runNow"}) =>
           \A r \in Runs, i \in Items : acted'[r][i] > acted[r][i] => item[r][i] = "matched")
  <2> SUFFICES ASSUME OrderInv, [Next]_vars, Without({"stale", "redeliver", "runNow"}),
                      NEW r \in Runs, NEW i \in Items, acted'[r][i] > acted[r][i]
               PROVE  item[r][i] = "matched"
    OBVIOUS
  <2>1. Base /\ DispatchInv
    BY DEF OrderInv, Calm, Without
  <2>2. acted[r][i] \in Nat
    BY <2>1 DEF Base
  <2>3. acted'[r][i] # acted[r][i]
    BY <2>2
  <2>4. Next
    BY <2>3 DEF vars
  <2>5. PICK j \in Jobs : Act(j) /\ proc[j].run = r /\ i = Least(proc[j].todo) /\ i \in media
    BY <2>1, <2>3, <2>4, ActedSteps DEF ActedStep
  <2>6. proc[j].op = "act" /\ j \in Procs
    BY <2>5 DEF Act, Procs
  <2>. QED
    BY <2>1, <2>5, <2>6 DEF DispatchInv
<1>. QED
  BY <1>1, <1>2, <1>3, PTL DEF Spec, NoReapply

-----------------------------------------------------------------------------
(* A run that finished stays so.  An evaluation that has still to read or   *)
(* to post items keeps its run running: what it has in hand waits.          *)

Posting(x) == x.type = "evaluate" /\ (x.op = "read" \/ (x.op = "post" /\ x.todo # {}))

Kept == Calm /\ ~Enriched /\ Without({"emptied"})
KeptInv ==
  /\ SettlesEmpty
  /\ \A p \in Procs : Posting(proc[p]) =>
       /\ run[proc[p].run].status = "running"
       /\ proc[p].op = "post" => proc[p].todo \subseteq Matched(proc[p].run)

LEMMA PostingOrigin ==
  ASSUME Base, Next, NEW p \in Procs, Posting(proc'[p])
  PROVE  /\ p \in Jobs /\ proc[p].type = "evaluate" /\ proc'[p].run = proc[p].run
         /\ proc[p].run \in Runs
         /\ \/ proc'[p] = proc[p] /\ Posting(proc[p])
            \/ Decide(p) /\ proc'[p].op = "read"
            \/ /\ Frame /\ Posting(proc[p]) /\ proc'[p].op = "post"
               /\ \/ proc'[p].todo = Matched(proc[p].run)
                  \/ proc[p].op = "post" /\ proc'[p].todo \subseteq proc[p].todo
<1>1. PICK x : x = proc'[p] /\ Posting(x)
  OBVIOUS
<1>2. ProcStep(p, x) /\ x # Idle
  BY <1>1, ProcSteps, IdleFacts DEF Posting
<1>3. x.type = "evaluate" /\ x.op \in {"read", "post"}
  BY <1>1 DEF Posting
<1>4. ~Begins(p, x) /\ ~Requeues(p, x)
  BY <1>2, <1>3 DEF Begins, Requeues, Remains
<1>5. ~Approves(p, x) /\ ~Batches(p, x) /\ ~Collects(p, x) /\ ~Announces(p, x)
  BY <1>3 DEF Approves, Same, Batches, Collects, Announces
<1>6. proc[p].type = "evaluate" /\ proc'[p].run = proc[p].run
  BY <1>1, <1>2, <1>3, <1>4, <1>5 DEF ProcStep, Evaluates, Dispatches, Same
<1>7. p \in Jobs /\ proc[p].run \in Runs
  BY <1>6, ProcFacts DEF ProcOK, Typed, EvaluateOps
<1>8. CASE Evaluates(p, x)
  BY <1>1, <1>3, <1>6, <1>7, <1>8 DEF Evaluates
<1>9. CASE Dispatches(p, x)
  BY <1>1, <1>6, <1>7, <1>9 DEF Posting, Dispatches
<1>. QED
  BY <1>1, <1>2, <1>4, <1>5, <1>6, <1>7, <1>8, <1>9 DEF ProcStep

\* While it goes on nothing ends, or cancels, the run.
LEMMA PostingRuns ==
  ASSUME Base, Kept, CalmInv, DispatchInv, KeptInv, Next,
         NEW p \in Jobs, Posting(proc[p]), Posting(proc'[p]), NEW r \in Runs, proc[p].run = r
  PROVE  run'[r].status = "running"
<1>1. /\ p \in Procs /\ SteadyInv /\ PlainInv /\ ~May("stale") /\ ~Enriched
      /\ run[r].status = "running" /\ proc[p].type = "evaluate" /\ Evaluator(p, r)
  BY DEF Procs, Kept, Calm, CalmInv, SteadyInv, Without, May, KeptInv, Posting, Evaluator, IsEvaluator
<1>2. RowStep(r) /\ r # last + 1
  BY <1>1, RowSteps, RowFacts DEF Exists
<1>3. ~Evaluated(r)
  BY <1>1, DecideDoes DEF Evaluated, SteadyInv, Procs
<1>4. ~ApprovedBy(r)
  BY <1>1, ApproveDoes DEF ApprovedBy, SteadyInv
<1>5. ~CancelledBy(r)
  <2>1. Evaluating(r)
    BY <1>1 DEF Evaluating, Posting
  <2>. QED
    BY <1>1, <2>1 DEF CancelledBy, Cancel
<1>6. ~SettledBy(r)
  <2>1. ASSUME NEW j \in Jobs, SettleRun(j), proc[j].run = r
        PROVE  FALSE
    <3>1. j \in Procs /\ proc[j].op = "settle"
      BY <2>1 DEF SettleRun, Procs
    <3>2. BatchAt(j, r) /\ Matched(r) = {}
      BY <2>1, <3>1, SettleRuns DEF KeptInv, SettlesEmpty, BatchAt
    <3>3. DispatcherAt(p, r)
      BY DEF DispatcherAt, Dispatching, Posting
    <3>4. proc[p].op = "post"
      BY <1>1, <3>1, <3>2, <3>3 DEF DispatchInv
    <3>. QED
      BY <1>1, <3>2, <3>4 DEF KeptInv, Posting
  <2>. QED
    BY <2>1 DEF SettledBy
<1>7. ~EmptyAt(r)
  BY <1>1, DispatchRunDoes DEF EmptyAt, PlainInv
<1>8. ~Stamped(r) /\ ~FallsDue(r)
  BY <1>1, RowFacts DEF Stamped, FallsDue, WindowElapses, OpenRuns, Enriched, RunOK
<1>9. ~FailedBy(r)
  <2>1. ASSUME NEW j \in Jobs, Throws(j), proc[j].run = r, proc[j].type = "evaluate"
        PROVE  FALSE
    <3>1. j = p
      BY <1>1, <2>1 DEF PlainInv, Evaluator, IsEvaluator, Procs
    <3>2. PICK x : Walks(j, x) /\ Remains(x, j)
      BY <2>1, ThrowsDoes
    <3>. QED
      BY <3>1, <3>2, IdleFacts DEF Walks, Becomes, Remains, Posting
  <2>. QED
    BY <2>1 DEF FailedBy
<1>10. ~DeleteOld(r) /\ ~Expire(r)
  BY <1>1 DEF DeleteOld, Expire, Terminal
<1>. QED
  BY <1>1, <1>2, <1>3, <1>4, <1>5, <1>6, <1>7, <1>8, <1>9, <1>10 DEF RowStep, Keeps, Puts, Changes

\* What it has in hand waits: no member leaves it out, no batch has it, and it
\* is not deleted.
LEMMA PostingWaits ==
  ASSUME Base, Kept, CalmInv, DispatchInv, KeptInv, Next, NEW p \in Jobs, Posting(proc[p]),
         proc[p].op = "post", NEW r \in Runs, proc[p].run = r, NEW i \in proc[p].todo
  PROVE  i \in Items /\ item'[r][i] = "matched"
<1>1. p \in Procs /\ DispatcherAt(p, r) /\ Works(proc[p]) /\ r # 0
  BY WorkflowAssumption DEF DispatcherAt, Dispatching, Works, Procs, Runs
<1>2. i \in Items /\ item[r][i] = "matched"
  BY <1>1 DEF KeptInv, Matched
<1>3. ~Removed(r, i)
  <2>1. Bypasses
    BY <1>1, ProcFacts DEF ProcOK, Posting
  <2>2. ~May("emptied")
    BY DEF Kept, Without, May
  <2>. QED
    BY <1>1, <2>1, <2>2 DEF Removed, DeleteOld
<1>4. ~LeftOut(r, i)
  BY <1>1, <1>2, LeftOutAlone DEF Kept
<1>5. ~ClosedBy(r, i)
  <2>1. ASSUME NEW j \in Jobs, CloseItem(j), proc[j].run = r, i = Least(proc[j].todo)
        PROVE  FALSE
    <3>1. proc[j].type = "batch" /\ j \in Procs /\ i \in proc[j].todo
      BY <2>1, CloseItemDoes DEF Procs
    <3>2. i \in proc[j].load
      BY <3>1, ProcFacts DEF ProcOK
    <3>3. BatchAt(j, r)
      BY <2>1, <3>1 DEF BatchAt
    <3>. QED
      BY <1>1, <3>1, <3>2, <3>3 DEF DispatchInv
  <2>. QED
    BY <2>1 DEF ClosedBy
<1>. QED
  BY <1>2, <1>3, <1>4, <1>5, ItemSteps DEF ItemStep

LEMMA KeptStep ==
  ASSUME Base, Kept, CalmInv, DispatchInv, KeptInv, Next
  PROVE  KeptInv'
<1>1. SettlesEmpty'
  <2>1. Plain /\ PlainInv
    BY DEF Kept, Calm, Plain, Without, CalmInv, SteadyInv
  <2>. QED
    BY <2>1, SettlesEmptyKept DEF KeptInv
<1>2. ASSUME NEW p \in Procs, Posting(proc'[p])
      PROVE  /\ run'[proc'[p].run].status = "running"
             /\ proc'[p].op = "post" =>
                  \A i \in proc'[p].todo : i \in Items /\ item'[proc'[p].run][i] = "matched"
  <2>1. PICK r \in Runs : r = proc[p].run
    BY <1>2, PostingOrigin
  <2>2. p \in Jobs /\ proc[p].type = "evaluate" /\ proc'[p].run = r
    BY <1>2, <2>1, PostingOrigin
  <2>3. CASE Decide(p) /\ proc'[p].op = "read"
    <3>1. ~Walks(p, Idle)
      BY <2>3, IdleFacts DEF Walks, Becomes
    <3>2. run' = [run EXCEPT ![r].status = "running", ![r].started = TRUE]
      BY <2>1, <2>2, <2>3, <3>1, DecideDoes
    <3>3. run'[r].status = "running"
      BY <3>2, StartRow DEF RowSet
    <3>. QED
      BY <2>2, <2>3, <3>3
  <2>4. CASE Posting(proc[p])
    <3>1. run'[r].status = "running"
      BY <1>2, <2>1, <2>2, <2>4, PostingRuns
    <3>2. ASSUME proc'[p].op = "post", NEW i \in proc'[p].todo
          PROVE  i \in Items /\ item'[r][i] = "matched"
      <4>1. CASE Frame /\ proc'[p].todo = Matched(r)
        BY <3>2, <4>1 DEF Frame, Matched
      <4>2. CASE proc[p].op = "post" /\ i \in proc[p].todo
        BY <2>1, <2>2, <2>4, <4>2, PostingWaits
      <4>. QED
        BY <1>2, <2>1, <2>2, <3>2, <4>1, <4>2, PostingOrigin
    <3>. QED
      BY <2>2, <3>1, <3>2
  <2>. QED
    BY <1>2, <2>3, <2>4, PostingOrigin
<1>. QED
  BY <1>1, <1>2 DEF KeptInv, Matched

LEMMA KeptInit ==
  ASSUME Init
  PROVE  KeptInv
<1>1. \A p \in Procs : proc[p].op = "idle" /\ proc[p].type = "none"
  BY IdleFacts DEF Init
<1>. QED
  BY <1>1 DEF KeptInv, SettlesEmpty, Posting

\* From a final status a run only goes to none, when it is purged.
LEMMA FinalRow ==
  ASSUME Base, Calm, CalmInv, Kept => KeptInv, Without({"emptied"}) \/ Without({"fails"}), Next,
         NEW r \in Runs, run[r].status \in Terminal
  PROVE  run'[r].status \in {run[r].status, "none"}
<1>1. RowStep(r) /\ r # last + 1 /\ Exists(r)
  BY RowSteps, RowFacts DEF Exists, Terminal
<1>2. \A q \in Procs : proc[q].op \in {"page", "decide", "approve"} =>
        \/ ~Enriched /\ run[proc[q].run].status \in {"evaluating", "awaiting_approval"}
        \/ Enriched /\ proc[q].type = "evaluate"
  <2>1. CASE Enriched
    BY <2>1, ProcFacts DEF CalmInv, OneOpen, Quiet, ProcOK, Typed, AloneOps, BatchOps, ItemOps, Asking
  <2>2. CASE ~Enriched
    BY <2>2 DEF CalmInv, SteadyInv
  <2>. QED
    BY <2>1, <2>2
<1>3. Enriched => \A q \in Procs : proc[q].type # "evaluate"
  BY DEF CalmInv, OneOpen, Quiet
<1>4. \A q \in Procs : proc[q].op \in {"page", "decide", "approve"} => proc[q].run # r
  BY <1>2, <1>3 DEF Terminal
<1>5. ~Evaluated(r) /\ ~ApprovedBy(r)
  BY <1>4 DEF Evaluated, ApprovedBy, Decide, Approve, Procs
<1>6. ~FailedBy(r)
  <2>1. ASSUME NEW j \in Jobs, Throws(j), proc[j].run = r, proc[j].type = "evaluate"
        PROVE  FALSE
    <3>1. j \in Procs /\ May("fails") /\ proc[j].op # "pending" /\ (proc[j].op = "post" => proc[j].todo # {})
      BY <2>1 DEF Throws, Procs
    <3>2. ~Enriched /\ Without({"emptied"})
      BY <1>3, <2>1, <3>1 DEF Without, May
    <3>3. proc[j].op \notin {"page", "decide"}
      BY <1>4, <2>1, <3>1
    <3>4. Posting(proc[j])
      BY <2>1, <3>1, <3>3, ProcFacts DEF Posting, ProcOK, Typed, EvaluateOps
    <3>. QED
      BY <2>1, <3>1, <3>2, <3>4 DEF Kept, KeptInv, Terminal
  <2>. QED
    BY <2>1 DEF FailedBy
<1>7. ~CancelledBy(r)
  BY DEF CancelledBy, Calm, Without, May, Cancellable, Active, Terminal
<1>8. ~FallsDue(r)
  BY DEF FallsDue, WindowElapses, OpenRuns, Terminal
<1>. QED
  BY <1>1, <1>5, <1>6, <1>7, <1>8, NoRowFacts DEF RowStep, Keeps, Puts, Changes, SettledBy, EmptyAt, Stamped,
     Terminal

\* Final: a run that finished, failed, was cancelled or expired stays as it
\* finished until it is purged.  Every status is written by id, so this rests
\* on who may be at work on a finished run: no evaluation but one that has posted
\* what it had, no member who approves, no second dispatch.
THEOREM TerminalStays == Spec => TerminalFinal
<1> DEFINE Inv == OrderInv /\ (Kept => KeptInv)
<1>1. Init => Inv
  BY OrderInit, KeptInit
<1>2. Inv /\ [Next]_vars => Inv'
  <2> SUFFICES ASSUME Inv, [Next]_vars
               PROVE  Inv'
    OBVIOUS
  <2>1. OrderInv'
    BY OrderStep
  <2>2. CASE Next
    <3>1. Kept' <=> Kept
      BY <2>2, SettingStays DEF Kept, Calm, Without, Enriched
    <3>2. Kept => KeptInv'
      BY <2>2, KeptStep DEF OrderInv, Kept
    <3>. QED
      BY <2>1, <3>1, <3>2
  <2>3. CASE UNCHANGED vars
    <3>1. UNCHANGED <<setting, run, item, proc>>
      BY <2>3 DEF vars
    <3>2. Kept' <=> Kept
      BY <3>1 DEF Kept, Calm, Without, Enriched
    <3>3. KeptInv => KeptInv'
      BY <3>1 DEF KeptInv, SettlesEmpty, Posting, Matched
    <3>. QED
      BY <2>1, <3>2, <3>3
  <2>. QED
    BY <2>2, <2>3
<1>3. Inv /\ [Next]_vars =>
        (Without({"stale", "redeliver", "runNow"}) /\ (Without({"emptied"}) \/ Without({"fails"})) =>
           \A r \in Runs : run[r].status \in Terminal
             => run'[r].status \in {run[r].status, "none"})
  <2> SUFFICES ASSUME Inv, [Next]_vars, Without({"stale", "redeliver", "runNow"}),
                      Without({"emptied"}) \/ Without({"fails"}),
                      NEW r \in Runs, run[r].status \in Terminal
               PROVE  run'[r].status \in {run[r].status, "none"}
    OBVIOUS
  <2>1. Calm /\ Base /\ CalmInv
    BY DEF OrderInv, Calm, Without
  <2>2. CASE Next
    BY <2>1, <2>2, FinalRow
  <2>3. CASE UNCHANGED vars
    BY <2>3 DEF vars
  <2>. QED
    BY <2>2, <2>3
<1>. QED
  BY <1>1, <1>2, <1>3, PTL DEF Spec, TerminalFinal
-----------------------------------------------------------------------------
(* What a run counted.  Without faults every item a run ever had is in one  *)
(* place: it waits, was left out, was settled and counted, or was settled   *)
(* by a batch that is about to count it.                                    *)

Clear == setting.faults = {}

\* No other run executed the actions of an item that is deleted since.
Unshared(r) == \A s \in Runs \ {r}, i \in Items : acted[s][i] > 0 => i \in media

\* What run r ever had, what is settled of it, and what is settled and counted
Purged(r, i) == acted[r][i] > 0 /\ i \notin media
Settled(r, i) == item[r][i] \in ItemDone \/ Purged(r, i)
Pends(p, r, i) ==
  /\ BatchAt(p, r)
  /\ proc[p].op = "tally" \/ (proc[p].op = "close" /\ proc[p].out = "purged")
  /\ i = Least(proc[p].todo)
Tallying(r, i) == \E p \in Procs : Pends(p, r, i)

Had(r) == {i \in Items : item[r][i] # "none" \/ Purged(r, i)}
Tallied(r) == {i \in Items : Settled(r, i) /\ ~Tallying(r, i)}
Partly(r) == {i \in Tallied(r) : item[r][i] = "partially_applied"}

Pages(p, r) == proc[p].op = "page" /\ proc[p].run = r
Decides(p, r) == proc[p].op = "decide" /\ proc[p].run = r

\* A batch holds the item it claimed until it is counted.
Holds(p, r) ==
  LET x == proc[p]
      i == Least(x.todo) IN
  /\ x.op = "act" => item[r][i] = "matched"
  /\ x.op = "close" =>
       IF x.out = "purged" THEN Purged(r, i) ELSE item[r][i] = "matched"
  /\ x.op = "tally" =>
       IF x.out = "purged" THEN Purged(r, i)
       ELSE x.out \in ItemDone /\ item[r][i] = x.out

MatchedCounts(r) ==
  /\ \A p \in Procs : Pages(p, r) \/ Decides(p, r) => proc[p].n = Cardinality(Had(r))
  /\ \A p \in Procs : Pages(p, r) => proc[p].todo \cap Had(r) = {}
  /\ \A p \in Procs : Evaluator(p, r) /\ proc[p].op \in {"announce", "pending"} => Had(r) = {}
  /\ (\A p \in Procs : ~Pages(p, r)) => run[r].matched = Cardinality(Had(r))
ProcessedCounts(r) ==
  /\ run[r].processed = Cardinality(Tallied(r))
  /\ run[r].succeeded + run[r].failed + run[r].skipped = run[r].processed + Cardinality(Partly(r))

\* A run that completed without being started has found nothing.
EmptyDone(r) ==
  run[r].status \in {"completed", "completed_with_errors"} /\ ~run[r].started => Had(r) = {}

InHand(r) == \A p \in Procs : BatchAt(p, r) => Holds(p, r)
CountInv ==
  /\ \A r \in Runs : run[r].status = "running" => run[r].started
  /\ \A r \in Runs : Unshared(r) /\ Exists(r) =>
       InHand(r) /\ MatchedCounts(r) /\ ProcessedCounts(r) /\ EmptyDone(r)

LEMMA ClearCalm ==
  ASSUME Clear
  PROVE  Calm /\ \A fault : ~May(fault)
BY DEF Clear, Calm, Without, May

\* The steps of a process touch no other process that is busy.
Only(q) == \A o \in Procs : o # q /\ proc[o].op # "idle" => proc'[o] = proc[o]

LEMMA OnlyEnqueues ==
  ASSUME Base, NEW q \in Procs, NEW x, NEW y, Enqueue(q, x, y)
  PROVE  Only(q)
<1>1. proc[Least(FreeSlots)].op = "idle"
  BY FreeSlot DEF Enqueue, Base
<1>. QED
  BY <1>1 DEF Enqueue, Only, Base, TypeOK

LEMMA OnlyJob ==
  ASSUME Base, NEW j \in Jobs, JobStep(j)
  PROVE  Only(j)
<1>0. j \in Procs /\ proc \in [Procs -> Proc]
  BY DEF Procs, Base, TypeOK
<1>1. CASE BeginEvaluate(j) \/ EvaluatePage(j) \/ RecordMatched(j) \/ Decide(j)
  BY <1>0, <1>1 DEF BeginEvaluate, EvaluatePage, RecordMatched, Decide, Become, Leave, Only
<1>2. CASE ReadMatched(j) \/ Posted(j) \/ BeginBatch(j) \/ ClaimItem(j)
  BY <1>0, <1>2 DEF ReadMatched, Posted, BeginBatch, ClaimItem, Become, Leave, Only
<1>3. CASE PostBatch(j)
  BY <1>0, <1>3, OnlyEnqueues DEF PostBatch
<1>4. CASE Act(j) \/ CloseItem(j) \/ Tally(j) \/ FinishBatch(j) \/ SettleRun(j)
  BY <1>0, <1>4 DEF Act, CloseItem, Tally, FinishBatch, SettleRun, Become, Leave, Only
<1>5. CASE BeginItem(j) \/ LockWorkflow(j) \/ Append(j)
  BY <1>0, <1>5 DEF BeginItem, LockWorkflow, Append, Become, Leave, Only
<1>. QED
  BY <1>1, <1>2, <1>3, <1>4, <1>5 DEF JobStep

LEMMA OnlyAlone ==
  ASSUME Base, NEW p \in Requests \cup Crons,
         \/ RequestStep(p) \/ CronStep(p) \/ Asks(p) \/ ScheduleFires(p)
         \/ \E r \in Runs : StampRun(p, r)
  PROVE  Only(p)
<1>0. p \in Procs /\ proc \in [Procs -> Proc]
  BY DEF Procs, Base, TypeOK
<1>1. CASE CreateRun(p) \/ Exclude(p) \/ Approve(p) \/ Cancel(p) \/ DispatchRun(p)
  BY <1>0, <1>1 DEF CreateRun, Exclude, Approve, Cancel, DispatchRun, Become, Leave, Only
<1>2. CASE AnnounceRun(p) \/ PostBatch(p)
  BY <1>0, <1>2, OnlyEnqueues DEF AnnounceRun, PostBatch
<1>3. CASE ReadMatched(p) \/ Posted(p)
  BY <1>0, <1>3 DEF ReadMatched, Posted, Leave, Only
<1>4. CASE Asks(p) \/ ScheduleFires(p) \/ \E r \in Runs : StampRun(p, r)
  BY <1>0, <1>4 DEF Asks, AskCreate, AskApprove, AskCancel, Ask, ScheduleFires, Admitted, StampRun,
     Become, Only
<1>. QED
  BY <1>1, <1>2, <1>3, <1>4 DEF RequestStep, CronStep

\* A job that has begun, or waits, only moves by itself.
LEMMA MovesItself ==
  ASSUME Base, Clear, Next, NEW p \in Jobs, proc[p].op # "idle", proc'[p] # proc[p]
  PROVE  JobStep(p)
<1>0. p \in Procs
  BY DEF Procs
<1>1. \A fault : ~May(fault)
  BY ClearCalm
<1>3. ASSUME NEW j \in Jobs, JobStep(j)
      PROVE  j = p
  BY <1>0, <1>3, OnlyJob DEF Only
<1>4. ASSUME NEW q \in Requests \cup Crons,
             \/ RequestStep(q) \/ CronStep(q) \/ Asks(q) \/ ScheduleFires(q)
             \/ \E r \in Runs : StampRun(q, r)
      PROVE  FALSE
  <2>1. p # q
    BY <1>4, WorkflowAssumption
  <2>. QED
    BY <1>0, <1>4, <2>1, OnlyAlone DEF Only
<1>5. ~\E r \in Runs : WindowElapses(r) \/ Expire(r) \/ DeleteOld(r)
  BY DEF WindowElapses, Expire, DeleteOld
<1>6. ~\E i \in Items : Signal(i)
  <2>1. ASSUME NEW i \in Items, Signal(i)
        PROVE  FALSE
    <3>1. proc[Least(FreeSlots)].op = "idle"
      BY <2>1, FreeSlot DEF Signal, Base
    <3>. QED
      BY <1>0, <2>1, <3>1 DEF Signal, Base, TypeOK
  <2>. QED
    BY <2>1
<1>7. /\ ~\E j \in Jobs : Throws(j) \/ Redeliver(j)
      /\ ~\E q \in Procs : Crash(q)
      /\ ~\E i \in Items : Vanish(i)
  BY <1>1 DEF Throws, Redeliver, Crash, Vanish
<1>. QED
  BY <1>3, <1>4, <1>5, <1>6, <1>7 DEF Next

LEMMA Movers ==
  ASSUME Base, Clear, Next, NEW p \in Procs, proc[p].op \in {"page", "act", "close", "tally"},
         proc'[p] # proc[p]
  PROVE  p \in Jobs /\ (EvaluatePage(p) \/ RecordMatched(p) \/ Act(p) \/ CloseItem(p) \/ Tally(p))
<1>1. p \in Jobs /\ JobStep(p)
  BY MovesItself, ProcFacts DEF ProcOK, Typed, AloneOps, Asking
<1>2. ~BeginEvaluate(p) /\ ~BeginBatch(p) /\ ~BeginItem(p)
  BY DEF BeginEvaluate, BeginBatch, BeginItem, Claim
<1>3. /\ ~Decide(p) /\ ~ReadMatched(p) /\ ~PostBatch(p) /\ ~Posted(p) /\ ~ClaimItem(p)
      /\ ~FinishBatch(p) /\ ~SettleRun(p) /\ ~LockWorkflow(p) /\ ~Append(p)
  BY DEF Decide, ReadMatched, PostBatch, Posted, ClaimItem, FinishBatch, SettleRun, LockWorkflow,
     Append
<1>. QED
  BY <1>1, <1>2, <1>3 DEF JobStep

LEMMA ActedGrows ==
  ASSUME Base, Next, NEW r \in Runs, NEW i \in Items
  PROVE  acted[r][i] \in Nat /\ acted'[r][i] \in Nat /\ acted'[r][i] >= acted[r][i]
<1>1. acted[r][i] \in Nat /\ acted \in [Runs -> [Items -> Nat]]
  BY DEF Base
<1>2. ASSUME NEW j \in Jobs, Act(j)
      PROVE  acted'[r][i] \in {acted[r][i], acted[r][i] + 1}
  <2>1. \/ acted' = acted
        \/ \E k \in Items : acted' = [acted EXCEPT ![proc[j].run][k] = @ + 1]
    BY <1>2, ActDoes
  <2>2. ASSUME NEW q, NEW k, acted' = [acted EXCEPT ![q][k] = @ + 1]
        PROVE  acted'[r][i] \in {acted[r][i], acted[r][i] + 1}
    BY <1>1, <2>2
  <2>. QED
    BY <2>1, <2>2
<1>3. acted'[r][i] \in {acted[r][i], acted[r][i] + 1}
  BY <1>2, ActedSteps DEF ActedStep
<1>. QED
  BY <1>1, <1>3

LEMMA UnsharedBefore ==
  ASSUME Base, Next, NEW r \in Runs, Unshared(r)'
  PROVE  Unshared(r)
<1> SUFFICES ASSUME NEW s \in Runs \ {r}, NEW i \in Items, acted[s][i] > 0
             PROVE  i \in media
  BY DEF Unshared
<1>1. acted'[s][i] > 0
  BY ActedGrows
<1>2. i \in media'
  BY <1>1 DEF Unshared
<1>. QED
  BY <1>2, MediaShrinks

LEMMA PurgedStays ==
  ASSUME Base, Next, NEW r \in Runs, NEW i \in Items, Purged(r, i)
  PROVE  Purged(r, i)' /\ item[r][i] = "none" /\ item'[r][i] = "none"
<1>1. acted'[r][i] > 0 /\ i \notin media'
  BY ActedGrows, MediaShrinks DEF Purged
<1>2. Base'
  BY BaseStep
<1>. QED
  BY <1>1, <1>2 DEF Purged, Base, RunOK

\* Who deletes a media item when nobody else does: the action of a batch.
Purges(j, r, i) ==
  /\ j \in Jobs /\ Act(j) /\ BatchAt(j, r) /\ proc[j].op = "act" /\ i = Least(proc[j].todo)
  /\ i \in proc[j].todo /\ Purged(r, i)' /\ Pends(j, r, i)'

LEMMA Purger ==
  ASSUME Base, Clear, Next, NEW i \in Items, i \in media, i \notin media'
  PROVE  \E j \in Jobs, r \in Runs : Purges(j, r, i)
<1>1. ASSUME NEW j \in Jobs, Act(j)
      PROVE  \E r \in Runs : Purges(j, r, i)
  <2>1. PICK r \in Runs : r = proc[j].run /\ j \in Procs
    BY <1>1, BatchFacts DEF Act
  <2>2. PICK x, k :
          /\ k = Least(proc[j].todo) /\ k \in proc[j].todo /\ k \in Items
          /\ Becomes(j, x) /\ Same(x, j) /\ x.op = "close" /\ x.todo = proc[j].todo
          /\ \/ x.out = "skipped" /\ acted' = acted
             \/ acted' = [acted EXCEPT ![proc[j].run][k] = @ + 1]
          /\ \/ x.out # "purged" /\ UNCHANGED <<media, item>>
             \/ x.out = "purged" /\ Purge(k)
    BY <1>1, ActDoes
  <2>3. x.out = "purged" /\ media' = media \ {k}
    BY <2>2 DEF Purge
  <2>4. k = i /\ acted' = [acted EXCEPT ![r][i] = @ + 1]
    BY <2>1, <2>2, <2>3
  <2>5. acted'[r][i] > 0
    BY <2>4 DEF Base
  <2>6. proc[j].type = "batch" /\ proc[j].op = "act"
    BY <1>1, ActDoes
  <2>. QED
    BY <1>1, <2>1, <2>2, <2>3, <2>4, <2>5, <2>6 DEF Purges, Purged, Pends, BatchAt, Becomes, Same
<1>2. ASSUME NEW j \in Jobs, JobStep(j)
      PROVE  Act(j)
  BY <1>2 DEF JobStep, BeginEvaluate, EvaluatePage, RecordMatched, Decide, ReadMatched, PostBatch,
     Posted, BeginBatch, ClaimItem, CloseItem, Tally, FinishBatch, SettleRun, BeginItem,
     LockWorkflow, Append
<1>3. \A p \in Procs : RequestStep(p) \/ CronStep(p) \/ Asks(p) \/ ScheduleFires(p) \/ Crash(p)
        => media' = media
  BY AloneLeaves
<1>4. ASSUME NEW x, \/ WindowElapses(x) \/ Expire(x) \/ DeleteOld(x) \/ Throws(x) \/ Redeliver(x)
                    \/ Signal(x) \/ Vanish(x) \/ \E c \in Crons : StampRun(c, x)
      PROVE  FALSE
  BY <1>4, ClearCalm DEF WindowElapses, Expire, DeleteOld, Throws, Redeliver, Signal, Vanish, StampRun
<1>. QED
  BY <1>1, <1>2, <1>3, <1>4 DEF Next, Procs

LEMMA OwnPurger ==
  ASSUME Base, Clear, Next, NEW r \in Runs, NEW i \in Items, Unshared(r)', i \in media, i \notin media'
  PROVE  \E j \in Jobs : Purges(j, r, i)
<1>1. PICK j \in Jobs, s \in Runs : Purges(j, s, i)
  BY Purger
<1>2. s = r
  BY <1>1 DEF Purges, Purged, Unshared
<1>. QED
  BY <1>1, <1>2

\* What is known of a run before a step
Account == Base /\ Clear /\ CalmInv /\ DispatchInv
Lasts(r) == Unshared(r)' /\ ~DeleteOld(r)

LEMMA OneAtWork ==
  ASSUME Account, NEW r \in Runs, NEW p \in Procs, NEW q \in Procs, BatchAt(p, r), BatchAt(q, r),
         NEW i, i \in proc[p].todo, i \in proc[q].todo
  PROVE  p = q
<1>1. i \in proc[p].load /\ i \in proc[q].load
  BY ProcFacts DEF Account, ProcOK, BatchAt
<1>. QED
  BY <1>1 DEF Account, DispatchInv

LEMMA BusyItem ==
  ASSUME Account, NEW r \in Runs, NEW p \in Procs, BatchAt(p, r), proc[p].op \in {"act", "close", "tally"}
  PROVE  /\ Least(proc[p].todo) \in proc[p].todo /\ Least(proc[p].todo) \in Items
         /\ proc[p].out \in Outs /\ p \in Jobs
         /\ proc[p].op = "close" => proc[p].out # "none"
<1>1. proc[p].todo # {}
  BY ProcFacts DEF Account, ProcOK
<1>. QED
  BY <1>1, TodoFacts, ProcFacts DEF Account, ProcOK, BatchAt, Typed

\* What becomes of the row of an item.
Claims(j, r, i) ==
  /\ j \in Jobs /\ BatchAt(j, r) /\ CloseItem(j) /\ proc[j].op = "close"
  /\ i = Least(proc[j].todo) /\ i \in proc[j].todo

LEMMA ItemLasts ==
  ASSUME Account, Next, NEW r \in Runs, Lasts(r), NEW i \in Items, item[r][i] # "none"
  PROVE  \/ item'[r][i] = item[r][i]
         \/ item[r][i] = "matched" /\ LeftOut(r, i)
         \/ item[r][i] = "matched" /\ \E j \in Jobs : Claims(j, r, i)
         \/ \E j \in Jobs : Purges(j, r, i)
<1>1. ItemStep(r, i) /\ i \in media
  BY ItemSteps DEF Account, Base, RunOK
<1>2. CASE Removed(r, i)
  BY <1>1, <1>2, OwnPurger DEF Removed, Account, Lasts
<1>3. CASE item[r][i] = "matched" /\ ClosedBy(r, i)
  <2>1. PICK j \in Jobs : CloseItem(j) /\ proc[j].run = r /\ i = Least(proc[j].todo)
    BY <1>3 DEF ClosedBy
  <2>2. proc[j].op = "close" /\ BatchAt(j, r) /\ j \in Procs
    BY <2>1, CloseItemDoes DEF Account, CloseItem, BatchAt, Procs
  <2>3. i \in proc[j].todo
    BY <2>1, <2>2, BusyItem
  <2>. QED
    BY <1>3, <2>1, <2>2, <2>3 DEF Claims
<1>. QED
  BY <1>1, <1>2, <1>3 DEF ItemStep

\* An item in the hands of a batch that does not move keeps its row.
LEMMA HeldItem ==
  ASSUME Account, Next, NEW r \in Runs, Lasts(r), NEW p \in Procs, BatchAt(p, r),
         proc[p].op \in {"act", "close", "tally"}, proc'[p] = proc[p],
         NEW i, i = Least(proc[p].todo), item[r][i] # "none"
  PROVE  item'[r][i] = item[r][i]
<1>1. i \in proc[p].todo /\ i \in Items
  BY BusyItem
<1>2. ASSUME NEW j \in Jobs, BatchAt(j, r), i \in proc[j].todo, Act(j) \/ CloseItem(j)
      PROVE  FALSE
  <2>1. j = p
    BY <1>1, <1>2, OneAtWork DEF Procs
  <2>2. proc'[j].op # proc[j].op
    <3>1. CASE Act(j)
      BY <3>1, ActDoes DEF Account, Becomes
    <3>2. CASE CloseItem(j)
      BY <3>2, CloseItemDoes DEF Account, Moves, Walks, Becomes
    <3>. QED
      BY <1>2, <3>1, <3>2
  <2>. QED
    BY <2>1, <2>2
<1>3. ~LeftOut(r, i)
  BY <1>1, LeftOutAlone, ClearCalm DEF Account, BatchAt, Works
<1>. QED
  BY <1>1, <1>2, <1>3, ItemLasts DEF Claims, Purges

LEMMA HeldOrigin ==
  ASSUME Account, Next, NEW r \in Runs, NEW p \in Procs, BatchAt(p, r)',
         proc'[p].op \in {"act", "close", "tally"}
  PROVE  /\ BatchAt(p, r) /\ p \in Jobs
         /\ \/ proc'[p] = proc[p]
            \/ proc[p].op = "claim" /\ proc'[p].op = "act" /\ proc'[p].todo = proc[p].todo /\ Frame
               /\ Claimable(r, Least(proc[p].todo))
            \/ proc[p].op = "act" /\ proc'[p].op = "close" /\ Act(p) /\ proc'[p].todo = proc[p].todo
            \/ proc[p].op = "close" /\ proc'[p].op = "tally" /\ CloseItem(p) /\ proc'[p].todo = proc[p].todo
<1>1. PICK x : x = proc'[p]
  OBVIOUS
<1>2. ProcStep(p, x) /\ x.type = "batch" /\ x.run = r /\ x.op \in {"act", "close", "tally"} /\ x # Idle
  BY <1>1, ProcSteps, IdleFacts DEF Account, BatchAt
<1>3. ~Begins(p, x) /\ ~Requeues(p, x)
  BY <1>2 DEF Begins, Requeues, Remains
<1>4. ~Evaluates(p, x) /\ ~Approves(p, x) /\ ~Dispatches(p, x) /\ ~Collects(p, x) /\ ~Announces(p, x)
  BY <1>2 DEF Evaluates, Approves, Dispatches, Collects, Announces
<1>5. proc[p].type = "batch" => p \in Jobs
  BY ProcFacts DEF Account, ProcOK, Typed
<1>6. CASE Batches(p, x)
  <2>1. proc[p].op = "close" /\ x.op = "tally" => CloseItem(p)
    BY <1>1, <1>2, <1>5, <1>6, Movers DEF Account, Batches, EvaluatePage, RecordMatched, Act, Tally
  <2>. QED
    BY <1>1, <1>2, <1>5, <1>6, <2>1 DEF Batches, Same, BatchAt
<1>. QED
  BY <1>1, <1>2, <1>3, <1>4, <1>5, <1>6 DEF ProcStep, BatchAt

\* The outcome goes with the process, and what was claimed is settled by it.
LEMMA ClosesAs ==
  ASSUME Account, Next, NEW r \in Runs, NEW j \in Jobs, BatchAt(j, r), CloseItem(j), Holds(j, r),
         NEW i, i = Least(proc[j].todo)
  PROVE  /\ proc'[j].out = proc[j].out /\ i \in Items
         /\ proc[j].out # "purged" => proc[j].out \in ItemDone /\ item'[r][i] = proc[j].out
<1>0. j \in Procs /\ proc[j].op = "close" /\ Base
  BY DEF Procs, CloseItem, Account
<1>1. i \in Items /\ proc[j].out \in Outs /\ proc[j].out # "none"
  BY <1>0, BusyItem
<1>2. proc'[j].out = proc[j].out
  BY <1>0, ProcFacts DEF CloseItem, Become, Proc, Base, TypeOK
<1>3. ASSUME proc[j].out # "purged"
      PROVE  proc[j].out \in ItemDone /\ item'[r][i] = proc[j].out
  <2>1. item[r][i] = "matched"
    BY <1>0, <1>3 DEF Holds
  <2>2. item' = [item EXCEPT ![r][i] = proc[j].out]
    BY <2>1 DEF CloseItem, Claimable, BatchAt
  <2>. QED
    BY <1>0, <1>1, <1>3, <2>2, WorkflowAssumption DEF Outs, ItemDone, Base, TypeOK
<1>. QED
  BY <1>1, <1>2, <1>3

LEMMA HoldsKept ==
  ASSUME Account, Next, NEW r \in Runs, Lasts(r), InHand(r), NEW p \in Procs, BatchAt(p, r)'
  PROVE  Holds(p, r)'
<1>. SUFFICES ASSUME proc'[p].op \in {"act", "close", "tally"}
              PROVE  Holds(p, r)'
  BY DEF Holds
<1>1. PICK i : i = Least(proc[p].todo)
  OBVIOUS
<1>2. BatchAt(p, r) /\ p \in Jobs /\ Holds(p, r) /\ Base
  BY HeldOrigin DEF InHand, Account
<1>3. CASE proc'[p] = proc[p]
  <2>1. i \in Items
    BY <1>1, <1>2, <1>3, BusyItem
  <2>2. Purged(r, i) => Purged(r, i)'
    BY <1>2, <2>1, PurgedStays
  <2>3. item[r][i] # "none" => item'[r][i] = item[r][i]
    BY <1>1, <1>2, <1>3, HeldItem
  <2>4. \A s \in ItemDone \cup {"matched"} : s # "none"
    BY DEF ItemDone
  <2>. QED
    BY <1>1, <1>2, <1>3, <2>2, <2>3, <2>4 DEF Holds
<1>4. CASE /\ proc[p].op = "claim" /\ proc'[p].op = "act" /\ proc'[p].todo = proc[p].todo /\ Frame
           /\ Claimable(r, Least(proc[p].todo))
  BY <1>4 DEF Holds, Claimable, Frame
<1>5. CASE proc[p].op = "act" /\ proc'[p].op = "close" /\ Act(p) /\ proc'[p].todo = proc[p].todo
  <2>1. i \in Items /\ item[r][i] = "matched"
    BY <1>1, <1>2, <1>5, BusyItem DEF Holds
  <2>2. PICK x, k :
          /\ k = Least(proc[p].todo) /\ Becomes(p, x)
          /\ \/ x.out = "skipped" /\ acted' = acted
             \/ acted' = [acted EXCEPT ![proc[p].run][k] = @ + 1]
          /\ \/ x.out # "purged" /\ UNCHANGED <<media, item>>
             \/ x.out = "purged" /\ Purge(k)
    BY <1>2, <1>5, ActDoes
  <2>3. proc'[p].out = x.out /\ k = i /\ Least(proc'[p].todo) = i
    BY <1>1, <1>5, <2>2 DEF Becomes
  <2>4. CASE x.out # "purged"
    BY <1>5, <2>1, <2>2, <2>3, <2>4 DEF Holds
  <2>5. CASE x.out = "purged"
    <3>1. acted' = [acted EXCEPT ![r][i] = @ + 1] /\ i \notin media'
      BY <1>2, <2>2, <2>3, <2>5 DEF BatchAt, Purge
    <3>2. acted'[r][i] > 0
      BY <1>2, <2>1, <3>1 DEF Base
    <3>. QED
      BY <1>5, <2>3, <2>5, <3>1, <3>2 DEF Holds, Purged
  <2>. QED
    BY <2>4, <2>5
<1>6. CASE proc[p].op = "close" /\ proc'[p].op = "tally" /\ CloseItem(p) /\ proc'[p].todo = proc[p].todo
  <2>1. /\ proc'[p].out = proc[p].out /\ i \in Items
        /\ proc[p].out # "purged" => proc[p].out \in ItemDone /\ item'[r][i] = proc[p].out
    BY <1>1, <1>2, <1>6, ClosesAs
  <2>2. proc[p].out = "purged" => Purged(r, i)'
    BY <1>1, <1>2, <1>6, <2>1, PurgedStays DEF Holds
  <2>. QED
    BY <1>1, <1>6, <2>1, <2>2 DEF Holds
<1>. QED
  BY <1>3, <1>4, <1>5, <1>6, HeldOrigin

LEMMA SettledStays ==
  ASSUME Account, Next, NEW r \in Runs, Lasts(r), InHand(r), NEW i \in Items, Settled(r, i)
  PROVE  Settled(r, i)' /\ item'[r][i] = item[r][i]
<1>1. CASE Purged(r, i)
  BY <1>1, PurgedStays DEF Account, Settled
<1>2. CASE item[r][i] \in ItemDone
  <2>1. item[r][i] \notin {"none", "matched"}
    BY <1>2 DEF ItemDone
  <2>2. \A j \in Jobs : ~Purges(j, r, i)
    BY <2>1 DEF Purges, InHand, Holds, Procs
  <2>. QED
    BY <1>2, <2>1, <2>2, ItemLasts DEF Settled
<1>. QED
  BY <1>1, <1>2 DEF Settled

LEMMA SettledNew ==
  ASSUME Account, Next, NEW r \in Runs, Lasts(r), NEW i \in Items, ~Settled(r, i), Settled(r, i)'
  PROVE  Tallying(r, i)'
<1>1. CASE item'[r][i] \in ItemDone
  <2>1. item'[r][i] \notin {"none", "matched", "excluded"} /\ item'[r][i] # item[r][i]
    BY <1>1 DEF ItemDone, Settled
  <2>2. ClosedBy(r, i)
    BY <2>1, ItemSteps DEF Account, ItemStep, Removed, Added, LeftOut
  <2>3. PICK j \in Jobs : CloseItem(j) /\ proc[j].run = r /\ i = Least(proc[j].todo)
    BY <2>2 DEF ClosedBy
  <2>4. Pends(j, r, i)' /\ j \in Procs
    BY <2>3, CloseItemDoes DEF Account, Moves, Walks, Becomes, Same, Pends, BatchAt, Procs
  <2>. QED
    BY <2>4 DEF Tallying
<1>2. CASE Purged(r, i)'
  <2>1. CASE i \in media
    BY <1>2, <2>1, OwnPurger DEF Account, Lasts, Purged, Purges, Tallying, Procs
  <2>2. CASE i \notin media
    <3>1. ~(acted[r][i] > 0) /\ acted'[r][i] > 0
      BY <1>2, <2>2 DEF Settled, Purged
    <3>. QED
      BY <2>2, <3>1, ActedSteps DEF Account, ActedStep
  <2>. QED
    BY <2>1, <2>2
<1>. QED
  BY <1>1, <1>2 DEF Settled

LEMMA MatchedNotSettled ==
  ASSUME Base, NEW r \in Runs, NEW i \in Items, item[r][i] = "matched"
  PROVE  ~Settled(r, i)
BY DEF Settled, Purged, Base, RunOK, ItemDone

LEMMA PendsNew ==
  ASSUME Account, Next, NEW r \in Runs, InHand(r), NEW p \in Procs, NEW i \in Items, Pends(p, r, i)',
         Settled(r, i)
  PROVE  Pends(p, r, i)
<1>1. /\ BatchAt(p, r) /\ p \in Jobs /\ Base
      /\ proc'[p].op \in {"close", "tally"} /\ i = Least(proc'[p].todo)
      /\ proc'[p].op = "close" => proc'[p].out = "purged"
  BY HeldOrigin DEF Pends, Account
<1>2. Holds(p, r) /\ item[r][i] # "matched"
  BY <1>1, MatchedNotSettled DEF InHand
<1>3. ASSUME CloseItem(p), proc[p].op = "close", proc'[p].todo = proc[p].todo
      PROVE  proc[p].out = "purged"
  BY <1>1, <1>2, <1>3 DEF Holds
<1>. QED
  BY <1>1, <1>2, <1>3, HeldOrigin DEF Pends, BatchAt, Holds

LEMMA PendsLeaves ==
  ASSUME Account, Next, NEW r \in Runs, InHand(r), NEW p \in Procs, NEW i \in Items, Pends(p, r, i),
         ~Pends(p, r, i)'
  PROVE  Tally(p) /\ p \in Jobs
<1>1. proc'[p] # proc[p] /\ proc[p].op \in {"close", "tally"} /\ BatchAt(p, r)
  BY DEF Pends, BatchAt
<1>2. p \in Jobs /\ (CloseItem(p) \/ Tally(p))
  BY <1>1, Movers DEF Account, EvaluatePage, RecordMatched, Act
<1>3. ~CloseItem(p)
  BY <1>1, <1>2, CloseItemDoes DEF Account, Moves, Walks, Becomes, Same, Pends, BatchAt
<1>. QED
  BY <1>2, <1>3

LEMMA TalliedSame ==
  ASSUME Account, Next, NEW r \in Runs, Lasts(r), InHand(r),
         \A j \in Jobs : ~(Tally(j) /\ proc[j].run = r)
  PROVE  Tallied(r)' = Tallied(r) /\ Partly(r)' = Partly(r)
<1>1. ASSUME NEW i \in Items, i \in Tallied(r)
      PROVE  i \in Tallied(r)' /\ item'[r][i] = item[r][i]
  <2>1. Settled(r, i)' /\ item'[r][i] = item[r][i]
    BY <1>1, SettledStays DEF Tallied
  <2>2. ~Tallying(r, i)'
    BY <1>1, PendsNew DEF Tallied, Tallying
  <2>. QED
    BY <2>1, <2>2 DEF Tallied
<1>2. ASSUME NEW i \in Items, i \in Tallied(r)'
      PROVE  i \in Tallied(r)
  <2>1. Settled(r, i)
    BY <1>2, SettledNew DEF Tallied
  <2>2. ~Tallying(r, i)
    BY <1>2, PendsLeaves DEF Tallied, Tallying, Pends, BatchAt
  <2>. QED
    BY <2>1, <2>2 DEF Tallied
<1>. QED
  BY <1>1, <1>2 DEF Tallied, Partly

LEMMA TalliedOne ==
  ASSUME Account, Next, NEW r \in Runs, InHand(r), NEW j \in Jobs, Tally(j), proc[j].run = r,
         NEW i, i = Least(proc[j].todo)
  PROVE  /\ i \in Items /\ i \notin Tallied(r) /\ Tallied(r)' = Tallied(r) \cup {i}
         /\ proc[j].out \in ItemDone \cup {"purged"}
         /\ Partly(r)' = IF proc[j].out = "partially_applied" THEN Partly(r) \cup {i} ELSE Partly(r)
<1>0. /\ j \in Procs /\ BatchAt(j, r) /\ proc[j].op = "tally" /\ UNCHANGED <<item, media, acted>>
      /\ \A q \in Procs : q # j => proc'[q] = proc[q]
      /\ proc'[j].op = "claim"
  BY TallyDoes DEF Account, Procs, BatchAt, Moves, Walks, Becomes
<1>1. i \in Items /\ i \in proc[j].todo /\ Pends(j, r, i)
  BY <1>0, BusyItem DEF Pends
<1>2. /\ proc[j].out = "purged" => Purged(r, i) /\ item[r][i] = "none"
      /\ proc[j].out # "purged" => proc[j].out \in ItemDone /\ item[r][i] = proc[j].out
  BY <1>0, <1>1, PurgedStays DEF InHand, Holds, Account
<1>3. Settled(r, i)
  BY <1>2 DEF Settled
<1>4. ASSUME NEW k \in Items
      PROVE  Settled(r, k)' <=> Settled(r, k)
  BY <1>0 DEF Settled, Purged
<1>5. ASSUME NEW q \in Procs, NEW k \in Items
      PROVE  Pends(q, r, k)' <=> Pends(q, r, k) /\ q # j
  BY <1>0 DEF Pends, BatchAt
<1>6. ASSUME NEW q \in Procs, Pends(q, r, i)
      PROVE  q = j
  <2>1. i \in proc[q].todo /\ BatchAt(q, r)
    BY <1>6, BusyItem DEF Pends
  <2>. QED
    BY <1>0, <1>1, <2>1, OneAtWork
<1>7. ASSUME NEW k \in Items
      PROVE  Tallying(r, k)' <=> Tallying(r, k) /\ k # i
  BY <1>0, <1>1, <1>5, <1>6 DEF Tallying, Pends
<1>8. i \notin Tallied(r) /\ Tallied(r)' = Tallied(r) \cup {i}
  BY <1>0, <1>1, <1>3, <1>4, <1>7 DEF Tallied, Tallying
<1>9. Partly(r)' = IF proc[j].out = "partially_applied" THEN Partly(r) \cup {i} ELSE Partly(r)
  <2>1. Partly(r)' = {k \in Tallied(r) \cup {i} : item[r][k] = "partially_applied"}
    BY <1>0, <1>8 DEF Partly
  <2>2. proc[j].out = "partially_applied" <=> item[r][i] = "partially_applied"
    BY <1>2
  <2>. QED
    BY <2>1, <2>2 DEF Partly
<1>. QED
  BY <1>1, <1>2, <1>8, <1>9

-----------------------------------------------------------------------------
(* The counters of the row of a run.                                        *)

ScoresStay(r) ==
  /\ run'[r].processed = run[r].processed /\ run'[r].succeeded = run[r].succeeded
  /\ run'[r].failed = run[r].failed /\ run'[r].skipped = run[r].skipped
RowStays(r) ==
  ScoresStay(r) /\ run'[r].matched = run[r].matched /\ (run[r].started => run'[r].started)
Appends(j, r) == Append(j) /\ proc[j].run = r /\ run'[r].matched = run[r].matched + 1

ScoreStep(r) ==
  \/ RowStays(r)
  \/ DeleteOld(r)
  \/ \E j \in Jobs : /\ Tally(j) /\ proc[j].run = r /\ run'[r] = Counted(run[r], proc[j].out)
                     /\ run'[r].matched = run[r].matched /\ run'[r].started = run[r].started
  \/ /\ ScoresStay(r) /\ run'[r].started = run[r].started
     /\ \E j \in Jobs : \/ RecordMatched(j) /\ proc[j].run = r /\ run'[r].matched = proc[j].n
                        \/ Appends(j, r)

\* Only the status, the start, the approval or the due date is written.
Writes ==
  \/ run' = run
  \/ \E q, s : Write(q, s)
  \/ \E q : run' = [run EXCEPT ![q].status = "running", ![q].started = TRUE]
  \/ \E q : run' = [run EXCEPT ![q].status = "running", ![q].started = TRUE, ![q].approved = TRUE]
  \/ \E q : run' = [run EXCEPT ![q].approved = TRUE]
  \/ \E q : run' = [run EXCEPT ![q].due = TRUE]

LEMMA WritesStay ==
  ASSUME Base, NEW r \in Runs, Writes
  PROVE  RowStays(r)
<1>1. run \in [Runs -> Row] /\ run[r] \in Row
  BY DEF Base, TypeOK
<1>2. \/ run'[r] = run[r]
      \/ \E s : run'[r] = [run[r] EXCEPT !.status = s]
      \/ run'[r] = [run[r] EXCEPT !.status = "running", !.started = TRUE]
      \/ run'[r] = [run[r] EXCEPT !.status = "running", !.started = TRUE, !.approved = TRUE]
      \/ run'[r] = [run[r] EXCEPT !.approved = TRUE]
      \/ run'[r] = [run[r] EXCEPT !.due = TRUE]
  <2>1. CASE \E q, s : Write(q, s)
    BY <1>1, <2>1 DEF Write
  <2>2. CASE \E q : run' = [run EXCEPT ![q].status = "running", ![q].started = TRUE]
    BY <1>1, <2>2
  <2>3. CASE \E q : run' = [run EXCEPT ![q].status = "running", ![q].started = TRUE, ![q].approved = TRUE]
    BY <1>1, <2>3
  <2>4. CASE \E q : run' = [run EXCEPT ![q].approved = TRUE]
    BY <1>1, <2>4
  <2>5. CASE \E q : run' = [run EXCEPT ![q].due = TRUE]
    BY <1>1, <2>5
  <2>. QED
    BY <2>1, <2>2, <2>3, <2>4, <2>5 DEF Writes
<1>. QED
  BY <1>1, <1>2 DEF RowStays, ScoresStay, Row

LEMMA ScoreSteps ==
  ASSUME Base, Next, NEW r \in Runs, Exists(r)
  PROVE  ScoreStep(r)
<1>0. run \in [Runs -> Row] /\ run[r] \in Row /\ r # last + 1
  BY RowFacts DEF Base, TypeOK
<1>1. Writes => ScoreStep(r)
  BY WritesStay DEF ScoreStep
<1>2. \A j \in Jobs : Decide(j) \/ SettleRun(j) => Writes
  BY DEF Decide, SettleRun, Writes
<1>3. ASSUME NEW j \in Jobs, RecordMatched(j)
      PROVE  ScoreStep(r)
  BY <1>0, <1>3 DEF RecordMatched, ScoreStep, RowStays, ScoresStay, Row
<1>4. ASSUME NEW j \in Jobs, Tally(j)
      PROVE  ScoreStep(r)
  <2>1. run' = [run EXCEPT ![proc[j].run] = Counted(run[proc[j].run], proc[j].out)]
    BY <1>4 DEF Tally
  <2>2. CASE proc[j].run # r
    BY <1>0, <2>1, <2>2 DEF ScoreStep, RowStays, ScoresStay
  <2>3. CASE proc[j].run = r
    <3>1. run'[r] = Counted(run[r], proc[j].out)
      BY <1>0, <2>1, <2>3
    <3>2. run'[r].matched = run[r].matched /\ run'[r].started = run[r].started
      BY <1>0, <3>1 DEF Counted, Row
    <3>. QED
      BY <1>4, <2>3, <3>1, <3>2 DEF ScoreStep
  <2>. QED
    BY <2>2, <2>3
<1>5. ASSUME NEW j \in Jobs, Append(j)
      PROVE  ScoreStep(r)
  <2>1. \/ run' = run
        \/ run' = [run EXCEPT ![proc[j].run].matched = @ + 1]
        \/ run' = [run EXCEPT ![last + 1] =
                     [NoRow EXCEPT !.status = "running", !.started = TRUE, !.matched = 1]]
    BY <1>5, AppendDoes
  <2>2. CASE run' = [run EXCEPT ![proc[j].run].matched = @ + 1]
    BY <1>0, <1>5, <2>2 DEF ScoreStep, RowStays, ScoresStay, Appends, Row
  <2>3. CASE run' = [run EXCEPT ![last + 1] =
                     [NoRow EXCEPT !.status = "running", !.started = TRUE, !.matched = 1]]
    BY <1>0, <2>3 DEF ScoreStep, RowStays, ScoresStay
  <2>. QED
    BY <1>1, <2>1, <2>2, <2>3 DEF Writes
<1>6. ASSUME NEW j \in Jobs, JobStep(j)
      PROVE  ScoreStep(r)
  <2>1. \/ RecordMatched(j) \/ Tally(j) \/ Append(j) \/ Decide(j) \/ SettleRun(j)
        \/ run' = run
    BY <1>6 DEF JobStep, BeginEvaluate, EvaluatePage, ReadMatched, PostBatch, Posted, BeginBatch,
       ClaimItem, Act, CloseItem, FinishBatch, BeginItem, LockWorkflow
  <2>2. run' = run => Writes
    BY DEF Writes
  <2>. QED
    BY <1>1, <1>2, <1>3, <1>4, <1>5, <2>1, <2>2
<1>7. \A p \in Procs : RequestStep(p) \/ CronStep(p) => Writes
  <2>1. \A p \in Procs : CreateRun(p) \/ Approve(p) \/ Cancel(p) \/ DispatchRun(p) => Writes
    BY DEF CreateRun, Approve, Cancel, DispatchRun, Writes
  <2>2. \A p \in Procs : AnnounceRun(p) \/ Exclude(p) \/ ReadMatched(p) \/ PostBatch(p) \/ Posted(p)
          => Writes
    BY DEF AnnounceRun, Exclude, ReadMatched, PostBatch, Posted, Writes
  <2>. QED
    BY <2>1, <2>2 DEF RequestStep, CronStep
<1>8. \A p \in Procs : Asks(p) \/ ScheduleFires(p) \/ Crash(p) => Writes
  BY DEF Asks, AskCreate, AskApprove, AskCancel, Ask, ScheduleFires, Admitted, Crash, Writes
<1>9. \A j \in Jobs : Redeliver(j) => Writes
  BY DEF Redeliver, Writes
<1>10. \A q \in Runs : WindowElapses(q) \/ Expire(q) \/ (\E c \in Crons : StampRun(c, q)) => Writes
  BY DEF WindowElapses, Expire, StampRun, Writes
<1>11. \A j \in Jobs : Throws(j) => Writes
  BY DEF Throws, Writes
<1>12. ASSUME NEW q \in Runs, DeleteOld(q)
       PROVE  ScoreStep(r)
  <2>1. CASE q # r
    BY <1>0, <1>12, <2>1 DEF DeleteOld, ScoreStep, RowStays, ScoresStay
  <2>. QED
    BY <1>12, <2>1 DEF ScoreStep
<1>13. (\E i \in Items : Signal(i) \/ Vanish(i)) => Writes
  BY DEF Signal, Vanish, Writes
<1>. QED
  BY <1>1, <1>6, <1>7, <1>8, <1>9, <1>10, <1>11, <1>12, <1>13 DEF Next, Procs

LEMMA RunningKept ==
  ASSUME Base, Next, \A q \in Runs : run[q].status = "running" => run[q].started,
         NEW r \in Runs, run'[r].status = "running"
  PROVE  run'[r].started
<1>1. RowStep(r)
  BY RowSteps
<1>2. ASSUME NEW p \in Procs, Approve(p), proc[p].run = r, Exists(r)
      PROVE  run'[r].started
  BY <1>2, ApproveDoes, ApproveRow DEF RowSet
<1>3. run[r].status = "running" /\ ~DeleteOld(r) => run'[r].started
  <2>1. run[r].status = "running" => run[r].started /\ ScoreStep(r)
    BY ScoreSteps DEF Exists
  <2>. QED
    BY <2>1 DEF ScoreStep, RowStays
<1>4. DeleteOld(r) => FALSE
  BY NoRowFacts DEF DeleteOld, Base, TypeOK
<1>5. run[r].status # "running" => ~Stamped(r) /\ ~FallsDue(r)
  BY DEF Stamped, FallsDue, WindowElapses, OpenRuns
<1>. QED
  BY <1>1, <1>2, <1>3, <1>4, <1>5, NoRowFacts DEF RowStep, Keeps, Puts, Creates, Opens, Changes,
     Evaluated, Starts, ApprovedBy, CancelledBy, SettledBy, EmptyAt, FailedBy

-----------------------------------------------------------------------------
(* What a run ever had grows by the items added to it.                       *)

LEMMA HadStays ==
  ASSUME Account, Next, NEW r \in Runs, Lasts(r), InHand(r), NEW i \in Items, i \in Had(r)
  PROVE  i \in Had(r)'
<1>0. Base
  BY DEF Account
<1>1. CASE Purged(r, i)
  BY <1>0, <1>1, PurgedStays DEF Had
<1>2. CASE item[r][i] # "none"
  <2>1. ASSUME NEW j \in Jobs, Claims(j, r, i), item[r][i] = "matched"
        PROVE  item'[r][i] # "none"
    <3>1. Holds(j, r) /\ BatchAt(j, r) /\ CloseItem(j) /\ proc[j].op = "close" /\ i = Least(proc[j].todo)
      BY <2>1 DEF Claims, InHand, Procs
    <3>2. proc[j].out # "purged"
      BY <1>0, <2>1, <3>1, MatchedNotSettled DEF Holds, Settled
    <3>. QED
      BY <3>1, <3>2, ClosesAs DEF ItemDone
  <2>2. ASSUME NEW j \in Jobs, Purges(j, r, i)
        PROVE  Purged(r, i)'
    BY <2>2 DEF Purges
  <2>. QED
    BY <1>2, <2>1, <2>2, ItemLasts DEF Had, LeftOut
<1>. QED
  BY <1>1, <1>2 DEF Had

LEMMA HadNew ==
  ASSUME Account, Next, NEW r \in Runs, Unshared(r)', InHand(r), NEW i \in Items, i \notin Had(r),
         i \in Had(r)'
  PROVE  item[r][i] = "none" /\ Added(r, i)
<1>0. Base /\ item[r][i] = "none" /\ ~Purged(r, i)
  BY DEF Account, Had
<1>1. CASE item'[r][i] # "none"
  BY <1>0, <1>1, ItemSteps DEF ItemStep, Removed
<1>2. CASE Purged(r, i)'
  <2>1. CASE i \in media
    <3>1. PICK j \in Jobs : Purges(j, r, i)
      BY <1>0, <1>2, <2>1, OwnPurger DEF Account, Purged
    <3>2. item[r][i] = "matched"
      BY <3>1 DEF Purges, InHand, Holds, Procs
    <3>. QED
      BY <1>0, <3>2
  <2>2. CASE i \notin media
    <3>1. ~(acted[r][i] > 0) /\ acted'[r][i] > 0
      BY <1>0, <1>2, <2>2 DEF Purged
    <3>. QED
      BY <1>0, <2>2, <3>1, ActedSteps DEF ActedStep
  <2>. QED
    BY <2>1, <2>2
<1>. QED
  BY <1>1, <1>2 DEF Had

LEMMA HadSame ==
  ASSUME Account, Next, NEW r \in Runs, Lasts(r), InHand(r),
         \A i \in Items : item[r][i] = "none" => ~Added(r, i)
  PROVE  Had(r)' = Had(r)
<1>1. \A i \in Items : i \in Had(r)' <=> i \in Had(r)
  BY HadStays, HadNew DEF Lasts
<1>. QED
  BY <1>1 DEF Had

LEMMA HadOne ==
  ASSUME Account, Next, NEW r \in Runs, Lasts(r), InHand(r), NEW k \in Items,
         item[r][k] = "none", item'[r][k] = "matched",
         \A i \in Items : item[r][i] = "none" /\ Added(r, i) => i = k
  PROVE  k \notin Had(r) /\ Had(r)' = Had(r) \cup {k}
<1>0. Base
  BY DEF Account
<1>1. ~Purged(r, k)
  BY <1>0, PurgedStays
<1>2. k \in Had(r)'
  BY DEF Had
<1>3. \A i \in Items : i \in Had(r)' <=> i \in Had(r) \/ i = k
  BY <1>2, HadStays, HadNew DEF Lasts
<1>. QED
  BY <1>1, <1>3 DEF Had

LEMMA Finite ==
  ASSUME NEW S \in SUBSET Items
  PROVE  IsFiniteSet(S) /\ Cardinality(S) \in Nat
<1>1. IsFiniteSet(Items) /\ Items \subseteq Nat
  BY WorkflowAssumption, FS_Interval DEF Items
<1>. QED
  BY <1>1, FS_Subset, FS_CardinalityType

LEMMA OneMore ==
  ASSUME NEW S \in SUBSET Items, NEW k \in Items, k \notin S
  PROVE  Cardinality(S \cup {k}) = Cardinality(S) + 1
BY Finite, FS_AddElement

LEMMA HadFinite ==
  ASSUME NEW r \in Runs
  PROVE  /\ Had(r) \in SUBSET Items /\ Tallied(r) \in SUBSET Items /\ Partly(r) \in SUBSET Items
         /\ Cardinality(Had(r)) \in Nat /\ Cardinality(Tallied(r)) \in Nat
         /\ Cardinality(Partly(r)) \in Nat
BY Finite DEF Had, Tallied, Partly

-----------------------------------------------------------------------------
(* What a run counts as matched is what it ever had.                        *)

LEMMA PagesEvaluate ==
  ASSUME Base, NEW p \in Procs, NEW r \in Runs, Pages(p, r) \/ Decides(p, r)
  PROVE  p \in Jobs /\ proc[p].type = "evaluate" /\ Evaluator(p, r)
BY ProcFacts DEF ProcOK, Typed, AloneOps, BatchOps, ItemOps, Asking, Pages, Decides, Evaluator,
   IsEvaluator

LEMMA OneEvaluates ==
  ASSUME Account, NEW r \in Runs, NEW p \in Procs, NEW q \in Procs, Evaluator(p, r), Evaluator(q, r)
  PROVE  p = q
BY DEF Account, CalmInv, SteadyInv, PlainInv, OneOpen, Quiet, Evaluator, IsEvaluator

LEMMA RecordsCount ==
  ASSUME Account, Next, NEW r \in Runs, Exists(r), MatchedCounts(r),
         NEW j \in Jobs, RecordMatched(j), proc[j].run = r
  PROVE  MatchedCounts(r)'
<1>0. j \in Procs /\ Base /\ UNCHANGED <<item, media, acted>>
  BY RecordMatchedDoes DEF Procs, Account
<1>1. Had(r)' = Had(r)
  BY <1>0 DEF Had, Purged
<1>2. proc[j].op = "page" /\ Pages(j, r)
  BY DEF RecordMatched, Pages
<1>3. /\ \A q \in Procs : q # j => proc'[q] = proc[q]
      /\ proc'[j].op = "decide" /\ proc'[j].n = proc[j].n
  BY <1>0 DEF RecordMatched, Become, Base, TypeOK, Proc
<1>4. run'[r].matched = proc[j].n
  BY <1>0 DEF RecordMatched, Base, TypeOK, Row
<1>. QED
  BY <1>0, <1>1, <1>2, <1>3, <1>4 DEF MatchedCounts, Pages, Decides, Evaluator, IsEvaluator

LEMMA PagesCount ==
  ASSUME Account, Next, NEW r \in Runs, Exists(r), Lasts(r), InHand(r), MatchedCounts(r),
         NEW j \in Jobs, EvaluatePage(j), proc[j].run = r
  PROVE  MatchedCounts(r)'
<1>0. /\ j \in Procs /\ Base /\ UNCHANGED <<run, media, acted>>
      /\ proc[j].op = "page" /\ proc[j].todo # {} /\ Pages(j, r)
      /\ proc \in [Procs -> Proc] /\ item \in [Runs -> [Items -> States]]
  BY EvaluatePageDoes DEF Procs, Account, EvaluatePage, Pages, Base, TypeOK, States
<1>1. PICK i : i = Least(proc[j].todo)
  OBVIOUS
<1>2. i \in proc[j].todo /\ i \in Items
  BY <1>0, <1>1, TodoFacts
<1>3. /\ proc[j].n = Cardinality(Had(r)) /\ proc[j].todo \cap Had(r) = {}
      /\ Cardinality(Had(r)) \in Nat
  BY <1>0, HadFinite DEF MatchedCounts
<1>4. item[r][i] = "none"
  BY <1>2, <1>3 DEF Had
<1>5. CASE /\ i \in media
           /\ item' = [item EXCEPT ![r][i] = IF @ = "none" THEN "matched" ELSE @]
           /\ proc' = [proc EXCEPT ![j].todo = @ \ {i}, ![j].n = @ + 1]
  <2>1. /\ item'[r][i] = "matched"
        /\ \A k \in Items : item[r][k] = "none" /\ Added(r, k) => k = i
    BY <1>0, <1>2, <1>4, <1>5 DEF Added
  <2>2. i \notin Had(r) /\ Had(r)' = Had(r) \cup {i}
    BY <1>2, <1>4, <2>1, HadOne
  <2>3. Cardinality(Had(r)') = Cardinality(Had(r)) + 1
    BY <1>2, <2>2, OneMore, HadFinite
  <2>4. /\ \A q \in Procs : q # j => proc'[q] = proc[q]
        /\ proc'[j].op = "page" /\ proc'[j].n = proc[j].n + 1 /\ proc'[j].run = r
        /\ proc'[j].todo = proc[j].todo \ {i}
    BY <1>0, <1>5 DEF Proc
  <2>5. \A q \in Procs : q # j => ~Pages(q, r)' /\ ~Decides(q, r)' /\ ~Evaluator(q, r)'
    BY <1>0, <2>4, PagesEvaluate, OneEvaluates DEF Pages, Decides, Evaluator, IsEvaluator
  <2>. QED
    BY <1>0, <1>3, <2>2, <2>3, <2>4, <2>5 DEF MatchedCounts, Pages, Decides
<1>6. CASE proc' = [proc EXCEPT ![j].todo = @ \ {i}] /\ item' = item
  <2>1. Had(r)' = Had(r)
    BY <1>0, <1>6 DEF Had, Purged
  <2>2. /\ \A q \in Procs : q # j => proc'[q] = proc[q]
        /\ proc'[j].op = "page" /\ proc'[j].n = proc[j].n /\ proc'[j].run = r
        /\ proc'[j].todo = proc[j].todo \ {i}
    BY <1>0, <1>6 DEF Proc
  <2>3. \A q \in Procs : q # j => ~Pages(q, r)' /\ ~Decides(q, r)' /\ ~Evaluator(q, r)'
    BY <1>0, <2>2, PagesEvaluate, OneEvaluates DEF Pages, Decides, Evaluator, IsEvaluator
  <2>. QED
    BY <1>0, <1>3, <2>1, <2>2, <2>3 DEF MatchedCounts, Pages, Decides
<1>. QED
  BY <1>1, <1>5, <1>6 DEF EvaluatePage

LEMMA AppendsCount ==
  ASSUME Account, Next, NEW r \in Runs, Exists(r), Lasts(r), InHand(r), MatchedCounts(r),
         NEW j \in Jobs, Append(j)
  PROVE  MatchedCounts(r)'
<1>a. j \in Procs /\ Base /\ r # last + 1
  BY RowFacts DEF Procs, Account
<1>b. /\ proc \in [Procs -> Proc] /\ item \in [Runs -> [Items -> States]]
      /\ run \in [Runs -> Row] /\ run[r] \in Row
  BY <1>a DEF Base, TypeOK, States
<1>0. /\ j \in Procs /\ Base /\ proc \in [Procs -> Proc] /\ item \in [Runs -> [Items -> States]]
      /\ run \in [Runs -> Row] /\ r # last + 1 /\ run[r] \in Row
      /\ UNCHANGED <<media, acted>> /\ Becomes(j, Idle) /\ proc[j].type = "item"
  BY <1>a, <1>b, AppendDoes
<1>1. Quiet
  BY <1>0 DEF Account, CalmInv, SteadyInv, PlainInv, OneOpen
<1>2. \A q \in Procs : /\ proc[q].type # "evaluate" /\ proc[q].op # "announce"
                       /\ proc'[q].type # "evaluate" /\ proc'[q].op # "announce"
  BY <1>0, <1>1, IdleFacts DEF Quiet, Becomes
<1>3. \A q \in Procs : /\ ~Pages(q, r) /\ ~Pages(q, r)' /\ ~Decides(q, r)' /\ ~Evaluator(q, r)'
  <2>1. Base'
    BY <1>0, BaseStep
  <2>2. \A q \in Procs : ~Evaluator(q, r)' /\ ~Pages(q, r)
    BY <1>0, <1>2, PagesEvaluate DEF Evaluator, IsEvaluator
  <2>3. \A q \in Procs : Pages(q, r)' \/ Decides(q, r)' => Pages(q, r) \/ Decides(q, r)
    BY <1>0, IdleFacts DEF Becomes, Pages, Decides
  <2>. QED
    BY <1>0, <1>2, <2>2, <2>3, PagesEvaluate
<1>4. run[r].matched = Cardinality(Had(r)) /\ Cardinality(Had(r)) \in Nat
  BY <1>3, HadFinite DEF MatchedCounts
<1>5. CASE item'[r] = item[r] /\ run'[r] = run[r]
  <2>1. Had(r)' = Had(r)
    BY <1>0, <1>5 DEF Had, Purged
  <2>. QED
    BY <1>3, <1>4, <1>5, <2>1 DEF MatchedCounts
<1>6. ASSUME NEW i \in Items, proc[j].run = r, item[r][i] = "none",
             item' = [item EXCEPT ![r][i] = "matched"], run' = [run EXCEPT ![r].matched = @ + 1]
      PROVE  MatchedCounts(r)'
  <2>1. /\ item'[r][i] = "matched"
        /\ \A k \in Items : item[r][k] = "none" /\ Added(r, k) => k = i
    BY <1>0, <1>6 DEF Added
  <2>2. i \notin Had(r) /\ Had(r)' = Had(r) \cup {i}
    BY <1>6, <2>1, HadOne
  <2>3. Cardinality(Had(r)') = Cardinality(Had(r)) + 1
    BY <1>6, <2>2, OneMore, HadFinite
  <2>4. run'[r].matched = run[r].matched + 1
    BY <1>0, <1>6 DEF Row
  <2>. QED
    BY <1>3, <1>4, <2>3, <2>4 DEF MatchedCounts
<1>. QED
  BY <1>0, <1>5, <1>6, AppendDoes

LEMMA PageFrom ==
  ASSUME Account, Next, NEW r \in Runs, NEW p \in Procs, Pages(p, r)' \/ Decides(p, r)',
         \A j \in Jobs : proc[j].run = r => ~RecordMatched(j) /\ ~EvaluatePage(j)
  PROVE  \/ proc'[p] = proc[p]
         \/ /\ Evaluator(p, r) /\ proc[p].op = "pending" /\ Pages(p, r)' /\ proc'[p].n = 0
<1>0. Base /\ Clear
  BY DEF Account
<1>1. SUFFICES ASSUME proc'[p] # proc[p]
               PROVE  /\ Evaluator(p, r) /\ proc[p].op = "pending" /\ Pages(p, r)' /\ proc'[p].n = 0
  OBVIOUS
<1>2. PICK x : x = proc'[p]
  OBVIOUS
<1>3. ProcStep(p, x) /\ x.op \in {"page", "decide"} /\ x.run = r
  BY <1>0, <1>2, ProcSteps DEF Pages, Decides
<1>4. Evaluates(p, x)
  BY <1>1, <1>2, <1>3, IdleFacts DEF ProcStep, Begins, Requeues, Remains, Approves, Dispatches, Batches,
     Collects, Announces
<1>5. p \in Jobs /\ proc[p].type = "evaluate" /\ proc[p].run = r /\ proc[p].op \in {"pending", "page"}
  BY <1>0, <1>3, <1>4, ProcFacts DEF Evaluates, Same, ProcOK, Typed
<1>6. JobStep(p)
  BY <1>0, <1>1, <1>5, MovesItself
<1>7. proc[p].op = "pending"
  BY <1>0, <1>1, <1>5, Movers DEF Act, CloseItem, Tally
<1>8. BeginEvaluate(p)
  BY <1>5, <1>6, <1>7 DEF JobStep, EvaluatePage, RecordMatched, Decide, ReadMatched, PostBatch, Posted,
     BeginBatch, Claim, ClaimItem, Act, CloseItem, Tally, FinishBatch, SettleRun, BeginItem,
     LockWorkflow, Append
<1>9. proc' = [proc EXCEPT ![p] = [Began(p, "page") EXCEPT !.todo = media]]
  <2>1. ~Leave(p)
    BY <1>0, <1>2, <1>3, IdleFacts DEF Leave, Base, TypeOK
  <2>. QED
    BY <1>8, <2>1 DEF BeginEvaluate
<1>10. proc'[p].op = "page" /\ proc'[p].n = 0
  BY <1>0, <1>9 DEF Began, Base, TypeOK, Proc
<1>. QED
  BY <1>2, <1>3, <1>5, <1>7, <1>10 DEF Evaluator, IsEvaluator, Pages

LEMMA MatchedKept ==
  ASSUME Account, Next, NEW r \in Runs, Exists(r), Lasts(r), InHand(r), MatchedCounts(r)
  PROVE  MatchedCounts(r)'
<1>0. Base /\ Clear /\ r # last + 1
  BY RowFacts DEF Account
<1>1. CASE \E j \in Jobs : Append(j)
  BY <1>1, AppendsCount
<1>2. CASE \E j \in Jobs : RecordMatched(j) /\ proc[j].run = r
  BY <1>2, RecordsCount
<1>3. CASE \E j \in Jobs : EvaluatePage(j) /\ proc[j].run = r
  BY <1>3, PagesCount
<1>4. CASE \A j \in Jobs : ~Append(j) /\ (proc[j].run = r => ~RecordMatched(j) /\ ~EvaluatePage(j))
  <2>1. Had(r)' = Had(r)
    BY <1>4, HadSame DEF Added, AddsTo
  <2>2. run'[r].matched = run[r].matched
    BY <1>0, <1>4, ScoreSteps DEF ScoreStep, RowStays, Appends, Lasts
  <2>3. ASSUME NEW p \in Procs, Pages(p, r)' \/ Decides(p, r)'
        PROVE  /\ proc'[p].n = Cardinality(Had(r))
               /\ Pages(p, r)' => proc'[p].todo \cap Had(r) = {}
    <3>1. CASE proc'[p] = proc[p]
      BY <2>3, <3>1 DEF MatchedCounts, Pages, Decides
    <3>2. CASE Evaluator(p, r) /\ proc[p].op = "pending" /\ proc'[p].n = 0
      <4>1. Had(r) = {}
        BY <3>2 DEF MatchedCounts
      <4>. QED
        BY <3>2, <4>1, FS_EmptySet
    <3>. QED
      BY <1>4, <2>3, <3>1, <3>2, PageFrom
  <2>4. ASSUME NEW p \in Procs, Evaluator(p, r)', proc'[p].op \in {"announce", "pending"}
        PROVE  Had(r) = {}
    <3>1. Plain
      <4>1. CASE Enriched
        <5>1. CalmInv' /\ (Enriched' <=> Enriched)
          BY <1>0, CalmKept, ClearCalm, SettingStays DEF Account, Enriched
        <5>. QED
          BY <2>4, <4>1, <5>1 DEF CalmInv, OneOpen, Quiet, Evaluator, IsEvaluator
      <4>. QED
        BY <1>0, <4>1 DEF Clear, Plain, Without
    <3>2. CASE Evaluator(p, r)
      <4>1. PICK x : x = proc'[p]
        OBVIOUS
      <4>2. ProcStep(p, x) /\ IsEvaluator(x) /\ x.op \in {"announce", "pending"}
        BY <1>0, <2>4, <4>1, ProcSteps DEF Evaluator
      <4>3. x # Idle /\ ~Begins(p, x) /\ ~Requeues(p, x)
        BY <1>0, <3>2, <4>2, IdleFacts, ClearCalm, CrashDoes, ThrowsDoes DEF Begins, Requeues, Remains,
           Evaluator, IsEvaluator, Crash, Throws
      <4>4. ~Evaluates(p, x) /\ ~Approves(p, x) /\ ~Dispatches(p, x) /\ ~Batches(p, x) /\ ~Collects(p, x)
        BY <3>2, <4>2 DEF Evaluates, Approves, Dispatches, Batches, Collects, Same, Evaluator, IsEvaluator
      <4>5. ~Announces(p, x)
        BY <1>0, <3>2, AloneFacts DEF Announces, Evaluator, IsEvaluator, CreateRun
      <4>6. x = proc[p]
        BY <4>2, <4>3, <4>4, <4>5 DEF ProcStep
      <4>. QED
        BY <3>2, <4>1, <4>2, <4>6 DEF MatchedCounts
    <3>3. CASE \E q \in Procs : Evaluator(q, r) /\ proc[q].op = "announce"
      BY <3>3 DEF MatchedCounts
    <3>. QED
      BY <1>0, <2>4, <3>1, <3>2, <3>3, EvaluatorOrigin
  <2>5. ASSUME NEW p \in Procs, Pages(p, r)
        PROVE  Pages(p, r)'
    <3>1. proc[p].op = "page" /\ p \in Jobs
      BY <1>0, <2>5, PagesEvaluate DEF Pages
    <3>2. proc'[p] = proc[p]
      BY <1>0, <1>4, <2>5, <3>1, Movers DEF Act, CloseItem, Tally, Pages
    <3>. QED
      BY <2>5, <3>2 DEF Pages
  <2>. QED
    BY <2>1, <2>2, <2>3, <2>4, <2>5 DEF MatchedCounts
<1>. QED
  BY <1>1, <1>2, <1>3, <1>4

-----------------------------------------------------------------------------
(* What a run counts as processed is what its batches settled.              *)

LEMMA TallyCounts ==
  ASSUME Account, Next, NEW r \in Runs, Exists(r), Lasts(r), InHand(r), ProcessedCounts(r),
         NEW j \in Jobs, Tally(j), proc[j].run = r
  PROVE  ProcessedCounts(r)'
<1>0. run \in [Runs -> Row] /\ run[r] \in Row
  BY DEF Account, Base, TypeOK
<1>1. PICK i : i = Least(proc[j].todo)
  OBVIOUS
<1>2. /\ i \in Items /\ i \notin Tallied(r) /\ Tallied(r)' = Tallied(r) \cup {i}
      /\ proc[j].out \in ItemDone \cup {"purged"}
      /\ Partly(r)' = IF proc[j].out = "partially_applied" THEN Partly(r) \cup {i} ELSE Partly(r)
  BY <1>1, TalliedOne
<1>3. run'[r] = Counted(run[r], proc[j].out)
  BY <1>0 DEF Tally
<1>4. PICK out : out = proc[j].out
  OBVIOUS
<1>5. /\ run[r].processed \in Nat /\ run[r].succeeded \in Nat /\ run[r].failed \in Nat
      /\ run[r].skipped \in Nat
  BY <1>0 DEF Row
<1>6. /\ run'[r].processed = run[r].processed + 1
      /\ run'[r].succeeded = run[r].succeeded + One(out, {"applied", "partially_applied", "purged"})
      /\ run'[r].failed = run[r].failed + One(out, {"failed", "partially_applied"})
      /\ run'[r].skipped = run[r].skipped + One(out, {"skipped"})
  BY <1>0, <1>3, <1>4 DEF Counted, Row
<1>7. Cardinality(Tallied(r)') = Cardinality(Tallied(r)) + 1
  BY <1>2, OneMore, HadFinite
<1>8. One(out, {"applied", "partially_applied", "purged"}) + One(out, {"failed", "partially_applied"})
        + One(out, {"skipped"})
        = IF out = "partially_applied" THEN 2 ELSE 1
  BY <1>2, <1>4 DEF One, ItemDone
<1>9. /\ One(out, {"applied", "partially_applied", "purged"}) \in Nat
      /\ One(out, {"failed", "partially_applied"}) \in Nat /\ One(out, {"skipped"}) \in Nat
  BY DEF One
<1>10. Cardinality(Partly(r)') = Cardinality(Partly(r)) + IF out = "partially_applied" THEN 1 ELSE 0
  <2>1. i \notin Partly(r)
    BY <1>2 DEF Partly
  <2>. QED
    BY <1>2, <1>4, <2>1, OneMore, HadFinite
<1>11. /\ run[r].processed = Cardinality(Tallied(r))
       /\ run[r].succeeded + run[r].failed + run[r].skipped = run[r].processed + Cardinality(Partly(r))
       /\ Cardinality(Partly(r)) \in Nat
  BY HadFinite DEF ProcessedCounts
<1>12. /\ run'[r].processed = Cardinality(Tallied(r)')
       /\ run'[r].succeeded + run'[r].failed + run'[r].skipped
            = run'[r].processed + Cardinality(Partly(r)')
  <2>1. CASE out = "partially_applied"
    BY <1>5, <1>6, <1>7, <1>8, <1>9, <1>10, <1>11, <2>1
  <2>2. CASE out # "partially_applied"
    BY <1>5, <1>6, <1>7, <1>8, <1>9, <1>10, <1>11, <2>2
  <2>. QED
    BY <2>1, <2>2
<1>. QED
  BY <1>12 DEF ProcessedCounts

LEMMA ProcessedKept ==
  ASSUME Account, Next, NEW r \in Runs, Exists(r), Lasts(r), InHand(r), ProcessedCounts(r)
  PROVE  ProcessedCounts(r)'
<1>1. CASE \E j \in Jobs : Tally(j) /\ proc[j].run = r
  BY <1>1, TallyCounts
<1>2. CASE \A j \in Jobs : ~(Tally(j) /\ proc[j].run = r)
  <2>1. Tallied(r)' = Tallied(r) /\ Partly(r)' = Partly(r)
    BY <1>2, TalliedSame
  <2>2. ScoresStay(r)
    BY <1>2, ScoreSteps DEF Account, ScoreStep, RowStays, Lasts
  <2>. QED
    BY <2>1, <2>2 DEF ProcessedCounts, ScoresStay
<1>. QED
  BY <1>1, <1>2

LEMMA EmptyDoneKept ==
  ASSUME Account, HonestInv, Next, NEW r \in Runs, Exists(r), Lasts(r), InHand(r), MatchedCounts(r),
         EmptyDone(r), run[r].status = "running" => run[r].started
  PROVE  EmptyDone(r)'
<1> SUFFICES ASSUME run'[r].status \in {"completed", "completed_with_errors"}, ~run'[r].started
             PROVE  Had(r)' = {}
  BY DEF EmptyDone
<1>0. Base /\ Clear /\ r # last + 1
  BY RowFacts DEF Account
<1>1. CASE Keeps(r)
  <2>1. Had(r) = {} /\ run[r].status \in {"completed", "completed_with_errors"}
    BY <1>1 DEF Keeps, Puts, EmptyDone
  <2>2. ASSUME NEW j \in Jobs, proc[j].op = "page", proc[j].run = r
        PROVE  FALSE
    <3>1. j \in Procs /\ proc[j].type = "evaluate"
      BY <1>0, <2>2, PagesEvaluate DEF Procs, Pages
    <3>2. ~Enriched
      BY <3>1 DEF Account, CalmInv, OneOpen, Quiet
    <3>. QED
      BY <2>1, <2>2, <3>1, <3>2 DEF Account, CalmInv, SteadyInv
  <2>3. ASSUME NEW j \in Jobs, Append(j), proc[j].run = r
        PROVE  FALSE
    <3>1. j \in Procs /\ proc[j].type = "item" /\ proc[j].op = "append"
      BY <1>0, <2>3, AppendDoes DEF Procs
    <3>2. Enriched
      BY <3>1 DEF Account, CalmInv, SteadyInv, PlainInv
    <3>3. OneHas
      BY <1>0, <3>2 DEF Clear, HonestInv, Still, Micro, Without, StillInv
    <3>4. r # 0
      BY WorkflowAssumption DEF Runs
    <3>. QED
      BY <2>1, <2>3, <3>1, <3>3, <3>4 DEF OneHas, Appending, Receives, OpenRuns
  <2>4. \A i \in Items : ~Added(r, i)
    <3>1. 0 # r
      BY WorkflowAssumption DEF Runs
    <3>. QED
      BY <1>0, <2>2, <2>3, <3>1 DEF Added, AddsTo
  <2>. QED
    BY <2>1, <2>4, HadSame
<1>2. ASSUME NEW j \in Jobs, Decide(j), proc[j].run = r
      PROVE  Had(r)' = {}
  <2>1. proc[j].n = 0
    BY <1>0, <1>2 DEF Decide, Write, Base, TypeOK, Row
  <2>2. proc[j].n = Cardinality(Had(r)) /\ UNCHANGED <<item, media, acted>>
    BY <1>2 DEF Decide, MatchedCounts, Decides, Procs
  <2>3. Had(r) = {}
    BY <2>1, <2>2, Finite, HadFinite, FS_EmptySet
  <2>. QED
    BY <2>2, <2>3 DEF Had, Purged
<1>3. RowStep(r)
  BY <1>0, RowSteps
<1>. QED
  BY <1>0, <1>1, <1>2, <1>3 DEF RowStep, Puts, Changes, Evaluated, ApprovedBy, CancelledBy,
     SettledBy, EmptyAt, Stamped, FallsDue, FailedBy, Lasts

\* A run that comes into being has counted what it was opened with.
LEMMA NewRun ==
  ASSUME Account, Next, NEW r \in Runs, ~Exists(r), Exists(r)'
  PROVE  (InHand(r) /\ MatchedCounts(r) /\ ProcessedCounts(r) /\ EmptyDone(r))'
<1>0. Base /\ Clear
  BY DEF Account
<1>1. r = last + 1 /\ (Creates(r) \/ Opens(r))
  BY <1>0, RowSteps DEF RowStep, Keeps, Puts, Exists
<1>2. /\ run[r] = NoRow /\ \A i \in Items : item[r][i] = "none" /\ acted[r][i] = 0
      /\ run \in [Runs -> Row] /\ item \in [Runs -> [Items -> States]]
  BY <1>0, <1>1, RowFacts DEF RunOK, Base, TypeOK, States
<1>3. \A q \in Procs : proc[q].run # r
  BY <1>0, <1>1, NobodyAhead
<1>4. r # 0 /\ 0 \notin Runs
  BY WorkflowAssumption DEF Runs
<1>5. CASE Creates(r)
  <2>1. PICK p \in Procs : CreateRun(p)
    BY <1>5 DEF Creates
  <2>2. /\ UNCHANGED <<item, media, acted>> /\ run'[r] = [NoRow EXCEPT !.status = "evaluating"]
    BY <1>0, <1>1, <1>2, <2>1 DEF CreateRun, Write
  <2>3. Had(r)' = {} /\ Tallied(r)' = {} /\ Partly(r)' = {}
    BY <1>2, <2>2 DEF Had, Tallied, Partly, Settled, Purged, ItemDone
  <2>4. \A q \in Procs : proc'[q].run = r => proc'[q].type = "none" /\ proc'[q].op = "announce"
    BY <1>0, <1>3, <2>1, CreateRunDoes DEF Becomes
  <2>5. /\ run'[r].matched = 0 /\ run'[r].processed = 0 /\ run'[r].succeeded = 0
        /\ run'[r].failed = 0 /\ run'[r].skipped = 0
    BY <2>2 DEF NoRow
  <2>. QED
    BY <2>3, <2>4, <2>5, FS_EmptySet DEF InHand, BatchAt, MatchedCounts, Pages, Decides,
       ProcessedCounts, EmptyDone
<1>6. CASE Opens(r)
  <2>1. PICK j \in Jobs : Append(j) /\ proc[j].run = 0
    BY <1>6 DEF Opens
  <2>2. /\ UNCHANGED <<media, acted>> /\ Becomes(j, Idle)
        /\ \/ run' = run
           \/ \E i \in Items : /\ item' = [item EXCEPT ![r][i] = "matched"]
                               /\ run' = [run EXCEPT ![r] =
                                    [NoRow EXCEPT !.status = "running", !.started = TRUE, !.matched = 1]]
    BY <1>0, <1>1, <1>4, <2>1, AppendDoes
  <2>3. PICK i \in Items : /\ item' = [item EXCEPT ![r][i] = "matched"]
                           /\ run' = [run EXCEPT ![r] =
                                [NoRow EXCEPT !.status = "running", !.started = TRUE, !.matched = 1]]
    BY <1>6, <1>2, <2>2, NoRowFacts DEF Opens
  <2>4. Had(r)' = {i} /\ Tallied(r)' = {} /\ Partly(r)' = {}
    BY <1>2, <2>2, <2>3 DEF Had, Tallied, Partly, Settled, Purged, ItemDone
  <2>5. \A q \in Procs : proc'[q].run # r
    BY <1>3, <1>4, <2>2, IdleFacts DEF Becomes
  <2>6. /\ run'[r].matched = 1 /\ run'[r].processed = 0 /\ run'[r].succeeded = 0
        /\ run'[r].failed = 0 /\ run'[r].skipped = 0 /\ run'[r].status = "running"
    BY <1>2, <2>3 DEF NoRow
  <2>. QED
    BY <2>4, <2>5, <2>6, FS_EmptySet, FS_Singleton DEF InHand, BatchAt, MatchedCounts, Pages, Decides,
       Evaluator, ProcessedCounts, EmptyDone
<1>. QED
  BY <1>1, <1>5, <1>6

LEMMA CountKept ==
  ASSUME Account, HonestInv, CountInv, Next
  PROVE  CountInv'
<1>0. Base
  BY DEF Account
<1>1. ASSUME NEW r \in Runs, run'[r].status = "running"
      PROVE  run'[r].started
  BY <1>0, <1>1, RunningKept DEF CountInv
<1>2. ASSUME NEW r \in Runs, Unshared(r)', Exists(r)'
      PROVE  (InHand(r) /\ MatchedCounts(r) /\ ProcessedCounts(r) /\ EmptyDone(r))'
  <2>1. Unshared(r) /\ Lasts(r)
    BY <1>0, <1>2, UnsharedBefore, NoRowFacts DEF Lasts, DeleteOld, Exists, Base, TypeOK
  <2>2. CASE Exists(r)
    <3>1. InHand(r) /\ MatchedCounts(r) /\ ProcessedCounts(r) /\ EmptyDone(r)
      BY <2>1, <2>2 DEF CountInv
    <3>2. InHand(r)'
      BY <2>1, <3>1, HoldsKept DEF InHand
    <3>. QED
      BY <2>1, <2>2, <3>1, <3>2, MatchedKept, ProcessedKept, EmptyDoneKept DEF CountInv
  <2>. QED
    BY <1>2, <2>2, NewRun
<1>. QED
  BY <1>1, <1>2 DEF CountInv

LEMMA CountStutters ==
  ASSUME CountInv, UNCHANGED vars
  PROVE  CountInv'
<1>1. UNCHANGED <<run, item, media, proc, acted>>
  BY DEF vars
<1> SUFFICES ASSUME NEW r \in Runs, Unshared(r)', Exists(r)'
             PROVE  (InHand(r) /\ MatchedCounts(r) /\ ProcessedCounts(r) /\ EmptyDone(r))'
  BY <1>1 DEF CountInv
<1>2. Unshared(r) /\ Exists(r)
  BY <1>1 DEF Unshared, Exists
<1>3. InHand(r) /\ MatchedCounts(r) /\ ProcessedCounts(r) /\ EmptyDone(r)
  BY <1>2 DEF CountInv
<1>4. Had(r)' = Had(r) /\ Tallied(r)' = Tallied(r) /\ Partly(r)' = Partly(r)
  BY <1>1 DEF Had, Tallied, Partly, Settled, Purged, Tallying, Pends, BatchAt
<1>5. InHand(r)'
  BY <1>1, <1>3 DEF InHand, Holds, BatchAt, Purged
<1>. QED
  BY <1>1, <1>3, <1>4, <1>5 DEF MatchedCounts, ProcessedCounts, EmptyDone, Pages, Decides, Evaluator,
     IsEvaluator

\* The books of a run that nothing works on
LEMMA BooksBalance ==
  ASSUME Base, CountInv, NEW r \in Runs, Unshared(r), Honest(r),
         run[r].status \in {"completed", "completed_with_errors"}, \A p \in Procs : proc[p].run # r
  PROVE  /\ run[r].matched = run[r].processed + Cardinality({i \in Items : item[r][i] = "excluded"})
         /\ run[r].succeeded + run[r].failed + run[r].skipped
              = run[r].processed + Cardinality({i \in Items : item[r][i] = "partially_applied"})
<1> DEFINE Left == {i \in Items : item[r][i] = "excluded"}
<1>1. MatchedCounts(r) /\ ProcessedCounts(r) /\ EmptyDone(r)
  BY DEF CountInv, Exists
<1>2. \A i \in Items : ~Tallying(r, i)
  BY DEF Tallying, Pends, BatchAt
<1>3. Tallied(r) = {i \in Items : Settled(r, i)}
  BY <1>2 DEF Tallied
<1>4. \A i \in Items : item[r][i] # "matched"
  <2>1. CASE run[r].started
    BY <2>1 DEF Honest, Matched
  <2>2. CASE ~run[r].started
    BY <1>1, <2>2 DEF EmptyDone, Had
  <2>. QED
    BY <2>1, <2>2, RowFacts
<1>5. Had(r) = Left \cup Tallied(r) /\ Left \cap Tallied(r) = {}
  <2>1. \A i \in Items : item[r][i] \in ItemDone \cup {"none", "matched", "excluded"}
    BY DEF Base, TypeOK
  <2>2. \A i \in Items : Purged(r, i) => item[r][i] = "none"
    BY DEF Purged, Base, RunOK
  <2>. QED
    BY <1>3, <1>4, <2>1, <2>2 DEF Had, Settled, ItemDone
<1>6. Cardinality(Had(r)) = Cardinality(Left) + Cardinality(Tallied(r))
  <2>1. /\ IsFiniteSet(Left) /\ IsFiniteSet(Tallied(r))
        /\ Cardinality(Left) \in Nat /\ Cardinality(Tallied(r)) \in Nat
    BY Finite, HadFinite
  <2>2. Cardinality(Left \cap Tallied(r)) = 0
    BY <1>5, FS_EmptySet
  <2>3. Cardinality(Left \cup Tallied(r))
          = Cardinality(Left) + Cardinality(Tallied(r)) - Cardinality(Left \cap Tallied(r))
    BY <2>1, FS_Union
  <2> HIDE DEF Left
  <2>. QED
    BY <1>5, <2>1, <2>2, <2>3
<1>7. run[r].matched = Cardinality(Had(r)) /\ Cardinality(Left) \in Nat /\ Cardinality(Tallied(r)) \in Nat
  BY <1>1, Finite, HadFinite DEF MatchedCounts, Pages
<1>8. Partly(r) = {i \in Items : item[r][i] = "partially_applied"}
  BY <1>3 DEF Partly, Settled, ItemDone
<1>. QED
  BY <1>1, <1>6, <1>7, <1>8 DEF ProcessedCounts

\* Nothing is lost from the books: when nothing is at work on a run that
\* completed, what it matched is what it processed and what a member excluded,
\* and its outcomes add up to what it processed.  The evaluation writes matched
\* from its own count and appendToMicroRun adds to it; applyCounters runs once for
\* every item a batch claimed, after its outcome was recorded.  An item is thus
\* unmatched, waiting, left out, counted, or in the hands of the one batch that
\* will count it.
THEOREM CountersBalance == Spec => []CountersAccount
<1> DEFINE Inv == OrderInv /\ HonestInv /\ (Clear => CountInv)
<1>1. Init => Inv
  <2>1. Init => CountInv
    BY NoRowFacts DEF Init, CountInv, Exists
  <2>. QED
    BY <2>1, OrderInit, HonestInit
<1>2. Inv /\ [Next]_vars => Inv'
  <2> SUFFICES ASSUME Inv, [Next]_vars
               PROVE  Inv'
    OBVIOUS
  <2>1. OrderInv' /\ HonestInv'
    BY OrderStep, HonestStep, HonestStutters
  <2>2. CASE Next
    <3>1. Clear' <=> Clear
      BY <2>2, SettingStays DEF Clear
    <3>2. Clear => CountInv'
      BY <2>2, CountKept, ClearCalm DEF OrderInv, Account
    <3>. QED
      BY <2>1, <3>1, <3>2
  <2>3. CASE UNCHANGED vars
    <3>1. Clear' <=> Clear
      BY <2>3 DEF Clear, vars
    <3>. QED
      BY <2>1, <2>3, <3>1, CountStutters
  <2>. QED
    BY <2>2, <2>3
<1>3. Inv => CountersAccount
  <2> SUFFICES ASSUME Inv, Clear, NEW r \in Runs,
                      run[r].status \in {"completed", "completed_with_errors"},
                      \A p \in Procs : proc[p].run # r, Unshared(r)
               PROVE  /\ run[r].matched
                           = run[r].processed + Cardinality({i \in Items : item[r][i] = "excluded"})
                      /\ run[r].succeeded + run[r].failed + run[r].skipped = run[r].processed
                           + Cardinality({i \in Items : item[r][i] = "partially_applied"})
    BY DEF CountersAccount, Clear, Unshared
  <2>1. Plain \/ Still
    BY DEF Clear, Plain, Still, Micro, Without
  <2>2. Honest(r) /\ Base
    BY <2>1 DEF HonestInv
  <2>. QED
    BY <2>2, BooksBalance
<1>. QED
  BY <1>1, <1>2, <1>3, PTL DEF Spec
=============================================================================
