---------------------------- MODULE WorkflowRuns ----------------------------
(***************************************************************************)
(* The runs of one media workflow: a run is created by a member, by the    *)
(* schedule or by the first match of an enriched item; its items are       *)
(* materialised, approved or not, executed in batches by queue jobs, and   *)
(* the last batch settles it.  Jobs are those of EnrichmentQueue seen      *)
(* through JobContract: claimed, retried up to MaxAttempts, and delivered  *)
(* twice when a lease lapses under a live worker.                          *)
(*                                                                         *)
(* A process is a job, a request of a member or a cron handler.  Its op    *)
(* names the next statement on the database, load is the payload of its    *)
(* job and todo what is left of it.                                        *)
(***************************************************************************)
EXTENDS Naturals, FiniteSets

CONSTANTS
  NItems,         \* bound: media items of the circle
  NRuns,          \* bound: runs ever created
  Jobs,           \* bound: queue jobs at a time, numbered
  Requests,       \* members' requests in progress
  Crons,          \* replicas of the cron handlers
  Settings,       \* the workflows and environments considered, see Setting
  Outcomes,       \* what the actions of an item can come to
  BatchSizes,     \* workflows.batchSize, read each time items are batched
  CancelEvery,    \* CANCEL_CHECK_INTERVAL
  MaxItems,       \* the cap on the items of a run
  MaxConcurrent,  \* workflows.maxConcurrentRuns
  MaxAttempts,    \* ENRICHMENT_MAX_ATTEMPTS
  MaxFaults       \* bound: crashes, errors, second deliveries, deleted items

Items == 1 .. NItems
Runs == 1 .. NRuns
Procs == Jobs \cup Requests \cup Crons

AllFaults == {
  "stale",      \* a request writes on a status that is no longer the one it read
  "emptied",    \* a run loses its last matched item before it is batched
  "crash",      \* the process of a job, a request or a cron handler dies
  "fails",      \* a job throws
  "redeliver",  \* a job is claimed again while its first execution goes on
  "window",     \* a collection window elapses while an item is being added
  "runNow"}     \* a member starts a run of a workflow for enriched items

Triggers == {"manual", "scheduled", "on_media_enriched"}
\* preview: the run needs approval, because requirePreview says so or an action
\* is gated.  asks and signals bound the requests and scheduled starts, and the jobs
\* enqueued for enriched items.
Setting == [trigger: Triggers, preview: BOOLEAN, faults: SUBSET AllFaults,
            asks: Nat, signals: Nat]

ASSUME WorkflowAssumption ==
  /\ NItems \in Nat /\ NRuns \in Nat /\ Jobs \subseteq Nat /\ IsFiniteSet(Procs)
  /\ Jobs \cap (Requests \cup Crons) = {} /\ Requests \cap Crons = {}
  /\ Settings \subseteq Setting
  /\ Outcomes \subseteq {"applied", "partially_applied", "failed", "skipped", "purged"}
  /\ BatchSizes \subseteq Nat \ {0}
  /\ CancelEvery \in Nat \ {0} /\ MaxItems \in Nat \ {0} /\ MaxAttempts \in Nat \ {0}

VARIABLES
  setting,  \* the workflow, its preview option and the faults; never changes
  run,      \* table workflow_runs
  item,     \* table workflow_run_items
  media,    \* the media items that exist
  proc,     \* jobs, requests and cron handlers
  last,     \* runs created so far
  signals, asked, faults,
  acted     \* observation: how often the actions of an item were executed

vars == <<setting, run, item, media, proc, last, signals, asked, faults, acted>>

Active == {"evaluating", "awaiting_approval", "running"}
Terminal == {"completed", "completed_with_errors", "failed", "cancelled", "expired"}
ItemDone == {"applied", "partially_applied", "failed", "skipped"}

Row == [status: Active \cup Terminal \cup {"none"},
        started: BOOLEAN, approved: BOOLEAN, due: BOOLEAN,
        matched: Nat, processed: Nat, succeeded: Nat, failed: Nat, skipped: Nat]

NoRow == [status |-> "none", started |-> FALSE, approved |-> FALSE, due |-> FALSE,
          matched |-> 0, processed |-> 0, succeeded |-> 0, failed |-> 0, skipped |-> 0]

Proc == [type: {"none", "evaluate", "batch", "item"},
         op: {"idle", "create", "announce", "exclude", "approve", "cancel", "count",
              "read", "post", "pending", "page", "decide", "claim", "act", "close",
              "tally", "settle", "lock", "append"},
         run: Runs \cup {0}, load: SUBSET Items, todo: SUBSET Items,
         n: Nat, tries: 0 .. MaxAttempts, out: Outcomes \cup {"none", "skipped"}]

Idle == [type |-> "none", op |-> "idle", run |-> 0, load |-> {}, todo |-> {},
         n |-> 0, tries |-> 0, out |-> "none"]

Exists(r) == run[r].status # "none"
Matched(r) == {i \in Items : item[r][i] = "matched"}
Least(S) == CHOOSE i \in S : \A k \in S : i <= k
May(fault) == fault \in setting.faults
Write(r, status) == run' = [run EXCEPT ![r].status = status]

Init ==
  /\ setting \in Settings
  /\ run = [r \in Runs |-> NoRow]
  /\ item = [r \in Runs |-> [i \in Items |-> "none"]]
  /\ media = Items
  /\ proc = [p \in Procs |-> Idle]
  /\ last = 0 /\ asked = 0 /\ faults = 0 /\ signals = 0
  /\ acted = [r \in Runs |-> [i \in Items |-> 0]]

-----------------------------------------------------------------------------
(* Processes and the queue                                                 *)

Become(p, op) == proc' = [proc EXCEPT ![p].op = op]
Leave(p) == proc' = [proc EXCEPT ![p] = Idle]

FreeSlots == {j \in Jobs : proc[j].op = "idle"}
Job(type, r, load) ==
  [Idle EXCEPT !.type = type, !.op = "pending", !.run = r, !.load = load]

\* Process p goes on as q, and a job enters the queue.
Enqueue(p, q, job) ==
  /\ FreeSlots # {}
  /\ proc' = [proc EXCEPT ![p] = q, ![Least(FreeSlots)] = job]

Claim(j, type) ==
  /\ proc[j].type = type /\ proc[j].op = "pending"
Began(j, op) ==
  [proc[j] EXCEPT !.op = op, !.tries = @ + 1, !.todo = proc[j].load, !.n = 0]

\* A member's request is in progress on run r, between its read and its write.
Held(r) == \E p \in Requests : proc[p].op \in {"exclude", "approve", "cancel"} /\ proc[p].run = r
Evaluating(r) == \E j \in Jobs :
  proc[j].type = "evaluate" /\ proc[j].op # "pending" /\ proc[j].run = r

-----------------------------------------------------------------------------
(* Creating a run                                                          *)

GateOpen == Cardinality({r \in Runs : run[r].status \in Active}) < MaxConcurrent

\* The bound on runs, those about to be created included.
RunsLeft ==
  last + Cardinality({p \in Procs : proc[p].op = "create" \/ (proc[p].op = "append" /\ proc[p].run = 0)})
    < NRuns

Admitted(p) ==
  /\ proc[p].op = "idle" /\ asked < setting.asks /\ RunsLeft
  /\ GateOpen
  /\ asked' = asked + 1
  /\ Become(p, "create")
  /\ UNCHANGED <<setting, run, item, media, last, signals, faults, acted>>

AskCreate(p) ==
  /\ setting.trigger # "on_media_enriched" \/ May("runNow")
  /\ Admitted(p)

\* The tick also sees that no run of this workflow is active.
ScheduleFires(c) ==
  /\ setting.trigger = "scheduled"
  /\ \A r \in Runs : run[r].status \notin Active
  /\ Admitted(c)

CreateRun(p) ==
  /\ proc[p].op = "create"
  /\ last' = last + 1
  /\ Write(last + 1, "evaluating")
  /\ proc' = [proc EXCEPT ![p].op = "announce", ![p].run = last + 1]
  /\ UNCHANGED <<setting, item, media, signals, asked, faults, acted>>

AnnounceRun(p) ==
  /\ proc[p].op = "announce"
  /\ Enqueue(p, Idle, Job("evaluate", proc[p].run, {}))
  /\ UNCHANGED <<setting, run, item, media, last, signals, asked, faults, acted>>

-----------------------------------------------------------------------------
(* workflow_evaluate: the items of the run                                 *)

BeginEvaluate(j) ==
  /\ Claim(j, "evaluate")
  /\ IF run[proc[j].run].status = "evaluating"
       THEN proc' = [proc EXCEPT ![j] = [Began(j, "page") EXCEPT !.todo = media]]
       ELSE Leave(j)
  /\ UNCHANGED <<setting, run, item, media, last, signals, asked, faults, acted>>

\* One page, inserted with skipDuplicates; a page is one item.
EvaluatePage(j) ==
  LET i == Least(proc[j].todo)
      r == proc[j].run IN
  /\ proc[j].op = "page" /\ proc[j].todo # {} /\ proc[j].n < MaxItems
  /\ \/ /\ i \in media
        /\ item' = [item EXCEPT ![r][i] = IF @ = "none" THEN "matched" ELSE @]
        /\ proc' = [proc EXCEPT ![j].todo = @ \ {i}, ![j].n = @ + 1]
     \/ /\ proc' = [proc EXCEPT ![j].todo = @ \ {i}]
        /\ UNCHANGED item
  /\ UNCHANGED <<setting, run, media, last, signals, asked, faults, acted>>

RecordMatched(j) ==
  /\ proc[j].op = "page" /\ (proc[j].todo = {} \/ proc[j].n = MaxItems)
  /\ Exists(proc[j].run)
  /\ run' = [run EXCEPT ![proc[j].run].matched = proc[j].n]
  /\ Become(j, "decide")
  /\ UNCHANGED <<setting, item, media, last, signals, asked, faults, acted>>

\* Mutant: requirePreview read the wrong way round.
BypassesPreview == setting.trigger # "manual" \/ setting.preview

Bypasses == setting.trigger # "manual" \/ ~setting.preview

\* Each write goes by id, whatever the status has become.
Decide(j) ==
  LET r == proc[j].run IN
  /\ proc[j].op = "decide" /\ Exists(r)
  /\ \/ proc[j].n = 0 /\ Write(r, "completed") /\ Leave(j)
     \/ /\ proc[j].n > 0 /\ Bypasses
        /\ run' = [run EXCEPT ![r].status = "running", ![r].started = TRUE]
        /\ Become(j, "read")
     \/ proc[j].n > 0 /\ ~Bypasses /\ Write(r, "awaiting_approval") /\ Leave(j)
  /\ UNCHANGED <<setting, item, media, last, signals, asked, faults, acted>>

-----------------------------------------------------------------------------
(* enqueueExecuteBatches, called by evaluation, approval and dispatch      *)

ReadMatched(p) ==
  /\ proc[p].op = "read"
  /\ \E n \in BatchSizes :
       proc' = [proc EXCEPT ![p].op = "post", ![p].todo = Matched(proc[p].run), ![p].n = n]
  /\ UNCHANGED <<setting, run, item, media, last, signals, asked, faults, acted>>

Chunk(S, n) == {i \in S : Cardinality({k \in S : k < i}) < n}

PostBatch(p) ==
  LET chunk == Chunk(proc[p].todo, proc[p].n) IN
  /\ proc[p].op = "post" /\ proc[p].todo # {}
  /\ Enqueue(p, [proc[p] EXCEPT !.todo = @ \ chunk], Job("batch", proc[p].run, chunk))
  /\ UNCHANGED <<setting, run, item, media, last, signals, asked, faults, acted>>

Posted(p) ==
  /\ proc[p].op = "post" /\ proc[p].todo = {}
  /\ Leave(p)
  /\ UNCHANGED <<setting, run, item, media, last, signals, asked, faults, acted>>

-----------------------------------------------------------------------------
(* A member approves or cancels                                            *)

\* Mutant: a run that is being executed can be approved again.
ApprovableRunning == {"awaiting_approval", "running"}
Approvable == {"awaiting_approval"}

Ask(p, r, op) ==
  /\ proc[p].op = "idle" /\ asked < setting.asks
  /\ May("stale") \/ ~Held(r)
  /\ asked' = asked + 1
  /\ proc' = [proc EXCEPT ![p].op = op, ![p].run = r]
  /\ UNCHANGED <<setting, run, item, media, last, signals, faults, acted>>

AskApprove(p, r) == run[r].status \in Approvable /\ Ask(p, r, "exclude")

\* Mutant: cancelling does not look at the status.
CancellableAny == Active \cup Terminal
Cancellable == Active
AskCancel(p, r) == run[r].status \in Cancellable /\ Ask(p, r, "cancel")

\* The member leaves out some of the items that are still matched.
Exclude(p) ==
  LET r == proc[p].run IN
  /\ proc[p].op = "exclude"
  /\ \E X \in SUBSET Matched(r) :
       /\ X # Matched(r) \/ May("emptied") \/ Matched(r) = {}
       /\ item' = [item EXCEPT ![r] = [i \in Items |-> IF i \in X THEN "excluded" ELSE @[i]]]
  /\ Become(p, "approve")
  /\ UNCHANGED <<setting, run, media, last, signals, asked, faults, acted>>

Approve(p) ==
  LET r == proc[p].run IN
  /\ proc[p].op = "approve"
  /\ IF Exists(r)
       THEN /\ run' = [run EXCEPT ![r].status = "running", ![r].started = TRUE,
                                  ![r].approved = TRUE]
            /\ Become(p, "read")
       ELSE Leave(p) /\ UNCHANGED run
  /\ UNCHANGED <<setting, item, media, last, signals, asked, faults, acted>>

\* Without "stale" no run ends, and none is being evaluated, meanwhile.
Cancel(p) ==
  LET r == proc[p].run IN
  /\ proc[p].op = "cancel"
  /\ May("stale") \/ ~Evaluating(r)
  /\ Leave(p)
  /\ IF Exists(r) /\ (May("stale") \/ run[r].status \in Cancellable)
       THEN Write(r, "cancelled") ELSE UNCHANGED run
  /\ UNCHANGED <<setting, item, media, last, signals, asked, faults, acted>>

-----------------------------------------------------------------------------
(* workflow_execute_batch                                                  *)

BeginBatch(j) ==
  /\ Claim(j, "batch")
  /\ IF run[proc[j].run].status \in {"none", "cancelled"}
       THEN Leave(j) ELSE proc' = [proc EXCEPT ![j] = Began(j, "claim")]
  /\ UNCHANGED <<setting, run, item, media, last, signals, asked, faults, acted>>

CheckDue(n) == n > 0 /\ n % CancelEvery = 0

\* Mutant: an outcome is written whatever the row says.
ClaimableAny(r, i) == i \in Items
\* Mutant: a retry takes every item that was not excluded.
ClaimableAgain(r, i) == item[r][i] \notin {"none", "excluded"}
Claimable(r, i) == item[r][i] = "matched"

\* The periodic look at the run, then the claim: an updateMany on matched.
ClaimItem(j) ==
  LET r == proc[j].run
      i == Least(proc[j].todo) IN
  /\ proc[j].op = "claim" /\ proc[j].todo # {}
  /\ IF CheckDue(proc[j].n) /\ run[r].status = "cancelled" THEN Leave(j)
     ELSE IF Claimable(r, i) THEN Become(j, "act")
     ELSE proc' = [proc EXCEPT ![j].todo = @ \ {i}, ![j].n = @ + 1]
  /\ UNCHANGED <<setting, run, item, media, last, signals, asked, faults, acted>>

\* The item's row and its media item go together.
Purge(i) ==
  /\ media' = media \ {i}
  /\ item' = [r \in Runs |-> [item[r] EXCEPT ![i] = "none"]]

\* Either the item has drifted and is skipped, or its actions are executed;
\* hard_delete is for manual runs, which it makes need approval.
Act(j) ==
  LET r == proc[j].run
      i == Least(proc[j].todo) IN
  /\ proc[j].op = "act"
  /\ \E o \in Outcomes \cup {"skipped"} :
       /\ i \notin media => o = "skipped"
       /\ proc' = [proc EXCEPT ![j].op = "close", ![j].out = o]
       /\ IF o = "skipped" THEN UNCHANGED acted
          ELSE acted' = [acted EXCEPT ![r][i] = @ + 1]
       /\ IF o = "purged" THEN ~Bypasses /\ Purge(i)
          ELSE UNCHANGED <<media, item>>
  /\ UNCHANGED <<setting, run, last, signals, asked, faults>>

CloseItem(j) ==
  LET r == proc[j].run
      i == Least(proc[j].todo) IN
  /\ proc[j].op = "close"
  /\ item' = IF Claimable(r, i) THEN [item EXCEPT ![r][i] = proc[j].out] ELSE item
  /\ Become(j, "tally")
  /\ UNCHANGED <<setting, run, media, last, signals, asked, faults, acted>>

One(out, S) == IF out \in S THEN 1 ELSE 0
\* Mutant: an item partially applied counts as an error only.
CountedOnce(row, out) ==
  [row EXCEPT !.processed = @ + 1,
              !.succeeded = @ + One(out, {"applied", "purged"}),
              !.failed = @ + One(out, {"failed", "partially_applied"}),
              !.skipped = @ + One(out, {"skipped"})]
Counted(row, out) ==
  [row EXCEPT !.processed = @ + 1,
              !.succeeded = @ + One(out, {"applied", "partially_applied", "purged"}),
              !.failed = @ + One(out, {"failed", "partially_applied"}),
              !.skipped = @ + One(out, {"skipped"})]

Tally(j) ==
  LET r == proc[j].run IN
  /\ proc[j].op = "tally" /\ Exists(r)
  /\ run' = [run EXCEPT ![r] = Counted(@, proc[j].out)]
  /\ proc' = [proc EXCEPT ![j].op = "claim", ![j].todo = @ \ {Least(@)}, ![j].n = @ + 1,
                          ![j].out = "none"]
  /\ UNCHANGED <<setting, item, media, last, signals, asked, faults, acted>>

\* Mutant: each batch settles the run when it is through its own items.
DrainedOwn(r) == Exists(r)
\* Mutant: an excluded item still counts as waiting.
DrainedAll(r) == \A i \in Items : item[r][i] \notin {"matched", "excluded"}
Drained(r) == Matched(r) = {}
FinishBatch(j) ==
  /\ proc[j].op = "claim" /\ proc[j].todo = {}
  /\ IF Drained(proc[j].run) THEN Become(j, "settle") ELSE Leave(j)
  /\ UNCHANGED <<setting, run, item, media, last, signals, asked, faults, acted>>

Erred(r) == \E i \in Items : item[r][i] \in {"failed", "partially_applied"}

\* updateMany on running: only one batch settles the run.
SettleRun(j) ==
  LET r == proc[j].run IN
  /\ proc[j].op = "settle"
  /\ IF run[r].status = "running"
       THEN Write(r, IF Erred(r) THEN "completed_with_errors" ELSE "completed")
       ELSE UNCHANGED run
  /\ Leave(j)
  /\ UNCHANGED <<setting, item, media, last, signals, asked, faults, acted>>

-----------------------------------------------------------------------------
(* workflow_evaluate_item and the collection window                        *)

\* The listener finds the last dependency of the item settled; two that
\* settle together both enqueue.
Signal(i) ==
  /\ setting.trigger = "on_media_enriched" /\ signals < setting.signals
  /\ signals' = signals + 1
  /\ FreeSlots # {}
  /\ proc' = [proc EXCEPT ![Least(FreeSlots)] = Job("item", 0, {i})]
  /\ UNCHANGED <<setting, run, item, media, last, asked, faults, acted>>

\* Mutant: the guard looks at the open micro-run only.
CollectedOpen(i) == \E r \in Runs : run[r].status = "running" /\ item[r][i] # "none"
Collected(i) == \E r \in Runs : item[r][i] # "none"

BeginItem(j) ==
  /\ Claim(j, "item")
  /\ LET i == Least(proc[j].load) IN
     \/ Leave(j)                                   \* the item does not match
     \/ /\ i \in media /\ ~Collected(i)
        /\ proc' = [proc EXCEPT ![j] = Began(j, "lock")]
  /\ UNCHANGED <<setting, run, item, media, last, signals, asked, faults, acted>>

OpenRuns == {r \in Runs : /\ setting.trigger = "on_media_enriched"
                          /\ run[r].status = "running" /\ run[r].started
                          /\ ~run[r].approved /\ ~run[r].due}
\* Mutant: the workflow row is not locked.
UnlockedAlways == Jobs # {}
Unlocked == \A k \in Jobs : proc[k].op # "append"

\* The newest open micro-run, or 0 for one that is still to be opened.
Receiver ==
  IF OpenRuns = {} THEN 0 ELSE CHOOSE r \in OpenRuns : \A s \in OpenRuns : s <= r

\* SELECT ... FOR UPDATE on the workflow, then the open micro-run.
LockWorkflow(j) ==
  /\ proc[j].op = "lock" /\ Unlocked
  /\ OpenRuns # {} \/ RunsLeft
  /\ proc' = [proc EXCEPT ![j].op = "append", ![j].run = Receiver]
  /\ UNCHANGED <<setting, run, item, media, last, signals, asked, faults, acted>>

\* The rest of the transaction: append, or open a micro-run.
Append(j) ==
  LET i == Least(proc[j].load)
      r == proc[j].run IN
  /\ proc[j].op = "append"
  /\ IF i \notin media \/ (r # 0 /\ item[r][i] # "none")
       THEN UNCHANGED <<run, item, last>>
     ELSE IF r # 0
       THEN /\ item' = [item EXCEPT ![r][i] = "matched"]
            /\ run' = [run EXCEPT ![r].matched = @ + 1]
            /\ UNCHANGED last
     ELSE /\ last' = last + 1
          /\ item' = [item EXCEPT ![last + 1][i] = "matched"]
          /\ run' = [run EXCEPT ![last + 1] =
                       [NoRow EXCEPT !.status = "running", !.started = TRUE, !.matched = 1]]
  /\ Leave(j)
  /\ UNCHANGED <<setting, media, signals, asked, faults, acted>>

\* Adding an item takes no part of the five minutes, unless "window".
WindowElapses(r) ==
  /\ r \in OpenRuns
  /\ May("window") \/ \A j \in Jobs : proc[j].op \notin {"lock", "append"}
  /\ run' = [run EXCEPT ![r].due = TRUE]
  /\ UNCHANGED <<setting, item, media, proc, last, signals, asked, faults, acted>>

Undispatched(r) == run[r].status = "running" /\ ~run[r].approved
StampRun(c, r) ==
  /\ proc[c].op = "idle" /\ run[r].due /\ Undispatched(r)
  /\ run' = [run EXCEPT ![r].approved = TRUE]
  /\ proc' = [proc EXCEPT ![c].op = "count", ![c].run = r]
  /\ UNCHANGED <<setting, item, media, last, signals, asked, faults, acted>>

DispatchRun(c) ==
  LET r == proc[c].run IN
  /\ proc[c].op = "count"
  /\ IF Matched(r) # {} THEN Become(c, "read") /\ UNCHANGED run
     ELSE /\ Leave(c)
          /\ IF run[r].status = "running" THEN Write(r, "completed") ELSE UNCHANGED run
  /\ UNCHANGED <<setting, item, media, last, signals, asked, faults, acted>>

-----------------------------------------------------------------------------
(* workflow_history_purge                                                  *)

Expire(r) ==
  /\ run[r].status = "awaiting_approval"
  /\ May("stale") \/ ~Held(r)
  /\ Write(r, "expired")
  /\ UNCHANGED <<setting, item, media, proc, last, signals, asked, faults, acted>>

\* After runHistoryRetentionDays no process is at work on the run.
DeleteOld(r) ==
  /\ run[r].status \in Terminal
  /\ \A p \in Procs : proc[p].run # r
  /\ run' = [run EXCEPT ![r] = NoRow]
  /\ item' = [item EXCEPT ![r] = [i \in Items |-> "none"]]
  /\ UNCHANGED <<setting, media, proc, last, signals, asked, faults, acted>>

-----------------------------------------------------------------------------
(* Faults                                                                  *)

Fault == faults < MaxFaults /\ faults' = faults + 1

\* The lease lapses and the row is claimed again, or failed at its last attempt.
Requeued(j) ==
  IF proc[j].tries = MaxAttempts THEN Idle
  ELSE [Job(proc[j].type, IF proc[j].type = "item" THEN 0 ELSE proc[j].run, proc[j].load)
          EXCEPT !.tries = proc[j].tries]

Crash(p) ==
  /\ May("crash") /\ Fault
  /\ proc[p].op \notin {"idle", "pending"}
  /\ proc' = [proc EXCEPT ![p] = IF p \in Jobs THEN Requeued(p) ELSE Idle]
  /\ UNCHANGED <<setting, run, item, media, last, signals, asked, acted>>

\* processItem catches what its own statements throw; an evaluation that
\* throws on its last attempt fails the run, whatever its status.
Throws(j) ==
  /\ May("fails") /\ Fault
  /\ \/ proc[j].type = "batch" /\ proc[j].op \in {"tally", "settle"}
     \/ /\ proc[j].type = "evaluate" /\ proc[j].op # "pending"
        /\ proc[j].op = "post" => proc[j].todo # {}
  /\ proc' = [proc EXCEPT ![j] = Requeued(j)]
  /\ IF proc[j].type = "evaluate" /\ proc[j].tries = MaxAttempts /\ Exists(proc[j].run)
       THEN Write(proc[j].run, "failed") ELSE UNCHANGED run
  /\ UNCHANGED <<setting, item, media, last, signals, asked, acted>>

Redeliver(j) ==
  /\ May("redeliver") /\ Fault
  /\ proc[j].op \notin {"idle", "pending"} /\ proc[j].tries < MaxAttempts
  /\ FreeSlots # {}
  /\ proc' = [proc EXCEPT ![Least(FreeSlots)] = Requeued(j)]
  /\ UNCHANGED <<setting, run, item, media, last, signals, asked, acted>>

\* The media item is deleted elsewhere.
Vanish(i) ==
  /\ May("emptied") /\ Fault
  /\ i \in media /\ Purge(i)
  /\ UNCHANGED <<setting, run, proc, last, signals, asked, acted>>

-----------------------------------------------------------------------------
JobStep(j) ==
  \/ BeginEvaluate(j) \/ EvaluatePage(j) \/ RecordMatched(j) \/ Decide(j)
  \/ ReadMatched(j) \/ PostBatch(j) \/ Posted(j)
  \/ BeginBatch(j) \/ ClaimItem(j) \/ Act(j) \/ CloseItem(j) \/ Tally(j)
  \/ FinishBatch(j) \/ SettleRun(j)
  \/ BeginItem(j) \/ LockWorkflow(j) \/ Append(j)

RequestStep(p) ==
  \/ CreateRun(p) \/ AnnounceRun(p) \/ Exclude(p) \/ Approve(p) \/ Cancel(p)
  \/ ReadMatched(p) \/ PostBatch(p) \/ Posted(p)

CronStep(c) ==
  \/ CreateRun(c) \/ AnnounceRun(c) \/ DispatchRun(c)
  \/ ReadMatched(c) \/ PostBatch(c) \/ Posted(c)

Asks(p) == AskCreate(p) \/ \E r \in Runs : AskApprove(p, r) \/ AskCancel(p, r)

Next ==
  \/ \E j \in Jobs : JobStep(j) \/ Throws(j) \/ Redeliver(j)
  \/ \E p \in Requests : RequestStep(p) \/ Asks(p)
  \/ \E c \in Crons : CronStep(c) \/ ScheduleFires(c) \/ \E r \in Runs : StampRun(c, r)
  \/ \E r \in Runs : WindowElapses(r) \/ Expire(r) \/ DeleteOld(r)
  \/ \E p \in Procs : Crash(p)
  \/ \E i \in Items : Signal(i) \/ Vanish(i)

\* Workers and servers go on, the window elapses, the ticks come, and the
\* purge expires what nobody approves.
Fairness ==
  /\ \A j \in Jobs : WF_vars(JobStep(j))
  /\ \A p \in Requests : WF_vars(RequestStep(p))
  /\ \A c \in Crons : WF_vars(CronStep(c))
  /\ \A r \in Runs : /\ WF_vars(WindowElapses(r))
                     /\ WF_vars(\E c \in Crons : StampRun(c, r))
                     /\ WF_vars(Expire(r))

Spec == Init /\ [][Next]_vars /\ Fairness

-----------------------------------------------------------------------------
Without(S) == setting.faults \cap S = {}

\* The tables hold rows, and every process is between two statements.
TypeOK ==
  /\ setting \in Settings
  /\ run \in [Runs -> Row]
  /\ item \in [Runs -> [Items -> ItemDone \cup {"none", "matched", "excluded"}]]
  /\ media \subseteq Items
  /\ proc \in [Procs -> Proc]
  /\ last \in 0 .. NRuns

\* No action of a previewed manual run is executed before a member approved it,
\* whatever is lost, repeated or raced.
ApprovedFirst ==
  \A r \in Runs, i \in Items :
    acted[r][i] > 0 /\ setting.trigger = "manual" /\ setting.preview /\ Exists(r)
      => run[r].approved

\* A run that was executed and says completed left no item waiting and none in
\* error (maybeFinalizeRun).  Retries, crashes and raced requests keep this.
SettledHonest ==
  Without({"window", "redeliver", "runNow"}) =>
    \A r \in Runs : /\ run[r].started
                    /\ run[r].status \in {"completed", "completed_with_errors"}
      => Drained(r) /\ (run[r].status = "completed" => ~Erred(r))

\* When nothing is at work on a finished run its counters account for every
\* item: matched is processed plus excluded, and processed is what succeeded,
\* failed or was skipped, an item that did both counting twice (applyCounters);
\* as long as no other run has deleted items, and their rows, for good.
CountersAccount ==
  setting.faults = {} =>
    \A r \in Runs :
      LET row == run[r]
          With(s) == Cardinality({i \in Items : item[r][i] = s}) IN
      /\ row.status \in {"completed", "completed_with_errors"}
      /\ \A p \in Procs : proc[p].run # r
      /\ \A s \in Runs \ {r}, i \in Items : acted[s][i] > 0 => i \in media
      => /\ row.matched = row.processed + With("excluded")
         /\ row.succeeded + row.failed + row.skipped = row.processed + With("partially_applied")

\* An item a member excluded from a run is never acted upon for it.
ExclusionHolds ==
  Without({"stale", "redeliver"}) =>
    \A r \in Runs, i \in Items : item[r][i] = "excluded" => acted[r][i] = 0

\* At most one micro-run of the workflow collects (FOR UPDATE in appendToMicroRun),
\* as long as no run is started by hand, which is taken for one.
OneCollecting == Without({"runNow"}) => Cardinality(OpenRuns) <= 1

\* No batch of a run exists while it collects, so that nothing executes or
\* settles it before it is dispatched.
CollectsUnbatched ==
  \A j \in Jobs : proc[j].type = "batch" => proc[j].run \notin OpenRuns

\* An item is collected by one micro-run only, cancelled ones apart: the
\* evaluate-once guard, read outside the transaction, and the unique (run, item).
CollectedOnce ==
  setting.trigger = "on_media_enriched" /\ Without({"window", "runNow"}) =>
    \A i \in Items :
      Cardinality({r \in Runs : run[r].status # "cancelled" /\ item[r][i] # "none"}) <= 1

\* A retry after a crash or an error never executes the actions of an item whose
\* outcome was recorded (the claim in processItem).
NoReapply ==
  [][Without({"stale", "redeliver", "runNow"}) =>
       \A r \in Runs, i \in Items : acted'[r][i] > acted[r][i] => item[r][i] = "matched"]_vars

\* A finished run stays as it finished until it is purged.  An evaluation that
\* throws writes failed by id: with its items gone, its run may have ended before.
TerminalFinal ==
  [][Without({"stale", "redeliver", "runNow"}) /\ (Without({"emptied"}) \/ Without({"fails"})) =>
       \A r \in Runs : run[r].status \in Terminal
         => run'[r].status \in {run[r].status, "none"}]_vars

\* Every run ends.
RunSettles ==
  \A r \in Runs : (setting.faults = {} /\ run[r].status \in Active)
                    ~> (run[r].status \notin Active)
=============================================================================
