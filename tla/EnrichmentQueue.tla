--------------------------- MODULE EnrichmentQueue ---------------------------
(***************************************************************************)
(* The enrichment job queue: rows of the table enrichment_jobs, the loops  *)
(* of the in-process worker and the worker nodes that claim and execute    *)
(* them, the shared terminal state machine that writes their outcome, the  *)
(* reaper of stuck rows and the admin operations on single rows.           *)
(*                                                                         *)
(* The terminal service writes `where: {id}` with the COPY of the row its  *)
(* caller claimed (or, for a node, re-read when its result arrived): the   *)
(* model keeps that copy in the executing slot, apart from the row.        *)
(*                                                                         *)
(* Hazards names what the environment is allowed to do.  The code runs     *)
(* under all of them; a theorem or a run says which ones it excludes:      *)
(*   "earlyLapse"  a row looks stuck while its execution is still alive    *)
(*                 (threshold 3 min, job timeout 10/20 min, lease 30 min)  *)
(*   "timeout"     a handler outlives withTimeout and runs on              *)
(*   "dbFault"     a terminal write fails and is not committed             *)
(*   "lostAck"     a terminal write commits but is reported as failed      *)
(*   "resubmit"    the node's HTTP client sends a result again             *)
(*   "adminRace"   a row is claimed between an admin's read and write      *)
(***************************************************************************)
EXTENDS Naturals, FiniteSets

CONSTANTS
  Jobs,         \* job ids
  Loops,        \* poll loops of the in-process worker
  Lanes,        \* concurrency slots of the worker nodes
  Nodes,        \* registered worker nodes
  NodeOf,       \* the node each lane belongs to
  None,         \* SQL NULL
  MaxAttempts,  \* ENRICHMENT_MAX_ATTEMPTS
  MaxHits,      \* ENRICHMENT_RATELIMIT_MAX_HITS
  Hazards,      \* see above
  MaxClaims,    \* bound: claims of a job between two admin resets
  MaxCrashes,   \* bound: crashes, of the server and of the nodes together
  MaxAdmin,     \* bound: admin operations
  MaxResends    \* bound: retries of one HTTP call (5 in the client)

HazardKinds ==
  {"earlyLapse", "timeout", "dbFault", "lostAck", "resubmit", "adminRace"}

Slots == Loops \cup Lanes

ASSUME QueueAssumption ==
  /\ Loops \cap Lanes = {}
  /\ NodeOf \in [Lanes -> Nodes]
  /\ None \notin Nodes \cup Jobs \cup Slots
  /\ MaxAttempts \in Nat \ {0}
  /\ MaxHits \in Nat \ {0}
  /\ Hazards \subseteq HazardKinds
  /\ MaxClaims \in Nat
  /\ MaxCrashes \in Nat
  /\ MaxAdmin \in Nat
  /\ MaxResends \in Nat

VARIABLES
  job,         \* the table: a row per job id
  slot,        \* what each loop or lane is doing, with its copy of the row
  background,  \* jobs whose timed-out handler still runs in the server
  reaper,      \* progress of resetStuck
  admin,       \* the admin operation between its read and its write
  crashes,     \* crashes so far (bound)
  adminOps,    \* admin operations so far (bound)
  \* Observations, read by properties only.
  holder,      \* the slot that made the claim in force, if any
  claims,      \* claims since the row was created or reset by an admin
  persisted,   \* jobs some execution has written its output for
  announced    \* outcome of the last settled event since the last admin reset

rowVars == <<job, holder, claims>>
opsVars == <<reaper, admin>>
bounds  == <<crashes, adminOps>>
vars    == <<job, slot, background, reaper, admin, crashes, adminOps,
             holder, claims, persisted, announced>>

Terminal == {"succeeded", "failed"}

Row == [status   : {"absent", "pending", "running", "deleted"} \cup Terminal,
        attempts : Nat,
        hits     : Nat,
        owner    : Nodes \cup {None},
        executor : {"none", "server", "node"},
        lease    : {"none", "live", "expired"},
        aged     : BOOLEAN,     \* a running row's startedAt is past the threshold
        deferred : BOOLEAN,     \* scheduledFor lies in the future
        finished : BOOLEAN]     \* finishedAt is set

Verdicts == {"none", "ok", "error", "limited"}

SlotState == [phase    : {"idle", "working", "submitting", "checked",
                          "writing", "rewriting"},
              job      : Jobs \cup {None},
              attempts : Nat,        \* of the caller's copy of the row
              hits     : Nat,        \* of the caller's copy of the row
              sent     : Verdicts,   \* what the node reports
              verdict  : Verdicts,   \* what the terminal service is told
              resends  : Nat]

Idle == [phase |-> "idle", job |-> None, attempts |-> 0, hits |-> 0,
         sent |-> "none", verdict |-> "none", resends |-> 0]

\* A slot that has just claimed job j, with the attempts and hits of its copy.
AtWork(j, attempts, hits) ==
  [phase |-> "working", job |-> j, attempts |-> attempts, hits |-> hits,
   sent |-> "none", verdict |-> "none", resends |-> 0]

\* The slot goes on to phase ph with verdict v for the terminal service.
Moved(c, ph, v) == [c EXCEPT !.phase = ph, !.verdict = v]

-----------------------------------------------------------------------------
(* Rows. *)

Fresh(status) ==
  [status |-> status, attempts |-> 0, hits |-> 0, owner |-> None,
   executor |-> "none", lease |-> "none", aged |-> FALSE, deferred |-> FALSE,
   finished |-> FALSE]

Exists(r) == r.status \notin {"absent", "deleted"}

Claimable(r) == r.status = "pending" /\ ~r.deferred

\* Mutant: the two identities of the claimer swapped.
ClaimedSwapped(r, node) ==
  [r EXCEPT !.status = "running", !.attempts = @ + 1, !.executor = node,
            !.owner = IF node = None THEN "server" ELSE "node",
            !.lease = "live", !.aged = FALSE, !.deferred = FALSE]

Claimed(r, node) ==
  [r EXCEPT !.status = "running", !.attempts = @ + 1, !.owner = node,
            !.executor = IF node = None THEN "server" ELSE "node",
            !.lease = "live", !.aged = FALSE, !.deferred = FALSE]

Stuck(r) == r.status = "running" /\ (r.aged \/ r.lease = "expired")

HeldBy(r, node) ==
  r.status = "running" /\ r.owner = node /\ r.lease = "live"

\* The two halves of resetStuck's selection.
\* Mutant: an exhausted row is one beyond the budget.
ExhaustedOffByOne(r) == Stuck(r) /\ r.attempts > MaxAttempts

Exhausted(r) == Stuck(r) /\ r.attempts >= MaxAttempts

\* Mutant: stuckRunningWhere not spread into the update.
RequeueableWhileAlive(r) == r.status = "running" /\ r.attempts < MaxAttempts

\* Mutant: lte for lt.
RequeueableOffByOne(r) == Stuck(r) /\ r.attempts <= MaxAttempts

Requeueable(r) == Stuck(r) /\ r.attempts < MaxAttempts

\* Mutant: the lease is not released.
RequeuedKeepingLease(r) ==
  [r EXCEPT !.status = "pending", !.owner = None, !.executor = "none",
            !.aged = FALSE, !.deferred = FALSE]

Requeued(r) ==
  [r EXCEPT !.status = "pending", !.owner = None, !.executor = "none",
            !.lease = "none", !.aged = FALSE, !.deferred = FALSE]

\* The claim of a row given up by the reaper is not released.
GivenUp(r) ==
  [r EXCEPT !.status = "failed", !.finished = TRUE, !.deferred = FALSE,
            !.aged = FALSE]

\* What the terminal service decides from the caller's copy c.
Outcome(c) ==
  CASE c.verdict = "ok"      -> "succeeded"
    [] c.verdict = "limited" -> IF c.hits + 1 >= MaxHits THEN "failed" ELSE "pending"
    [] OTHER                 -> IF c.attempts < MaxAttempts THEN "pending" ELSE "failed"

\* The row after the terminal write of copy c over the current row r.  A
\* rate-limited copy writes its own attempts and hits, absolute values.
Written(r, c) ==
  LET requeued == Outcome(c) = "pending"
      limited  == c.verdict = "limited"
  IN  [r EXCEPT !.status = Outcome(c), !.owner = None, !.lease = "none", !.aged = FALSE,
                !.executor = IF requeued THEN "none" ELSE @,
                !.finished = @ \/ ~requeued,
                !.deferred = IF c.verdict = "ok" THEN @ ELSE requeued,
                !.hits     = IF limited THEN c.hits + 1 ELSE @,
                !.attempts = IF limited THEN c.attempts - 1 ELSE @]

-----------------------------------------------------------------------------
(* Slots. *)

Executing(s) == slot[s].phase # "idle"

\* The request of a lane is inside the server.
InServer(s) == slot[s].phase \in {"checked", "writing", "rewriting"}

OwnerOf(s) == IF s \in Lanes THEN NodeOf[s] ELSE None

\* withRetry: an HTTP 500 or a network error makes the client call again.
Resent(s) ==
  IF "resubmit" \in Hazards /\ slot[s].resends < MaxResends
  THEN [Moved(slot[s], "submitting", "none") EXCEPT !.resends = @ + 1]
  ELSE Idle

\* Where a slot may go when its terminal call returns: a loop polls again; a
\* node whose result could not be persisted got a 500, any other node a 200
\* that may be lost.
Returned(s) ==
  IF s \in Loops THEN {Idle}
  ELSE IF slot[s].sent # slot[s].verdict THEN {Resent(s)}
  ELSE {Idle, Resent(s)}

Init ==
  /\ job = [j \in Jobs |-> Fresh("absent")]
  /\ slot = [s \in Slots |-> Idle]
  /\ background = {}
  /\ reaper = [phase |-> "idle", todo |-> {}]
  /\ admin = [op |-> "none", job |-> None]
  /\ crashes = 0
  /\ adminOps = 0
  /\ holder = [j \in Jobs |-> None]
  /\ claims = [j \in Jobs |-> 0]
  /\ persisted = {}
  /\ announced = [j \in Jobs |-> "none"]

Enqueue(j) ==
  /\ job[j].status = "absent"
  /\ job' = [job EXCEPT ![j] = Fresh("pending")]
  /\ UNCHANGED <<slot, background, opsVars, bounds, holder, claims, persisted, announced>>

-----------------------------------------------------------------------------
(* Claiming and executing. *)

\* One UPDATE ... FOR UPDATE SKIP LOCKED ... RETURNING: atomic, and the copy
\* it returns is the row it wrote.
Claim(s, j) ==
  /\ ~Executing(s)
  /\ Claimable(job[j])
  /\ claims[j] < MaxClaims
  /\ job' = [job EXCEPT ![j] = Claimed(@, OwnerOf(s))]
  /\ slot' = [slot EXCEPT ![s] = AtWork(j, job[j].attempts + 1, job[j].hits)]
  /\ holder' = [holder EXCEPT ![j] = s]
  /\ claims' = [claims EXCEPT ![j] = @ + 1]
  /\ UNCHANGED <<background, opsVars, bounds, persisted, announced>>

\* The claim commits and its reply is lost: the client calls again and gets
\* other rows; nobody executes this one.
ClaimReplyLost(l, j) ==
  /\ ~Executing(l)
  /\ Claimable(job[j])
  /\ claims[j] < MaxClaims
  /\ job' = [job EXCEPT ![j] = Claimed(@, NodeOf[l])]
  /\ holder' = [holder EXCEPT ![j] = None]
  /\ claims' = [claims EXCEPT ![j] = @ + 1]
  /\ UNCHANGED <<slot, background, opsVars, bounds, persisted, announced>>

\* processJob of the in-process worker: the handler writes its output itself.
HandlerReturns(w, verdict) ==
  /\ slot[w].phase = "working"
  /\ slot' = [slot EXCEPT ![w] = Moved(@, "writing", verdict)]
  /\ persisted' = IF verdict = "ok" THEN persisted \cup {slot[w].job} ELSE persisted
  /\ UNCHANGED <<rowVars, background, opsVars, bounds, announced>>

\* withTimeout rejects; the handler's promise is not cancelled.
HandlerTimesOut(w) ==
  /\ "timeout" \in Hazards
  /\ slot[w].phase = "working"
  /\ slot' = [slot EXCEPT ![w] = Moved(@, "writing", "error")]
  /\ background' = background \cup {slot[w].job}
  /\ UNCHANGED <<rowVars, opsVars, bounds, persisted, announced>>

BackgroundHandlerReturns(j) ==
  /\ j \in background
  /\ background' = background \ {j}
  /\ persisted' \in {persisted, persisted \cup {j}}
  /\ UNCHANGED <<rowVars, slot, opsVars, bounds, announced>>

\* processJob of the node engine: compute ends, the result or the failure is
\* sent with submitJobResult or reportJobFailure.
ComputeReturns(l, verdict) ==
  /\ slot[l].phase = "working"
  /\ slot' = [slot EXCEPT ![l] = [@ EXCEPT !.phase = "submitting", !.sent = verdict]]
  /\ UNCHANGED <<rowVars, background, opsVars, bounds, persisted, announced>>

\* assertJobHeldByNode on arrival.  When it passes, the copy used from here on
\* is the row just read, whichever claim of this node it belongs to; a 409 is
\* not retried.
CheckHeld(l) ==
  LET r == job[slot[l].job] IN
  /\ slot[l].phase = "submitting"
  /\ slot' = [slot EXCEPT ![l] =
       IF HeldBy(r, NodeOf[l])
       THEN [Moved(@, IF slot[l].sent = "ok" THEN "checked" ELSE "writing", slot[l].sent)
               EXCEPT !.attempts = r.attempts, !.hits = r.hits]
       ELSE Idle]
  /\ UNCHANGED <<rowVars, background, opsVars, bounds, persisted, announced>>

\* A result of the wrong type or shape is refused with a 400: the row stays
\* running, and the client does not send it again.
RefuseResult(l) ==
  /\ slot[l].phase = "checked"
  /\ slot' = [slot EXCEPT ![l] = Idle]
  /\ UNCHANGED <<rowVars, background, opsVars, bounds, persisted, announced>>

\* Mutant: the catch block falls through to completeSucceeded.
PersistNodeResultUnchecked(l) ==
  /\ slot[l].phase = "checked"
  /\ slot' = [slot EXCEPT ![l] = Moved(@, "writing", "ok")]
  /\ persisted' \in {persisted, persisted \cup {slot[l].job}}
  /\ UNCHANGED <<rowVars, background, opsVars, bounds, announced>>

\* persistNodeResult: a failure turns the result into a failed attempt.
PersistNodeResult(l) ==
  /\ slot[l].phase = "checked"
  /\ \/ /\ slot' = [slot EXCEPT ![l] = Moved(@, "writing", "ok")]
        /\ persisted' = persisted \cup {slot[l].job}
     \/ /\ \E v \in {"error", "limited"} :
             slot' = [slot EXCEPT ![l] = Moved(@, "writing", v)]
        /\ UNCHANGED persisted
  /\ UNCHANGED <<rowVars, background, opsVars, bounds, announced>>

\* The renewal timer of a lane; it runs until processJob returns.
RenewLease(l) ==
  LET j == slot[l].job IN
  /\ Executing(l)
  /\ job[j].status = "running"
  /\ job[j].owner = NodeOf[l]
  /\ job' = [job EXCEPT ![j] = [@ EXCEPT !.lease = "live"]]
  /\ UNCHANGED <<slot, background, opsVars, bounds, holder, claims, persisted, announced>>

-----------------------------------------------------------------------------
(* The terminal state machine: completeSucceeded and completeFailed. *)

Commit(s) ==
  LET j == slot[s].job IN
  /\ Exists(job[j])
  /\ job' = [job EXCEPT ![j] = Written(@, slot[s])]
  /\ holder' = [holder EXCEPT ![j] = None]

\* Mutant: a requeue is announced as a failure.
AnnounceEveryAttempt(s) ==
  announced' = [announced EXCEPT ![slot[s].job] =
                  IF Outcome(slot[s]) = "succeeded" THEN "succeeded" ELSE "failed"]

\* The settled event follows the write, whether or not the write succeeded,
\* and only when the decision was terminal.
Announce(s) ==
  announced' = IF Outcome(slot[s]) \in Terminal
               THEN [announced EXCEPT ![slot[s].job] = Outcome(slot[s])]
               ELSE announced

Return(s) == \E next \in Returned(s) : slot' = [slot EXCEPT ![s] = next]

\* First write of safeTerminalUpdate.
TerminalWrite(s) ==
  /\ slot[s].phase = "writing"
  /\ Commit(s)
  /\ Announce(s)
  /\ Return(s)
  /\ UNCHANGED <<background, opsVars, bounds, claims, persisted>>

\* It throws: the connection failed or the row is gone.
TerminalWriteFails(s) ==
  /\ slot[s].phase = "writing"
  /\ "dbFault" \in Hazards \/ ~Exists(job[slot[s].job])
  /\ slot' = [slot EXCEPT ![s] = Moved(@, "rewriting", slot[s].verdict)]
  /\ UNCHANGED <<rowVars, background, opsVars, bounds, persisted, announced>>

\* It throws although the database committed it.
TerminalWriteAckLost(s) ==
  /\ "lostAck" \in Hazards
  /\ slot[s].phase = "writing"
  /\ Commit(s)
  /\ slot' = [slot EXCEPT ![s] = Moved(@, "rewriting", slot[s].verdict)]
  /\ UNCHANGED <<background, opsVars, bounds, claims, persisted, announced>>

\* The single retry after one second.
TerminalRewrite(s) ==
  /\ slot[s].phase = "rewriting"
  /\ Commit(s)
  /\ Announce(s)
  /\ Return(s)
  /\ UNCHANGED <<background, opsVars, bounds, claims, persisted>>

\* The retry throws too and is swallowed.
TerminalRewriteFails(s) ==
  /\ slot[s].phase = "rewriting"
  /\ "dbFault" \in Hazards \/ ~Exists(job[slot[s].job])
  /\ Announce(s)
  /\ Return(s)
  /\ UNCHANGED <<rowVars, background, opsVars, bounds, persisted>>

-----------------------------------------------------------------------------
(* Time. *)

Unattended(j) == \A s \in Slots : slot[s].job # j

MayLapse(j) == "earlyLapse" \in Hazards \/ Unattended(j)

PassThreshold(j) ==
  /\ job[j].status = "running" /\ ~job[j].aged
  /\ MayLapse(j)
  /\ job' = [job EXCEPT ![j] = [@ EXCEPT !.aged = TRUE]]
  /\ UNCHANGED <<slot, background, opsVars, bounds, holder, claims, persisted, announced>>

LeaseExpires(j) ==
  /\ job[j].status = "running" /\ job[j].lease = "live"
  /\ MayLapse(j)
  /\ job' = [job EXCEPT ![j] = [@ EXCEPT !.lease = "expired"]]
  /\ UNCHANGED <<slot, background, opsVars, bounds, holder, claims, persisted, announced>>

DelayElapses(j) ==
  /\ job[j].status = "pending" /\ job[j].deferred
  /\ job' = [job EXCEPT ![j] = [@ EXCEPT !.deferred = FALSE]]
  /\ UNCHANGED <<slot, background, opsVars, bounds, holder, claims, persisted, announced>>

-----------------------------------------------------------------------------
(* Crashes. *)

\* The API process dies: loops, background handlers, the reaper and requests
\* in flight go with it.  The row changes only through the database.
ServerCrash ==
  /\ crashes < MaxCrashes
  /\ crashes' = crashes + 1
  /\ slot' = [s \in Slots |-> IF s \in Loops THEN Idle
                              ELSE IF InServer(s) THEN Resent(s) ELSE slot[s]]
  /\ background' = {}
  /\ reaper' = [phase |-> "idle", todo |-> {}]
  /\ admin' = [op |-> "none", job |-> None]
  /\ UNCHANGED <<rowVars, adminOps, persisted, announced>>

\* A worker node dies: its computations are lost; a request the server is
\* already serving completes.
NodeCrash(n) ==
  /\ crashes < MaxCrashes
  /\ crashes' = crashes + 1
  /\ slot' = [s \in Slots |->
       IF s \in Lanes /\ OwnerOf(s) = n /\ ~InServer(s) THEN Idle ELSE slot[s]]
  /\ UNCHANGED <<rowVars, background, opsVars, adminOps, persisted, announced>>

-----------------------------------------------------------------------------
(* resetStuck, run by a cron every ten minutes and from the jobs page. *)

ReadExhausted ==
  /\ reaper.phase = "idle"
  /\ reaper' = [phase |-> "failing",
                todo  |-> {j \in Jobs : Exhausted(job[j])}]
  /\ UNCHANGED <<rowVars, slot, background, admin, bounds, persisted, announced>>

\* Guarded on status = running only; the claim is not released.
FailExhausted(j) ==
  /\ j \in reaper.todo
  /\ reaper' = [reaper EXCEPT !.todo = @ \ {j}]
  /\ IF job[j].status = "running"
     THEN /\ job' = [job EXCEPT ![j] = GivenUp(@)]
          /\ holder' = [holder EXCEPT ![j] = None]
     ELSE UNCHANGED <<job, holder>>
  /\ UNCHANGED <<slot, background, admin, bounds, claims, persisted, announced>>

RequeueStuck ==
  /\ reaper = [phase |-> "failing", todo |-> {}]
  /\ reaper' = [phase |-> "idle", todo |-> {}]
  /\ job' = [j \in Jobs |-> IF Requeueable(job[j]) THEN Requeued(job[j]) ELSE job[j]]
  /\ holder' = [j \in Jobs |-> IF Requeueable(job[j]) THEN None ELSE holder[j]]
  /\ UNCHANGED <<slot, background, admin, bounds, claims, persisted, announced>>

-----------------------------------------------------------------------------
(* Admin operations. *)

\* retryJob and deleteJob read the row and refuse a running one ...
AdminReads(op, j) ==
  /\ adminOps < MaxAdmin
  /\ admin.op = "none"
  /\ Exists(job[j]) /\ job[j].status # "running"
  /\ adminOps' = adminOps + 1
  /\ admin' = [op |-> op, job |-> j]
  /\ UNCHANGED <<rowVars, slot, background, reaper, crashes, persisted, announced>>

\* ... then write it by id, whatever it has become.
AdminWrites ==
  LET j == admin.job IN
  /\ admin.op # "none"
  /\ admin' = [op |-> "none", job |-> None]
  /\ IF Exists(job[j]) /\ ("adminRace" \in Hazards \/ job[j].status # "running")
     THEN /\ job' = [job EXCEPT ![j] =
               Fresh(IF admin.op = "retry" THEN "pending" ELSE "deleted")]
          /\ holder' = [holder EXCEPT ![j] = None]
          /\ claims' = [claims EXCEPT ![j] = 0]
          /\ announced' = [announced EXCEPT ![j] = "none"]
     ELSE UNCHANGED <<rowVars, announced>>
  /\ UNCHANGED <<slot, background, reaper, bounds, persisted>>

\* Mutant: every finished row.
RetriedInBulkFinished(r) == r.status \in Terminal

RetriedInBulk(r) == r.status = "failed"

\* retryAllFailed: one conditional updateMany.
RetryAllFailed ==
  /\ adminOps < MaxAdmin
  /\ adminOps' = adminOps + 1
  /\ LET hit(j) == RetriedInBulk(job[j]) IN
     /\ job' = [j \in Jobs |-> IF hit(j) THEN Fresh("pending") ELSE job[j]]
     /\ holder' = [j \in Jobs |-> IF hit(j) THEN None ELSE holder[j]]
     /\ claims' = [j \in Jobs |-> IF hit(j) THEN 0 ELSE claims[j]]
     /\ announced' = [j \in Jobs |-> IF hit(j) THEN "none" ELSE announced[j]]
  /\ UNCHANGED <<slot, background, opsVars, crashes, persisted>>

-----------------------------------------------------------------------------
Terminate(s) ==
  \/ TerminalWrite(s)
  \/ TerminalWriteFails(s)
  \/ TerminalWriteAckLost(s)
  \/ TerminalRewrite(s)
  \/ TerminalRewriteFails(s)

LoopStep(w) ==
  \/ \E v \in {"ok", "error", "limited"} : HandlerReturns(w, v)
  \/ HandlerTimesOut(w)
  \/ Terminate(w)

LaneStep(l) ==
  \/ \E v \in {"ok", "error", "limited"} : ComputeReturns(l, v)
  \/ CheckHeld(l)
  \/ RefuseResult(l)
  \/ PersistNodeResult(l)
  \/ Terminate(l)

ResetStuck ==
  \/ ReadExhausted
  \/ \E j \in Jobs : FailExhausted(j)
  \/ RequeueStuck

Tick(j) == PassThreshold(j) \/ LeaseExpires(j) \/ DelayElapses(j)

Next ==
  \/ \E j \in Jobs : Enqueue(j) \/ Tick(j) \/ BackgroundHandlerReturns(j)
  \/ \E s \in Slots, j \in Jobs : Claim(s, j)
  \/ \E l \in Lanes, j \in Jobs : ClaimReplyLost(l, j)
  \/ \E w \in Loops : LoopStep(w)
  \/ \E l \in Lanes : LaneStep(l) \/ RenewLease(l)
  \/ ServerCrash
  \/ \E n \in Nodes : NodeCrash(n)
  \/ ResetStuck
  \/ \E op \in {"retry", "delete"}, j \in Jobs : AdminReads(op, j)
  \/ AdminWrites
  \/ RetryAllFailed

\* Loops poll forever, handlers and computations end (a hung one is timed out
\* or its process dies), the cron fires, and time passes for the delay and the
\* threshold of every row.  Nothing is assumed of nodes claiming, of admins or
\* of lease renewals.
Fairness ==
  /\ \A j \in Jobs : SF_vars(\E w \in Loops : Claim(w, j))
  /\ \A w \in Loops : WF_vars(LoopStep(w))
  /\ \A l \in Lanes : WF_vars(LaneStep(l))
  /\ \A j \in Jobs : WF_vars(PassThreshold(j)) /\ WF_vars(DelayElapses(j))
  /\ WF_vars(ResetStuck)
  /\ WF_vars(AdminWrites)

Spec == Init /\ [][Next]_vars

FairSpec == Spec /\ Fairness

-----------------------------------------------------------------------------
(* Properties. *)

TypeOK ==
  /\ job \in [Jobs -> Row]
  /\ slot \in [Slots -> SlotState]
  /\ background \subseteq Jobs
  /\ reaper \in [phase : {"idle", "failing"}, todo : SUBSET Jobs]
  /\ admin \in [op : {"none", "retry", "delete"}, job : Jobs \cup {None}]
  /\ crashes \in Nat
  /\ adminOps \in Nat
  /\ holder \in [Jobs -> Slots \cup {None}]
  /\ claims \in [Jobs -> Nat]
  /\ persisted \subseteq Jobs
  /\ announced \in [Jobs -> Terminal \cup {"none"}]

\* A slot that is executing a job holds the claim in force on it: the row is
\* running, was claimed for that slot's owner, and the copy the terminal
\* service will write with still agrees with the row.  In particular two
\* slots never execute one job, and no terminal write can land on a row that
\* has moved on.
OneExecution ==
  \A s \in Slots : Executing(s) =>
    LET r == job[slot[s].job] IN
    /\ holder[slot[s].job] = s
    /\ r.status = "running"
    /\ r.owner = OwnerOf(s)
    /\ r.attempts = slot[s].attempts
    /\ r.hits = slot[s].hits

\* Every claim since the last admin reset is accounted for, as a charged
\* attempt or as a rate-limit hit, and both stay within their budgets: a job
\* that kills its process each time is started MaxAttempts times.
RetryBudget ==
  \A j \in Jobs :
    /\ claims[j] = job[j].attempts + job[j].hits
    /\ job[j].attempts <= MaxAttempts
    /\ job[j].hits <= MaxHits

\* A pending row carries no trace of an executor: the claim, the node pages
\* and the reaper may all take it for unowned.
PendingUnowned ==
  \A j \in Jobs : job[j].status = "pending" =>
    /\ job[j].owner = None
    /\ job[j].executor = "none"
    /\ job[j].lease = "none"

\* A job recorded as succeeded has had its output written.
SuccessPersisted ==
  \A j \in Jobs : job[j].status = "succeeded" => j \in persisted

\* A settled event tells the truth: the row is in the announced state and
\* stays there until an admin resets it.
AnnouncedTruly ==
  \A j \in Jobs : announced[j] # "none" => job[j].status = announced[j]

\* A recorded success is undone by an admin only.
SuccessStands ==
  [][\A j \in Jobs :
       job[j].status = "succeeded" /\ job'[j].status # "succeeded"
         => admin.job = j]_vars

\* The worker of the contract: a slot that is still at work on the claim.
worker == [j \in Jobs |-> IF holder[j] # None /\ slot[holder[j]].job = j
                          THEN holder[j] ELSE None]

Contract == INSTANCE JobContract WITH
  Workers <- Slots, state <- [j \in Jobs |-> job[j].status], worker <- worker

\* The queue keeps the contract of JobContract.  Broken when the reaper takes
\* a job from a slot that is still executing it, or when two slots end up on
\* one job.
ContractKept == Contract!Spec

\* A running row does not stay running, whatever happened to its executor.
RunningEnds ==
  \A j \in Jobs : job[j].status = "running" ~> job[j].status # "running"

\* An enqueued job is settled: it succeeds, fails or is deleted.
EveryJobSettles ==
  \A j \in Jobs : job[j].status = "pending" ~>
                    job[j].status \in Terminal \cup {"deleted"}

\* A result is persisted only for the claim it was computed under: a late
\* result is refused (assertJobHeldByNode).
LateResultRefused ==
  [][\A l \in Lanes :
       slot[l].phase = "checked" /\ slot'[l].phase = "writing"
         => holder[slot[l].job] = l]_vars

\* Rows settle through the terminal service only, which emits the settled
\* event.
SettledAtChokepoint ==
  [][\A j \in Jobs :
       job[j].status = "running" /\ job'[j].status \in Terminal
         => \E s \in Slots : slot[s].job = j /\ slot[s].phase \in {"writing", "rewriting"}
                             /\ slot'[s] # slot[s]]_vars
=============================================================================
