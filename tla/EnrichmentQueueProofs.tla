------------------------ MODULE EnrichmentQueueProofs ------------------------
(***************************************************************************)
(* Proofs about EnrichmentQueue, for every set of jobs, loops, lanes and   *)
(* nodes and every value of the bounds and budgets.                        *)
(***************************************************************************)
EXTENDS EnrichmentQueue, TLAPS

(* A row that is or was claimed has been charged at least one attempt, so  *)
(* the absolute value attempts - 1 written for a rate limit is a natural   *)
(* number; a slot at work is at work on a job.                             *)
Charged ==
  /\ \A j \in Jobs : job[j].status = "running" => job[j].attempts >= 1
  /\ \A s \in Slots : Executing(s) => slot[s].attempts >= 1 /\ slot[s].job \in Jobs

TypeInv == TypeOK /\ Charged

-----------------------------------------------------------------------------
(* Lemmas about the operators on rows and slots. *)

LEMMA FreshRow ==
  ASSUME NEW st \in {"absent", "pending", "deleted"}
  PROVE  Fresh(st) \in Row /\ Fresh(st).status = st
BY DEF Fresh, Row, Terminal

LEMMA ClaimedRow ==
  ASSUME NEW r \in Row, NEW node \in Nodes \cup {None}
  PROVE  /\ Claimed(r, node) \in Row
         /\ Claimed(r, node).attempts = r.attempts + 1
         /\ Claimed(r, node).attempts >= 1
         /\ Claimed(r, node).status = "running"
<1> DEFINE e == IF node = None THEN "server" ELSE "node"
<1>1. e \in {"none", "server", "node"}
  OBVIOUS
<1>2. r.attempts + 1 \in Nat /\ r.attempts + 1 >= 1
  BY DEF Row
<1> HIDE DEF e
<1>3. [r EXCEPT !.status = "running", !.attempts = r.attempts + 1,
                !.owner = node, !.executor = e, !.lease = "live",
                !.aged = FALSE, !.deferred = FALSE] \in Row
  BY <1>1, <1>2 DEF Row
<1>4. /\ Claimed(r, node).attempts = r.attempts + 1
      /\ Claimed(r, node).status = "running"
  BY DEF Claimed, Row
<1>. QED
  BY <1>2, <1>3, <1>4 DEF Claimed, e

LEMMA OutcomeType ==
  ASSUME NEW c
  PROVE  Outcome(c) \in {"pending", "succeeded", "failed"}
BY DEF Outcome

LEMMA WrittenRow ==
  ASSUME NEW r \in Row, NEW c \in SlotState, c.attempts >= 1
  PROVE  /\ Written(r, c) \in Row
         /\ Written(r, c).status = Outcome(c)
<1> DEFINE o == Outcome(c)
           limited == c.verdict = "limited"
           e == IF o = "pending" THEN "none" ELSE r.executor
           f == r.finished \/ ~(o = "pending")
           d == IF c.verdict = "ok" THEN r.deferred ELSE o = "pending"
           h == IF limited THEN c.hits + 1 ELSE r.hits
           a == IF limited THEN c.attempts - 1 ELSE r.attempts
<1>1. o \in {"pending", "succeeded", "failed"}
  BY OutcomeType
<1>2. e \in {"none", "server", "node"}
  BY DEF Row
<1>3. f \in BOOLEAN /\ d \in BOOLEAN
  BY DEF Row
<1>4. h \in Nat /\ a \in Nat
  BY DEF Row, SlotState
<1>5. Written(r, c) = [r EXCEPT !.status = o, !.owner = None, !.lease = "none", !.aged = FALSE, 
                !.executor = e, !.finished = f, !.deferred = d, !.hits = h, !.attempts = a]
  BY DEF Written
<1> HIDE DEF o, e, f, d, h, a
<1>6. [r EXCEPT !.status = o, !.owner = None, !.lease = "none", !.aged = FALSE, 
                !.executor = e, !.finished = f, !.deferred = d, !.hits = h, !.attempts = a] \in Row
  BY <1>1, <1>2, <1>3, <1>4 DEF Row, Terminal
<1>7. Written(r, c).status = o
  BY <1>5 DEF Row
<1>. QED
  BY <1>5, <1>6, <1>7 DEF o
LEMMA ReapedRow ==
  ASSUME NEW r \in Row
  PROVE  /\ Requeued(r) \in Row
         /\ GivenUp(r) \in Row
         /\ Requeued(r).status = "pending"
         /\ GivenUp(r).status = "failed"
BY DEF Requeued, GivenUp, Row, Terminal

LEMMA OwnerType ==
  ASSUME NEW s \in Slots
  PROVE  OwnerOf(s) \in Nodes \cup {None}
BY QueueAssumption DEF OwnerOf, Slots

LEMMA IdleState == Idle \in SlotState /\ Idle.phase = "idle"
BY DEF Idle, SlotState, Verdicts

LEMMA AtWorkState ==
  ASSUME NEW j \in Jobs, NEW a \in Nat, NEW h \in Nat
  PROVE  /\ AtWork(j, a, h) \in SlotState
         /\ AtWork(j, a, h).phase = "working"
         /\ AtWork(j, a, h).job = j
         /\ AtWork(j, a, h).attempts = a
         /\ AtWork(j, a, h).hits = h
BY DEF AtWork, SlotState, Verdicts

Phases == {"idle", "working", "submitting", "checked", "writing", "rewriting"}

LEMMA MovedState ==
  ASSUME NEW c \in SlotState, NEW ph \in Phases, NEW v \in Verdicts
  PROVE  /\ Moved(c, ph, v) \in SlotState
         /\ Moved(c, ph, v).phase = ph
         /\ Moved(c, ph, v).job = c.job
         /\ Moved(c, ph, v).attempts = c.attempts
         /\ Moved(c, ph, v).hits = c.hits
BY DEF Moved, SlotState, Phases

\* What a slot can be after its call returns.
Kept(next, c) ==
  /\ next \in SlotState
  /\ next.phase # "idle" =>
       next.attempts = c.attempts /\ next.hits = c.hits /\ next.job = c.job

LEMMA ResentState ==
  ASSUME NEW s \in Slots, slot[s] \in SlotState
  PROVE  Kept(Resent(s), slot[s])
<1> DEFINE c == Moved(slot[s], "submitting", "none")
           again == [c EXCEPT !.resends = c.resends + 1]
<1>1. /\ c \in SlotState
      /\ c.attempts = slot[s].attempts /\ c.hits = slot[s].hits /\ c.job = slot[s].job
  BY MovedState DEF Phases, Verdicts
<1>2. Resent(s) = IF "resubmit" \in Hazards /\ slot[s].resends < MaxResends
                  THEN again ELSE Idle
  BY DEF Resent
<1> HIDE DEF c
<1>3. /\ again \in SlotState
      /\ again.attempts = c.attempts /\ again.hits = c.hits /\ again.job = c.job
  BY <1>1 DEF SlotState
<1> HIDE DEF again
<1>. QED
  BY <1>1, <1>2, <1>3, IdleState DEF Kept

LEMMA ReturnedState ==
  ASSUME NEW s \in Slots, slot[s] \in SlotState, NEW next \in Returned(s)
  PROVE  Kept(next, slot[s])
<1>1. next \in {Idle, Resent(s)}
  BY DEF Returned
<1>2. Kept(Idle, slot[s])
  BY IdleState DEF Kept
<1>. QED
  BY <1>1, <1>2, ResentState

-----------------------------------------------------------------------------
(* Type correctness. *)

LEMMA TypeInit == Init => TypeInv
BY FreshRow, IdleState, QueueAssumption
   DEF Init, TypeInv, TypeOK, Charged, Executing, Terminal

\* A step that replaces one row and one slot by well-formed ones, and leaves
\* the rest of the invariant's variables within their types.
OtherTypes ==
  /\ background' \subseteq Jobs
  /\ reaper' \in [phase : {"idle", "failing"}, todo : SUBSET Jobs]
  /\ admin' \in [op : {"none", "retry", "delete"}, job : Jobs \cup {None}]
  /\ crashes' \in Nat
  /\ adminOps' \in Nat
  /\ holder' \in [Jobs -> Slots \cup {None}]
  /\ claims' \in [Jobs -> Nat]
  /\ persisted' \subseteq Jobs
  /\ announced' \in [Jobs -> Terminal \cup {"none"}]

LEMMA RowsAndSlots ==
  ASSUME TypeInv, OtherTypes,
         job' \in [Jobs -> Row], slot' \in [Slots -> SlotState],
         \A j \in Jobs : job'[j].status = "running" => job'[j].attempts >= 1,
         \A s \in Slots : slot'[s].phase # "idle" =>
                            slot'[s].attempts >= 1 /\ slot'[s].job \in Jobs
  PROVE  TypeInv'
BY DEF TypeInv, TypeOK, Charged, Executing, OtherTypes

LEMMA RowStep ==
  ASSUME TypeInv, OtherTypes, UNCHANGED slot,
         NEW j \in Jobs, NEW r \in Row, job' = [job EXCEPT ![j] = r],
         r.status = "running" => r.attempts >= 1
  PROVE  TypeInv'
<1>1. job' \in [Jobs -> Row]
  BY DEF TypeInv, TypeOK
<1>2. \A k \in Jobs : job'[k].status = "running" => job'[k].attempts >= 1
  BY DEF TypeInv, TypeOK, Charged
<1>3. /\ slot' \in [Slots -> SlotState]
      /\ \A s \in Slots : slot'[s].phase # "idle" =>
                            slot'[s].attempts >= 1 /\ slot'[s].job \in Jobs
  BY DEF TypeInv, TypeOK, Charged, Executing
<1>. QED
  BY <1>1, <1>2, <1>3, RowsAndSlots

LEMMA SlotStep ==
  ASSUME TypeInv, OtherTypes, UNCHANGED job,
         NEW s \in Slots, NEW c \in SlotState, slot' = [slot EXCEPT ![s] = c],
         c.phase # "idle" => c.attempts >= 1 /\ c.job \in Jobs
  PROVE  TypeInv'
<1>1. slot' \in [Slots -> SlotState]
  BY DEF TypeInv, TypeOK
<1>2. \A t \in Slots : slot'[t].phase # "idle" =>
                         slot'[t].attempts >= 1 /\ slot'[t].job \in Jobs
  BY DEF TypeInv, TypeOK, Charged, Executing
<1>3. /\ job' \in [Jobs -> Row]
      /\ \A j \in Jobs : job'[j].status = "running" => job'[j].attempts >= 1
  BY DEF TypeInv, TypeOK, Charged
<1>. QED
  BY <1>1, <1>2, <1>3, RowsAndSlots

LEMMA RowAndSlotStep ==
  ASSUME TypeInv, OtherTypes,
         NEW j \in Jobs, NEW r \in Row, job' = [job EXCEPT ![j] = r],
         r.status = "running" => r.attempts >= 1,
         NEW s \in Slots, NEW c \in SlotState, slot' = [slot EXCEPT ![s] = c],
         c.phase # "idle" => c.attempts >= 1 /\ c.job \in Jobs
  PROVE  TypeInv'
<1>1. job' \in [Jobs -> Row] /\ slot' \in [Slots -> SlotState]
  BY DEF TypeInv, TypeOK
<1>2. \A t \in Slots : slot'[t].phase # "idle" =>
                         slot'[t].attempts >= 1 /\ slot'[t].job \in Jobs
  BY DEF TypeInv, TypeOK, Charged, Executing
<1>3. \A k \in Jobs : job'[k].status = "running" => job'[k].attempts >= 1
  BY DEF TypeInv, TypeOK, Charged
<1>. QED
  BY <1>1, <1>2, <1>3, RowsAndSlots

-----------------------------------------------------------------------------
(* One lemma per group of actions. *)

LEMMA EnqueueType ==
  ASSUME TypeInv, NEW j \in Jobs, Enqueue(j)
  PROVE  TypeInv'
<1>1. OtherTypes /\ UNCHANGED slot /\ job' = [job EXCEPT ![j] = Fresh("pending")]
  BY DEF TypeInv, TypeOK, OtherTypes, Enqueue, opsVars, bounds
<1>. QED
  BY <1>1, FreshRow, RowStep

LEMMA ClaimType ==
  ASSUME TypeInv, NEW s \in Slots, NEW j \in Jobs, Claim(s, j)
  PROVE  TypeInv'
<1>1. OtherTypes
  BY DEF TypeInv, TypeOK, OtherTypes, Claim, opsVars, bounds
<1>2. job[j] \in Row /\ job[j].attempts + 1 \in Nat /\ job[j].attempts + 1 >= 1
      /\ job[j].hits \in Nat
  BY DEF TypeInv, TypeOK, Row
<1>3. job' = [job EXCEPT ![j] = Claimed(job[j], OwnerOf(s))]
      /\ slot' = [slot EXCEPT ![s] = AtWork(j, job[j].attempts + 1, job[j].hits)]
  BY DEF Claim
<1>4. /\ Claimed(job[j], OwnerOf(s)) \in Row
      /\ Claimed(job[j], OwnerOf(s)).attempts >= 1
  BY <1>2, ClaimedRow, OwnerType
<1> DEFINE c == AtWork(j, job[j].attempts + 1, job[j].hits)
<1>5. c \in SlotState /\ c.attempts >= 1 /\ c.job \in Jobs
  BY <1>2, AtWorkState
<1> HIDE DEF c
<1>. QED
  BY <1>1, <1>3, <1>4, <1>5, RowAndSlotStep DEF c

LEMMA ClaimReplyLostType ==
  ASSUME TypeInv, NEW l \in Lanes, NEW j \in Jobs, ClaimReplyLost(l, j)
  PROVE  TypeInv'
<1>1. OtherTypes /\ UNCHANGED slot
  BY DEF TypeInv, TypeOK, OtherTypes, ClaimReplyLost, opsVars, bounds
<1>2. job[j] \in Row /\ NodeOf[l] \in Nodes
  BY QueueAssumption DEF TypeInv, TypeOK
<1>3. job' = [job EXCEPT ![j] = Claimed(job[j], NodeOf[l])]
  BY DEF ClaimReplyLost
<1>. QED
  BY <1>1, <1>2, <1>3, ClaimedRow, RowStep

LEMMA HandlerType ==
  ASSUME TypeInv, NEW w \in Loops,
         (\E v \in {"ok", "error", "limited"} : HandlerReturns(w, v)) \/ HandlerTimesOut(w)
  PROVE  TypeInv'
<1>1. w \in Slots /\ slot[w] \in SlotState /\ slot[w].phase = "working"
  BY DEF TypeInv, TypeOK, HandlerReturns, HandlerTimesOut, Slots
<1>2. slot[w].job \in Jobs /\ slot[w].attempts >= 1
  BY <1>1 DEF TypeInv, Charged, Executing
<1>3. OtherTypes /\ UNCHANGED job
  BY <1>2 DEF TypeInv, TypeOK, OtherTypes, HandlerReturns, HandlerTimesOut,
              rowVars, opsVars, bounds
<1>4. PICK v \in Verdicts : slot' = [slot EXCEPT ![w] = Moved(slot[w], "writing", v)]
  BY DEF HandlerReturns, HandlerTimesOut, Verdicts
<1> DEFINE c == Moved(slot[w], "writing", v)
<1>. "writing" \in Phases
  BY DEF Phases
<1>5. c \in SlotState /\ c.job = slot[w].job /\ c.attempts = slot[w].attempts
  BY <1>1, MovedState
<1> HIDE DEF c
<1>6. c \in SlotState /\ c.attempts >= 1 /\ c.job \in Jobs
  BY <1>2, <1>5
<1>. QED
  BY <1>1, <1>3, <1>4, <1>6, SlotStep DEF c

LEMMA BackgroundType ==
  ASSUME TypeInv, NEW j \in Jobs, BackgroundHandlerReturns(j)
  PROVE  TypeInv'
BY DEF TypeInv, TypeOK, Charged, Executing, BackgroundHandlerReturns,
       rowVars, opsVars, bounds

LEMMA LaneType ==
  ASSUME TypeInv, NEW l \in Lanes,
         \/ \E v \in {"ok", "error", "limited"} : ComputeReturns(l, v)
         \/ CheckHeld(l)
         \/ RefuseResult(l)
         \/ PersistNodeResult(l)
  PROVE  TypeInv'
<1>1. l \in Slots /\ slot[l] \in SlotState /\ Executing(l)
  BY DEF TypeInv, TypeOK, ComputeReturns, CheckHeld, RefuseResult, PersistNodeResult, Slots, Executing
<1>2. slot[l].job \in Jobs /\ slot[l].attempts >= 1
  BY <1>1 DEF TypeInv, Charged
<1>3. OtherTypes /\ UNCHANGED job
  BY <1>2 DEF TypeInv, TypeOK, OtherTypes, ComputeReturns, CheckHeld, RefuseResult, PersistNodeResult,
              rowVars, opsVars, bounds
<1>4. CASE \E v \in {"ok", "error", "limited"} : ComputeReturns(l, v)
  <2>1. PICK v \in Verdicts :
          slot' = [slot EXCEPT ![l] = [slot[l] EXCEPT !.phase = "submitting", !.sent = v]]
    BY <1>4 DEF ComputeReturns, Verdicts
  <2>2. ASSUME NEW c \in SlotState
        PROVE  LET d == [c EXCEPT !.phase = "submitting", !.sent = v]
               IN  d \in SlotState /\ d.attempts = c.attempts /\ d.job = c.job
    BY DEF SlotState
  <2>. QED
    BY <1>1, <1>2, <1>3, <2>1, <2>2, SlotStep
<1>5. CASE CheckHeld(l)
  <2> DEFINE r == job[slot[l].job]
             p == IF slot[l].sent = "ok" THEN "checked" ELSE "writing"
             m == Moved(slot[l], p, slot[l].sent)
             c == [m EXCEPT !.attempts = r.attempts, !.hits = r.hits]
  <2>1. slot' = [slot EXCEPT ![l] = IF HeldBy(r, NodeOf[l]) THEN c ELSE Idle]
    BY <1>5 DEF CheckHeld
  <2>2. m \in SlotState /\ m.job = slot[l].job
    BY <1>1, MovedState DEF Phases, SlotState
  <2>3. r \in Row /\ (HeldBy(r, NodeOf[l]) => r.attempts >= 1)
    BY <1>2 DEF TypeInv, TypeOK, Charged, HeldBy
  <2> HIDE DEF m
  <2>4. c \in SlotState /\ c.job = m.job /\ c.attempts = r.attempts
    BY <2>2, <2>3 DEF SlotState, Row
  <2> HIDE DEF c, r
  <2>. QED
    BY <1>1, <1>2, <1>3, <2>1, <2>2, <2>3, <2>4, IdleState, SlotStep
<1>6. CASE PersistNodeResult(l)
  <2>1. PICK v \in Verdicts : slot' = [slot EXCEPT ![l] = Moved(slot[l], "writing", v)]
    BY <1>6 DEF PersistNodeResult, Verdicts
  <2> DEFINE c == Moved(slot[l], "writing", v)
  <2>. "writing" \in Phases
    BY DEF Phases
  <2>3. c \in SlotState /\ c.job = slot[l].job /\ c.attempts = slot[l].attempts
    BY <1>1, MovedState
  <2> HIDE DEF c
  <2>2. c \in SlotState /\ c.attempts >= 1 /\ c.job \in Jobs
    BY <1>2, <2>3
  <2> HIDE DEF c
  <2>. QED
    BY <1>1, <1>3, <2>1, <2>2, SlotStep DEF c
<1>7. CASE RefuseResult(l)
  BY <1>1, <1>3, <1>7, IdleState, SlotStep DEF RefuseResult
<1>. QED
  BY <1>4, <1>5, <1>6, <1>7

LEMMA TerminateType ==
  ASSUME TypeInv, NEW s \in Slots, Terminate(s)
  PROVE  TypeInv'
<1> DEFINE j == slot[s].job
           r == Written(job[j], slot[s])
<1>1. slot[s] \in SlotState /\ Executing(s)
  BY DEF TypeInv, TypeOK, Terminate, TerminalWrite, TerminalWriteFails,
         TerminalWriteAckLost, TerminalRewrite, TerminalRewriteFails, Executing
<1>2. j \in Jobs /\ slot[s].attempts >= 1
  BY <1>1 DEF TypeInv, Charged
<1>3. r \in Row /\ (r.status = "running" => r.attempts >= 1)
  BY <1>1, <1>2, WrittenRow, OutcomeType DEF TypeInv, TypeOK
<1>4. (holder' = [holder EXCEPT ![j] = None] \/ UNCHANGED holder)
      /\ (Announce(s) \/ UNCHANGED announced)
      /\ UNCHANGED <<background, opsVars, bounds, claims, persisted>>
  BY DEF Terminate, TerminalWrite, TerminalWriteFails, TerminalWriteAckLost,
         TerminalRewrite, TerminalRewriteFails, Commit, rowVars
<1>5. OtherTypes
  BY <1>2, <1>4 DEF TypeInv, TypeOK, OtherTypes, opsVars, bounds, Announce
<1>6. \E c : /\ slot' = [slot EXCEPT ![s] = c]
             /\ c \in SlotState
             /\ c.phase # "idle" => c.attempts >= 1 /\ c.job \in Jobs
  <2>1. CASE Return(s)
    BY <2>1, <1>1, <1>2, ReturnedState DEF Return, Kept
  <2>2. CASE slot' = [slot EXCEPT ![s] = Moved(slot[s], "rewriting", slot[s].verdict)]
    <3> DEFINE c == Moved(slot[s], "rewriting", slot[s].verdict)
    <3>1. c \in SlotState /\ c.attempts >= 1 /\ c.job \in Jobs
      BY <1>1, <1>2, MovedState DEF Phases, SlotState
    <3> HIDE DEF c
    <3>. QED
      BY <2>2, <3>1 DEF c
  <2>. QED
    BY <2>1, <2>2 DEF Terminate, TerminalWrite, TerminalWriteFails,
       TerminalWriteAckLost, TerminalRewrite, TerminalRewriteFails
<1>7. job' = [job EXCEPT ![j] = r] \/ UNCHANGED job
  BY DEF Terminate, TerminalWrite, TerminalWriteFails, TerminalWriteAckLost,
         TerminalRewrite, TerminalRewriteFails, Commit, rowVars
<1> HIDE DEF r, j
<1>. QED
  BY <1>2, <1>3, <1>5, <1>6, <1>7, RowAndSlotStep, SlotStep

LEMMA TickType ==
  ASSUME TypeInv, NEW j \in Jobs,
         Tick(j) \/ (\E l \in Lanes : RenewLease(l) /\ slot[l].job = j)
  PROVE  TypeInv'
<1>1. OtherTypes /\ UNCHANGED slot
  BY DEF TypeInv, TypeOK, OtherTypes, Tick, PassThreshold, LeaseExpires, DelayElapses,
         RenewLease, opsVars, bounds
<1>2. job[j] \in Row /\ (job[j].status = "running" => job[j].attempts >= 1)
  BY DEF TypeInv, TypeOK, Charged
<1>3. ASSUME NEW r \in Row, r.status = "running" => r.attempts >= 1,
             NEW q, q \in {[r EXCEPT !.aged = TRUE], [r EXCEPT !.lease = "expired"],
                           [r EXCEPT !.deferred = FALSE], [r EXCEPT !.lease = "live"]}
      PROVE  q \in Row /\ (q.status = "running" => q.attempts >= 1)
  BY <1>3 DEF Row
<1>4. \E q \in {[job[j] EXCEPT !.aged = TRUE], [job[j] EXCEPT !.lease = "expired"],
                [job[j] EXCEPT !.deferred = FALSE], [job[j] EXCEPT !.lease = "live"]} :
         job' = [job EXCEPT ![j] = q]
  BY DEF Tick, PassThreshold, LeaseExpires, DelayElapses, RenewLease
<1>. QED
  BY <1>1, <1>2, <1>3, <1>4, RowStep

LEMMA CrashType ==
  ASSUME TypeInv, ServerCrash \/ \E n \in Nodes : NodeCrash(n)
  PROVE  TypeInv'
<1>1. OtherTypes /\ UNCHANGED job
  BY DEF TypeInv, TypeOK, OtherTypes, ServerCrash, NodeCrash, rowVars, opsVars, bounds
<1>2. \A s \in Slots : slot'[s] \in {Idle, Resent(s), slot[s]}
  BY DEF ServerCrash, NodeCrash
<1>3. \A s \in Slots : Kept(slot'[s], slot[s])
  BY <1>2, ResentState, IdleState DEF TypeInv, TypeOK, Kept
<1>4. slot' \in [Slots -> SlotState]
  BY <1>3 DEF Kept, ServerCrash, NodeCrash
<1>5. \A s \in Slots : slot'[s].phase # "idle" =>
                         slot'[s].attempts >= 1 /\ slot'[s].job \in Jobs
  <2>1. SUFFICES ASSUME NEW s \in Slots, slot'[s].phase # "idle"
                 PROVE  Executing(s)
    BY <1>3 DEF Kept, TypeInv, Charged
  <2>2. slot'[s] # Idle
    BY <2>1, IdleState
  <2>. QED
    BY <1>2, <2>1, <2>2 DEF ServerCrash, NodeCrash, InServer, Executing
<1>. QED
  BY <1>1, <1>4, <1>5, RowsAndSlots DEF TypeInv, TypeOK, Charged

LEMMA ReaperType ==
  ASSUME TypeInv, ResetStuck
  PROVE  TypeInv'
<1>1. OtherTypes /\ UNCHANGED slot
  BY DEF TypeInv, TypeOK, OtherTypes, ResetStuck, ReadExhausted, FailExhausted,
         RequeueStuck, rowVars, bounds
<1>2. CASE ReadExhausted
  BY <1>1, <1>2, RowsAndSlots DEF TypeInv, TypeOK, Charged, Executing, ReadExhausted, rowVars
<1>3. CASE \E j \in Jobs : FailExhausted(j)
  <2>1. PICK j \in Jobs : FailExhausted(j)
    BY <1>3
  <2>2. GivenUp(job[j]) \in Row /\ GivenUp(job[j]).status = "failed"
    BY ReapedRow DEF TypeInv, TypeOK
  <2>3. CASE job' = [job EXCEPT ![j] = GivenUp(job[j])]
    BY <1>1, <2>2, <2>3, RowStep
  <2>4. CASE UNCHANGED job
    BY <1>1, <2>4, RowsAndSlots DEF TypeInv, TypeOK, Charged, Executing
  <2>. QED
    BY <2>1, <2>3, <2>4 DEF FailExhausted
<1>4. CASE RequeueStuck
  <2>1. job' = [j \in Jobs |-> IF Requeueable(job[j]) THEN Requeued(job[j]) ELSE job[j]]
    BY <1>4 DEF RequeueStuck
  <2>2. job' \in [Jobs -> Row]
    BY <2>1, ReapedRow DEF TypeInv, TypeOK
  <2>3. \A j \in Jobs : job'[j].status = "running" => job'[j].attempts >= 1
    BY <2>1, ReapedRow DEF TypeInv, TypeOK, Charged
  <2>. QED
    BY <1>1, <2>2, <2>3, RowsAndSlots DEF TypeInv, TypeOK, Charged, Executing
<1>. QED
  BY <1>2, <1>3, <1>4 DEF ResetStuck

LEMMA AdminType ==
  ASSUME TypeInv,
         \/ \E op \in {"retry", "delete"}, j \in Jobs : AdminReads(op, j)
         \/ AdminWrites
         \/ RetryAllFailed
  PROVE  TypeInv'
<1>1. CASE \E op \in {"retry", "delete"}, j \in Jobs : AdminReads(op, j)
  <2>1. OtherTypes /\ UNCHANGED <<job, slot>>
    BY <1>1 DEF TypeInv, TypeOK, OtherTypes, AdminReads, rowVars
  <2>. QED
    BY <2>1, RowsAndSlots DEF TypeInv, TypeOK, Charged, Executing
<1>2. CASE AdminWrites
  <2> DEFINE j == admin.job
             to == IF admin.op = "retry" THEN "pending" ELSE "deleted"
  <2>1. UNCHANGED <<slot, background, reaper, crashes, adminOps, persisted>>
        /\ admin' = [op |-> "none", job |-> None]
    BY <1>2 DEF AdminWrites, bounds
  <2>2. CASE UNCHANGED <<rowVars, announced>>
    <3>1. OtherTypes /\ UNCHANGED <<job, slot>>
      BY <2>1, <2>2 DEF TypeInv, TypeOK, OtherTypes, rowVars
    <3>. QED
      BY <3>1, RowsAndSlots DEF TypeInv, TypeOK, Charged, Executing
  <2>3. CASE /\ Exists(job[j])
             /\ job' = [job EXCEPT ![j] = Fresh(to)]
             /\ holder' = [holder EXCEPT ![j] = None]
             /\ claims' = [claims EXCEPT ![j] = 0]
             /\ announced' = [announced EXCEPT ![j] = "none"]
    <3>1. OtherTypes /\ UNCHANGED slot
      BY <2>1, <2>3 DEF TypeInv, TypeOK, OtherTypes
    <3>2. Fresh(to) \in Row /\ Fresh(to).status # "running"
      BY FreshRow
    <3> HIDE DEF to
    <3>3. CASE j \in Jobs
      BY <3>1, <3>2, <3>3, <2>3, RowStep
    <3>4. CASE j \notin Jobs
      <4>1. job' = job
        BY <2>3, <3>4 DEF TypeInv, TypeOK
      <4>. QED
        BY <3>1, <4>1, RowsAndSlots DEF TypeInv, TypeOK, Charged, Executing
    <3>. QED
      BY <3>3, <3>4
  <2>. QED
    BY <1>2, <2>2, <2>3 DEF AdminWrites
<1>3. CASE RetryAllFailed
  <2>1. OtherTypes /\ UNCHANGED slot
    BY <1>3 DEF TypeInv, TypeOK, OtherTypes, RetryAllFailed, opsVars
  <2>2. job' = [j \in Jobs |-> IF RetriedInBulk(job[j]) THEN Fresh("pending") ELSE job[j]]
    BY <1>3 DEF RetryAllFailed
  <2>3. job' \in [Jobs -> Row]
        /\ \A j \in Jobs : job'[j].status = "running" => job'[j].attempts >= 1
    BY <2>2, FreshRow DEF TypeInv, TypeOK, Charged
  <2>. QED
    BY <2>1, <2>3, RowsAndSlots DEF TypeInv, TypeOK, Charged, Executing
<1>. QED
  BY <1>1, <1>2, <1>3

LEMMA TypeStep == TypeInv /\ [Next]_vars => TypeInv'
<1> SUFFICES ASSUME TypeInv, [Next]_vars PROVE TypeInv'
  OBVIOUS
<1>1. CASE Next
  <2>1. ASSUME NEW l \in Lanes, RenewLease(l)
        PROVE  TypeInv'
    <3>1. slot[l].job \in Jobs
      BY <2>1 DEF TypeInv, Charged, RenewLease, Slots
    <3>. QED
      BY <2>1, <3>1, TickType
  <2>. QED
    BY <1>1, <2>1, EnqueueType, ClaimType, ClaimReplyLostType, HandlerType, BackgroundType,
       LaneType, TerminateType, TickType, CrashType, ReaperType, AdminType
       DEF Next, LoopStep, LaneStep, Slots
<1>2. CASE UNCHANGED vars
  BY <1>2 DEF TypeInv, TypeOK, Charged, Executing, vars
<1>. QED
  BY <1>1, <1>2

(* Every reachable state is well formed, whatever the hazards: in          *)
(* particular no path writes attempts - 1 below zero.                      *)
THEOREM TypeCorrect == Spec => []TypeOK
<1>1. TypeInv => TypeOK
  BY DEF TypeInv
<1>. QED
  BY TypeInit, TypeStep, <1>1, PTL DEF Spec

-----------------------------------------------------------------------------
(* What the rows keep under every hazard: nothing is assumed of leases,     *)
(* terminal writes, acknowledgements, results sent again or administrators. *)

Unowned(r) == r.owner = None /\ r.executor = "none" /\ r.lease = "none"
PendingSound(r) == r.status = "pending" => Unowned(r)

(* A slot that is about to record a success has had its output written: it  *)
(* carries the verdict of a handler that returned or of a result that was   *)
(* persisted, and output is never taken back.                               *)
Vouched ==
  \A s \in Slots :
    slot[s].phase \in {"writing", "rewriting"} /\ slot[s].verdict = "ok" =>
      slot[s].job \in persisted

RowsInv == TypeInv /\ PendingUnowned /\ SuccessPersisted /\ Vouched

-----------------------------------------------------------------------------
(* What becomes of one row. *)

(* Row q may take the place of row r of job j: it is sound when r is, and   *)
(* says succeeded only if r does or the output is there.                    *)
Follows(q, r, j) ==
  /\ PendingSound(r) => PendingSound(q)
  /\ q.status = "succeeded" => r.status = "succeeded" \/ j \in persisted

LEMMA SameFollows ==
  ASSUME NEW r, NEW j
  PROVE  Follows(r, r, j)
BY DEF Follows

LEMMA FreshFollows ==
  ASSUME NEW r, NEW j, NEW st \in {"pending", "deleted"}
  PROVE  Follows(Fresh(st), r, j)
BY DEF Follows, Fresh, PendingSound, Unowned

LEMMA ClaimedFollows ==
  ASSUME NEW r \in Row, NEW j, NEW node \in Nodes \cup {None}
  PROVE  Follows(Claimed(r, node), r, j)
BY ClaimedRow DEF Follows, PendingSound

LEMMA ReapedFollows ==
  ASSUME NEW r \in Row, NEW j
  PROVE  Follows(Requeued(r), r, j) /\ Follows(GivenUp(r), r, j)
BY DEF Follows, Requeued, GivenUp, Row, PendingSound, Unowned

LEMMA RenewedFollows ==
  ASSUME NEW r \in Row, NEW j, r.status = "running"
  PROVE  Follows([r EXCEPT !.lease = "live"], r, j)
BY DEF Follows, Row, PendingSound

LEMMA TickedFollows ==
  ASSUME NEW r \in Row, NEW j
  PROVE  /\ Follows([r EXCEPT !.aged = TRUE], r, j)
         /\ Follows([r EXCEPT !.deferred = FALSE], r, j)
         /\ r.status = "running" => Follows([r EXCEPT !.lease = "expired"], r, j)
BY DEF Follows, Row, PendingSound, Unowned

LEMMA WrittenFollows ==
  ASSUME NEW r \in Row, NEW c \in SlotState, c.attempts >= 1,
         NEW j, c.verdict = "ok" => j \in persisted
  PROVE  Follows(Written(r, c), r, j)
<1>1. Written(r, c).status = Outcome(c)
  BY WrittenRow
<1>2. Outcome(c) = "succeeded" => j \in persisted
  BY DEF Outcome
<1>3. Outcome(c) = "pending" => Unowned(Written(r, c))
  BY DEF Written, Unowned, Row
<1>. QED
  BY <1>1, <1>2, <1>3 DEF Follows, PendingSound

LEMMA RowsFollow ==
  ASSUME RowsInv, persisted \subseteq persisted',
         \A j \in Jobs : Follows(job'[j], job[j], j)
  PROVE  PendingUnowned' /\ SuccessPersisted'
BY DEF RowsInv, PendingUnowned, SuccessPersisted, Follows, PendingSound, Unowned

LEMMA OneRowFollows ==
  ASSUME RowsInv, persisted \subseteq persisted', NEW j \in Jobs, NEW q,
         job' = [job EXCEPT ![j] = q], Follows(q, job[j], j)
  PROVE  PendingUnowned' /\ SuccessPersisted'
<1>1. \A k \in Jobs : job'[k] = IF k = j THEN q ELSE job[k]
  BY DEF RowsInv, TypeInv, TypeOK
<1>. QED
  BY <1>1, SameFollows, RowsFollow

LEMMA NoRowFollows ==
  ASSUME RowsInv, persisted \subseteq persisted', job' = job
  PROVE  PendingUnowned' /\ SuccessPersisted'
BY SameFollows, RowsFollow

-----------------------------------------------------------------------------
(* What becomes of one slot. *)

(* A slot in state c that is about to record a success has its output.      *)
Covered(c, P) == c.phase \in {"writing", "rewriting"} /\ c.verdict = "ok" => c.job \in P

LEMMA OneSlotCovered ==
  ASSUME RowsInv, persisted \subseteq persisted', NEW s \in Slots, NEW c,
         slot' = [slot EXCEPT ![s] = c], Covered(c, persisted')
  PROVE  Vouched'
BY DEF RowsInv, TypeInv, TypeOK, Vouched, Covered

LEMMA NoSlotCovered ==
  ASSUME RowsInv, persisted \subseteq persisted', slot' = slot
  PROVE  Vouched'
BY DEF RowsInv, Vouched

LEMMA ReturnedCovered ==
  ASSUME NEW s \in Slots, slot[s] \in SlotState, NEW c \in Returned(s), NEW P
  PROVE  Covered(c, P)
<1>1. Covered(Idle, P)
  BY DEF Covered, Idle
<1>2. Covered(Resent(s), P)
  <2> DEFINE d == Moved(slot[s], "submitting", "none")
  <2>1. d \in SlotState /\ d.phase = "submitting"
    BY MovedState DEF Phases, Verdicts
  <2>2. Resent(s) = IF "resubmit" \in Hazards /\ slot[s].resends < MaxResends
                    THEN [d EXCEPT !.resends = d.resends + 1] ELSE Idle
    BY DEF Resent
  <2> HIDE DEF d
  <2>3. [d EXCEPT !.resends = d.resends + 1].phase = "submitting"
    BY <2>1 DEF SlotState
  <2>. QED
    BY <1>1, <2>2, <2>3 DEF Covered
<1>3. c = Idle \/ c = Resent(s)
  BY DEF Returned
<1>. QED
  BY <1>1, <1>2, <1>3

-----------------------------------------------------------------------------
(* The actions. *)

LEMMA RowsInit == Init => RowsInv
<1> SUFFICES ASSUME Init PROVE RowsInv
  OBVIOUS
<1>1. TypeInv
  BY TypeInit
<1>2. PendingUnowned /\ SuccessPersisted
  BY DEF Init, PendingUnowned, SuccessPersisted, Fresh
<1>3. Vouched
  BY IdleState DEF Init, Vouched
<1>. QED
  BY <1>1, <1>2, <1>3 DEF RowsInv

LEMMA ClaimRows ==
  ASSUME RowsInv, NEW j \in Jobs,
         \/ Enqueue(j) \/ Tick(j)
         \/ \E s \in Slots : Claim(s, j)
         \/ \E l \in Lanes : ClaimReplyLost(l, j)
  PROVE  PendingUnowned' /\ SuccessPersisted' /\ Vouched'
<1>1. job[j] \in Row /\ job \in [Jobs -> Row]
  BY DEF RowsInv, TypeInv, TypeOK
<1>2. persisted' = persisted
  BY DEF Enqueue, Tick, PassThreshold, LeaseExpires, DelayElapses, Claim, ClaimReplyLost
<1>3. CASE Enqueue(j)
  BY <1>2, <1>3, FreshFollows, OneRowFollows, NoSlotCovered DEF Enqueue
<1>4. CASE Tick(j)
  BY <1>1, <1>2, <1>4, TickedFollows, OneRowFollows, NoSlotCovered
  DEF Tick, PassThreshold, LeaseExpires, DelayElapses
<1>5. ASSUME NEW s \in Slots, Claim(s, j)
      PROVE  PendingUnowned' /\ SuccessPersisted' /\ Vouched'
  <2>1. PendingUnowned' /\ SuccessPersisted'
    BY <1>1, <1>2, <1>5, OwnerType, ClaimedFollows, OneRowFollows DEF Claim
  <2>2. Covered(AtWork(j, job[j].attempts + 1, job[j].hits), persisted')
    BY DEF Covered, AtWork
  <2>. QED
    BY <1>2, <1>5, <2>1, <2>2, OneSlotCovered DEF Claim
<1>6. ASSUME NEW l \in Lanes, ClaimReplyLost(l, j)
      PROVE  PendingUnowned' /\ SuccessPersisted' /\ Vouched'
  <2>1. NodeOf[l] \in Nodes
    BY QueueAssumption
  <2>. QED
    BY <1>1, <1>2, <1>6, <2>1, ClaimedFollows, OneRowFollows, NoSlotCovered DEF ClaimReplyLost
<1>. QED
  BY <1>3, <1>4, <1>5, <1>6

(* A handler or a persisted result vouches for the success it reports.      *)
LEMMA ExecutionRows ==
  ASSUME RowsInv, NEW s \in Slots,
         \/ HandlerTimesOut(s) \/ CheckHeld(s) \/ RefuseResult(s) \/ PersistNodeResult(s)
         \/ \E v \in {"ok", "error", "limited"} : HandlerReturns(s, v) \/ ComputeReturns(s, v)
  PROVE  PendingUnowned' /\ SuccessPersisted' /\ Vouched'
<1>1. slot[s] \in SlotState
  BY DEF RowsInv, TypeInv, TypeOK
<1>2. persisted \subseteq persisted' /\ job' = job
  BY DEF HandlerTimesOut, CheckHeld, RefuseResult, PersistNodeResult, HandlerReturns,
     ComputeReturns, rowVars
<1>3. PICK c : slot' = [slot EXCEPT ![s] = c] /\ Covered(c, persisted')
  <2>1. Covered(Idle, persisted')
    BY DEF Covered, Idle
  <2>2. ASSUME NEW v, v # "ok", NEW ph
        PROVE  Covered(Moved(slot[s], ph, v), persisted')
    BY <1>1, <2>2 DEF Covered, Moved, SlotState
  <2>3. CASE HandlerTimesOut(s)
    BY <2>2, <2>3 DEF HandlerTimesOut
  <2>4. CASE RefuseResult(s)
    BY <2>1, <2>4 DEF RefuseResult
  <2>5. ASSUME slot[s].job \in persisted'
        PROVE  Covered(Moved(slot[s], "writing", "ok"), persisted')
    BY <1>1, <2>5 DEF Covered, Moved, SlotState
  <2>6. CASE PersistNodeResult(s)
    BY <2>2, <2>5, <2>6 DEF PersistNodeResult
  <2>7. ASSUME NEW v \in {"ok", "error", "limited"}, HandlerReturns(s, v)
        PROVE  Covered(Moved(slot[s], "writing", v), persisted')
    BY <2>2, <2>5, <2>7 DEF HandlerReturns
  <2>8. ASSUME NEW v \in {"ok", "error", "limited"}, ComputeReturns(s, v)
        PROVE  Covered([slot[s] EXCEPT !.phase = "submitting", !.sent = v], persisted')
    BY <1>1 DEF Covered, SlotState
  <2>9. CASE CheckHeld(s)
    <3> DEFINE r == job[slot[s].job]
               ph == IF slot[s].sent = "ok" THEN "checked" ELSE "writing"
               m == Moved(slot[s], ph, slot[s].sent)
               c == IF HeldBy(r, NodeOf[s]) THEN [m EXCEPT !.attempts = r.attempts, !.hits = r.hits]
                    ELSE Idle
    <3>1. m \in SlotState /\ m.phase = ph
      BY <1>1, MovedState DEF SlotState, Phases
    <3>2. m.verdict = slot[s].sent
      BY <1>1 DEF Moved, SlotState
    <3>3. slot' = [slot EXCEPT ![s] = c]
      BY <2>9 DEF CheckHeld
    <3> HIDE DEF m
    <3>4. Covered([m EXCEPT !.attempts = r.attempts, !.hits = r.hits], persisted')
      BY <3>1, <3>2 DEF Covered, SlotState
    <3>5. Covered(c, persisted')
      BY <2>1, <3>4
    <3>. QED
      BY <3>3, <3>5
  <2>. QED
    BY <2>3, <2>4, <2>6, <2>7, <2>8, <2>9 DEF HandlerReturns, ComputeReturns
<1>. QED
  BY <1>2, <1>3, NoRowFollows, OneSlotCovered

(* The terminal write decides from the copy of the slot that makes it.      *)
LEMMA TerminateRows ==
  ASSUME RowsInv, NEW s \in Slots, Terminate(s)
  PROVE  PendingUnowned' /\ SuccessPersisted' /\ Vouched'
<1>1. /\ slot[s] \in SlotState /\ slot[s].phase \in {"writing", "rewriting"}
      /\ slot[s].attempts >= 1 /\ slot[s].job \in Jobs
  BY DEF RowsInv, TypeInv, TypeOK, Charged, Executing, Terminate, TerminalWrite,
     TerminalWriteFails, TerminalWriteAckLost, TerminalRewrite, TerminalRewriteFails
<1>2. persisted' = persisted
  BY DEF Terminate, TerminalWrite, TerminalWriteFails, TerminalWriteAckLost,
     TerminalRewrite, TerminalRewriteFails
<1>3. slot[s].verdict = "ok" => slot[s].job \in persisted
  BY <1>1 DEF RowsInv, Vouched
<1>4. Commit(s) \/ job' = job
  BY DEF Terminate, TerminalWrite, TerminalWriteFails, TerminalWriteAckLost,
     TerminalRewrite, TerminalRewriteFails, rowVars
<1>5. PendingUnowned' /\ SuccessPersisted'
  <2>1. CASE job' = job
    BY <1>2, <2>1, NoRowFollows
  <2>2. CASE Commit(s)
    <3>1. job[slot[s].job] \in Row
      BY <1>1 DEF RowsInv, TypeInv, TypeOK
    <3>2. job' = [job EXCEPT ![slot[s].job] = Written(job[slot[s].job], slot[s])]
      BY <2>2 DEF Commit
    <3>. QED
      BY <1>1, <1>2, <1>3, <3>1, <3>2, WrittenFollows, OneRowFollows
  <2>. QED
    BY <1>4, <2>1, <2>2
<1>6. Return(s) \/ slot' = [slot EXCEPT ![s] = Moved(slot[s], "rewriting", slot[s].verdict)]
  BY DEF Terminate, TerminalWrite, TerminalWriteFails, TerminalWriteAckLost,
     TerminalRewrite, TerminalRewriteFails
<1>7. Covered(Moved(slot[s], "rewriting", slot[s].verdict), persisted')
  BY <1>1, <1>2, <1>3 DEF Covered, Moved, SlotState
<1>8. Vouched'
  BY <1>1, <1>2, <1>6, <1>7, ReturnedCovered, OneSlotCovered DEF Return
<1>. QED
  BY <1>5, <1>8

LEMMA CrashRows ==
  ASSUME RowsInv, ServerCrash \/ \E n \in Nodes : NodeCrash(n)
  PROVE  PendingUnowned' /\ SuccessPersisted' /\ Vouched'
<1>1. persisted' = persisted /\ job' = job
  BY DEF ServerCrash, NodeCrash, rowVars
<1>2. \A s \in Slots : Covered(slot[s], persisted)
  BY DEF RowsInv, Vouched, Covered
<1>3. Covered(Idle, persisted)
  BY DEF Covered, Idle
<1>4. \A s \in Slots : slot[s] \in SlotState
  BY DEF RowsInv, TypeInv, TypeOK
<1>5. \A s \in Slots : Covered(slot'[s], persisted)
  <2>1. CASE ServerCrash
    <3> SUFFICES ASSUME NEW s \in Slots
                 PROVE  Covered(slot'[s], persisted)
      OBVIOUS
    <3>1. slot'[s] \in {Idle, slot[s]} \/ (s \notin Loops /\ slot'[s] = Resent(s))
      BY <2>1 DEF ServerCrash
    <3>2. s \notin Loops => Resent(s) \in Returned(s)
      BY DEF Returned
    <3>. QED
      BY <1>2, <1>3, <1>4, <3>1, <3>2, ReturnedCovered
  <2>2. ASSUME NEW n \in Nodes, NodeCrash(n)
        PROVE  \A s \in Slots : Covered(slot'[s], persisted)
    BY <1>2, <1>3, <2>2 DEF NodeCrash
  <2>. QED
    BY <2>1, <2>2
<1>6. Vouched'
  BY <1>1, <1>5 DEF Vouched, Covered
<1>. QED
  BY <1>1, <1>6, NoRowFollows

LEMMA ReaperRows ==
  ASSUME RowsInv, ResetStuck
  PROVE  PendingUnowned' /\ SuccessPersisted' /\ Vouched'
<1>1. persisted' = persisted /\ slot' = slot
  BY DEF ResetStuck, ReadExhausted, FailExhausted, RequeueStuck
<1>2. \A j \in Jobs : job[j] \in Row
  BY DEF RowsInv, TypeInv, TypeOK
<1> SUFFICES PendingUnowned' /\ SuccessPersisted'
  BY <1>1, NoSlotCovered
<1>3. CASE ReadExhausted
  BY <1>1, <1>3, NoRowFollows DEF ReadExhausted, rowVars
<1>4. ASSUME NEW j \in Jobs, FailExhausted(j)
      PROVE  PendingUnowned' /\ SuccessPersisted'
  BY <1>1, <1>2, <1>4, ReapedFollows, OneRowFollows, NoRowFollows DEF FailExhausted
<1>5. CASE RequeueStuck
  <2>1. \A j \in Jobs : job'[j] = Requeued(job[j]) \/ job'[j] = job[j]
    BY <1>5 DEF RequeueStuck
  <2>. QED
    BY <1>1, <1>2, <2>1, ReapedFollows, SameFollows, RowsFollow
<1>. QED
  BY <1>3, <1>4, <1>5 DEF ResetStuck

LEMMA AdminRows ==
  ASSUME RowsInv,
         AdminWrites \/ RetryAllFailed
         \/ \E op \in {"retry", "delete"}, j \in Jobs : AdminReads(op, j)
  PROVE  PendingUnowned' /\ SuccessPersisted' /\ Vouched'
<1>1. persisted' = persisted /\ slot' = slot
  BY DEF AdminWrites, RetryAllFailed, AdminReads
<1> SUFFICES PendingUnowned' /\ SuccessPersisted'
  BY <1>1, NoSlotCovered
<1>2. CASE AdminWrites
  <2> DEFINE st == IF admin.op = "retry" THEN "pending" ELSE "deleted"
  <2>1. CASE job' = job
    BY <1>1, <2>1, NoRowFollows
  <2>2. CASE admin.job \in Jobs /\ job' = [job EXCEPT ![admin.job] = Fresh(st)]
    BY <1>1, <2>2, FreshFollows, OneRowFollows
  <2>3. CASE admin.job \notin Jobs
    <3>1. job' = job
      BY <1>2, <2>3 DEF AdminWrites, rowVars, RowsInv, TypeInv, TypeOK
    <3>. QED
      BY <1>1, <3>1, NoRowFollows
  <2>. QED
    BY <1>2, <2>1, <2>2, <2>3 DEF AdminWrites, rowVars
<1>3. CASE RetryAllFailed
  <2>1. \A j \in Jobs : job'[j] = Fresh("pending") \/ job'[j] = job[j]
    BY <1>3 DEF RetryAllFailed
  <2>. QED
    BY <1>1, <2>1, FreshFollows, SameFollows, RowsFollow
<1>4. CASE \E op \in {"retry", "delete"}, j \in Jobs : AdminReads(op, j)
  BY <1>1, <1>4, NoRowFollows DEF AdminReads, rowVars
<1>. QED
  BY <1>2, <1>3, <1>4

LEMMA RowsStep == RowsInv /\ [Next]_vars => RowsInv'
<1> SUFFICES ASSUME RowsInv, [Next]_vars
             PROVE  PendingUnowned' /\ SuccessPersisted' /\ Vouched'
  BY TypeStep DEF RowsInv
<1>1. CASE UNCHANGED vars
  BY <1>1, NoRowFollows, NoSlotCovered DEF vars
<1>2. CASE Next
  <2>1. ASSUME NEW j \in Jobs, BackgroundHandlerReturns(j)
        PROVE  PendingUnowned' /\ SuccessPersisted' /\ Vouched'
    BY <2>1, NoRowFollows, NoSlotCovered DEF BackgroundHandlerReturns, rowVars
  <2>2. ASSUME NEW l \in Lanes, RenewLease(l)
        PROVE  PendingUnowned' /\ SuccessPersisted' /\ Vouched'
    <3>1. slot[l].job \in Jobs /\ job[slot[l].job] \in Row
      BY <2>2 DEF RenewLease, RowsInv, TypeInv, TypeOK, Charged, Slots
    <3>. QED
      BY <2>2, <3>1, RenewedFollows, OneRowFollows, NoSlotCovered DEF RenewLease
  <2>3. ASSUME NEW w \in Loops, LoopStep(w)
        PROVE  PendingUnowned' /\ SuccessPersisted' /\ Vouched'
    BY <2>3, ExecutionRows, TerminateRows DEF LoopStep, Slots
  <2>4. ASSUME NEW l \in Lanes, LaneStep(l)
        PROVE  PendingUnowned' /\ SuccessPersisted' /\ Vouched'
    BY <2>4, ExecutionRows, TerminateRows DEF LaneStep, Slots
  <2>. QED
    BY <1>2, <2>1, <2>2, <2>3, <2>4, ClaimRows, CrashRows, ReaperRows, AdminRows DEF Next
<1>. QED
  BY <1>1, <1>2

-----------------------------------------------------------------------------

(* A pending row carries no trace of an executor, under every hazard: the   *)
(* claim, the reaper, the terminal service and an administrator all leave   *)
(* one that anybody may take for unowned.                                   *)
THEOREM PendingRowsUnowned == Spec => []PendingUnowned
<1>1. RowsInv => PendingUnowned
  BY DEF RowsInv
<1>. QED
  BY <1>1, RowsInit, RowsStep, PTL DEF Spec

(* A row that says succeeded has its output, under every hazard: also when  *)
(* the success is recorded by id over a later claim of the job, and when a  *)
(* node's result could not be persisted.                                    *)
THEOREM SuccessesPersisted == Spec => []SuccessPersisted
<1>1. RowsInv => SuccessPersisted
  BY DEF RowsInv
<1>. QED
  BY <1>1, RowsInit, RowsStep, PTL DEF Spec
=============================================================================
