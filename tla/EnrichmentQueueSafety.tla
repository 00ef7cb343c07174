------------------------ MODULE EnrichmentQueueSafety ------------------------
(***************************************************************************)
(* One execution at a time, the retry budget and the permanence of success *)
(* for every instance of EnrichmentQueue in a calm environment: handlers   *)
(* may time out, terminal writes may fail, processes may crash and admins  *)
(* may act, but no row looks stuck while its execution is alive, no write  *)
(* is committed and reported as failed, no result is sent again and no row *)
(* is claimed between an admin's read and write.  In that environment the   *)
(* queue implements JobContract.                                           *)
(***************************************************************************)
EXTENDS EnrichmentQueueProofs

Calm == Hazards \cap {"earlyLapse", "lostAck", "resubmit", "adminRace"} = {}

\* The claim of slot s is in force, and too young to be reaped.
InForce(s) ==
  LET r == job[slot[s].job] IN
  /\ holder[slot[s].job] = s
  /\ r.status = "running" /\ r.owner = OwnerOf(s)
  /\ r.lease = "live" /\ ~r.aged
  /\ r.attempts = slot[s].attempts /\ r.hits = slot[s].hits

Held == \A s \in Slots : Executing(s) => InForce(s)

\* What the reaper read as exhausted is still stuck when it gives it up.
ReapedStuck == \A j \in reaper.todo : Stuck(job[j])

(* OneExecution is not inductive: it needs to know that a row in execution *)
(* is not stuck, and that the reaper acts on stuck rows only.              *)
ExecInv == TypeInv /\ Held /\ ReapedStuck

-----------------------------------------------------------------------------
(* Lemmas about steps. *)

LEMMA Busy ==
  ASSUME TypeInv, Held, NEW s \in Slots, Executing(s)
  PROVE  /\ slot[s].job \in Jobs
         /\ job[slot[s].job].status = "running"
         /\ ~Stuck(job[slot[s].job])
         /\ holder[slot[s].job] = s
BY DEF TypeInv, Charged, Held, InForce, Stuck

\* Slots that go on, on jobs outside D, keep their claims when the rows
\* outside D are left alone.
LEMMA Undisturbed ==
  ASSUME TypeInv, Held, NEW D,
         \A s \in Slots : slot'[s].phase # "idle" =>
           /\ Executing(s)
           /\ slot[s].job \notin D
           /\ slot'[s].job = slot[s].job
           /\ slot'[s].attempts = slot[s].attempts
           /\ slot'[s].hits = slot[s].hits,
         \A k \in Jobs \ D : job'[k] = job[k] /\ holder'[k] = holder[k]
  PROVE  Held'
<1> SUFFICES ASSUME NEW s \in Slots, slot'[s].phase # "idle"
             PROVE  InForce(s)'
  BY DEF Held, Executing
<1>1. slot[s].job \in Jobs \ D /\ InForce(s)
  BY Busy DEF Held
<1>2. job'[slot'[s].job] = job[slot[s].job] /\ holder'[slot'[s].job] = holder[slot[s].job]
  BY <1>1
<1>. QED
  BY <1>1, <1>2 DEF InForce, OwnerOf

\* The common case: the slots stand still.
LEMMA RowsOnly ==
  ASSUME TypeInv, Held, UNCHANGED slot, NEW D,
         \A s \in Slots : Executing(s) => slot[s].job \notin D,
         \A k \in Jobs \ D : job'[k] = job[k] /\ holder'[k] = holder[k]
  PROVE  Held'
BY Undisturbed DEF Executing

LEMMA ReapedKept ==
  ASSUME TypeInv, ReapedStuck, reaper'.todo \subseteq reaper.todo,
         \A j \in reaper'.todo : Stuck(job[j]) => Stuck(job'[j])
  PROVE  ReapedStuck'
BY DEF ReapedStuck, Stuck

LEMMA ReapedAreJobs ==
  ASSUME TypeInv
  PROVE  reaper.todo \subseteq Jobs
BY DEF TypeInv, TypeOK

\* A step that changes rows that were not running disturbs neither a slot nor
\* the reaper.
LEMMA IdleRowsOnly ==
  ASSUME ExecInv, UNCHANGED slot, reaper'.todo \subseteq reaper.todo,
         \A k \in Jobs : job[k].status = "running" =>
                           job'[k] = job[k] /\ holder'[k] = holder[k]
  PROVE  Held' /\ ReapedStuck'
<1> DEFINE D == {k \in Jobs : job[k].status # "running"}
<1>1. Held'
  <2>1. \A s \in Slots : Executing(s) => slot[s].job \notin D
    BY Busy DEF ExecInv
  <2>2. \A k \in Jobs \ D : job'[k] = job[k] /\ holder'[k] = holder[k]
    OBVIOUS
  <2>. QED
    BY <2>1, <2>2, RowsOnly DEF ExecInv
<1>2. \A j \in reaper'.todo : Stuck(job[j]) => Stuck(job'[j])
  BY ReapedAreJobs DEF ExecInv, Stuck
<1>. QED
  BY <1>1, <1>2, ReapedKept DEF ExecInv

\* A step that only moves slots on, or stops them.
LEMMA SlotsOnly ==
  ASSUME ExecInv, UNCHANGED <<job, holder>>, reaper'.todo \subseteq reaper.todo,
         \A s \in Slots : slot'[s].phase # "idle" =>
           /\ Executing(s)
           /\ slot'[s].job = slot[s].job
           /\ slot'[s].attempts = slot[s].attempts
           /\ slot'[s].hits = slot[s].hits
  PROVE  Held' /\ ReapedStuck'
<1>1. Held'
  <2>1. PICK D : D = {}
    OBVIOUS
  <2>2. \A s \in Slots : slot'[s].phase # "idle" => slot[s].job \notin D
    BY <2>1
  <2>. QED
    BY <2>2, Undisturbed DEF ExecInv
<1>2. ReapedStuck'
  BY ReapedKept DEF ExecInv, Stuck
<1>. QED
  BY <1>1, <1>2

-----------------------------------------------------------------------------
(* One lemma per group of actions. *)

LEMMA ExecInit == Init => ExecInv
BY TypeInit, IdleState DEF Init, ExecInv, Held, ReapedStuck, Executing

LEMMA ClaimHeld ==
  ASSUME ExecInv, NEW s \in Slots, NEW j \in Jobs, Claim(s, j)
  PROVE  Held' /\ ReapedStuck'
<1> DEFINE r == Claimed(job[j], OwnerOf(s))
           c == AtWork(j, job[j].attempts + 1, job[j].hits)
<1>1. /\ job' = [job EXCEPT ![j] = r]
      /\ slot' = [slot EXCEPT ![s] = c]
      /\ holder' = [holder EXCEPT ![j] = s]
      /\ reaper' = reaper
      /\ job[j].status = "pending"
  BY DEF Claim, Claimable, opsVars
<1>2. /\ job \in [Jobs -> Row] /\ slot \in [Slots -> SlotState]
      /\ holder \in [Jobs -> Slots \cup {None}]
  BY DEF ExecInv, TypeInv, TypeOK
<1>3. c.job = j /\ c.attempts = job[j].attempts + 1 /\ c.hits = job[j].hits
  BY DEF AtWork
<1>4. /\ r.status = "running" /\ r.owner = OwnerOf(s) /\ r.lease = "live" /\ ~r.aged
      /\ r.attempts = job[j].attempts + 1 /\ r.hits = job[j].hits
  BY <1>2 DEF Claimed, Row
<1> HIDE DEF r, c
<1>5. Held'
  <2> SUFFICES ASSUME NEW t \in Slots, slot'[t].phase # "idle"
               PROVE  InForce(t)'
    BY DEF Held, Executing
  <2>1. CASE t = s
    <3>1. slot'[t] = c /\ job'[j] = r /\ holder'[j] = t
      BY <1>1, <1>2, <2>1
    <3>. QED
      BY <1>3, <1>4, <2>1, <3>1 DEF InForce, OwnerOf
  <2>2. CASE t # s
    <3>1. slot'[t] = slot[t] /\ Executing(t)
      BY <1>1, <1>2, <2>2 DEF Executing
    <3>2. slot[t].job \in Jobs /\ slot[t].job # j /\ InForce(t)
      BY <1>1, <3>1, Busy DEF ExecInv, Held
    <3>3. job'[slot[t].job] = job[slot[t].job] /\ holder'[slot[t].job] = holder[slot[t].job]
      BY <1>1, <1>2, <3>2
    <3>. QED
      BY <3>1, <3>2, <3>3 DEF InForce, OwnerOf
  <2>. QED
    BY <2>1, <2>2
<1>6. \A k \in reaper'.todo : Stuck(job[k]) => Stuck(job'[k])
  BY <1>1, <1>2, ReapedAreJobs DEF ExecInv, Stuck
<1>. QED
  BY <1>1, <1>5, <1>6, ReapedKept DEF ExecInv

LEMMA IdleRowsHeld ==
  ASSUME ExecInv,
         \/ \E j \in Jobs : Enqueue(j) \/ DelayElapses(j)
         \/ \E l \in Lanes, j \in Jobs : ClaimReplyLost(l, j)
         \/ RetryAllFailed
  PROVE  Held' /\ ReapedStuck'
<1>1. UNCHANGED <<slot, reaper>>
  BY DEF Enqueue, DelayElapses, ClaimReplyLost, RetryAllFailed, opsVars
<1>2. job \in [Jobs -> Row] /\ holder \in [Jobs -> Slots \cup {None}]
  BY DEF ExecInv, TypeInv, TypeOK
<1>3. ASSUME NEW k \in Jobs, job[k].status = "running"
      PROVE  job'[k] = job[k] /\ holder'[k] = holder[k]
  BY <1>2, <1>3 DEF Enqueue, DelayElapses, ClaimReplyLost, Claimable, RetryAllFailed,
                    RetriedInBulk
<1>. QED
  BY <1>1, <1>3, IdleRowsOnly

LEMMA HandlerHeld ==
  ASSUME ExecInv, NEW w \in Loops,
         (\E v \in {"ok", "error", "limited"} : HandlerReturns(w, v)) \/ HandlerTimesOut(w)
  PROVE  Held' /\ ReapedStuck'
<1>1. PICK v \in Verdicts : slot' = [slot EXCEPT ![w] = Moved(slot[w], "writing", v)]
  BY DEF HandlerReturns, HandlerTimesOut, Verdicts
<1>2. Executing(w) /\ UNCHANGED <<job, holder, reaper>>
  BY DEF HandlerReturns, HandlerTimesOut, Executing, rowVars, opsVars
<1>3. w \in Slots /\ slot \in [Slots -> SlotState]
  BY DEF ExecInv, TypeInv, TypeOK, Slots
<1> DEFINE c == Moved(slot[w], "writing", v)
<1>4. c.job = slot[w].job /\ c.attempts = slot[w].attempts /\ c.hits = slot[w].hits
  BY <1>3, MovedState DEF Phases
<1> HIDE DEF c
<1>5. \A s \in Slots : slot'[s].phase # "idle" =>
        /\ Executing(s)
        /\ slot'[s].job = slot[s].job
        /\ slot'[s].attempts = slot[s].attempts
        /\ slot'[s].hits = slot[s].hits
  BY <1>1, <1>2, <1>3, <1>4 DEF Executing, c
<1>. QED
  BY <1>2, <1>5, SlotsOnly

LEMMA LaneHeld ==
  ASSUME ExecInv, NEW l \in Lanes,
         \/ \E v \in {"ok", "error", "limited"} : ComputeReturns(l, v)
         \/ CheckHeld(l)
         \/ RefuseResult(l)
         \/ PersistNodeResult(l)
  PROVE  Held' /\ ReapedStuck'
<1>1. Executing(l) /\ UNCHANGED <<job, holder, reaper>>
  BY DEF ComputeReturns, CheckHeld, RefuseResult, PersistNodeResult, Executing, rowVars, opsVars
<1>2. l \in Slots /\ slot \in [Slots -> SlotState]
  BY DEF ExecInv, TypeInv, TypeOK, Slots
<1>3. /\ slot[l].job \in Jobs /\ job[slot[l].job].attempts = slot[l].attempts
      /\ job[slot[l].job].hits = slot[l].hits
  BY <1>1, <1>2, Busy DEF ExecInv, Held, InForce
<1>4. PICK c : /\ slot' = [slot EXCEPT ![l] = c]
               /\ c.phase # "idle" =>
                    /\ c.job = slot[l].job
                    /\ c.attempts = slot[l].attempts /\ c.hits = slot[l].hits
  <2> DEFINE Good(c) == c.phase # "idle" =>
                          /\ c.job = slot[l].job
                          /\ c.attempts = slot[l].attempts /\ c.hits = slot[l].hits
  <2>1. ASSUME NEW v, ComputeReturns(l, v)
        PROVE  \E c : slot' = [slot EXCEPT ![l] = c] /\ Good(c)
    <3> DEFINE c == [slot[l] EXCEPT !.phase = "submitting", !.sent = v]
    <3>1. Good(c)
      BY <1>2 DEF SlotState
    <3>. QED
      BY <2>1, <3>1 DEF ComputeReturns
  <2>2. ASSUME PersistNodeResult(l)
        PROVE  \E c : slot' = [slot EXCEPT ![l] = c] /\ Good(c)
    <3>1. PICK v \in Verdicts : slot' = [slot EXCEPT ![l] = Moved(slot[l], "writing", v)]
      BY <2>2 DEF PersistNodeResult, Verdicts
    <3>2. Good(Moved(slot[l], "writing", v))
      BY <1>2, MovedState DEF Phases
    <3>. QED
      BY <3>1, <3>2
  <2>3. ASSUME CheckHeld(l)
        PROVE  \E c : slot' = [slot EXCEPT ![l] = c] /\ Good(c)
    <3> DEFINE r == job[slot[l].job]
               p == IF slot[l].sent = "ok" THEN "checked" ELSE "writing"
               m == Moved(slot[l], p, slot[l].sent)
               c == [m EXCEPT !.attempts = r.attempts, !.hits = r.hits]
    <3>1. slot' = [slot EXCEPT ![l] = IF HeldBy(r, NodeOf[l]) THEN c ELSE Idle]
      BY <2>3 DEF CheckHeld
    <3>2. m \in SlotState /\ m.job = slot[l].job
      BY <1>2, MovedState DEF Phases, SlotState
    <3> HIDE DEF m
    <3>3. c.job = m.job /\ c.attempts = r.attempts /\ c.hits = r.hits
      BY <3>2 DEF SlotState
    <3> HIDE DEF c
    <3>4. Good(c) /\ Good(Idle)
      BY <1>3, <3>2, <3>3, IdleState
    <3>. QED
      BY <3>1, <3>4
  <2>4. Good(Idle)
    BY IdleState
  <2>. QED
    BY <2>1, <2>2, <2>3, <2>4 DEF RefuseResult
<1>5. \A s \in Slots : slot'[s].phase # "idle" =>
        /\ Executing(s)
        /\ slot'[s].job = slot[s].job
        /\ slot'[s].attempts = slot[s].attempts
        /\ slot'[s].hits = slot[s].hits
  BY <1>1, <1>2, <1>4 DEF Executing
<1>. QED
  BY <1>1, <1>5, SlotsOnly

LEMMA TerminateHeld ==
  ASSUME Calm, ExecInv, NEW s \in Slots, Terminate(s)
  PROVE  Held' /\ ReapedStuck'
<1> DEFINE j == slot[s].job
           m == Moved(slot[s], "rewriting", slot[s].verdict)
<1>1. Executing(s) /\ reaper' = reaper
  BY DEF Terminate, TerminalWrite, TerminalWriteFails, TerminalWriteAckLost,
         TerminalRewrite, TerminalRewriteFails, Executing, opsVars
<1>2. /\ job \in [Jobs -> Row] /\ slot \in [Slots -> SlotState]
      /\ holder \in [Jobs -> Slots \cup {None}]
  BY DEF ExecInv, TypeInv, TypeOK
<1>3. j \in Jobs /\ ~Stuck(job[j]) /\ holder[j] = s
  BY <1>1, Busy DEF ExecInv
<1>4. \A t \in Slots \ {s} : Executing(t) => slot[t].job # j
  BY <1>3, Busy DEF ExecInv
<1>5. \A k \in Jobs \ {j} : job'[k] = job[k] /\ holder'[k] = holder[k]
  BY <1>2, <1>3 DEF Terminate, TerminalWrite, TerminalWriteFails, TerminalWriteAckLost,
         TerminalRewrite, TerminalRewriteFails, Commit, rowVars
<1>6. ReapedStuck'
  <2>1. \A k \in reaper'.todo : k \in Jobs \ {j}
    BY <1>1, <1>3, ReapedAreJobs DEF ExecInv, ReapedStuck
  <2>. QED
    BY <1>1, <1>5, <2>1, ReapedKept DEF ExecInv
<1>7. CASE Return(s)
  <2>1. Resent(s) = Idle
    BY DEF Calm, Resent
  <2>2. slot' = [slot EXCEPT ![s] = Idle]
    BY <1>7, <2>1 DEF Return, Returned
  <2>3. \A t \in Slots : slot'[t].phase # "idle" =>
          /\ Executing(t)
          /\ slot[t].job \notin {j}
          /\ slot'[t].job = slot[t].job
          /\ slot'[t].attempts = slot[t].attempts
          /\ slot'[t].hits = slot[t].hits
    BY <1>2, <1>4, <2>2, IdleState DEF Executing
  <2>. QED
    BY <1>5, <1>6, <2>3, Undisturbed DEF ExecInv
<1>8. CASE slot' = [slot EXCEPT ![s] = m] /\ UNCHANGED <<job, holder>>
  <2>1. m.job = slot[s].job /\ m.attempts = slot[s].attempts /\ m.hits = slot[s].hits
    BY <1>2, MovedState DEF Phases, SlotState
  <2> HIDE DEF m
  <2>2. \A t \in Slots : slot'[t].phase # "idle" =>
          /\ Executing(t)
          /\ slot'[t].job = slot[t].job
          /\ slot'[t].attempts = slot[t].attempts
          /\ slot'[t].hits = slot[t].hits
    BY <1>1, <1>2, <1>8, <2>1 DEF Executing
  <2>. QED
    BY <1>1, <1>8, <2>2, SlotsOnly
<1>9. ~TerminalWriteAckLost(s)
  BY DEF Calm, TerminalWriteAckLost
<1>. QED
  BY <1>7, <1>8, <1>9 DEF Terminate, TerminalWrite, TerminalWriteFails,
     TerminalRewrite, TerminalRewriteFails, rowVars

LEMMA TimeHeld ==
  ASSUME Calm, ExecInv, NEW j \in Jobs, PassThreshold(j) \/ LeaseExpires(j)
  PROVE  Held' /\ ReapedStuck'
<1>1. UNCHANGED <<slot, reaper, holder>>
  BY DEF PassThreshold, LeaseExpires, opsVars
<1>2. \A s \in Slots : Executing(s) => slot[s].job \notin {j}
  BY DEF PassThreshold, LeaseExpires, MayLapse, Unattended, Calm
<1>3. job \in [Jobs -> Row]
  BY DEF ExecInv, TypeInv, TypeOK
<1>4. \A k \in Jobs \ {j} : job'[k] = job[k] /\ holder'[k] = holder[k]
  BY <1>1, <1>3 DEF PassThreshold, LeaseExpires
<1>5. Stuck(job[j]) => Stuck(job'[j])
  <2>1. ASSUME NEW r \in Row, Stuck(r)
        PROVE  Stuck([r EXCEPT !.aged = TRUE]) /\ Stuck([r EXCEPT !.lease = "expired"])
    BY <2>1 DEF Stuck, Row
  <2>. QED
    BY <1>3, <2>1 DEF PassThreshold, LeaseExpires
<1>6. \A k \in reaper'.todo : Stuck(job[k]) => Stuck(job'[k])
  BY <1>1, <1>4, <1>5, ReapedAreJobs DEF ExecInv
<1>. QED
  BY <1>1, <1>2, <1>4, <1>6, RowsOnly, ReapedKept DEF ExecInv

LEMMA RenewHeld ==
  ASSUME ExecInv, NEW l \in Lanes, RenewLease(l)
  PROVE  Held' /\ ReapedStuck'
<1> DEFINE j == slot[l].job
<1>1. Executing(l) /\ l \in Slots /\ UNCHANGED <<slot, reaper, holder>>
  BY DEF RenewLease, opsVars, Slots
<1>2. j \in Jobs /\ job[j].lease = "live" /\ job \in [Jobs -> Row]
  BY <1>1, Busy DEF ExecInv, Held, InForce, TypeInv, TypeOK
<1>3. [job[j] EXCEPT !.lease = "live"] = job[j]
  BY <1>2 DEF Row
<1>4. job' = job
  BY <1>2, <1>3 DEF RenewLease
<1>. QED
  BY <1>1, <1>4, SlotsOnly DEF Executing

LEMMA CrashHeld ==
  ASSUME Calm, ExecInv, ServerCrash \/ \E n \in Nodes : NodeCrash(n)
  PROVE  Held' /\ ReapedStuck'
<1>1. UNCHANGED <<job, holder>>
  BY DEF ServerCrash, NodeCrash, rowVars
<1>2. reaper'.todo \subseteq reaper.todo
  BY DEF ServerCrash, NodeCrash, opsVars
<1>3. \A s \in Slots : slot'[s] \in {Idle, slot[s]}
  BY DEF ServerCrash, NodeCrash, Resent, Calm
<1>. QED
  BY <1>1, <1>2, <1>3, IdleState, SlotsOnly DEF Executing

LEMMA ReaperHeld ==
  ASSUME ExecInv, ResetStuck
  PROVE  Held' /\ ReapedStuck'
<1>1. job \in [Jobs -> Row] /\ holder \in [Jobs -> Slots \cup {None}]
  BY DEF ExecInv, TypeInv, TypeOK
<1>2. CASE ReadExhausted
  <2>1. Held'
    BY <1>2 DEF ExecInv, Held, InForce, Executing, OwnerOf, ReadExhausted, rowVars
  <2>2. ReapedStuck'
    BY <1>2 DEF ReapedStuck, ReadExhausted, Exhausted, Stuck, rowVars
  <2>. QED
    BY <2>1, <2>2
<1>3. CASE \E j \in Jobs : FailExhausted(j)
  <2>1. PICK j \in Jobs : FailExhausted(j)
    BY <1>3
  <2>2. Stuck(job[j]) /\ reaper'.todo = reaper.todo \ {j} /\ UNCHANGED slot
    BY <2>1 DEF FailExhausted, ExecInv, ReapedStuck, TypeInv, TypeOK
  <2>3. \A s \in Slots : Executing(s) => slot[s].job \notin {j}
    BY <2>2, Busy DEF ExecInv
  <2>4. \A k \in Jobs \ {j} : job'[k] = job[k] /\ holder'[k] = holder[k]
    BY <1>1, <2>1 DEF FailExhausted
  <2>5. \A k \in reaper'.todo : Stuck(job[k]) => Stuck(job'[k])
    BY <2>2, <2>4, ReapedAreJobs DEF ExecInv
  <2>. QED
    BY <2>2, <2>3, <2>4, <2>5, RowsOnly, ReapedKept DEF ExecInv
<1>4. CASE RequeueStuck
  <2> DEFINE D == {k \in Jobs : Stuck(job[k])}
  <2>1. \A s \in Slots : Executing(s) => slot[s].job \notin D
    BY Busy DEF ExecInv
  <2>2. \A k \in Jobs \ D : job'[k] = job[k] /\ holder'[k] = holder[k]
    BY <1>1, <1>4 DEF RequeueStuck, Requeueable
  <2>3. UNCHANGED slot /\ reaper'.todo = {}
    BY <1>4 DEF RequeueStuck
  <2>. QED
    BY <2>1, <2>2, <2>3, RowsOnly, ReapedKept DEF ExecInv
<1>. QED
  BY <1>2, <1>3, <1>4 DEF ResetStuck

LEMMA AdminHeld ==
  ASSUME Calm, ExecInv,
         (\E op \in {"retry", "delete"}, j \in Jobs : AdminReads(op, j)) \/ AdminWrites
  PROVE  Held' /\ ReapedStuck'
<1>1. UNCHANGED <<slot, reaper>>
  BY DEF AdminReads, AdminWrites
<1>2. job \in [Jobs -> Row] /\ holder \in [Jobs -> Slots \cup {None}]
  BY DEF ExecInv, TypeInv, TypeOK
<1>3. ASSUME NEW k \in Jobs, job[k].status = "running"
      PROVE  job'[k] = job[k] /\ holder'[k] = holder[k]
  BY <1>2, <1>3 DEF AdminReads, AdminWrites, rowVars, Calm
<1>. QED
  BY <1>1, <1>3, IdleRowsOnly

LEMMA ExecStep ==
  ASSUME Calm
  PROVE  ExecInv /\ [Next]_vars => ExecInv'
<1> SUFFICES ASSUME ExecInv, [Next]_vars PROVE Held' /\ ReapedStuck'
  BY TypeStep DEF ExecInv
<1>1. CASE Next
  <2>1. ASSUME NEW j \in Jobs, BackgroundHandlerReturns(j)
        PROVE  Held' /\ ReapedStuck'
    BY <2>1, SlotsOnly DEF BackgroundHandlerReturns, rowVars, opsVars, Executing
  <2>. QED
    BY <1>1, <2>1, ClaimHeld, IdleRowsHeld, HandlerHeld, LaneHeld, TerminateHeld, TimeHeld,
       RenewHeld, CrashHeld, ReaperHeld, AdminHeld
       DEF Next, LoopStep, LaneStep, Tick, Slots
<1>2. CASE UNCHANGED vars
  BY <1>2 DEF ExecInv, Held, ReapedStuck, InForce, OwnerOf, Executing, Stuck, vars
<1>. QED
  BY <1>1, <1>2

(* In a calm environment an executing slot always holds the claim in force *)
(* on its job: no two executions of one job, and no terminal write over a  *)
(* row that has moved on, whatever the number of loops, nodes and jobs.    *)
THEOREM ExecutionExclusive ==
  ASSUME Calm
  PROVE  Spec => []OneExecution
<1>1. Init => ExecInv
  BY ExecInit
<1>2. ExecInv /\ [Next]_vars => ExecInv'
  BY ExecStep
<1>3. ExecInv => OneExecution
  BY DEF ExecInv, Held, InForce, OneExecution
<1>. QED
  BY <1>1, <1>2, <1>3, PTL DEF Spec

-----------------------------------------------------------------------------
(* The retry budget. *)

\* A row claimed n times; what still has to run has some budget left.
InBudget(r, n) ==
  /\ n = r.attempts + r.hits
  /\ r.attempts <= MaxAttempts /\ r.hits <= MaxHits
  /\ r.status = "pending" => r.attempts < MaxAttempts
  /\ r.status \in {"pending", "running"} => r.hits < MaxHits
  /\ r.status = "absent" => n = 0

Budget == \A j \in Jobs : InBudget(job[j], claims[j])

BudgetInv == ExecInv /\ Budget

LEMMA FreshInBudget ==
  ASSUME NEW st
  PROVE  InBudget(Fresh(st), 0)
BY QueueAssumption DEF InBudget, Fresh

LEMMA ClaimedInBudget ==
  ASSUME NEW r \in Row, NEW n \in Nat, NEW node, r.status = "pending", InBudget(r, n)
  PROVE  InBudget(Claimed(r, node), n + 1)
<1> DEFINE q == Claimed(r, node)
<1>1. q.status = "running" /\ q.attempts = r.attempts + 1 /\ q.hits = r.hits
  BY DEF Claimed, Row
<1> HIDE DEF q
<1>2. InBudget(q, n + 1)
  BY <1>1, QueueAssumption DEF InBudget, Row
<1>. QED
  BY <1>2 DEF q

\* The copy agrees with the row, so its absolute values are right.
LEMMA WrittenInBudget ==
  ASSUME NEW r \in Row, NEW c \in SlotState, NEW n \in Nat, InBudget(r, n),
         r.status = "running", c.attempts = r.attempts, c.hits = r.hits, c.attempts >= 1
  PROVE  InBudget(Written(r, c), n)
<1> DEFINE q == Written(r, c)
           limited == c.verdict = "limited"
<1>1. q.status = Outcome(c)
  BY WrittenRow
<1>2. /\ q.attempts = IF limited THEN r.attempts - 1 ELSE r.attempts
      /\ q.hits = IF limited THEN r.hits + 1 ELSE r.hits
  BY DEF Written, Row
<1>3. Outcome(c) = "pending" => /\ limited => r.hits + 1 < MaxHits
                                /\ ~limited => r.attempts < MaxAttempts
  BY QueueAssumption DEF Outcome, Row
<1>4. q.status \in {"pending", "succeeded", "failed"}
  BY <1>1, OutcomeType
<1> HIDE DEF q, limited
<1>5. InBudget(q, n)
  BY <1>1, <1>2, <1>3, <1>4, QueueAssumption DEF InBudget, Row
<1>. QED
  BY <1>5 DEF q

LEMMA ReapedInBudget ==
  ASSUME NEW r \in Row, NEW n, r.status = "running", InBudget(r, n)
  PROVE  /\ r.attempts < MaxAttempts => InBudget(Requeued(r), n)
         /\ InBudget(GivenUp(r), n)
<1>1. /\ Requeued(r).attempts = r.attempts /\ Requeued(r).hits = r.hits
      /\ Requeued(r).status = "pending"
  BY DEF Requeued, Row
<1>2. /\ GivenUp(r).attempts = r.attempts /\ GivenUp(r).hits = r.hits
      /\ GivenUp(r).status = "failed"
  BY DEF GivenUp, Row
<1>. QED
  BY <1>1, <1>2 DEF InBudget

LEMMA TickedInBudget ==
  ASSUME NEW r \in Row, NEW n, InBudget(r, n)
  PROVE  /\ InBudget([r EXCEPT !.aged = TRUE], n)
         /\ InBudget([r EXCEPT !.lease = "expired"], n)
         /\ InBudget([r EXCEPT !.lease = "live"], n)
         /\ InBudget([r EXCEPT !.deferred = FALSE], n)
BY DEF InBudget, Row

\* One row and its count of claims replaced.
LEMMA OneRowBudget ==
  ASSUME BudgetInv, NEW j \in Jobs, NEW r, NEW n, InBudget(r, n),
         job' = [job EXCEPT ![j] = r],
         claims' = [claims EXCEPT ![j] = n]
  PROVE  Budget'
BY DEF BudgetInv, ExecInv, TypeInv, TypeOK, Budget, InBudget

LEMMA BudgetInit == Init => BudgetInv
BY ExecInit, FreshInBudget DEF Init, BudgetInv, Budget

LEMMA BudgetStep ==
  ASSUME Calm
  PROVE  BudgetInv /\ [Next]_vars => BudgetInv'
<1> SUFFICES ASSUME BudgetInv, [Next]_vars PROVE Budget'
  BY ExecStep DEF BudgetInv
<1>1. /\ job \in [Jobs -> Row] /\ claims \in [Jobs -> Nat]
      /\ slot \in [Slots -> SlotState]
  BY DEF BudgetInv, ExecInv, TypeInv, TypeOK
<1>2. \A j \in Jobs : InBudget(job[j], claims[j])
  BY DEF BudgetInv, Budget
<1>a. \A j \in Jobs : claims = [claims EXCEPT ![j] = claims[j]]
  BY <1>1
<1>3. ASSUME UNCHANGED <<job, claims>>
      PROVE  Budget'
  BY <1>3 DEF BudgetInv, Budget, InBudget
<1>4. ASSUME NEW j \in Jobs, Enqueue(j)
      PROVE  Budget'
  <2>1. claims[j] = 0 /\ job' = [job EXCEPT ![j] = Fresh("pending")] /\ claims' = claims
    BY <1>2, <1>4 DEF Enqueue, InBudget
  <2>. QED
    BY <1>a, <2>1, FreshInBudget, OneRowBudget
<1>5. ASSUME NEW s \in Slots, NEW j \in Jobs,
             Claim(s, j) \/ (s \in Lanes /\ ClaimReplyLost(s, j))
      PROVE  Budget'
  <2>1. PICK node : job' = [job EXCEPT ![j] = Claimed(job[j], node)]
    BY <1>5 DEF Claim, ClaimReplyLost
  <2>2. job[j].status = "pending" /\ claims' = [claims EXCEPT ![j] = claims[j] + 1]
    BY <1>5 DEF Claim, ClaimReplyLost, Claimable
  <2>. QED
    BY <1>1, <1>2, <2>1, <2>2, ClaimedInBudget, OneRowBudget
<1>6. ASSUME NEW s \in Slots, Terminate(s)
      PROVE  Budget'
  <2> DEFINE j == slot[s].job
  <2>1. Executing(s) /\ claims' = claims
    BY <1>6 DEF Terminate, TerminalWrite, TerminalWriteFails, TerminalWriteAckLost,
       TerminalRewrite, TerminalRewriteFails, Executing, rowVars
  <2>2. /\ j \in Jobs /\ job[j].status = "running" /\ slot[s].attempts >= 1
        /\ job[j].attempts = slot[s].attempts /\ job[j].hits = slot[s].hits
    BY <2>1, Busy DEF BudgetInv, ExecInv, TypeInv, Charged, Held, InForce
  <2>3. job' = [job EXCEPT ![j] = Written(job[j], slot[s])] \/ job' = job
    BY <1>6 DEF Terminate, TerminalWrite, TerminalWriteFails, TerminalWriteAckLost,
       TerminalRewrite, TerminalRewriteFails, Commit, rowVars
  <2>4. InBudget(Written(job[j], slot[s]), claims[j])
    BY <1>1, <1>2, <2>2, WrittenInBudget
  <2> HIDE DEF j
  <2>. QED
    BY <1>3, <1>a, <2>1, <2>2, <2>3, <2>4, OneRowBudget
<1>7. ASSUME NEW j \in Jobs, Tick(j) \/ (\E l \in Lanes : RenewLease(l) /\ slot[l].job = j)
      PROVE  Budget'
  <2>1. claims' = claims
    BY <1>7 DEF Tick, PassThreshold, LeaseExpires, DelayElapses, RenewLease
  <2>2. ASSUME NEW r \in Row, NEW n, InBudget(r, n), NEW q,
               q \in {[r EXCEPT !.aged = TRUE], [r EXCEPT !.lease = "expired"],
                      [r EXCEPT !.deferred = FALSE], [r EXCEPT !.lease = "live"]}
        PROVE  InBudget(q, n)
    BY <2>2, TickedInBudget
  <2>3. \E q \in {[job[j] EXCEPT !.aged = TRUE], [job[j] EXCEPT !.lease = "expired"],
                  [job[j] EXCEPT !.deferred = FALSE], [job[j] EXCEPT !.lease = "live"]} :
           job' = [job EXCEPT ![j] = q]
    BY <1>7 DEF Tick, PassThreshold, LeaseExpires, DelayElapses, RenewLease
  <2>4. \E q : InBudget(q, claims[j]) /\ job' = [job EXCEPT ![j] = q]
    BY <1>1, <1>2, <2>2, <2>3
  <2>. QED
    BY <1>a, <2>1, <2>4, OneRowBudget
<1>8. ASSUME ResetStuck
      PROVE  Budget'
  <2>1. ASSUME NEW j \in Jobs, FailExhausted(j)
        PROVE  Budget'
    <3>1. CASE job' = [job EXCEPT ![j] = GivenUp(job[j])] /\ job[j].status = "running"
      BY <1>1, <1>2, <1>a, <2>1, <3>1, ReapedInBudget, OneRowBudget DEF FailExhausted
    <3>. QED
      BY <1>3, <2>1, <3>1 DEF FailExhausted
  <2>2. ASSUME RequeueStuck
        PROVE  Budget'
    <3>1. claims' = claims
          /\ job' = [j \in Jobs |-> IF Requeueable(job[j]) THEN Requeued(job[j]) ELSE job[j]]
      BY <2>2 DEF RequeueStuck
    <3>2. \A j \in Jobs : InBudget(job'[j], claims[j])
      BY <1>1, <1>2, <3>1, ReapedInBudget DEF Requeueable, Stuck
    <3>. QED
      BY <3>1, <3>2 DEF Budget, InBudget
  <2>. QED
    BY <1>8, <1>3, <2>1, <2>2 DEF ResetStuck, ReadExhausted, rowVars
<1>9. ASSUME AdminWrites
      PROVE  Budget'
  <2> DEFINE j == admin.job
  <2>1. PICK st : \/ UNCHANGED <<job, claims>>
                  \/ /\ job' = [job EXCEPT ![j] = Fresh(st)]
                     /\ claims' = [claims EXCEPT ![j] = 0]
    BY <1>9 DEF AdminWrites, rowVars
  <2>2. CASE j \in Jobs
    BY <1>3, <2>1, <2>2, FreshInBudget, OneRowBudget
  <2>3. CASE j \notin Jobs
    BY <1>1, <1>3, <2>1, <2>3
  <2>. QED
    BY <2>2, <2>3
<1>10. ASSUME RetryAllFailed
       PROVE  Budget'
  <2>1. \A j \in Jobs : \/ job'[j] = job[j] /\ claims'[j] = claims[j]
                        \/ job'[j] = Fresh("pending") /\ claims'[j] = 0
    BY <1>10 DEF RetryAllFailed
  <2>2. \A j \in Jobs : InBudget(job'[j], claims'[j])
    BY <1>2, <2>1, FreshInBudget
  <2>. QED
    BY <2>2 DEF Budget, InBudget
<1>11. CASE Next
  <2>1. ASSUME NEW l \in Lanes, RenewLease(l)
        PROVE  Budget'
    <3>1. slot[l].job \in Jobs
      BY <2>1, Busy DEF RenewLease, Slots, BudgetInv, ExecInv
    <3>. QED
      BY <1>7, <2>1, <3>1
  <2>2. ASSUME NEW w \in Loops, LoopStep(w)
        PROVE  Budget'
    BY <1>3, <1>6, <2>2 DEF LoopStep, Slots, HandlerReturns, HandlerTimesOut, rowVars
  <2>3. ASSUME NEW l \in Lanes, LaneStep(l)
        PROVE  Budget'
    BY <1>3, <1>6, <2>3 DEF LaneStep, Slots, ComputeReturns, CheckHeld, RefuseResult,
       PersistNodeResult, rowVars
  <2>4. ASSUME \/ \E j \in Jobs : BackgroundHandlerReturns(j)
               \/ ServerCrash
               \/ \E n \in Nodes : NodeCrash(n)
               \/ \E op \in {"retry", "delete"}, j \in Jobs : AdminReads(op, j)
        PROVE  Budget'
    BY <1>3, <2>4 DEF BackgroundHandlerReturns, ServerCrash, NodeCrash, AdminReads, rowVars
  <2>. QED
    BY <1>4, <1>5, <1>7, <1>8, <1>9, <1>10, <1>11, <2>1, <2>2, <2>3, <2>4 DEF Next, Slots
<1>12. CASE UNCHANGED vars
  BY <1>3, <1>12 DEF vars
<1>. QED
  BY <1>11, <1>12

(* In a calm environment every claim is charged to exactly one budget and  *)
(* neither budget is exceeded, so crashes, reaping and stale copies of a   *)
(* row cannot make a job run more than MaxAttempts + MaxHits times.        *)
THEOREM BudgetKept ==
  ASSUME Calm
  PROVE  Spec => []RetryBudget
<1>1. Init => BudgetInv
  BY BudgetInit
<1>2. BudgetInv /\ [Next]_vars => BudgetInv'
  BY BudgetStep
<1>3. BudgetInv => RetryBudget
  BY DEF BudgetInv, Budget, InBudget, RetryBudget
<1>. QED
  BY <1>1, <1>2, <1>3, PTL DEF Spec

-----------------------------------------------------------------------------
(* The permanence of success. *)

LEMMA SuccessKept ==
  ASSUME ExecInv, [Next]_vars, NEW j \in Jobs,
         job[j].status = "succeeded", job'[j].status # "succeeded"
  PROVE  admin.job = j
<1>1. job \in [Jobs -> Row]
  BY DEF ExecInv, TypeInv, TypeOK
<1>2. ASSUME NEW s \in Slots, Terminate(s)
      PROVE  FALSE
  <2>1. Executing(s)
    BY <1>2 DEF Terminate, TerminalWrite, TerminalWriteFails, TerminalWriteAckLost,
       TerminalRewrite, TerminalRewriteFails, Executing
  <2>2. slot[s].job # j
    BY <2>1, Busy DEF ExecInv
  <2>. QED
    BY <1>1, <1>2, <2>2 DEF Terminate, TerminalWrite, TerminalWriteFails,
       TerminalWriteAckLost, TerminalRewrite, TerminalRewriteFails, Commit, rowVars
<1>3. ASSUME NEW k \in Jobs, Tick(k) \/ (\E l \in Lanes : RenewLease(l) /\ slot[l].job = k)
      PROVE  FALSE
  BY <1>1, <1>3 DEF Tick, PassThreshold, LeaseExpires, DelayElapses, RenewLease
<1>4. ASSUME NEW k \in Jobs, Enqueue(k) \/ (\E s \in Slots : Claim(s, k))
                             \/ (\E l \in Lanes : ClaimReplyLost(l, k))
      PROVE  FALSE
  BY <1>1, <1>4 DEF Enqueue, Claim, ClaimReplyLost, Claimable
<1>5. ASSUME ResetStuck
      PROVE  FALSE
  BY <1>1, <1>5 DEF ResetStuck, ReadExhausted, FailExhausted, RequeueStuck, Requeueable,
                    Stuck, rowVars
<1>6. ASSUME RetryAllFailed
      PROVE  FALSE
  BY <1>6 DEF RetryAllFailed, RetriedInBulk
<1>7. CASE AdminWrites
  BY <1>1, <1>7 DEF AdminWrites, rowVars
<1>8. ASSUME UNCHANGED job
      PROVE  FALSE
  BY <1>8
<1>9. CASE Next
  <2>1. ASSUME NEW l \in Lanes, RenewLease(l)
        PROVE  FALSE
    BY <1>3, <2>1, Busy DEF RenewLease, Slots, ExecInv
  <2>2. ASSUME NEW w \in Loops, LoopStep(w)
        PROVE  FALSE
    BY <1>2, <1>8, <2>2 DEF LoopStep, Slots, HandlerReturns, HandlerTimesOut, rowVars
  <2>3. ASSUME NEW l \in Lanes, LaneStep(l)
        PROVE  FALSE
    BY <1>2, <1>8, <2>3 DEF LaneStep, Slots, ComputeReturns, CheckHeld, RefuseResult,
       PersistNodeResult, rowVars
  <2>4. ASSUME \/ \E k \in Jobs : BackgroundHandlerReturns(k)
               \/ ServerCrash
               \/ \E n \in Nodes : NodeCrash(n)
               \/ \E op \in {"retry", "delete"}, k \in Jobs : AdminReads(op, k)
        PROVE  FALSE
    BY <1>8, <2>4 DEF BackgroundHandlerReturns, ServerCrash, NodeCrash, AdminReads, rowVars
  <2>. QED
    BY <1>3, <1>4, <1>5, <1>6, <1>7, <1>9, <2>1, <2>2, <2>3, <2>4 DEF Next, Slots
<1>10. CASE UNCHANGED vars
  BY <1>8, <1>10 DEF vars
<1>. QED
  BY <1>9, <1>10

(* In a calm environment only an admin undoes a recorded success: no late  *)
(* write of another execution, no reaper pass and no bulk retry does.      *)
THEOREM SuccessPermanent ==
  ASSUME Calm
  PROVE  Spec => SuccessStands
<1>1. Init => ExecInv
  BY ExecInit
<1>2. ExecInv /\ [Next]_vars => ExecInv'
  BY ExecStep
<1>3. ExecInv /\ [Next]_vars =>
        [\A j \in Jobs :
           job[j].status = "succeeded" /\ job'[j].status # "succeeded"
             => admin.job = j]_vars
  BY SuccessKept
<1>. QED
  BY <1>1, <1>2, <1>3, PTL DEF Spec, SuccessStands

-----------------------------------------------------------------------------
(* The truth of the settled events. *)

\* A row that is still to run has no announcement in force.
LEMMA Unannounced ==
  ASSUME ExecInv, AnnouncedTruly, NEW j \in Jobs, job[j].status \notin Terminal
  PROVE  announced[j] = "none"
BY DEF AnnouncedTruly, ExecInv, TypeInv, TypeOK

LEMMA AnnounceStep ==
  ASSUME Calm, "dbFault" \notin Hazards
  PROVE  ExecInv /\ AnnouncedTruly /\ [Next]_vars => AnnouncedTruly'
<1> SUFFICES ASSUME ExecInv, AnnouncedTruly, [Next]_vars,
                    NEW j \in Jobs, announced'[j] # "none"
             PROVE  job'[j].status = announced'[j]
  BY DEF AnnouncedTruly
<1>1. /\ job \in [Jobs -> Row] /\ slot \in [Slots -> SlotState]
      /\ announced \in [Jobs -> Terminal \cup {"none"}]
  BY DEF ExecInv, TypeInv, TypeOK
<1>2. ASSUME announced'[j] = announced[j], job'[j].status = job[j].status
      PROVE  job'[j].status = announced'[j]
  BY <1>2 DEF AnnouncedTruly
<1>3. ASSUME announced'[j] = announced[j], job[j].status \notin Terminal
      PROVE  FALSE
  BY <1>3, Unannounced
<1>4. ASSUME NEW s \in Slots, Terminate(s)
      PROVE  job'[j].status = announced'[j]
  <2> DEFINE k == slot[s].job
  <2>1. Executing(s)
    BY <1>4 DEF Terminate, TerminalWrite, TerminalWriteFails, TerminalWriteAckLost,
       TerminalRewrite, TerminalRewriteFails, Executing
  <2>2. k \in Jobs /\ job[k].status = "running" /\ slot[s].attempts >= 1
    BY <2>1, Busy DEF ExecInv, TypeInv, Charged
  <2>3. Commit(s) /\ Announce(s)
    BY <1>4, <2>2 DEF Calm, Terminate, TerminalWrite, TerminalWriteFails,
       TerminalWriteAckLost, TerminalRewrite, TerminalRewriteFails, Exists
  <2>4. job'[k].status = Outcome(slot[s])
    BY <1>1, <2>2, <2>3, WrittenRow DEF Commit
  <2>5. CASE j = k
    BY <1>1, <1>3, <2>2, <2>3, <2>4, <2>5 DEF Announce, Terminal
  <2>6. CASE j # k
    BY <1>1, <1>2, <2>3, <2>6 DEF Announce, Commit
  <2>. QED
    BY <2>5, <2>6
<1>5. ASSUME NEW k \in Jobs, Tick(k) \/ (\E l \in Lanes : RenewLease(l) /\ slot[l].job = k)
      PROVE  job'[j].status = announced'[j]
  <2>1. announced' = announced
    BY <1>5 DEF Tick, PassThreshold, LeaseExpires, DelayElapses, RenewLease
  <2>2. PICK row : /\ row.status = job[k].status
                   /\ job' = [job EXCEPT ![k] = row]
    <3>1. CASE Tick(k)
      BY <1>1, <3>1 DEF Tick, PassThreshold, LeaseExpires, DelayElapses, Row
    <3>2. CASE \E l \in Lanes : RenewLease(l) /\ slot[l].job = k
      <4>1. PICK row : row = [job[k] EXCEPT !.lease = "live"]
        OBVIOUS
      <4>2. job' = [job EXCEPT ![k] = row]
        BY <3>2, <4>1 DEF RenewLease
      <4>3. row.status = job[k].status
        BY <1>1, <4>1 DEF Row
      <4>. QED
        BY <4>2, <4>3
    <3>. QED
      BY <1>5, <3>1, <3>2
  <2>3. job'[j].status = job[j].status
    BY <1>1, <2>2
  <2>. QED
    BY <1>2, <2>1, <2>3
<1>6. ASSUME NEW k \in Jobs, Enqueue(k) \/ (\E s \in Slots : Claim(s, k))
                             \/ (\E l \in Lanes : ClaimReplyLost(l, k))
      PROVE  job'[j].status = announced'[j]
  <2>1. job[k].status \notin Terminal /\ announced' = announced
    BY <1>6 DEF Enqueue, Claim, ClaimReplyLost, Claimable, Terminal
  <2>2. j # k => job'[j] = job[j]
    BY <1>1, <1>6 DEF Enqueue, Claim, ClaimReplyLost
  <2>. QED
    BY <1>2, <1>3, <2>1, <2>2
<1>7. ASSUME ResetStuck
      PROVE  job'[j].status = announced'[j]
  <2>1. announced' = announced
    BY <1>7 DEF ResetStuck, ReadExhausted, FailExhausted, RequeueStuck
  <2>2. job'[j] = job[j] \/ job[j].status = "running"
    BY <1>1, <1>7 DEF ResetStuck, ReadExhausted, FailExhausted, RequeueStuck, Requeueable,
                      Stuck, rowVars
  <2>. QED
    BY <1>2, <1>3, <2>1, <2>2 DEF Terminal
<1>8. CASE AdminWrites \/ RetryAllFailed
  <2>1. job'[j] = job[j] /\ announced'[j] = announced[j]
    BY <1>1, <1>8 DEF AdminWrites, RetryAllFailed, rowVars
  <2>. QED
    BY <1>2, <2>1
<1>9. ASSUME UNCHANGED <<job, announced>>
      PROVE  job'[j].status = announced'[j]
  BY <1>2, <1>9
<1>10. CASE Next
  <2>1. ASSUME NEW l \in Lanes, RenewLease(l)
        PROVE  job'[j].status = announced'[j]
    BY <1>5, <2>1, Busy DEF RenewLease, Slots, ExecInv
  <2>2. ASSUME NEW w \in Loops, LoopStep(w)
        PROVE  job'[j].status = announced'[j]
    BY <1>4, <1>9, <2>2 DEF LoopStep, Slots, HandlerReturns, HandlerTimesOut, rowVars
  <2>3. ASSUME NEW l \in Lanes, LaneStep(l)
        PROVE  job'[j].status = announced'[j]
    BY <1>4, <1>9, <2>3 DEF LaneStep, Slots, ComputeReturns, CheckHeld, RefuseResult,
       PersistNodeResult, rowVars
  <2>4. ASSUME \/ \E k \in Jobs : BackgroundHandlerReturns(k)
               \/ ServerCrash
               \/ \E n \in Nodes : NodeCrash(n)
               \/ \E op \in {"retry", "delete"}, k \in Jobs : AdminReads(op, k)
        PROVE  job'[j].status = announced'[j]
    BY <1>9, <2>4 DEF BackgroundHandlerReturns, ServerCrash, NodeCrash, AdminReads, rowVars
  <2>. QED
    BY <1>5, <1>6, <1>7, <1>8, <1>10, <2>1, <2>2, <2>3, <2>4 DEF Next, Slots
<1>11. CASE UNCHANGED vars
  BY <1>9, <1>11 DEF vars
<1>. QED
  BY <1>10, <1>11

(* While terminal writes succeed, a settled event tells the truth: the row *)
(* is in the announced state and stays there until an admin resets it,     *)
(* although the event is emitted outside of the write and decided from a   *)
(* copy of the row.                                                        *)
THEOREM EventsTruthful ==
  ASSUME Calm, "dbFault" \notin Hazards
  PROVE  Spec => []AnnouncedTruly
<1>1. Init => ExecInv /\ AnnouncedTruly
  BY ExecInit DEF Init, AnnouncedTruly
<1>2. ExecInv /\ [Next]_vars => ExecInv'
  BY ExecStep
<1>3. ExecInv /\ AnnouncedTruly /\ [Next]_vars => AnnouncedTruly'
  BY AnnounceStep
<1>. QED
  BY <1>1, <1>2, <1>3, PTL DEF Spec

-----------------------------------------------------------------------------
(* Every instance of EnrichmentQueue in a calm environment implements       *)
(* JobContract.                                                             *)

\* An idle slot has forgotten its job.
Vacant == \A s \in Slots : slot[s].phase = "idle" => slot[s].job = None

RefInv == ExecInv /\ Vacant

(* The worker of a job in the contract, read off the slots alone.          *)
Working(f) ==
  /\ f \in [Jobs -> Slots \cup {None}]
  /\ \A j \in Jobs, s \in Slots : f[j] = s <=> slot[s].job = j

LEMMA WorkerOfSlots == RefInv => Working(worker)
<1> SUFFICES ASSUME RefInv PROVE Working(worker)
  OBVIOUS
<1>1. holder \in [Jobs -> Slots \cup {None}] /\ None \notin Jobs \cup Slots
  BY QueueAssumption DEF RefInv, ExecInv, TypeInv, TypeOK
<1>2. worker \in [Jobs -> Slots \cup {None}]
  BY <1>1 DEF worker
<1>3. ASSUME NEW j \in Jobs, NEW s \in Slots
      PROVE  worker[j] = s <=> slot[s].job = j
  <2>1. ASSUME slot[s].job = j
        PROVE  holder[j] = s
    <3>1. Executing(s)
      BY <1>1, <2>1 DEF RefInv, Vacant, Executing
    <3>. QED
      BY <2>1, <3>1, Busy DEF RefInv, ExecInv
  <2>. QED
    BY <1>1, <2>1 DEF worker
<1>. QED
  BY <1>2, <1>3 DEF Working

LEMMA VacantInit == Init => Vacant
BY DEF Init, Vacant, Idle

\* A slot that changes becomes Idle or is at work.
LEMMA VacantStep == RefInv /\ [Next]_vars => Vacant'
<1> SUFFICES ASSUME RefInv, [Next]_vars PROVE Vacant'
  OBVIOUS
<1>1. slot \in [Slots -> SlotState]
  BY DEF RefInv, ExecInv, TypeInv, TypeOK
<1>2. ASSUME NEW s \in Slots, NEW c, slot' = [slot EXCEPT ![s] = c],
             c.phase = "idle" => c.job = None
      PROVE  Vacant'
  BY <1>1, <1>2 DEF RefInv, Vacant
<1>3. ASSUME UNCHANGED slot
      PROVE  Vacant'
  BY <1>3 DEF RefInv, Vacant
<1>4. Idle.job = None /\ Idle.phase = "idle"
  BY DEF Idle
<1>5. ASSUME NEW s \in Slots
      PROVE  Resent(s) = Idle \/ Resent(s).phase = "submitting"
  <2> DEFINE m == Moved(slot[s], "submitting", "none")
  <2>1. m \in SlotState /\ m.phase = "submitting"
    BY <1>1, MovedState DEF Phases, Verdicts
  <2> HIDE DEF m
  <2>2. [m EXCEPT !.resends = m.resends + 1].phase = "submitting"
    BY <2>1 DEF SlotState
  <2>. QED
    BY <2>2 DEF Resent, m
<1>6. ASSUME NEW s \in Slots, Terminate(s)
      PROVE  Vacant'
  <2>1. CASE Return(s)
    <3>1. PICK c \in {Idle, Resent(s)} : slot' = [slot EXCEPT ![s] = c]
      BY <2>1 DEF Return, Returned
    <3>. QED
      BY <1>2, <1>4, <1>5, <3>1
  <2>2. CASE slot' = [slot EXCEPT ![s] = Moved(slot[s], "rewriting", slot[s].verdict)]
    <3>1. Moved(slot[s], "rewriting", slot[s].verdict).phase = "rewriting"
      BY <1>1 DEF Moved, SlotState
    <3>. QED
      BY <1>2, <2>2, <3>1
  <2>. QED
    BY <1>6, <2>1, <2>2 DEF Terminate, TerminalWrite, TerminalWriteFails,
       TerminalWriteAckLost, TerminalRewrite, TerminalRewriteFails
<1>7. ASSUME NEW w \in Loops, LoopStep(w)
      PROVE  Vacant'
  <2>1. w \in Slots
    BY DEF Slots
  <2>2. ASSUME NEW v, slot' = [slot EXCEPT ![w] = Moved(slot[w], "writing", v)]
        PROVE  Vacant'
    <3>1. Moved(slot[w], "writing", v).phase = "writing"
      BY <1>1, <2>1 DEF Moved, SlotState
    <3>. QED
      BY <1>2, <2>1, <2>2, <3>1
  <2>. QED
    BY <1>6, <1>7, <2>1, <2>2 DEF LoopStep, HandlerReturns, HandlerTimesOut
<1>8. ASSUME NEW l \in Lanes, LaneStep(l)
      PROVE  Vacant'
  <2>1. l \in Slots /\ slot[l] \in SlotState
    BY <1>1 DEF Slots
  <2>2. ASSUME NEW v, ComputeReturns(l, v)
        PROVE  Vacant'
    <3>1. [slot[l] EXCEPT !.phase = "submitting", !.sent = v].phase = "submitting"
      BY <2>1 DEF SlotState
    <3>. QED
      BY <1>2, <2>1, <2>2, <3>1 DEF ComputeReturns
  <2>3. ASSUME NEW v, slot' = [slot EXCEPT ![l] = Moved(slot[l], "writing", v)]
        PROVE  Vacant'
    <3>1. Moved(slot[l], "writing", v).phase = "writing"
      BY <2>1 DEF Moved, SlotState
    <3>. QED
      BY <1>2, <2>1, <2>3, <3>1
  <2>4. ASSUME CheckHeld(l)
        PROVE  Vacant'
    <3> DEFINE r == job[slot[l].job]
               p == IF slot[l].sent = "ok" THEN "checked" ELSE "writing"
               m == Moved(slot[l], p, slot[l].sent)
               c == [m EXCEPT !.attempts = r.attempts, !.hits = r.hits]
    <3>1. slot' = [slot EXCEPT ![l] = IF HeldBy(r, NodeOf[l]) THEN c ELSE Idle]
      BY <2>4 DEF CheckHeld
    <3>2. m \in SlotState /\ m.phase = p
      BY <2>1, MovedState DEF Phases, SlotState
    <3> HIDE DEF m
    <3>3. c.phase # "idle"
      BY <3>2 DEF SlotState
    <3> HIDE DEF c, r
    <3>. QED
      BY <1>2, <1>4, <2>1, <3>1, <3>3
  <2>5. ASSUME RefuseResult(l)
        PROVE  Vacant'
    BY <1>2, <1>4, <2>1, <2>5 DEF RefuseResult
  <2>. QED
    BY <1>6, <1>8, <2>1, <2>2, <2>3, <2>4, <2>5 DEF LaneStep, PersistNodeResult
<1>9. ASSUME ServerCrash \/ \E n \in Nodes : NodeCrash(n)
      PROVE  Vacant'
  <2>1. \A s \in Slots : slot'[s] \in {Idle, Resent(s), slot[s]}
    BY <1>9 DEF ServerCrash, NodeCrash
  <2>. QED
    BY <1>4, <1>5, <2>1 DEF RefInv, Vacant
<1>10. ASSUME NEW s \in Slots, NEW j \in Jobs, Claim(s, j)
       PROVE  Vacant'
  BY <1>2, <1>10 DEF Claim, AtWork
<1>11. CASE Next
  BY <1>3, <1>7, <1>8, <1>9, <1>10, <1>11
     DEF Next, Enqueue, Tick, PassThreshold, LeaseExpires, DelayElapses, ClaimReplyLost,
         BackgroundHandlerReturns, RenewLease, ResetStuck, ReadExhausted, FailExhausted,
         RequeueStuck, AdminReads, AdminWrites, RetryAllFailed
<1>12. CASE UNCHANGED vars
  BY <1>3, <1>12 DEF vars
<1>. QED
  BY <1>11, <1>12

-----------------------------------------------------------------------------
(* How the contract's variables move. *)

status == [j \in Jobs |-> job[j].status]

LEMMA SameWorkers ==
  ASSUME Working(worker), Working(worker)',
         \A s \in Slots : slot'[s].job = slot[s].job
  PROVE  worker' = worker
<1>1. ASSUME NEW j \in Jobs
      PROVE  worker'[j] = worker[j]
  BY DEF Working
<1>. QED
  BY <1>1 DEF Working

LEMMA FewerWorkers ==
  ASSUME Working(worker), Working(worker)', NEW W \in SUBSET Slots,
         \A s \in Slots : slot'[s].job = IF s \in W THEN None ELSE slot[s].job
  PROVE  worker' = [j \in Jobs |-> IF worker[j] \in W THEN None ELSE worker[j]]
<1>1. None \notin Jobs \cup Slots
  BY QueueAssumption
<1>2. ASSUME NEW j \in Jobs
      PROVE  worker'[j] = IF worker[j] \in W THEN None ELSE worker[j]
  BY <1>1 DEF Working
<1>. QED
  BY <1>2 DEF Working

LEMMA SameStatus ==
  ASSUME \A j \in Jobs : job'[j].status = job[j].status
  PROVE  status' = status
BY DEF status

\* A job in no slot has no worker.
LEMMA NoWorker ==
  ASSUME Working(worker), NEW j \in Jobs, \A s \in Slots : slot[s].job # j
  PROVE  worker[j] = None
BY DEF Working

LEMMA Unexecuted ==
  ASSUME RefInv, NEW j \in Jobs, job[j].status # "running" \/ Stuck(job[j])
  PROVE  \A s \in Slots : slot[s].job # j
BY QueueAssumption, Busy DEF RefInv, ExecInv, Vacant, Executing

-----------------------------------------------------------------------------
(* One lemma per group of actions.  Stays is a stutter of the contract.    *)

Stays == worker' = worker /\ status' = status

\* Both ends of a step satisfy the invariant.
Around == RefInv /\ RefInv' /\ Working(worker) /\ Working(worker)'

LEMMA Types ==
  ASSUME RefInv
  PROVE  job \in [Jobs -> Row] /\ slot \in [Slots -> SlotState]
BY DEF RefInv, ExecInv, TypeInv, TypeOK

LEMMA SubmitMap ==
  ASSUME Around, NEW j \in Jobs, Enqueue(j)
  PROVE  Contract!Submit(j)
<1>1. worker' = worker
  BY SameWorkers DEF Around, Enqueue
<1>2. job[j].status = "absent" /\ job' = [job EXCEPT ![j] = Fresh("pending")]
  BY DEF Enqueue
<1>3. [k \in Jobs |-> job'[k].status]
        = [[k \in Jobs |-> job[k].status] EXCEPT ![j] = "pending"]
  BY <1>2, Types, FreshRow DEF Around
<1>. QED
  BY <1>1, <1>2, <1>3 DEF Contract!Submit

LEMMA StartMap ==
  ASSUME Around, NEW s \in Slots, NEW j \in Jobs, Claim(s, j)
  PROVE  Contract!Start(j, s)
<1> DEFINE c == AtWork(j, job[j].attempts + 1, job[j].hits)
<1>1. /\ job[j].status = "pending"
      /\ job' = [job EXCEPT ![j] = Claimed(job[j], OwnerOf(s))]
      /\ slot' = [slot EXCEPT ![s] = c]
  BY DEF Claim, Claimable
<1>2. slot[s].job = None /\ None \notin Jobs \cup Slots
  BY QueueAssumption DEF Claim, Executing, Around, RefInv, Vacant
<1>3. c.job = j
  BY DEF AtWork
<1> HIDE DEF c
<1>4. \A t \in Slots : slot'[t].job = IF t = s THEN j ELSE slot[t].job
  BY <1>1, <1>3, Types DEF Around
<1>5. \A t \in Slots : slot[t].job # j
  BY <1>1, Unexecuted DEF Around
<1>6. \A k \in Jobs : worker[k] # s
  BY <1>2 DEF Around, Working
<1>7. \A k \in Jobs : worker'[k] = IF k = j THEN s ELSE worker[k]
  BY <1>2, <1>4, <1>5 DEF Around, Working
<1>8. worker' = [worker EXCEPT ![j] = s]
  BY <1>7 DEF Around, Working
<1>9. [k \in Jobs |-> job'[k].status]
        = [[k \in Jobs |-> job[k].status] EXCEPT ![j] = "running"]
  BY <1>1, Types, ClaimedRow, OwnerType DEF Around
<1>. QED
  BY <1>1, <1>6, <1>8, <1>9 DEF Contract!Start

LEMMA StartUnheardMap ==
  ASSUME Around, NEW l \in Lanes, NEW j \in Jobs, ClaimReplyLost(l, j)
  PROVE  Contract!Start(j, None)
<1>1. /\ job[j].status = "pending" /\ slot' = slot
      /\ job' = [job EXCEPT ![j] = Claimed(job[j], NodeOf[l])]
  BY DEF ClaimReplyLost, Claimable
<1>2. worker' = worker
  BY <1>1, SameWorkers DEF Around
<1>3. worker[j] = None
  BY <1>1, Unexecuted, NoWorker DEF Around
<1>4. worker' = [worker EXCEPT ![j] = None]
  BY <1>2, <1>3 DEF Around, Working
<1>5. NodeOf[l] \in Nodes
  BY QueueAssumption
<1>6. [k \in Jobs |-> job'[k].status]
        = [[k \in Jobs |-> job[k].status] EXCEPT ![j] = "running"]
  BY <1>1, <1>5, Types, ClaimedRow DEF Around
<1>. QED
  BY <1>1, <1>4, <1>6 DEF Contract!Start

\* A slot that stops without a write loses its job.
LEMMA LoseMap ==
  ASSUME Around, NEW W \in SUBSET Slots, UNCHANGED job,
         \A s \in Slots : slot'[s].job = IF s \in W THEN None ELSE slot[s].job
  PROVE  Contract!Lose(W)
BY FewerWorkers DEF Around, Contract!Lose

\* A terminal write: the worker finishes; a failed one: it keeps or loses the job.
LEMMA FinishMap ==
  ASSUME Calm, Around, NEW s \in Slots, Terminate(s)
  PROVE  \/ \E o \in {"pending", "succeeded", "failed"} : Contract!Finish(slot[s].job, o)
         \/ Contract!Lose({s})
         \/ Stays
<1> DEFINE j == slot[s].job
<1>1. Executing(s)
  BY DEF Terminate, TerminalWrite, TerminalWriteFails, TerminalWriteAckLost,
         TerminalRewrite, TerminalRewriteFails, Executing
<1>2. j \in Jobs /\ job[j].status = "running" /\ slot[s].attempts >= 1
  BY <1>1, Busy DEF Around, RefInv, ExecInv, TypeInv, Charged
<1>3. worker[j] = s /\ None \notin Slots
  BY <1>2, QueueAssumption DEF Around, Working
<1>4. CASE Return(s) /\ (UNCHANGED job \/ job' = [job EXCEPT ![j] = Written(job[j], slot[s])])
  <2>1. Resent(s) = Idle /\ Idle.job = None
    BY DEF Calm, Resent, Idle
  <2>2. slot' = [slot EXCEPT ![s] = Idle]
    BY <1>4, <2>1 DEF Return, Returned
  <2>3. \A t \in Slots : slot'[t].job = IF t \in {s} THEN None ELSE slot[t].job
    BY <2>1, <2>2, Types DEF Around
  <2>4. CASE UNCHANGED job
    BY <2>3, <2>4, LoseMap
  <2>5. CASE job' = [job EXCEPT ![j] = Written(job[j], slot[s])]
    <3>1. worker' = [k \in Jobs |-> IF worker[k] \in {s} THEN None ELSE worker[k]]
      BY <2>3, FewerWorkers DEF Around
    <3>2. \A k \in Jobs : worker[k] = s <=> k = j
      BY DEF Around, Working
    <3>3. worker' = [worker EXCEPT ![j] = None]
      <4>1. PICK k \in Jobs : k = j
        BY <1>2
      <4>2. PICK f \in [Jobs -> Slots \cup {None}] : f = worker
        BY DEF Around, Working
      <4>3. [i \in Jobs |-> IF f[i] \in {s} THEN None ELSE f[i]] = [f EXCEPT ![k] = None]
        BY <3>2, <4>1, <4>2
      <4>. QED
        BY <3>1, <4>1, <4>2, <4>3
    <3>4. PICK out \in {"pending", "succeeded", "failed"} : out = Outcome(slot[s])
      BY OutcomeType
    <3>5. Written(job[j], slot[s]).status = out
      BY <1>2, <3>4, Types, WrittenRow DEF Around
    <3>6. [k \in Jobs |-> job'[k].status]
            = [[k \in Jobs |-> job[k].status] EXCEPT ![j] = out]
      BY <1>2, <2>5, <3>5, Types DEF Around
    <3>7. Contract!Finish(slot[s].job, out)
      BY <1>2, <1>3, <3>3, <3>6 DEF Contract!Finish
    <3>. QED
      BY <3>7
  <2>. QED
    BY <1>4, <2>4, <2>5
<1>5. CASE UNCHANGED job /\ slot' = [slot EXCEPT ![s] = Moved(slot[s], "rewriting", slot[s].verdict)]
  <2>1. Moved(slot[s], "rewriting", slot[s].verdict).job = slot[s].job
    BY Types DEF Moved, SlotState, Around
  <2>2. \A t \in Slots : slot'[t].job = slot[t].job
    BY <1>5, <2>1, Types DEF Around
  <2>. QED
    BY <1>5, <2>2, SameWorkers DEF Around, Stays, status
<1>6. ~TerminalWriteAckLost(s)
  BY DEF Calm, TerminalWriteAckLost
<1>. QED
  BY <1>4, <1>5, <1>6 DEF Terminate, TerminalWrite, TerminalWriteFails,
     TerminalRewrite, TerminalRewriteFails, Commit, rowVars

\* The steps of an execution before its terminal write.
LEMMA ExecutionMap ==
  ASSUME Around,
         \/ \E w \in Loops, v \in {"ok", "error", "limited"} : HandlerReturns(w, v)
         \/ \E w \in Loops : HandlerTimesOut(w)
         \/ \E l \in Lanes, v \in {"ok", "error", "limited"} : ComputeReturns(l, v)
         \/ \E l \in Lanes : CheckHeld(l) \/ RefuseResult(l) \/ PersistNodeResult(l)
  PROVE  (\E W \in SUBSET Slots : Contract!Lose(W)) \/ Stays
<1>1. UNCHANGED job
  BY DEF HandlerReturns, HandlerTimesOut, ComputeReturns, CheckHeld, RefuseResult,
         PersistNodeResult, rowVars
<1>2. PICK s \in Slots, c \in SlotState :
        /\ slot' = [slot EXCEPT ![s] = c]
        /\ c.job = slot[s].job \/ c.job = None
  <2>1. ASSUME NEW s \in Slots, NEW v \in Verdicts,
               slot' = [slot EXCEPT ![s] = Moved(slot[s], "writing", v)]
        PROVE  \E c \in SlotState : /\ slot' = [slot EXCEPT ![s] = c]
                                    /\ c.job = slot[s].job \/ c.job = None
    <3>1. /\ Moved(slot[s], "writing", v) \in SlotState
          /\ Moved(slot[s], "writing", v).job = slot[s].job
      BY Types, MovedState DEF Around, Phases
    <3>. QED
      BY <2>1, <3>1
  <2>2. ASSUME NEW l \in Slots, NEW v \in Verdicts, ComputeReturns(l, v)
        PROVE  \E c \in SlotState : /\ slot' = [slot EXCEPT ![l] = c]
                                    /\ c.job = slot[l].job \/ c.job = None
    <3> DEFINE c == [slot[l] EXCEPT !.phase = "submitting", !.sent = v]
    <3>1. c \in SlotState /\ c.job = slot[l].job
      BY Types DEF Around, SlotState
    <3>. QED
      BY <2>2, <3>1 DEF ComputeReturns
  <2>3. ASSUME NEW l \in Slots, CheckHeld(l)
        PROVE  \E c \in SlotState : /\ slot' = [slot EXCEPT ![l] = c]
                                    /\ c.job = slot[l].job \/ c.job = None
    <3> DEFINE r == job[slot[l].job]
               p == IF slot[l].sent = "ok" THEN "checked" ELSE "writing"
               m == Moved(slot[l], p, slot[l].sent)
               c == [m EXCEPT !.attempts = r.attempts, !.hits = r.hits]
    <3>1. slot' = [slot EXCEPT ![l] = IF HeldBy(r, NodeOf[l]) THEN c ELSE Idle]
      BY <2>3 DEF CheckHeld
    <3>2. m \in SlotState /\ m.job = slot[l].job
      BY Types, MovedState DEF Around, Phases, SlotState
    <3>3. Executing(l)
      BY <2>3 DEF CheckHeld, Executing
    <3>4. r \in Row
      BY <3>3, Busy, Types DEF Around, RefInv, ExecInv
    <3> HIDE DEF m
    <3>5. c \in SlotState /\ c.job = m.job
      BY <3>2, <3>4 DEF SlotState, Row
    <3>6. Idle \in SlotState /\ Idle.job = None
      BY IdleState DEF Idle
    <3> HIDE DEF c, r
    <3>. QED
      BY <3>1, <3>2, <3>5, <3>6
  <2>4. Loops \cup Lanes = Slots /\ {"ok", "error", "limited"} \subseteq Verdicts
    BY DEF Slots, Verdicts
  <2>5. CASE \E l \in Lanes : CheckHeld(l)
    BY <2>3, <2>4, <2>5
  <2>6. CASE \E l \in Lanes, v \in {"ok", "error", "limited"} : ComputeReturns(l, v)
    BY <2>2, <2>4, <2>6
  <2>7. CASE \E s \in Slots, v \in Verdicts : slot' = [slot EXCEPT ![s] = Moved(slot[s], "writing", v)]
    BY <2>1, <2>7
  <2>8. CASE \E l \in Lanes : RefuseResult(l)
    <3>1. Idle \in SlotState /\ Idle.job = None
      BY IdleState DEF Idle
    <3>. QED
      BY <2>4, <2>8, <3>1 DEF RefuseResult
  <2>. QED
    BY <2>4, <2>5, <2>6, <2>7, <2>8 DEF HandlerReturns, HandlerTimesOut, PersistNodeResult
<1>3. slot'[s] = c /\ \A t \in Slots \ {s} : slot'[t] = slot[t]
  BY <1>2, Types DEF Around
<1>4. CASE c.job = slot[s].job
  <2>1. \A t \in Slots : slot'[t].job = slot[t].job
    BY <1>3, <1>4
  <2>. QED
    BY <1>1, <2>1, SameWorkers DEF Around, Stays, status
<1>5. CASE c.job = None
  <2>1. PICK W \in SUBSET Slots : W = {s}
    OBVIOUS
  <2>2. \A t \in Slots : slot'[t].job = IF t \in W THEN None ELSE slot[t].job
    BY <1>3, <1>5, <2>1
  <2>. QED
    BY <1>1, <2>2, LoseMap
<1>. QED
  BY <1>2, <1>4, <1>5

LEMMA CrashMap ==
  ASSUME Calm, Around, ServerCrash \/ \E n \in Nodes : NodeCrash(n)
  PROVE  \E W \in SUBSET Slots : Contract!Lose(W)
<1>1. UNCHANGED job /\ \A s \in Slots : slot'[s] \in {Idle, slot[s]}
  BY DEF ServerCrash, NodeCrash, Resent, Calm, rowVars
<1>2. PICK W \in SUBSET Slots : W = {s \in Slots : slot'[s] = Idle}
  OBVIOUS
<1>3. \A s \in Slots : slot'[s].job = IF s \in W THEN None ELSE slot[s].job
  BY <1>1, <1>2 DEF Idle
<1>. QED
  BY <1>1, <1>3, LoseMap

LEMMA TickMap ==
  ASSUME Around, NEW j \in Jobs,
         Tick(j) \/ (\E l \in Lanes : RenewLease(l) /\ slot[l].job = j)
  PROVE  Stays
<1>1. UNCHANGED slot
  BY DEF Tick, PassThreshold, LeaseExpires, DelayElapses, RenewLease
<1>2. \A k \in Jobs : job'[k].status = job[k].status
  <2>1. CASE Tick(j)
    BY <2>1, Types DEF Around, Row, Tick, PassThreshold, LeaseExpires, DelayElapses
  <2>2. ASSUME NEW l \in Lanes, RenewLease(l)
        PROVE  \A k \in Jobs : job'[k].status = job[k].status
    BY <2>2, Types DEF Around, Row, RenewLease
  <2>. QED
    BY <2>1, <2>2
<1>. QED
  BY <1>1, <1>2, SameWorkers, SameStatus DEF Around, Stays

\* The reaper recovers orphans only.
LEMMA RecoverMap ==
  ASSUME Around, UNCHANGED slot, NEW S \in SUBSET Jobs, NEW to,
         \A k \in S : Stuck(job[k]),
         \A k \in Jobs : job'[k].status = IF k \in S THEN to ELSE job[k].status
  PROVE  Contract!Recover(S, to)
<1>1. worker' = worker
  BY SameWorkers DEF Around
<1>2. \A k \in S : worker[k] = None /\ job[k].status = "running"
  BY Unexecuted, NoWorker DEF Around, Stuck
<1>. QED
  BY <1>1, <1>2 DEF Contract!Recover, Contract!Orphans, Contract!Move

LEMMA ReaperMap ==
  ASSUME Around, ResetStuck
  PROVE  (\E S \in SUBSET Jobs, to \in {"pending", "failed"} : Contract!Recover(S, to)) \/ Stays
<1>1. UNCHANGED slot
  BY DEF ResetStuck, ReadExhausted, FailExhausted, RequeueStuck
<1>2. CASE ReadExhausted
  BY <1>1, <1>2, SameWorkers DEF Around, Stays, status, ReadExhausted, rowVars
<1>3. CASE \E j \in Jobs : FailExhausted(j)
  <2>1. PICK j \in Jobs : FailExhausted(j)
    BY <1>3
  <2>2. Stuck(job[j]) /\ job' = [job EXCEPT ![j] = GivenUp(job[j])]
    BY <2>1 DEF FailExhausted, Around, RefInv, ExecInv, ReapedStuck, Stuck
  <2>3. GivenUp(job[j]).status = "failed"
    BY Types, ReapedRow DEF Around
  <2>4. PICK S \in SUBSET Jobs : S = {j}
    OBVIOUS
  <2>5. \A k \in Jobs : job'[k].status = IF k \in S THEN "failed" ELSE job[k].status
    BY <2>2, <2>3, <2>4, Types DEF Around
  <2>6. Contract!Recover(S, "failed")
    BY <1>1, <2>2, <2>4, <2>5, RecoverMap
  <2>. QED
    BY <2>6
<1>4. CASE RequeueStuck
  <2>1. PICK S \in SUBSET Jobs : S = {k \in Jobs : Requeueable(job[k])}
    OBVIOUS
  <2>2. \A k \in S : Stuck(job[k])
    BY <2>1 DEF Requeueable
  <2>3. \A k \in Jobs : job'[k].status = IF k \in S THEN "pending" ELSE job[k].status
    BY <1>4, <2>1, Types, ReapedRow DEF Around, RequeueStuck
  <2>4. Contract!Recover(S, "pending")
    BY <1>1, <2>2, <2>3, RecoverMap
  <2>. QED
    BY <2>4
<1>. QED
  BY <1>2, <1>3, <1>4 DEF ResetStuck

LEMMA ResetMap ==
  ASSUME Around, UNCHANGED slot, NEW S \in SUBSET Jobs, NEW to,
         \A k \in S : job[k].status \in {"pending", "succeeded", "failed"},
         \A k \in Jobs : job'[k].status = IF k \in S THEN to ELSE job[k].status
  PROVE  Contract!Reset(S, to)
<1>1. worker' = worker
  BY SameWorkers DEF Around
<1>. QED
  BY <1>1 DEF Contract!Reset, Contract!Move

LEMMA AdminMap ==
  ASSUME Calm, Around,
         \/ \E op \in {"retry", "delete"}, j \in Jobs : AdminReads(op, j)
         \/ AdminWrites
         \/ RetryAllFailed
  PROVE  (\E S \in SUBSET Jobs, to \in {"pending", "deleted"} : Contract!Reset(S, to)) \/ Stays
<1>1. UNCHANGED slot
  BY DEF AdminReads, AdminWrites, RetryAllFailed
<1>2. CASE UNCHANGED job
  BY <1>1, <1>2, SameWorkers DEF Around, Stays, status
<1>3. CASE AdminWrites /\ ~UNCHANGED job
  <2> DEFINE j == admin.job
  <2>1. PICK to \in {"pending", "deleted"} :
          job' = [job EXCEPT ![j] = Fresh(to)] /\ Exists(job[j]) /\ job[j].status # "running"
    BY <1>3 DEF AdminWrites, rowVars, Calm
  <2>2. PICK S \in SUBSET Jobs : S = {j} \cap Jobs
    OBVIOUS
  <2>3. \A k \in S : job[k].status \in {"pending", "succeeded", "failed"}
    BY <2>1, <2>2, Types DEF Around, Row, Exists, Terminal
  <2>4. \A k \in Jobs : job'[k].status = IF k \in S THEN to ELSE job[k].status
    BY <2>1, <2>2, Types, FreshRow DEF Around
  <2>5. Contract!Reset(S, to)
    BY <1>1, <2>3, <2>4, ResetMap
  <2>. QED
    BY <2>5
<1>4. CASE RetryAllFailed
  <2>1. PICK S \in SUBSET Jobs : S = {k \in Jobs : job[k].status = "failed"}
    OBVIOUS
  <2>2. \A k \in Jobs : job'[k].status = IF k \in S THEN "pending" ELSE job[k].status
    BY <1>4, <2>1, FreshRow DEF RetryAllFailed, RetriedInBulk
  <2>3. Contract!Reset(S, "pending")
    BY <1>1, <2>1, <2>2, ResetMap
  <2>. QED
    BY <2>3
<1>. QED
  BY <1>2, <1>3, <1>4 DEF AdminReads, rowVars

LEMMA StepMap ==
  ASSUME Calm, Around, [Next]_vars
  PROVE  Contract!Next \/ Stays
<1>1. CASE Next
  <2>1. ASSUME NEW s \in Slots, Terminate(s)
        PROVE  Contract!Next \/ Stays
    <3>1. slot[s].job \in Jobs
      BY <2>1, Busy DEF Around, RefInv, ExecInv, Terminate, TerminalWrite,
         TerminalWriteFails, TerminalWriteAckLost, TerminalRewrite, TerminalRewriteFails,
         Executing
    <3>. QED
      BY <2>1, <3>1, FinishMap DEF Contract!Next
  <2>2. ASSUME NEW l \in Lanes, RenewLease(l)
        PROVE  Stays
    <3>1. slot[l].job \in Jobs
      BY <2>2, Busy DEF RenewLease, Slots, Around, RefInv, ExecInv
    <3>. QED
      BY <2>2, <3>1, TickMap
  <2>3. ASSUME NEW j \in Jobs, BackgroundHandlerReturns(j)
        PROVE  Stays
    BY <2>3, SameWorkers DEF BackgroundHandlerReturns, rowVars, Around, Stays, status
  <2>4. ASSUME NEW w \in Loops, LoopStep(w)
        PROVE  Contract!Next \/ Stays
    BY <2>1, <2>4, ExecutionMap DEF LoopStep, Slots, Contract!Next
  <2>5. ASSUME NEW l \in Lanes, LaneStep(l)
        PROVE  Contract!Next \/ Stays
    BY <2>1, <2>5, ExecutionMap DEF LaneStep, Slots, Contract!Next
  <2>6. ASSUME NEW j \in Jobs, Enqueue(j)
        PROVE  Contract!Next
    BY <2>6, SubmitMap DEF Contract!Next
  <2>7. ASSUME NEW s \in Slots, NEW j \in Jobs, Claim(s, j)
        PROVE  Contract!Next
    BY <2>7, StartMap DEF Contract!Next
  <2>8. ASSUME NEW l \in Lanes, NEW j \in Jobs, ClaimReplyLost(l, j)
        PROVE  Contract!Next
    BY <2>8, StartUnheardMap DEF Contract!Next
  <2>9. ASSUME ServerCrash \/ \E n \in Nodes : NodeCrash(n)
        PROVE  Contract!Next
    BY <2>9, CrashMap DEF Contract!Next
  <2>10. ASSUME ResetStuck
         PROVE  Contract!Next \/ Stays
    BY <2>10, ReaperMap DEF Contract!Next
  <2>11. ASSUME \/ \E op \in {"retry", "delete"}, j \in Jobs : AdminReads(op, j)
                \/ AdminWrites
                \/ RetryAllFailed
         PROVE  Contract!Next \/ Stays
    BY <2>11, AdminMap DEF Contract!Next
  <2>. QED
    BY <1>1, <2>2, <2>3, <2>4, <2>5, <2>6, <2>7, <2>8, <2>9, <2>10, <2>11, TickMap DEF Next
<1>2. CASE UNCHANGED vars
  BY <1>2, SameWorkers DEF vars, Around, Stays, status
<1>. QED
  BY <1>1, <1>2

LEMMA InitMap == Init => Contract!Init
BY FreshRow DEF Init, Contract!Init, worker

(* In a calm environment the queue, with its copies of rows, its leases,   *)
(* its reaper and its crashes, is an implementation of the contract: one   *)
(* worker per job, settled by that worker or, once it is gone, by the      *)
(* queue, for good unless an admin acts.                                   *)
THEOREM QueueRefinesContract ==
  ASSUME Calm
  PROVE  Spec => ContractKept
<1>1. Init => RefInv
  BY ExecInit, VacantInit DEF RefInv
<1>2. RefInv /\ [Next]_vars => RefInv'
  BY ExecStep, VacantStep DEF RefInv
<1>3. RefInv => Working(worker)
  BY WorkerOfSlots
<1>4. /\ RefInv /\ RefInv' /\ Working(worker) /\ Working(worker)'
      /\ [Next]_vars
      => [Contract!Next]_(Contract!vars)
  BY StepMap DEF Around, Stays, status, Contract!vars
<1>. QED
  BY <1>1, <1>2, <1>3, <1>4, InitMap, PTL DEF Spec, ContractKept, Contract!Spec
=============================================================================
