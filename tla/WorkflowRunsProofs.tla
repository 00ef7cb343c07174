-------------------------- MODULE WorkflowRunsProofs --------------------------
(***************************************************************************)
(* Proofs about WorkflowRuns, for any number of items, runs, jobs, members *)
(* and replicas, every workflow and every environment.                     *)
(***************************************************************************)
EXTENDS WorkflowRuns, FiniteSetTheorems, WellFoundedInduction, TLAPS

-----------------------------------------------------------------------------
(* What is invariantly true of a process and of a run, whatever the faults.  *)

Asking == {"exclude", "approve", "cancel"}
AloneOps == {"idle", "create", "announce", "count", "read", "post"} \cup Asking
EvaluateOps == {"pending", "page", "decide", "read", "post"}
BatchOps == {"pending", "claim", "act", "close", "tally", "settle"}
ItemOps == {"pending", "lock", "append"}

\* The types of processes, and what they do
Typed(x, p) ==
  \/ x.type = "none" /\ x.op \in AloneOps /\ (p \in Jobs => x.op = "idle")
  \/ x.type = "evaluate" /\ x.op \in EvaluateOps /\ p \in Jobs
  \/ x.type = "batch" /\ x.op \in BatchOps /\ p \in Jobs
  \/ x.type = "item" /\ x.op \in ItemOps /\ p \in Jobs

\* x may be the state of process p when runs 1 .. l were created and M is media.
ProcOK(x, p, l, M) ==
  /\ Typed(x, p)
  /\ x.run \in 0 .. l
  /\ x.op \in {"idle", "create"} \/ (x.type = "item" /\ x.op # "append") => x.run = 0
  /\ x.run = 0 => x.op \in {"idle", "create"} \/ x.type = "item"
  /\ x.op = "pending" => x.tries < MaxAttempts
  /\ x.op \in {"act", "close", "tally"} => x.todo # {}
  /\ x.type = "batch" => x.todo \subseteq x.load
  /\ x.type = "item" => \E i \in Items : x.load = {i}
  /\ x.op = "close" => x.out # "none" /\ (x.out = "purged" => Least(x.todo) \notin M)
  /\ x.op = "idle" => x = Idle
  /\ x.op \in Asking => p \in Requests
  /\ x.op \in {"exclude", "approve"} => ~Bypasses
  /\ x.type = "evaluate" /\ x.op \in {"read", "post"} => Bypasses

Enriched == setting.trigger = "on_media_enriched"

RunOK(r) ==
  /\ r > last => run[r] = NoRow /\ \A i \in Items : item[r][i] = "none" /\ acted[r][i] = 0
  /\ \A i \in Items \ media : item[r][i] = "none"
  /\ run[r].due => Enriched
  /\ run[r].status = "awaiting_approval" => ~Bypasses
  /\ \A i \in Items : item[r][i] = "excluded" => ~Bypasses

\* A run is about to be created, and its place is taken.
Reserves(x) == x.op = "create" \/ (x.op = "append" /\ x.run = 0)
Reserving == {p \in Procs : Reserves(proc[p])}
Room == last + Cardinality(Reserving) <= NRuns

Base ==
  /\ TypeOK /\ acted \in [Runs -> [Items -> Nat]]
  /\ \A p \in Procs : ProcOK(proc[p], p, last, media)
  /\ \A r \in Runs : RunOK(r)
  /\ Room

-----------------------------------------------------------------------------
(* Least elements.                                                          *)

LEMMA LeastExists ==
  ASSUME NEW S \in SUBSET Nat, S # {}
  PROVE  \E m \in S : \A n \in S : m <= n
<1>1. PICK m \in S : \A n \in S : <<n, m>> \notin OpToRel(<, Nat)
  BY NatLessThanWellFounded, WFMin
<1>2. \A n \in S : ~(n < m)
  BY <1>1 DEF OpToRel
<1>. QED
  BY <1>2

LEMMA LeastIn ==
  ASSUME NEW S \in SUBSET Nat, S # {}
  PROVE  Least(S) \in S
BY LeastExists DEF Least

LEMMA LeastItem ==
  ASSUME NEW S \in SUBSET Items, S # {}
  PROVE  Least(S) \in S /\ Least(S) \in Items
<1>1. S \in SUBSET Nat
  BY WorkflowAssumption DEF Items
<1>. QED
  BY <1>1, LeastIn

LEMMA GreatestExists ==
  ASSUME NEW N \in Nat, NEW S \in SUBSET (1 .. N), S # {}
  PROVE  \E m \in S : \A n \in S : n <= m
<1> DEFINE Above == {n \in 0 .. N : \A s \in S : s <= n}
<1>1. N \in Above /\ Above \in SUBSET Nat /\ Above # {}
  OBVIOUS
<1>2. \E m \in Above : \A n \in Above : m <= n
  <2> HIDE DEF Above
  <2>. QED
    BY <1>1, LeastExists
<1>3. PICK m \in Above : \A n \in Above : m <= n
  BY <1>2
<1>4. m \in 0 .. N /\ \A s \in S : s <= m
  BY <1>3
<1>5. CASE m \in S
  BY <1>4, <1>5
<1>6. CASE m \notin S
  <2>1. PICK s \in S : TRUE
    OBVIOUS
  <2>2. m - 1 \in 0 .. N /\ \A t \in S : t <= m - 1
    BY <1>4, <1>6, <2>1
  <2>3. m - 1 \in Above
    BY <2>2
  <2>. QED
    BY <1>3, <1>4, <2>3
<1>. QED
  BY <1>5, <1>6

LEMMA FreeSlot ==
  ASSUME TypeOK, FreeSlots # {}
  PROVE  /\ Least(FreeSlots) \in Jobs /\ Least(FreeSlots) \in Procs
         /\ proc[Least(FreeSlots)].op = "idle"
BY LeastIn, WorkflowAssumption DEF FreeSlots, Procs

-----------------------------------------------------------------------------
(* The state of one process.                                                *)

Ops == AloneOps \cup EvaluateOps \cup BatchOps \cup ItemOps
Outs == Outcomes \cup {"none", "skipped"}

\* p becomes x, and all other processes are what they were.
Becomes(p, x) ==
  /\ proc' \in [Procs -> Proc] /\ proc'[p] = x
  /\ \A o \in Procs \ {p} : proc'[o] = proc[o]

\* Besides, the idle slot k becomes y.
Spawns(p, x, k, y) ==
  /\ k \in Jobs /\ k # p /\ proc[k] = Idle
  /\ proc' \in [Procs -> Proc] /\ proc'[p] = x /\ proc'[k] = y
  /\ \A o \in Procs \ {p, k} : proc'[o] = proc[o]

\* y is the same job as x, in an attempt of that number.
Like(y, x, tries) ==
  y.type = x.type /\ y.run = x.run /\ y.load = x.load /\ y.tries = tries

LEMMA ProcFacts ==
  ASSUME Base, NEW p \in Procs
  PROVE  /\ proc[p] \in Proc /\ ProcOK(proc[p], p, last, media)
         /\ proc[p].type \in {"none", "evaluate", "batch", "item"} /\ proc[p].op \in Ops
         /\ proc[p].run \in Runs \cup {0} /\ proc[p].load \in SUBSET Items
         /\ proc[p].todo \in SUBSET Items /\ proc[p].n \in Nat
         /\ proc[p].tries \in 0 .. MaxAttempts /\ proc[p].out \in Outs
         /\ last \in Nat /\ last <= NRuns
BY WorkflowAssumption DEF Base, TypeOK, Proc, Ops, Outs, AloneOps, EvaluateOps, BatchOps,
   ItemOps, Asking

LEMMA IdleFacts ==
  /\ Idle \in Proc /\ Idle.type = "none" /\ Idle.op = "idle" /\ Idle.run = 0
  /\ Idle.load = {} /\ Idle.todo = {} /\ Idle.n = 0 /\ Idle.tries = 0 /\ Idle.out = "none"
BY WorkflowAssumption DEF Idle, Proc

LEMMA JobFacts ==
  ASSUME NEW type \in {"evaluate", "batch", "item"}, NEW r \in Runs \cup {0},
         NEW L \in SUBSET Items, NEW x, x = Job(type, r, L)
  PROVE  /\ x \in Proc /\ x.type = type /\ x.op = "pending" /\ x.run = r /\ x.load = L
         /\ x.todo = {} /\ x.n = 0 /\ x.tries = 0 /\ x.out = "none"
<1>1. 0 \in 0 .. MaxAttempts
  BY WorkflowAssumption
<1>2. x = [type |-> type, op |-> "pending", run |-> r, load |-> L, todo |-> {},
           n |-> 0, tries |-> 0, out |-> "none"]
  BY DEF Job, Idle
<1>. QED
  BY <1>1, <1>2 DEF Proc

LEMMA BecomesPut ==
  ASSUME Base, NEW p \in Procs, NEW x \in Proc, proc' = [proc EXCEPT ![p] = x]
  PROVE  Becomes(p, x)
BY DEF Base, TypeOK, Becomes

LEMMA SpawnsPut ==
  ASSUME Base, NEW p \in Procs, NEW x \in Proc, NEW y \in Proc, proc[p].op # "idle",
         Enqueue(p, x, y)
  PROVE  \E k \in Jobs : Spawns(p, x, k, y)
<1>1. PICK k \in Jobs : k = Least(FreeSlots) /\ proc[k].op = "idle" /\ k \in Procs
  BY FreeSlot DEF Enqueue, Base
<1>2. proc[k] = Idle
  BY <1>1 DEF Base, ProcOK
<1>. QED
  BY <1>1, <1>2 DEF Enqueue, Base, TypeOK, Spawns

LEMMA LeavePut ==
  ASSUME Base, NEW p \in Procs, Leave(p)
  PROVE  Becomes(p, Idle)
BY BecomesPut, IdleFacts DEF Leave

LEMMA BecomePut ==
  ASSUME Base, NEW p \in Procs, NEW op \in Ops, Become(p, op)
  PROVE  \E x \in Proc : /\ Becomes(p, x) /\ Like(x, proc[p], proc[p].tries) /\ x.op = op
                         /\ x.todo = proc[p].todo /\ x.n = proc[p].n /\ x.out = proc[p].out
<1>1. PICK x : x = [proc[p] EXCEPT !.op = op]
  OBVIOUS
<1>2. /\ x \in Proc /\ Like(x, proc[p], proc[p].tries) /\ x.op = op
      /\ x.todo = proc[p].todo /\ x.n = proc[p].n /\ x.out = proc[p].out
  BY <1>1, ProcFacts DEF Proc, Like, Ops, AloneOps, EvaluateOps, BatchOps, ItemOps, Asking
<1>3. proc' = [proc EXCEPT ![p] = x]
  BY <1>1 DEF Become
<1>. QED
  BY <1>2, <1>3, BecomesPut

LEMMA BeganFacts ==
  ASSUME Base, NEW j \in Procs, NEW op \in Ops, proc[j].op = "pending", NEW x, x = Began(j, op)
  PROVE  /\ x \in Proc /\ Like(x, proc[j], proc[j].tries + 1)
         /\ x.op = op /\ x.todo = proc[j].load /\ x.n = 0 /\ x.out = proc[j].out
<1>1. proc[j].tries + 1 \in 0 .. MaxAttempts
  BY ProcFacts, WorkflowAssumption DEF ProcOK
<1>. QED
  BY <1>1, ProcFacts DEF Began, Proc, Like, Ops, AloneOps, EvaluateOps, BatchOps, ItemOps, Asking

\* What is left of a job that threw, crashed or is claimed a second time
LEMMA RequeuedFacts ==
  ASSUME Base, NEW j \in Jobs, proc[j].op \notin {"idle", "pending"}, NEW x, x = Requeued(j)
  PROVE  /\ x \in Proc
         /\ \/ x = Idle
            \/ /\ x.type = proc[j].type /\ x.op = "pending" /\ x.load = proc[j].load
               /\ x.run = IF proc[j].type = "item" THEN 0 ELSE proc[j].run
               /\ x.todo = {} /\ x.out = "none"
               /\ x.tries = proc[j].tries /\ proc[j].tries < MaxAttempts
<1>. USE ProcFacts, WorkflowAssumption
<1>1. j \in Procs /\ proc[j].type \in {"evaluate", "batch", "item"}
  BY DEF Procs, ProcOK, Typed
<1>2. CASE proc[j].tries = MaxAttempts
  BY <1>2, IdleFacts DEF Requeued
<1>3. CASE proc[j].tries # MaxAttempts
  <2> DEFINE r == IF proc[j].type = "item" THEN 0 ELSE proc[j].run
  <2>1. r \in Runs \cup {0}
    BY <1>1
  <2>2. PICK y : y = Job(proc[j].type, r, proc[j].load)
    OBVIOUS
  <2>3. /\ y \in Proc /\ y.type = proc[j].type /\ y.op = "pending" /\ y.run = r
        /\ y.load = proc[j].load /\ y.todo = {} /\ y.out = "none"
    <3>1. proc[j].load \in SUBSET Items
      BY <1>1
    <3>. HIDE DEF r
    <3>. QED
      BY <1>1, <2>1, <2>2, <3>1, JobFacts
  <2>4. Requeued(j) = [y EXCEPT !.tries = proc[j].tries]
    BY <1>3, <2>2 DEF Requeued
  <2>. QED
    BY <1>1, <1>3, <2>3, <2>4 DEF Proc
<1>. QED
  BY <1>2, <1>3


-----------------------------------------------------------------------------
(* What keeps Base: the processes, the tables, the room for runs.           *)

States == ItemDone \cup {"none", "matched", "excluded"}
Tables ==
  /\ run \in [Runs -> Row] /\ item \in [Runs -> [Items -> States]]
  /\ acted \in [Runs -> [Items -> Nat]]

\* The processes stay in order, and none of them newly reserves a run.
Walked ==
  /\ proc' \in [Procs -> Proc]
  /\ \A q \in Procs : ProcOK(proc'[q], q, last, media')
  /\ Reserving' \subseteq Reserving

\* p goes on as x.
Walks(p, x) ==
  Becomes(p, x) /\ x \in Proc /\ ProcOK(x, p, last, media) /\ (Reserves(x) => Reserves(proc[p]))

Frame == UNCHANGED <<setting, run, item, media, last, acted>>

LEMMA ProcStays ==
  ASSUME setting' = setting, NEW x, NEW p, NEW l \in Nat, NEW k \in Nat, l <= k,
         NEW M, NEW L, L \subseteq M, ProcOK(x, p, l, M)
  PROVE  ProcOK(x, p, k, L) /\ ProcOK(x, p, k, L)'
BY DEF ProcOK, Typed, Bypasses

LEMMA WalkedAlone ==
  ASSUME Base, NEW p \in Procs, NEW x, Walks(p, x), setting' = setting, media' = media
  PROVE  Walked
<1>1. \A q \in Procs : ProcOK(proc'[q], q, last, media')
  BY DEF Walks, Becomes, Base
<1>2. Reserving' \subseteq Reserving
  BY DEF Walks, Becomes, Reserving
<1>. QED
  BY <1>1, <1>2 DEF Walked, Walks, Becomes

LEMMA WalkedSpawn ==
  ASSUME Base, NEW p \in Procs, NEW x, NEW k, NEW y \in Proc, Spawns(p, x, k, y),
         ProcOK(x, p, last, media), ProcOK(y, k, last, media),
         Reserves(x) => Reserves(proc[p]), ~Reserves(y), media' = media
  PROVE  Walked
<1>1. \A q \in Procs : ProcOK(proc'[q], q, last, media')
  BY DEF Spawns, Base, Procs
<1>2. Reserving' \subseteq Reserving
  BY DEF Spawns, Reserving
<1>. QED
  BY <1>1, <1>2 DEF Walked, Spawns

LEMMA RoomStays ==
  ASSUME Base, NEW d \in {0, 1}, last' = last + d,
         NEW S, Reserving' \subseteq S, S \subseteq Procs,
         Cardinality(S) + d + last <= NRuns
  PROVE  Room'
<1>1. IsFiniteSet(S)
  BY FS_Subset, WorkflowAssumption
<1>2. Cardinality(Reserving') <= Cardinality(S) /\ Cardinality(Reserving') \in Nat
      /\ Cardinality(S) \in Nat
  BY <1>1, FS_Subset, FS_CardinalityType
<1>3. last \in Nat /\ NRuns \in Nat
  BY WorkflowAssumption DEF Base, TypeOK
<1>. QED
  BY <1>2, <1>3 DEF Room

LEMMA BaseKept ==
  ASSUME Base, Walked, last' = last, setting' = setting, media' \subseteq media,
         Tables', \A r \in Runs : RunOK(r)'
  PROVE  Base'
<1>1. Room'
  <2>1. Reserving \subseteq Procs /\ last + 0 = last
    BY WorkflowAssumption DEF Reserving, Base, TypeOK
  <2>2. Cardinality(Reserving) + 0 + last <= NRuns
    <3>1. IsFiniteSet(Reserving)
      BY <2>1, FS_Subset, WorkflowAssumption
    <3>2. Cardinality(Reserving) \in Nat /\ last \in Nat
      BY <3>1, FS_CardinalityType, WorkflowAssumption DEF Base, TypeOK
    <3>. QED
      BY <3>2 DEF Base, Room
  <2>3. last' = last + 0
    BY <2>1
  <2>. QED
    BY <2>1, <2>2, <2>3, RoomStays DEF Walked
<1>2. \A q \in Procs : ProcOK(proc[q], q, last, media)'
  BY DEF Walked, ProcOK, Typed, Bypasses
<1>3. TypeOK' /\ (acted \in [Runs -> [Items -> Nat]])'
  BY DEF Base, TypeOK, Tables, Walked, States
<1>. QED
  BY <1>1, <1>2, <1>3 DEF Base

LEMMA BaseFrame ==
  ASSUME Base, Walked, Frame
  PROVE  Base'
<1>1. Tables'
  BY DEF Base, TypeOK, Tables, Frame, States
<1>2. \A r \in Runs : RunOK(r)'
  BY DEF Base, RunOK, Frame, Enriched, Bypasses
<1>. QED
  BY <1>1, <1>2, BaseKept DEF Frame

-----------------------------------------------------------------------------
(* What each statement does to its process.                                 *)

Same(x, p) == x.type = proc[p].type /\ x.run = proc[p].run /\ x.load = proc[p].load

\* p goes from one statement to the next.
Moves(p, x, from, to) == Walks(p, x) /\ Same(x, p) /\ proc[p].op = from /\ x.op = to

LEMMA IdleOK ==
  ASSUME NEW p \in Procs, NEW l \in Nat, NEW M
  PROVE  ProcOK(Idle, p, l, M) /\ ~Reserves(Idle)
BY IdleFacts DEF ProcOK, Typed, AloneOps, Asking, Reserves

LEMMA LeaveDoes ==
  ASSUME Base, NEW p \in Procs, Leave(p)
  PROVE  Walks(p, Idle)
BY LeavePut, IdleOK, IdleFacts, ProcFacts DEF Walks

LEMMA BeginEvaluateDoes ==
  ASSUME Base, NEW j \in Jobs, BeginEvaluate(j)
  PROVE  /\ Frame /\ proc[j].type = "evaluate"
         /\ \/ Walks(j, Idle)
            \/ \E x : Moves(j, x, "pending", "page") /\ run[proc[j].run].status = "evaluating"
<1>. USE DEF BeginEvaluate
<1>1. j \in Procs /\ proc[j].type = "evaluate" /\ proc[j].op = "pending"
  BY DEF Claim, Procs
<1>2. CASE run[proc[j].run].status # "evaluating"
  BY <1>1, <1>2, LeaveDoes DEF Frame
<1>3. CASE run[proc[j].run].status = "evaluating"
  <2>1. PICK b : b = Began(j, "page")
    OBVIOUS
  <2>2. b \in Proc /\ Like(b, proc[j], proc[j].tries + 1) /\ b.op = "page" /\ b.out = proc[j].out
    BY <1>1, <2>1, BeganFacts DEF Ops, EvaluateOps
  <2>3. PICK x : x = [b EXCEPT !.todo = media]
    OBVIOUS
  <2>4. x \in Proc /\ Like(x, proc[j], proc[j].tries + 1) /\ x.op = "page"
    BY <2>2, <2>3 DEF Proc, Like, Base, TypeOK
  <2>5. Becomes(j, x)
    BY <1>1, <1>3, <2>1, <2>3, <2>4, BecomesPut
  <2>6. ProcOK(x, j, last, media)
    BY <1>1, <2>4, ProcFacts DEF ProcOK, Like, Typed, EvaluateOps, Asking
  <2>. QED
    BY <1>1, <1>3, <2>4, <2>5, <2>6 DEF Moves, Walks, Reserves, Same, Like, Frame
<1>. QED
  BY <1>1, <1>2, <1>3

LEMMA BeginBatchDoes ==
  ASSUME Base, NEW j \in Jobs, BeginBatch(j)
  PROVE  /\ Frame /\ proc[j].type = "batch"
         /\ \/ Walks(j, Idle)
            \/ \E x : /\ Moves(j, x, "pending", "claim") /\ x.todo = proc[j].load
                      /\ run[proc[j].run].status \notin {"none", "cancelled"}
<1>. USE DEF BeginBatch
<1>1. j \in Procs /\ proc[j].type = "batch" /\ proc[j].op = "pending"
  BY DEF Claim, Procs
<1>2. CASE run[proc[j].run].status \in {"none", "cancelled"}
  BY <1>1, <1>2, LeaveDoes DEF Frame
<1>3. CASE run[proc[j].run].status \notin {"none", "cancelled"}
  <2>1. PICK x : x = Began(j, "claim")
    OBVIOUS
  <2>2. /\ x \in Proc /\ Like(x, proc[j], proc[j].tries + 1) /\ x.op = "claim"
        /\ x.todo = proc[j].load
    BY <1>1, <2>1, BeganFacts DEF Ops, BatchOps
  <2>3. Becomes(j, x)
    BY <1>1, <1>3, <2>1, <2>2, BecomesPut
  <2>4. ProcOK(x, j, last, media)
    BY <1>1, <2>2, ProcFacts DEF ProcOK, Like, Typed, BatchOps, Asking
  <2>. QED
    BY <1>1, <1>3, <2>2, <2>3, <2>4 DEF Moves, Walks, Reserves, Same, Like, Frame
<1>. QED
  BY <1>1, <1>2, <1>3

LEMMA BeginItemDoes ==
  ASSUME Base, NEW j \in Jobs, BeginItem(j)
  PROVE  /\ Frame /\ proc[j].type = "item"
         /\ \/ Walks(j, Idle)
            \/ /\ \E x : Moves(j, x, "pending", "lock")
               /\ \A i \in proc[j].load : i \in media /\ ~Collected(i)
<1>. USE DEF BeginItem
<1>1. j \in Procs /\ proc[j].type = "item" /\ proc[j].op = "pending"
  BY DEF Claim, Procs
<1>2. CASE Leave(j)
  BY <1>1, <1>2, LeaveDoes DEF Frame
<1>3. CASE /\ Least(proc[j].load) \in media /\ ~Collected(Least(proc[j].load))
           /\ proc' = [proc EXCEPT ![j] = Began(j, "lock")]
  <2>1. PICK x : x = Began(j, "lock")
    OBVIOUS
  <2>2. x \in Proc /\ Like(x, proc[j], proc[j].tries + 1) /\ x.op = "lock"
    BY <1>1, <2>1, BeganFacts DEF Ops, ItemOps
  <2>3. Becomes(j, x)
    BY <1>1, <1>3, <2>1, <2>2, BecomesPut
  <2>4. ProcOK(x, j, last, media)
    BY <1>1, <2>2, ProcFacts DEF ProcOK, Like, Typed, ItemOps, Asking
  <2>5. \A i \in proc[j].load : i = Least(proc[j].load)
    <3>1. PICK i \in Items : proc[j].load = {i}
      BY <1>1, ProcFacts DEF ProcOK
    <3>2. Least({i}) \in {i}
      BY LeastItem
    <3>. QED
      BY <3>1, <3>2
  <2>. QED
    BY <1>1, <1>3, <2>2, <2>3, <2>4, <2>5 DEF Moves, Walks, Reserves, Same, Like, Frame
<1>. QED
  BY <1>1, <1>2, <1>3

LEMMA ReadMatchedDoes ==
  ASSUME Base, NEW p \in Procs, ReadMatched(p)
  PROVE  Frame /\ \E x : Moves(p, x, "read", "post") /\ x.todo = Matched(proc[p].run)
<1>1. PICK n \in BatchSizes :
        proc' = [proc EXCEPT ![p].op = "post", ![p].todo = Matched(proc[p].run), ![p].n = n]
  BY DEF ReadMatched
<1>2. PICK x : x = [proc[p] EXCEPT !.op = "post", !.todo = Matched(proc[p].run), !.n = n]
  OBVIOUS
<1>3. x \in Proc /\ Same(x, p) /\ x.op = "post" /\ x.todo = Matched(proc[p].run) /\ x.tries = proc[p].tries
  <2>1. Matched(proc[p].run) \in SUBSET Items /\ n \in Nat
    BY WorkflowAssumption DEF Matched
  <2>. QED
    BY <1>2, <2>1, ProcFacts DEF Proc, Same
<1>4. Becomes(p, x)
  BY <1>1, <1>2, <1>3, BecomesPut
<1>5. ProcOK(x, p, last, media)
  BY <1>3, ProcFacts DEF ReadMatched, ProcOK, Typed, AloneOps, EvaluateOps, Asking, Same,
     BatchOps, ItemOps
<1>. QED
  BY <1>3, <1>4, <1>5 DEF ReadMatched, Moves, Walks, Reserves, Frame

LEMMA PostedDoes ==
  ASSUME Base, NEW p \in Procs, Posted(p)
  PROVE  Frame /\ Walks(p, Idle) /\ proc[p].op = "post"
BY LeaveDoes DEF Posted, Frame

LEMMA PostBatchDoes ==
  ASSUME Base, NEW p \in Procs, PostBatch(p)
  PROVE  /\ Frame /\ Walked /\ proc[p].op = "post"
         /\ \E x, y, k :
              /\ Spawns(p, x, k, y) /\ Same(x, p) /\ x.op = "post"
              /\ y.type = "batch" /\ y.op = "pending" /\ y.run = proc[p].run /\ y.todo = {}
              /\ y.load \subseteq proc[p].todo /\ x.todo = proc[p].todo \ y.load
<1>1. PICK c : c = Chunk(proc[p].todo, proc[p].n)
  OBVIOUS
<1>2. c \subseteq proc[p].todo /\ proc[p].op = "post"
  BY <1>1 DEF Chunk, PostBatch
<1>3. /\ proc[p].type \in {"none", "evaluate"} /\ proc[p].run \in Runs /\ proc[p].run \in 0 .. last
      /\ proc[p].run # 0
  BY <1>2, ProcFacts DEF ProcOK, Typed, BatchOps, ItemOps
<1>4. PICK x, y : x = [proc[p] EXCEPT !.todo = @ \ c] /\ y = Job("batch", proc[p].run, c)
  OBVIOUS
<1>5. x \in Proc /\ Same(x, p) /\ x.op = "post" /\ x.todo = proc[p].todo \ c
  BY <1>2, <1>4, ProcFacts DEF Proc, Same
<1>6. /\ y \in Proc /\ y.type = "batch" /\ y.op = "pending" /\ y.run = proc[p].run
      /\ y.load = c /\ y.todo = {} /\ y.tries = 0
  <2>1. c \in SUBSET Items
    BY <1>2, ProcFacts
  <2>. QED
    BY <1>3, <1>4, <2>1, JobFacts
<1>7. PICK k \in Jobs : Spawns(p, x, k, y)
  <2>1. Enqueue(p, x, y)
    BY <1>1, <1>4 DEF PostBatch
  <2>. QED
    BY <1>2, <1>5, <1>6, <2>1, SpawnsPut
<1>8. ProcOK(x, p, last, media) /\ ~Reserves(x)
  BY <1>2, <1>5, ProcFacts DEF ProcOK, Same, Typed, Asking, Reserves
<1>9. ProcOK(y, k, last, media) /\ ~Reserves(y)
  BY <1>3, <1>6, WorkflowAssumption DEF ProcOK, Typed, BatchOps, Asking, Reserves
<1>10. Frame
  BY DEF PostBatch, Frame
<1>11. Walked
  BY <1>6, <1>7, <1>8, <1>9, <1>10, WalkedSpawn DEF Frame
<1>. QED
  BY <1>2, <1>5, <1>6, <1>7, <1>10, <1>11

\* A statement that goes on to the next, and keeps everything else.
LEMMA GoesOn ==
  ASSUME Base, NEW p \in Procs, NEW op \in Ops, Become(p, op),
         NEW from, proc[p].op = from, from # "pending",
         ProcOK([proc[p] EXCEPT !.op = op], p, last, media),
         ~Reserves([proc[p] EXCEPT !.op = op])
  PROVE  \E x : /\ Moves(p, x, from, op)
                /\ x.todo = proc[p].todo /\ x.n = proc[p].n /\ x.out = proc[p].out
<1>1. PICK x : x = [proc[p] EXCEPT !.op = op]
  OBVIOUS
<1>2. x \in Proc /\ Same(x, p) /\ x.op = op
      /\ x.todo = proc[p].todo /\ x.n = proc[p].n /\ x.out = proc[p].out
  BY <1>1, ProcFacts DEF Proc, Same, Ops, AloneOps, EvaluateOps, BatchOps, ItemOps, Asking
<1>3. Becomes(p, x)
  BY <1>1, <1>2, BecomesPut DEF Become
<1>. QED
  BY <1>1, <1>2, <1>3 DEF Moves, Walks

LEMMA ClaimItemDoes ==
  ASSUME Base, NEW j \in Jobs, ClaimItem(j)
  PROVE  /\ Frame /\ proc[j].type = "batch" /\ proc[j].op = "claim" /\ proc[j].todo # {}
         /\ \/ Walks(j, Idle) /\ run[proc[j].run].status = "cancelled"
            \/ \E x : /\ Moves(j, x, "claim", "act") /\ x.todo = proc[j].todo
                      /\ Claimable(proc[j].run, Least(proc[j].todo))
            \/ \E x : /\ Moves(j, x, "claim", "claim")
                      /\ x.todo = proc[j].todo \ {Least(proc[j].todo)}
                      /\ ~Claimable(proc[j].run, Least(proc[j].todo))
<1>. USE DEF ClaimItem
<1>1. j \in Procs /\ proc[j].type = "batch" /\ proc[j].op = "claim" /\ proc[j].todo # {}
  BY ProcFacts DEF Procs, ProcOK, Typed, AloneOps, EvaluateOps, ItemOps, Asking
<1>2. CASE Leave(j) /\ run[proc[j].run].status = "cancelled"
  BY <1>1, <1>2, LeaveDoes DEF Frame
<1>3. CASE Become(j, "act") /\ Claimable(proc[j].run, Least(proc[j].todo))
  <2>1. PICK x : x = [proc[j] EXCEPT !.op = "act"]
    OBVIOUS
  <2>2. ProcOK(x, j, last, media) /\ ~Reserves(x)
    BY <1>1, <2>1, ProcFacts DEF ProcOK, Typed, BatchOps, Asking, Reserves, Proc
  <2>3. "act" \in Ops
    BY DEF Ops, BatchOps
  <2>. QED
    BY <1>1, <1>3, <2>1, <2>2, <2>3, GoesOn DEF Frame
<1>4. CASE /\ proc' = [proc EXCEPT ![j].todo = @ \ {Least(proc[j].todo)}, ![j].n = @ + 1]
           /\ ~Claimable(proc[j].run, Least(proc[j].todo))
  <2>. PICK t, n : t = proc[j].todo \ {Least(proc[j].todo)} /\ n = proc[j].n + 1
    OBVIOUS
  <2>1. PICK x : x = [proc[j] EXCEPT !.todo = t, !.n = n]
    OBVIOUS
  <2>2. t \in SUBSET Items /\ n \in Nat /\ t \subseteq proc[j].todo
    BY <1>1, ProcFacts
  <2>3. x \in Proc /\ Same(x, j) /\ x.op = "claim" /\ x.tries = proc[j].tries /\ x.todo = t
    BY <1>1, <2>1, <2>2, ProcFacts DEF Proc, Same
  <2>4. proc' = [proc EXCEPT ![j] = x]
    BY <1>4, <2>1
  <2>5. Becomes(j, x)
    BY <1>1, <2>3, <2>4, BecomesPut
  <2>6. ProcOK(x, j, last, media) /\ ~Reserves(x)
    BY <1>1, <2>2, <2>3, ProcFacts DEF ProcOK, Same, Typed, BatchOps, Asking, Reserves
  <2>. QED
    BY <1>1, <1>4, <2>3, <2>5, <2>6 DEF Moves, Walks, Frame
<1>5. \/ Leave(j) /\ run[proc[j].run].status = "cancelled"
      \/ Become(j, "act") /\ Claimable(proc[j].run, Least(proc[j].todo))
      \/ /\ proc' = [proc EXCEPT ![j].todo = @ \ {Least(proc[j].todo)}, ![j].n = @ + 1]
         /\ ~Claimable(proc[j].run, Least(proc[j].todo))
  BY DEF ClaimItem
<1>. QED
  BY <1>2, <1>3, <1>4, <1>5

LEMMA BatchFacts ==
  ASSUME Base, NEW j \in Jobs, proc[j].op \in {"claim", "act", "close", "tally", "settle"}
  PROVE  /\ j \in Procs /\ proc[j].type = "batch"
         /\ proc[j].run \in Runs /\ proc[j].run <= last
BY ProcFacts DEF Procs, ProcOK, Typed, AloneOps, EvaluateOps, ItemOps, Asking

LEMMA TodoFacts ==
  ASSUME Base, NEW j \in Procs, proc[j].todo # {}
  PROVE  Least(proc[j].todo) \in proc[j].todo /\ Least(proc[j].todo) \in Items
BY ProcFacts, LeastItem

LEMMA ActDoes ==
  ASSUME Base, NEW j \in Jobs, Act(j)
  PROVE  /\ UNCHANGED <<setting, run, last>> /\ proc[j].type = "batch" /\ proc[j].op = "act"
         /\ media' \subseteq media
         /\ \E x, i :
              /\ i = Least(proc[j].todo) /\ i \in proc[j].todo /\ i \in Items
              /\ Becomes(j, x) /\ Same(x, j) /\ x.op = "close" /\ x.todo = proc[j].todo
              /\ ProcOK(x, j, last, media')
              /\ i \notin media => x.out = "skipped"
              /\ \/ x.out = "skipped" /\ acted' = acted
                 \/ acted' = [acted EXCEPT ![proc[j].run][i] = @ + 1]
              /\ \/ x.out # "purged" /\ UNCHANGED <<media, item>>
                 \/ x.out = "purged" /\ ~Bypasses /\ Purge(i)
<1>1. j \in Procs /\ proc[j].type = "batch" /\ proc[j].op = "act" /\ proc[j].todo # {}
  BY BatchFacts, ProcFacts DEF Act, ProcOK
<1>2. PICK i : i = Least(proc[j].todo)
  OBVIOUS
<1>3. i \in proc[j].todo /\ i \in Items
  BY <1>1, <1>2, TodoFacts
<1>4. PICK o \in Outcomes \cup {"skipped"} :
         /\ i \notin media => o = "skipped"
         /\ proc' = [proc EXCEPT ![j].op = "close", ![j].out = o]
         /\ IF o = "skipped" THEN UNCHANGED acted
            ELSE acted' = [acted EXCEPT ![proc[j].run][i] = @ + 1]
         /\ IF o = "purged" THEN ~Bypasses /\ Purge(i) ELSE UNCHANGED <<media, item>>
  BY <1>2 DEF Act
<1>5. PICK x : x = [proc[j] EXCEPT !.op = "close", !.out = o]
  OBVIOUS
<1>6. /\ x \in Proc /\ Same(x, j) /\ x.op = "close" /\ x.out = o /\ x.todo = proc[j].todo
      /\ x.tries = proc[j].tries
  BY <1>1, <1>5, ProcFacts DEF Proc, Same
<1>7. Becomes(j, x)
  BY <1>1, <1>4, <1>5, <1>6, BecomesPut
<1>8. o # "none"
  BY WorkflowAssumption
<1>9. o = "purged" => i \notin media'
  BY <1>4 DEF Purge
<1>10. ProcOK(x, j, last, media')
  BY <1>1, <1>2, <1>6, <1>8, <1>9, ProcFacts DEF ProcOK, Same, Typed, BatchOps, Asking
<1>11. media' \subseteq media
  BY <1>4 DEF Purge
<1>12. UNCHANGED <<setting, run, last>>
  BY DEF Act
<1>13. \/ x.out = "skipped" /\ acted' = acted
       \/ acted' = [acted EXCEPT ![proc[j].run][i] = @ + 1]
  BY <1>4, <1>6
<1>14. \/ x.out # "purged" /\ UNCHANGED <<media, item>>
       \/ x.out = "purged" /\ ~Bypasses /\ Purge(i)
  BY <1>4, <1>6
<1>15. i \notin media => x.out = "skipped"
  BY <1>4, <1>6
<1>. QED
  BY <1>1, <1>2, <1>3, <1>6, <1>7, <1>10, <1>11, <1>12, <1>13, <1>14, <1>15

LEMMA CloseItemDoes ==
  ASSUME Base, NEW j \in Jobs, CloseItem(j)
  PROVE  /\ UNCHANGED <<setting, run, media, last, acted>> /\ proc[j].type = "batch"
         /\ \E x : Moves(j, x, "close", "tally") /\ x.todo = proc[j].todo
         /\ \E i \in Items : /\ i = Least(proc[j].todo) /\ i \in proc[j].todo
                             /\ \/ item' = item
                                \/ /\ Claimable(proc[j].run, i)
                                   /\ item' = [item EXCEPT ![proc[j].run][i] = proc[j].out]
<1>1. j \in Procs /\ proc[j].type = "batch" /\ proc[j].op = "close" /\ proc[j].todo # {}
  BY BatchFacts, ProcFacts DEF CloseItem, ProcOK
<1>2. PICK x : x = [proc[j] EXCEPT !.op = "tally"]
  OBVIOUS
<1>3. ProcOK(x, j, last, media) /\ ~Reserves(x)
  BY <1>1, <1>2, ProcFacts DEF ProcOK, Typed, BatchOps, Asking, Reserves, Proc
<1>4. "tally" \in Ops /\ Become(j, "tally")
  BY DEF Ops, BatchOps, CloseItem
<1>5. \E y : Moves(j, y, "close", "tally") /\ y.todo = proc[j].todo
  BY <1>1, <1>2, <1>3, <1>4, GoesOn
<1>6. PICK i : i = Least(proc[j].todo)
  OBVIOUS
<1>7. i \in Items /\ i \in proc[j].todo
  BY <1>1, <1>6, TodoFacts
<1>8. \/ item' = item
      \/ Claimable(proc[j].run, i) /\ item' = [item EXCEPT ![proc[j].run][i] = proc[j].out]
  BY <1>6 DEF CloseItem
<1>9. UNCHANGED <<setting, run, media, last, acted>>
  BY DEF CloseItem
<1>. QED
  BY <1>1, <1>5, <1>6, <1>7, <1>8, <1>9

LEMMA TallyDoes ==
  ASSUME Base, NEW j \in Jobs, Tally(j)
  PROVE  /\ UNCHANGED <<setting, item, media, last, acted>> /\ proc[j].type = "batch"
         /\ Exists(proc[j].run) /\ run' = [run EXCEPT ![proc[j].run] = Counted(@, proc[j].out)]
         /\ \E x : Moves(j, x, "tally", "claim") /\ x.todo = proc[j].todo \ {Least(proc[j].todo)}
<1>1. j \in Procs /\ proc[j].type = "batch" /\ proc[j].op = "tally"
  BY BatchFacts DEF Tally
<1>2. PICK t, n : t = proc[j].todo \ {Least(proc[j].todo)} /\ n = proc[j].n + 1
  OBVIOUS
<1>3. t \in SUBSET Items /\ n \in Nat /\ t \subseteq proc[j].todo
  BY <1>1, <1>2, ProcFacts
<1>4. PICK x : x = [proc[j] EXCEPT !.op = "claim", !.todo = t, !.n = n, !.out = "none"]
  OBVIOUS
<1>5. x \in Proc /\ Same(x, j) /\ x.op = "claim" /\ x.tries = proc[j].tries /\ x.todo = t
  BY <1>1, <1>3, <1>4, ProcFacts DEF Proc, Same
<1>6. proc' = [proc EXCEPT ![j] = x]
  BY <1>2, <1>4 DEF Tally
<1>7. Becomes(j, x)
  BY <1>1, <1>5, <1>6, BecomesPut
<1>8. ProcOK(x, j, last, media) /\ ~Reserves(x)
  BY <1>1, <1>3, <1>5, ProcFacts DEF ProcOK, Same, Typed, BatchOps, Asking, Reserves
<1>9. /\ UNCHANGED <<setting, item, media, last, acted>>
      /\ Exists(proc[j].run) /\ run' = [run EXCEPT ![proc[j].run] = Counted(@, proc[j].out)]
  BY DEF Tally
<1>. QED
  BY <1>1, <1>2, <1>5, <1>7, <1>8, <1>9 DEF Moves, Walks

LEMMA FinishBatchDoes ==
  ASSUME Base, NEW j \in Jobs, FinishBatch(j)
  PROVE  /\ Frame /\ proc[j].type = "batch" /\ proc[j].op = "claim" /\ proc[j].todo = {}
         /\ \/ Walks(j, Idle)
            \/ \E x : Moves(j, x, "claim", "settle") /\ Drained(proc[j].run)
<1>. USE DEF FinishBatch
<1>1. j \in Procs /\ proc[j].type = "batch" /\ proc[j].op = "claim" /\ proc[j].todo = {}
  BY BatchFacts
<1>2. CASE Leave(j)
  BY <1>1, <1>2, LeaveDoes DEF Frame
<1>3. CASE Become(j, "settle") /\ Drained(proc[j].run)
  <2>1. PICK x : x = [proc[j] EXCEPT !.op = "settle"]
    OBVIOUS
  <2>2. ProcOK(x, j, last, media) /\ ~Reserves(x)
    BY <1>1, <2>1, ProcFacts DEF ProcOK, Typed, BatchOps, Asking, Reserves, Proc
  <2>3. "settle" \in Ops
    BY DEF Ops, BatchOps
  <2>. QED
    BY <1>1, <1>3, <2>1, <2>2, <2>3, GoesOn DEF Frame
<1>. QED
  BY <1>2, <1>3

LEMMA SettleRunDoes ==
  ASSUME Base, NEW j \in Jobs, SettleRun(j)
  PROVE  /\ UNCHANGED <<setting, item, media, last, acted>>
         /\ proc[j].type = "batch" /\ proc[j].op = "settle" /\ Walks(j, Idle)
         /\ \/ run[proc[j].run].status # "running" /\ run' = run
            \/ /\ run[proc[j].run].status = "running"
               /\ \/ ~Erred(proc[j].run) /\ Write(proc[j].run, "completed")
                  \/ Erred(proc[j].run) /\ Write(proc[j].run, "completed_with_errors")
BY BatchFacts, LeaveDoes DEF SettleRun

LEMMA ItemFacts ==
  ASSUME Base, NEW j \in Jobs, proc[j].op \in {"lock", "append"}
  PROVE  /\ j \in Procs /\ proc[j].type = "item"
         /\ \E i \in Items : proc[j].load = {i} /\ Least(proc[j].load) = i
<1>1. j \in Procs /\ proc[j].type = "item"
  BY ProcFacts DEF Procs, ProcOK, Typed, AloneOps, EvaluateOps, BatchOps, Asking
<1>2. PICK i \in Items : proc[j].load = {i}
  BY <1>1, ProcFacts DEF ProcOK
<1>3. Least({i}) \in {i}
  BY LeastItem
<1>. QED
  BY <1>1, <1>2, <1>3

LEMMA LockWorkflowDoes ==
  ASSUME Base, NEW j \in Jobs, LockWorkflow(j)
  PROVE  /\ Frame /\ proc[j].type = "item" /\ proc[j].op = "lock" /\ Unlocked
         /\ \E x : /\ Becomes(j, x) /\ ProcOK(x, j, last, media)
                   /\ x.type = "item" /\ x.op = "append" /\ x.load = proc[j].load
                   /\ \/ x.run = 0 /\ OpenRuns = {} /\ RunsLeft
                      \/ x.run \in OpenRuns
<1>1. j \in Procs /\ proc[j].type = "item" /\ proc[j].op = "lock"
  BY ItemFacts DEF LockWorkflow
<1>2. PICK m : m = Receiver
  OBVIOUS
<1>3. (OpenRuns = {} /\ m = 0) \/ m \in OpenRuns
  <2>1. CASE OpenRuns # {}
    <3>1. OpenRuns \in SUBSET (1 .. NRuns) /\ NRuns \in Nat
      BY WorkflowAssumption DEF OpenRuns, Runs
    <3>2. \E q \in OpenRuns : \A s \in OpenRuns : s <= q
      BY <2>1, <3>1, GreatestExists
    <3>. QED
      BY <1>2, <2>1, <3>2 DEF Receiver
  <2>. QED
    BY <1>2, <2>1 DEF Receiver
<1>4. m \in 0 .. last /\ m \in Runs \cup {0}
  <2>1. \A q \in Runs : q > last => run[q].status = "none"
    BY DEF Base, RunOK, NoRow
  <2>2. \A q \in OpenRuns : q \in Runs /\ q <= last
    BY <2>1, ProcFacts, <1>1 DEF OpenRuns, Runs
  <2>. QED
    BY <1>1, <1>3, <2>2, ProcFacts DEF Runs
<1>5. PICK x : x = [proc[j] EXCEPT !.op = "append", !.run = m]
  OBVIOUS
<1>6. /\ x \in Proc /\ x.type = "item" /\ x.op = "append" /\ x.load = proc[j].load /\ x.run = m
      /\ x.tries = proc[j].tries
  BY <1>1, <1>4, <1>5, ProcFacts DEF Proc
<1>7. proc' = [proc EXCEPT ![j] = x]
  BY <1>2, <1>5 DEF LockWorkflow
<1>8. Becomes(j, x)
  BY <1>1, <1>6, <1>7, BecomesPut
<1>9. ProcOK(x, j, last, media)
  BY <1>1, <1>4, <1>6, ProcFacts DEF ProcOK, Typed, ItemOps, Asking
<1>10. Unlocked /\ (OpenRuns # {} \/ RunsLeft) /\ Frame
  BY DEF LockWorkflow, Frame
<1>. QED
  BY <1>1, <1>3, <1>6, <1>8, <1>9, <1>10

LEMMA AppendDoes ==
  ASSUME Base, NEW j \in Jobs, Append(j)
  PROVE  /\ UNCHANGED <<setting, media, acted>> /\ Becomes(j, Idle)
         /\ proc[j].type = "item" /\ proc[j].op = "append"
         /\ \/ UNCHANGED <<run, item, last>>
            \/ \E i \in Items :
                 /\ proc[j].load = {i} /\ i \in media
                 /\ \/ /\ proc[j].run \in Runs /\ proc[j].run <= last
                       /\ item[proc[j].run][i] = "none"
                       /\ item' = [item EXCEPT ![proc[j].run][i] = "matched"]
                       /\ run' = [run EXCEPT ![proc[j].run].matched = @ + 1]
                       /\ last' = last
                    \/ /\ proc[j].run = 0 /\ last' = last + 1
                       /\ item' = [item EXCEPT ![last + 1][i] = "matched"]
                       /\ run' = [run EXCEPT ![last + 1] =
                            [NoRow EXCEPT !.status = "running", !.started = TRUE, !.matched = 1]]
<1>1. j \in Procs /\ proc[j].type = "item" /\ proc[j].op = "append"
  BY ItemFacts DEF Append
<1>2. PICK i \in Items : proc[j].load = {i} /\ Least(proc[j].load) = i
  BY ItemFacts DEF Append
<1>3. proc[j].run # 0 => proc[j].run \in Runs /\ proc[j].run <= last
  BY <1>1, ProcFacts DEF ProcOK
<1>4. Becomes(j, Idle) /\ UNCHANGED <<setting, media, acted>>
  BY <1>1, LeavePut DEF Append
<1>5. CASE i \notin media \/ (proc[j].run # 0 /\ item[proc[j].run][i] # "none")
  BY <1>1, <1>2, <1>4, <1>5 DEF Append
<1>6. CASE ~(i \notin media \/ (proc[j].run # 0 /\ item[proc[j].run][i] # "none")) /\ proc[j].run # 0
  BY <1>1, <1>2, <1>3, <1>4, <1>6 DEF Append
<1>7. CASE i \in media /\ proc[j].run = 0
  BY <1>1, <1>2, <1>4, <1>7 DEF Append
<1>. QED
  BY <1>5, <1>6, <1>7

LEMMA EvaluatePageDoes ==
  ASSUME Base, NEW j \in Jobs, EvaluatePage(j)
  PROVE  /\ UNCHANGED <<setting, run, media, last, acted>>
         /\ \E x : Moves(j, x, "page", "page")
         /\ proc[j].type = "evaluate" /\ proc[j].run \in Runs /\ proc[j].run <= last
         /\ \/ item' = item
            \/ \E i \in Items : /\ i \in media
                                /\ item' = [item EXCEPT ![proc[j].run][i] =
                                              IF @ = "none" THEN "matched" ELSE @]
<1>1. /\ j \in Procs /\ proc[j].type = "evaluate" /\ proc[j].op = "page" /\ proc[j].todo # {}
      /\ proc[j].run \in Runs /\ proc[j].run <= last
  BY ProcFacts DEF EvaluatePage, Procs, ProcOK, Typed, AloneOps, BatchOps, ItemOps, Asking
<1>2. PICK i : i = Least(proc[j].todo)
  OBVIOUS
<1>3. i \in Items
  BY <1>1, <1>2, TodoFacts
<1>4. \E n \in Nat : proc' = [proc EXCEPT ![j].todo = @ \ {i}, ![j].n = n]
  <2>1. PICK n : n = proc[j].n + 1
    OBVIOUS
  <2>2. n \in Nat
    BY <1>1, <2>1, ProcFacts
  <2>3. CASE proc' = [proc EXCEPT ![j].todo = @ \ {i}, ![j].n = @ + 1]
    BY <2>1, <2>2, <2>3
  <2>4. CASE proc' = [proc EXCEPT ![j].todo = @ \ {i}]
    <3>1. proc' = [proc EXCEPT ![j].todo = @ \ {i}, ![j].n = proc[j].n]
      BY <1>1, <2>4, ProcFacts DEF Proc, Base, TypeOK
    <3>. QED
      BY <1>1, <3>1, ProcFacts
  <2>. QED
    BY <1>2, <2>3, <2>4 DEF EvaluatePage
<1>5. PICK n \in Nat : proc' = [proc EXCEPT ![j].todo = @ \ {i}, ![j].n = n]
  BY <1>4
<1>6. PICK x : x = [proc[j] EXCEPT !.todo = @ \ {i}, !.n = n]
  OBVIOUS
<1>7. x \in Proc /\ Same(x, j) /\ x.op = "page" /\ x.tries = proc[j].tries
  BY <1>1, <1>5, <1>6, ProcFacts DEF Proc, Same
<1>8. Becomes(j, x)
  BY <1>1, <1>5, <1>6, <1>7, BecomesPut
<1>9. ProcOK(x, j, last, media) /\ ~Reserves(x)
  BY <1>1, <1>7, ProcFacts DEF ProcOK, Same, Typed, EvaluateOps, Asking, Reserves
<1>10. UNCHANGED <<setting, run, media, last, acted>>
  BY DEF EvaluatePage
<1>11. \/ item' = item
       \/ i \in media /\ item' = [item EXCEPT ![proc[j].run][i] =
                                   IF @ = "none" THEN "matched" ELSE @]
  BY <1>2 DEF EvaluatePage
<1>. QED
  BY <1>1, <1>3, <1>7, <1>8, <1>9, <1>10, <1>11 DEF Moves, Walks

LEMMA RecordMatchedDoes ==
  ASSUME Base, NEW j \in Jobs, RecordMatched(j)
  PROVE  /\ UNCHANGED <<setting, item, media, last, acted>>
         /\ \E x : Moves(j, x, "page", "decide")
         /\ proc[j].type = "evaluate" /\ Exists(proc[j].run)
         /\ run' = [run EXCEPT ![proc[j].run].matched = proc[j].n]
<1>1. j \in Procs /\ proc[j].type = "evaluate" /\ proc[j].op = "page"
  BY ProcFacts DEF RecordMatched, Procs, ProcOK, Typed, AloneOps, BatchOps, ItemOps, Asking
<1>2. PICK x : x = [proc[j] EXCEPT !.op = "decide"]
  OBVIOUS
<1>3. ProcOK(x, j, last, media) /\ ~Reserves(x)
  BY <1>1, <1>2, ProcFacts DEF ProcOK, Typed, EvaluateOps, Asking, Reserves, Proc
<1>4. "decide" \in Ops /\ Become(j, "decide")
  BY DEF Ops, EvaluateOps, RecordMatched
<1>5. \E y : Moves(j, y, "page", "decide")
  BY <1>1, <1>2, <1>3, <1>4, GoesOn
<1>. QED
  BY <1>1, <1>5 DEF RecordMatched

LEMMA DecideDoes ==
  ASSUME Base, NEW j \in Jobs, Decide(j)
  PROVE  /\ UNCHANGED <<setting, item, media, last, acted>>
         /\ proc[j].type = "evaluate" /\ proc[j].op = "decide" /\ Exists(proc[j].run)
         /\ \/ Walks(j, Idle) /\ Write(proc[j].run, "completed")
            \/ /\ \E x : Moves(j, x, "decide", "read")
               /\ Bypasses
               /\ run' = [run EXCEPT ![proc[j].run].status = "running",
                                     ![proc[j].run].started = TRUE]
            \/ Walks(j, Idle) /\ Write(proc[j].run, "awaiting_approval") /\ ~Bypasses
<1>1. j \in Procs /\ proc[j].type = "evaluate" /\ proc[j].op = "decide"
  BY ProcFacts DEF Decide, Procs, ProcOK, Typed, AloneOps, BatchOps, ItemOps, Asking
<1>2. UNCHANGED <<setting, item, media, last, acted>> /\ Exists(proc[j].run)
  BY DEF Decide
<1>3. CASE Write(proc[j].run, "completed") /\ Leave(j)
  BY <1>1, <1>2, <1>3, LeaveDoes
<1>4. CASE ~Bypasses /\ Write(proc[j].run, "awaiting_approval") /\ Leave(j)
  BY <1>1, <1>2, <1>4, LeaveDoes
<1>5. CASE /\ Bypasses /\ Become(j, "read")
           /\ run' = [run EXCEPT ![proc[j].run].status = "running",
                                 ![proc[j].run].started = TRUE]
  <2>1. PICK x : x = [proc[j] EXCEPT !.op = "read"]
    OBVIOUS
  <2>2. ProcOK(x, j, last, media) /\ ~Reserves(x)
    BY <1>1, <1>5, <2>1, ProcFacts DEF ProcOK, Typed, EvaluateOps, Asking, Reserves, Proc
  <2>3. "read" \in Ops
    BY DEF Ops, EvaluateOps
  <2>4. \E y : Moves(j, y, "decide", "read")
    BY <1>1, <1>5, <2>1, <2>2, <2>3, GoesOn
  <2>. QED
    BY <1>1, <1>2, <1>5, <2>4
<1>. QED
  BY <1>3, <1>4, <1>5 DEF Decide

\* What only requests and crons do
LEMMA AloneFacts ==
  ASSUME Base, NEW p \in Procs, proc[p].op \in {"create", "announce", "count"} \cup Asking
  PROVE  /\ proc[p].type = "none" /\ p \notin Jobs
         /\ proc[p].op # "create" => proc[p].run \in Runs /\ proc[p].run <= last
BY ProcFacts DEF ProcOK, Typed, EvaluateOps, BatchOps, ItemOps, Asking

LEMMA PlaceLeft ==
  ASSUME Base, NEW p \in Procs, Reserves(proc[p])
  PROVE  last + 1 \in Runs
<1>1. p \in Reserving
  BY DEF Reserving
<1>2. IsFiniteSet(Reserving)
  BY FS_Subset, WorkflowAssumption DEF Reserving
<1>3. Cardinality(Reserving) \in Nat /\ Cardinality(Reserving) # 0
  BY <1>1, <1>2, FS_EmptySet, FS_CardinalityType
<1>. QED
  BY <1>3, WorkflowAssumption DEF Base, Room, TypeOK, Runs

LEMMA CreateRunDoes ==
  ASSUME Base, NEW p \in Procs, CreateRun(p)
  PROVE  /\ UNCHANGED <<setting, item, media, acted>> /\ proc[p].op = "create"
         /\ last' = last + 1 /\ last + 1 \in Runs
         /\ Write(last + 1, "evaluating")
         /\ \E x : /\ Becomes(p, x) /\ ProcOK(x, p, last + 1, media)
                   /\ x.type = "none" /\ x.op = "announce" /\ x.run = last + 1
<1>1. proc[p].op = "create" /\ proc[p].type = "none" /\ p \notin Jobs
  BY AloneFacts DEF CreateRun
<1>2. last + 1 \in Runs
  BY <1>1, PlaceLeft DEF Reserves
<1>3. PICK r : r = last + 1
  OBVIOUS
<1>4. PICK x : x = [proc[p] EXCEPT !.op = "announce", !.run = r]
  OBVIOUS
<1>5. /\ x \in Proc /\ x.type = "none" /\ x.op = "announce" /\ x.run = r /\ x.tries = proc[p].tries
  BY <1>1, <1>2, <1>3, <1>4, ProcFacts DEF Proc
<1>6. Becomes(p, x)
  BY <1>3, <1>4, <1>5, BecomesPut DEF CreateRun
<1>7. ProcOK(x, p, r, media)
  BY <1>1, <1>2, <1>3, <1>5 DEF ProcOK, Typed, AloneOps, Asking, Runs
<1>. QED
  BY <1>1, <1>2, <1>3, <1>5, <1>6, <1>7 DEF CreateRun

LEMMA AnnounceRunDoes ==
  ASSUME Base, NEW p \in Procs, AnnounceRun(p)
  PROVE  /\ Frame /\ Walked /\ proc[p].op = "announce"
         /\ \E y, k : /\ Spawns(p, Idle, k, y)
                      /\ y.type = "evaluate" /\ y.op = "pending" /\ y.run = proc[p].run
                      /\ y.todo = {}
<1>1. proc[p].op = "announce" /\ proc[p].run \in Runs /\ proc[p].run \in 0 .. last /\ proc[p].run # 0
  BY AloneFacts, ProcFacts DEF AnnounceRun, ProcOK
<1>2. PICK y : y = Job("evaluate", proc[p].run, {})
  OBVIOUS
<1>3. /\ y \in Proc /\ y.type = "evaluate" /\ y.op = "pending" /\ y.run = proc[p].run
      /\ y.load = {} /\ y.todo = {} /\ y.tries = 0
  BY <1>1, <1>2, JobFacts
<1>4. PICK k \in Jobs : Spawns(p, Idle, k, y)
  BY <1>1, <1>2, <1>3, SpawnsPut, IdleFacts DEF AnnounceRun
<1>5. ProcOK(y, k, last, media) /\ ~Reserves(y)
  BY <1>1, <1>3, WorkflowAssumption DEF ProcOK, Typed, EvaluateOps, Asking, Reserves
<1>6. Frame
  BY DEF AnnounceRun, Frame
<1>7. Walked
  <2>1. ProcOK(Idle, p, last, media) /\ ~Reserves(Idle)
    BY IdleOK, ProcFacts
  <2>. QED
    BY <1>3, <1>4, <1>5, <1>6, <2>1, WalkedSpawn DEF Frame
<1>. QED
  BY <1>1, <1>3, <1>4, <1>6, <1>7

LEMMA ExcludeDoes ==
  ASSUME Base, NEW p \in Procs, Exclude(p)
  PROVE  /\ UNCHANGED <<setting, run, media, last, acted>>
         /\ \E x : Moves(p, x, "exclude", "approve")
         /\ proc[p].run \in Runs /\ proc[p].run <= last /\ ~Bypasses /\ p \in Requests
         /\ \E X \in SUBSET Matched(proc[p].run) :
              /\ X # Matched(proc[p].run) \/ May("emptied") \/ Matched(proc[p].run) = {}
              /\ item' = [item EXCEPT ![proc[p].run] =
                            [i \in Items |-> IF i \in X THEN "excluded" ELSE @[i]]]
<1>1. /\ proc[p].op = "exclude" /\ proc[p].type = "none" /\ p \notin Jobs /\ p \in Requests
      /\ proc[p].run \in Runs /\ proc[p].run <= last /\ ~Bypasses
  BY AloneFacts, ProcFacts DEF Exclude, ProcOK, Asking
<1>2. PICK x : x = [proc[p] EXCEPT !.op = "approve"]
  OBVIOUS
<1>3. ProcOK(x, p, last, media) /\ ~Reserves(x)
  BY <1>1, <1>2, ProcFacts DEF ProcOK, Typed, AloneOps, Asking, Reserves, Proc
<1>4. "approve" \in Ops /\ Become(p, "approve")
  BY DEF Ops, AloneOps, Asking, Exclude
<1>5. \E y : Moves(p, y, "exclude", "approve")
  BY <1>1, <1>2, <1>3, <1>4, GoesOn
<1>. QED
  BY <1>1, <1>5 DEF Exclude

LEMMA ApproveDoes ==
  ASSUME Base, NEW p \in Procs, Approve(p)
  PROVE  /\ UNCHANGED <<setting, item, media, last, acted>>
         /\ proc[p].type = "none" /\ p \notin Jobs /\ proc[p].op = "approve" /\ proc[p].run \in Runs /\ ~Bypasses
         /\ \/ Walks(p, Idle) /\ run' = run /\ ~Exists(proc[p].run)
            \/ /\ \E x : Moves(p, x, "approve", "read")
               /\ Exists(proc[p].run)
               /\ run' = [run EXCEPT ![proc[p].run].status = "running",
                              ![proc[p].run].started = TRUE, ![proc[p].run].approved = TRUE]
<1>1. /\ proc[p].op = "approve" /\ proc[p].type = "none" /\ p \notin Jobs /\ proc[p].run \in Runs
      /\ ~Bypasses
  BY AloneFacts, ProcFacts DEF Approve, ProcOK, Asking
<1>2. CASE ~Exists(proc[p].run)
  BY <1>1, <1>2, LeaveDoes DEF Approve
<1>3. CASE Exists(proc[p].run)
  <2>1. PICK x : x = [proc[p] EXCEPT !.op = "read"]
    OBVIOUS
  <2>2. ProcOK(x, p, last, media) /\ ~Reserves(x)
    BY <1>1, <2>1, ProcFacts DEF ProcOK, Typed, AloneOps, Asking, Reserves, Proc
  <2>3. "read" \in Ops /\ Become(p, "read")
    BY <1>3 DEF Ops, AloneOps, Approve
  <2>4. \E y : Moves(p, y, "approve", "read")
    BY <1>1, <2>1, <2>2, <2>3, GoesOn
  <2>. QED
    BY <1>1, <1>3, <2>4 DEF Approve
<1>. QED
  BY <1>2, <1>3

\* The row of a run whose status, approval or due date is written.
LEMMA CancelDoes ==
  ASSUME Base, NEW p \in Procs, Cancel(p)
  PROVE  /\ UNCHANGED <<setting, item, media, last, acted>> /\ Walks(p, Idle)
         /\ proc[p].op = "cancel" /\ proc[p].run \in Runs /\ proc[p].run <= last
         /\ May("stale") \/ ~Evaluating(proc[p].run)
         /\ \/ run' = run
            \/ /\ Exists(proc[p].run) /\ Write(proc[p].run, "cancelled")
               /\ May("stale") \/ run[proc[p].run].status \in Cancellable
BY AloneFacts, LeaveDoes DEF Cancel, Asking

LEMMA DispatchRunDoes ==
  ASSUME Base, NEW p \in Procs, DispatchRun(p)
  PROVE  /\ UNCHANGED <<setting, item, media, last, acted>> /\ proc[p].type = "none"
         /\ proc[p].op = "count" /\ proc[p].run \in Runs /\ proc[p].run <= last
         /\ \/ (\E x : Moves(p, x, "count", "read")) /\ run' = run
            \/ /\ Walks(p, Idle) /\ Matched(proc[p].run) = {}
               /\ \/ run' = run
                  \/ run[proc[p].run].status = "running" /\ Write(proc[p].run, "completed")
<1>1. /\ proc[p].op = "count" /\ proc[p].type = "none" /\ p \notin Jobs /\ p \in Procs
      /\ proc[p].run \in Runs /\ proc[p].run <= last
  BY AloneFacts DEF DispatchRun
<1>2. CASE Matched(proc[p].run) = {}
  BY <1>1, <1>2, LeaveDoes DEF DispatchRun
<1>3. CASE Matched(proc[p].run) # {}
  <2>1. PICK x : x = [proc[p] EXCEPT !.op = "read"]
    OBVIOUS
  <2>2. ProcOK(x, p, last, media) /\ ~Reserves(x)
    BY <1>1, <2>1, ProcFacts DEF ProcOK, Typed, AloneOps, Asking, Reserves, Proc
  <2>3. "read" \in Ops /\ Become(p, "read")
    BY <1>3 DEF Ops, AloneOps, DispatchRun
  <2>4. \E y : Moves(p, y, "count", "read")
    BY <1>1, <2>1, <2>2, <2>3, GoesOn
  <2>. QED
    BY <1>1, <1>3, <2>4 DEF DispatchRun
<1>. QED
  BY <1>2, <1>3

LEMMA AdmittedDoes ==
  ASSUME Base, NEW p \in Procs \ Jobs, Admitted(p)
  PROVE  /\ Frame /\ RunsLeft /\ proc[p] = Idle
         /\ \E x : /\ Becomes(p, x) /\ ProcOK(x, p, last, media)
                   /\ x.type = "none" /\ x.op = "create" /\ x.run = 0
<1>1. proc[p] = Idle
  BY ProcFacts DEF Admitted, ProcOK
<1>2. PICK x : x = [Idle EXCEPT !.op = "create"]
  OBVIOUS
<1>3. x \in Proc /\ x.type = "none" /\ x.op = "create" /\ x.run = 0 /\ x.tries = 0
  BY <1>2, WorkflowAssumption DEF Idle, Proc
<1>4. Becomes(p, x)
  BY <1>1, <1>2, <1>3, BecomesPut DEF Admitted, Become
<1>5. ProcOK(x, p, last, media)
  BY <1>3, ProcFacts DEF ProcOK, Typed, AloneOps, Asking
<1>. QED
  BY <1>1, <1>3, <1>4, <1>5 DEF Admitted, Frame

LEMMA AskDoes ==
  ASSUME Base, NEW p \in Requests, NEW r \in Runs, NEW op \in {"exclude", "cancel"}, Ask(p, r, op),
         r <= last, op = "exclude" => ~Bypasses
  PROVE  /\ Frame /\ (May("stale") \/ ~Held(r)) /\ proc[p] = Idle /\ p \notin Jobs
         /\ \E x : Walks(p, x) /\ x.type = "none" /\ x.op = op /\ x.run = r
<1>1. proc[p] = Idle /\ p \in Procs /\ p \notin Jobs
  BY ProcFacts, WorkflowAssumption DEF Ask, ProcOK, Procs
<1>2. PICK x : x = [Idle EXCEPT !.op = op, !.run = r]
  OBVIOUS
<1>3. x \in Proc /\ x.type = "none" /\ x.op = op /\ x.run = r /\ x.tries = 0
  BY <1>2, IdleFacts DEF Proc
<1>4. Becomes(p, x)
  BY <1>1, <1>2, <1>3, BecomesPut DEF Ask
<1>5. ProcOK(x, p, last, media) /\ ~Reserves(x)
  BY <1>1, <1>3, ProcFacts DEF ProcOK, Typed, AloneOps, Asking, Reserves, Runs
<1>. QED
  BY <1>1, <1>3, <1>4, <1>5 DEF Ask, Frame, Walks

LEMMA StampRunDoes ==
  ASSUME Base, NEW c \in Crons, NEW r \in Runs, StampRun(c, r)
  PROVE  /\ UNCHANGED <<setting, item, media, last, acted>>
         /\ proc[c] = Idle /\ r <= last /\ c \in Procs /\ c \notin Jobs
         /\ run[r].due /\ Undispatched(r) /\ run' = [run EXCEPT ![r].approved = TRUE]
         /\ \E x : Walks(c, x) /\ x.type = "none" /\ x.op = "count" /\ x.run = r
<1>1. proc[c] = Idle /\ c \in Procs /\ c \notin Jobs
  BY ProcFacts, WorkflowAssumption DEF StampRun, ProcOK, Procs
<1>2. r <= last
  <2>1. RunOK(r) /\ run[r].status = "running"
    BY DEF StampRun, Undispatched, Base
  <2>2. ~(r > last)
    BY <2>1 DEF RunOK, NoRow
  <2>. QED
    BY <1>1, <2>2, ProcFacts DEF Runs
<1>3. PICK x : x = [Idle EXCEPT !.op = "count", !.run = r]
  OBVIOUS
<1>4. x \in Proc /\ x.type = "none" /\ x.op = "count" /\ x.run = r /\ x.tries = 0
  BY <1>3, IdleFacts DEF Proc
<1>5. Becomes(c, x)
  BY <1>1, <1>3, <1>4, BecomesPut DEF StampRun
<1>6. ProcOK(x, c, last, media) /\ ~Reserves(x)
  BY <1>1, <1>2, <1>4, ProcFacts DEF ProcOK, Typed, AloneOps, Asking, Reserves, Runs
<1>. QED
  BY <1>1, <1>2, <1>4, <1>5, <1>6 DEF StampRun, Walks

\* What is left of process p: nothing, or its job as it was enqueued.
Remains(x, p) ==
  \/ x = Idle
  \/ /\ p \in Jobs /\ x.type = proc[p].type /\ x.op = "pending" /\ x.load = proc[p].load
     /\ x.run = IF proc[p].type = "item" THEN 0 ELSE proc[p].run
     /\ x.todo = {} /\ x.out = "none"
     /\ x.tries = proc[p].tries /\ proc[p].tries < MaxAttempts

LEMMA RemainsFacts ==
  ASSUME Base, NEW j \in Jobs, proc[j].op \notin {"idle", "pending"}, NEW x, x = Requeued(j),
         NEW k \in Jobs
  PROVE  /\ x \in Proc /\ Remains(x, j) /\ ProcOK(x, k, last, media) /\ ~Reserves(x)
         /\ j \in Procs /\ k \in Procs
<1>1. j \in Procs /\ k \in Procs
  BY DEF Procs
<1>2. x \in Proc /\ Remains(x, j)
  BY RequeuedFacts DEF Remains
<1>3. CASE x = Idle
  BY <1>1, <1>2, <1>3, IdleOK, ProcFacts
<1>4. CASE x # Idle
  <2>1. proc[j].type \in {"evaluate", "batch", "item"}
    BY <1>1, ProcFacts DEF ProcOK, Typed
  <2>2. x.op = "pending"
    BY <1>2, <1>4 DEF Remains
  <2>3. ProcOK(proc[j], j, last, media) /\ proc[j].load \in SUBSET Items /\ last \in Nat
    BY <1>1, ProcFacts
  <2>4. ProcOK(x, k, last, media)
    BY <1>1, <1>2, <1>4, <2>1, <2>2, <2>3
       DEF Remains, ProcOK, Typed, EvaluateOps, BatchOps, ItemOps, Asking
  <2>. QED
    BY <1>1, <1>2, <2>2, <2>4 DEF Reserves
<1>. QED
  BY <1>3, <1>4

LEMMA CrashDoes ==
  ASSUME Base, NEW p \in Procs, Crash(p)
  PROVE  /\ Frame /\ May("crash") /\ proc[p].op \notin {"idle", "pending"}
         /\ \E x : Walks(p, x) /\ Remains(x, p)
<1>1. PICK x : x = IF p \in Jobs THEN Requeued(p) ELSE Idle
  OBVIOUS
<1>2. x \in Proc /\ Remains(x, p) /\ ProcOK(x, p, last, media) /\ ~Reserves(x)
  <2>1. CASE p \in Jobs
    BY <1>1, <2>1, RemainsFacts DEF Crash
  <2>2. CASE p \notin Jobs
    BY <1>1, <2>2, IdleFacts, IdleOK, ProcFacts DEF Remains
  <2>. QED
    BY <2>1, <2>2
<1>3. Becomes(p, x)
  BY <1>1, <1>2, BecomesPut DEF Crash
<1>. QED
  BY <1>2, <1>3 DEF Crash, Frame, Walks

LEMMA ThrowsDoes ==
  ASSUME Base, NEW j \in Jobs, Throws(j)
  PROVE  /\ UNCHANGED <<setting, item, media, last, acted>> /\ May("fails")
         /\ j \in Procs /\ proc[j].op \notin {"idle", "pending"}
         /\ proc[j].op = "post" => proc[j].todo # {}
         /\ \E x : Walks(j, x) /\ Remains(x, j)
         /\ \/ run' = run
            \/ /\ proc[j].type = "evaluate" /\ Exists(proc[j].run) /\ proc[j].run \in Runs
               /\ Write(proc[j].run, "failed")
<1>1. j \in Procs /\ proc[j].op \notin {"idle", "pending"}
  BY ProcFacts, IdleFacts DEF Throws, Procs, ProcOK, Typed, EvaluateOps
<1>2. PICK x : x = Requeued(j)
  OBVIOUS
<1>3. x \in Proc /\ Remains(x, j) /\ ProcOK(x, j, last, media) /\ ~Reserves(x)
  BY <1>1, <1>2, RemainsFacts
<1>4. Becomes(j, x)
  <2>1. proc' = [proc EXCEPT ![j] = x]
    BY <1>2 DEF Throws
  <2>. QED
    BY <1>1, <1>3, <2>1, BecomesPut
<1>5. proc[j].type = "evaluate" => proc[j].run \in Runs
  BY <1>1, ProcFacts DEF ProcOK, Typed, EvaluateOps
<1>6. proc[j].op = "post" => proc[j].todo # {}
  BY <1>1, ProcFacts DEF Throws, ProcOK, Typed, BatchOps
<1>. QED
  BY <1>1, <1>3, <1>4, <1>5, <1>6 DEF Throws, Walks

LEMMA RedeliverDoes ==
  ASSUME Base, NEW j \in Jobs, Redeliver(j)
  PROVE  /\ Frame /\ May("redeliver") /\ proc[j].op \notin {"idle", "pending"} /\ j \in Procs
         /\ \E k \in Jobs : /\ proc[k] = Idle /\ k \in Procs /\ k # j
                            /\ \E x : Walks(k, x) /\ Remains(x, j)
<1>1. PICK k \in Jobs : k = Least(FreeSlots) /\ proc[k].op = "idle" /\ k \in Procs
  BY FreeSlot DEF Redeliver, Base
<1>2. proc[k] = Idle
  BY <1>1, ProcFacts DEF ProcOK
<1>3. PICK x : x = Requeued(j)
  OBVIOUS
<1>4. x \in Proc /\ Remains(x, j) /\ ProcOK(x, k, last, media) /\ ~Reserves(x) /\ j \in Procs
  BY <1>3, RemainsFacts DEF Redeliver
<1>5. Becomes(k, x)
  BY <1>1, <1>3, <1>4, BecomesPut DEF Redeliver
<1>. QED
  BY <1>1, <1>2, <1>4, <1>5 DEF Redeliver, Frame, Walks

LEMMA SignalDoes ==
  ASSUME Base, NEW i \in Items, Signal(i)
  PROVE  /\ Frame
         /\ \E k \in Jobs : /\ proc[k] = Idle /\ k \in Procs
                            /\ \E x : /\ Walks(k, x) /\ x.type = "item" /\ x.op = "pending"
                                      /\ x.run = 0 /\ x.load = {i} /\ x.todo = {}
<1>1. PICK k \in Jobs : k = Least(FreeSlots) /\ proc[k].op = "idle" /\ k \in Procs
  BY FreeSlot DEF Signal, Base
<1>2. proc[k] = Idle
  BY <1>1, ProcFacts DEF ProcOK
<1>3. PICK x : x = Job("item", 0, {i})
  OBVIOUS
<1>4. /\ x \in Proc /\ x.type = "item" /\ x.op = "pending" /\ x.run = 0 /\ x.load = {i}
      /\ x.todo = {} /\ x.tries = 0
  BY <1>3, JobFacts
<1>5. Becomes(k, x)
  BY <1>1, <1>3, <1>4, BecomesPut DEF Signal
<1>6. ProcOK(x, k, last, media) /\ ~Reserves(x)
  BY <1>1, <1>4, ProcFacts, WorkflowAssumption DEF ProcOK, Typed, ItemOps, Asking, Reserves
<1>. QED
  BY <1>1, <1>2, <1>4, <1>5, <1>6 DEF Signal, Frame, Walks

-----------------------------------------------------------------------------
(* The rows of runs and items.                                              *)

\* The row of run r has these values, and the other rows are what they were.
RowSet(r, status, started, approved, due) ==
  /\ run' \in [Runs -> Row] /\ \A q \in Runs \ {r} : run'[q] = run[q]
  /\ run'[r].status = status /\ run'[r].started = started
  /\ run'[r].approved = approved /\ run'[r].due = due

LEMMA RowFacts ==
  ASSUME Base, NEW r \in Runs
  PROVE  /\ run[r] \in Row /\ RunOK(r)
         /\ Exists(r) => r <= last
         /\ run[r].status \in Active \cup Terminal \cup {"none"}
         /\ run[r].started \in BOOLEAN /\ run[r].approved \in BOOLEAN /\ run[r].due \in BOOLEAN
         /\ r \in Nat /\ last \in Nat /\ r \in 1 .. NRuns
<1>1. run[r] \in Row /\ RunOK(r) /\ last \in Nat /\ r \in Nat /\ r \in 1 .. NRuns
  BY WorkflowAssumption DEF Base, TypeOK, Runs
<1>2. Exists(r) => r <= last
  BY <1>1 DEF RunOK, NoRow, Exists
<1>3. /\ run[r].status \in Active \cup Terminal \cup {"none"}
      /\ run[r].started \in BOOLEAN /\ run[r].approved \in BOOLEAN /\ run[r].due \in BOOLEAN
  BY <1>1 DEF Row
<1>. QED
  BY <1>1, <1>2, <1>3

LEMMA RowPut ==
  ASSUME Base, NEW r \in Runs, NEW w \in Row, run' = [run EXCEPT ![r] = w]
  PROVE  RowSet(r, w.status, w.started, w.approved, w.due)
BY DEF Base, TypeOK, RowSet

LEMMA WriteRow ==
  ASSUME Base, NEW r \in Runs, NEW st \in Active \cup Terminal, Write(r, st)
  PROVE  RowSet(r, st, run[r].started, run[r].approved, run[r].due)
<1>1. PICK w : w = [run[r] EXCEPT !.status = st]
  OBVIOUS
<1>2. /\ w \in Row /\ w.status = st /\ w.started = run[r].started
      /\ w.approved = run[r].approved /\ w.due = run[r].due
  BY <1>1, RowFacts DEF Row
<1>3. run' = [run EXCEPT ![r] = w]
  BY <1>1 DEF Write
<1>. QED
  BY <1>2, <1>3, RowPut DEF RowSet

LEMMA StartRow ==
  ASSUME Base, NEW r \in Runs,
         run' = [run EXCEPT ![r].status = "running", ![r].started = TRUE]
  PROVE  RowSet(r, "running", TRUE, run[r].approved, run[r].due)
<1>1. PICK w : w = [run[r] EXCEPT !.status = "running", !.started = TRUE]
  OBVIOUS
<1>2. /\ w \in Row /\ w.status = "running" /\ w.started = TRUE
      /\ w.approved = run[r].approved /\ w.due = run[r].due
  BY <1>1, RowFacts DEF Row, Active
<1>3. run' = [run EXCEPT ![r] = w]
  BY <1>1
<1>. QED
  BY <1>2, <1>3, RowPut DEF RowSet

LEMMA ApproveRow ==
  ASSUME Base, NEW r \in Runs,
         run' = [run EXCEPT ![r].status = "running", ![r].started = TRUE, ![r].approved = TRUE]
  PROVE  RowSet(r, "running", TRUE, TRUE, run[r].due)
<1>1. PICK w : w = [run[r] EXCEPT !.status = "running", !.started = TRUE, !.approved = TRUE]
  OBVIOUS
<1>2. /\ w \in Row /\ w.status = "running" /\ w.started = TRUE
      /\ w.approved = TRUE /\ w.due = run[r].due
  BY <1>1, RowFacts DEF Row, Active
<1>3. run' = [run EXCEPT ![r] = w]
  BY <1>1
<1>. QED
  BY <1>2, <1>3, RowPut DEF RowSet

LEMMA StampRow ==
  ASSUME Base, NEW r \in Runs, run' = [run EXCEPT ![r].approved = TRUE]
  PROVE  RowSet(r, run[r].status, run[r].started, TRUE, run[r].due)
<1>1. PICK w : w = [run[r] EXCEPT !.approved = TRUE]
  OBVIOUS
<1>2. /\ w \in Row /\ w.status = run[r].status /\ w.started = run[r].started
      /\ w.approved = TRUE /\ w.due = run[r].due
  BY <1>1, RowFacts DEF Row
<1>3. run' = [run EXCEPT ![r] = w]
  BY <1>1
<1>. QED
  BY <1>2, <1>3, RowPut DEF RowSet

LEMMA DueRow ==
  ASSUME Base, NEW r \in Runs, run' = [run EXCEPT ![r].due = TRUE]
  PROVE  RowSet(r, run[r].status, run[r].started, run[r].approved, TRUE)
<1>1. PICK w : w = [run[r] EXCEPT !.due = TRUE]
  OBVIOUS
<1>2. /\ w \in Row /\ w.status = run[r].status /\ w.started = run[r].started
      /\ w.approved = run[r].approved /\ w.due = TRUE
  BY <1>1, RowFacts DEF Row
<1>3. run' = [run EXCEPT ![r] = w]
  BY <1>1
<1>. QED
  BY <1>2, <1>3, RowPut DEF RowSet

\* The number of matched items is written.
LEMMA MatchedRow ==
  ASSUME Base, NEW r \in Runs, NEW n \in Nat, run' = [run EXCEPT ![r].matched = n]
  PROVE  RowSet(r, run[r].status, run[r].started, run[r].approved, run[r].due)
<1>1. PICK w : w = [run[r] EXCEPT !.matched = n]
  OBVIOUS
<1>2. /\ w \in Row /\ w.status = run[r].status /\ w.started = run[r].started
      /\ w.approved = run[r].approved /\ w.due = run[r].due
  BY <1>1, RowFacts DEF Row
<1>3. run' = [run EXCEPT ![r] = w]
  BY <1>1
<1>. QED
  BY <1>2, <1>3, RowPut DEF RowSet

LEMMA CountedRow ==
  ASSUME Base, NEW r \in Runs, NEW out, run' = [run EXCEPT ![r] = Counted(@, out)]
  PROVE  RowSet(r, run[r].status, run[r].started, run[r].approved, run[r].due)
<1>1. PICK w : w = Counted(run[r], out)
  OBVIOUS
<1>2. \A S : One(out, S) \in Nat
  BY DEF One
<1>3. /\ run[r] \in Row /\ run[r].processed \in Nat /\ run[r].succeeded \in Nat
      /\ run[r].failed \in Nat /\ run[r].skipped \in Nat
  BY RowFacts DEF Row
<1>4. PICK a \in Nat, b \in Nat, c \in Nat, d \in Nat :
        w = [run[r] EXCEPT !.processed = a, !.succeeded = b, !.failed = c, !.skipped = d]
  <2> DEFINE S == One(out, {"applied", "partially_applied", "purged"})
             F == One(out, {"failed", "partially_applied"})
             K == One(out, {"skipped"})
  <2>1. S \in Nat /\ F \in Nat /\ K \in Nat
    BY <1>2
  <2>2. w = [run[r] EXCEPT !.processed = @ + 1, !.succeeded = @ + S, !.failed = @ + F,
                           !.skipped = @ + K]
    BY <1>1 DEF Counted
  <2>. HIDE DEF S, F, K
  <2>3. /\ run[r].processed + 1 \in Nat /\ run[r].succeeded + S \in Nat
        /\ run[r].failed + F \in Nat /\ run[r].skipped + K \in Nat
    BY <1>3, <2>1
  <2>. QED
    BY <2>2, <2>3
<1>5. /\ w \in Row /\ w.status = run[r].status /\ w.started = run[r].started
      /\ w.approved = run[r].approved /\ w.due = run[r].due
  BY <1>3, <1>4 DEF Row
<1>6. run' = [run EXCEPT ![r] = w]
  BY <1>1
<1>. QED
  BY <1>5, <1>6, RowPut DEF RowSet

LEMMA NoRowFacts ==
  /\ NoRow \in Row /\ NoRow.status = "none" /\ NoRow.started = FALSE
  /\ NoRow.approved = FALSE /\ NoRow.due = FALSE
BY DEF NoRow, Row

\* A run is opened by an enriched item.
LEMMA OpenRow ==
  ASSUME Base, NEW r \in Runs,
         run' = [run EXCEPT ![r] =
                   [NoRow EXCEPT !.status = "running", !.started = TRUE, !.matched = 1]]
  PROVE  RowSet(r, "running", TRUE, FALSE, FALSE)
<1>1. PICK w : w = [NoRow EXCEPT !.status = "running", !.started = TRUE, !.matched = 1]
  OBVIOUS
<1>2. /\ w \in Row /\ w.status = "running" /\ w.started = TRUE
      /\ w.approved = FALSE /\ w.due = FALSE
  BY <1>1 DEF NoRow, Row, Active
<1>3. run' = [run EXCEPT ![r] = w]
  BY <1>1
<1>. QED
  BY <1>2, <1>3, RowPut DEF RowSet

-----------------------------------------------------------------------------
(* Every step keeps Base.                                                   *)

\* Only the row of run r may change.
RowOnly(r) ==
  /\ run' \in [Runs -> Row] /\ \A q \in Runs \ {r} : run'[q] = run[q]
  /\ run'[r].due => run[r].due \/ Enriched
  /\ run'[r].status = "awaiting_approval" => run[r].status = "awaiting_approval" \/ ~Bypasses

LEMMA BaseRow ==
  ASSUME Base, Walked, UNCHANGED <<setting, item, media, last, acted>>,
         NEW r \in Runs, r <= last, RowOnly(r)
  PROVE  Base'
<1>1. Tables'
  BY DEF Base, TypeOK, Tables, RowOnly, States
<1>2. \A q \in Runs : RunOK(q)'
  <2>1. TAKE q \in Runs
  <2>2. CASE q # r
    BY <2>2 DEF Base, RunOK, RowOnly, Enriched, Bypasses
  <2>3. CASE q = r
    BY <2>3, RowFacts DEF RunOK, RowOnly, Enriched, Bypasses
  <2>. QED
    BY <2>2, <2>3
<1>. QED
  BY <1>1, <1>2, BaseKept

\* The row of an item is written: i in run r.
LEMMA BaseItem ==
  ASSUME Base, Walked, UNCHANGED <<setting, media, last, acted>>,
         NEW r \in Runs, r <= last, RowOnly(r), NEW i \in media, NEW s \in States,
         s # "excluded", item' = [item EXCEPT ![r][i] = s]
  PROVE  Base'
<1>1. Tables'
  BY DEF Base, TypeOK, Tables, RowOnly, States
<1>2. \A q \in Runs : RunOK(q)'
  <2>1. TAKE q \in Runs
  <2>2. CASE q # r
    BY <2>2 DEF Base, TypeOK, RunOK, RowOnly, Enriched, Bypasses
  <2>3. CASE q = r
    BY <2>3, RowFacts DEF Base, TypeOK, RunOK, RowOnly, Enriched, Bypasses
  <2>. QED
    BY <2>2, <2>3
<1>. QED
  BY <1>1, <1>2, BaseKept

\* The media item i goes, with its rows.
LEMMA BasePurge ==
  ASSUME Base, Walked, UNCHANGED <<setting, run, last>>, NEW i \in Items, Purge(i),
         acted' \in [Runs -> [Items -> Nat]],
         \A q \in Runs : q > last => acted'[q] = acted[q]
  PROVE  Base'
<1>1. Tables'
  BY DEF Base, TypeOK, Tables, States, Purge
<1>2. \A q \in Runs : RunOK(q)'
  <2>1. TAKE q \in Runs
  <2>2. \A k \in Items : item'[q][k] = IF k = i THEN "none" ELSE item[q][k]
    BY DEF Base, TypeOK, Purge
  <2>3. media' = media \ {i}
    BY DEF Purge
  <2>. QED
    BY <2>2, <2>3, RowFacts DEF RunOK, Enriched, Bypasses
<1>. QED
  BY <1>1, <1>2, BaseKept DEF Purge

LEMMA SameRow ==
  ASSUME Base, run' = run, NEW r \in Runs
  PROVE  RowOnly(r)
BY DEF Base, TypeOK, RowOnly

LEMMA WalksOn ==
  ASSUME Base, NEW p \in Procs, NEW x, NEW a, NEW b, Moves(p, x, a, b),
         setting' = setting, media' = media
  PROVE  Walked
BY WalkedAlone DEF Moves

LEMMA BaseEvaluate ==
  ASSUME Base, NEW j \in Jobs,
         BeginEvaluate(j) \/ EvaluatePage(j) \/ RecordMatched(j) \/ Decide(j)
  PROVE  Base'
<1>0. j \in Procs
  BY DEF Procs
<1>1. CASE BeginEvaluate(j)
  BY <1>0, <1>1, BeginEvaluateDoes, WalksOn, WalkedAlone, BaseFrame DEF Frame
<1>2. CASE EvaluatePage(j)
  <2>1. Walked
    BY <1>0, <1>2, EvaluatePageDoes, WalksOn
  <2>2. /\ UNCHANGED <<setting, run, media, last, acted>>
        /\ proc[j].run \in Runs /\ proc[j].run <= last
    BY <1>2, EvaluatePageDoes
  <2>3. CASE item' = item
    BY <2>1, <2>2, <2>3, BaseFrame DEF Frame
  <2>4. CASE item' # item
    <3>1. PICK i \in Items : /\ i \in media
                             /\ item' = [item EXCEPT ![proc[j].run][i] =
                                           IF @ = "none" THEN "matched" ELSE @]
      BY <1>2, <2>4, EvaluatePageDoes
    <3>2. item' = [item EXCEPT ![proc[j].run][i] = "matched"]
      BY <2>2, <2>4, <3>1 DEF Base, TypeOK
    <3>. QED
      BY <2>1, <2>2, <3>1, <3>2, BaseItem, SameRow DEF States
  <2>. QED
    BY <2>3, <2>4
<1>3. CASE RecordMatched(j)
  <2>1. Walked /\ UNCHANGED <<setting, item, media, last, acted>> /\ Exists(proc[j].run)
    BY <1>0, <1>3, RecordMatchedDoes, WalksOn
  <2>2. proc[j].run \in Runs /\ proc[j].n \in Nat
    BY <1>0, <1>3, RecordMatchedDoes, ProcFacts DEF Moves, ProcOK, Typed
  <2>3. RowOnly(proc[j].run)
    BY <1>3, <2>2, RecordMatchedDoes, MatchedRow DEF RowSet, RowOnly
  <2>. QED
    BY <2>1, <2>2, <2>3, RowFacts, BaseRow
<1>4. CASE Decide(j)
  <2>1. Walked /\ UNCHANGED <<setting, item, media, last, acted>> /\ Exists(proc[j].run)
    BY <1>0, <1>4, DecideDoes, WalksOn, WalkedAlone
  <2>2. proc[j].run \in Runs
    BY <1>0, <1>4, DecideDoes, ProcFacts DEF ProcOK
  <2>3. RowOnly(proc[j].run)
    <3>1. CASE Write(proc[j].run, "completed")
      BY <2>2, <3>1, WriteRow DEF RowSet, RowOnly, Terminal
    <3>2. CASE run' = [run EXCEPT ![proc[j].run].status = "running",
                                  ![proc[j].run].started = TRUE]
      BY <2>2, <3>2, StartRow DEF RowSet, RowOnly
    <3>3. CASE Write(proc[j].run, "awaiting_approval") /\ ~Bypasses
      BY <2>2, <3>3, WriteRow DEF RowSet, RowOnly, Active
    <3>. QED
      BY <1>4, <3>1, <3>2, <3>3, DecideDoes
  <2>. QED
    BY <2>1, <2>2, <2>3, RowFacts, BaseRow
<1>. QED
  BY <1>1, <1>2, <1>3, <1>4

LEMMA BaseRead ==
  ASSUME Base, NEW p \in Procs, ReadMatched(p) \/ PostBatch(p) \/ Posted(p)
  PROVE  Base'
<1>1. CASE ReadMatched(p)
  BY <1>1, ReadMatchedDoes, WalksOn, BaseFrame DEF Frame
<1>2. CASE PostBatch(p)
  BY <1>2, PostBatchDoes, BaseFrame
<1>3. CASE Posted(p)
  BY <1>3, PostedDoes, WalkedAlone, BaseFrame DEF Frame
<1>. QED
  BY <1>1, <1>2, <1>3

LEMMA BaseAct ==
  ASSUME Base, NEW j \in Jobs, Act(j)
  PROVE  Base'
<1>1. /\ UNCHANGED <<setting, run, last>> /\ media' \subseteq media
      /\ j \in Procs /\ proc[j].run \in Runs /\ proc[j].run <= last
  BY ActDoes, BatchFacts DEF Act
<1>2. PICK x, i :
        /\ i \in Items /\ Becomes(j, x) /\ Same(x, j) /\ x.op = "close"
        /\ ProcOK(x, j, last, media')
        /\ \/ acted' = acted
           \/ acted' = [acted EXCEPT ![proc[j].run][i] = @ + 1]
        /\ \/ UNCHANGED <<media, item>>
           \/ Purge(i)
  BY ActDoes
<1>3. Walked
  <2>1. \A q \in Procs : ProcOK(proc'[q], q, last, media')
    <3>1. TAKE q \in Procs
    <3>2. ProcOK(proc[q], q, last, media) /\ last \in Nat
      BY ProcFacts
    <3>3. ProcOK(proc[q], q, last, media')
      BY <1>1, <3>2 DEF ProcOK, Typed, Bypasses
    <3>. QED
      BY <1>2, <3>3 DEF Becomes
  <2>2. Reserving' \subseteq Reserving
    BY <1>2 DEF Becomes, Reserving, Reserves
  <2>. QED
    BY <1>2, <2>1, <2>2 DEF Walked, Becomes
<1>4. acted' \in [Runs -> [Items -> Nat]] /\ \A q \in Runs : q > last => acted'[q] = acted[q]
  <2>1. CASE acted' = acted
    BY <2>1 DEF Base
  <2>2. CASE acted' = [acted EXCEPT ![proc[j].run][i] = @ + 1]
    <3>1. acted \in [Runs -> [Items -> Nat]] /\ last \in Nat
      BY <1>1, ProcFacts DEF Base
    <3>2. acted[proc[j].run][i] + 1 \in Nat
      BY <1>1, <1>2, <3>1
    <3>3. acted' \in [Runs -> [Items -> Nat]]
      BY <1>1, <1>2, <2>2, <3>1, <3>2
    <3>4. \A q \in Runs : q # proc[j].run => acted'[q] = acted[q]
      BY <2>2, <3>1
    <3>. QED
      BY <1>1, <3>1, <3>3, <3>4, RowFacts
  <2>. QED
    BY <1>2, <2>1, <2>2
<1>5. CASE UNCHANGED <<media, item>>
  <2>1. Tables'
    BY <1>1, <1>4, <1>5 DEF Base, TypeOK, Tables, States
  <2>2. \A q \in Runs : RunOK(q)'
    BY <1>1, <1>4, <1>5, RowFacts DEF RunOK, Enriched, Bypasses
  <2>. QED
    BY <1>1, <1>3, <1>5, <2>1, <2>2, BaseKept
<1>6. CASE Purge(i)
  BY <1>1, <1>2, <1>3, <1>4, <1>6, BasePurge
<1>. QED
  BY <1>2, <1>5, <1>6

LEMMA BaseBatch ==
  ASSUME Base, NEW j \in Jobs,
         \/ BeginBatch(j) \/ ClaimItem(j) \/ CloseItem(j) \/ Tally(j)
         \/ FinishBatch(j) \/ SettleRun(j)
  PROVE  Base'
<1>0. j \in Procs
  BY DEF Procs
<1>1. CASE BeginBatch(j)
  BY <1>0, <1>1, BeginBatchDoes, WalksOn, WalkedAlone, BaseFrame DEF Frame
<1>2. CASE ClaimItem(j)
  BY <1>0, <1>2, ClaimItemDoes, WalksOn, WalkedAlone, BaseFrame DEF Frame
<1>3. CASE CloseItem(j)
  <2>1. /\ Walked /\ UNCHANGED <<setting, run, media, last, acted>>
        /\ proc[j].run \in Runs /\ proc[j].run <= last
    BY <1>0, <1>3, CloseItemDoes, WalksOn, BatchFacts DEF CloseItem
  <2>2. CASE item' = item
    BY <2>1, <2>2, BaseFrame DEF Frame
  <2>3. CASE item' # item
    <3>1. PICK i \in Items : /\ Claimable(proc[j].run, i)
                             /\ item' = [item EXCEPT ![proc[j].run][i] = proc[j].out]
                             /\ i = Least(proc[j].todo)
      BY <1>3, <2>3, CloseItemDoes
    <3>2. i \in media
      BY <2>1, <3>1, RowFacts DEF RunOK, Claimable
    <3>3. proc[j].out \in States /\ proc[j].out # "excluded"
      <4>1. proc[j].out \in Outcomes \cup {"skipped"} /\ (proc[j].out = "purged" => i \notin media)
        BY <1>0, <1>3, <3>1, ProcFacts DEF CloseItem, ProcOK, Outs
      <4>. QED
        BY <3>2, <4>1, WorkflowAssumption DEF States, ItemDone
    <3>. QED
      BY <2>1, <3>1, <3>2, <3>3, BaseItem, SameRow
  <2>. QED
    BY <2>2, <2>3
<1>4. CASE Tally(j)
  <2>1. Walked /\ UNCHANGED <<setting, item, media, last, acted>>
    BY <1>0, <1>4, TallyDoes, WalksOn
  <2>2. proc[j].run \in Runs /\ proc[j].run <= last
    BY <1>4, BatchFacts DEF Tally
  <2>3. RowOnly(proc[j].run)
    BY <1>4, <2>2, TallyDoes, CountedRow DEF RowSet, RowOnly
  <2>. QED
    BY <2>1, <2>2, <2>3, BaseRow
<1>5. CASE FinishBatch(j)
  BY <1>0, <1>5, FinishBatchDoes, WalksOn, WalkedAlone, BaseFrame DEF Frame
<1>6. CASE SettleRun(j)
  <2>1. Walked /\ UNCHANGED <<setting, item, media, last, acted>>
    BY <1>0, <1>6, SettleRunDoes, WalkedAlone
  <2>2. proc[j].run \in Runs /\ proc[j].run <= last
    BY <1>6, BatchFacts DEF SettleRun
  <2>3. RowOnly(proc[j].run)
    BY <1>6, <2>2, SettleRunDoes, WriteRow, SameRow DEF RowSet, RowOnly, Active, Terminal
  <2>. QED
    BY <2>1, <2>2, <2>3, BaseRow
<1>. QED
  BY <1>1, <1>2, <1>3, <1>4, <1>5, <1>6

\* A place is taken for a run: the bound on runs leaves one.
LEMMA Taken ==
  ASSUME Base, RunsLeft, NEW p \in Procs, NEW x, Becomes(p, x), ProcOK(x, p, last, media), Frame
  PROVE  Base'
<1>1. /\ proc' \in [Procs -> Proc] /\ \A q \in Procs : ProcOK(proc'[q], q, last, media)
  BY DEF Becomes, Base
<1>2. Room'
  <2> DEFINE S == Reserving \cup {p}
  <2>1. IsFiniteSet(Reserving) /\ S \subseteq Procs
    BY FS_Subset, WorkflowAssumption DEF Reserving
  <2>2. Cardinality(S) <= Cardinality(Reserving) + 1 /\ Cardinality(Reserving) \in Nat
        /\ Cardinality(S) \in Nat
    <3>1. Cardinality(S) = IF p \in Reserving THEN Cardinality(Reserving)
                            ELSE Cardinality(Reserving) + 1
      BY <2>1, FS_AddElement
    <3>2. Cardinality(Reserving) \in Nat
      BY <2>1, FS_CardinalityType
    <3> HIDE DEF S
    <3>. QED
      BY <3>1, <3>2
  <2>3. last + Cardinality(Reserving) < NRuns
    BY DEF RunsLeft, Reserving, Reserves
  <2>4. Reserving' \subseteq S
    BY DEF Becomes, Reserving
  <2>5. last \in Nat /\ NRuns \in Nat /\ last' = last + 0
    BY ProcFacts, WorkflowAssumption DEF Frame
  <2>6. Cardinality(S) + 0 + last <= NRuns
    BY <2>2, <2>3, <2>5
  <2> HIDE DEF S
  <2>. QED
    BY <2>1, <2>4, <2>5, <2>6, RoomStays
<1>3. Tables' /\ \A r \in Runs : RunOK(r)'
  BY DEF Base, TypeOK, Tables, Frame, States, RunOK, Enriched, Bypasses
<1>4. \A q \in Procs : ProcOK(proc[q], q, last, media)'
  BY <1>1 DEF Frame, ProcOK, Typed, Bypasses
<1>5. TypeOK' /\ (acted \in [Runs -> [Items -> Nat]])'
  BY <1>1 DEF Base, TypeOK, Frame
<1>. QED
  BY <1>2, <1>3, <1>4, <1>5 DEF Base

\* A run is created in the place that p had taken, and p goes on as x.
LEMMA Created ==
  ASSUME Base, NEW p \in Procs, Reserves(proc[p]), NEW x, Becomes(p, x), ~Reserves(x),
         last' = last + 1, last + 1 \in Runs, UNCHANGED <<setting, media, acted>>,
         ProcOK(x, p, last + 1, media),
         RowOnly(last + 1), item' \in [Runs -> [Items -> States]],
         \A r \in Runs : r # last + 1 => item'[r] = item[r],
         \A i \in Items : item'[last + 1][i] \in {"none"} \cup (IF i \in media THEN {"matched"} ELSE {})
  PROVE  Base'
<1>1. \A q \in Procs : ProcOK(proc[q], q, last, media)'
  <2>1. TAKE q \in Procs
  <2>2. ProcOK(proc[q], q, last, media) /\ last \in Nat
    BY ProcFacts
  <2>3. ProcOK(proc[q], q, last + 1, media)
    BY <2>2 DEF ProcOK, Typed
  <2>4. ProcOK(proc'[q], q, last + 1, media)
    BY <2>3 DEF Becomes
  <2>. QED
    BY <2>4 DEF ProcOK, Typed, Bypasses
<1>2. Room'
  <2> DEFINE S == Reserving \ {p}
  <2>1. IsFiniteSet(Reserving) /\ p \in Reserving /\ S \subseteq Procs
    BY FS_Subset, WorkflowAssumption DEF Reserving
  <2>2. Cardinality(S) = Cardinality(Reserving) - 1 /\ Cardinality(Reserving) \in Nat
    BY <2>1, FS_RemoveElement, FS_CardinalityType
  <2>3. last + Cardinality(Reserving) <= NRuns
    BY DEF Base, Room
  <2>4. Reserving' \subseteq S
    BY DEF Becomes, Reserving
  <2>5. last \in Nat /\ NRuns \in Nat
    BY ProcFacts, WorkflowAssumption
  <2>6. Cardinality(S) + 1 + last <= NRuns
    BY <2>2, <2>3, <2>5
  <2> HIDE DEF S
  <2>. QED
    BY <2>1, <2>4, <2>6, RoomStays
<1>3. \A r \in Runs : RunOK(r)'
  <2>1. TAKE r \in Runs
  <2>2. r \in Nat /\ last \in Nat /\ RunOK(r)
    BY RowFacts
  <2>3. CASE r = last + 1
    BY <2>2, <2>3 DEF RunOK, RowOnly, NoRow, Enriched, Bypasses
  <2>4. CASE r # last + 1
    BY <2>2, <2>4 DEF RunOK, RowOnly, Enriched, Bypasses
  <2>. QED
    BY <2>3, <2>4
<1>4. TypeOK' /\ (acted \in [Runs -> [Items -> Nat]])'
  <2>1. last' \in 0 .. NRuns
    BY WorkflowAssumption DEF Runs
  <2>. QED
    BY <2>1 DEF Base, TypeOK, RowOnly, Becomes, States
<1>. QED
  BY <1>1, <1>2, <1>3, <1>4 DEF Base

LEMMA BaseItemJob ==
  ASSUME Base, NEW j \in Jobs, BeginItem(j) \/ LockWorkflow(j) \/ Append(j)
  PROVE  Base'
<1>0. j \in Procs
  BY DEF Procs
<1>1. CASE BeginItem(j)
  BY <1>0, <1>1, BeginItemDoes, WalksOn, WalkedAlone, BaseFrame DEF Frame
<1>2. CASE LockWorkflow(j)
  <2>1. PICK x : /\ Becomes(j, x) /\ ProcOK(x, j, last, media) /\ x.op = "append"
                 /\ (x.run = 0 /\ RunsLeft) \/ x.run \in OpenRuns
    BY <1>2, LockWorkflowDoes
  <2>2. Frame
    BY <1>2, LockWorkflowDoes
  <2>3. CASE x.run = 0 /\ RunsLeft
    BY <1>0, <2>1, <2>2, <2>3, Taken
  <2>4. CASE x.run \in OpenRuns
    <3>1. x.run # 0
      BY <2>4 DEF OpenRuns, Runs
    <3>2. x \in Proc
      BY <1>0, <2>1 DEF Becomes
    <3>. QED
      BY <1>0, <2>1, <2>2, <3>1, <3>2, WalkedAlone, BaseFrame DEF Walks, Reserves, Frame
  <2>. QED
    BY <2>1, <2>3, <2>4
<1>3. CASE Append(j)
  <2>1. /\ UNCHANGED <<setting, media, acted>> /\ Becomes(j, Idle)
        /\ proc[j].op = "append"
    BY <1>3, AppendDoes
  <2>2. ~Reserves(Idle) /\ ProcOK(Idle, j, last, media) /\ ProcOK(Idle, j, last + 1, media)
    BY <1>0, IdleOK, ProcFacts
  <2>3. Walked
    BY <1>0, <2>1, <2>2, WalkedAlone, IdleFacts DEF Walks
  <2>4. CASE UNCHANGED <<run, item, last>>
    BY <2>1, <2>3, <2>4, BaseFrame DEF Frame
  <2>5. CASE \E i \in Items :
                 /\ i \in media /\ proc[j].run \in Runs /\ proc[j].run <= last
                 /\ item' = [item EXCEPT ![proc[j].run][i] = "matched"]
                 /\ run' = [run EXCEPT ![proc[j].run].matched = @ + 1]
                 /\ last' = last
    <3>1. PICK i \in Items :
                 /\ i \in media /\ proc[j].run \in Runs /\ proc[j].run <= last
                 /\ item' = [item EXCEPT ![proc[j].run][i] = "matched"]
                 /\ run' = [run EXCEPT ![proc[j].run].matched = @ + 1]
                 /\ last' = last
      BY <2>5
    <3>2. RowOnly(proc[j].run)
      <4>1. PICK r, n : r = proc[j].run /\ n = run[proc[j].run].matched + 1
        OBVIOUS
      <4>2. r \in Runs /\ n \in Nat
        BY <3>1, <4>1, RowFacts DEF Row
      <4>3. run' = [run EXCEPT ![r].matched = n]
        BY <3>1, <4>1
      <4>. QED
        BY <4>1, <4>2, <4>3, MatchedRow DEF RowSet, RowOnly
    <3>. QED
      BY <2>1, <2>3, <3>1, <3>2, BaseItem DEF States
  <2>6. CASE \E i \in Items :
                 /\ i \in media /\ proc[j].run = 0 /\ last' = last + 1
                 /\ item' = [item EXCEPT ![last + 1][i] = "matched"]
                 /\ run' = [run EXCEPT ![last + 1] =
                       [NoRow EXCEPT !.status = "running", !.started = TRUE, !.matched = 1]]
    <3>1. PICK i \in Items :
                 /\ i \in media /\ proc[j].run = 0 /\ last' = last + 1
                 /\ item' = [item EXCEPT ![last + 1][i] = "matched"]
                 /\ run' = [run EXCEPT ![last + 1] =
                       [NoRow EXCEPT !.status = "running", !.started = TRUE, !.matched = 1]]
      BY <2>6
    <3>2. Reserves(proc[j])
      BY <2>1, <3>1 DEF Reserves
    <3>3. last + 1 \in Runs
      BY <1>0, <3>2, PlaceLeft
    <3>4. RowOnly(last + 1)
      <4>1. PICK r : r = last + 1
        OBVIOUS
      <4>2. RowSet(r, "running", TRUE, FALSE, FALSE)
        BY <3>1, <3>3, <4>1, OpenRow
      <4>. QED
        BY <4>1, <4>2 DEF RowSet, RowOnly
    <3>5. \A k \in Items : item[last + 1][k] = "none"
      BY <1>0, <3>3, RowFacts DEF RunOK
    <3>6. /\ item' \in [Runs -> [Items -> States]]
          /\ \A r \in Runs : r # last + 1 => item'[r] = item[r]
          /\ \A k \in Items : item'[last + 1][k] = IF k = i THEN "matched" ELSE "none"
      <4>1. item \in [Runs -> [Items -> States]] /\ "matched" \in States
        BY DEF Base, TypeOK, States
      <4>. QED
        BY <3>1, <3>3, <3>5, <4>1
    <3>7. \A k \in Items :
            item'[last + 1][k] \in {"none"} \cup (IF k \in media THEN {"matched"} ELSE {})
      BY <3>1, <3>6
    <3>. QED
      BY <1>0, <2>1, <2>2, <3>1, <3>2, <3>3, <3>4, <3>6, <3>7, Created
  <2>. QED
    BY <1>3, <2>4, <2>5, <2>6, AppendDoes
<1>. QED
  BY <1>1, <1>2, <1>3

LEMMA BaseCreate ==
  ASSUME Base, NEW p \in Procs, CreateRun(p)
  PROVE  Base'
<1>1. /\ UNCHANGED <<setting, item, media, acted>> /\ proc[p].op = "create"
      /\ last' = last + 1 /\ last + 1 \in Runs /\ Write(last + 1, "evaluating")
  BY CreateRunDoes
<1>2. PICK x : Becomes(p, x) /\ ProcOK(x, p, last + 1, media) /\ x.op = "announce"
  BY CreateRunDoes
<1>3. RowOnly(last + 1)
  <2>1. PICK r : r = last + 1
    OBVIOUS
  <2>2. RowSet(r, "evaluating", run[r].started, run[r].approved, run[r].due)
    BY <1>1, <2>1, WriteRow DEF Active
  <2>. QED
    BY <2>1, <2>2 DEF RowSet, RowOnly
<1>4. \A i \in Items : item[last + 1][i] = "none"
  BY <1>1, RowFacts DEF RunOK
<1>5. item \in [Runs -> [Items -> States]]
  BY DEF Base, TypeOK, States
<1>. QED
  BY <1>1, <1>2, <1>3, <1>4, <1>5, Created DEF Reserves

LEMMA BaseAlone ==
  ASSUME Base, NEW p \in Procs, AnnounceRun(p) \/ Exclude(p) \/ Approve(p) \/ Cancel(p) \/ DispatchRun(p)
  PROVE  Base'
<1>1. CASE AnnounceRun(p)
  BY <1>1, AnnounceRunDoes, BaseFrame
<1>2. CASE Exclude(p)
  <2>1. Walked /\ UNCHANGED <<setting, run, media, last, acted>>
    BY <1>2, ExcludeDoes, WalksOn
  <2>2. proc[p].run \in Runs /\ proc[p].run <= last /\ ~Bypasses
    BY <1>2, ExcludeDoes
  <2>3. PICK X \in SUBSET Matched(proc[p].run) :
          item' = [item EXCEPT ![proc[p].run] = [i \in Items |-> IF i \in X THEN "excluded" ELSE @[i]]]
    BY <1>2, ExcludeDoes
  <2>4. /\ item' \in [Runs -> [Items -> States]]
        /\ \A q \in Runs, i \in Items :
             item'[q][i] = IF q = proc[p].run /\ i \in X THEN "excluded" ELSE item[q][i]
    <3>1. item \in [Runs -> [Items -> States]] /\ "excluded" \in States
      BY DEF Base, TypeOK, States
    <3>. QED
      BY <2>2, <2>3, <3>1
  <2>5. \A i \in X : i \in media
    BY <2>2, RowFacts DEF Matched, RunOK
  <2>6. Tables'
    BY <2>1, <2>4 DEF Base, TypeOK, Tables
  <2>7. \A q \in Runs : RunOK(q)'
    <3>1. TAKE q \in Runs
    <3>2. RunOK(q) /\ q \in Nat /\ last \in Nat
      BY RowFacts
    <3>. QED
      BY <2>1, <2>2, <2>4, <2>5, <3>2, RowFacts DEF RunOK, Enriched, Bypasses
  <2>. QED
    BY <2>1, <2>6, <2>7, BaseKept
<1>3. CASE Approve(p)
  <2>1. Walked /\ UNCHANGED <<setting, item, media, last, acted>> /\ proc[p].run \in Runs
    BY <1>3, ApproveDoes, WalksOn, WalkedAlone
  <2>2. RowOnly(proc[p].run)
    BY <1>3, <2>1, ApproveDoes, ApproveRow, SameRow DEF RowSet, RowOnly
  <2>3. proc[p].run <= last
    BY <1>3, AloneFacts DEF Approve, Asking
  <2>. QED
    BY <2>1, <2>2, <2>3, BaseRow
<1>4. CASE Cancel(p)
  <2>1. /\ Walked /\ UNCHANGED <<setting, item, media, last, acted>>
        /\ proc[p].run \in Runs /\ proc[p].run <= last
    BY <1>4, CancelDoes, WalkedAlone
  <2>2. RowOnly(proc[p].run)
    BY <1>4, <2>1, CancelDoes, WriteRow, SameRow DEF RowSet, RowOnly, Terminal
  <2>. QED
    BY <2>1, <2>2, BaseRow
<1>5. CASE DispatchRun(p)
  <2>1. /\ Walked /\ UNCHANGED <<setting, item, media, last, acted>>
        /\ proc[p].run \in Runs /\ proc[p].run <= last
    BY <1>5, DispatchRunDoes, WalksOn, WalkedAlone
  <2>2. RowOnly(proc[p].run)
    BY <1>5, <2>1, DispatchRunDoes, WriteRow, SameRow DEF RowSet, RowOnly, Terminal
  <2>. QED
    BY <2>1, <2>2, BaseRow
<1>. QED
  BY <1>1, <1>2, <1>3, <1>4, <1>5

LEMMA BaseAsk ==
  ASSUME Base, NEW p \in Requests, Asks(p)
  PROVE  Base'
<1>0. p \in Procs /\ p \notin Jobs
  BY WorkflowAssumption DEF Procs
<1>1. CASE AskCreate(p)
  <2>1. Admitted(p)
    BY <1>1 DEF AskCreate
  <2>. QED
    BY <1>0, <2>1, AdmittedDoes, Taken
<1>2. ASSUME NEW r \in Runs, AskApprove(p, r)
      PROVE  Base'
  <2>1. r <= last /\ ~Bypasses /\ Ask(p, r, "exclude")
    BY <1>2, RowFacts DEF AskApprove, Approvable, Exists, RunOK
  <2>. QED
    BY <1>0, <2>1, AskDoes, WalkedAlone, BaseFrame DEF Frame
<1>3. ASSUME NEW r \in Runs, AskCancel(p, r)
      PROVE  Base'
  <2>1. r <= last /\ Ask(p, r, "cancel")
    BY <1>3, RowFacts DEF AskCancel, Cancellable, Active, Exists
  <2>. QED
    BY <1>0, <2>1, AskDoes, WalkedAlone, BaseFrame DEF Frame
<1>. QED
  BY <1>1, <1>2, <1>3 DEF Asks

LEMMA BaseStamp ==
  ASSUME Base, NEW c \in Crons, NEW r \in Runs, StampRun(c, r)
  PROVE  Base'
<1>1. /\ UNCHANGED <<setting, item, media, last, acted>> /\ r <= last /\ c \in Procs
      /\ run' = [run EXCEPT ![r].approved = TRUE] /\ \E x : Walks(c, x)
  BY StampRunDoes
<1>2. RowOnly(r)
  BY <1>1, StampRow DEF RowSet, RowOnly
<1>. QED
  BY <1>1, <1>2, WalkedAlone, BaseRow

LEMMA WalkedStill ==
  ASSUME Base, proc' = proc, setting' = setting, media' \subseteq media
  PROVE  Walked
<1>1. \A q \in Procs : ProcOK(proc[q], q, last, media)
  BY DEF Base
<1>2. \A q \in Procs : ProcOK(proc'[q], q, last, media')
  BY <1>1 DEF ProcOK, Typed
<1>. QED
  BY <1>2 DEF Base, TypeOK, Walked, Reserving

LEMMA BaseTime ==
  ASSUME Base, NEW r \in Runs, WindowElapses(r) \/ Expire(r) \/ DeleteOld(r)
  PROVE  Base'
<1>1. CASE WindowElapses(r)
  <2>1. /\ UNCHANGED <<setting, item, media, proc, last, acted>> /\ r \in OpenRuns
        /\ run' = [run EXCEPT ![r].due = TRUE]
    BY <1>1 DEF WindowElapses
  <2>2. r <= last /\ RowOnly(r)
    BY <2>1, DueRow, RowFacts DEF OpenRuns, Exists, RowSet, RowOnly, Enriched
  <2>. QED
    BY <2>1, <2>2, WalkedStill, BaseRow
<1>2. CASE Expire(r)
  <2>1. /\ UNCHANGED <<setting, item, media, proc, last, acted>>
        /\ run[r].status = "awaiting_approval" /\ Write(r, "expired")
    BY <1>2 DEF Expire
  <2>2. r <= last /\ RowOnly(r)
    BY <2>1, WriteRow, RowFacts DEF Exists, RowSet, RowOnly, Terminal
  <2>. QED
    BY <2>1, <2>2, WalkedStill, BaseRow
<1>3. CASE DeleteOld(r)
  <2>1. /\ UNCHANGED <<setting, media, proc, last, acted>> /\ run[r].status \in Terminal
        /\ run' = [run EXCEPT ![r] = NoRow]
        /\ item' = [item EXCEPT ![r] = [i \in Items |-> "none"]]
    BY <1>3 DEF DeleteOld
  <2>2. r <= last
    BY <2>1, RowFacts DEF Terminal, Exists
  <2>3. Tables'
    BY <2>1, NoRowFacts DEF Base, TypeOK, Tables, States
  <2>4. \A q \in Runs : RunOK(q)'
    <3>1. TAKE q \in Runs
    <3>2. CASE q = r
      <4>1. run'[q] = NoRow /\ \A i \in Items : item'[q][i] = "none"
        BY <2>1, <3>2 DEF Base, TypeOK
      <4>. QED
        BY <2>1, <2>2, <3>2, <4>1, NoRowFacts, RowFacts DEF RunOK
    <3>3. CASE q # r
      BY <2>1, <3>3 DEF Base, TypeOK, RunOK, Enriched, Bypasses
    <3>. QED
      BY <3>2, <3>3
  <2>. QED
    BY <2>1, <2>3, <2>4, WalkedStill, BaseKept
<1>. QED
  BY <1>1, <1>2, <1>3

LEMMA BaseFault ==
  ASSUME Base,
         \/ \E p \in Procs : Crash(p)
         \/ \E j \in Jobs : Throws(j) \/ Redeliver(j)
         \/ \E i \in Items : Signal(i) \/ Vanish(i)
  PROVE  Base'
<1>1. ASSUME NEW p \in Procs, Crash(p)
      PROVE  Base'
  BY <1>1, CrashDoes, WalkedAlone, BaseFrame DEF Frame
<1>2. ASSUME NEW j \in Jobs, Throws(j)
      PROVE  Base'
  <2>1. /\ Walked /\ UNCHANGED <<setting, item, media, last, acted>>
    BY <1>2, ThrowsDoes, WalkedAlone
  <2>2. CASE run' = run
    BY <2>1, <2>2, BaseFrame DEF Frame
  <2>3. CASE run' # run
    <3>1. Exists(proc[j].run) /\ proc[j].run \in Runs /\ Write(proc[j].run, "failed")
      BY <1>2, <2>3, ThrowsDoes
    <3>2. RowOnly(proc[j].run) /\ proc[j].run <= last
      BY <3>1, WriteRow, RowFacts DEF RowSet, RowOnly, Terminal
    <3>. QED
      BY <2>1, <3>1, <3>2, BaseRow
  <2>. QED
    BY <2>2, <2>3
<1>3. ASSUME NEW j \in Jobs, Redeliver(j)
      PROVE  Base'
  BY <1>3, RedeliverDoes, WalkedAlone, BaseFrame DEF Frame
<1>4. ASSUME NEW i \in Items, Signal(i)
      PROVE  Base'
  BY <1>4, SignalDoes, WalkedAlone, BaseFrame DEF Frame
<1>5. ASSUME NEW i \in Items, Vanish(i)
      PROVE  Base'
  <2>1. Purge(i) /\ UNCHANGED <<setting, run, proc, last, acted>>
    BY <1>5 DEF Vanish
  <2>2. media' \subseteq media
    BY <2>1 DEF Purge
  <2>. QED
    BY <2>1, <2>2, WalkedStill, BasePurge DEF Base
<1>. QED
  BY <1>1, <1>2, <1>3, <1>4, <1>5

LEMMA BaseInit ==
  ASSUME Init
  PROVE  Base
<1>. USE WorkflowAssumption
<1>1. Idle \in Proc /\ NoRow \in Row /\ NoRow.status = "none" /\ NoRow.due = FALSE
  BY IdleFacts, NoRowFacts
<1>2. TypeOK /\ acted \in [Runs -> [Items -> Nat]]
  BY <1>1 DEF Init, TypeOK
<1>3. \A p \in Procs : ProcOK(proc[p], p, last, media)
  BY IdleOK DEF Init
<1>4. \A r \in Runs : RunOK(r)
  BY <1>1 DEF Init, RunOK
<1>5. Room
  <2>1. Reserving = {}
    BY IdleFacts DEF Init, Reserving, Reserves
  <2>2. Cardinality(Reserving) = 0
    BY <2>1, FS_EmptySet
  <2>. QED
    BY <2>2 DEF Init, Room
<1>. QED
  BY <1>2, <1>3, <1>4, <1>5 DEF Base

LEMMA BaseStep ==
  ASSUME Base, [Next]_vars
  PROVE  Base'
<1>1. ASSUME NEW j \in Jobs, JobStep(j)
      PROVE  Base'
  BY <1>1, BaseEvaluate, BaseRead, BaseBatch, BaseAct, BaseItemJob DEF JobStep, Procs
<1>2. ASSUME NEW p \in Procs, RequestStep(p) \/ CronStep(p)
      PROVE  Base'
  BY <1>2, BaseCreate, BaseAlone, BaseRead DEF RequestStep, CronStep
<1>3. ASSUME NEW p \in Requests, Asks(p)
      PROVE  Base'
  BY <1>3, BaseAsk
<1>4. ASSUME NEW c \in Crons, ScheduleFires(c)
      PROVE  Base'
  <2>1. c \in Procs \ Jobs /\ Admitted(c)
    BY <1>4, WorkflowAssumption DEF ScheduleFires, Procs
  <2>. QED
    BY <2>1, AdmittedDoes, Taken
<1>5. CASE UNCHANGED vars
  BY <1>5, WalkedStill, BaseFrame DEF vars, Frame
<1>. QED
  BY <1>1, <1>2, <1>3, <1>4, <1>5, BaseStamp, BaseTime, BaseFault DEF Next, Procs

\* Type correctness: the tables of workflow_runs and workflow_run_items and the
\* processes keep their types, in particular no job is about a run that was
\* never created.
THEOREM TypeCorrect == Spec => []TypeOK
<1>1. Base => TypeOK
  BY DEF Base
<1>. QED
  BY <1>1, BaseInit, BaseStep, PTL DEF Spec
=============================================================================
