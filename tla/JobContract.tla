----------------------------- MODULE JobContract -----------------------------
(***************************************************************************)
(* What the job queue promises, without rows, copies, leases or reapers: a *)
(* job is executed by one worker at a time; only that worker settles it,   *)
(* or, once that worker is gone, the queue itself; a settled job stays     *)
(* settled until an administrator puts it back.                            *)
(***************************************************************************)
CONSTANTS Jobs, Workers, None

VARIABLES
  state,   \* status of each job
  worker   \* the live worker that executes it, if any

vars == <<state, worker>>

Init ==
  /\ state = [j \in Jobs |-> "absent"]
  /\ worker = [j \in Jobs |-> None]

Submit(j) ==
  /\ state[j] = "absent"
  /\ state' = [state EXCEPT ![j] = "pending"]
  /\ UNCHANGED worker

\* A free worker starts a waiting job; w = None when it never hears of it.
Start(j, w) ==
  /\ state[j] = "pending"
  /\ w # None => \A k \in Jobs : worker[k] # w
  /\ state' = [state EXCEPT ![j] = "running"]
  /\ worker' = [worker EXCEPT ![j] = w]

\* The worker itself ends the attempt.
Finish(j, outcome) ==
  /\ state[j] = "running"
  /\ worker[j] # None
  /\ state' = [state EXCEPT ![j] = outcome]
  /\ worker' = [worker EXCEPT ![j] = None]

Lose(W) ==
  /\ worker' = [j \in Jobs |-> IF worker[j] \in W THEN None ELSE worker[j]]
  /\ UNCHANGED state

Orphans == {j \in Jobs : state[j] = "running" /\ worker[j] = None}

Move(S, to) ==
  /\ state' = [j \in Jobs |-> IF j \in S THEN to ELSE state[j]]
  /\ UNCHANGED worker

\* The queue takes back jobs nobody executes, to run again or to give up.
Recover(S, to) ==
  /\ S \subseteq Orphans
  /\ Move(S, to)

\* An administrator acts on jobs that are not running.
Reset(S, to) ==
  /\ \A j \in S : state[j] \in {"pending", "succeeded", "failed"}
  /\ Move(S, to)

Next ==
  \/ \E j \in Jobs : Submit(j)
  \/ \E j \in Jobs, w \in Workers \cup {None} : Start(j, w)
  \/ \E j \in Jobs, o \in {"pending", "succeeded", "failed"} : Finish(j, o)
  \/ \E W \in SUBSET Workers : Lose(W)
  \/ \E S \in SUBSET Jobs, to \in {"pending", "failed"} : Recover(S, to)
  \/ \E S \in SUBSET Jobs, to \in {"pending", "deleted"} : Reset(S, to)

Spec == Init /\ [][Next]_vars
=============================================================================
