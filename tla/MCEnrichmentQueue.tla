-------------------------- MODULE MCEnrichmentQueue --------------------------
(***************************************************************************)
(* The enrichment queue with one loop in the server and one worker node.   *)
(***************************************************************************)
EXTENDS EnrichmentQueue

CONSTANTS n1, a1, a2

\* Two lanes: the smallest node that can claim a job again while its earlier
\* execution of that job is still running.
TwoLanes == [l \in {a1, a2} |-> n1]

OneLane == [l \in {a1} |-> n1]
=============================================================================
