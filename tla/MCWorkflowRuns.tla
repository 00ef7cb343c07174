--------------------------- MODULE MCWorkflowRuns ---------------------------
(* Instances of WorkflowRuns for TLC. *)
EXTENDS WorkflowRuns

Manual(preview, F, asks) ==
  [trigger |-> "manual", preview |-> preview, faults |-> F, asks |-> asks, signals |-> 0]
Scheduled(asks) == [Manual(TRUE, {}, asks) EXCEPT !.trigger = "scheduled"]
Enriched(F, asks, evaluations) ==
  [Manual(TRUE, F, asks) EXCEPT !.trigger = "on_media_enriched", !.signals = evaluations]

AllSettings ==
  {Manual(TRUE, {}, 3), Manual(FALSE, {}, 2), Scheduled(1), Enriched({}, 1, 2),
   Manual(TRUE, {"stale", "emptied"}, 3), Manual(TRUE, {"crash", "fails"}, 2),
   Manual(TRUE, {"redeliver"}, 2),
   Enriched({"emptied"}, 0, 2), Enriched({"window"}, 0, 2)}

RunNow == {Enriched({"runNow"}, 1, 1)}
=============================================================================
