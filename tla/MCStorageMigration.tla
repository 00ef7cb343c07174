------------------------- MODULE MCStorageMigration -------------------------
(* Instances of StorageMigration for TLC. *)
EXTENDS StorageMigration

CONSTANTS o1, o2

Of(F, m, n, S) == [faults |-> F, mishaps |-> m, runs |-> n, objects |-> S]

\* Two objects in one run, or one object that is migrated twice
Mixed == {
  Of({"crash", "dbFault"}, 2, 1, {o1, o2}),
  Of({"deleted", "crash"}, 1, 1, {o1, o2}),
  Of({"slow", "retried"}, 2, 1, {o1, o2}),
  Of({"lateCancel"}, 0, 1, {o1, o2}),
  Of({"edited", "lateEdit"}, 1, 1, {o1}),
  Of({"edited", "deleted", "crash"}, 1, 2, {o1})}

Deleted == {Of({"deleted"}, 1, 1, {o1, o2})}
=============================================================================
