-------------------------- MODULE MCDatabaseBackup --------------------------
(* Instances of DatabaseBackup for TLC. *)
EXTENDS DatabaseBackup

In(hazards, keep, runs, days) ==
  [hazards |-> hazards, keep |-> keep, runs |-> runs, days |-> days]

\* A retention of two needs three runs to prune one; the other hazards meet in
\* two runs.
Mixed == {In({"deleteFails", "dbFault"}, 2, 3, 2),
          In({"lapse", "lateCancel", "deleteFails", "dbFault"}, 1, 2, 1),
          In({"lateUpload", "deleteFails"}, 1, 2, 1)}

LateCancel == {In({"lateCancel"}, 1, 1, 1)}
=============================================================================
