-------------------------- MODULE MCDatabaseRestore --------------------------
(* Instances of DatabaseRestore for TLC. *)
EXTENDS DatabaseRestore

AllSettings ==
  {{}, {"crash", "dropFails"}, {"dbFault"}, {"rowFails"}, {"carryFails", "again"},
   {"putBackFails", "lateBackup"}, {"lifted"}, {"overlap"}}
NoFaults == {{}}
=============================================================================
