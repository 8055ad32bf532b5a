--------------------------- MODULE MCTaskManager ---------------------------
(* Three processes, two of them one sub-communicator. *)
EXTENDS TaskManager

CONSTANTS r1, r2, r3

MCGroups == {{r1, r2}, {r3}}

=============================================================================
