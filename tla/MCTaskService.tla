--------------------------- MODULE MCTaskService ---------------------------
(* Small instances of TaskService. *)
EXTENDS TaskService

CONSTANT w1

MCWorkspaces == {w1}
=============================================================================
