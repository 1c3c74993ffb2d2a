------------------------------ MODULE MCRuntime ------------------------------
(* A small runtime database: one workspace, two native turns. *)
EXTENDS Runtime

CONSTANTS w1, t1, t2

MCWorkspaces == {w1}
MCTurns == {t1, t2}
=============================================================================
