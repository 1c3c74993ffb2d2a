---------------------------- MODULE MCRelayQueue ----------------------------
(* Two tasks that share one workspace; model values for tasks and workers. *)
EXTENDS RelayQueue, TLC

CONSTANTS w1, w2, t1, t2, wsA

MCWorkers == {w1, w2}
MCTasks == {t1, t2}
MCWorkspaces == {wsA}
MCWorkspaceOf == [t \in MCTasks |-> wsA]

OneTask == {t1}
OneTaskWorkspaceOf == [t \in OneTask |-> wsA]

OneTaskSymmetry == Permutations(MCWorkers)
=============================================================================
