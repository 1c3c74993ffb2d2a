--------------------------- MODULE MCTaskApproval ---------------------------
(* Small instances of TaskApproval. *)
EXTENDS TaskApproval, TLC

CONSTANTS t1, t2, r1, r2, h1, h2

MCOneTask  == {t1}
MCTasks    == {t1, t2}
MCRids     == {r1, r2}
MCHandlers == {h1, h2}
MCSymmetry == Permutations(MCRids) \cup Permutations(MCHandlers)
=============================================================================
