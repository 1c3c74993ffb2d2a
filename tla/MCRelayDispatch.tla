--------------------------- MODULE MCRelayDispatch ---------------------------
(* Small instances of RelayDispatch. *)
EXTENDS RelayDispatch, TLC

CONSTANTS w1, w2

MCWorkers == {w1, w2}
MCSymmetry == Permutations(MCWorkers)
=============================================================================
