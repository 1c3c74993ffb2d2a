-------------------------- MODULE MCRelayCompletion --------------------------
(* Two coroutines and two rounds with a run each; either run may be asked once
   more, so that a late first answer meets a round with a second turn. *)
EXTENDS RelayCompletion

CONSTANTS w1, w2

MCWorkers == {w1, w2}
=============================================================================
