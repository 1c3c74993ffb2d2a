-------------------------- MODULE ApprovalPromise --------------------------
(***************************************************************************)
(* What the approval flow promises to the two sides it connects: the        *)
(* app-server, which asked and waits for an answer, and the user, whose      *)
(* click is recorded.  A request is decided once; it is answered at most     *)
(* once, and only with what was decided for it; the connection may be lost   *)
(* before the answer.                                                        *)
(***************************************************************************)
EXTENDS Naturals

CONSTANTS Requests

VARIABLES
    reply,    \* what the app-server has of each request
    verdict   \* what the ledger has of each request

Answers   == {"approve", "deny", "cancel"}
Verdicts  == {"approved", "void", "denied", "cancelled"}

\* A cancellation may be on record as a denial, and be sent as one; a void approval
\* has nothing left to grant.
Means(a, v) ==
    \/ a = "approve" /\ v = "approved"
    \/ a = "deny" /\ v \in {"denied", "cancelled", "void"}
    \/ a = "cancel" /\ v \in {"denied", "cancelled"}

Init == reply = [q \in Requests |-> "none"] /\ verdict = [q \in Requests |-> "none"]

Ask(q) == reply[q] = "none" /\ reply' = [reply EXCEPT ![q] = "open"] /\ UNCHANGED verdict

\* A click decides its request, and with it the others of a batch.
Decide ==
    /\ verdict' \in [Requests -> {"none"} \cup Verdicts]
    /\ \A q \in Requests : verdict'[q] # verdict[q] => verdict[q] = "none"
    /\ UNCHANGED reply

Answer(q, a) ==
    /\ reply[q] = "open" /\ Means(a, verdict[q])
    /\ reply' = [reply EXCEPT ![q] = a]
    /\ UNCHANGED verdict

Lose ==
    /\ reply' \in [Requests -> {"none", "open", "lost"} \cup Answers]
    /\ \A q \in Requests : reply'[q] # reply[q] => reply[q] = "open" /\ reply'[q] = "lost"
    /\ UNCHANGED verdict

Next ==
    \/ \E q \in Requests : Ask(q) \/ \E a \in Answers : Answer(q, a)
    \/ Decide \/ Lose

Spec == Init /\ [][Next]_<<reply, verdict>>
=============================================================================
