----------------------------- MODULE RelayQueue -----------------------------
(***************************************************************************)
(* The durable queue of user inputs that Relay keeps while a task's round  *)
(* is still running, and the workers that turn a queued input into the     *)
(* task's next round (wlcodex/relay/store.py, wlcodex/relay/service.py).   *)
(*                                                                         *)
(* A worker first takes a lease on the input and, with it, a fence on the  *)
(* whole workspace; both rows carry one expiry time, after which any other *)
(* worker may take them over.  It then writes a transition marker, starts  *)
(* the follow-up round, records the follow-up, dispatches the director to  *)
(* the provider (an await) and finally marks the input consumed.  A worker *)
(* may crash between any two of these durable writes.                      *)
(*                                                                         *)
(* Users meanwhile queue, cancel and steer inputs and send follow-ups, and *)
(* an operator opens and closes the maintenance window.                    *)
(***************************************************************************)
EXTENDS Naturals, Sequences, FiniteSets, FiniteSetsExt

CONSTANTS
    Workers,      \* coroutines that run the queue consumer
    Tasks,        \* Relay tasks (team runs)
    Workspaces,
    WorkspaceOf,  \* the workspace of each task
    Inputs,       \* pending-input ids, handed out in increasing order
    None,
    CanSteer,     \* the provider's can_steer_active_turn capability
    MaxRound,     \* bound: messages open no round beyond this one
    MaxFaults,    \* bound: workers crashing or outliving their lease in one behaviour
    MaxFreezes    \* bound: maintenance windows opened in one behaviour

ASSUME QueueAssumption ==
    /\ WorkspaceOf \in [Tasks -> Workspaces]
    /\ Inputs \subseteq Nat \ {0}
    /\ None \notin Workers \cup Tasks \cup Inputs
    /\ CanSteer \in BOOLEAN
    /\ MaxRound \in Nat \ {0} /\ MaxFaults \in Nat /\ MaxFreezes \in Nat

VARIABLES
    rounds,     \* relay_rounds: per task, the sequence of [status, trigger]
    attempt,    \* status of the director's latest attempt in the current round
    inputs,     \* relay_pending_inputs
    leases,     \* relay_workspace_queue_leases, one row per input at most
    locks,      \* relay_workspace_queue_locks, one row per workspace at most
    marker,     \* source_round_id of the pending_input_transition artifact, 0 if none
    followups,  \* inputs with a user_followup artifact, steered or consumed
    steering,   \* inputs whose steer call is awaiting the provider
    job,        \* what each worker is doing
    frozen,     \* submissions_frozen of the maintenance window
    faults, freezes

vars == <<rounds, attempt, inputs, leases, locks, marker, followups, steering,
          job, frozen, faults, freezes>>

RoundStatus   == {"running", "completed", "failed", "blocked", "interrupted", "superseded"}
AttemptStatus == {"queued", "dispatching", "streaming", "passed", "failed", "blocked",
                  "interrupted"}
InputStatus   == {"new", "pending", "steered", "consumed", "cancelled"}

\* "claim" and "claimed" .. "finish" follow the statements of
\* consume_pending_after_round and _consume_claimed_pending_input.
Pc == {"idle", "claim", "claimed", "marked", "started", "dispatch",
       "dispatching", "finish"}

NoLease == [owner |-> None, live |-> FALSE]
NoLock  == [input |-> None, owner |-> None, live |-> FALSE]
Idle    == [pc |-> "idle", task |-> None, input |-> None, source |-> 0,
            target |-> 0]

Round == [status : RoundStatus, trigger : Inputs \cup {None}]
Lease == [owner : Workers \cup {None}, live : BOOLEAN]
Lock  == [input : Inputs \cup {None}, owner : Workers \cup {None}, live : BOOLEAN]
Input == [status : InputStatus, task : Tasks \cup {None}, after : Nat, into : Nat]
Job   == [pc : Pc, task : Tasks \cup {None}, input : Inputs \cup {None},
          source : Nat, target : Nat]

\* Keeps the row types honest; everything else below is about behaviour.
TypeOK ==
    /\ rounds \in [Tasks -> Seq(Round)]
    /\ attempt \in [Tasks -> AttemptStatus]
    /\ inputs \in [Inputs -> Input]
    /\ leases \in [Inputs -> Lease]
    /\ locks \in [Workspaces -> Lock]
    /\ marker \in [Inputs -> Nat]
    /\ followups \subseteq Inputs
    /\ steering \subseteq Inputs
    /\ job \in [Workers -> Job]
    /\ frozen \in BOOLEAN
    /\ faults \in Nat
    /\ freezes \in Nat

-----------------------------------------------------------------------------
(* Rounds *)

LiveRounds(t) == {r \in DOMAIN rounds[t] : rounds[t][r].status # "superseded"}

CurrentRound(t) ==
    IF LiveRounds(t) # {} THEN Max(LiveRounds(t)) ELSE Len(rounds[t])

CurrentStatus(t) == rounds[t][CurrentRound(t)].status

\* The ends that start_followup_round leaves alone and the reconcile loop skips.
Ended == {"completed", "failed", "interrupted"}

\* start_followup_round: the current round is superseded unless it ended as
\* completed, failed or interrupted; the next one starts with a queued director.
StartFollowupRound(t, trigger) ==
    rounds' = [rounds EXCEPT ![t] =
         Append([r \in DOMAIN @ |->
                   IF r = CurrentRound(t) /\ @[r].status \notin Ended
                   THEN [@[r] EXCEPT !.status = "superseded"] ELSE @[r]],
                [status |-> "running", trigger |-> trigger])]

\* followup_round_for_transition_artifact: the rounds bound to an input.
RoundsOf(i) == {r \in DOMAIN rounds[inputs[i].task] :
                  rounds[inputs[i].task][r].trigger = i}

-----------------------------------------------------------------------------
(* Leases and the workspace fence *)

Ws(i) == WorkspaceOf[inputs[i].task]

\* Variant: only the claimed input itself is protected, as before the fence.
WorkspaceNeverBusy(ws) == FALSE

\* Variant: an expired fence is never taken over.
WorkspaceBusyForever(ws) == locks[ws].input # None

\* A live fence, or a live lease left by a release without the fence.
WorkspaceBusy(ws) ==
    \/ locks[ws].input # None /\ locks[ws].live
    \/ \E i \in Inputs : /\ leases[i].owner # None /\ leases[i].live
                         /\ inputs[i].task # None /\ Ws(i) = ws

OwnsLease(w, i) == leases[i].owner = w /\ leases[i].live

OwnsLock(w, i) == locks[Ws(i)].input = i /\ locks[Ws(i)].owner = w /\ locks[Ws(i)].live

\* Variant: the rows are owned by the task, so its workers pass for one another.
TakeClaimByTask(w, i) ==
    /\ leases' = [leases EXCEPT ![i] = [owner |-> inputs[i].task, live |-> TRUE]]
    /\ locks' = [locks EXCEPT ![Ws(i)] =
                   [input |-> i, owner |-> inputs[i].task, live |-> TRUE]]

\* claim_pending_input_for_workspace, once an input is selected.
TakeClaim(w, i) ==
    /\ leases' = [leases EXCEPT ![i] = [owner |-> w, live |-> TRUE]]
    /\ locks' = [locks EXCEPT ![Ws(i)] = [input |-> i, owner |-> w, live |-> TRUE]]

\* The claim found nothing: the only trace is the deletion of an expired fence.
ClaimNothing(ws) ==
    /\ locks' = IF locks[ws].live THEN locks ELSE [locks EXCEPT ![ws] = NoLock]
    /\ UNCHANGED leases

\* Variant: the fence is deleted by workspace, without looking at its owner.
ReleaseWorkspace(w, i) ==
    IF leases[i].owner = w
    THEN /\ leases' = [leases EXCEPT ![i] = NoLease]
         /\ locks' = [locks EXCEPT ![Ws(i)] = NoLock]
    ELSE UNCHANGED <<leases, locks>>

\* release_pending_input_claim: only rows this worker still owns are deleted.
ReleaseClaim(w, i) ==
    IF leases[i].owner = w
    THEN /\ leases' = [leases EXCEPT ![i] = NoLease]
         /\ locks' = IF locks[Ws(i)].input = i /\ locks[Ws(i)].owner = w
                     THEN [locks EXCEPT ![Ws(i)] = NoLock] ELSE locks
    ELSE UNCHANGED <<leases, locks>>

\* Somebody is still working under the lease of input i.
AtWork(i) == \E w \in Workers : job[w].input = i /\ job[w].pc # "idle" /\ OwnsLease(w, i)

\* Time passes the expiry both rows of a claim were written with.  The lease of
\* a worker that is still running expires only if the worker stalled, a fault.
Expire(i) ==
    /\ leases[i].live
    /\ \/ ~AtWork(i) /\ UNCHANGED faults
       \/ AtWork(i) /\ faults < MaxFaults /\ faults' = faults + 1
    /\ leases' = [leases EXCEPT ![i].live = FALSE]
    /\ locks' = [ws \in Workspaces |->
                   IF locks[ws].input = i THEN [locks[ws] EXCEPT !.live = FALSE]
                   ELSE locks[ws]]
    /\ UNCHANGED <<rounds, attempt, inputs, marker, followups, steering, job,
                   frozen, freezes>>

-----------------------------------------------------------------------------
(* Users and the operator *)

\* queue_user_input through queue_or_followup_user_input, while the round runs.
QueueInput(t, i) ==
    /\ ~frozen
    /\ CurrentStatus(t) = "running"
    /\ inputs[i].status = "new"
    /\ \A j \in Inputs : j < i => inputs[j].status # "new"
    /\ inputs' = [inputs EXCEPT ![i] =
         [status |-> "pending", task |-> t, after |-> CurrentRound(t), into |-> 0]]
    /\ UNCHANGED <<rounds, attempt, leases, locks, marker, followups, steering,
                   job, frozen, faults, freezes>>

\* add_user_message: POST .../message in any state, and .../inputs once the round
\* is over.  The message opens the next round at once, superseding one that still
\* runs.  Its own dispatch is taken as done (see RelayDispatch).
AddUserMessage(t) ==
    /\ ~frozen
    /\ Len(rounds[t]) < MaxRound
    /\ StartFollowupRound(t, None)
    /\ attempt' = [attempt EXCEPT ![t] = "streaming"]
    /\ UNCHANGED <<inputs, leases, locks, marker, followups, steering, job,
                   frozen, faults, freezes>>

\* cancel_pending_input takes no notice of a lease.
Cancel(i) ==
    /\ inputs[i].status = "pending"
    /\ inputs' = [inputs EXCEPT ![i].status = "cancelled"]
    /\ UNCHANGED <<rounds, attempt, leases, locks, marker, followups, steering,
                   job, frozen, faults, freezes>>

\* _steer_active_attempt up to the await on provider.steer_session.
SteerBegin(i) ==
    /\ ~frozen /\ CanSteer
    /\ i \notin steering
    /\ inputs[i].status = "pending"
    /\ attempt[inputs[i].task] = "streaming"
    /\ steering' = steering \cup {i}
    /\ UNCHANGED <<rounds, attempt, inputs, leases, locks, marker, followups, job,
                   frozen, faults, freezes>>

\* Variant: mark_pending_input_steered without AND status = 'pending'.
SteerOverwrites(i) ==
    /\ i \in steering
    /\ steering' = steering \ {i}
    /\ followups' = followups \cup {i}
    /\ inputs' = [inputs EXCEPT ![i].status = "steered"]
    /\ UNCHANGED <<rounds, attempt, leases, locks, marker, job, frozen, faults,
                   freezes>>

\* The provider accepted the guidance: the artifact is saved whatever became of
\* the input, and only a still pending input is marked steered.
SteerAccepted(i) ==
    /\ i \in steering
    /\ steering' = steering \ {i}
    /\ followups' = followups \cup {i}
    /\ inputs' = [inputs EXCEPT ![i].status = IF @ = "pending" THEN "steered" ELSE @]
    /\ UNCHANGED <<rounds, attempt, leases, locks, marker, job, frozen, faults,
                   freezes>>

SteerFailed(i) ==
    /\ i \in steering
    /\ steering' = steering \ {i}
    /\ UNCHANGED <<rounds, attempt, inputs, leases, locks, marker, followups, job,
                   frozen, faults, freezes>>

\* begin_maintenance_window and cancel_maintenance_window.
Freeze ==
    /\ ~frozen /\ freezes < MaxFreezes
    /\ frozen' = TRUE /\ freezes' = freezes + 1
    /\ UNCHANGED <<rounds, attempt, inputs, leases, locks, marker, followups,
                   steering, job, faults>>

Unfreeze ==
    /\ frozen
    /\ frozen' = FALSE
    /\ UNCHANGED <<rounds, attempt, inputs, leases, locks, marker, followups,
                   steering, job, faults, freezes>>

-----------------------------------------------------------------------------
(* Workers *)

SetJob(w, pc) == job' = [job EXCEPT ![w].pc = pc]

GoIdle(w) == job' = [job EXCEPT ![w] = Idle]

\* handle_role_output on the director's final summary: the round completes and
\* the handler goes on to consume_pending_after_round.
CompleteRound(w, t) ==
    /\ job[w].pc = "idle"
    /\ CurrentStatus(t) = "running" /\ attempt[t] = "streaming"
    /\ rounds' = [rounds EXCEPT ![t][CurrentRound(t)].status = "completed"]
    /\ attempt' = [attempt EXCEPT ![t] = "passed"]
    /\ job' = [job EXCEPT ![w] = [pc |-> "claim", task |-> t, input |-> None,
                                  source |-> CurrentRound(t), target |-> 0]]
    /\ UNCHANGED <<inputs, leases, locks, marker, followups, steering, frozen,
                   faults, freezes>>

\* handle_role_output on a failed envelope: nothing is consumed.
FailRound(t) ==
    /\ CurrentStatus(t) \in {"running", "blocked"}
    /\ rounds' = [rounds EXCEPT ![t][CurrentRound(t)].status = "failed"]
    /\ attempt' = [attempt EXCEPT ![t] = "failed"]
    /\ UNCHANGED <<inputs, leases, locks, marker, followups, steering, job, frozen,
                   faults, freezes>>

\* interrupt of a whole task, once the provider acknowledged: the round, and the
\* director's attempt if it was listed as active.  Nothing is consumed.
Interrupt(t) ==
    /\ CurrentStatus(t) = "running"
    /\ rounds' = [rounds EXCEPT ![t][CurrentRound(t)].status = "interrupted"]
    /\ attempt' = [attempt EXCEPT ![t] =
                     IF @ \in {"queued", "streaming"} THEN "interrupted" ELSE @]
    /\ UNCHANGED <<inputs, leases, locks, marker, followups, steering, job, frozen,
                   faults, freezes>>

Eligible(t, r) == {i \in Inputs : /\ inputs[i].status = "pending"
                                  /\ inputs[i].task = t /\ inputs[i].after <= r
                                  /\ ~leases[i].live}

\* Variant: ORDER BY ... DESC.
Last(i, S) == \A j \in S : i >= j

\* ORDER BY created_at, id: ids are handed out in creation order.
First(i, S) == \A j \in S : i <= j

\* consume_pending_after_round: gate, then the claim of the task's oldest input.
ClaimAfterRound(w) ==
    LET t  == job[w].task
        ws == WorkspaceOf[t]
        es == Eligible(t, job[w].source)
    IN  /\ job[w].pc = "claim"
        /\ \/ /\ frozen
              /\ GoIdle(w) /\ UNCHANGED <<leases, locks>>
           \/ \E i \in es :
              /\ ~frozen /\ ~WorkspaceBusy(ws) /\ First(i, es)
              /\ TakeClaim(w, i)
              /\ job' = [job EXCEPT ![w].pc = "claimed", ![w].input = i]
           \/ /\ ~frozen /\ (WorkspaceBusy(ws) \/ es = {})
              /\ ClaimNothing(ws)
              /\ GoIdle(w)
        /\ UNCHANGED <<rounds, attempt, inputs, marker, followups, steering, frozen,
                       faults, freezes>>

\* _recover_pending_input_transitions: only an input with a transition marker,
\* whatever its age, is claimed again.
RecoverTransition(w, i) ==
    /\ job[w].pc = "idle"
    /\ ~frozen
    /\ inputs[i].status = "pending" /\ marker[i] # 0
    /\ ~WorkspaceBusy(Ws(i))
    /\ TakeClaim(w, i)
    /\ job' = [job EXCEPT ![w] = [pc |-> "claimed", task |-> inputs[i].task,
                                  input |-> i, source |-> marker[i], target |-> 0]]
    /\ UNCHANGED <<rounds, attempt, inputs, marker, followups, steering, frozen,
                   faults, freezes>>

\* The reconcile loop skips tasks that are completed, interrupted or failed; an
\* explicit refresh of the task does not.
LoopRecovers(w, i) ==
    /\ inputs[i].status = "pending"
    /\ CurrentStatus(inputs[i].task) \notin Ended
    /\ RecoverTransition(w, i)

GiveUp(w) == ReleaseClaim(w, job[w].input) /\ GoIdle(w)

\* Variant: the marker names the round the input was queued behind.
MarkQueuedAfter(w) ==
    LET i == job[w].input
        t == job[w].task
    IN  /\ job[w].pc = "claimed"
        /\ \/ /\ frozen \/ (marker[i] = 0 /\ CurrentRound(t) # job[w].source)
              /\ GiveUp(w)
              /\ UNCHANGED marker
           \/ /\ ~frozen /\ (marker[i] # 0 \/ CurrentRound(t) = job[w].source)
              /\ marker' = [marker EXCEPT ![i] = inputs[i].after]
              /\ SetJob(w, "marked")
              /\ UNCHANGED <<leases, locks>>
        /\ UNCHANGED <<rounds, attempt, inputs, followups, steering, frozen, faults,
                       freezes>>

\* _consume_claimed_pending_input up to the durable transition marker.
MarkTransition(w) ==
    LET i == job[w].input
        t == job[w].task
    IN  /\ job[w].pc = "claimed"
        /\ \/ /\ frozen \/ (marker[i] = 0 /\ CurrentRound(t) # job[w].source)
              /\ GiveUp(w)
              /\ UNCHANGED marker
           \/ /\ ~frozen /\ marker[i] = 0 /\ CurrentRound(t) = job[w].source
              /\ marker' = [marker EXCEPT ![i] = job[w].source]
              /\ SetJob(w, "marked")
              /\ UNCHANGED <<leases, locks>>
           \/ /\ ~frozen /\ marker[i] # 0
              /\ job' = [job EXCEPT ![w].pc = "marked", ![w].source = marker[i]]
              /\ UNCHANGED <<marker, leases, locks>>
        /\ UNCHANGED <<rounds, attempt, inputs, followups, steering, frozen, faults,
                       freezes>>

\* Variant: a retry starts a round of its own behind the current one.
StartRoundAgain(w) ==
    LET i == job[w].input
        t == job[w].task
    IN  /\ job[w].pc = "marked"
        /\ \/ /\ frozen
              /\ GiveUp(w)
              /\ UNCHANGED <<rounds, attempt>>
           \/ /\ ~frozen
              /\ StartFollowupRound(t, i)
              /\ attempt' = [attempt EXCEPT ![t] = "queued"]
              /\ job' = [job EXCEPT ![w].pc = "started", ![w].target = CurrentRound(t) + 1]
              /\ UNCHANGED <<leases, locks>>
        /\ UNCHANGED <<inputs, marker, followups, steering, frozen, faults, freezes>>

\* The follow-up round, unless an earlier worker already started it.
StartRound(w) ==
    LET i == job[w].input
        t == job[w].task
    IN  /\ job[w].pc = "marked"
        /\ \/ \E r \in RoundsOf(i) :
              /\ \A q \in RoundsOf(i) : r <= q
              /\ job' = [job EXCEPT ![w].pc = "started", ![w].target = r]
              /\ UNCHANGED <<rounds, attempt, leases, locks>>
           \/ /\ RoundsOf(i) = {}
              /\ CurrentRound(t) # job[w].source \/ frozen
              /\ GiveUp(w)
              /\ UNCHANGED <<rounds, attempt>>
           \/ /\ RoundsOf(i) = {} /\ CurrentRound(t) = job[w].source /\ ~frozen
              /\ StartFollowupRound(t, i)
              /\ attempt' = [attempt EXCEPT ![t] = "queued"]
              /\ job' = [job EXCEPT ![w].pc = "started", ![w].target = CurrentRound(t) + 1]
              /\ UNCHANGED <<leases, locks>>
        /\ UNCHANGED <<inputs, marker, followups, steering, frozen, faults, freezes>>

\* The board, the queued director and the user_followup artifact.  A steered
\* artifact of the same input also counts as the follow-up.
RecordFollowup(w) ==
    LET i == job[w].input
        t == job[w].task
    IN  /\ job[w].pc = "started"
        /\ SetJob(w, "dispatch")
        /\ \/ /\ i \in followups
              /\ UNCHANGED <<followups, attempt>>
           \/ /\ i \notin followups
              /\ followups' = followups \cup {i}
              /\ attempt' = [attempt EXCEPT ![t] = "queued"]
        /\ UNCHANGED <<rounds, inputs, leases, locks, marker, steering, frozen,
                       faults, freezes>>

\* Gate, lease renewal and dispatch_role up to its await: the director's queued
\* attempt is claimed, or the dispatch reports that there is nothing to start.
Dispatch(w) ==
    LET i == job[w].input
        t == job[w].task
    IN  /\ job[w].pc = "dispatch"
        /\ \/ /\ frozen \/ (OwnsLease(w, i) /\ ~OwnsLock(w, i))
              /\ GiveUp(w)
              /\ UNCHANGED attempt
           \/ /\ ~frozen /\ ~OwnsLease(w, i)
              /\ GoIdle(w)
              /\ UNCHANGED <<attempt, leases, locks>>
           \/ /\ ~frozen /\ OwnsLease(w, i) /\ OwnsLock(w, i) /\ attempt[t] = "queued"
              /\ attempt' = [attempt EXCEPT ![t] = "dispatching"]
              /\ SetJob(w, "dispatching")
              /\ UNCHANGED <<leases, locks>>
           \/ /\ ~frozen /\ OwnsLease(w, i) /\ OwnsLock(w, i) /\ attempt[t] # "queued"
              /\ SetJob(w, "finish")
              /\ UNCHANGED <<attempt, leases, locks>>
        /\ UNCHANGED <<rounds, inputs, marker, followups, steering, frozen, faults,
                       freezes>>

\* dispatch_role after the await: the attempt of the then current round streams,
\* or the role falls back to blocked.
DispatchReturns(w) ==
    LET t == job[w].task
    IN  /\ job[w].pc = "dispatching"
        /\ SetJob(w, "finish")
        /\ \/ /\ attempt' = [attempt EXCEPT ![t] = "streaming"]
              /\ UNCHANGED rounds
           \/ /\ attempt' = [attempt EXCEPT ![t] = "blocked"]
              /\ rounds' = [rounds EXCEPT ![t][CurrentRound(t)].status = "blocked"]
        /\ UNCHANGED <<inputs, leases, locks, marker, followups, steering, frozen,
                       faults, freezes>>

\* Variant: the input is settled without asking for the lease.
ConsumeUnleased(w) ==
    LET i == job[w].input
    IN  /\ job[w].pc = "finish"
        /\ GoIdle(w)
        /\ IF inputs[i].status = "pending"
           THEN inputs' = [inputs EXCEPT ![i].status = "consumed", ![i].into = job[w].target]
           ELSE UNCHANGED inputs
        /\ ReleaseClaim(w, i)
        /\ UNCHANGED <<rounds, attempt, marker, followups, steering, frozen, faults,
                       freezes>>

\* Renewal and consume_pending_input_claim, one synchronous stretch.  A lost
\* lease ends the worker silently; an input that is no longer pending makes the
\* consume raise, and the caller releases the claim.
Consume(w) ==
    LET i == job[w].input
    IN  /\ job[w].pc = "finish"
        /\ GoIdle(w)
        /\ \/ /\ ~OwnsLease(w, i)
              /\ UNCHANGED <<inputs, leases, locks>>
           \/ /\ OwnsLease(w, i)
              /\ ~OwnsLock(w, i) \/ inputs[i].status # "pending"
              /\ ReleaseClaim(w, i)
              /\ UNCHANGED inputs
           \/ /\ OwnsLease(w, i) /\ OwnsLock(w, i) /\ inputs[i].status = "pending"
              /\ inputs' = [inputs EXCEPT ![i].status = "consumed",
                                          ![i].into = job[w].target]
              /\ leases' = [leases EXCEPT ![i] = NoLease]
              /\ locks' = [locks EXCEPT ![Ws(i)] = NoLock]
        /\ UNCHANGED <<rounds, attempt, marker, followups, steering, frozen, faults,
                       freezes>>

\* The process dies between two durable writes; its rows stay behind.
Crash(w) ==
    /\ job[w].pc # "idle" /\ faults < MaxFaults
    /\ GoIdle(w)
    /\ faults' = faults + 1
    /\ UNCHANGED <<rounds, attempt, inputs, leases, locks, marker, followups,
                   steering, frozen, freezes>>

-----------------------------------------------------------------------------
Init ==
    /\ rounds = [t \in Tasks |-> <<[status |-> "running", trigger |-> None]>>]
    /\ attempt = [t \in Tasks |-> "streaming"]
    /\ inputs = [i \in Inputs |-> [status |-> "new", task |-> None, after |-> 0, into |-> 0]]
    /\ leases = [i \in Inputs |-> NoLease]
    /\ locks = [ws \in Workspaces |-> NoLock]
    /\ marker = [i \in Inputs |-> 0]
    /\ followups = {}
    /\ steering = {}
    /\ job = [w \in Workers |-> Idle]
    /\ frozen = FALSE
    /\ faults = 0 /\ freezes = 0

WorkerStep(w) ==
    \/ ClaimAfterRound(w) \/ MarkTransition(w) \/ StartRound(w) \/ RecordFollowup(w)
    \/ Dispatch(w) \/ DispatchReturns(w) \/ Consume(w)

Next ==
    \/ \E t \in Tasks : AddUserMessage(t) \/ FailRound(t) \/ Interrupt(t)
    \/ \E t \in Tasks, i \in Inputs : QueueInput(t, i)
    \/ \E i \in Inputs : Cancel(i) \/ SteerBegin(i) \/ SteerAccepted(i)
                         \/ SteerFailed(i) \/ Expire(i)
    \/ Freeze \/ Unfreeze
    \/ \E w \in Workers, t \in Tasks : CompleteRound(w, t)
    \/ \E w \in Workers, i \in Inputs : RecoverTransition(w, i)
    \/ \E w \in Workers : WorkerStep(w) \/ Crash(w)

\* A started coroutine keeps running, time passes, the operator ends the window
\* and the reconcile loop comes back to every task it does not skip.  Nothing
\* obliges the provider to finish a round, nor a user to do anything.
Fairness ==
    /\ \A w \in Workers : WF_vars(WorkerStep(w))
    /\ \A i \in Inputs : WF_vars(Expire(i))
    /\ WF_vars(Unfreeze)
    /\ \A i \in Inputs : WF_vars(\E w \in Workers : LoopRecovers(w, i))

Spec == Init /\ [][Next]_vars
FairSpec == Spec /\ Fairness

-----------------------------------------------------------------------------
(* Properties *)

\* The workspace fence works: never do two inputs of one workspace, of whatever
\* task, hold a live lease, though leases expire, are taken over and released by
\* workers that may have lost them (claim_pending_input_for_workspace).
OneLiveLeasePerWorkspace ==
    \A i, j \in Inputs :
        (leases[i].live /\ leases[j].live /\ Ws(i) = Ws(j)) => i = j

\* A lease is live exactly while the fence of its workspace names the same input
\* and owner and is live: no release, takeover or late consume of another worker
\* tears the two rows apart, so the RuntimeError "pending input workspace lock is
\* no longer owned" of renew_pending_input_claim cannot happen.
FenceMatchesLease ==
    /\ \A i \in Inputs : leases[i].live =>
          locks[Ws(i)] = [input |-> i, owner |-> leases[i].owner, live |-> TRUE]
    /\ \A ws \in Workspaces : locks[ws].live =>
          /\ locks[ws].input # None
          /\ leases[locks[ws].input] = [owner |-> locks[ws].owner, live |-> TRUE]

\* Crashes, lease takeovers and reconciliation retries never start a second
\* follow-up round for one queued input (_consume_claimed_pending_input:
\* "without duplicating its round/dispatch").
OneRoundPerInput ==
    \A i \in Inputs : inputs[i].status # "new" => Cardinality(RoundsOf(i)) <= 1

\* An input is recorded as consumed into the one round it triggered, later than
\* the round it was queued behind and than the round its marker names.
ConsumedIntoItsRound ==
    \A i \in Inputs : inputs[i].status = "consumed" =>
        /\ inputs[i].into \in RoundsOf(i)
        /\ inputs[i].into > inputs[i].after
        /\ inputs[i].into = marker[i] + 1

\* Inputs of one task are consumed in the order they were queued, whichever
\* worker, retry or recovery consumes them.
ConsumedInOrder ==
    \A i, j \in Inputs :
        (/\ i < j /\ inputs[i].task = inputs[j].task
         /\ inputs[i].status = "consumed" /\ inputs[j].status = "consumed")
        => inputs[i].into < inputs[j].into

\* Once an input is steered, consumed or cancelled no racing worker, steer or
\* cancel changes its record again, and a transition marker is never moved.
SettledForever ==
    [][\A i \in Inputs :
         /\ inputs[i].status \notin {"new", "pending"} => inputs'[i] = inputs[i]
         /\ marker[i] # 0 => marker'[i] = marker[i]]_vars

\* A worker that lost its lease writes nothing about the input's outcome: an
\* input becomes consumed only in a step that takes away a live lease on it.
ConsumedUnderLease ==
    [][\A i \in Inputs :
         (inputs[i].status # "consumed" /\ inputs'[i].status = "consumed")
         => leases[i].live /\ ~leases'[i].live]_vars

\* A follow-up round that exists while its task is still running is not
\* forgotten: even if the worker that started it crashed or lost its lease, the
\* input is settled, unless the round ends first.
StartedFollowupSettles ==
    \A i \in Inputs :
        (inputs[i].status = "pending" /\ RoundsOf(i) # {})
        ~> \/ inputs[i].status # "pending"
           \/ CurrentStatus(inputs[i].task) \in Ended

\* The only input of its task waits although the task's round is completed.
Stranded(i) ==
    /\ inputs[i].status = "pending" /\ RoundsOf(i) = {}
    /\ CurrentStatus(inputs[i].task) = "completed"
    /\ \A j \in Inputs \ {i} : inputs[j].task # inputs[i].task

\* The promise made to the user when an input is queued ("it starts by itself
\* when the current round ends", relay_task_detail_template.py): an input does
\* not wait for ever behind a completed round with nothing else of its task ahead.
QueuedInputStarts == \A i \in Inputs : Stranded(i) ~> ~Stranded(i)
=============================================================================
