------------------------------ MODULE RunQueue ------------------------------
(***************************************************************************)
(* Queued chief-engineer runs: RuntimeEventStore's leases on run.queued     *)
(* events and Controller.process_queued_runs, which launches one of them    *)
(* when a workspace is freed.                                               *)
(*                                                                          *)
(* process_queued_runs contains no await, so no other handler of the same   *)
(* process runs between its steps; but every step commits by itself, so the *)
(* process can die between any two, and the operator's maintenance command  *)
(* is another process.  A queued run is identified by its position: event   *)
(* ids are assigned in append order.  The lease owner is a fresh uuid per   *)
(* call and there is one consumer process, so the lease an owner holds is   *)
(* always the latest one and the owner comparison is left out.              *)
(*                                                                          *)
(* The coroutine of a launched run and its task are two things: the task    *)
(* may be ended by a command, a backend event or the watchdog while the     *)
(* coroutine goes on, and the coroutine's next phase sets it running again. *)
(***************************************************************************)
EXTENDS Naturals, Sequences, FiniteSets

CONSTANTS Workspaces,   \* workspace aliases
          MaxQueued,    \* bound: run.queued events appended
          MaxCrashes    \* bound: times the process dies

VARIABLES
  queue,     \* the run.queued events in id order: workspace, and whether a goal was found
  lease,     \* latest lease event of each: none, held, expired (held too long), released, consumed
  started,   \* number of run.started events caused by each queued event
  active,    \* queued runs whose executor emitted its first run.phase.changed
  marked,    \* queued runs with a run.recovery.required event caused by them
  task,      \* status of the task reserved for each queued run
  other,     \* workspaces with an unfinished task that is no queued run's
  offered,   \* workspaces for which the user has a "workspace busy" card
  calls,     \* workspaces with a call of process_queued_runs under way or due
  pc,        \* the step the one running call has reached, and its queued run
  live,      \* queued runs whose chief-engineer coroutine is scheduled in this process
  mode,      \* down, telegram (with the controller) or web (web-only deployment)
  frozen,    \* the maintenance window freezes submissions
  crashes

vars == <<queue, lease, started, active, marked, task, other, offered, calls, pc, live,
          mode, frozen, crashes>>
store == <<queue, lease, started, active, marked>>
process == <<calls, pc, live, mode>>
tasks == <<task, other>>

Ids == 1 .. MaxQueued
Unfinished == {"queued", "running", "paused"}
Idle == [step |-> "idle", run |-> 0]
At(step, q) == [step |-> step, run |-> q]
Steps == {"claimed", "failed", "reserved", "handed", "started"}

TypeOK ==
  /\ queue \in Seq([ws : Workspaces, goal : BOOLEAN]) /\ Len(queue) <= MaxQueued
  /\ lease \in [Ids -> {"none", "held", "expired", "released", "consumed"}]
  /\ started \in [Ids -> Nat]
  /\ active \subseteq Ids /\ marked \subseteq Ids /\ live \subseteq Ids
  /\ task \in [Ids -> Unfinished \cup {"none", "ended"}] /\ other \subseteq Workspaces
  /\ offered \subseteq Workspaces /\ calls \subseteq Workspaces
  /\ pc \in {Idle} \cup [step : Steps, run : Ids]
  /\ mode \in {"down", "telegram", "web"} /\ frozen \in BOOLEAN
  /\ crashes \in 0 .. MaxCrashes

Init ==
  /\ queue = <<>>
  /\ lease = [q \in Ids |-> "none"] /\ started = [q \in Ids |-> 0]
  /\ active = {} /\ marked = {} /\ live = {}
  /\ task = [q \in Ids |-> "none"] /\ other = {}
  /\ offered = {} /\ calls = {} /\ pc = Idle
  /\ mode = "telegram" /\ frozen = FALSE /\ crashes = 0

Known == DOMAIN queue
Ws(q) == queue[q].ws

(* mutation: only the explicit consumed event is looked for *)
ConsumedExplicitly(q) == lease[q] = "consumed"

(* _queued_run_is_consumed_locked: launched, consumed or handed to recovery.  Its *)
(* clause for markers without causation_id is left out: they predate this code,   *)
(* which writes none.                                                             *)
Consumed(q) == lease[q] = "consumed" \/ started[q] > 0 \/ q \in marked

(* mutation: a run whose launch failed is not tried again *)
ClaimableOnce(w) ==
  {q \in Known : Ws(q) = w /\ ~Consumed(q) /\ lease[q] \notin {"held", "released"}}

(* the rows the claim loop does not skip: an expired claim is retriable *)
Claimable(w) == {q \in Known : Ws(q) = w /\ ~Consumed(q) /\ lease[q] # "held"}

(* rows are visited in id order: the oldest is taken *)
Oldest(S) == CHOOSE q \in S : \A p \in S : q <= p

(* blocker_for_workspace: the queued runs whose task is unfinished, 0 for another's *)
Holders(w) ==
  {q \in Known : Ws(q) = w /\ task[q] \in Unfinished} \cup {p \in {0} : w \in other}

Serving == mode = "telegram"
Turn == Serving /\ pc = Idle     \* another handler may run: no call is in its synchronous part
-----------------------------------------------------------------------------
(* The user and the other tasks of the workspace *)

(* a message for a busy workspace answers with the busy card *)
Offer(w) ==
  /\ Turn /\ ~frozen
  /\ Holders(w) # {} /\ w \notin offered
  /\ offered' = offered \cup {w}
  /\ UNCHANGED <<store, process, tasks, frozen, crashes>>

(* handle_workspace_busy_callback, BUSY_QUEUE: the goal is read back from the     *)
(* conversation summary, which another message may have replaced meanwhile        *)
Queue(w, goal) ==
  /\ Turn /\ ~frozen
  /\ w \in offered
  /\ Len(queue) < MaxQueued
  /\ queue' = Append(queue, [ws |-> w, goal |-> goal])
  /\ UNCHANGED <<lease, started, active, marked, process, tasks, offered, frozen, crashes>>

(* a task that is not a queued run takes the workspace (TaskService.reserve_task) *)
OtherTask(w) ==
  /\ Turn /\ ~frozen
  /\ Holders(w) = {}
  /\ other' = other \cup {w}
  /\ UNCHANGED <<store, process, task, offered, frozen, crashes>>

(* such a task ends: a backend event or the watchdog (told) ends in               *)
(* on_workspace_freed, /stop, a busy interrupt, an abort or an archive does not   *)
OtherEnds(w, told) ==
  /\ Turn
  /\ w \in other
  /\ other' = other \ {w}
  /\ calls' = IF told THEN calls \cup {w} ELSE calls
  /\ UNCHANGED <<store, task, offered, pc, live, mode, frozen, crashes>>

(* the same of the task of a queued run; nothing cancels the run's coroutine.  One *)
(* that was paused at a startup has no thread, so no backend event finds it        *)
TaskEnds(q, told) ==
  /\ Turn
  /\ task[q] \in Unfinished
  /\ task[q] = "paused" => ~told
  /\ task' = [task EXCEPT ![q] = "ended"]
  /\ calls' = IF told THEN calls \cup {Ws(q)} ELSE calls
  /\ UNCHANGED <<store, other, offered, pc, live, mode, frozen, crashes>>

(* maintenance-begin and maintenance-cancel, run from the operator's shell *)
Freeze(on) ==
  /\ frozen # on
  /\ frozen' = on
  /\ UNCHANGED <<store, process, tasks, offered, crashes>>
-----------------------------------------------------------------------------
(* process_queued_runs *)

(* early returns: maintenance, a blocker, nothing to claim *)
Skip(w) ==
  /\ Turn /\ w \in calls
  /\ frozen \/ Holders(w) # {} \/ Claimable(w) = {}
  /\ calls' = calls \ {w}
  /\ UNCHANGED <<store, tasks, offered, pc, live, mode, frozen, crashes>>

(* claim_next_queued_run_for_workspace: selection and claim in one transaction *)
Claim(w) ==
  /\ Turn /\ w \in calls
  /\ ~frozen /\ Holders(w) = {} /\ Claimable(w) # {}
  /\ LET q == Oldest(Claimable(w)) IN
       /\ lease' = [lease EXCEPT ![q] = "held"]
       /\ pc' = At("claimed", q)
  /\ UNCHANGED <<queue, started, active, marked, tasks, offered, calls, live, mode, frozen, crashes>>

(* preflight and _reserve_execution_lease, which repeats the maintenance gate; a  *)
(* failure goes to the release                                                    *)
Reserve ==
  /\ Serving /\ pc.step = "claimed"
  /\ LET q == pc.run
         ok == queue[q].goal /\ ~frozen /\ Holders(Ws(q)) = {} IN
       /\ task' = IF ok THEN [task EXCEPT ![q] = "queued"] ELSE task
       /\ pc' = At(IF ok THEN "reserved" ELSE "failed", q)
  /\ UNCHANGED <<store, other, offered, calls, live, mode, frozen, crashes>>

(* an exception while the orchestration rows are made or before run.started is    *)
(* stored: the task is failed                                                     *)
LaunchFails ==
  /\ Serving /\ pc.step = "reserved"
  /\ task' = [task EXCEPT ![pc.run] = "ended"]
  /\ pc' = At("failed", pc.run)
  /\ UNCHANGED <<store, other, offered, calls, live, mode, frozen, crashes>>

(* release_queued_run_claim by the owner of the latest claim, and the call ends *)
Release ==
  /\ Serving /\ pc.step = "failed"
  /\ lease' = [lease EXCEPT ![pc.run] = "released"]
  /\ pc' = Idle
  /\ calls' = calls \ {Ws(pc.run)}
  /\ UNCHANGED <<queue, started, active, marked, tasks, offered, live, mode, frozen, crashes>>

(* start_chief_engineer: the coroutine is scheduled and run.started is committed *)
HandOff ==
  /\ Serving /\ pc.step = "reserved"
  /\ started' = [started EXCEPT ![pc.run] = @ + 1]
  /\ live' = live \cup {pc.run}
  /\ pc' = At("handed", pc.run)
  /\ UNCHANGED <<queue, lease, active, marked, tasks, offered, calls, mode, frozen, crashes>>

(* the projector's own commit sets the task running *)
Project ==
  /\ Serving /\ pc.step = "handed"
  /\ task' = [task EXCEPT ![pc.run] = "running"]
  /\ pc' = At("started", pc.run)
  /\ UNCHANGED <<store, other, offered, calls, live, mode, frozen, crashes>>

(* consume_queued_run_claim; when it fails (~ok) the launch stands and the claim stays *)
Consume(ok) ==
  /\ Serving /\ pc.step = "started"
  /\ lease' = IF ok THEN [lease EXCEPT ![pc.run] = "consumed"] ELSE lease
  /\ pc' = Idle
  /\ calls' = calls \ {Ws(pc.run)}
  /\ UNCHANGED <<queue, started, active, marked, tasks, offered, live, mode, frozen, crashes>>

(* 300 seconds pass on a claim *)
Expire(q) ==
  /\ lease[q] = "held"
  /\ lease' = [lease EXCEPT ![q] = "expired"]
  /\ UNCHANGED <<queue, started, active, marked, tasks, offered, process, frozen, crashes>>
-----------------------------------------------------------------------------
(* The executor *)

(* _run_chief_engineer's first instruction, run.phase.changed, which the projector *)
(* turns into a running task, whatever it was                                      *)
RunBegins(q) ==
  /\ Turn /\ q \in live \ active
  /\ active' = active \cup {q}
  /\ task' = [task EXCEPT ![q] = "running"]
  /\ UNCHANGED <<queue, lease, started, marked, other, offered, process, frozen, crashes>>

(* a later phase *)
RunReports(q) ==
  /\ Turn /\ q \in live \cap active
  /\ task' = [task EXCEPT ![q] = "running"]
  /\ UNCHANGED <<store, other, offered, process, frozen, crashes>>

(* the run's last event ends its task; whether a backend event of the same task   *)
(* reaches on_workspace_freed afterwards depends on the order of the two          *)
RunEnds(q, told) ==
  /\ Turn /\ q \in live \cap active
  /\ live' = live \ {q}
  /\ task' = [task EXCEPT ![q] = "ended"]
  /\ calls' = IF told THEN calls \cup {Ws(q)} ELSE calls
  /\ UNCHANGED <<store, other, offered, pc, mode, frozen, crashes>>
-----------------------------------------------------------------------------
(* Crash and restart *)

Crash ==
  /\ mode # "down" /\ crashes < MaxCrashes
  /\ mode' = "down"
  /\ pc' = Idle /\ live' = {} /\ calls' = {}
  /\ crashes' = crashes + 1
  /\ UNCHANGED <<store, tasks, offered, frozen>>

(* find_queued_handoffs_without_executor_activity: among running tasks only *)
Handoff(q) == task[q] = "running" /\ started[q] > 0 /\ q \notin active

(* mutation: the recovery phase is written where the status belongs *)
RecoveredPhase(q) ==
  IF Handoff(q) THEN "needs_recovery"
  ELSE IF task[q] \in {"queued", "running"} THEN "ended" ELSE task[q]

(* append_startup_recovery_events: a hand-off without activity is paused and keeps *)
(* the workspace, any other running or queued task is failed                       *)
Recovered(q) ==
  IF Handoff(q) THEN "paused"
  ELSE IF task[q] \in {"queued", "running"} THEN "ended" ELSE task[q]

(* web-only startup marks what it cannot execute, with Telegram the pump's startup *)
(* drain calls the consumer once for every workspace                               *)
Restart(m) ==
  /\ mode = "down"
  /\ mode' = m
  /\ task' = [q \in Ids |-> Recovered(q)] /\ other' = {}
  /\ IF m = "web"
       THEN marked' = marked \cup {q \in Known : ~Consumed(q)} /\ calls' = {}
       ELSE marked' = marked /\ calls' = Workspaces
  /\ UNCHANGED <<queue, lease, started, active, offered, pc, live, frozen, crashes>>

Next ==
  \/ \E w \in Workspaces : Offer(w) \/ OtherTask(w) \/ Skip(w) \/ Claim(w)
  \/ \E w \in Workspaces, b \in BOOLEAN : Queue(w, b) \/ OtherEnds(w, b)
  \/ \E on \in BOOLEAN : Freeze(on) \/ Consume(on)
  \/ Reserve \/ LaunchFails \/ Release \/ HandOff \/ Project
  \/ \E q \in Ids : Expire(q) \/ RunBegins(q) \/ RunReports(q)
  \/ \E q \in Ids, told \in BOOLEAN : TaskEnds(q, told) \/ RunEnds(q, told)
  \/ Crash
  \/ \E m \in {"telegram", "web"} : Restart(m)

Spec == Init /\ [][Next]_vars
-----------------------------------------------------------------------------
(* A queued run has at most one outcome, whatever crashes, expired leases and      *)
(* restarts in either mode come between claim, hand-off and consumption: it is     *)
(* launched once or marked by a web-only startup, never both and never twice       *)
(* (process_queued_runs, _queued_run_is_consumed_locked).                          *)
OneOutcome == \A q \in Ids : started[q] + (IF q \in marked THEN 1 ELSE 0) <= 1

(* A run is launched into a workspace that its own task alone holds, and before no *)
(* older run of the workspace that could be launched: that one was launched, was   *)
(* handed to recovery, or is under the claim of a process that died                *)
(* (claim_next_queued_run_for_workspace, release_queued_run_claim).                *)
LaunchesInTurn ==
  \A q \in Ids : started'[q] # started[q] =>
    /\ Holders(Ws(q)) = {q}
    /\ \A p \in Known : p < q /\ Ws(p) = Ws(q) =>
         Consumed(p) \/ lease[p] \in {"held", "expired"}
=============================================================================
