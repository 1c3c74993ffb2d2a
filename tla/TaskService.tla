---------------------------- MODULE TaskService ----------------------------
(***************************************************************************)
(* The tasks of wlcodex/task_service.py, the workspace write lock of        *)
(* wlcodex/locks.py and everything that moves a task between its statuses:  *)
(* the commands of wlcodex/legacy_diagnostics.py and of the controller, the *)
(* backend events applied by wlcodex/event_bridge.py, the liveness watchdog *)
(* of wlcodex/watchdog.py, the chief-engineer runs that report through      *)
(* wlcodex/runtime_projector.py, the drain of waiting tasks and a restart.  *)
(*                                                                         *)
(* The process is one event loop: a handler runs without interruption up    *)
(* to its next await of the backend, so an action is what happens between   *)
(* two awaits, and a handler that is waiting is an element of jobs.         *)
(***************************************************************************)
EXTENDS Naturals, FiniteSets

CONSTANTS
    Workspaces,
    MaxTasks,     \* bound: task rows ever created
    ListLimit,    \* list_tasks(limit=100)
    MaxHandlers,  \* bound: commands awaiting the backend at once; concurrent_updates(8)
    MaxPhases,    \* bound: phases a chief-engineer run reports
    MaxRestarts   \* bound: restarts of the process

ASSUME TaskAssumption ==
    /\ MaxTasks \in Nat /\ ListLimit \in Nat
    /\ MaxHandlers \in Nat /\ MaxPhases \in Nat /\ MaxRestarts \in Nat

VARIABLES
    count,     \* rows in the table; ids, and created_at, grow with it
    db,        \* row: the rows; newer: the pairs <<t, u>> with t updated after u
    run,       \* per task, 1 + the phases its chief-engineer run may still report; 0: no run
    jobs,      \* handlers that are awaiting the backend
    todrain,   \* workspaces the startup and the watchdog loop still have to drain
    loops,     \* which of EventBridge.run and its watchdog loop are running
    frozen,    \* the maintenance window is open
    restarts

vars == <<count, db, run, jobs, todrain, loops, frozen, restarts>>

Ids      == 1..MaxTasks
Created  == 1..count
Active   == {"queued", "running", "waiting_approval", "paused"}
Terminal == {"done", "failed", "aborted"}
Status   == Active \cup Terminal \cup {"waiting_slot", "archived"}

\* thread: codex_thread_id is set; turn: active_turn_id is set; pending: an
\* approval of the task is pending; orch: started by a chief-engineer run; tree:
\* worktree_path is set; forced: is_force_parallel; late: updated_at is further back
\* than the watchdog's limit for the status.
Row == [st : Status, ws : Workspaces, thread : BOOLEAN, turn : BOOLEAN, pending : BOOLEAN,
        orch : BOOLEAN, tree : BOOLEAN, forced : BOOLEAN, late : BOOLEAN]

Calls == {"create_thread", "start_turn", "continue_turn", "abort", "stop"}
Callers == {"command", "pump", "watchdog", "startup"}
\* by: who sees an exception the handler raises.
Job   == [call : Calls, t : Ids, by : Callers]

\* One table per line.
TypeOK ==
    /\ count \in 0..MaxTasks
    /\ db \in [row : [Created -> Row], newer : SUBSET (Created \X Created)]
    /\ run \in [Created -> 0..MaxPhases + 1]
    /\ jobs \in SUBSET Job /\ \A j \in jobs : j.t \in Created
    /\ todrain \in SUBSET ({"startup", "watchdog"} \X Workspaces)
    /\ loops \in SUBSET {"pump", "watchdog"} /\ frozen \in BOOLEAN /\ restarts \in 0..MaxRestarts

NewRow(st, w, orch) ==
    [st |-> st, ws |-> w, thread |-> FALSE, turn |-> FALSE, pending |-> FALSE, orch |-> orch,
     tree |-> FALSE, forced |-> FALSE, late |-> FALSE]

\* An empty database.
Init ==
    /\ count = 0 /\ run = [t \in Created |-> 0]
    /\ db = [row |-> [t \in Created |-> NewRow("queued", CHOOSE w \in Workspaces : TRUE, FALSE)],
             newer |-> {}]
    /\ jobs = {} /\ todrain = {} /\ loops = {"pump", "watchdog"}
    /\ frozen = FALSE /\ restarts = 0

-----------------------------------------------------------------------------
(* The ledger.  An operator takes the tables d it reads, because a handler   *)
(* may write several times before it awaits.                                 *)

\* The order of the updates decides which rows a full list leaves out; it is
\* kept only if the list can be full.
Order(pairs) == IF MaxTasks <= ListLimit THEN {} ELSE pairs

\* Every UPDATE of a row also sets updated_at.
Write(d, t, row) ==
    [row   |-> [d.row EXCEPT ![t] = [row EXCEPT !.late = FALSE]],
     newer |-> Order({p \in d.newer : p[1] # t /\ p[2] # t}
                         \cup {<<t, u>> : u \in Created \ {t}})]

SetStatus(d, t, st) == Write(d, t, [d.row[t] EXCEPT !.st = st])
EndTurn(d, t, st)   == Write(d, t, [d.row[t] EXCEPT !.st = st, !.turn = FALSE])

\* list_tasks: the ListLimit rows updated last, archived ones left out.
Listed(d) ==
    {t \in Created :
        /\ d.row[t].st # "archived"
        /\ Cardinality({u \in Created : d.row[u].st # "archived" /\ <<u, t>> \in d.newer})
               < ListLimit}

\* Mutant: a paused task does not hold the workspace.
BlockersButPaused(d, w, exclude) ==
    {t \in Listed(d) \ exclude :
        d.row[t].ws = w /\ d.row[t].st \in Active \ {"paused"} /\ ~d.row[t].tree}

\* active_write_task(list_tasks(limit=100), alias, exclude_task_id)
Blockers(d, w, exclude) ==
    {t \in Listed(d) \ exclude : d.row[t].ws = w /\ d.row[t].st \in Active /\ ~d.row[t].tree}

\* Mutant: an ended task may run again.
LaxTransitions ==
    [s \in Status |->
        CASE s \in {"queued", "running", "waiting_approval", "paused"} -> Status
          [] s \in Terminal -> {"queued", "running", "archived"}
          [] s = "waiting_slot" -> {"queued", "failed", "aborted", "archived"}
          [] s = "archived" -> {}]

ValidTransitions ==
    [s \in Status |->
        CASE s = "queued" -> {"running", "waiting_approval", "failed", "aborted"}
          [] s = "running" -> {"waiting_approval", "done", "failed", "paused", "aborted"}
          [] s = "waiting_approval" -> {"running", "done", "failed", "paused", "aborted"}
          [] s \in Terminal -> {"queued", "archived"}
          [] s = "paused" -> {"queued", "done", "aborted", "archived"}
          [] s = "waiting_slot" -> {"queued", "failed", "aborted", "archived"}
          [] s = "archived" -> {}]

\* _transition; otherwise it raises InvalidTransition.
CanMove(from, to) == to = from \/ to \in ValidTransitions[from]

\* fail_task refuses a done or archived task, and so does _transition others.
CanFail(st) == st \notin {"done", "archived"} /\ CanMove(st, "failed")

\* create_task
Insert(row, phases) ==
    LET t == count + 1 IN
    /\ count < MaxTasks
    /\ count' = t
    /\ db' = [row   |-> [u \in 1..t |-> IF u = t THEN row ELSE db.row[u]],
              newer |-> Order(db.newer \cup {<<t, u>> : u \in Created})]
    /\ run' = [u \in 1..t |-> IF u = t THEN phases ELSE run[u]]

Await(call, t, by) == [call |-> call, t |-> t, by |-> by]

\* drain_workspace up to its first await.  The only RuntimeError that
\* promote_waiting_task can raise here is the one of the maintenance window.
Drain(d, w, by) ==
    LET waiting == {t \in Created : d.row[t].ws = w /\ d.row[t].st = "waiting_slot"}
        first   == CHOOSE t \in waiting : \A u \in waiting : t <= u
    IN  IF Blockers(d, w, {}) # {} \/ waiting = {}
        THEN [db |-> d, jobs |-> {}]
        ELSE IF frozen
        THEN [db |-> SetStatus(d, first, "failed"), jobs |-> {}]
        ELSE [db |-> SetStatus(d, first, "queued"),
              jobs |-> {Await("create_thread", first, by)}]

\* A handler j (none: {}) that leaves the tables as d and then drains w.
ThenDrain(d, w, by, j) ==
    LET r == Drain(d, w, by) IN db' = r.db /\ jobs' = (jobs \ j) \cup r.jobs

-----------------------------------------------------------------------------
(* Commands.  reserve_task and reserve_waiting_task check the lock and       *)
(* insert the row in the same step; the thread is created after an await.    *)

\* /task: start in a free workspace, wait in a busy one.
StartTask(w) ==
    /\ ~frozen
    /\ IF Blockers(db, w, {}) = {}
       THEN /\ Insert(NewRow("queued", w, FALSE), 0)
            /\ jobs' = jobs \cup {Await("create_thread", count + 1, "command")}
       ELSE /\ Insert(NewRow("waiting_slot", w, FALSE), 0)
            /\ UNCHANGED jobs
    /\ UNCHANGED <<todrain, loops, frozen, restarts>>

\* /fork: the new task starts on a fork of the parent's thread.
ForkTask(p) ==
    /\ ~frozen
    /\ db.row[p].thread
    /\ Blockers(db, db.row[p].ws, {}) = {}
    /\ Insert(NewRow("queued", db.row[p].ws, FALSE), 0)
    /\ jobs' = jobs \cup {Await("create_thread", count + 1, "command")}
    /\ UNCHANGED <<todrain, loops, frozen, restarts>>

\* A chief-engineer run: the task is reserved and run.started, written before
\* the background coroutine runs, projects it to running.
StartRun(w) ==
    /\ ~frozen
    /\ Blockers(db, w, {}) = {}
    /\ MaxPhases > 0
    /\ Insert(NewRow("running", w, TRUE), MaxPhases + 1)
    /\ UNCHANGED <<jobs, todrain, loops, frozen, restarts>>

\* The two ways out of the queue beside the lock.  Each returns the prompt to a caller
\* that would create the thread; the repository has none.
\* force_parallel_start
ForceParallel(t) ==
    /\ ~frozen /\ db.row[t].st = "waiting_slot"
    /\ db' = Write(db, t, [db.row[t] EXCEPT !.st = "queued", !.forced = TRUE])
    /\ UNCHANGED <<count, run, jobs, todrain, loops, frozen, restarts>>

\* setup_worktree; a second worktree of the same branch is refused by git.
SetupWorktree(t) ==
    /\ db.row[t].st = "waiting_slot" /\ ~db.row[t].tree
    /\ db' = Write(db, t, [db.row[t] EXCEPT !.tree = TRUE])
    /\ UNCHANGED <<count, run, jobs, todrain, loops, frozen, restarts>>

\* start_worktree_task, which does not ask whether submissions are frozen.
StartWorktree(t) ==
    /\ db.row[t].st = "waiting_slot" /\ db.row[t].tree
    /\ db' = SetStatus(db, t, "queued")
    /\ UNCHANGED <<count, run, jobs, todrain, loops, frozen, restarts>>

ContinueTask(t) ==
    /\ db.row[t].st \in Terminal \cup {"paused"}
    /\ db.row[t].thread
    /\ Blockers(db, db.row[t].ws, {t}) = {}
    /\ db' = EndTurn(db, t, "queued")
    /\ jobs' = jobs \cup {Await("continue_turn", t, "command")}
    /\ UNCHANGED <<count, run, todrain, loops, frozen, restarts>>

\* pause_task also admits a queued task, which _transition then refuses.
PauseTask(t) ==
    /\ db.row[t].st \in {"running", "waiting_approval", "queued"}
    /\ CanMove(db.row[t].st, "paused")
    /\ db' = SetStatus(db, t, "paused")
    /\ UNCHANGED <<count, run, jobs, todrain, loops, frozen, restarts>>

ArchiveTask(t) ==
    /\ db.row[t].st \notin {"running", "queued", "waiting_approval"}
    /\ CanMove(db.row[t].st, "archived")
    /\ db' = SetStatus(db, t, "archived")
    /\ UNCHANGED <<count, run, jobs, todrain, loops, frozen, restarts>>

\* abort_task, and the drain that only /abort makes of it: /stop and a
\* reanalysis abort the task without draining.
AbortNow(t, call, j) ==
    /\ IF db.row[t].st \in Active \cup {"waiting_slot"}
       THEN LET d == EndTurn(db, t, "aborted") IN
            IF call = "abort"
            THEN ThenDrain(d, db.row[t].ws, "command", j)
            ELSE db' = d /\ jobs' = jobs \ j
       ELSE jobs' = jobs \ j /\ UNCHANGED db
    /\ UNCHANGED <<count, run, todrain, loops, frozen, restarts>>

\* /abort or /stop: an active turn is interrupted first, which is an await.
AbortTask(t, call) ==
    IF db.row[t].turn /\ db.row[t].thread
    THEN /\ jobs' = jobs \cup {Await(call, t, "command")}
         /\ UNCHANGED <<count, db, run, todrain, loops, frozen, restarts>>
    ELSE db.row[t].st \in Active \cup {"waiting_slot"} /\ AbortNow(t, call, {})

-----------------------------------------------------------------------------
(* The answers of the backend to a handler that awaits it.                   *)

\* create_thread (or fork_thread) answers; set_task_thread; start_turn is sent.
ThreadCreated(j) ==
    /\ j.call = "create_thread"
    /\ db' = Write(db, j.t, [db.row[j.t] EXCEPT !.thread = TRUE])
    /\ jobs' = (jobs \ {j}) \cup {Await("start_turn", j.t, j.by)}
    /\ UNCHANGED <<count, run, todrain, loops, frozen, restarts>>

TurnAccepted(j) ==
    /\ j.call \in {"start_turn", "continue_turn"}
    /\ jobs' = jobs \ {j}
    /\ UNCHANGED <<count, db, run, todrain, loops, frozen, restarts>>

\* The call fails or times out: the handler calls fail_task.  If fail_task
\* raises, a command reports it, the startup drain logs it, the watchdog loop
\* logs it and gives up the rest of its drains, and EventBridge.run ends, which
\* cancels the watchdog loop wherever it is.
CallFailed(j) ==
    /\ j.call \in {"create_thread", "start_turn", "continue_turn"}
    /\ IF CanFail(db.row[j.t].st)
       THEN /\ db' = SetStatus(db, j.t, "failed")
            /\ jobs' = jobs \ {j}
            /\ UNCHANGED <<todrain, loops>>
       ELSE /\ loops' = IF j.by = "pump" THEN {} ELSE loops
            /\ jobs' = {k \in jobs \ {j} : j.by = "pump" => k.by # "watchdog"}
            /\ todrain' = {p \in todrain : j.by \in {"watchdog", "pump"} => p[1] # "watchdog"}
            /\ UNCHANGED db
    /\ UNCHANGED <<count, run, frozen, restarts>>

\* The connection to the app-server is lost: JsonRpcClient.close cancels every
\* request in flight, and CancelledError passes the handlers' except clauses, so
\* no task is failed and the loop that was waiting ends.
ConnectionLost ==
    LET hit(S) == \E j \in jobs : j.by \in S IN
    /\ jobs # {} /\ jobs' = {}
    /\ loops' = IF hit({"pump", "startup"}) THEN {}
                ELSE IF hit({"watchdog"}) THEN loops \ {"watchdog"} ELSE loops
    /\ todrain' = {p \in todrain :
                      IF p[1] = "startup" THEN "pump" \in loops' ELSE p[1] \in loops'}
    /\ UNCHANGED <<count, db, run, frozen, restarts>>

\* interrupt_turn answers or fails: either way the task is aborted.
InterruptAnswered(j) == j.call \in {"abort", "stop"} /\ AbortNow(j.t, j.call, {j})

-----------------------------------------------------------------------------
(* Backend events.  EventBridge.run handles one at a time: while it awaits   *)
(* in a drain, or before the startup drains are over, none is handled.  An   *)
(* event may be late, repeated or about a task that has long ended.          *)

StartupOver ==
    todrain \cap ({"startup"} \X Workspaces) = {} /\ \A j \in jobs : j.by # "startup"

PumpReady == "pump" \in loops /\ StartupOver /\ \A j \in jobs : j.by # "pump"

\* The statuses an event finds and leaves; activity starts a queued task.
Seen(st) == IF st = "queued" THEN "running" ELSE st

\* set_active_turn is committed before _transition may refuse.
TurnStarted(t) ==
    LET r == [db.row[t] EXCEPT !.turn = TRUE] IN
    /\ PumpReady /\ r.thread
    /\ db' = Write(db, t, IF CanMove(r.st, "running") THEN [r EXCEPT !.st = "running"] ELSE r)
    /\ UNCHANGED <<count, run, jobs, todrain, loops, frozen, restarts>>

\* turn_completed: the status of the task after it, by the status st the
\* handler read and the turn's own status.
Completed(t, how) ==
    LET r == db.row[t] IN
    CASE how = "failed" -> "failed"
      [] how = "interrupted" -> IF r.st = "archived" THEN r.st ELSE "aborted"
      [] how = "inProgress" -> r.st
      [] how = "completed" ->
            IF r.st \in {"failed", "aborted", "archived"} THEN r.st
            ELSE IF r.pending
            THEN IF r.st # "paused" /\ CanMove(Seen(r.st), "waiting_approval")
                 THEN "waiting_approval" ELSE r.st
            ELSE IF r.orch /\ run[t] > 0 THEN "running"
            ELSE IF CanMove(Seen(r.st), "done") THEN "done" ELSE r.st

\* _transition refused: process_event stops before it drains.
Refused(t, how) == how = "completed" /\ db.row[t].st = "done" /\ db.row[t].pending

TurnCompleted(t, how) ==
    LET d == EndTurn(db, t, Completed(t, how)) IN
    /\ PumpReady /\ db.row[t].thread
    /\ IF d.row[t].st \in Terminal /\ ~Refused(t, how)
       THEN ThenDrain(d, d.row[t].ws, "pump", {})
       ELSE db' = d /\ UNCHANGED jobs
    /\ UNCHANGED <<count, run, todrain, loops, frozen, restarts>>

\* thread_status_changed to systemError.
SystemError(t) ==
    /\ PumpReady /\ db.row[t].thread
    /\ ThenDrain(EndTurn(db, t, "failed"), db.row[t].ws, "pump", {})
    /\ UNCHANGED <<count, run, todrain, loops, frozen, restarts>>

\* Items, diffs, file changes, usage and command output: activity starts a
\* queued task whose turn_started is missing.
ItemActivity(t) ==
    /\ PumpReady /\ db.row[t].thread
    /\ db' = SetStatus(db, t, Seen(db.row[t].st))
    /\ UNCHANGED <<count, run, jobs, todrain, loops, frozen, restarts>>

\* Plans, message deltas and other thread statuses: the status read before the
\* implicit start is written back, so a queued task stays queued.
TextActivity(t) ==
    /\ PumpReady /\ db.row[t].thread
    /\ db' = SetStatus(db, t, db.row[t].st)
    /\ UNCHANGED <<count, run, jobs, todrain, loops, frozen, restarts>>

ApprovalRequested(t) ==
    LET r == [db.row[t] EXCEPT !.pending = TRUE, !.turn = TRUE] IN
    /\ PumpReady /\ r.thread
    /\ db' = Write(db, t, IF r.st # "paused" /\ CanMove(r.st, "waiting_approval")
                          THEN [r EXCEPT !.st = "waiting_approval"] ELSE r)
    /\ UNCHANGED <<count, run, jobs, todrain, loops, frozen, restarts>>

\* ApprovalService.resolve_callback answers the last pending approval.
ApprovalsResolved(t) ==
    LET r == [db.row[t] EXCEPT !.pending = FALSE] IN
    /\ db.row[t].pending
    /\ db' = Write(db, t, IF r.st = "waiting_approval" THEN [r EXCEPT !.st = "running"] ELSE r)
    /\ UNCHANGED <<count, run, jobs, todrain, loops, frozen, restarts>>

-----------------------------------------------------------------------------
(* Chief-engineer runs, the watchdog, restarts and the maintenance window.   *)

\* run.phase.changed: the projector sets the task running, whatever it was.
RunReports(t) ==
    /\ run[t] > 1
    /\ run' = [run EXCEPT ![t] = @ - 1]
    /\ db' = Write(db, t, [db.row[t] EXCEPT !.st = "running", !.thread = TRUE])
    /\ UNCHANGED <<count, jobs, todrain, loops, frozen, restarts>>

\* run.completed, run.failed
RunEnds(t, st) ==
    /\ run[t] > 0
    /\ run' = [run EXCEPT ![t] = 0]
    /\ db' = SetStatus(db, t, st)
    /\ UNCHANGED <<count, jobs, todrain, loops, frozen, restarts>>

\* Rows updated together, <<t, u>> in inner if t's update comes after u's.
TouchAll(S, inner) ==
    Order({p \in db.newer : p[1] \notin S /\ p[2] \notin S} \cup (S \X (Created \ S)) \cup inner)

\* Time passes without an update of the row.
GrowLate(t) ==
    /\ t \in Created /\ db.row[t].st \in {"queued", "running"} /\ ~db.row[t].late
    /\ db' = [db EXCEPT !.row[t].late = TRUE]
    /\ UNCHANGED <<count, run, jobs, todrain, loops, frozen, restarts>>

\* scan_once fails the tasks of S in the order they were last updated; the loop
\* then drains every workspace (S may be empty: the Relay watchdog, which the loop
\* scans too, found something).
WatchdogFails(S) ==
    /\ "watchdog" \in loops /\ StartupOver
    /\ todrain = {} /\ \A j \in jobs : j.by # "watchdog"
    /\ db' = [row   |-> [t \in Created |-> IF t \in S
                            THEN [db.row[t] EXCEPT !.st = "failed", !.turn = FALSE, !.late = FALSE]
                            ELSE db.row[t]],
              newer |-> TouchAll(S, db.newer \cap (S \X S))]
    /\ todrain' = {"watchdog"} \X Workspaces
    /\ UNCHANGED <<count, run, jobs, loops, frozen, restarts>>

\* Mutant: a queued task has no limit.
StaleRunning == {t \in Created : db.row[t].st = "running" /\ db.row[t].late}

\* _mark_stale_tasks: only queued and running tasks have a limit.
Stale == {t \in Created : db.row[t].st \in {"queued", "running"} /\ db.row[t].late}

\* _mark_backend_dead_if_sustained
OnDeadBackend == {t \in Created : db.row[t].st \in Active /\ db.row[t].thread}

\* The startup and the watchdog loop drain the workspaces one after the other.
DrainNext(by, w) ==
    /\ <<by, w>> \in todrain /\ \A j \in jobs : j.by # by
    /\ todrain' = todrain \ {<<by, w>>}
    /\ ThenDrain(db, w, by, {})
    /\ UNCHANGED <<count, run, loops, frozen, restarts>>

\* The process ends and starts again: append_startup_recovery_events fails the
\* tasks that were active, but pauses one whose chief-engineer run was handed
\* over and never began.
Restart ==
    LET S == {t \in Created : db.row[t].st \in Active \ {"paused"}} IN
    /\ restarts < MaxRestarts /\ restarts' = restarts + 1
    /\ db' = [row   |-> [t \in Created |-> IF t \in S
                            THEN [db.row[t] EXCEPT !.late = FALSE, !.st =
                                     IF @ = "running" /\ run[t] = MaxPhases + 1
                                     THEN "paused" ELSE "failed"]
                            ELSE db.row[t]],
              newer |-> TouchAll(S, {p \in S \X S : p[1] > p[2]})]
    /\ run' = [t \in Created |-> 0]
    /\ jobs' = {} /\ loops' = {"pump", "watchdog"}
    /\ todrain' = {"startup"} \X Workspaces
    /\ UNCHANGED <<count, frozen>>

Maintenance ==
    /\ frozen' = ~frozen
    /\ UNCHANGED <<count, db, run, jobs, todrain, loops, restarts>>

-----------------------------------------------------------------------------
\* Telegram updates are handled concurrently up to a limit.
HandlerFree == Cardinality({j \in jobs : j.by = "command"}) < MaxHandlers

Command ==
    \/ HandlerFree /\ \E w \in Workspaces : StartTask(w) \/ StartRun(w)
    \/ /\ HandlerFree
       /\ \E t \in Created :
              \/ ForkTask(t) \/ ContinueTask(t) \/ PauseTask(t) \/ ArchiveTask(t)
              \/ ForceParallel(t) \/ SetupWorktree(t) \/ StartWorktree(t)
              \/ AbortTask(t, "abort") \/ AbortTask(t, "stop") \/ ApprovalsResolved(t)
    \/ Maintenance

Answer(by) ==
    \E j \in jobs : /\ j.by = by
                    /\ \/ ThreadCreated(j) \/ TurnAccepted(j)
                       \/ CallFailed(j) \/ InterruptAnswered(j)

Event ==
    \E t \in Created :
        \/ TurnStarted(t) \/ SystemError(t) \/ ItemActivity(t) \/ TextActivity(t)
        \/ ApprovalRequested(t)
        \/ \E how \in {"failed", "interrupted", "inProgress", "completed"} : TurnCompleted(t, how)

RunStep == \E t \in Created : RunReports(t) \/ \E st \in {"done", "failed"} : RunEnds(t, st)

\* Every scan looks for both, the second only when the backend has long been down.
Scan == \E S \in {Stale, Stale \cup OnDeadBackend} : WatchdogFails(S)

Drains == \E p \in todrain : DrainNext(p[1], p[2])

Next == Command \/ (\E by \in Callers : Answer(by)) \/ Event \/ RunStep \/ Scan \/ Drains
        \/ ConnectionLost \/ Restart \/ (\E t \in Ids : GrowLate(t))

\* A request is answered, fails or times out (jsonrpc.py); a run reports or
\* ends; the loops go on; time passes, and a task that stays late is found by a scan.
Fairness ==
    /\ \A by \in Callers : WF_vars(Answer(by))
    /\ WF_vars(RunStep) /\ WF_vars(Drains)
    /\ \A t \in Ids : WF_vars(GrowLate(t)) /\ WF_vars(t \in Stale /\ Scan)

Spec == Init /\ [][Next]_vars /\ Fairness

-----------------------------------------------------------------------------
\* The tasks that share a workspace under its lock: not those in a worktree of their
\* own, nor those the user started in parallel.
Locked(t) == t \in Created /\ ~db.row[t].tree /\ ~db.row[t].forced

\* The write lock: of those tasks, and as far as no chief-engineer run drives them, at
\* most one per workspace is active, whatever commands, parallel starts, drains, late
\* events, failed calls, scans and restarts interleave (ensure_workspace_available,
\* drain_workspace).
OneWriterPerWorkspace ==
    \A t, u \in Created :
        /\ t # u /\ db.row[t].ws = db.row[u].ws
        /\ Locked(t) /\ Locked(u) /\ ~db.row[t].orch /\ ~db.row[u].orch
        => ~(db.row[t].st \in Active /\ db.row[u].st \in Active)

\* "test_workspace_write_lock_rejects_second_running_task" (test_task_service.py):
\* the same with chief-engineer runs.  One that goes on after its task was aborted
\* sets it running again (_project_task_status_event).
OneWriter ==
    \A t, u \in Created :
        /\ t # u /\ db.row[t].ws = db.row[u].ws
        /\ Locked(t) /\ Locked(u)
        => ~(db.row[t].st \in Active /\ db.row[u].st \in Active)

\* A task that ended becomes active again only by the continue command, which
\* checks the lock: no late or repeated backend event, no answer to a handler
\* that outlived the task and no drain revives it.
EndedStaysEnded ==
    [][\A t \in Created :
          /\ ~db.row[t].orch
          /\ db.row[t].st \in Terminal \cup {"archived"} /\ db'.row[t].st \in Active
          => ContinueTask(t)]_vars

Working(t) == t \in Created /\ db.row[t].st \in {"queued", "running"}

\* While the watchdog loop runs, a task does not stay queued or running for ever
\* without a sign of life: whatever call, event or restart was lost, the watchdog ends
\* it unless its row is updated again and again.
WorkEnds ==
    \A t \in Ids :
        <>[](Working(t) /\ "watchdog" \in loops) => []<>(t \in Created /\ ~db.row[t].late)
=============================================================================
