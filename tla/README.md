# WLCodex: a TLA+ verification project

WLCodex is a Telegram and web front end that runs coding agents (native Codex, Claude
and Antigravity sessions). Its newest and most intricate part is **Relay**: a task is
worked on by roles (director, builder, reviewer and others) in numbered *rounds*; in each
round a role has one or more *attempts*, an attempt is a turn of an agent provider, and
users queue, steer or cancel further inputs while a round runs. Everything durable lives
in one SQLite database that the web server, its asyncio tasks, further worker processes
and a maintenance command line share.

The modules here are translated from the code under `src/wlcodex`. Paths below are
relative to it unless they start with `src/` or `docs/`.

## 1. Inventory

| Component | State | Operations | Interacts through | Hard behaviour | What makes it correct |
|---|---|---|---|---|---|
| Pending-input queue (`relay/store.py`, `relay/service.py`) | inputs, per-input leases, one fence per workspace, transition and follow-up artifacts | queue, cancel, steer, claim, renew, release, consume, recover | database rows; round completion calls the consumer; the reconcile loop retries it | leases expire under a running worker; four commits and one await per input; workers die in between | one consumer per workspace; one round per input, in order; nothing settled twice or without the lease; nothing forgotten |
| Rounds, attempts, role dispatch (`relay/lifecycle.py`, `relay/service.py`) | rounds, attempts, dispatch metadata, role errors | dispatch, resume, user message, follow-up round, quarantine | provider calls (awaits), runtime events, HTTP routes | state read before an await and written after it; a crash with the provider's outcome unknown | one provider call per attempt; a result goes to its own round; no dispatch hangs |
| Task creation and idempotent mutations (`relay/mutations.py`, `relay/store.py`, `live_stream/relay_collection_routes.py`) | mutation rows by key, creation lease per workspace, team runs | claim key, decide about active tasks, interrupt, create, bind, repair, complete | HTTP clients that retry; providers that are interrupted | repeated requests, crash between commits, lease shorter than the work | one task per key; no parallel task unless chosen; a retry is answered |
| Completion projection (`relay/service.py`, `relay/lifecycle.py`) | completion claims, result artifacts, handoffs | claim a completion, parse the output, hand off or complete | runtime events, reconciler | duplicated and late completions; crash after the artifact is saved | a completion is applied once, to the attempt it belongs to |
| Native approvals and round control (`relay/service.py`, `relay/lifecycle.py`) | native approval rows, resolving and superseded states | approve, deny, confirm, recover | provider calls, operators | answered at the provider before the row is updated | at most one answer (no runtime event reaches the handler that would open such an approval, so the saga is dormant) |
| Handoff graph, guardrails, goal acceptance (`relay/graph.py`, `relay/guardrails.py`, `relay/goal_acceptance.py`) | none | next role, loop limits, acceptance of evidence | called by the projection | limits, off-by-one | the graph's rules against a reference |
| Maintenance window (`maintenance.py`) | window row, probes of native turns | begin, count active work, cancel, swap | gate checked by every submission path | a submission races the freeze; rows left by the dead | quiescent means that nothing can write |
| Task service, write lock, watchdog, recovery (`task_service.py`, `locks.py`, `watchdog.py`, `runtime_diagnostics.py`) | task rows with thread, turn and status; the write lock is a scan of these rows | start, fork, continue, pause, abort, archive, backend events, drain, time out, recover after restart | Telegram commands, event bridge, chief-engineer runs | handlers suspended in a backend call while others write; late events; restart with tasks running | one writer per workspace, but for worktrees and parallel starts; an ended task stays ended; the watchdog ends what shows no sign of life |
| Approvals of Codex requests (`approval.py`, `jsonrpc.py`, `event_bridge.py`) | approval rows, held JSON-RPC requests, counter of pending approvals | request, click, resolve, expire | Telegram callbacks, app server | two clicks across an await; a click after the task ended | a request is decided once and answered with that decision (see *Known gaps* for permissions); a waiting task has something to decide |
| Telegram outbox (`telegram_outbox.py`) | queue, waiters, retry state | enqueue, deliver, retry, give up | Telegram API | time-out after acceptance | nothing older is applied after something newer; an id means a message; every text ends |
| Runtime event store (`runtime_event_store.py`, `runtime_projector.py`) | append-only events, queued runs as companion events | append, claim, release, consume, project | workers per workspace | claims as events | a queued run is launched once or recovered, in its turn and in a workspace reserved for it |
| Raw frame retention (`runtime_raw_frame_retention.py`) | hot rows, archive files, manifests | archive, verify, purge, compact | file system and database | crash between file and row | no frame is deleted that is not archived; a reader never sees a half-deleted archive; sequence numbers are not reused |
| Live stream (`live_stream/hub.py`, `live_stream/server.py`) | subscriber queues of 200, snapshots | publish, subscribe, reconcile | browsers | a slow subscriber loses the oldest event | nothing twice or out of order; an overflowed page catches up |
| Controller, orchestration, providers, council, surfaces, pages | mostly per-call | routing, prompts, rendering | | | formatting and external processes |

`PROJECT.json` lists them all with their status, and under `hazards` what is hard to test
in each, at the line where it bites.

## 2. Plan

Done, in order of importance: `RelayQueue`, `RelayDispatch`, `RelayCreate`,
`RelayCompletion`, `TaskService`, `TaskApproval` (shown to implement `ApprovalPromise`),
`RunQueue`, `RawFrameRetention`, `TelegramOutbox`, `LiveHub`, `MaintenanceWindow`, and for
each of them the proofs of its safety properties (section 5).

Next:

1. Proofs: what of `RelayCompletion` remains when a message may overtake an answer, and of
   `TaskService` when the list of tasks is cut off.
2. The two commits of `start_followup_round`, and `RelayDispatch` composed with
   `RelayCompletion` over shared attempts.
3. The compaction of the database file behind a maintenance window; the handoff graph and
   the acceptance of evidence as operators against a reference.

The runs keep to two actors (workers, handlers) and the smallest numbers of inputs,
rounds and faults at which the race in question exists; section 4 says why.

## 3. Modules and code

### RelayQueue

One action is one synchronous stretch of the consumer between durable writes or awaits.

| Variable | Code |
|---|---|
| `rounds`, `attempt` | `relay_rounds` (status and `trigger_artifact_id`), the status of the director's latest attempt |
| `inputs` | `relay_pending_inputs` (status, `queued_after_round_id`, `consumed_round_id`) |
| `leases`, `locks` | `relay_workspace_queue_leases`, `relay_workspace_queue_locks`; `live` stands for `lease_expires_at` not yet passed |
| `marker`, `followups` | the `pending_input_transition` and `user_followup` artifacts of an input |
| `steering` | calls of `_steer_active_attempt` that await the provider |
| `job` | local variables of `consume_pending_after_round`, `_consume_claimed_pending_input` and `_recover_pending_input_transitions` |
| `frozen` | `submissions_frozen` of the maintenance window |

| Action | Code |
|---|---|
| `QueueInput`, `AddUserMessage`, `Cancel` | `queue_or_followup_user_input`, `add_user_message`, `cancel_pending_input` |
| `SteerBegin`, `SteerAccepted`, `SteerFailed` | `_steer_active_attempt` before and after its await |
| `CompleteRound`, `FailRound`, `Interrupt` | `handle_role_output` on the director's last output; `interrupt` of the whole task |
| `ClaimAfterRound`, `RecoverTransition` | `claim_pending_input_for_workspace`, from the end of a round and from reconciliation |
| `MarkTransition`, `StartRound`, `RecordFollowup`, `Dispatch`, `DispatchReturns`, `Consume` | the steps of `_consume_claimed_pending_input` |
| `Expire`, `Crash` | the 300 s lease; the death of a worker |
| `Freeze`, `Unfreeze` | `begin_maintenance_window`, `cancel_maintenance_window` |

Abstracted: texts, attachments and events; other roles than the director; lease times,
which are a flag that time may clear. `start_followup_round` is one step although it
commits twice, and so is `Interrupt`, which awaits the provider's acknowledgement of each
active role (`service.py:5518-5531`) before it writes; its writes are at the end, as in the
code. The dispatch of a user's own message is taken as done. `AtWork` and `faults` only
count stalls, so that a run can bound them.

### RelayDispatch

One role of one task. `rounds`, `attempts`, `error` (the `role_error` artifact) and
`session` (the native session that this round's dispatch metadata names) are the tables;
`turns` is what the provider has started; `job` holds each coroutine's locals.
`Updated` is `update_attempt` with its three cases (superseded: ignored; terminal: a new
attempt that inherits session and run; otherwise in place). `claims` and `reopened` of an
attempt are history, read by no action's guard. A run (`agent_run_id`) belongs to the native
session (`codex_native/controller.py:601`, `667`): a call that continues a session, also the
one a message of the next round makes, reports the run of the call that started it. The
model names session and run by the number of that turn.

| Action | Code |
|---|---|
| `Schedule`, `Dispatch`, `Claim` | `_schedule_relay_dispatch`, `dispatch_role`, `claim_queued_attempt_dispatch` |
| `ProviderAccepts` | the provider begins a turn: the side effect no transaction covers |
| `Verified`, `CallFails` | `dispatch_role` after its await; `_mark_role_fallback` |
| `AddUserMessage` | `add_user_message`, which opens a round and, if a session exists, messages it without a claim |
| `ResumeGate`, `ResumeRole` | the presentation check of the resume route, the await of the request body, `resume_role` |
| `TurnFails`, `TurnCompletes` | `handle_runtime_event`, `handle_role_output` for the current attempt |
| `Quarantine` | `quarantine_stale_unverified_dispatches` in `reconcile_task_lifecycle` |
| `Crash` | a coroutine dies with its process |

### RelayCreate

One workspace; handlers in different processes (inside one, an `asyncio.Lock` serialises
them). `mutations` is `relay_mutation_idempotency`, `tasks` the `team_runs` rows with the
creation key in their goal (`built`: the jobs, the first round and the board exist),
`lease` the `relay_workspace_creation_leases` row.

| Action | Code |
|---|---|
| `Start` | `begin_mutation`: new key, bound key, or a key whose task is found by its marker |
| `ClaimLease`, `Observe`, `Interrupted` | `create_task_after_workspace_decision` before, at and after the awaited interrupts |
| `Create`, `Build` | `create_task`: the first commit, and the rest with the release of the lease |
| `BindTask`, `Repair`, `Finish` | `bind_task`, `recover_task_creation`, dispatch and `complete` |
| `ExpireLease`, `TaskEnds`, `Crash` | the 300 s lease; a task ends; a handler dies |

The other keyed mutations (message, input, resume, control) and requests without a key
are not modelled. `policy` stands for the request fingerprint.

### RelayCompletion

How the answer of one role's run becomes the role's result. The process is one event loop:
`loop` names the coroutine that has it, and a coroutine gives it up only at an await (the
controlled test of a goal, the dispatch of the next role, the question of a format retry).

| Variable | Code |
|---|---|
| `rounds`, `routed`, `attempts`, `retried` | `relay_rounds`, the routing decision of a round, `relay_attempts` with their run and completion artifact, the `role_error` of a format retry |
| `used`, `born`, `said` | the provider's runs and their answers; `born`, the round a run was started for, is history |
| `claim`, `old` | `relay_completion_event_claims`; `old` stands for `updated_at` before the 900 s cutoff |
| `saved`, `handed` | result artifacts by run and event; handoffs |
| `job`, `handled` | the coroutines' locals; `_handled_runtime_completion_ids` |

| Action | Code |
|---|---|
| `Route`, `DispatchRole`, `UserMessage` | the director's decision, the dispatch that starts a run, `start_followup_round` |
| `Deliver` | `handle_runtime_event`, `reconcile_task` and the session scan, for a delta, a message or a text read from the session |
| `Claim`, `Decide`, `Finish` | `claim_completion_event_result`; the choice between retire, finish and apply in `_claim_runtime_completion_projection`; `_finish_runtime_completion_projection` |
| `Save`, `TestEnds`, `Handoff`, `Dispatched`, `Block` | `handle_role_output` |
| `Retry`, `Asked` | `_retry_role_envelope_format` |
| `NoAnswer`, `LeaseExpires`, `Crash` | `scan_stale_native_roles`; the 900 s; the process dies |

The answer to a format retry is a second turn of the same session, hence of the same run
(`again`): its events are new (`Deltas`, `Messages`), its claim is the run's.
`Overtake` says whether a user message may open a round while an answer is being applied;
the two runs of the module differ in it. `CompletionAssumption` asks for at least one round
and for a loop value that is no coroutine.

### TaskService

The tasks of a chat, in the rows of one table. `db.row` holds a task's status, workspace,
thread, turn, worktree (`tree`), `is_force_parallel` (`forced`) and whether `updated_at` is
further back than the watchdog's limit (`late`: set by time, cleared by every write of the
row), `db.newer` the order of `updated_at` (kept only when the list can be full);
`jobs` are handlers suspended in a call of the backend, with the caller that will see an
exception; `run` the chief-engineer runs; `todrain` and `loops` the work of the startup and
of the watchdog loop. The write lock is `Blockers`, a scan of the rows `list_tasks` returns
that leaves out tasks with a worktree (`locks.py:26-28`). `OneWriterPerWorkspace` speaks of
the tasks that are under the lock: not in a worktree, not started by `force_parallel_start`
and not driven by a chief-engineer run.
`EndedStaysEnded` speaks of the tasks outside of chief-engineer runs: one that has ended
becomes active only by a continue, which passes the lock again.

| Action | Code |
|---|---|
| `StartTask`, `ForkTask`, `StartRun`, `ContinueTask`, `PauseTask`, `ArchiveTask`, `AbortTask` | the commands of `task_service.py`, `legacy_diagnostics.py` and the controller up to their first await |
| `ForceParallel`, `SetupWorktree`, `StartWorktree` | the two ways out of the queue beside the lock. They return the prompt to a caller that would create the thread; the repository has no such caller, so no handler is suspended by them |
| `ThreadCreated`, `TurnAccepted`, `CallFailed`, `InterruptAnswered`, `ConnectionLost` | what follows the await; a lost connection cancels what the event pump and the watchdog loop await, and ends them |
| `TurnStarted`, `TurnCompleted`, `SystemError`, `ItemActivity`, `TextActivity`, `ApprovalRequested`, `ApprovalsResolved` | `apply_backend_event`, `process_event` with its drain, `resolve_callback` |
| `RunReports`, `RunEnds` | `_project_task_status_event`; the end of `_run_chief_engineer` |
| `GrowLate`, `WatchdogFails`, `DrainNext`, `Restart`, `Maintenance` | time; `scan_once` and its loop; `append_startup_recovery_events`; the window |

### TaskApproval and ApprovalPromise

`TaskApproval` has the server requests (`asked`, with what the app-server got as `reply`),
the futures the JSON-RPC clients hold (`held`), responses on their way (`sending`), the
bridge's queue (`events`), the rows and the count of the ledger, and the click handlers
that wait (`clicks`).

| Action | Code |
|---|---|
| `Ask`, `SendReply`, `ConnectionLost` | the held requests of `jsonrpc.py`, `_send_held_response`, `close` |
| `RequestProcessed`, `ResolutionProcessed` | the approval events in `process_event` and the projector |
| `Press`, `Connected`, `Initialized`, `SendFails`, `Interrupted` | `resolve_callback`, with `_ensure_client` and `interrupt_turn` as its awaits |
| `TurnCompleted`, `TaskMoves`, `PromptStarts`, `PromptEnds` | what else changes a task's status; `send_codex_prompt` |

A permissions row has one of two kinds. `RequestProcessed` stores the permissions that were
asked for; during a run's prompt the projector is first (`Ask`), stores `command_json` as
`{}` (`runtime_projector.py:740`) and `INSERT OR IGNORE` keeps it: the row is *bare*, and its
approval is sent as an empty grant, which refuses (`AnswerOf`).

`ApprovalPromise` is the abstract specification: a request is decided once, answered at
most once, only with its own decision, and may be lost with its connection. An approval of
a bare row is the verdict `void`, and only a void approval is answered by a refusal. The
refinement (`Promise == INSTANCE ... WITH`) reads `reply` from the requests and `verdict`
from the row that belongs to the request. It holds when request ids are not used again and no other
task asks during a run's prompt; `approvals_overlap` shows the second condition is needed.

`WaitingHasPending` says that a task in `waiting_approval` has a row to click on. The code
has two exceptions, both after a handler is cut off by a lost connection, and the premise
names them: a task with a permission (the cancel awaits `interrupt_turn` before the status
is looked at) and a task with more than two requests (a session batch that connects again
between the second and the third request, see *Known gaps*).

### RunQueue

`queue` is the `run.queued` events, `lease` the latest lease event of each, `started`,
`active` and `marked` the events caused by them; `task` is the status of the task reserved
for each, `live` its coroutine, `other` the workspaces with an unfinished task of other
origin. Task and coroutine are two things: `TaskEnds` (a command, a busy interrupt, a turn
end or the watchdog) ends the task of a live run and cancels nothing, and the coroutine's
next phase (`RunBegins`, `RunReports`) sets it running again. So a live run need not hold
its workspace; what holds is how it is launched (`LaunchInTurn`). `process_queued_runs` has no await but commits at every step: `Skip`, `Claim`,
`Reserve`, `LaunchFails`, `Release`, `HandOff`, `Project`, `Consume`, with `Crash` possible
between any two and `Restart` in the Telegram or the web-only mode
(`append_startup_recovery_events`). `Offer` and `Queue` are the "workspace busy" card and
its button, `OtherTask` and `OtherEnds` tasks of other origin, `RunBegins`, `RunReports` and
`RunEnds` the executor. Left out: the clause of `_queued_run_is_consumed_locked` for markers
without `causation_id` (older versions wrote them, this code writes none), and a user who
pauses the task of a queued run.

### RawFrameRetention

`hot`, `archives`, `index`, `tomb` and `cursor` are tables, `gz` and `man` files. The pass
(`PickBatch`, `WritePayload`, `WriteManifest`, `CommitArchive`, then `Purge`,
`UnlinkPayload`, `UnlinkManifest`, `ForgetArchive`) runs in a thread, so `AppendFrame`,
`TurnChanges` and the reader (`Look`, `OpenFiles`, `Recheck`) interleave with its steps and
`Crash` comes between them. `retired` is history. `PickBatch` takes a page from any place of
the `(occurred_at, id)` cursor, which covers the pages of a pass and their split by date.

### TelegramOutbox, LiveHub, MaintenanceWindow

`TelegramOutbox`: `Enqueue`, `Pick`, `Delivered`, `Rewrapped` (a request of the transport
only enqueues the Bot API request), `NotModified`, `Failed` (a time-out may hide that
Telegram applied it) and `WaitTimesOut`. `chat` is what Telegram applied.

`LiveHub`: `Publish`, and per page `Connect` with its cursor, `WriteSnapshot`, `Subscribe`,
`Deliver`, `Disconnect`. The handler is suspended at each write, so events are published
between the snapshot and the subscription.

`MaintenanceWindow`: `Begin`, `Cancel`, `StartProbe` and `ProbeSession` are commands of the
operator; `Submit`, `Act`, `GiveUp`, `WriterEnds`, `TurnEnds` and `Heard` the service, whose
gate check and action are two steps. `Act` takes the provider's acceptance and the row with
status `running` as one step, although `controller.py:636-649` awaits in between: a freeze
there captures nothing of that turn, and `ReadyMeansEnded` speaks of captured turns. The
thirteen row queries count as one set of rows.

### MC modules

`MCRelayQueue`, `MCRelayDispatch`, `MCRelayCompletion`, `MCTaskApproval` and
`MCTaskService` name model values for the sets, `MCRuntime` and `MCServices` those of
`Runtime` and `Services`. These two put several components that share no variable into one
run: `part`, chosen initially, says which of them takes steps, while the others stay at
their initial states, where their fair actions are disabled. `Runtime` has the tasks, the
queued runs and the raw frames, `Services` creation, the live stream, the outbox, the
window and one task; they restate the properties of their components under their own
names. As no action of one component reads or writes a variable of another, exploring them
in turn loses no behaviour that their product would show to a property of one of them.

Operators commented *Variant*, *Mutant* or *mutation* are plausible faulty versions of the
definition that follows them; no specification uses them. Each property of a passing run
is refuted when the variant `PROJECT.json` names takes the definition's place, which shows
that the property depends on that piece of code.

## 4. Runs

| Run | Checks | Result |
|---|---|---|
| `queue_shared_workspace` | `TypeOK`, `OneLiveLeasePerWorkspace`, `StartedFollowupSettles` | hold: two tasks of one workspace, two workers, one fault |
| `queue_one_task` | `FenceMatchesLease`, `OneRoundPerInput`, `ConsumedIntoItsRound`, `ConsumedInOrder`, `SettledForever`, `ConsumedUnderLease` | hold: two inputs of one task, steering, messages, one window, one fault |
| `dispatch_safety` | `ClaimsAccounted`, `SessionIsAwaited`, `SupersededSealed`, `FirstDispatchSettles` | hold |
| `completion_safety` | `HandedOnce`, `ResultOfOwnRound`, `RunSettles` | hold, as long as no message opens a round while an answer is being applied |
| `approvals_safety` | `DecisionReaches`, `WaitingHasPending`, `KeepsPromise` (refinement of `ApprovalPromise`) | hold |
| `runtime_safety` | `PartsTypeOK`; tasks: `OneWriterPerWorkspace`, `EndedStaysEnded`; queued runs: `OneOutcome`, `LaunchInTurn`; raw frames: `FrameKept`, `NeverCorrupt`, `SequenceFresh`, `ActiveStaysHot` | hold |
| `services` | creation: `OneTaskPerKey`, `CompletedMeansBuilt`, `ParallelOnlyByChoice`, `FoundTaskCompletes`; live stream: `InOrder`, `CatchesUp`; outbox: `AppliedInOrder`, `IdMeansShown`, `EveryTextEnds`; window: `ReadyMeansEnded`, `DrainEnds`; one task: `WorkEnds` | hold |
| `queue_stranded` | `QueuedInputStarts` | **refuted** |
| `dispatch_resume` | `OneCallPerAttempt` | **refuted** |
| `completion_late` | `ResultOfOwnRound` | **refuted** once a message may overtake an answer |
| `tasks_one_writer` | `OneWriter` | **refuted** |
| `approvals_overlap` | `AnswersOwnRequest` | **refuted** |

The type invariants of `RelayDispatch`, `RelayCompletion`, `TaskApproval`, `LiveHub`,
`TelegramOutbox` and `MaintenanceWindow` are defined in their modules as `TypeOK`; they
describe the state and are not listed in a configuration. Those of `RelayDispatch`,
`RelayCompletion` (under its hypothesis), `TelegramOutbox` and `TaskApproval` are proved.

What the refuted runs show (the quoted lines are in `PROJECT.json`, `findings`):

- *A queued input can be stranded.* The end of a round tries to claim once. If another
  task's consumer holds the workspace fence at that moment, the input stays pending:
  reconciliation only retries inputs that have a transition marker and skips completed
  tasks. The page says the input starts by itself. The run has no fault and no window, and
  `Stranded` asks for a completed round and no other input of the task: in TLC's trace `t2`'s
  consumer has the fence when `t1`'s round completes, and after `t2`'s saga is over `t1`'s
  only input waits for ever. A closed gate or a worker that dies before the marker would
  have the same effect; this run does not show them.
- *Two provider calls for one attempt.* Two resume requests pass the presentation check
  before they await their bodies; `resume_role` refuses only `streaming` and `queued`, so
  the second reopens an attempt the first is dispatching.
- *A late answer lands in the next round.* The completion claim is checked before the
  controlled test is awaited; `update_role_status` then writes to the round that is
  current, which a message may have opened meanwhile.
- *Two writers in a workspace.* The phase event of a chief-engineer run sets its task
  running without reading its status. If the task was aborted and another one has started,
  both are active, without worktree or parallel start. `OneWriterPerWorkspace` is the part of the lock that holds.
- *An approval answers another task's request.* During its prompt a run's callback takes
  every event of the shared backend for its own; the request of another task becomes a row
  of the run's task, and a session approval there answers it.

### Known gaps

Behaviours of the code that a stronger property would meet. They are in the models as the
code has them, or excluded by a constant or an exception that the property's comment names.

- Relay: a dispatch result that returns after a follow-up lands on the new round
  (`store.py:1782`); a retried attempt inherits its predecessor's session and run, which
  the quarantine query excludes, so that after a crash it stays `dispatching`; a
  quarantined role allows only `refresh` (`models.py:596`), so that the override of
  `resume_role` cannot be reached; a provider that accepted a steered text may find its
  input settled, and the text is delivered twice; the result artifact is saved before the
  handoff, and a recovered claim that finds it finishes without the handoff. A format retry
  continues the same session, so that its answer finds the claim `agent:{run}` applied
  (`lifecycle.py:1050-1060`) and is dropped; the role keeps streaming, because the scan of
  stale roles takes "already applied" for a success too (`service.py:5370`).
  `RunSettles` therefore speaks of the first answer of a run; the guardrail retry
  (`service.py:3128-3230`), not modelled, goes the same way.
- Creation: a key whose handler died before the task row exists is answered 409 for ever
  (`mutations.py:190`); with an interrupt longer than the 300 s lease (`MaxSlow = 1`)
  `ParallelOnlyByChoice` fails.
- Tasks: `list_tasks(limit=100)` hides an old paused task from the lock (a `ListLimit`
  below `MaxTasks`); a drain during a maintenance window fails the waiting task; waiting
  tasks are not drained after a stop, an archive or the end of a run; a lost connection
  can end the event pump or the watchdog loop, after which a task may stay running for ever:
  `WorkEnds` speaks of tasks while the loop runs. `drain_workspace` does not look at
  `worktree_path`: a waiting task whose worktree is set up may be drained into the main
  workspace, where the lock then does not see it (`OneWriterPerWorkspace` exempts it).
  `start_worktree_task` does not ask whether submissions are frozen.
- Approvals: a permission that is requested during a run's prompt is stored without its
  permissions, and its approval reaches the app-server as a refusal while the row says
  approved (`void`); the `response_schema` of a legacy request is lost in the same way, which
  the model, having one answer per decision, does not tell apart. A clean close of the socket
  ends the receive loop without an exception, and `codex_backend.py:612-658` then keeps the
  closed client; only the loss with an exception is modelled. A permission whose cancel is cut off in `interrupt_turn` leaves its task
  waiting; so does a session approval of three requests whose handler finds the client
  closed after the second one, connects again and is cancelled by a further loss in the
  handshake, while another handler decides the third request in between: `CancelledError`
  is not caught (`approval.py:255`), and the status is looked at after the batch only. TLC
  meets it with three requests, five connections and four losses. Held requests are keyed
  by the request's id alone (`ReuseIds`).
- Queued runs: a run whose launch always fails stays at the head of its queue; nothing
  calls the queue after some ends of a task; a live run whose task was ended goes on beside
  the next holder of the workspace (`tasks_one_writer` shows it of the tasks).
- Outbox and stream: a request of the transport passes through the queue twice and can be
  overtaken by a direct one (`AppliedInOrder` speaks of direct texts); the queue is lost
  with the process; a page misses what is published between its snapshot and its
  subscription.
- Window: a submission that passed the gate before the freeze may act after it; a captured
  session that is stored as idle before it is probed never becomes terminal for the drain
  (`Unprobed`).

### Bounds

Two workers or handlers are enough for every race here, since each is between one holder
of a row and one rival; the theorems of section 5 need no such bound. Two tasks in one
workspace are the smallest instance in which the fence, and not just the per-input lease,
matters. Two inputs of one task give an order. `MaxRound = 2` lets one user message
supersede a round in the middle of a consumer; the consumer's own rounds are not bounded.
One fault (a crash, or a lease outlived) suffices for a takeover, since a lost lease is
retaken by recovery, and a window (`MaxFreezes = 1`) closes every gate once. In
`RelayDispatch` two rounds, two attempts and two turns allow a late result, a retry that
inherits and a second call. In `RelayCreate` two requests, two keys and two tasks give a
task to interrupt or to race with.

`completion_safety`: two coroutines, two rounds, two runs and a crash, so that an answer
may be delivered to both, late, and again after the crash. `approvals_safety`: one task,
two requests with their own ids, two handlers and three connections, so that both handlers
may connect and one connection may be lost; the buttons are a session approval (with its
batch) and a cancel, the kinds command and permission (with its interrupt).
`approvals_overlap` has two tasks. `runtime_safety`: two tasks of one workspace, one
suspended command beside the loops and one restart, without chief-engineer runs, which both
properties of the tasks except (they are explored with one task in `services`, with two in
`tasks_one_writer`, and the theorems allow any number of them); two queued runs and two
crashes, so that a recovery may itself be cut off; two frames of up to two turns in
batches of up to two, and one crash. `services`: a queue and a snapshot of two for four
events make both overflow; two texts with two attempts each; two windows, two turns and one
unanswered probe, so that a verdict can be stale; one task.

Deadlock is checked in `approvals_safety`, `runtime_safety`, `tasks_one_writer` and
`approvals_overlap`. Elsewhere the system is idle when every input, run or text is settled
and the bounds are used up.

### Fairness

A started coroutine keeps running (`WF` on each worker's own steps; awaited calls return,
with success or failure, because the providers are called with time-outs). Leases expire
because time passes. `reconcile_loop` (`live_stream/server.py`) comes round every two
seconds to every task that is not completed, interrupted or failed, hence `WF` on
`LoopRecovers` and `Quarantine` and on nothing for the skipped tasks, and `SF` on the
delivery of a completed message in `RelayCompletion`, which other coroutines may keep off
the loop for a while. An operator closes a maintenance window. In `RelayCreate` a client
repeats an unanswered key as the API tells it to (`SF`, since handlers come and go).

In `TaskService` a call of the backend is answered, fails or times out, a run reports or
ends and the loops drain (`WF`). Time passes (`WF` on `GrowLate`) and a task that stays past
its limit is found by a scan (`WF`). A task whose row is written again and again is never past
it for long, and `WorkEnds` promises nothing of it: it says that a task which stays queued or
running for ever while the watchdog loop runs is one whose row keeps being updated. In `LiveHub` the handler
writes what it has (`WF`); in `TelegramOutbox` the drain task runs every half second and a
call returns or times out (`WF`). In `MaintenanceWindow` existing work ends, as the manual
of the window expects, and the operator repeats the probe until the window is ready (`SF`).
No fairness is assumed of users otherwise, nor, outside the window, of the provider
finishing a turn.

## 5. Proofs

Each proof module holds the theorems of one component, or of one composition. A theorem
is named after the property it states; the inductive invariant comes first.

### Queue and creation

`RelayQueueProofs` proves for any sets of workers, tasks, workspaces and inputs, and any
number of faults and windows:

- `QueueInvariant`: `Spec => []QueueInv`, the inductive invariant;
- `QueueTypeCorrect`: `TypeOK`;
- `FenceAndLeaseAgree`: `FenceMatchesLease`;
- `WorkspaceExclusion`: `OneLiveLeasePerWorkspace`.

The only assumptions are those of `QueueAssumption` (each task has a workspace, inputs
are positive numbers, `None` is none of them).

`OneLiveLeasePerWorkspace` is not inductive: a claim checks the fence *and* the leases of
the workspace, but a release or a consume deletes both rows, and nothing in the property
itself says that they speak of the same input. `FenceMatchesLease` says it, and implies
exclusion, because one fence row can agree with only one lease. To be preserved it needs
that a worker past its claim works on an input that belongs to its task (`JobBound`), that
an input has a task once it is queued (`InputBound`), that leases are only on such inputs
(`LeaseBound`) and that a live fence stands in the workspace of the input it names
(`FencePlace`); `QueueInv` is their conjunction with `TypeOK`. One lemma per operation on
the two rows (`TakeClaimFence`, `ClaimNothingFence`, `DropFence`, `ReleaseClaimFence`,
`UnchangedFence`) carries the argument, and the lemmas `UserStep`, `ExpireStep`,
`WorkerStepInv` and `OtherWorkerStep` go through the actions. `MaxOfRounds` shows from
well-foundedness that the current round, a maximum, exists.

`RelayCreateProofs` proves for any handlers and keys and any number of crashes and slow
interrupts, from `CreateAssumption` alone:

- `CreateInvariant`: `Spec => []CreateInv`, the inductive invariant, which contains `TypeOK`;
- `KeyCreatesOnce`: `OneTaskPerKey`;
- `SuccessIsComplete`: `CompletedMeansBuilt`;
- `NoParallelTaskUnasked`: `ParallelOnlyByChoice`, assuming `MaxSlow = 0`. That hypothesis
  is the exact gap: with `MaxSlow = 1` the property fails.

`OneTaskPerKey` is not inductive, since nothing in it keeps two handlers of a key from
reaching the insert. `FreshInv` says that the claim of a key is exclusive until its task
exists; for that, `HandlerInv` says that a handler before its insert has an unbound row in
progress and no task that carries the key, so that neither `begin_mutation`'s recovery nor
a second claim can apply to it, and `RowInv` that a deleted row leaves no task behind (an
abandoned key may be claimed anew) and that a bound row names a task with its key. Three
predicates carry the steps: `Kept` (no task appears or loses records), `ContinuesAs` (what
a handler's next state must satisfy) and `RowBecomes` (what a new row must satisfy);
`HandlerStep` shows that together they preserve the invariant, and each action but the
insert is an instance of it. `InsertStep` is the one that adds a task.

`ParallelOnlyByChoice` speaks of a step, so its invariant must carry what a handler saw of
the workspace to the moment of its insert: `QuietInv` (a handler about to create without
`continue_background` faces no active task), which is stable because only a holder of the
lease inserts and `LeaseInv` gives the lease to every handler between its check and the
end of `create_task`.

### Relay

`RelayQueueProofs` also proves what an input goes through:

- `OrderInvariant`: `OrderInv`; from it `OneRoundForEachInput` (`OneRoundPerInput`),
  `AlwaysConsumedIntoItsRound` (`ConsumedIntoItsRound`), `AlwaysConsumedInOrder`
  (`ConsumedInOrder`);
- `SettledAlwaysForever` (`SettledForever`) and `AlwaysConsumedUnderLease`
  (`ConsumedUnderLease`), action properties.

That an input opens one round although its saga can be taken over at any statement does not
follow from the leases: two workers may be past the claim of one input, one with a lease
that has expired. What serialises them is the marker. `RoundBound` says that a round
triggered by an input is the one after the round its marker names, so that a second round
would have the same number; `MarkerBound` and `QueueOrder` say that a marker is given only
when nothing queued earlier in the task is pending, and that consumed inputs lie at or below
the markers of later ones. The first input that a claim finds eligible is the oldest pending
one (`EarlierSettled`), which `JobOrder` carries from the claim to the marker. `Forward`
names what every step keeps: triggers, places, settled rows and markers.

`RelayDispatchProofs`, for any coroutines, rounds, attempts, turns and crashes:
`DispatchInvariant`, `DispatchTypes` (`TypeOK`), `ClaimsAlwaysAccounted`
(`ClaimsAccounted`), `SessionAlwaysAwaited` (`SessionIsAwaited`), `SupersededAlwaysSealed`
(`SupersededSealed`). A claim takes a queued attempt, so the accounting is inductive once it
says that a queued attempt has a claim less than the others (`Accounted`).
`SessionIsAwaited` holds because a result writes metadata and attempt of one and the same
round, the current one, whose latest attempt is not superseded (`CurrentLive`) and so takes
the run, and because everything else keeps the run of the latest attempt or clears the
session; every call knows the run it will report (`TurnsKnown`). Older rounds have no attempt
left to claim (`OldRoundsClosed`). `UpdatedFacts` and its companions say what `update_attempt` does to a table.

`RelayCompletionProofs`, for any coroutines, rounds, runs and crashes, **assuming
`~Overtake`** (no message opens a round while an answer is applied): `CompletionInvariant`,
`AlwaysHandedOnce` (`HandedOnce`), `ResultAlwaysOfOwnRound` (`ResultOfOwnRound`).
`completion_late` shows that the hypothesis cannot be dropped. The invariant says that a
coroutine past its claim owns it alone (`Claims`), that the statements between two awaits
have the loop (`Loops`), that attempts carry runs of their own round (`Rows`), that a
coroutine which may still write works on the newest attempt of the current round, not yet
handed off (`Works`), and that a run which was handed off is the last of its round and
passed (`HandedRows`). The last one is why a second delivery of the answer, after a crash
or from the session scan, is not applied again.

### Tasks and approvals

`TaskServiceProofs`, for any workspaces, tasks, handlers, reports and restarts:
`TaskInvariant`, `TaskTypes` (`TypeOK`), `EndedAlwaysStaysEnded` (`EndedStaysEnded`) and,
assuming `MaxTasks <= ListLimit`, `WriterAlwaysAlone` (`OneWriterPerWorkspace`). The
hypothesis says that the table never holds more rows than the list the lock scans
(`list_tasks(limit=100)`), so the theorem is about a ledger of at most a hundred tasks: a
hundred newer rows hide a task from the lock, and the property then fails. The exemptions
are those of the property. Beyond types the invariant (`Placed`) needs
that no suspended handler and no thread belong to a task that still waits for its slot: an
answer of the backend then never activates a task behind the lock's back. `Moved` and
`Calm` say what a row may become without waking up, `NoneWakes` what a step does to ended
tasks, and each action is shown to be calm, an insert, a continue or a drain, the last
three of which consult the lock (`NoBlocker`, `DrainFacts`), or the start of a task that
the lock exempts.

`TaskApprovalProofs`, for any tasks, requests, handlers, connections and losses:

- `ApprovalTypes`: `TypeOK`, without hypothesis; and, assuming `~ReuseIds` and `~Overlap`,
- `FlowInvariant`: the inductive invariant `FlowInv`;
- `DecisionAlwaysReaches`: `DecisionReaches`;
- `FlowKeepsPromise`: the refinement, `Spec => KeepsPromise`, with void approvals as above;
  `approvals_overlap` shows that the second hypothesis is needed;
- `WaitingAlwaysHasPending`: `WaitingHasPending`.

Row, future, response and queued event speak of one request through its id only.
`Unique` makes the id a name; `RowOwn`, `HeldOwn` and `EventsOwn` say that a row, a held
future and an event with that id belong to the request and its task and connection;
`OpenHeld` that an open request is still held or being answered;
`SendMeans` and `Answered` that what is on its way, or has arrived, is what the row records;
`Stale` that a handler which connects again is left with requests of earlier connections
only, so that it finds none of them held by the new client. `SentFacts`
describes one pass of `resolve_callback` over the futures, and `ResolveFlow` shows that it
keeps the invariant. For the refinement, `AskStep`, `AnswerStep` and `LoseStep` map the
server's three actions to those of `ApprovalPromise`, and `DecideStep` every other step to
a decision or to a stutter: it changes no request, and a row that is decided keeps its
status (`RowsKept`).

`WaitingHasPending` cannot be proved without its exceptions: `ResolveWait` goes through
because a handler that has to connect again before it looks at the status leaves a request
of its batch pending, unless that one has been decided meanwhile, which takes a third
request.

### Runtime and services

`RuntimeProofs`, for any workspaces, runs, turns, frames, batches and crashes:

- queued runs: `RunsInvariant`, `RunHasOneOutcome` (`OneOutcome`), `LaunchAlwaysInTurn`
  (`LaunchInTurn`). What is claimed or reserved has no outcome yet, and from the reservation
  to the hand-off its task alone holds the workspace and no older run is claimable
  (`ClaimOpen`, `CallPlaced`), through any crash between the commits. Nothing is claimed of
  the workspace after the launch;
- raw frames: `FramesInvariant`, `FrameAlwaysKept` (`FrameKept`), `ReaderNeverCorrupt`
  (`NeverCorrupt`), `SequenceAlwaysFresh` (`SequenceFresh`), `ActiveFramesStayHot`
  (`ActiveStaysHot`). An archive without a tombstone has both files and no hot frame
  (`ArchivesWhole`), a batch is hot until its transaction (`WorkSound`), what a reader has
  looked up may be retired but never becomes hot again (`ReaderSound`), and the cursor of a
  turn covers what is no longer hot (`CursorCovers`), so that a number is never given twice;
- `PartsAreTheComponents`: each behaviour of the composition is a behaviour of each of its
  components, so that the theorems hold of what the run explores. `PartsTypes`
  (`PartsTypeOK`) and `PartsKeepLock` (`OneWriterPerWorkspace`) draw the conclusion; the
  types include that a page of `_eligible_frame_page`, the rows with at most `BatchSize`
  rows up to them, has no more than `BatchSize` rows (`PageFits`).

`ServicesProofs`, for any pages, events, queue limits, texts, retries, windows, turns and
probes:

- live stream: `LiveInvariant`, `PageAlwaysInOrder` (`InOrder`); the cursor is past all that
  was delivered, and the rest of a snapshot follows it without a gap;
- outbox: `OutboxInvariant`, `TextsAlwaysInOrder` (`AppliedInOrder`), `IdAlwaysShown`
  (`IdMeansShown`); the requests in the queue, the one under way and the chat are ordered as
  the texts were entered, as far as they are direct;
- window: `WindowInvariant`, `ReadyAlwaysMeansEnded` (`ReadyMeansEnded`); a verdict counts
  only for the window it was asked in, and a captured turn whose session was seen terminal in
  that window is not live any more;
- `ServicesAreTheComponents`, as above.

### Only model-checked

All liveness (`StartedFollowupSettles`, `FirstDispatchSettles`, `RunSettles`,
`FoundTaskCompletes`, `CatchesUp`, `EveryTextEnds`, `DrainEnds`, `WorkEnds` and the refuted
`QueuedInputStarts`): the proof system has no `ENABLED` and no fairness reasoning.

## 6. Not modelled

- Native approvals and round control of Relay: no runtime event reaches
  `_handle_provider_approval_requested`, so there is no behaviour to model.
- Handoff graph, guardrails and goal acceptance: pure decisions over texts and small
  tables; `RelayCompletion` takes their outcome as given.
- Native providers, Codex sessions and child processes: external; modelled as calls that
  are accepted, answered or fail.
- Council, collaboration, terminal surfaces, workbench: small sequential services.
- Pages, templates, formatting, prompts, menus, routing of texts and the projections that
  are folds over the event log: they hold no state these properties speak of. They are most
  of the program's lines.

Within the modelled parts: roles other than the one dispatched, the director's and the
human confirmation's own outputs, the keys of mutations other than creation, the second
commit of `start_followup_round`, compaction of the database file, the Relay event stream,
policies that answer an approval without a click, the texts of messages, and schema
migration and backfill of legacy rows.
