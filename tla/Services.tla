------------------------------- MODULE Services -------------------------------
(***************************************************************************)
(* Five services that share no state: task creation                         *)
(* (RelayCreate), the live stream (LiveHub), the Telegram outbox            *)
(* (TelegramOutbox), the maintenance window (MaintenanceWindow) and one     *)
(* task under the watchdog (TaskService).  One run explores them in turn:   *)
(* part, chosen initially, says which of them takes steps; the others stay  *)
(* at their initial states, in which their fair actions are disabled.       *)
(***************************************************************************)
EXTENDS RelayCreate

CONSTANTS
    Clients, MaxEvents, MaxConnects, SnapshotLimit, QueueSize,  \* of LiveHub
    MaxTexts, MaxRetries,                                       \* of TelegramOutbox
    Sessions, Writers, MaxTurns, MaxWindows, MaxMisses,         \* of MaintenanceWindow
    Workspaces                                                  \* of TaskService

ASSUME ServicesAssumption ==
    /\ MaxEvents \in Nat /\ MaxConnects \in Nat /\ SnapshotLimit \in Nat
    /\ QueueSize \in Nat \ {0}
    /\ MaxTexts \in Nat /\ MaxRetries \in Nat \ {0}
    /\ MaxTurns \in Nat /\ MaxWindows \in Nat /\ MaxMisses \in Nat

VARIABLES
    part,
    stored, phase, todo, queue, latest, seen, connects,
    entered, texts, current, attempt, chat, outcome, waiter,
    frozen, opened, windows, candidates, verdict, cached, live, turns, gate, rows,
    captured, probe, misses,
    count, db, run, jobs, todrain, loops, tasksFrozen, restarts

Live == INSTANCE LiveHub

Outbox == INSTANCE TelegramOutbox WITH queue <- texts

Window == INSTANCE MaintenanceWindow

OneTask == INSTANCE TaskService WITH
    MaxTasks <- 1, ListLimit <- 1, MaxHandlers <- 1, MaxPhases <- 1,
    MaxRestarts <- 1, frozen <- tasksFrozen

liveVars == <<stored, phase, todo, queue, latest, seen, connects>>
outboxVars == <<entered, texts, current, attempt, chat, outcome, waiter>>
windowVars == <<frozen, opened, windows, candidates, verdict, cached, live, turns, gate,
                rows, captured, probe, misses>>
taskVars == <<count, db, run, jobs, todrain, loops, tasksFrozen, restarts>>
allVars == <<part, vars, liveVars, outboxVars, windowVars, taskVars>>

PartsInit ==
    /\ part \in {"create", "live", "outbox", "window", "task"}
    /\ Init /\ Live!Init /\ Outbox!Init /\ Window!Init /\ OneTask!Init

PartsNext ==
    /\ UNCHANGED part
    /\ \/ part = "create" /\ Next /\ UNCHANGED <<liveVars, outboxVars, windowVars, taskVars>>
       \/ part = "live" /\ Live!Next /\ UNCHANGED <<vars, outboxVars, windowVars, taskVars>>
       \/ part = "outbox" /\ Outbox!Next /\ UNCHANGED <<vars, liveVars, windowVars, taskVars>>
       \/ part = "window" /\ Window!Next /\ UNCHANGED <<vars, liveVars, outboxVars, taskVars>>
       \/ part = "task" /\ OneTask!Next /\ UNCHANGED <<vars, liveVars, outboxVars, windowVars>>

\* Each service's own fairness; the retries of a client concern only task creation.
PartsFairness ==
    /\ \A r \in Requests : WF_vars(Handle(r))
    /\ WF_vars(ExpireLease)
    /\ \A k \in Keys : SF_vars(/\ part = "create"
                               /\ \E r \in Requests, policy \in Policy : Start(r, k, policy))
    /\ Live!Fairness /\ Outbox!Fairness /\ Window!Fairness /\ OneTask!Fairness

PartsSpec == PartsInit /\ [][PartsNext]_allVars /\ PartsFairness
-----------------------------------------------------------------------------
\* LiveHub: over all its connections a page receives no event twice and none out
\* of order.
InOrder == Live!InOrder

\* LiveHub: a slow page whose queue overflows catches up with the newest event.
CatchesUp == Live!CatchesUp

\* TelegramOutbox: retries and hidden successes never apply an older text after a
\* newer one.
AppliedInOrder == Outbox!AppliedInOrder

\* TelegramOutbox: a message id given to a waiting caller is of a text that is
\* shown, also when its timeout raced the delivery.
IdMeansShown == Outbox!IdMeansShown

\* TelegramOutbox: a request nobody can deliver does not hold up the queue.
EveryTextEnds == Outbox!EveryTextEnds

\* MaintenanceWindow: a window is ready only when the turns captured at its freeze
\* have ended.
ReadyMeansEnded == Window!ReadyMeansEnded

\* MaintenanceWindow: a drain ends, save for a session that went idle unprobed.
DrainEnds == Window!DrainEnds

\* TaskService: while the watchdog loop runs, a task that stays queued or running for
\* ever is one whose row is updated for ever.
WorkEnds == OneTask!WorkEnds
=============================================================================
