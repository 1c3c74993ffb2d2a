------------------------------- MODULE Runtime -------------------------------
(***************************************************************************)
(* Three components that keep their state in the runtime database and do    *)
(* not touch each other's: the tasks (TaskService), the queued runs         *)
(* (RunQueue) and the raw frames (RawFrameRetention).  One run explores the *)
(* three in turn: part, chosen initially, says which of them takes steps,   *)
(* and the other two stay at their initial states.                          *)
(***************************************************************************)
EXTENDS TaskService

CONSTANTS
    MaxQueued, MaxRunCrashes,                       \* bounds of RunQueue
    Turns, MaxFrames, MaxFrameCrashes, BatchSize    \* turns, bounds and policy of RawFrameRetention

ASSUME RuntimeAssumption ==
    /\ MaxQueued \in Nat /\ MaxRunCrashes \in Nat
    /\ MaxFrames \in Nat /\ MaxFrameCrashes \in Nat /\ BatchSize \in Nat

VARIABLES
    part,
    queue, lease, started, active, marked, task, other, offered, calls, pc, live, mode,
    runsFrozen, runsCrashes,
    frames, turn, seq, hot, aged, turnsActive, cursor, gz, man, archives, index,
    tomb, expired, retired, work, reader, framesCrashes

Runs == INSTANCE RunQueue WITH
    MaxCrashes <- MaxRunCrashes, frozen <- runsFrozen, crashes <- runsCrashes

Raw == INSTANCE RawFrameRetention WITH
    MaxCrashes <- MaxFrameCrashes, count <- frames, active <- turnsActive, crashes <- framesCrashes

runVars == <<queue, lease, started, active, marked, task, other, offered, calls, pc, live, mode,
             runsFrozen, runsCrashes>>
rawVars == <<frames, turn, seq, hot, aged, turnsActive, cursor, gz, man, archives, index,
             tomb, expired, retired, work, reader, framesCrashes>>
allVars == <<part, vars, runVars, rawVars>>

PartsInit ==
    /\ part \in {"tasks", "runs", "frames"}
    /\ Init /\ Runs!Init /\ Raw!Init
    /\ part # "frames" => turn = [f \in Raw!Frames |-> CHOOSE t \in Turns : TRUE]

PartsNext ==
    /\ UNCHANGED part
    /\ \/ part = "tasks" /\ Next /\ UNCHANGED <<runVars, rawVars>>
       \/ part = "runs" /\ Runs!Next /\ UNCHANGED <<vars, rawVars>>
       \/ part = "frames" /\ Raw!Next /\ UNCHANGED <<vars, runVars>>

PartsSpec == PartsInit /\ [][PartsNext]_allVars
-----------------------------------------------------------------------------
\* Every table of the three components holds values of its type.
PartsTypeOK == TypeOK /\ Runs!TypeOK /\ Raw!TypeOK

\* RunQueue: a queued run is launched once or marked by a web-only startup, never
\* both and never twice, whatever crashes and expired leases come between the commits of
\* process_queued_runs.
OneOutcome == Runs!OneOutcome

\* RunQueue: process_queued_runs launches a run into a workspace its own task alone
\* holds, and before no older run of the workspace that could be launched.
LaunchInTurn == [][Runs!LaunchesInTurn]_runVars

\* RawFrameRetention: between any two steps of a retention pass, and after a
\* crash at any of them, a frame is a hot row, or in a complete archive its index
\* leads to, or was retired after its retention.
FrameKept == Raw!FrameKept

\* RawFrameRetention: a reader that races the purge is never told that the
\* archive is damaged.
NeverCorrupt == Raw!NeverCorrupt

\* RawFrameRetention: a sequence number of a turn is never used twice.
SequenceFresh == Raw!SequenceFresh

\* RawFrameRetention: no step takes a frame of an active turn out of the table.
ActiveStaysHot == [][Raw!KeepsActiveHot]_rawVars
=============================================================================
