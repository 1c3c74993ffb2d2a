---------------------------- MODULE RuntimeProofs ----------------------------
(***************************************************************************)
(* Proofs about the queued runs and the raw frames of Runtime, for every   *)
(* number of workspaces, queued runs, turns, frames, batches and crashes,  *)
(* and about their composition with the tasks.                             *)
(***************************************************************************)
EXTENDS Runtime, TaskServiceProofs, Sequences, WellFoundedInduction, TLAPS

-----------------------------------------------------------------------------
(* Queued runs *)

\* A step of process_queued_runs is under way only in a serving process; what runs and
\* what has a task is a run.queued event that exists.
CallPlaced ==
    /\ mode = "down" => pc = Runs!Idle /\ live = {}
    /\ pc # Runs!Idle => pc.run \in Runs!Known
    /\ live \subseteq Runs!Known
    /\ \A q \in Runs!Ids : task[q] # "none" => q \in Runs!Known

\* No older run of the workspace could be launched instead.
OlderDone(q) ==
    \A p \in Runs!Known : p < q /\ Runs!Ws(p) = Runs!Ws(q) =>
        Runs!Consumed(p) \/ lease[p] \in {"held", "expired"}

\* What is claimed or reserved has had no outcome, and its turn has come; what is
\* reserved alone holds its workspace.
ClaimOpen ==
    /\ pc.step \in {"claimed", "reserved"} =>
         started[pc.run] = 0 /\ pc.run \notin marked /\ OlderDone(pc.run)
    /\ pc.step = "reserved" => Runs!Holders(Runs!Ws(pc.run)) = {pc.run}

\* The inductive invariant of RunQueue.
RunsInv == Runs!TypeOK /\ CallPlaced /\ ClaimOpen /\ OneOutcome

\* The oldest of the claimable rows is one of them, and no older one is claimable.
LEMMA OldestFacts ==
    ASSUME Runs!TypeOK, NEW w \in Workspaces, Runs!Claimable(w) # {}
    PROVE  LET q == Runs!Oldest(Runs!Claimable(w))
           IN  /\ q \in Runs!Known /\ q \in Runs!Ids /\ Runs!Ws(q) = w
               /\ started[q] = 0 /\ q \notin marked
               /\ \A p \in Runs!Claimable(w) : q <= p
<1> DEFINE S == Runs!Claimable(w)
           q == Runs!Oldest(S)
<1>1. Runs!Known \subseteq Runs!Ids
  BY RuntimeAssumption DEF Runs!TypeOK, Runs!Known, Runs!Ids
<1>2. S \subseteq Nat /\ S \subseteq Runs!Known
  <2>1. S \subseteq Runs!Known
    BY DEF Runs!Claimable
  <2>2. Runs!Ids \subseteq Nat
    BY RuntimeAssumption DEF Runs!Ids
  <2> QED BY <1>1, <2>1, <2>2
<1>3. q \in S /\ \A p \in S : q <= p
  <2> HIDE DEF S
  <2>1. \E x \in S : \A y \in S : x <= y
    BY <1>2, LeastNat DEF S
  <2> QED BY <2>1 DEF Runs!Oldest
<1>4. ~Runs!Consumed(q) /\ q \in Runs!Ids /\ Runs!Ws(q) = w
  BY <1>1, <1>2, <1>3 DEF Runs!Claimable
<1>5. started[q] \in Nat
  BY <1>4 DEF Runs!TypeOK
<1> QED BY <1>2, <1>3, <1>4, <1>5 DEF Runs!Consumed

\* What the invariant says of the types.
LEMMA RunsFacts ==
    ASSUME RunsInv
    PROVE  /\ Runs!Ids \subseteq Nat \ {0} /\ Runs!Known \subseteq Runs!Ids
           /\ \A q \in Runs!Known : Runs!Ws(q) \in Workspaces
           /\ Runs!Idle.step = "idle"
           /\ pc # Runs!Idle => pc \in [step : Runs!Steps, run : Runs!Ids] /\ mode # "down"
           /\ pc.step # "idle" => pc # Runs!Idle
<1>1. Runs!TypeOK /\ CallPlaced
  BY DEF RunsInv
<1>2. Runs!Ids \subseteq Nat \ {0} /\ Runs!Known \subseteq Runs!Ids
  BY <1>1, RuntimeAssumption DEF Runs!Ids, Runs!Known, Runs!TypeOK
<1>3. \A q \in Runs!Known : queue[q] \in [ws : Workspaces, goal : BOOLEAN]
  <2>1. queue \in Seq([ws : Workspaces, goal : BOOLEAN])
    BY <1>1 DEF Runs!TypeOK
  <2>2. Runs!Known = 1 .. Len(queue)
    BY <2>1 DEF Runs!Known
  <2> DEFINE R == [ws : Workspaces, goal : BOOLEAN]
  <2> HIDE DEF R
  <2>3. queue \in Seq(R)
    BY <2>1 DEF R
  <2>4. \A q \in Runs!Known : queue[q] \in R
    BY <2>2, <2>3
  <2> QED BY <2>4 DEF R
<1>4. \A q \in Runs!Known : Runs!Ws(q) \in Workspaces
  BY <1>3 DEF Runs!Ws
<1>5. Runs!Idle.step = "idle"
  BY DEF Runs!Idle
<1>6. pc # Runs!Idle => pc \in [step : Runs!Steps, run : Runs!Ids] /\ mode # "down"
  BY <1>1 DEF Runs!TypeOK, CallPlaced
<1> QED BY <1>2, <1>4, <1>5, <1>6

\* A step after which no call is in its synchronous part and the outcomes are the same.
LEMMA RunsIdle ==
    ASSUME RunsInv, Runs!TypeOK', pc' = Runs!Idle, UNCHANGED <<queue, started, marked>>,
           live' \subseteq live, mode' = "down" => live' = {},
           \A q \in Runs!Ids : task'[q] # "none" => task[q] # "none" \/ q \in live
    PROVE  RunsInv'
<1>1. OneOutcome'
  BY DEF RunsInv, OneOutcome, Runs!OneOutcome, Runs!Ids
<1>2. CallPlaced'
  BY DEF RunsInv, CallPlaced, Runs!Idle, Runs!Known, Runs!Ids
<1>3. ClaimOpen'
  BY DEF ClaimOpen, Runs!Idle
<1> QED BY <1>1, <1>2, <1>3 DEF RunsInv

\* Another handler of the process, or the end of a call.
LEMMA RunsHandlerStep ==
    ASSUME RunsInv, NEW w, NEW q, NEW b \in BOOLEAN,
           \/ w \in Workspaces /\ (\/ Runs!Offer(w) \/ Runs!OtherTask(w) \/ Runs!Skip(w)
                                    \/ Runs!OtherEnds(w, b))
           \/ q \in Runs!Ids /\ (\/ Runs!TaskEnds(q, b) \/ Runs!RunBegins(q)
                                 \/ Runs!RunReports(q) \/ Runs!RunEnds(q, b))
           \/ Runs!Release \/ Runs!Consume(b)
    PROVE  RunsInv'
<1>0. Runs!TypeOK /\ CallPlaced
  BY DEF RunsInv
<1>1. CASE w \in Workspaces /\ (Runs!Offer(w) \/ Runs!OtherTask(w) \/ Runs!Skip(w)
                                  \/ Runs!OtherEnds(w, b))
  <2>1. /\ UNCHANGED <<queue, lease, started, active, marked, task, pc, live, mode>>
        /\ UNCHANGED <<runsFrozen, runsCrashes>> /\ pc = Runs!Idle /\ mode = "telegram"
        /\ other' \subseteq other \cup {w} /\ offered' \subseteq offered \cup {w}
        /\ calls' \subseteq calls \cup {w}
    BY <1>1 DEF Runs!Offer, Runs!OtherTask, Runs!Skip, Runs!OtherEnds, Runs!store, Runs!process,
                Runs!tasks, Runs!Turn, Runs!Serving
  <2>2. Runs!TypeOK'
    BY <1>0, <1>1, <2>1 DEF Runs!TypeOK
  <2> QED BY <2>1, <2>2, RunsIdle
<1>2. CASE q \in Runs!Ids /\ (Runs!TaskEnds(q, b) \/ Runs!RunBegins(q) \/ Runs!RunReports(q)
                                \/ Runs!RunEnds(q, b))
  <2>1. q \in Runs!Known
    BY <1>0, <1>2 DEF CallPlaced, Runs!TaskEnds, Runs!RunBegins, Runs!RunReports, Runs!RunEnds,
                      Runs!Unfinished
  <2>2. /\ UNCHANGED <<queue, lease, started, marked, other, offered, pc, mode>>
        /\ UNCHANGED <<runsFrozen, runsCrashes>> /\ pc = Runs!Idle /\ mode = "telegram"
        /\ live' \subseteq live /\ active' \subseteq active \cup {q}
        /\ calls' \subseteq calls \cup {Runs!Ws(q)}
    BY <1>2 DEF Runs!TaskEnds, Runs!RunBegins, Runs!RunReports, Runs!RunEnds, Runs!store,
                Runs!process, Runs!Turn, Runs!Serving
  <2>3. /\ task[q] # "none" \/ q \in live
        /\ \E x \in {"running", "ended"} : task' = [task EXCEPT ![q] = x]
    BY <1>2 DEF Runs!TaskEnds, Runs!RunBegins, Runs!RunReports, Runs!RunEnds, Runs!Unfinished
  <2>4. Runs!TypeOK'
    BY <1>0, <1>2, <2>1, <2>2, <2>3, RunsFacts DEF Runs!TypeOK, Runs!Unfinished
  <2>5. \A p \in Runs!Ids : task'[p] # "none" => task[p] # "none" \/ p \in live
    BY <1>0, <2>3 DEF Runs!TypeOK
  <2> QED BY <2>2, <2>4, <2>5, RunsIdle
<1>3. CASE Runs!Release \/ Runs!Consume(b)
  <2>1. pc # Runs!Idle /\ pc.run \in Runs!Ids
    BY <1>3, RunsFacts DEF Runs!Release, Runs!Consume
  <2>2. /\ pc' = Runs!Idle /\ calls' \subseteq calls /\ mode = "telegram"
        /\ UNCHANGED <<queue, started, active, marked, task, other, offered, live, mode,
                       runsFrozen, runsCrashes>>
    BY <1>3 DEF Runs!Release, Runs!Consume, Runs!tasks, Runs!Serving
  <2>3. \E x \in {"released", "consumed"} :
          lease' = lease \/ lease' = [lease EXCEPT ![pc.run] = x]
    BY <1>3 DEF Runs!Release, Runs!Consume
  <2>4. Runs!TypeOK'
    BY <1>0, <2>1, <2>2, <2>3 DEF Runs!TypeOK
  <2> QED BY <2>2, <2>4, RunsIdle
<1> QED BY <1>1, <1>2, <1>3

\* The operator's command and the passing of time may come between two steps of a call:
\* an older run whose claim expires now was passed over while it was held.
LEMMA RunsOutsideStep ==
    ASSUME RunsInv, NEW q \in Runs!Ids, NEW b \in BOOLEAN, Runs!Freeze(b) \/ Runs!Expire(q)
    PROVE  RunsInv'
<1>0. Runs!TypeOK /\ CallPlaced /\ ClaimOpen /\ OneOutcome
  BY DEF RunsInv
<1>1. /\ UNCHANGED <<queue, started, active, marked, task, other, offered, calls, pc, live, mode>>
      /\ runsCrashes' = runsCrashes
      /\ lease' = lease \/ (lease[q] = "held" /\ lease' = [lease EXCEPT ![q] = "expired"])
      /\ runsFrozen' = runsFrozen \/ runsFrozen' = b
  BY DEF Runs!Freeze, Runs!Expire, Runs!store, Runs!process, Runs!tasks
<1>2. Runs!TypeOK'
  BY <1>0, <1>1 DEF Runs!TypeOK
<1>3. \A p \in Runs!Ids : /\ lease'[p] = lease[p]
                             \/ (lease[p] = "held" /\ lease'[p] = "expired")
                          /\ Runs!Consumed(p) => Runs!Consumed(p)'
  BY <1>0, <1>1 DEF Runs!TypeOK, Runs!Consumed
<1>4. CallPlaced' /\ OneOutcome'
  BY <1>0, <1>1 DEF CallPlaced, OneOutcome, Runs!OneOutcome, Runs!Known
<1>5. \A p : OlderDone(p) => OlderDone(p)'
  BY <1>1, <1>3, RunsFacts DEF OlderDone, Runs!Known, Runs!Ws
<1>6. ClaimOpen'
  BY <1>0, <1>1, <1>5 DEF ClaimOpen, Runs!Holders, Runs!Known, Runs!Ws
<1> QED BY <1>2, <1>4, <1>6 DEF RunsInv

\* handle_workspace_busy_callback appends a run.queued event.
LEMMA RunsQueueStep ==
    ASSUME RunsInv, NEW w \in Workspaces, NEW b \in BOOLEAN, Runs!Queue(w, b) PROVE RunsInv'
<1> DEFINE e == [ws |-> w, goal |-> b]
<1>0. Runs!TypeOK /\ e \in [ws : Workspaces, goal : BOOLEAN]
  BY DEF RunsInv
<1>1. queue \in Seq([ws : Workspaces, goal : BOOLEAN]) /\ Len(queue) < MaxQueued
      /\ queue' = Append(queue, e) /\ Len(queue) \in Nat
  BY <1>0 DEF Runs!Queue, Runs!TypeOK
<1> HIDE DEF e
<1>2. queue' \in Seq([ws : Workspaces, goal : BOOLEAN]) /\ Len(queue') = Len(queue) + 1
      /\ \A q \in 1 .. Len(queue) : queue'[q] = queue[q]
  BY <1>0, <1>1
<1>3. \A q \in Runs!Known : q \in Runs!Known'
  BY <1>1, <1>2 DEF Runs!Known
<1>4. /\ UNCHANGED <<lease, started, active, marked, task, other, offered, runsFrozen, runsCrashes>>
      /\ UNCHANGED <<calls, pc, live, mode>> /\ pc = Runs!Idle
  BY DEF Runs!Queue, Runs!process, Runs!tasks, Runs!Turn
<1>5. Runs!TypeOK'
  BY <1>0, <1>1, <1>2, <1>4, RuntimeAssumption DEF Runs!TypeOK
<1>6. CallPlaced' /\ OneOutcome'
  BY <1>3, <1>4 DEF RunsInv, CallPlaced, OneOutcome, Runs!OneOutcome
<1>7. ClaimOpen'
  BY <1>4 DEF ClaimOpen, Runs!Idle
<1> QED BY <1>5, <1>6, <1>7 DEF RunsInv

\* claim_next_queued_run_for_workspace takes the oldest row that has no outcome and no
\* claim.
LEMMA RunsClaimStep ==
    ASSUME RunsInv, NEW w \in Workspaces, Runs!Claim(w) PROVE RunsInv'
<1> PICK q : q = Runs!Oldest(Runs!Claimable(w))
  OBVIOUS
<1>0. Runs!TypeOK /\ Runs!Claimable(w) # {} /\ mode = "telegram"
  BY DEF RunsInv, Runs!Claim, Runs!Turn, Runs!Serving
<1>1. q \in Runs!Known /\ q \in Runs!Ids /\ started[q] = 0 /\ q \notin marked
      /\ Runs!Ws(q) = w /\ \A p \in Runs!Claimable(w) : q <= p
  BY <1>0, OldestFacts
<1>2. /\ lease' = [lease EXCEPT ![q] = "held"] /\ pc' = Runs!At("claimed", q)
      /\ UNCHANGED <<queue, started, active, marked, task, other, offered, calls, live, mode,
                     runsFrozen, runsCrashes>>
  BY DEF Runs!Claim, Runs!tasks
<1>3. pc' \in [step : Runs!Steps, run : Runs!Ids] /\ pc'.step = "claimed" /\ pc'.run = q
  BY <1>1, <1>2 DEF Runs!At, Runs!Steps
<1>4. Runs!TypeOK'
  BY <1>0, <1>2, <1>3 DEF Runs!TypeOK
<1>5. ASSUME NEW p \in Runs!Known, p < q, Runs!Ws(p) = w
      PROVE  Runs!Consumed(p)' \/ lease'[p] \in {"held", "expired"}
  <2>1. p \in Nat /\ q \in Nat /\ p # q
    BY <1>1, <1>5, RunsFacts
  <2>2. p \notin Runs!Claimable(w)
    BY <1>1, <1>5, <2>1
  <2>3. Runs!Consumed(p) \/ lease[p] = "held"
    BY <1>5, <2>2 DEF Runs!Claimable
  <2>4. p \in Runs!Ids /\ lease'[p] = lease[p]
    BY <1>0, <1>2, <1>5, <2>1, RunsFacts DEF Runs!TypeOK
  <2> QED BY <1>2, <2>3, <2>4 DEF Runs!Consumed
<1>6. OlderDone(q)'
  BY <1>1, <1>2, <1>5 DEF OlderDone, Runs!Known, Runs!Ws
<1>7. CallPlaced' /\ OneOutcome'
  BY <1>0, <1>1, <1>2, <1>3 DEF RunsInv, CallPlaced, OneOutcome, Runs!OneOutcome, Runs!Known
<1>8. ClaimOpen'
  BY <1>1, <1>2, <1>3, <1>6 DEF ClaimOpen
<1> QED BY <1>4, <1>7, <1>8 DEF RunsInv

\* _reserve_execution_lease takes the free workspace for the run or fails.
LEMMA RunsReserveStep == ASSUME RunsInv, Runs!Reserve PROVE RunsInv'
<1> PICK q : q = pc.run
  OBVIOUS
<1>0. Runs!TypeOK /\ mode = "telegram" /\ pc.step = "claimed" /\ pc # Runs!Idle
  BY RunsFacts DEF RunsInv, Runs!Reserve, Runs!Serving
<1>1. q \in Runs!Known /\ q \in Runs!Ids /\ started[q] = 0 /\ q \notin marked /\ OlderDone(q)
  BY <1>0, RunsFacts DEF RunsInv, CallPlaced, ClaimOpen
<1>2. UNCHANGED <<queue, lease, started, active, marked, other, offered, calls, live, mode,
                  runsFrozen, runsCrashes>>
  BY DEF Runs!Reserve, Runs!store
<1>3. OlderDone(q)'
  BY <1>1, <1>2 DEF OlderDone, Runs!Known, Runs!Ws, Runs!Consumed
<1>4. CASE task' = task /\ pc' = Runs!At("failed", q)
  <2>1. pc' \in [step : Runs!Steps, run : Runs!Ids] /\ pc'.step = "failed" /\ pc'.run = q
    BY <1>1, <1>4 DEF Runs!At, Runs!Steps
  <2>2. Runs!TypeOK'
    BY <1>0, <1>2, <1>4, <2>1 DEF Runs!TypeOK
  <2>3. CallPlaced' /\ ClaimOpen' /\ OneOutcome'
    BY <1>0, <1>1, <1>2, <1>4, <2>1
       DEF RunsInv, CallPlaced, ClaimOpen, OneOutcome, Runs!OneOutcome, Runs!Known
  <2> QED BY <2>2, <2>3 DEF RunsInv
<1>5. CASE /\ Runs!Holders(Runs!Ws(q)) = {}
           /\ task' = [task EXCEPT ![q] = "queued"] /\ pc' = Runs!At("reserved", q)
  <2>1. pc' \in [step : Runs!Steps, run : Runs!Ids] /\ pc'.step = "reserved" /\ pc'.run = q
    BY <1>1, <1>5 DEF Runs!At, Runs!Steps
  <2>2. /\ task' \in [Runs!Ids -> Runs!Unfinished \cup {"none", "ended"}] /\ task'[q] = "queued"
        /\ \A p \in Runs!Ids : p # q => task'[p] = task[p]
    BY <1>0, <1>1, <1>5 DEF Runs!TypeOK, Runs!Unfinished
  <2>3. Runs!TypeOK'
    BY <1>0, <1>2, <2>1, <2>2 DEF Runs!TypeOK
  <2>4. Runs!Holders(Runs!Ws(q))' = {q}
    <3>1. \A p \in Runs!Known : Runs!Ws(p) = Runs!Ws(q) => task[p] \notin Runs!Unfinished
      BY <1>5 DEF Runs!Holders
    <3>2. Runs!Ws(q) \notin other
      BY <1>5 DEF Runs!Holders
    <3>3. /\ Runs!Known' = Runs!Known /\ Runs!Unfinished' = Runs!Unfinished
          /\ \A p : Runs!Ws(p)' = Runs!Ws(p)
      BY <1>2 DEF Runs!Known, Runs!Ws, Runs!Unfinished
    <3>4. \A p \in Runs!Known :
            Runs!Ws(p) = Runs!Ws(q) /\ task'[p] \in Runs!Unfinished <=> p = q
      BY <1>1, <2>2, <3>1, RunsFacts DEF Runs!Unfinished
    <3> QED BY <1>1, <1>2, <3>2, <3>3, <3>4 DEF Runs!Holders, Runs!Unfinished
  <2>5. CallPlaced' /\ OneOutcome'
    BY <1>0, <1>1, <1>2, <2>1, <2>2
       DEF RunsInv, CallPlaced, OneOutcome, Runs!OneOutcome, Runs!Known
  <2>6. ClaimOpen'
    BY <1>1, <1>2, <1>3, <2>1, <2>4 DEF ClaimOpen, Runs!Ws
  <2> QED BY <2>3, <2>5, <2>6 DEF RunsInv
<1> QED BY <1>4, <1>5 DEF Runs!Reserve

\* A launch that fails ends its task.
LEMMA RunsLaunchFailsStep == ASSUME RunsInv, Runs!LaunchFails PROVE RunsInv'
<1> DEFINE q == pc.run
<1>0. Runs!TypeOK /\ mode = "telegram" /\ pc.step = "reserved" /\ pc # Runs!Idle
  BY RunsFacts DEF RunsInv, Runs!LaunchFails, Runs!Serving
<1>1. q \in Runs!Known /\ q \in Runs!Ids
  BY <1>0, RunsFacts DEF RunsInv, CallPlaced
<1>2. /\ task' = [task EXCEPT ![q] = "ended"] /\ pc' = Runs!At("failed", q)
      /\ UNCHANGED <<queue, lease, started, active, marked, other, offered, calls, live, mode,
                     runsFrozen, runsCrashes>>
  BY DEF Runs!LaunchFails, Runs!store
<1>3. pc' \in [step : Runs!Steps, run : Runs!Ids] /\ pc'.step = "failed" /\ pc'.run = q
  BY <1>1, <1>2 DEF Runs!At, Runs!Steps
<1>4. Runs!TypeOK'
  BY <1>0, <1>1, <1>2, <1>3 DEF Runs!TypeOK
<1>5. \A p \in Runs!Ids : p # q => task'[p] = task[p]
  BY <1>0, <1>2 DEF Runs!TypeOK
<1>6. CallPlaced' /\ ClaimOpen' /\ OneOutcome'
  BY <1>0, <1>1, <1>2, <1>3, <1>5
     DEF RunsInv, CallPlaced, ClaimOpen, OneOutcome, Runs!OneOutcome, Runs!Known
<1> QED BY <1>4, <1>6 DEF RunsInv

\* start_chief_engineer: the one outcome of the run.
LEMMA RunsHandOffStep == ASSUME RunsInv, Runs!HandOff PROVE RunsInv'
<1> DEFINE q == pc.run
<1>0. Runs!TypeOK /\ mode = "telegram" /\ pc.step = "reserved" /\ pc # Runs!Idle
  BY RunsFacts DEF RunsInv, Runs!HandOff, Runs!Serving
<1>1. q \in Runs!Known /\ q \in Runs!Ids /\ started[q] = 0 /\ q \notin marked
  BY <1>0, RunsFacts DEF RunsInv, CallPlaced, ClaimOpen
<1>2. /\ started' = [started EXCEPT ![q] = @ + 1] /\ live' = live \cup {q}
      /\ pc' = Runs!At("handed", q)
      /\ UNCHANGED <<queue, lease, active, marked, task, other, offered, calls, mode, runsFrozen,
                     runsCrashes>>
  BY DEF Runs!HandOff, Runs!tasks
<1>3. pc' \in [step : Runs!Steps, run : Runs!Ids] /\ pc'.step = "handed" /\ pc'.run = q
  BY <1>1, <1>2 DEF Runs!At, Runs!Steps
<1>4. started' \in [Runs!Ids -> Nat] /\ started'[q] = 1
      /\ \A p \in Runs!Ids : p # q => started'[p] = started[p]
  BY <1>0, <1>1, <1>2 DEF Runs!TypeOK
<1>5. Runs!TypeOK'
  BY <1>0, <1>1, <1>2, <1>3, <1>4 DEF Runs!TypeOK
<1>6. CallPlaced' /\ ClaimOpen'
  BY <1>0, <1>1, <1>2, <1>3 DEF RunsInv, CallPlaced, ClaimOpen, Runs!Known
<1>7. OneOutcome'
  <2>1. OneOutcome
    BY DEF RunsInv
  <2>2. ASSUME NEW p \in Runs!Ids PROVE started'[p] + (IF p \in marked THEN 1 ELSE 0) <= 1
    <3>1. CASE p = q
      BY <3>1, <1>1, <1>4
    <3>2. CASE p # q
      BY <3>2, <2>1, <1>4 DEF OneOutcome, Runs!OneOutcome
    <3> QED BY <3>1, <3>2
  <2> QED BY <1>2, <2>2 DEF OneOutcome, Runs!OneOutcome
<1> QED BY <1>5, <1>6, <1>7 DEF RunsInv

\* The projector sets the task running.
LEMMA RunsProjectStep == ASSUME RunsInv, Runs!Project PROVE RunsInv'
<1> DEFINE q == pc.run
<1>0. Runs!TypeOK /\ mode = "telegram" /\ pc.step = "handed" /\ pc # Runs!Idle
  BY RunsFacts DEF RunsInv, Runs!Project, Runs!Serving
<1>1. q \in Runs!Known /\ q \in Runs!Ids
  BY <1>0, RunsFacts DEF RunsInv, CallPlaced
<1>2. /\ task' = [task EXCEPT ![q] = "running"] /\ pc' = Runs!At("started", q)
      /\ UNCHANGED <<queue, lease, started, active, marked, other, offered, calls, live, mode,
                     runsFrozen, runsCrashes>>
  BY DEF Runs!Project, Runs!store
<1>3. pc' \in [step : Runs!Steps, run : Runs!Ids] /\ pc'.step = "started" /\ pc'.run = q
  BY <1>1, <1>2 DEF Runs!At, Runs!Steps
<1>4. Runs!TypeOK'
  BY <1>0, <1>1, <1>2, <1>3 DEF Runs!TypeOK, Runs!Unfinished
<1>5. \A p \in Runs!Ids : p # q => task'[p] = task[p]
  BY <1>0, <1>2 DEF Runs!TypeOK
<1>6. CallPlaced' /\ ClaimOpen' /\ OneOutcome'
  BY <1>0, <1>1, <1>2, <1>3, <1>5
     DEF RunsInv, CallPlaced, ClaimOpen, OneOutcome, Runs!OneOutcome, Runs!Known
<1> QED BY <1>4, <1>6 DEF RunsInv

\* The process dies, and starts again with or without Telegram.
LEMMA RunsCrashStep ==
    ASSUME RunsInv, NEW m \in {"telegram", "web"}, Runs!Crash \/ Runs!Restart(m) PROVE RunsInv'
<1>0. Runs!TypeOK
  BY DEF RunsInv
<1>1. CASE Runs!Crash
  <2>1. Runs!TypeOK'
    BY <1>0, <1>1, RuntimeAssumption DEF Runs!TypeOK, Runs!Crash, Runs!store, Runs!tasks
  <2> QED BY <1>1, <2>1, RunsIdle DEF Runs!Crash, Runs!store, Runs!tasks
<1>2. CASE Runs!Restart(m)
  <2>1. mode = "down" /\ pc = Runs!Idle /\ live = {} /\ mode' = m
        /\ UNCHANGED <<queue, lease, started, active, offered, pc, live, runsFrozen, runsCrashes>>
    BY <1>2 DEF Runs!Restart, RunsInv, CallPlaced
  <2>2. marked' \subseteq marked \cup {q \in Runs!Known : ~Runs!Consumed(q)}
        /\ calls' \subseteq Workspaces /\ other' = {}
    BY <1>2 DEF Runs!Restart
  <2>3. /\ task' \in [Runs!Ids -> Runs!Unfinished \cup {"none", "ended"}]
        /\ \A q \in Runs!Ids : task'[q] # "none" => task[q] # "none"
    <3>1. task' = [q \in Runs!Ids |-> Runs!Recovered(q)]
      BY <1>2 DEF Runs!Restart
    <3>2. ASSUME NEW q \in Runs!Ids
          PROVE  /\ Runs!Recovered(q) \in Runs!Unfinished \cup {"none", "ended"}
                 /\ Runs!Recovered(q) # "none" => task[q] # "none"
      BY <1>0 DEF Runs!Recovered, Runs!Handoff, Runs!TypeOK, Runs!Unfinished
    <3> QED BY <3>1, <3>2
  <2>4. Runs!Known \subseteq Runs!Ids
    BY RunsFacts
  <2>5. Runs!TypeOK'
    BY <1>0, <2>1, <2>2, <2>3, <2>4 DEF Runs!TypeOK
  <2>6. \A q \in Runs!Ids : q \in marked' \ marked => started[q] = 0
    BY <1>0, <2>2 DEF Runs!Consumed, Runs!TypeOK
  <2>7. OneOutcome'
    BY <1>0, <2>1, <2>6 DEF RunsInv, OneOutcome, Runs!OneOutcome, Runs!TypeOK
  <2>8. CallPlaced' /\ ClaimOpen'
    BY <2>1, <2>3 DEF RunsInv, CallPlaced, ClaimOpen, Runs!Idle, Runs!Known
  <2> QED BY <2>5, <2>7, <2>8 DEF RunsInv
<1> QED BY <1>1, <1>2

\* Every step of the queued runs keeps their inductive invariant.
LEMMA RunsStep == ASSUME RunsInv, [Runs!Next]_(Runs!vars) PROVE RunsInv'
<1>1. CASE UNCHANGED Runs!vars
  BY <1>1 DEF Runs!vars, RunsInv, Runs!TypeOK, CallPlaced, ClaimOpen, OlderDone, OneOutcome,
              Runs!OneOutcome, Runs!Known, Runs!Ws, Runs!Holders, Runs!Consumed
<1>2. ASSUME NEW w \in Workspaces, Runs!Offer(w) \/ Runs!OtherTask(w) \/ Runs!Skip(w) \/ Runs!Claim(w)
      PROVE  RunsInv'
  BY <1>2, RunsHandlerStep, RunsClaimStep
<1>3. ASSUME NEW w \in Workspaces, NEW b \in BOOLEAN, Runs!Queue(w, b) \/ Runs!OtherEnds(w, b)
      PROVE  RunsInv'
  BY <1>3, RunsHandlerStep, RunsQueueStep
<1>4. ASSUME NEW b \in BOOLEAN, Runs!Consume(b) PROVE RunsInv'
  BY <1>4, RunsHandlerStep
<1>5. ASSUME NEW b \in BOOLEAN, Runs!Freeze(b) PROVE RunsInv'
  <2>1. CASE Runs!Ids # {}
    BY <1>5, <2>1, RunsOutsideStep
  <2>2. CASE Runs!Ids = {}
    <3>1. pc = Runs!Idle /\ pc' = pc
      BY <1>5, <2>2, RunsFacts DEF Runs!Freeze, Runs!process
    <3>2. Runs!TypeOK'
      BY <1>5 DEF RunsInv, Runs!TypeOK, Runs!Freeze, Runs!store, Runs!process, Runs!tasks
    <3> QED BY <1>5, <3>1, <3>2, RunsIdle
            DEF RunsInv, CallPlaced, Runs!Freeze, Runs!store, Runs!process, Runs!tasks
  <2> QED BY <2>1, <2>2
<1>6. ASSUME NEW q \in Runs!Ids, NEW b \in BOOLEAN,
             Runs!Expire(q) \/ Runs!RunBegins(q) \/ Runs!RunReports(q) \/ Runs!TaskEnds(q, b)
               \/ Runs!RunEnds(q, b)
      PROVE  RunsInv'
  BY <1>6, RunsHandlerStep, RunsOutsideStep
<1>7. ASSUME Runs!Reserve \/ Runs!LaunchFails \/ Runs!Release \/ Runs!HandOff \/ Runs!Project
      PROVE  RunsInv'
  BY <1>7, RunsReserveStep, RunsLaunchFailsStep, RunsHandlerStep, RunsHandOffStep, RunsProjectStep
<1>8. ASSUME Runs!Crash \/ \E m \in {"telegram", "web"} : Runs!Restart(m) PROVE RunsInv'
  BY <1>8, RunsCrashStep
<1>9. CASE Runs!Next
  BY <1>2, <1>3, <1>4, <1>5, <1>6, <1>7, <1>8, <1>9 DEF Runs!Next
<1> QED BY <1>1, <1>9

\* The inductive invariant of the queued runs holds, whatever crashes, expired
\* leases and restarts come between the commits of process_queued_runs, and whoever
\* ends the task of a run that goes on.
THEOREM RunsInvariant == Runs!Spec => []RunsInv
<1>1. Runs!Init => RunsInv
  <2> SUFFICES ASSUME Runs!Init PROVE RunsInv
    OBVIOUS
  <2>1. Runs!TypeOK
    <3>1. queue \in Seq([ws : Workspaces, goal : BOOLEAN]) /\ Len(queue) <= MaxQueued
      BY RuntimeAssumption DEF Runs!Init
    <3>2. lease \in [Runs!Ids -> {"none", "held", "expired", "released", "consumed"}]
          /\ started \in [Runs!Ids -> Nat]
          /\ task \in [Runs!Ids -> Runs!Unfinished \cup {"none", "ended"}]
      BY DEF Runs!Init
    <3>3. runsCrashes \in 0 .. MaxRunCrashes
      BY RuntimeAssumption DEF Runs!Init
    <3> QED BY <3>1, <3>2, <3>3 DEF Runs!Init, Runs!TypeOK
  <2>2. CallPlaced /\ ClaimOpen
    BY DEF Runs!Init, CallPlaced, ClaimOpen, Runs!Idle
  <2>3. OneOutcome
    BY DEF Runs!Init, OneOutcome, Runs!OneOutcome
  <2> QED BY <2>1, <2>2, <2>3 DEF RunsInv
<1>2. RunsInv /\ [Runs!Next]_(Runs!vars) => RunsInv'
  BY RunsStep
<1> QED BY <1>1, <1>2, PTL DEF Runs!Spec

\* A queued run is launched once or marked by a web-only startup, never both and never
\* twice.
THEOREM RunHasOneOutcome == Runs!Spec => []OneOutcome
<1>1. RunsInv => OneOutcome
  BY DEF RunsInv
<1> QED BY <1>1, RunsInvariant, PTL

\* process_queued_runs launches a run into a workspace that its own task alone holds,
\* and before no older run of the workspace that could be launched.
THEOREM LaunchAlwaysInTurn == Runs!Spec => LaunchInTurn
<1>1. RunsInv /\ [Runs!Next]_(Runs!vars) => [Runs!LaunchesInTurn]_runVars
  <2> SUFFICES ASSUME RunsInv, [Runs!Next]_(Runs!vars),
                      NEW q \in Runs!Ids, started'[q] # started[q]
               PROVE  Runs!Holders(Runs!Ws(q)) = {q} /\ OlderDone(q)
    BY DEF Runs!LaunchesInTurn, OlderDone
  <2>1. CASE Runs!HandOff
    <3>1. pc.step = "reserved" /\ started' = [started EXCEPT ![pc.run] = @ + 1]
      BY <2>1 DEF Runs!HandOff
    <3>2. pc.run = q
      BY <3>1 DEF RunsInv, Runs!TypeOK
    <3> QED BY <3>1, <3>2 DEF RunsInv, ClaimOpen
  <2>2. CASE ~Runs!HandOff
    <3>1. started' = started
      BY <2>2 DEF Runs!Next, Runs!vars, Runs!Offer, Runs!OtherTask, Runs!Skip, Runs!Claim,
                  Runs!Queue, Runs!OtherEnds, Runs!Freeze, Runs!Consume, Runs!Reserve,
                  Runs!LaunchFails, Runs!Release, Runs!Project, Runs!Expire, Runs!RunBegins,
                  Runs!RunReports, Runs!TaskEnds, Runs!RunEnds, Runs!Crash, Runs!Restart,
                  Runs!store
    <3> QED BY <3>1
  <2> QED BY <2>1, <2>2
<1> QED BY <1>1, RunsInvariant, PTL DEF Runs!Spec, LaunchInTurn

-----------------------------------------------------------------------------
(* Raw frames *)

\* Types of the frame tables; no sequence number is larger than the frames' count.
FrameTypes ==
    /\ frames \in 0 .. MaxFrames
    /\ turn \in [Raw!Frames -> Turns] /\ seq \in [Raw!Frames -> 0 .. frames]
    /\ cursor \in [Turns -> 0 .. frames]
    /\ hot \subseteq 1 .. frames
    /\ \A a \in archives : a \subseteq 1 .. frames
    /\ index \in [Raw!Frames -> SUBSET Raw!Frames]

\* An archive holds frames, none of them hot, and its files are there unless it has
\* a tombstone, which it gets only after the retention of all its frames.
ArchivesWhole ==
    /\ tomb \subseteq archives
    /\ \A a \in archives : a # {} /\ a \cap hot = {}
    /\ \A a \in archives \ tomb : a \in gz /\ a \in man
    /\ \A a \in tomb : a \subseteq retired

\* The index names archives that exist and hold the frame.
IndexSound == \A f \in Raw!Frames : index[f] # {} => index[f] \in archives /\ f \in index[f]

\* A frame is somewhere.
FramePlaced == \A f \in 1 .. frames : f \in hot \/ f \in retired \/ index[f] \in archives

\* The retention pass: a batch is hot until its transaction, and its files are
\* complete by then; what is being purged has its tombstone.
WorkSound ==
    /\ work.step \in {"picked", "payload", "manifest"} => work.batch \subseteq hot /\ work.batch # {}
    /\ work.step \in {"payload", "manifest"} => work.batch \in gz
    /\ work.step = "manifest" => work.batch \in man
    /\ work.step \in {"tombed", "unlinked", "kept", "gone"} => work.batch \in tomb

\* An archive that a reader has looked up can be retired meanwhile, never rebuilt.
ReaderSound ==
    /\ reader.step # "corrupt"
    /\ reader.step \in {"found", "failed"} =>
         reader.archive # {} /\ reader.archive \subseteq 1 .. frames /\ reader.archive \cap hot = {}
    /\ reader.step = "failed" => reader.archive \notin archives \/ reader.archive \in tomb

\* The cursor of a turn covers every frame that is no longer hot.
CursorCovers == \A f \in 1 .. frames : f \in hot \/ seq[f] <= cursor[turn[f]]

\* The inductive invariant of RawFrameRetention.
FramesInv ==
    /\ FrameTypes /\ ArchivesWhole /\ IndexSound /\ FramePlaced /\ WorkSound /\ ReaderSound
    /\ CursorCovers /\ SequenceFresh

\* A set of naturals that has an upper bound has a greatest element.
LEMMA MaxFacts ==
    ASSUME NEW S, S \subseteq Nat, S # {}, NEW n \in Nat, \A x \in S : x <= n
    PROVE  Raw!Max(S) \in S /\ \A x \in S : x <= Raw!Max(S)
<1> DEFINE T == {n - x : x \in S}
<1>1. T \subseteq Nat /\ T # {}
  <2>1. \A x \in S : n - x \in Nat
    OBVIOUS
  <2>2. PICK x \in S : TRUE
    OBVIOUS
  <2>3. n - x \in T
    BY <2>2
  <2> QED BY <2>1, <2>3
<1>2. PICK m \in T : \A y \in T : m <= y
  BY <1>1, LeastNat
<1>3. PICK k \in S : m = n - k
  OBVIOUS
<1>4. \A x \in S : k >= x
  <2> SUFFICES ASSUME NEW x \in S PROVE k >= x
    OBVIOUS
  <2>1. n - x \in T
    OBVIOUS
  <2>2. n - k <= n - x
    BY <1>2, <1>3, <2>1
  <2> QED BY <2>2
<1>5. \E x \in S : \A y \in S : x >= y
  BY <1>4
<1>6. Raw!Max(S) \in S /\ \A x \in S : Raw!Max(S) >= x
  BY <1>5 DEF Raw!Max
<1> QED BY <1>6

\* The sequence numbers a set of frames has used in a turn, joined with a cursor:
\* their greatest is at least each of them.
LEMMA SeqsFacts ==
    ASSUME FrameTypes, NEW t \in Turns, NEW S, S \subseteq Raw!Frames
    PROVE  LET M == Raw!Max({cursor[t]} \cup Raw!SeqsOf(t, S))
           IN  /\ M \in 0 .. frames /\ M >= cursor[t]
               /\ \A f \in S : turn[f] = t => M >= seq[f]
<1> DEFINE Q == {cursor[t]} \cup Raw!SeqsOf(t, S)
           M == Raw!Max(Q)
<1>1. frames \in Nat /\ cursor[t] \in 0 .. frames /\ \A f \in S : seq[f] \in 0 .. frames
  BY RuntimeAssumption DEF FrameTypes
<1>2. Q \subseteq 0 .. frames
  BY <1>1 DEF Raw!SeqsOf
<1>3. cursor[t] \in Q /\ \A f \in S : turn[f] = t => seq[f] \in Q
  BY DEF Raw!SeqsOf
<1> HIDE DEF Q
<1>4. M \in Q /\ \A x \in Q : x <= M
  <2>1. Q \subseteq Nat /\ Q # {} /\ \A x \in Q : x <= frames
    BY <1>1, <1>2, <1>3
  <2> QED BY <1>1, <2>1, MaxFacts
<1> HIDE DEF M
<1>5. M \in 0 .. frames /\ M >= cursor[t] /\ \A f \in S : turn[f] = t => M >= seq[f]
  BY <1>1, <1>2, <1>3, <1>4
<1> QED BY <1>5 DEF M, Q

\* next_provider_raw_frame_sequence gives a number the turn has not used.
LEMMA NextSequenceFacts ==
    ASSUME FrameTypes, CursorCovers, NEW t \in Turns
    PROVE  /\ Raw!NextSequence(t) \in 1 .. frames + 1
           /\ \A f \in 1 .. frames : turn[f] = t => seq[f] < Raw!NextSequence(t)
<1> DEFINE I == {f \in Raw!Frames : index[f] # Raw!None}
           Q == {cursor[t]} \cup Raw!SeqsOf(t, hot) \cup Raw!SeqsOf(t, I)
           M == Raw!Max(Q)
<1>0. Raw!NextSequence(t) = M + 1
  BY DEF Raw!NextSequence
<1>1. frames \in Nat /\ cursor[t] \in 0 .. frames /\ hot \subseteq 1 .. frames
      /\ \A f \in Raw!Frames : seq[f] \in 0 .. frames
  BY RuntimeAssumption DEF FrameTypes
<1>2. 1 .. frames \subseteq Raw!Frames
  BY <1>1, RuntimeAssumption DEF Raw!Frames, FrameTypes
<1>3. Q \subseteq 0 .. frames
  BY <1>1, <1>2 DEF Raw!SeqsOf
<1>4. cursor[t] \in Q /\ \A f \in hot : turn[f] = t => seq[f] \in Q
  BY DEF Raw!SeqsOf
<1> HIDE DEF Q
<1>5. M \in Q /\ \A x \in Q : x <= M
  <2>1. Q \subseteq Nat /\ Q # {} /\ \A x \in Q : x <= frames
    BY <1>1, <1>3, <1>4
  <2> QED BY <1>1, <2>1, MaxFacts
<1> HIDE DEF M
<1>6. M \in 0 .. frames /\ cursor[t] <= M
  BY <1>3, <1>4, <1>5
<1>7. ASSUME NEW f \in 1 .. frames, turn[f] = t PROVE seq[f] < M + 1
  <2>1. seq[f] \in 0 .. frames
    BY <1>1, <1>2
  <2>2. CASE f \in hot
    BY <2>1, <2>2, <1>4, <1>5, <1>6, <1>7
  <2>3. CASE seq[f] <= cursor[turn[f]]
    BY <2>1, <2>3, <1>1, <1>6, <1>7
  <2> QED BY <2>2, <2>3 DEF CursorCovers
<1> QED BY <1>0, <1>1, <1>6, <1>7

\* The parts of the invariant that concern the tables and the files.
TablesSound ==
    FrameTypes /\ ArchivesWhole /\ IndexSound /\ FramePlaced /\ CursorCovers /\ SequenceFresh

\* A step of the pass or of a reader that writes neither a table nor a file.
LEMMA TablesKept ==
    ASSUME TablesSound,
           UNCHANGED <<frames, turn, seq, hot, cursor, archives, index, tomb, retired, gz, man>>
    PROVE  TablesSound'
<1>1. FrameTypes'
  BY DEF TablesSound, FrameTypes
<1>2. ArchivesWhole' /\ IndexSound' /\ FramePlaced' /\ CursorCovers'
  BY DEF TablesSound, ArchivesWhole, IndexSound, FramePlaced, CursorCovers
<1>3. SequenceFresh'
  BY DEF TablesSound, SequenceFresh, Raw!SequenceFresh
<1> QED BY <1>1, <1>2, <1>3 DEF TablesSound

\* append_provider_raw_frame: a new hot row with a fresh sequence number.
LEMMA AppendFrameStep ==
    ASSUME FramesInv, NEW legacy \in BOOLEAN, Raw!AppendFrame(legacy) PROVE FramesInv'
<1> DEFINE f == frames + 1
           t == turn[f]
           n == Raw!NextSequence(t)
<1>1. FrameTypes /\ CursorCovers /\ frames < MaxFrames /\ frames \in Nat
  BY RuntimeAssumption DEF FramesInv, FrameTypes, Raw!AppendFrame
<1>2. f \in Raw!Frames /\ f \in Nat /\ f \notin 1 .. frames /\ t \in Turns /\ 1 .. frames \subseteq Raw!Frames
      /\ 1 .. f = 1 .. frames \cup {f} /\ f \in 1 .. MaxFrames
  <2>1. f \in Nat /\ f \in 1 .. MaxFrames /\ f \notin 1 .. frames /\ MaxFrames \in Nat
    BY <1>1, RuntimeAssumption
  <2>2. 1 .. f = 1 .. frames \cup {f}
    BY <1>1
  <2>3. f \in Raw!Frames /\ 1 .. frames \subseteq Raw!Frames
    BY <1>1, <2>1 DEF Raw!Frames
  <2>4. t \in Turns
    BY <1>1, <2>3 DEF FrameTypes
  <2> QED BY <2>1, <2>2, <2>3, <2>4
<1>3. n \in 1 .. f /\ \A g \in 1 .. frames : turn[g] = t => seq[g] < n
  BY <1>1, <1>2, NextSequenceFacts
<1>4. /\ frames' = f /\ seq' = [seq EXCEPT ![f] = n] /\ hot' = hot \cup {f}
      /\ cursor' = cursor \/ cursor' = [cursor EXCEPT ![t] = Raw!Max({@, n})]
      /\ UNCHANGED <<turn, aged, turnsActive, gz, man, expired, archives, index, tomb, retired,
                     work, reader, framesCrashes>>
  BY DEF Raw!AppendFrame, Raw!files
<1> HIDE DEF n
<1>5. cursor[t] \in 0 .. f /\ Raw!Max({cursor[t], n}) \in 0 .. f /\ cursor[t] <= Raw!Max({cursor[t], n})
  <2>1. cursor[t] \in 0 .. f /\ n \in 0 .. f
    BY <1>1, <1>2, <1>3 DEF FrameTypes
  <2>2. {cursor[t], n} \subseteq Nat /\ {cursor[t], n} # {} /\ \A x \in {cursor[t], n} : x <= f
    BY <2>1
  <2>3. Raw!Max({cursor[t], n}) \in {cursor[t], n}
        /\ \A x \in {cursor[t], n} : x <= Raw!Max({cursor[t], n})
    BY <1>2, <2>2, MaxFacts
  <2> QED BY <2>1, <2>3
<1>6. cursor' \in [Turns -> 0 .. f] /\ \A u \in Turns : cursor[u] <= cursor'[u]
  <2>1. \A u \in Turns : cursor[u] \in 0 .. f /\ cursor[u] <= cursor[u]
    BY <1>1 DEF FrameTypes
  <2>2. cursor \in [Turns -> 0 .. f]
    BY <1>1, <2>1 DEF FrameTypes
  <2>3. CASE cursor' = cursor
    BY <2>1, <2>2, <2>3
  <2>4. CASE cursor' = [cursor EXCEPT ![t] = Raw!Max({@, n})]
    BY <2>1, <2>2, <2>4, <1>2, <1>5
  <2> QED BY <1>4, <2>3, <2>4
<1>7. seq' \in [Raw!Frames -> 0 .. f] /\ seq'[f] = n /\ \A g \in 1 .. frames : seq'[g] = seq[g]
  <2>1. seq \in [Raw!Frames -> 0 .. f]
    BY <1>1 DEF FrameTypes
  <2> QED BY <1>2, <1>3, <1>4, <2>1
<1>8. FrameTypes'
  <2>1. f \in 0 .. MaxFrames
    BY <1>2
  <2>2. hot' \subseteq 1 .. f /\ \A a \in archives : a \subseteq 1 .. f
    BY <1>1, <1>2, <1>4 DEF FrameTypes
  <2> QED BY <1>1, <1>4, <1>6, <1>7, <2>1, <2>2 DEF FrameTypes
<1>9. ArchivesWhole'
  <2>1. \A a \in archives : f \notin a
    BY <1>1, <1>2 DEF FrameTypes
  <2> QED BY <1>4, <2>1 DEF FramesInv, ArchivesWhole
<1>10. IndexSound'
  BY <1>4 DEF FramesInv, IndexSound
<1>11. FramePlaced'
  BY <1>2, <1>4 DEF FramesInv, FramePlaced
<1>12. WorkSound'
  BY <1>4 DEF FramesInv, WorkSound
<1>13. ReaderSound'
  BY <1>2, <1>4 DEF FramesInv, ReaderSound
<1>14. CursorCovers'
  <2> SUFFICES ASSUME NEW g \in 1 .. f PROVE g \in hot' \/ seq'[g] <= cursor'[turn[g]]
    BY <1>4 DEF CursorCovers
  <2>1. CASE g = f
    BY <2>1, <1>4
  <2>2. CASE g \in hot
    BY <2>2, <1>4
  <2>3. CASE g \in 1 .. frames /\ g \notin hot
    <3>1. seq[g] <= cursor[turn[g]] /\ turn[g] \in Turns /\ seq'[g] = seq[g]
      BY <2>3, <1>1, <1>2, <1>7 DEF CursorCovers, FrameTypes
    <3>2. cursor[turn[g]] <= cursor'[turn[g]] /\ seq[g] \in Nat /\ cursor[turn[g]] \in Nat
          /\ cursor'[turn[g]] \in Nat
      BY <3>1, <2>3, <1>1, <1>2, <1>6 DEF FrameTypes
    <3> QED BY <3>1, <3>2
  <2> QED BY <2>1, <2>2, <2>3, <1>2
<1>15. SequenceFresh'
  <2> SUFFICES ASSUME NEW g \in 1 .. f, NEW h \in 1 .. f, g # h, turn[g] = turn[h]
               PROVE  seq'[g] # seq'[h]
    BY <1>4 DEF SequenceFresh, Raw!SequenceFresh
  <2>1. CASE g \in 1 .. frames /\ h \in 1 .. frames
    BY <2>1, <1>7 DEF FramesInv, SequenceFresh, Raw!SequenceFresh
  <2>2. CASE g = f /\ h \in 1 .. frames
    BY <2>2, <1>3, <1>7
  <2>3. CASE h = f /\ g \in 1 .. frames
    BY <2>3, <1>3, <1>7
  <2> QED BY <2>1, <2>2, <2>3, <1>2
<1> QED BY <1>8, <1>9, <1>10, <1>11, <1>12, <1>13, <1>14, <1>15 DEF FramesInv

\* Time passes, a turn starts or ends, the pass picks its page, a reader looks up,
\* opens and checks again, the process dies: no table and no file is written.
LEMMA QuietFrameStep ==
    ASSUME FramesInv,
           \/ \E f : Raw!Age(f) \/ Raw!Look(f)
           \/ \E a : Raw!ArchiveExpires(a)
           \/ \E t : Raw!TurnChanges(t)
           \/ \E c : Raw!PickBatch(c)
           \/ Raw!OpenFiles \/ Raw!Recheck \/ Raw!Crash
    PROVE  FramesInv'
<1>1. TablesSound /\ UNCHANGED <<frames, turn, seq, hot, cursor, archives, index, tomb, retired,
                                 gz, man>>
  BY DEF FramesInv, TablesSound, Raw!Age, Raw!Look, Raw!ArchiveExpires, Raw!TurnChanges,
         Raw!PickBatch, Raw!OpenFiles, Raw!Recheck, Raw!Crash, Raw!input, Raw!files, Raw!rows
<1>2. TablesSound'
  BY <1>1, TablesKept
<1>3. WorkSound'
  <2>1. CASE work' = work
    BY <1>1, <2>1 DEF FramesInv, WorkSound
  <2>2. CASE work' = Raw!Idle
    BY <1>1, <2>2 DEF WorkSound, Raw!Idle
  <2>3. ASSUME NEW c, Raw!PickBatch(c) PROVE WorkSound'
    <3>1. work' = Raw!At("picked", Raw!Quiet(Raw!Page(c))) /\ Raw!Quiet(Raw!Page(c)) # {}
      BY <2>3 DEF Raw!PickBatch
    <3>2. Raw!Quiet(Raw!Page(c)) \subseteq hot
      BY DEF Raw!Quiet, Raw!Page, Raw!Behind
    <3> QED BY <1>1, <3>1, <3>2 DEF WorkSound, Raw!At
  <2> QED BY <2>1, <2>2, <2>3
          DEF Raw!Age, Raw!Look, Raw!ArchiveExpires, Raw!TurnChanges, Raw!OpenFiles, Raw!Recheck,
              Raw!Crash
<1>4. ReaderSound'
  <2>1. CASE reader' = reader
    BY <1>1, <2>1 DEF FramesInv, ReaderSound
  <2>2. CASE reader' = Raw!NoReader
    BY <1>1, <2>2 DEF ReaderSound, Raw!NoReader
  <2>3. ASSUME NEW f, Raw!Look(f) PROVE ReaderSound'
    <3>1. f \in 1 .. frames /\ index[f] # {} /\ reader'.step = "found" /\ reader'.archive = index[f]
      BY <2>3 DEF Raw!Look, Raw!None
    <3>2. f \in Raw!Frames
      BY <3>1, RuntimeAssumption DEF FramesInv, FrameTypes, Raw!Frames
    <3>3. index[f] \in archives
      BY <3>1, <3>2 DEF FramesInv, IndexSound
    <3> QED BY <1>1, <3>1, <3>3 DEF FramesInv, ReaderSound, ArchivesWhole, FrameTypes
  <2>4. CASE Raw!OpenFiles /\ reader' # Raw!NoReader
    <3>1. reader.step = "found" /\ reader' = [reader EXCEPT !.step = "failed"]
          /\ reader.archive \notin gz \cap man
      BY <2>4 DEF Raw!OpenFiles
    <3>2. reader.archive \notin archives \/ reader.archive \in tomb
      BY <3>1 DEF FramesInv, ArchivesWhole
    <3>3. reader'.archive = reader.archive /\ (reader'.step = "failed" \/ reader'.step = "found")
      BY <3>1 DEF FramesInv
    <3> QED BY <1>1, <3>1, <3>2, <3>3 DEF FramesInv, ReaderSound
  <2>5. CASE Raw!Recheck
    BY <2>2, <2>5 DEF FramesInv, ReaderSound, Raw!Recheck
  <2> QED BY <2>1, <2>2, <2>3, <2>4, <2>5
          DEF Raw!Age, Raw!ArchiveExpires, Raw!TurnChanges, Raw!PickBatch, Raw!Crash
<1> QED BY <1>2, <1>3, <1>4 DEF FramesInv, TablesSound

\* The payload and the manifest of the batch are written, before any row changes.
LEMMA WriteFilesStep ==
    ASSUME FramesInv, Raw!WritePayload \/ Raw!WriteManifest PROVE FramesInv'
<1>1. /\ UNCHANGED <<frames, turn, seq, hot, cursor, archives, index, tomb, retired, reader>>
      /\ gz \subseteq gz' /\ man \subseteq man'
  BY DEF Raw!WritePayload, Raw!WriteManifest, Raw!input, Raw!rows
<1>2. FrameTypes' /\ IndexSound' /\ FramePlaced' /\ CursorCovers' /\ ReaderSound'
  <2>1. FrameTypes'
    BY <1>1 DEF FramesInv, FrameTypes
  <2> QED BY <1>1, <2>1 DEF FramesInv, IndexSound, FramePlaced, CursorCovers, ReaderSound
<1>3. SequenceFresh'
  BY <1>1 DEF FramesInv, SequenceFresh, Raw!SequenceFresh
<1>4. ArchivesWhole'
  BY <1>1 DEF FramesInv, ArchivesWhole
<1>5. WorkSound'
  <2>1. CASE Raw!WritePayload
    <3> DEFINE safe == Raw!Quiet(work.batch)
    <3>1. work.step = "picked" /\ work.batch \subseteq hot
      BY <2>1 DEF Raw!WritePayload, FramesInv, WorkSound
    <3>2. safe \subseteq hot
      BY <3>1 DEF Raw!Quiet
    <3>3. CASE safe = {}
      BY <2>1, <3>3 DEF Raw!WritePayload, WorkSound, Raw!Idle
    <3>4. CASE safe # {}
      <4>1. work' = Raw!At("payload", safe) /\ safe \in gz'
        BY <2>1, <3>4 DEF Raw!WritePayload
      <4> HIDE DEF safe
      <4> QED BY <1>1, <3>2, <3>4, <4>1 DEF WorkSound, Raw!At
    <3> QED BY <3>3, <3>4
  <2>2. CASE Raw!WriteManifest
    <3>1. work' = Raw!At("manifest", work.batch) /\ work.batch \in man' /\ work.step = "payload"
      BY <2>2 DEF Raw!WriteManifest
    <3>2. work.batch \subseteq hot /\ work.batch # {} /\ work.batch \in gz
      BY <3>1 DEF FramesInv, WorkSound
    <3> QED BY <1>1, <3>1, <3>2 DEF WorkSound, Raw!At
  <2> QED BY <2>1, <2>2
<1> QED BY <1>2, <1>3, <1>4, <1>5 DEF FramesInv

\* The archive transaction: the batch was hot, so it is no archive yet; its files
\* are complete; the cursors take over the numbers of the deleted rows.
LEMMA CommitArchiveStep == ASSUME FramesInv, Raw!CommitArchive PROVE FramesInv'
<1> DEFINE b == work.batch
<1>1. /\ UNCHANGED <<frames, turn, seq, gz, man, tomb, retired, reader>> /\ work' = Raw!Idle
      /\ work.step = "manifest"
  BY DEF Raw!CommitArchive, Raw!input, Raw!files
<1>2. b \subseteq hot /\ b # {} /\ b \in gz /\ b \in man /\ hot \subseteq 1 .. frames
      /\ frames \in Nat /\ 1 .. frames \subseteq Raw!Frames
  BY <1>1, RuntimeAssumption DEF FramesInv, WorkSound, FrameTypes, Raw!Frames
<1>3. WorkSound'
  BY <1>1 DEF WorkSound, Raw!Idle
<1>4. CASE UNCHANGED <<archives, index, cursor, hot>>
  <2>1. TablesSound'
    BY <1>1, <1>4, TablesKept DEF FramesInv, TablesSound
  <2>2. ReaderSound'
    BY <1>1, <1>4 DEF FramesInv, ReaderSound
  <2> QED BY <1>3, <2>1, <2>2 DEF FramesInv, TablesSound
<1>5. CASE Raw!Archive(b)
  <2>1. /\ archives' = archives \cup {b} /\ hot' = hot \ b
        /\ index' = [f \in Raw!Frames |-> IF f \in b THEN b ELSE index[f]]
        /\ cursor' = [t \in Turns |-> Raw!Max({cursor[t]} \cup Raw!SeqsOf(t, b))]
    BY <1>5 DEF Raw!Archive
  <2>2. b \notin archives /\ b \notin tomb
    BY <1>2 DEF FramesInv, ArchivesWhole
  <2>3. ASSUME NEW t \in Turns
        PROVE  /\ cursor'[t] \in 0 .. frames /\ cursor[t] <= cursor'[t] /\ cursor[t] \in 0 .. frames
               /\ \A f \in b : turn[f] = t => seq[f] <= cursor'[t]
    <3>1. FrameTypes /\ b \subseteq Raw!Frames /\ cursor[t] \in 0 .. frames
      BY <1>2 DEF FramesInv, FrameTypes
    <3>2. cursor'[t] = Raw!Max({cursor[t]} \cup Raw!SeqsOf(t, b))
      BY <2>1
    <3>3. /\ cursor'[t] \in 0 .. frames /\ cursor'[t] >= cursor[t]
          /\ \A f \in b : turn[f] = t => cursor'[t] >= seq[f]
      BY <3>1, <3>2, SeqsFacts
    <3>4. \A f \in b : seq[f] \in Nat
      BY <3>1 DEF FrameTypes
    <3> QED BY <3>1, <3>3, <3>4
  <2>4. cursor' \in [Turns -> 0 .. frames]
    BY <2>1, <2>3
  <2>5. index' \in [Raw!Frames -> SUBSET Raw!Frames]
        /\ \A f \in Raw!Frames : index'[f] = IF f \in b THEN b ELSE index[f]
    <3>1. \A f \in Raw!Frames : index[f] \in SUBSET Raw!Frames
      BY DEF FramesInv, FrameTypes
    <3>2. b \in SUBSET Raw!Frames
      BY <1>2
    <3> HIDE DEF b
    <3> QED BY <2>1, <3>1, <3>2
  <2> HIDE DEF b
  <2>6. FrameTypes'
    BY <1>1, <1>2, <2>1, <2>4, <2>5 DEF FramesInv, FrameTypes
  <2>7. ArchivesWhole'
    BY <1>1, <1>2, <2>1, <2>2 DEF FramesInv, ArchivesWhole
  <2>8. IndexSound'
    BY <2>1, <2>5 DEF FramesInv, IndexSound
  <2>9. FramePlaced'
    <3> SUFFICES ASSUME NEW f \in 1 .. frames
                 PROVE  f \in hot' \/ f \in retired \/ index'[f] \in archives'
      BY <1>1 DEF FramePlaced
    <3>1. f \in Raw!Frames
      BY <1>2
    <3> QED BY <3>1, <2>1, <2>5 DEF FramesInv, FramePlaced
  <2>10. ReaderSound'
    BY <1>1, <1>2, <2>1 DEF FramesInv, ReaderSound
  <2>11. CursorCovers'
    <3> SUFFICES ASSUME NEW f \in 1 .. frames, f \notin hot' PROVE seq[f] <= cursor'[turn[f]]
      BY <1>1 DEF CursorCovers
    <3>1. turn[f] \in Turns /\ seq[f] \in 0 .. frames
      BY <1>2 DEF FramesInv, FrameTypes
    <3>2. CASE f \in b
      BY <3>1, <3>2, <2>3
    <3>3. CASE f \notin hot
      <4>1. seq[f] <= cursor[turn[f]]
        BY <3>3 DEF FramesInv, CursorCovers
      <4>2. cursor[turn[f]] <= cursor'[turn[f]] /\ cursor[turn[f]] \in 0 .. frames
            /\ cursor'[turn[f]] \in 0 .. frames
        BY <3>1, <2>3
      <4> QED BY <3>1, <4>1, <4>2
    <3> QED BY <3>2, <3>3, <2>1
  <2>12. SequenceFresh'
    BY <1>1 DEF FramesInv, SequenceFresh, Raw!SequenceFresh
  <2> QED BY <1>3, <2>6, <2>7, <2>8, <2>9, <2>10, <2>11, <2>12 DEF FramesInv
<1> QED BY <1>4, <1>5 DEF Raw!CommitArchive

\* The tombstone is committed before a file is touched.
LEMMA PurgeStep == ASSUME FramesInv, NEW a, Raw!Purge(a) PROVE FramesInv'
<1>1. /\ UNCHANGED <<frames, turn, seq, hot, cursor, archives, index, gz, man, reader>>
      /\ a \in archives /\ tomb' = tomb \cup {a} /\ retired' = retired \cup a
      /\ work' = Raw!At("tombed", a)
  BY DEF Raw!Purge, Raw!input, Raw!files
<1>2. FrameTypes' /\ SequenceFresh'
  BY <1>1 DEF FramesInv, FrameTypes, SequenceFresh, Raw!SequenceFresh
<1>3. ArchivesWhole' /\ IndexSound' /\ FramePlaced' /\ CursorCovers'
  BY <1>1 DEF FramesInv, ArchivesWhole, IndexSound, FramePlaced, CursorCovers
<1>4. WorkSound'
  BY <1>1 DEF WorkSound, Raw!At
<1>5. ReaderSound'
  BY <1>1 DEF FramesInv, ReaderSound
<1> QED BY <1>2, <1>3, <1>4, <1>5 DEF FramesInv

\* The unlinks touch only the files of an archive with a tombstone.
LEMMA UnlinkStep ==
    ASSUME FramesInv, NEW ok \in BOOLEAN, Raw!UnlinkPayload(ok) \/ Raw!UnlinkManifest(ok)
    PROVE  FramesInv'
<1>1. /\ UNCHANGED <<frames, turn, seq, hot, cursor, archives, index, tomb, retired, reader>>
      /\ work.step \in {"tombed", "unlinked", "kept"}
      /\ gz \ {work.batch} \subseteq gz' /\ man \ {work.batch} \subseteq man'
      /\ \/ work' = Raw!Idle
         \/ \E s \in {"unlinked", "kept", "gone"} : work' = Raw!At(s, work.batch)
  BY DEF Raw!UnlinkPayload, Raw!UnlinkManifest, Raw!input, Raw!rows
<1>2. work.batch \in tomb
  BY <1>1 DEF FramesInv, WorkSound
<1>3. FrameTypes' /\ SequenceFresh'
  BY <1>1 DEF FramesInv, FrameTypes, SequenceFresh, Raw!SequenceFresh
<1>4. IndexSound' /\ FramePlaced' /\ CursorCovers' /\ ReaderSound'
  BY <1>1 DEF FramesInv, IndexSound, FramePlaced, CursorCovers, ReaderSound
<1>5. ArchivesWhole'
  BY <1>1, <1>2 DEF FramesInv, ArchivesWhole
<1>6. WorkSound'
  BY <1>1, <1>2 DEF WorkSound, Raw!At, Raw!Idle
<1> QED BY <1>3, <1>4, <1>5, <1>6 DEF FramesInv

\* Index and manifest rows of a purged archive go together; its frames are retired.
LEMMA ForgetArchiveStep == ASSUME FramesInv, Raw!ForgetArchive PROVE FramesInv'
<1> DEFINE b == work.batch
<1>1. /\ UNCHANGED <<frames, turn, seq, hot, cursor, gz, man, retired, reader>>
      /\ archives' = archives \ {b} /\ tomb' = tomb \ {b} /\ work' = Raw!Idle
      /\ index' = [f \in Raw!Frames |-> IF index[f] = b THEN {} ELSE index[f]]
      /\ work.step = "gone"
  BY DEF Raw!ForgetArchive, Raw!input, Raw!files, Raw!None
<1>2. b \in tomb /\ b \in archives /\ b \subseteq retired
  BY <1>1 DEF FramesInv, WorkSound, ArchivesWhole
<1>3. index' \in [Raw!Frames -> SUBSET Raw!Frames]
      /\ \A f \in Raw!Frames : index'[f] = IF index[f] = b THEN {} ELSE index[f]
  <2>1. \A f \in Raw!Frames : index[f] \in SUBSET Raw!Frames
    BY DEF FramesInv, FrameTypes
  <2> QED BY <1>1, <2>1
<1>4. 1 .. frames \subseteq Raw!Frames
  BY RuntimeAssumption DEF FramesInv, FrameTypes, Raw!Frames
<1> HIDE DEF b
<1>5. FrameTypes' /\ SequenceFresh'
  BY <1>1, <1>3 DEF FramesInv, FrameTypes, SequenceFresh, Raw!SequenceFresh
<1>6. ArchivesWhole' /\ CursorCovers'
  BY <1>1 DEF FramesInv, ArchivesWhole, CursorCovers
<1>7. IndexSound'
  BY <1>1, <1>3 DEF FramesInv, IndexSound
<1>8. FramePlaced'
  <2> SUFFICES ASSUME NEW f \in 1 .. frames
               PROVE  f \in hot \/ f \in retired \/ index'[f] \in archives'
    BY <1>1 DEF FramePlaced
  <2>1. f \in Raw!Frames
    BY <1>4
  <2>2. CASE index[f] = b
    <3>1. f \in b
      BY <1>2, <2>1, <2>2 DEF FramesInv, IndexSound, ArchivesWhole
    <3> QED BY <3>1, <1>2
  <2>3. CASE index[f] # b
    BY <2>1, <2>3, <1>1, <1>3 DEF FramesInv, FramePlaced
  <2> QED BY <2>2, <2>3
<1>9. WorkSound'
  BY <1>1 DEF WorkSound, Raw!Idle
<1>10. ReaderSound'
  BY <1>1 DEF FramesInv, ReaderSound
<1> QED BY <1>5, <1>6, <1>7, <1>8, <1>9, <1>10 DEF FramesInv

\* The inductive invariant of the raw frames holds between any two steps of a
\* retention pass, of the appends and of a reader, and after a crash at any of them.
THEOREM FramesInvariant == Raw!Spec => []FramesInv
<1>1. Raw!Init => FramesInv
  <2> SUFFICES ASSUME Raw!Init PROVE FramesInv
    OBVIOUS
  <2>1. frames = 0 /\ 1 .. frames = {} /\ 0 \in 0 .. MaxFrames /\ 0 \in 0 .. frames
    BY RuntimeAssumption DEF Raw!Init
  <2>2. FrameTypes
    BY <2>1 DEF Raw!Init, FrameTypes, Raw!None
  <2>3. ArchivesWhole /\ IndexSound /\ FramePlaced /\ CursorCovers
    BY <2>1 DEF Raw!Init, ArchivesWhole, IndexSound, FramePlaced, CursorCovers, Raw!None
  <2>4. SequenceFresh
    BY <2>1 DEF SequenceFresh, Raw!SequenceFresh
  <2>5. WorkSound /\ ReaderSound
    BY DEF Raw!Init, WorkSound, ReaderSound, Raw!Idle, Raw!NoReader
  <2> QED BY <2>2, <2>3, <2>4, <2>5 DEF FramesInv
<1>2. FramesInv /\ [Raw!Next]_(Raw!vars) => FramesInv'
  <2> SUFFICES ASSUME FramesInv, [Raw!Next]_(Raw!vars) PROVE FramesInv'
    OBVIOUS
  <2>1. CASE UNCHANGED Raw!vars
    <3>1. TablesSound'
      BY <2>1, TablesKept DEF Raw!vars, FramesInv, TablesSound
    <3>2. WorkSound' /\ ReaderSound'
      BY <2>1 DEF Raw!vars, FramesInv, WorkSound, ReaderSound
    <3> QED BY <3>1, <3>2 DEF FramesInv, TablesSound
  <2>2. CASE Raw!Next
    BY <2>2, AppendFrameStep, QuietFrameStep, WriteFilesStep, CommitArchiveStep, PurgeStep,
       UnlinkStep, ForgetArchiveStep DEF Raw!Next
  <2> QED BY <2>1, <2>2
<1> QED BY <1>1, <1>2, PTL DEF Raw!Spec

\* No frame is lost before its time: it is a hot row, or its index leads to an
\* archive with payload and manifest on disk, or it was retired.
THEOREM FrameAlwaysKept == Raw!Spec => []FrameKept
<1>1. FramesInv => FrameKept
  <2> SUFFICES ASSUME FramesInv, NEW f \in 1 .. frames, f \notin hot, f \notin retired
               PROVE  index[f] \in archives \cap gz \cap man
    BY DEF FrameKept, Raw!FrameKept
  <2>1. index[f] \in archives /\ f \in Raw!Frames
    BY RuntimeAssumption DEF FramesInv, FramePlaced, FrameTypes, Raw!Frames
  <2>2. index[f] # {} /\ f \in index[f]
    BY <2>1 DEF FramesInv, ArchivesWhole, IndexSound
  <2>3. index[f] \notin tomb
    BY <2>2 DEF FramesInv, ArchivesWhole
  <2> QED BY <2>1, <2>3 DEF FramesInv, ArchivesWhole
<1> QED BY <1>1, FramesInvariant, PTL

\* A reader that races the purge is never told that the archive is damaged.
THEOREM ReaderNeverCorrupt == Raw!Spec => []NeverCorrupt
<1>1. FramesInv => NeverCorrupt
  BY DEF FramesInv, ReaderSound, NeverCorrupt, Raw!NeverCorrupt
<1> QED BY <1>1, FramesInvariant, PTL

\* A turn never uses a sequence number twice, also when all its rows and index
\* entries are gone.
THEOREM SequenceAlwaysFresh == Raw!Spec => []SequenceFresh
<1>1. FramesInv => SequenceFresh
  BY DEF FramesInv
<1> QED BY <1>1, FramesInvariant, PTL

\* No step takes a row of an active turn out of the table: the check is repeated in
\* the transaction that deletes.
THEOREM ActiveFramesStayHot == Raw!Spec => ActiveStaysHot
<1>1. [Raw!Next]_(Raw!vars) => [Raw!KeepsActiveHot]_rawVars
  <2> SUFFICES ASSUME [Raw!Next]_(Raw!vars), NEW f \in hot \ hot' PROVE turn[f] \notin turnsActive
    BY DEF Raw!KeepsActiveHot
  <2>1. CASE Raw!CommitArchive
    <3>1. f \in work.batch /\ Raw!Quiet(work.batch) = work.batch
      BY <2>1 DEF Raw!CommitArchive, Raw!Archive
    <3> QED BY <3>1 DEF Raw!Quiet
  <2>2. CASE ~Raw!CommitArchive
    <3>1. hot \subseteq hot'
      BY <2>2 DEF Raw!Next, Raw!vars, Raw!AppendFrame, Raw!Age, Raw!Look, Raw!ArchiveExpires,
                  Raw!Purge, Raw!TurnChanges, Raw!PickBatch, Raw!WritePayload, Raw!WriteManifest,
                  Raw!UnlinkPayload, Raw!UnlinkManifest, Raw!ForgetArchive, Raw!OpenFiles,
                  Raw!Recheck, Raw!Crash, Raw!rows
    <3> QED BY <3>1
  <2> QED BY <2>1, <2>2
<1> QED BY <1>1, PTL DEF Raw!Spec, ActiveStaysHot

-----------------------------------------------------------------------------
(* The composition *)

\* The explored composition behaves, for each component, as that component alone;
\* of TaskService it keeps the safety part.
THEOREM PartsAreTheComponents == PartsSpec => Runs!Spec /\ Raw!Spec /\ Init /\ [][Next]_vars
<1>1. PartsInit => Runs!Init /\ Raw!Init /\ Init
  BY DEF PartsInit
<1>2. [PartsNext]_allVars => [Runs!Next]_(Runs!vars) /\ [Raw!Next]_(Raw!vars) /\ [Next]_vars
  BY DEF PartsNext, allVars, Runs!vars, Raw!vars, runVars, rawVars
<1> QED BY <1>1, <1>2, PTL DEF PartsSpec, Runs!Spec, Raw!Spec

-----------------------------------------------------------------------------
(* The types of the composition *)

\* A reader, field by field.
ReaderType ==
    /\ reader = [step |-> reader.step, frame |-> reader.frame, archive |-> reader.archive]
    /\ reader.step \in {"idle", "found", "failed", "corrupt"}

\* The types of the files and of the steps under way, and the size of a batch.
FileTypes ==
    /\ aged \subseteq 1 .. frames /\ retired \subseteq 1 .. frames /\ turnsActive \subseteq Turns
    /\ \A a \in gz \cup man \cup expired : a \subseteq 1 .. frames
    /\ \A a \in archives : Cardinality(a) <= BatchSize
    /\ ReaderType
    /\ framesCrashes \in 0 .. MaxFrameCrashes

WorkTypes ==
    /\ work.step \in {"idle", "picked", "payload", "manifest", "tombed", "unlinked", "kept", "gone"}
    /\ work.batch \subseteq 1 .. frames /\ Cardinality(work.batch) <= BatchSize

\* The cardinality that RawFrameRetention speaks of is the usual one.
LEMMA SameCardinality == \A S : Raw!Cardinality(S) = Cardinality(S)
  BY DEF Raw!Cardinality, Cardinality

\* A set of frames is finite, and a part of it is not larger.
LEMMA BatchPart ==
    ASSUME NEW n \in Nat, NEW S, S \subseteq 1 .. n, NEW T, T \subseteq S
    PROVE  /\ IsFiniteSet(S) /\ IsFiniteSet(T) /\ Cardinality(T) \in Nat /\ Cardinality(S) \in Nat
           /\ Cardinality(T) <= Cardinality(S)
<1>1. IsFiniteSet(1 .. n)
  BY FS_Interval
<1>2. IsFiniteSet(S)
  BY <1>1, FS_Subset
<1>3. IsFiniteSet(T) /\ Cardinality(T) <= Cardinality(S)
  BY <1>2, FS_Subset
<1> QED BY <1>2, <1>3, FS_CardinalityType

\* One page of _eligible_frame_page has at most batch_size rows.
LEMMA PageFits ==
    ASSUME FramesInv, NEW c
    PROVE  Raw!Page(c) \subseteq hot /\ Cardinality(Raw!Page(c)) <= BatchSize
<1> DEFINE S == Raw!Behind(c)
           P == {f \in S : Cardinality({g \in S : g <= f}) <= BatchSize}
<1>0. frames \in Nat /\ hot \subseteq 1 .. frames /\ BatchSize \in Nat
  BY RuntimeAssumption DEF FramesInv, FrameTypes
<1>1. S \subseteq 1 .. frames /\ P \subseteq S /\ S \subseteq hot
  BY <1>0 DEF Raw!Behind
<1> HIDE DEF S
<1>2. Raw!Page(c) = P
  BY SameCardinality DEF Raw!Page, S
<1>3. CASE P = {}
  <2> HIDE DEF P
  <2>1. Cardinality({}) = 0
    BY FS_EmptySet
  <2> QED BY <1>0, <1>2, <1>3, <2>1
<1>4. CASE P # {}
  <2>1. PICK m \in P : \A y \in P : y <= m
    <3>1. P \subseteq 1 .. frames
      BY <1>1
    <3>2. P \subseteq Nat /\ \A x \in P : x <= frames
      <4> HIDE DEF P
      <4> QED BY <1>0, <3>1
    <3> HIDE DEF P
    <3> QED BY <1>0, <1>1, <1>4, <3>2, MaxFacts
  <2> DEFINE U == {g \in S : g <= m}
  <2>2. P \subseteq U /\ U \subseteq 1 .. frames
    BY <1>0, <1>1, <2>1
  <2>3. Cardinality(U) <= BatchSize
    BY <2>1
  <2> HIDE DEF U, P
  <2>4. Cardinality(P) <= Cardinality(U) /\ Cardinality(P) \in Nat /\ Cardinality(U) \in Nat
    BY <1>0, <1>1, <2>2, BatchPart
  <2>5. Cardinality(P) <= BatchSize
    BY <1>0, <1>1, <2>3, <2>4
  <2>6. P \subseteq hot
    BY <1>1
  <2> QED BY <1>2, <2>5, <2>6
<1> QED BY <1>3, <1>4
\* A step changes the files and what is under way by one action.
LEMMA FilesStep ==
    ASSUME FramesInv, FramesInv', FileTypes, WorkTypes, [Raw!Next]_(Raw!vars)
    PROVE  FileTypes' /\ WorkTypes'
<1>0. /\ frames \in Nat /\ hot \subseteq 1 .. frames /\ frames' \in Nat
      /\ \A a \in archives : a \subseteq 1 .. frames
      /\ index \in [Raw!Frames -> SUBSET Raw!Frames]
      /\ BatchSize \in Nat /\ MaxFrameCrashes \in Nat
  BY RuntimeAssumption DEF FramesInv, FrameTypes
<1>1. IsFiniteSet({}) /\ Cardinality({}) = 0 /\ 0 <= BatchSize
  BY <1>0, FS_EmptySet
<1>2. ASSUME work' = Raw!Idle PROVE WorkTypes'
  BY <1>1, <1>2 DEF WorkTypes, Raw!Idle, Raw!None
<1>3. ASSUME work' = work, frames' = frames PROVE WorkTypes'
  BY <1>3 DEF WorkTypes
<1>4. ASSUME NEW step \in {"picked", "payload", "manifest", "tombed", "unlinked", "kept", "gone"},
             NEW b, b \subseteq 1 .. frames, Cardinality(b) <= BatchSize,
             work' = Raw!At(step, b), frames' = frames
      PROVE  WorkTypes'
  BY <1>4 DEF WorkTypes, Raw!At
<1>5. Raw!Quiet(work.batch) \subseteq work.batch /\ Raw!Quiet(work.batch) \subseteq 1 .. frames
      /\ Cardinality(Raw!Quiet(work.batch)) <= BatchSize
  <2>1. Raw!Quiet(work.batch) \subseteq work.batch /\ work.batch \subseteq 1 .. frames
    BY DEF Raw!Quiet, WorkTypes
  <2>2. /\ Cardinality(Raw!Quiet(work.batch)) <= Cardinality(work.batch)
        /\ Cardinality(Raw!Quiet(work.batch)) \in Nat /\ Cardinality(work.batch) \in Nat
    BY <1>0, <2>1, BatchPart
  <2> QED BY <1>0, <2>1, <2>2 DEF WorkTypes
<1>6. CASE \E legacy \in BOOLEAN : Raw!AppendFrame(legacy)
  <2>1. /\ frames' = frames + 1
        /\ UNCHANGED <<aged, retired, turnsActive, gz, man, expired, archives, reader, framesCrashes, work>>
    BY <1>6 DEF Raw!AppendFrame, Raw!files
  <2>2. 1 .. frames \subseteq 1 .. frames'
    BY <1>0, <2>1
  <2>3. FileTypes'
    BY <2>1, <2>2 DEF FileTypes, ReaderType
  <2> QED BY <2>1, <2>2, <2>3 DEF WorkTypes
<1>7. CASE \/ \E f \in Raw!Frames : Raw!Age(f) \/ Raw!Look(f)
           \/ \E a \in man \cup archives : Raw!ArchiveExpires(a)
           \/ \E t \in Turns : Raw!TurnChanges(t)
           \/ Raw!OpenFiles \/ Raw!Recheck \/ UNCHANGED Raw!vars
  <2>1. /\ work' = work /\ frames' = frames
        /\ UNCHANGED <<gz, man, archives, retired, framesCrashes>>
    BY <1>7 DEF Raw!Age, Raw!Look, Raw!ArchiveExpires, Raw!TurnChanges, Raw!OpenFiles, Raw!Recheck,
                Raw!vars, Raw!input, Raw!files, Raw!rows
  <2>2. aged' \subseteq 1 .. frames
    BY <1>0, <1>7 DEF FileTypes, Raw!Age, Raw!Look, Raw!ArchiveExpires, Raw!TurnChanges, Raw!OpenFiles,
                Raw!Recheck, Raw!vars, Raw!input
  <2>3. turnsActive' \subseteq Turns
    BY <1>7 DEF FileTypes, Raw!Age, Raw!Look, Raw!ArchiveExpires, Raw!TurnChanges, Raw!OpenFiles,
                Raw!Recheck, Raw!vars, Raw!input
  <2>4. \A a \in expired' : a \in expired \cup man
    BY <1>7 DEF Raw!Age, Raw!Look, Raw!ArchiveExpires, Raw!TurnChanges, Raw!OpenFiles,
                Raw!Recheck, Raw!vars, Raw!files
  <2>5. ReaderType'
    <3>1. CASE reader' = reader
      BY <3>1 DEF FileTypes, ReaderType
    <3>2. CASE \E f \in Raw!Frames : Raw!Look(f)
      BY <3>2 DEF Raw!Look, ReaderType
    <3>3. CASE Raw!OpenFiles \/ Raw!Recheck
      <4>1. reader = [step |-> reader.step, frame |-> reader.frame, archive |-> reader.archive]
        BY DEF FileTypes, ReaderType
      <4>2. CASE reader' = Raw!NoReader
        BY <4>2 DEF Raw!NoReader, ReaderType
      <4>3. CASE \E x \in {"failed", "corrupt"} : reader' = [reader EXCEPT !.step = x]
        <5>1. PICK x \in {"failed", "corrupt"} : reader' = [reader EXCEPT !.step = x]
          BY <4>3
        <5>2. reader' = [step |-> x, frame |-> reader.frame, archive |-> reader.archive]
          BY <4>1, <5>1
        <5> QED BY <5>2 DEF ReaderType
      <4> QED BY <3>3, <4>2, <4>3 DEF Raw!OpenFiles, Raw!Recheck
    <3> QED BY <1>7, <3>1, <3>2, <3>3 DEF Raw!Age, Raw!ArchiveExpires, Raw!TurnChanges, Raw!vars
  <2>6. FileTypes'
    BY <2>1, <2>2, <2>3, <2>4, <2>5 DEF FileTypes
  <2> QED BY <1>3, <2>1, <2>6
<1>8. ASSUME NEW c, Raw!PickBatch(c) PROVE FileTypes' /\ WorkTypes'
  <2>1. /\ work' = Raw!At("picked", Raw!Quiet(Raw!Page(c))) /\ frames' = frames
        /\ UNCHANGED <<aged, retired, turnsActive, gz, man, expired, archives, reader, framesCrashes>>
    BY <1>8 DEF Raw!PickBatch, Raw!input, Raw!files, Raw!rows
  <2>2. Raw!Page(c) \subseteq hot /\ Cardinality(Raw!Page(c)) <= BatchSize
    BY PageFits
  <2>3. Raw!Quiet(Raw!Page(c)) \subseteq Raw!Page(c)
    BY DEF Raw!Quiet
  <2>4. PICK b, page : b = Raw!Quiet(Raw!Page(c)) /\ page = Raw!Page(c)
    OBVIOUS
  <2>5. page \subseteq 1 .. frames /\ Cardinality(page) <= BatchSize /\ b \subseteq page
    BY <1>0, <2>2, <2>3, <2>4
  <2>6. Cardinality(b) <= Cardinality(page) /\ Cardinality(b) \in Nat /\ Cardinality(page) \in Nat
    BY <1>0, <2>5, BatchPart
  <2>7. Cardinality(b) <= BatchSize /\ b \subseteq 1 .. frames
    BY <1>0, <2>5, <2>6
  <2>8. FileTypes'
    BY <2>1 DEF FileTypes, ReaderType
  <2> QED BY <1>4, <2>1, <2>4, <2>7, <2>8
<1>9. CASE Raw!WritePayload
  <2>1. /\ frames' = frames
        /\ UNCHANGED <<aged, retired, turnsActive, man, expired, archives, reader, framesCrashes>>
        /\ gz' = gz \/ gz' = gz \cup {Raw!Quiet(work.batch)}
        /\ work' = Raw!Idle \/ work' = Raw!At("payload", Raw!Quiet(work.batch))
    BY <1>9 DEF Raw!WritePayload, Raw!input, Raw!rows
  <2>2. FileTypes'
    BY <1>5, <2>1 DEF FileTypes, ReaderType
  <2> QED BY <1>2, <1>4, <1>5, <2>1, <2>2
<1>10. CASE \/ Raw!WriteManifest
            \/ \E ok \in BOOLEAN : Raw!UnlinkPayload(ok) \/ Raw!UnlinkManifest(ok)
  <2>1. /\ frames' = frames
        /\ UNCHANGED <<aged, retired, turnsActive, archives, reader, framesCrashes>>
        /\ gz' \subseteq gz /\ expired' \subseteq expired /\ man' \subseteq man \cup {work.batch}
        /\ \/ work' = Raw!Idle
           \/ \E step \in {"manifest", "unlinked", "kept", "gone"} : work' = Raw!At(step, work.batch)
    BY <1>10 DEF Raw!WriteManifest, Raw!UnlinkPayload, Raw!UnlinkManifest, Raw!input, Raw!rows
  <2>2. work.batch \subseteq 1 .. frames /\ Cardinality(work.batch) <= BatchSize
    BY DEF WorkTypes
  <2>3. FileTypes'
    BY <2>1, <2>2 DEF FileTypes, ReaderType
  <2> QED BY <1>2, <1>4, <2>1, <2>2, <2>3
<1>11. CASE Raw!CommitArchive \/ Raw!ForgetArchive
  <2>1. /\ frames' = frames /\ work' = Raw!Idle
        /\ UNCHANGED <<aged, retired, turnsActive, gz, man, expired, reader, framesCrashes>>
        /\ archives' \subseteq archives \cup {work.batch}
    BY <1>11 DEF Raw!CommitArchive, Raw!Archive, Raw!ForgetArchive, Raw!input, Raw!files
  <2>2. Cardinality(work.batch) <= BatchSize
    BY DEF WorkTypes
  <2>3. FileTypes'
    BY <2>1, <2>2 DEF FileTypes, ReaderType
  <2> QED BY <1>2, <2>1, <2>3
<1>12. ASSUME NEW a \in man \cup archives, Raw!Purge(a) PROVE FileTypes' /\ WorkTypes'
  <2>1. /\ frames' = frames /\ work' = Raw!At("tombed", a) /\ retired' = retired \cup a
        /\ UNCHANGED <<aged, turnsActive, gz, man, expired, archives, reader, framesCrashes>>
        /\ a \in archives
    BY <1>12 DEF Raw!Purge, Raw!input, Raw!files
  <2>2. a \subseteq 1 .. frames /\ Cardinality(a) <= BatchSize
    BY <1>0, <2>1 DEF FileTypes
  <2>3. FileTypes'
    BY <2>1, <2>2 DEF FileTypes, ReaderType
  <2> QED BY <1>4, <2>1, <2>2, <2>3
<1>13. CASE Raw!Crash
  <2>1. /\ frames' = frames /\ work' = Raw!Idle /\ reader' = Raw!NoReader
        /\ framesCrashes < MaxFrameCrashes /\ framesCrashes' = framesCrashes + 1
        /\ UNCHANGED <<aged, retired, turnsActive, gz, man, expired, archives>>
    BY <1>13 DEF Raw!Crash, Raw!input, Raw!files, Raw!rows
  <2>2. ReaderType'
    BY <2>1 DEF Raw!NoReader, ReaderType
  <2>3. framesCrashes' \in 0 .. MaxFrameCrashes
    BY <1>0, <2>1 DEF FileTypes
  <2>4. FileTypes'
    BY <2>1, <2>2, <2>3 DEF FileTypes, ReaderType
  <2> QED BY <1>2, <2>1, <2>4
<1> QED BY <1>6, <1>7, <1>8, <1>9, <1>10, <1>11, <1>12, <1>13 DEF Raw!Next

\* The types of RawFrameRetention.
LEMMA FrameTypesGive == FramesInv /\ FileTypes /\ WorkTypes => Raw!TypeOK
<1> SUFFICES ASSUME FramesInv, FileTypes, WorkTypes PROVE Raw!TypeOK
  OBVIOUS
<1>1. /\ frames \in 0 .. MaxFrames /\ turn \in [Raw!Frames -> Turns]
      /\ seq \in [Raw!Frames -> 0 .. frames] /\ cursor \in [Turns -> 0 .. frames]
      /\ hot \subseteq 1 .. frames /\ \A a \in archives : a \subseteq 1 .. frames
      /\ index \in [Raw!Frames -> SUBSET Raw!Frames] /\ tomb \subseteq archives
      /\ MaxFrames \in Nat
  BY RuntimeAssumption DEF FramesInv, FrameTypes, ArchivesWhole
<1>2. 0 .. frames \subseteq 0 .. MaxFrames /\ 1 .. frames \subseteq Raw!Frames
  BY <1>1 DEF Raw!Frames
<1>3. seq \in [Raw!Frames -> 0 .. MaxFrames] /\ cursor \in [Turns -> 0 .. MaxFrames]
  BY <1>1, <1>2
<1>4. \A s \in {gz, man, archives, tomb, expired} : s \subseteq SUBSET (1 .. frames)
  BY <1>1 DEF FileTypes
<1>5. /\ work.step \in {"idle", "picked", "payload", "manifest", "tombed", "unlinked", "kept", "gone"}
      /\ work.batch \subseteq Raw!Frames /\ Raw!Cardinality(work.batch) <= BatchSize
  BY <1>2, SameCardinality DEF WorkTypes
<1> QED BY <1>1, <1>3, <1>4, <1>5 DEF Raw!TypeOK, FileTypes, ReaderType

\* Every table of the tasks, the queued runs and the raw frames keeps its type on every
\* behaviour of the composition; in particular no batch that _archive_batch works on is
\* larger than the policy's, and no sequence number exceeds the number of frames.
THEOREM PartsTypes == PartsSpec => []PartsTypeOK
<1>1. Raw!Init => FileTypes /\ WorkTypes
  <2> SUFFICES ASSUME Raw!Init PROVE FileTypes /\ WorkTypes
    OBVIOUS
  <2>1. Cardinality({}) = 0 /\ BatchSize \in Nat /\ MaxFrameCrashes \in Nat
    BY RuntimeAssumption, FS_EmptySet
  <2> QED BY <2>1 DEF Raw!Init, FileTypes, ReaderType, WorkTypes, Raw!Idle, Raw!NoReader, Raw!None
<1>2. FramesInv /\ FramesInv' /\ FileTypes /\ WorkTypes /\ [Raw!Next]_(Raw!vars)
      => FileTypes' /\ WorkTypes'
  BY FilesStep
<1>3. Raw!Spec => []Raw!TypeOK
  BY <1>1, <1>2, FramesInvariant, FrameTypesGive, PTL DEF Raw!Spec
<1>4. RunsInv => Runs!TypeOK
  BY DEF RunsInv
<1>5. TaskInv /\ [Next]_vars => TaskInv'
  BY TaskStep
<1>6. TaskInv => TypeOK
  BY DEF TaskInv
<1>7. Init /\ [][Next]_vars => []TypeOK
  BY <1>5, <1>6, TaskStart, PTL
<1> QED BY <1>3, <1>4, <1>7, RunsInvariant, PartsAreTheComponents, PTL DEF PartsTypeOK

\* The write lock on the behaviours of the composition, on the hypothesis that the table
\* never holds more rows than the list of tasks which the lock scans (100 in the code);
\* tasks in worktrees, started in parallel or driven by chief-engineer runs are exempt.
THEOREM PartsKeepLock ==
    ASSUME MaxTasks <= ListLimit
    PROVE  PartsSpec => []OneWriterPerWorkspace
<1>1. TaskInv /\ OneWriterPerWorkspace /\ [Next]_vars
        => (TaskInv /\ OneWriterPerWorkspace)'
  BY TaskStep
<1> QED BY <1>1, TaskStart, PartsAreTheComponents, PTL
=============================================================================
