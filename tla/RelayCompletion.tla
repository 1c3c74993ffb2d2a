--------------------------- MODULE RelayCompletion ---------------------------
(***************************************************************************)
(* How the answer of a finished provider run becomes a result of a Relay    *)
(* task: completion events are claimed, the artifact is saved, a goal's     *)
(* controlled test is awaited, and the role hands off to the next one       *)
(* (wlcodex/relay/service.py, lifecycle.py).                                *)
(*                                                                          *)
(* One role of one task, a tester in goal mode, over the rounds of the      *)
(* task.  The same answer reaches the service as a complete delta, as a     *)
(* completed message and from the reconciler's scans, handled by different  *)
(* coroutines.  A coroutine keeps the event loop from one await to the      *)
(* next; its commits in between can only be cut short by a crash.           *)
(***************************************************************************)
EXTENDS Naturals, Sequences, SequencesExt, FiniteSets

CONSTANTS
  Workers,     \* coroutines that handle completion events
  MaxRounds,   \* bound: rounds of the task
  MaxRuns,     \* bound: provider runs of the role
  MaxCrashes,  \* bound: crashes of the process
  Overtake     \* a message may open a round while an answer is being applied

Runs == 1 .. MaxRuns
Free == "free"       \* no coroutine has the event loop
Deltas == {1, 3}     \* events: the delta that is a complete envelope, of the first
                     \* turn of a run and of the turn a format retry starts
Messages == {2, 4}   \* events: the completed message, of either turn
Session == 0         \* no event: the text was read from the provider's session
Events == {Session} \cup Deltas \cup Messages

ASSUME CompletionAssumption ==
  /\ MaxRounds \in Nat \ {0} /\ MaxRuns \in Nat /\ MaxCrashes \in Nat
  /\ Overtake \in BOOLEAN /\ Free \notin Workers

VARIABLES
  rounds,    \* status of each round; the last one is current
  routed,    \* rounds with a routing decision
  attempts,  \* of each round, the role's attempts
  retried,   \* rounds with a role_error of retry_kind "format"
  used,      \* runs started so far: 1 .. used
  born,      \* of each run, the round it was started for (history)
  said,      \* of each run, what the answer of its turn is, "nothing" while it is running
  again,     \* runs whose session was asked once more, and has a second turn
  claim,     \* relay_completion_event_claims, one row per run
  old,       \* runs whose claim is older than the 900 s lease
  saved,     \* result artifacts, by run and event
  handed,    \* handoffs created, with the round in which each queues the next role
  job,       \* what each coroutine is doing
  loop,      \* the coroutine that has the event loop, or Free
  handled,   \* _handled_runtime_completion_ids
  crashes

vars == <<rounds, routed, attempts, retried, used, born, said, again, claim, old, saved,
          handed, job, loop, handled, crashes>>
task == <<rounds, routed, attempts, retried>>
runs == <<used, born, said, again>>

RoundStatus == {"running", "blocked", "superseded"}
Status == {"queued", "streaming", "passed", "waiting", "blocked", "superseded"}
Terminal == {"passed", "waiting", "blocked", "superseded"}
Said == {"nothing", "pass", "block", "bad"}
\* done: the row has a completion_artifact_id
Attempt == [status : Status, run : 0 .. MaxRuns, done : BOOLEAN]
Pc == {"idle", "read", "decide", "save", "test", "handoff", "dispatch", "retry", "ask",
       "block", "finish"}
Idle == [pc |-> "idle", run |-> 0, event |-> 0, recovered |-> FALSE]

TypeOK ==
  /\ rounds \in Seq(RoundStatus) /\ Len(rounds) \in 1 .. MaxRounds
  /\ routed \subseteq 1 .. Len(rounds) /\ retried \subseteq 1 .. Len(rounds)
  /\ attempts \in Seq(Seq(Attempt)) /\ Len(attempts) = Len(rounds)
  /\ used \in 0 .. MaxRuns /\ born \in [Runs -> 0 .. MaxRounds] /\ said \in [Runs -> Said]
  /\ again \subseteq Runs
  /\ claim \in [Runs -> {"none", "claimed", "applied", "ignored_stale"}]
  /\ old \subseteq {r \in Runs : claim[r] = "claimed"}
  /\ saved \subseteq Runs \X Events
  /\ handed \in Seq([run : Runs, round : 1 .. MaxRounds])
  /\ job \in [Workers -> [pc : Pc, run : 0 .. MaxRuns, event : Events, recovered : BOOLEAN]]
  /\ loop \in Workers \cup {Free}
  /\ handled \subseteq Runs \X Events /\ crashes \in 0 .. MaxCrashes

Init ==
  /\ rounds = <<"running">> /\ routed = {} /\ attempts = <<<<>>>> /\ retried = {}
  /\ used = 0 /\ born = [r \in Runs |-> 0] /\ said = [r \in Runs |-> "nothing"] /\ again = {}
  /\ claim = [r \in Runs |-> "none"] /\ old = {} /\ saved = {} /\ handed = <<>>
  /\ job = [w \in Workers |-> Idle] /\ loop = Free /\ handled = {} /\ crashes = 0
-----------------------------------------------------------------------------
(* Rounds and attempts *)

Cur == Len(rounds)
NoAttempt == [status |-> "superseded", run |-> 0, done |-> FALSE]
LatestOf(r) == IF attempts[r] = <<>> THEN NoAttempt ELSE Last(attempts[r])
Latest == LatestOf(Cur)

(* the status the role's job shows: _legacy_projection_status *)
JobStatus ==
  IF rounds[Cur] = "blocked" /\ Latest.status \notin Terminal THEN "blocked" ELSE Latest.status

(* update_attempt on the current round (ensure_attempt when it has no row): a closed      *)
(* attempt asked to run again is followed by a new one, which inherits its run            *)
Put(status, run, done) ==
  LET a == [status |-> status, run |-> IF run # 0 THEN run ELSE Latest.run, done |-> done] IN
  IF attempts[Cur] = <<>> THEN [attempts EXCEPT ![Cur] = <<a>>]
  ELSE IF Latest.status = "superseded" THEN attempts
  ELSE IF status \in {"queued", "streaming"} /\ Latest.status \in Terminal
    THEN [attempts EXCEPT ![Cur] = Append(@, a)]
  ELSE [attempts EXCEPT ![Cur] = Append(Front(@), [a EXCEPT !.done = @ \/ Latest.done])]

(* the director's routing decision, then the role's dispatch and the run it starts *)
Route ==
  /\ loop = Free /\ Cur \notin routed /\ rounds[Cur] = "running"
  /\ routed' = routed \cup {Cur}
  /\ UNCHANGED <<rounds, attempts, retried, runs, claim, old, saved, handed, job, loop,
                 handled, crashes>>

DispatchRole ==
  /\ loop = Free /\ used < MaxRuns
  /\ Cur \in routed /\ rounds[Cur] = "running" /\ attempts[Cur] = <<>>
  /\ used' = used + 1
  /\ born' = [born EXCEPT ![used + 1] = Cur]
  /\ attempts' = Put("streaming", used + 1, FALSE)
  /\ UNCHANGED <<rounds, routed, retried, said, again, claim, old, saved, handed, job, loop,
                 handled, crashes>>

(* a user's message opens the next round: start_followup_round *)
UserMessage ==
  /\ loop = Free /\ Cur < MaxRounds
  /\ Overtake \/ \A w \in Workers : job[w].pc \in {"idle", "read"}
  /\ rounds' = Append([rounds EXCEPT ![Cur] = "superseded"], "running")
  /\ attempts' = Append([attempts EXCEPT ![Cur] =
                    [i \in DOMAIN @ |-> IF @[i].status = "passed" THEN @[i]
                                        ELSE [@[i] EXCEPT !.status = "superseded"]]], <<>>)
  /\ UNCHANGED <<routed, retried, runs, claim, old, saved, handed, job, loop, handled, crashes>>

RunAnswers(r, answer) ==
  /\ r <= used /\ said[r] = "nothing"
  /\ said' = [said EXCEPT ![r] = answer]
  /\ UNCHANGED <<task, used, born, again, claim, old, saved, handed, job, loop, handled, crashes>>
-----------------------------------------------------------------------------
(* Claiming: _claim_runtime_completion_projection, claim_completion_event_result *)

(* attempt_for_completion_identity: the newest row that carries the run *)
RoundsOf(run) == {r \in 1 .. Cur : \E i \in DOMAIN attempts[r] : attempts[r][i].run = run}
OriginIn(run, r) == SelectLastInSeq(attempts[r], LAMBDA a : a.run = run)
Origin(run) == LET r == Max(RoundsOf(run)) IN attempts[r][OriginIn(run, r)]

(* mutation: the claim is not compared with the round that is now current *)
OriginIsKnown(run) == Origin(run).status # "passed"

OriginIsCurrent(run) ==
  /\ Cur \in RoundsOf(run)
  /\ Origin(run).status \notin {"superseded", "passed"}
  /\ OriginIn(run, Cur) = Len(attempts[Cur])

HasArtifact(run, e) == IF e = Session THEN Origin(run).done ELSE <<run, e>> \in saved

Go(w, pc) == job' = [job EXCEPT ![w].pc = pc]

OfTurn(run) == {Session} \cup (IF run \in again THEN {3, 4} ELSE {1, 2})

(* an event of the turn the job shows (or of any turn while it shows none), a scan of a    *)
(* streaming job; the text may be read from the provider first                             *)
Deliver(w, run, e) ==
  /\ job[w] = Idle /\ said[run] # "nothing" /\ e \in OfTurn(run)
  /\ RoundsOf(run) # {} /\ Latest.run \in {run, 0}
  /\ e \in Deltas => said[run] # "bad"
  /\ e = Session => JobStatus = "streaming" /\ Latest.run = run
  /\ job' = [job EXCEPT ![w] = [pc |-> "read", run |-> run, event |-> e, recovered |-> FALSE]]
  /\ UNCHANGED <<task, runs, claim, old, saved, handed, loop, handled, crashes>>

(* mutation: a claim is never taken over *)
ClaimableOnce(run) == claim[run] = "none"

(* no row yet, or one whose worker has not finished within the lease *)
Claimable(run) == claim[run] = "none" \/ run \in old

Claim(w) ==
  LET j == job[w] IN
  /\ loop = Free /\ j.pc = "read"
  /\ IF Claimable(j.run) /\ (said[j.run] # "bad" => <<j.run, j.event>> \notin handled)
       THEN /\ claim' = [claim EXCEPT ![j.run] = "claimed"]
            /\ old' = old \ {j.run}
            /\ job' = [job EXCEPT ![w].pc = "decide", ![w].recovered = claim[j.run] = "claimed"]
            /\ loop' = w
       ELSE /\ job' = [job EXCEPT ![w] = Idle]
            /\ UNCHANGED <<claim, old, loop>>
  /\ UNCHANGED <<task, runs, saved, handed, handled, crashes>>

(* mutation: the round is compared, but not whether the attempt is closed *)
DecideByRound(w) ==
  LET j == job[w]
      finish == j.recovered /\ HasArtifact(j.run, j.event) IN
  /\ loop = w /\ j.pc = "decide"
  /\ IF finish THEN Go(w, "finish") /\ UNCHANGED <<claim, loop>>
     ELSE IF Cur \in RoundsOf(j.run) THEN Go(w, "save") /\ UNCHANGED <<claim, loop>>
     ELSE /\ claim' = [claim EXCEPT ![j.run] = "ignored_stale"]
          /\ job' = [job EXCEPT ![w] = Idle] /\ loop' = Free
  /\ UNCHANGED <<task, runs, old, saved, handed, handled, crashes>>

(* an answer of a superseded or closed attempt is retired, one whose artifact a dead       *)
(* worker had saved is only finished, one for a settled role also                          *)
Decide(w) ==
  LET j == job[w]
      finish == IF OriginIsCurrent(j.run)
                  THEN \/ j.recovered /\ HasArtifact(j.run, j.event)
                       \/ said[j.run] # "bad" /\ JobStatus \in {"passed", "waiting"}
                  ELSE HasArtifact(j.run, j.event) IN
  /\ loop = w /\ j.pc = "decide"
  /\ IF finish THEN Go(w, "finish") /\ UNCHANGED <<claim, loop>>
     ELSE IF OriginIsCurrent(j.run) THEN Go(w, "save") /\ UNCHANGED <<claim, loop>>
     ELSE /\ claim' = [claim EXCEPT ![j.run] = "ignored_stale"]
          /\ job' = [job EXCEPT ![w] = Idle] /\ loop' = Free
  /\ UNCHANGED <<task, runs, old, saved, handed, handled, crashes>>

(* _finish_runtime_completion_projection *)
Finish(w) ==
  LET j == job[w] IN
  /\ loop = w /\ j.pc = "finish"
  /\ claim' = [claim EXCEPT ![j.run] = "applied"]
  /\ old' = old \ {j.run}
  /\ handled' = handled \cup ({<<j.run, j.event>>} \ {<<j.run, Session>>})
  /\ job' = [job EXCEPT ![w] = Idle] /\ loop' = Free
  /\ UNCHANGED <<task, runs, saved, handed, crashes>>
-----------------------------------------------------------------------------
(* Applying: handle_role_output, _retry_role_envelope_format *)

(* save_artifact and observe_artifact; a goal's report is then tested, an await *)
Save(w) ==
  LET answer == said[job[w].run] IN
  /\ loop = w /\ job[w].pc = "save"
  /\ saved' = saved \cup {<<job[w].run, job[w].event>>}
  /\ attempts' = Put(CASE answer = "pass" -> "passed" [] answer = "block" -> "blocked"
                       [] OTHER -> "waiting", 0, TRUE)
  /\ Go(w, CASE answer = "pass" -> "test" [] answer = "block" -> "block" [] OTHER -> "retry")
  /\ loop' = IF answer = "pass" THEN Free ELSE w
  /\ UNCHANGED <<rounds, routed, retried, runs, claim, old, handed, handled, crashes>>

(* the controlled test ends; the status goes to the round that is then current *)
TestEnds(w, ok) ==
  /\ loop = Free /\ job[w].pc = "test"
  /\ loop' = w
  /\ attempts' = IF ok THEN Put("passed", 0, FALSE) ELSE attempts
  /\ Go(w, IF ok THEN "handoff" ELSE "block")
  /\ UNCHANGED <<rounds, routed, retried, runs, claim, old, saved, handed, handled, crashes>>

(* the handoff and the next role's queueing; without a routing decision the role is blocked *)
Handoff(w) ==
  /\ loop = w /\ job[w].pc = "handoff"
  /\ IF Cur \in routed
       THEN /\ handed' = Append(handed, [run |-> job[w].run, round |-> Cur])
            /\ rounds' = [rounds EXCEPT ![Cur] = "running"]
            /\ Go(w, "dispatch") /\ loop' = Free
       ELSE Go(w, "block") /\ UNCHANGED <<handed, rounds, loop>>
  /\ UNCHANGED <<routed, attempts, retried, runs, claim, old, saved, handled, crashes>>

(* the await of the next role's dispatch is over *)
Dispatched(w) ==
  /\ loop = Free /\ job[w].pc = "dispatch"
  /\ loop' = w /\ Go(w, "finish")
  /\ UNCHANGED <<task, runs, claim, old, saved, handed, handled, crashes>>

(* _block_role_with_error, or a report that says blocked *)
Block(w) ==
  /\ loop = w /\ job[w].pc = "block"
  /\ attempts' = Put("blocked", 0, FALSE)
  /\ rounds' = [rounds EXCEPT ![Cur] = "blocked"]
  /\ Go(w, "finish")
  /\ UNCHANGED <<routed, retried, runs, claim, old, saved, handed, loop, handled, crashes>>

(* one format retry per round: the role is queued again and the session asked once more *)
Retry(w) ==
  /\ loop = w /\ job[w].pc = "retry"
  /\ IF Cur \in retried THEN Go(w, "block") /\ UNCHANGED <<task, loop>>
     ELSE /\ retried' = retried \cup {Cur}
          /\ rounds' = [rounds EXCEPT ![Cur] = "running"]
          /\ attempts' = Put("queued", 0, FALSE)
          /\ Go(w, "ask") /\ loop' = Free /\ UNCHANGED routed
  /\ UNCHANGED <<runs, claim, old, saved, handed, handled, crashes>>

(* the session's next turn belongs to the same run, and so to the claim that Finish is    *)
(* about to mark applied; the metadata goes to the round that is then current             *)
Asked(w, ok) ==
  /\ loop = Free /\ job[w].pc = "ask"
  /\ loop' = w
  /\ IF ok THEN /\ again' = again \cup {job[w].run}
                /\ said' = [said EXCEPT ![job[w].run] = "nothing"]
                /\ attempts' = Put("streaming", job[w].run, FALSE)
                /\ Go(w, "finish")
     ELSE Go(w, "block") /\ UNCHANGED <<again, said, attempts>>
  /\ UNCHANGED <<rounds, routed, retried, used, born, claim, old, saved, handed, handled, crashes>>
-----------------------------------------------------------------------------
(* The run fails, or scan_stale_native_roles finds no answer it may apply *)
NoAnswer ==
  /\ loop = Free /\ JobStatus = "streaming"
  /\ \/ said[Latest.run] = "nothing"
     \/ claim[Latest.run] = "claimed" /\ Latest.run \notin old
  /\ attempts' = Put("blocked", 0, FALSE)
  /\ rounds' = [rounds EXCEPT ![Cur] = "blocked"]
  /\ UNCHANGED <<routed, retried, runs, claim, old, saved, handed, job, loop, handled, crashes>>

(* the lease outlasts the awaits of a live coroutine (a test is killed after 300 s) *)
LeaseExpires(run) ==
  /\ claim[run] = "claimed"
  /\ \A w \in Workers : job[w].run = run => job[w].pc = "read"
  /\ old' = old \cup {run}
  /\ UNCHANGED <<task, runs, claim, saved, handed, job, loop, handled, crashes>>

Crash ==
  /\ crashes < MaxCrashes
  /\ crashes' = crashes + 1
  /\ job' = [w \in Workers |-> Idle] /\ loop' = Free /\ handled' = {}
  /\ UNCHANGED <<task, runs, claim, old, saved, handed>>

Step(w) ==
  \/ Claim(w) \/ Decide(w) \/ Finish(w) \/ Save(w) \/ Handoff(w) \/ Dispatched(w)
  \/ Block(w) \/ Retry(w)
  \/ \E ok \in BOOLEAN : TestEnds(w, ok) \/ Asked(w, ok)

Next ==
  \/ Route \/ DispatchRole \/ UserMessage \/ NoAnswer \/ Crash
  \/ \E r \in Runs : LeaseExpires(r) \/ \E a \in Said \ {"nothing"} : RunAnswers(r, a)
  \/ \E w \in Workers : Step(w) \/ \E r \in Runs, e \in Events : Deliver(w, r, e)

Spec == Init /\ [][Next]_vars

(* every await ends (provider calls and the controlled test have time limits), the       *)
(* reconciler looks at the events again every two seconds, and time passes               *)
Fairness ==
  /\ \A w \in Workers : WF_vars(Step(w))
  /\ \A r \in Runs : WF_vars(LeaseExpires(r)) /\ 
                  SF_vars(\E w \in Workers, e \in Messages : Deliver(w, r, e))

FairSpec == Spec /\ Fairness
-----------------------------------------------------------------------------
(* The answer of a run is handed off at most once, however often it is delivered, by      *)
(* however many coroutines, and after a crash between any two commits of the projection.  *)
HandedOnce ==
  \A i, j \in DOMAIN handed : handed[i].run = handed[j].run => i = j

(* A late answer stays where it belongs: the role is passed, blocked or asked again, and  *)
(* the task is handed off, only in the round the run was started for.                     *)
ResultOfOwnRound ==
  /\ \A i \in DOMAIN handed : handed[i].round = born[handed[i].run]
  /\ \A r \in DOMAIN attempts : \A i \in DOMAIN attempts[r] :
       attempts[r][i].run # 0 /\ born[attempts[r][i].run] = r

(* The first answer of a run does not leave its role streaming: it is applied, or the     *)
(* role blocked or asked again, also when the coroutine that had claimed the answer died. *)
(* (The answer to a format retry finds the run's claim applied and is dropped: 'again'.)  *)
RunSettles ==
  \A r \in Runs :
    LET awaited == Latest.run = r /\ JobStatus = "streaming" /\ r \notin again
    IN  (awaited /\ said[r] # "nothing") ~> ~awaited
=============================================================================
