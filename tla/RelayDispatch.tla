---------------------------- MODULE RelayDispatch ----------------------------
(***************************************************************************)
(* How one role of one Relay task gets its provider turns: the attempts    *)
(* kept per round (wlcodex/relay/lifecycle.py) and the coroutines that     *)
(* dispatch, resume and follow up on them (wlcodex/relay/service.py).      *)
(*                                                                         *)
(* A dispatch reads the task, takes the queued attempt by compare-and-set, *)
(* calls the provider (an await during which anything may happen) and      *)
(* writes what came back onto whatever round is then current.  A user's    *)
(* message opens the next round at any time; if the role already has a     *)
(* provider session the message goes to it without taking the attempt.  A  *)
(* run (agent_run_id) belongs to the provider's session: every call that   *)
(* continues a session reports the run that the session was started with,  *)
(* in whatever round.                                                      *)
(* A coroutine may die anywhere; the reconciler quarantines the attempts   *)
(* that were being dispatched when that happened.                          *)
(***************************************************************************)
EXTENDS Naturals, Sequences, FiniteSets

CONSTANTS
    Workers,      \* coroutines, of one process or of several
    MaxRound,     \* bound: rounds opened by messages
    MaxAttempt,   \* bound: attempts of a round a resume may still add to
    MaxTurns,     \* bound: turns the provider accepts
    MaxFaults     \* bound: crashes, and dispatches slower than the stale threshold

ASSUME DispatchAssumption ==
    /\ MaxRound \in Nat /\ MaxAttempt \in Nat /\ MaxTurns \in Nat /\ MaxFaults \in Nat

VARIABLES
    rounds,     \* status of each round; the last one is the current round
    attempts,   \* per round, the attempts of the role in order
    error,      \* per round, the role's latest role_error artifact
    session,    \* per round, the native session its latest dispatch metadata names
    turns,      \* the turns the provider accepted, with the attempt each is for
    job,        \* what each coroutine is doing
    faults

vars == <<rounds, attempts, error, session, turns, job, faults>>

RoundStatus   == {"running", "blocked", "completed", "superseded"}
AttemptStatus == {"queued", "dispatching", "streaming", "passed", "blocked", "superseded"}
Terminal      == {"passed", "blocked", "superseded"}
Error         == {"none", "indeterminate", "failure"}

\* "start", "continue" and "message" are the provider calls: start_session and
\* continue_session of dispatch_role, and the call add_user_message makes itself.
Calls == {"start", "continue", "message"}
Pc    == {"idle", "resume", "dispatch", "claim"} \cup Calls

\* run: the agent_run_id of the row, here the number of the turn that started the
\* session, which also names the session; 0 if NULL.
\* claims and reopened are history: dispatch claims taken on this row, and the
\* times a resume put it back to queued in place.
Attempt == [status : AttemptStatus, run : Nat, claims : Nat, reopened : Nat]
Turn    == [round : Nat, no : Nat, run : Nat]
\* turn: the turn the provider has accepted in the current call, 0 if none;
\* existing: existing_native_session_id, the session to continue, 0 if none.
Job     == [pc : Pc, round : Nat, no : Nat, turn : Nat, prefer : BOOLEAN, existing : Nat]

Idle == [pc |-> "idle", round |-> 0, no |-> 0, turn |-> 0, prefer |-> TRUE, existing |-> 0]
Queued(run) == [status |-> "queued", run |-> run, claims |-> 0, reopened |-> 0]

\* Row types, one table per line.
TypeOK ==
    /\ rounds \in Seq(RoundStatus)
    /\ attempts \in Seq(Seq(Attempt))
    /\ error \in Seq(Error)
    /\ session \in Seq(Nat)
    /\ Len(attempts) = Len(rounds) /\ Len(error) = Len(rounds) /\ Len(session) = Len(rounds)
    /\ turns \in Seq(Turn)
    /\ job \in [Workers -> Job]
    /\ faults \in Nat

-----------------------------------------------------------------------------
(* Attempts *)

Cur == Len(rounds)

Latest(r) == attempts[r][Len(attempts[r])]

\* sync_legacy_projection, which every read and every status update runs first:
\* the status of the role's job as the service sees it.
JobStatus ==
    IF rounds[Cur] = "blocked" /\ Latest(Cur).status \notin Terminal
    THEN "blocked" ELSE Latest(Cur).status

OrElse(run, old) == IF run = 0 THEN old ELSE run

\* update_attempt on the latest of a round's attempts: a superseded one is left
\* alone, a terminal one is followed by a new attempt that inherits its run, any
\* other one is rewritten in place.
Updated(rows, status, run) ==
    LET n    == Len(rows)
        last == rows[n]
    IN  IF last.status = "superseded" THEN rows
        ELSE IF status \in {"queued", "streaming"} /\ last.status \in Terminal
        THEN Append(rows, [Queued(OrElse(run, last.run)) EXCEPT !.status = status])
        ELSE [rows EXCEPT ![n].status = status, ![n].run = OrElse(run, @)]

\* update_role_metadata with a verified run: saving the role_dispatch_metadata
\* artifact already writes the run onto the latest attempt (observe_artifact),
\* then the attempt is set to streaming.
Dispatched(run) ==
    LET last   == Latest(Cur).status
        status == IF rounds[Cur] = "blocked" THEN "blocked"
                  ELSE IF last \in Terminal THEN last ELSE "streaming"
    IN  Updated(Updated(attempts[Cur], status, run), "streaming", run)

\* start_followup_round.
StartFollowupRound ==
    /\ rounds' = Append([rounds EXCEPT ![Cur] =
                           IF @ = "completed" THEN @ ELSE "superseded"], "running")
    /\ attempts' = Append([attempts EXCEPT ![Cur] =
                             [n \in DOMAIN @ |->
                                IF @[n].status = "passed" THEN @[n]
                                ELSE [@[n] EXCEPT !.status = "superseded"]]],
                          <<Queued(0)>>)
    /\ error' = Append(error, "none")
    /\ session' = Append(session, 0)

\* The role and its round are blocked, with or without a new role_error artifact.
Block(err) ==
    /\ attempts' = [attempts EXCEPT ![Cur] = Updated(attempts[Cur], "blocked", 0)]
    /\ rounds' = [rounds EXCEPT ![Cur] = "blocked"]
    /\ error' = IF err = "none" THEN error ELSE [error EXCEPT ![Cur] = err]

-----------------------------------------------------------------------------
(* Dispatch *)

GoIdle(w) == job' = [job EXCEPT ![w] = Idle]

Goto(w, pc, prefer) ==
    job' = [job EXCEPT ![w] = [Idle EXCEPT !.pc = pc, !.round = Cur, !.prefer = prefer]]

\* Somebody schedules dispatch_role for the role: the task's creation, a handoff,
\* a round control or a consumer of the input queue.
Schedule(w) ==
    /\ job[w].pc = "idle"
    /\ Goto(w, "dispatch", TRUE)
    /\ UNCHANGED <<rounds, attempts, error, session, turns, faults>>

\* dispatch_role up to its claim; a session of this round will be continued.  It
\* returns if the role is not queued or a maintenance window has begun.
Dispatch(w) ==
    /\ job[w].pc = "dispatch"
    /\ \/ /\ JobStatus = "queued"
          /\ job' = [job EXCEPT ![w] = [Idle EXCEPT !.pc = "claim", !.round = Cur,
                        !.existing = IF job[w].prefer THEN session[Cur] ELSE 0]]
       \/ GoIdle(w)
    /\ UNCHANGED <<rounds, attempts, error, session, turns, faults>>

\* Variant: the status was checked when the task was read, so it is not again.
ClaimUnchecked(w) ==
    LET r == job[w].round
        n == Len(attempts[r])
    IN  /\ job[w].pc = "claim"
        /\ attempts' = [attempts EXCEPT ![r][n].status = "dispatching", ![r][n].claims = @ + 1]
        /\ job' = [job EXCEPT ![w].no = n,
                              ![w].pc = IF job[w].existing # 0 THEN "continue" ELSE "start"]
        /\ UNCHANGED <<rounds, error, session, turns, faults>>

\* claim_queued_attempt_dispatch, on the round dispatch_role read before; then
\* the session of this round is continued, or one is started.
Claim(w) ==
    LET r == job[w].round
        n == Len(attempts[r])
    IN  /\ job[w].pc = "claim"
        /\ \/ /\ Latest(r).status = "queued"
              /\ attempts' = [attempts EXCEPT ![r][n].status = "dispatching",
                                              ![r][n].claims = @ + 1]
              /\ job' = [job EXCEPT ![w].no = n,
                                    ![w].pc = IF job[w].existing # 0 THEN "continue" ELSE "start"]
           \/ /\ Latest(r).status # "queued"
              /\ GoIdle(w)
              /\ UNCHANGED attempts
        /\ UNCHANGED <<rounds, error, session, turns, faults>>

\* The provider accepts the call and a turn begins, in a new session with a run of
\* its own or in the existing session, under that session's run.
ProviderAccepts(w) ==
    /\ job[w].pc \in Calls /\ job[w].turn = 0
    /\ Len(turns) < MaxTurns
    /\ turns' = Append(turns, [round |-> job[w].round, no |-> job[w].no,
                               run |-> IF job[w].pc = "start" THEN Len(turns) + 1
                                       ELSE job[w].existing])
    /\ job' = [job EXCEPT ![w].turn = Len(turns) + 1]
    /\ UNCHANGED <<rounds, attempts, error, session, faults>>

\* Variant: the metadata goes to the round the call was made for, the attempt's
\* run and status to the current one.
VerifiedSplit(w) ==
    LET run == turns[job[w].turn].run
    IN  /\ job[w].pc \in Calls /\ job[w].turn # 0
        /\ attempts' = [attempts EXCEPT ![Cur] = Dispatched(run)]
        /\ session' = [session EXCEPT ![job[w].round] = run]
        /\ GoIdle(w)
        /\ UNCHANGED <<rounds, error, turns, faults>>

\* The verified result arrives: metadata, run and status go to the current round,
\* whatever round the call was made for.
Verified(w) ==
    LET run == turns[job[w].turn].run
    IN  /\ job[w].pc \in Calls /\ job[w].turn # 0
        /\ attempts' = [attempts EXCEPT ![Cur] = Dispatched(run)]
        /\ session' = [session EXCEPT ![Cur] = run]
        /\ GoIdle(w)
        /\ UNCHANGED <<rounds, error, turns, faults>>

\* The call raises or comes back unverified, whether or not a turn began:
\* continuing falls back to starting, a message falls back to dispatch_role, and
\* a failed start blocks the role (_mark_role_fallback).
CallFails(w) ==
    /\ \/ /\ job[w].pc = "continue"
          /\ job' = [job EXCEPT ![w].pc = "start", ![w].turn = 0]
          /\ UNCHANGED <<rounds, attempts, error, session>>
       \/ /\ job[w].pc = "message"
          /\ Goto(w, "dispatch", FALSE)
          /\ UNCHANGED <<rounds, attempts, error, session>>
       \/ /\ job[w].pc = "start"
          /\ Block("none")
          /\ session' = [session EXCEPT ![Cur] = 0]
          /\ GoIdle(w)
    /\ UNCHANGED <<turns, faults>>

-----------------------------------------------------------------------------
(* Users, provider events and the reconciler *)

\* add_user_message opens the next round; a role that has a session is sent the
\* message at once, without the dispatch claim.  The route allowed the message
\* before it awaited the request's body, so by now the role may be in any state.
AddUserMessage(w) ==
    /\ job[w].pc = "idle"
    /\ Cur < MaxRound
    /\ StartFollowupRound
    /\ job' = [job EXCEPT ![w] = [Idle EXCEPT !.round = Cur + 1,
                 !.no = IF session[Cur] # 0 THEN 1 ELSE 0, !.existing = session[Cur],
                 !.pc = IF session[Cur] # 0 THEN "message" ELSE "dispatch"]]
    /\ UNCHANGED <<turns, faults>>

\* error_message of the role's job: shown only while the job is blocked.
Indeterminate == error[Cur] = "indeterminate" /\ JobStatus = "blocked"

\* require_presentation_action("resume"), then an await for the request body.
ResumeGate(w) ==
    /\ job[w].pc = "idle"
    /\ rounds[Cur] = "blocked" /\ ~Indeterminate
    /\ Len(attempts[Cur]) < MaxAttempt
    /\ Goto(w, "resume", TRUE)
    /\ UNCHANGED <<rounds, attempts, error, session, turns, faults>>

\* resume_role, with the request's force and override flags.  It refuses also in a
\* maintenance window or while a native approval is being resolved.
ResumeRole(w, force, override) ==
    LET n == Len(attempts[Cur])
    IN  /\ job[w].pc = "resume"
        /\ \/ /\ GoIdle(w)
              /\ UNCHANGED <<rounds, attempts>>
           \/ /\ ~Indeterminate \/ override
              /\ JobStatus \notin {"streaming", "queued"} \/ force
              /\ rounds' = [rounds EXCEPT ![Cur] = "running"]
              /\ LET rows == Updated(attempts[Cur], "queued", 0)
                 IN  attempts' = [attempts EXCEPT ![Cur] =
                        IF Len(rows) > n THEN rows ELSE [rows EXCEPT ![n].reopened = @ + 1]]
              /\ Goto(w, "dispatch", TRUE)
        /\ UNCHANGED <<error, session, turns, faults>>

\* handle_runtime_event for the turn the latest attempt records: it fails, or its
\* final summary completes the round.
TurnFails ==
    /\ Latest(Cur).status = "streaming"
    /\ Block("failure")
    /\ UNCHANGED <<session, turns, job, faults>>

TurnCompletes ==
    /\ Latest(Cur).status = "streaming"
    /\ attempts' = [attempts EXCEPT ![Cur] = Updated(attempts[Cur], "passed", 0)]
    /\ rounds' = [rounds EXCEPT ![Cur] = "completed"]
    /\ UNCHANGED <<error, session, turns, job, faults>>

\* Coroutines inside a provider call made for attempt n of round r.
Calling(r, n) == {w \in Workers : /\ job[w].pc \in Calls
                                  /\ job[w].round = r /\ job[w].no = n}

\* Variant: the session of an earlier attempt is required instead of excluded.
StaleInherited(n) == attempts[Cur][n].status = "dispatching" /\ attempts[Cur][n].run # 0

\* Rows quarantine_stale_unverified_dispatches selects, apart from their age.
Stale(n) == attempts[Cur][n].status = "dispatching" /\ attempts[Cur][n].run = 0

\* reconcile_task_lifecycle: a claim with no recorded session that has grown old
\* is quarantined and the role blocked.  The claim of a coroutine that is still
\* calling the provider grows old only if the call is slow, a fault.
Quarantine ==
    /\ \E n \in DOMAIN attempts[Cur] :
         /\ Stale(n)
         /\ IF Calling(Cur, n) = {} THEN UNCHANGED faults
            ELSE faults < MaxFaults /\ faults' = faults + 1
    /\ Block("indeterminate")
    /\ UNCHANGED <<session, turns, job>>

Crash(w) ==
    /\ job[w].pc # "idle" /\ faults < MaxFaults
    /\ GoIdle(w)
    /\ faults' = faults + 1
    /\ UNCHANGED <<rounds, attempts, error, session, turns>>

-----------------------------------------------------------------------------
Init ==
    /\ rounds = <<"running">>
    /\ attempts = <<<<Queued(0)>>>>
    /\ error = <<"none">>
    /\ session = <<0>>
    /\ turns = <<>>
    /\ job = [w \in Workers |-> Idle]
    /\ faults = 0

WorkerStep(w) ==
    \/ Dispatch(w) \/ Claim(w) \/ Verified(w) \/ CallFails(w)
    \/ \E force, override \in BOOLEAN : ResumeRole(w, force, override)

Next ==
    \/ \E w \in Workers : \/ WorkerStep(w) \/ ProviderAccepts(w)
                          \/ Schedule(w) \/ AddUserMessage(w) \/ ResumeGate(w)
                          \/ Crash(w)
    \/ TurnFails \/ TurnCompletes \/ Quarantine

\* Coroutines run on, calls return, and the reconcile loop comes round.
Fairness ==
    /\ \A w \in Workers : WF_vars(WorkerStep(w))
    /\ WF_vars(Quarantine)

Spec == Init /\ [][Next]_vars
FairSpec == Spec /\ Fairness

-----------------------------------------------------------------------------
(* Properties *)

\* The compare-and-set holds against coroutines that read the task as queued and
\* reach the claim late, after another one or a whole new round: an attempt is
\* claimed once, and once more for each time a resume put it back to queued.
ClaimsAccounted ==
    \A r \in DOMAIN attempts : \A n \in DOMAIN attempts[r] :
        attempts[r][n].claims <= 1 + attempts[r][n].reopened

\* A superseded round is closed: no late claim, provider result, fallback or
\* quarantine changes it or its attempts any more.
SupersededSealed ==
    [][\A r \in DOMAIN rounds :
         rounds[r] = "superseded" =>
             rounds'[r] = "superseded" /\ attempts'[r] = attempts[r]]_vars

\* The session that a resume or a message would continue is the one under whose
\* run the round's latest attempt waits for its answer: late results of another
\* round's call, fallbacks and resumes never leave the dispatch metadata and the
\* attempts naming different sessions.
SessionIsAwaited ==
    \A r \in DOMAIN rounds : session[r] # 0 => Latest(r).run = session[r]

\* A dispatch whose coroutine died before any session of the round was known does
\* not stay "dispatching": the reconciler blocks it, or a message supersedes it.
FirstDispatchSettles ==
    (Latest(Cur).status = "dispatching" /\ Latest(Cur).run = 0)
    ~> ~(Latest(Cur).status = "dispatching" /\ Latest(Cur).run = 0)

\* "concurrent workers therefore cannot create a second native session for one
\* attempt" (dispatch_role): never are two coroutines inside the provider for
\* the same attempt.
OneCallPerAttempt ==
    \A w, v \in Workers :
        (/\ job[w].pc \in Calls /\ job[v].pc \in Calls
         /\ job[w].round = job[v].round /\ job[w].no = job[v].no) => w = v
=============================================================================
