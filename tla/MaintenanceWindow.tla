-------------------------- MODULE MaintenanceWindow --------------------------
(***************************************************************************)
(* The maintenance window: an operator freezes submissions, waits until the *)
(* rows that could still cause a write are terminal, probes the native      *)
(* turns that were in flight at the freeze, and only then archives or       *)
(* compacts (maintenance.py, runtime_raw_frame_retention.py).               *)
(*                                                                          *)
(* The operator's commands run one at a time in a process of their own; the *)
(* service submits, and its providers finish, between any two of their      *)
(* steps.  A submission reads the gate and writes its row, or calls the     *)
(* provider, later.  Windows are numbered: opened_at is the number of the   *)
(* freeze that opened it.                                                   *)
(***************************************************************************)
EXTENDS Naturals, FiniteSets

CONSTANTS Sessions,     \* native Codex sessions
          Writers,      \* submissions of every other kind (tasks, Relay, queued runs)
          MaxTurns,     \* bound: native turns
          MaxWindows,   \* bound: windows opened
          MaxMisses     \* bound: reads the provider does not answer

VARIABLES
  frozen,    \* submissions_frozen
  opened,    \* opened_at of the singleton row; maintenance-cancel leaves it
  windows,   \* freezes so far
  candidates,\* runtime_maintenance_native_turn_candidates
  verdict,   \* runtime_maintenance_native_turn_probes
  cached,    \* native_codex_sessions.status: running or idle, as the service last heard
  live,      \* the turn the provider runs in each session, 0 if none
  turns,     \* turns started so far
  gate,      \* what passed the gate and has not acted yet
  rows,      \* other submissions whose rows are not terminal
  captured,  \* turns in flight in the captured sessions at the freeze (history)
  probe,     \* maintenance-probe-native: the sessions still to read, and its window
  misses     \* reads not answered so far

vars == <<frozen, opened, windows, candidates, verdict, cached, live, turns, gate, rows,
          captured, probe, misses>>
window == <<frozen, opened, windows, candidates, captured>>
service == <<cached, live, turns, gate, rows>>
operator == <<verdict, probe, misses>>

Windows == 1 .. MaxWindows
NoProbe == [todo |-> {}, at |-> 0]

TypeOK ==
  /\ frozen \in BOOLEAN /\ opened \in 0 .. MaxWindows /\ windows \in 0 .. MaxWindows
  /\ candidates \subseteq Windows \X Sessions
  /\ verdict \in [Windows \X Sessions -> {"none", "active", "terminal", "unknown"}]
  /\ cached \in [Sessions -> {"running", "idle"}]
  /\ live \in [Sessions -> 0 .. MaxTurns] /\ turns \in 0 .. MaxTurns
  /\ gate \subseteq Sessions \cup Writers /\ rows \subseteq Writers
  /\ captured \subseteq Sessions \X (1 .. MaxTurns)
  /\ probe.todo \subseteq Sessions /\ probe.at \in 0 .. MaxWindows
  /\ misses \in 0 .. MaxMisses

Init ==
  /\ frozen = FALSE /\ opened = 0 /\ windows = 0
  /\ candidates = {} /\ verdict = [p \in Windows \X Sessions |-> "none"]
  /\ cached = [s \in Sessions |-> "idle"] /\ live = [s \in Sessions |-> 0] /\ turns = 0
  /\ gate = {} /\ rows = {} /\ captured = {} /\ probe = NoProbe /\ misses = 0

(* active_work_counts: non-terminal rows, and the candidates of the open window whose *)
(* probe has not said terminal                                                        *)
ActiveWork ==
  rows \cup {s \in Sessions : /\ frozen /\ <<opened, s>> \in candidates
                              /\ verdict[<<opened, s>>] # "terminal"}

(* assert_maintenance_window_ready: what apply and compact ask before every step *)
Ready == frozen /\ ActiveWork = {}
-----------------------------------------------------------------------------
(* The service *)

(* assert_submissions_open, of a native session or of another submission *)
Submit(x) ==
  /\ ~frozen
  /\ x \notin gate \cup rows
  /\ x \in Sessions => live[x] = 0 /\ turns < MaxTurns
  /\ gate' = gate \cup {x}
  /\ UNCHANGED <<window, cached, live, turns, rows, operator>>

(* the request goes on after its body was read and its key claimed: the provider      *)
(* starts the turn and the session is stored as running, or the row is inserted.      *)
(* One step, though continue_session awaits between the two: a window that opens there *)
(* does not capture the turn, and ReadyMeansEnded is about captured turns only          *)
Act(x) ==
  /\ x \in gate
  /\ gate' = gate \ {x}
  /\ IF x \in Sessions
       THEN /\ live[x] = 0 /\ turns < MaxTurns
            /\ turns' = turns + 1
            /\ live' = [live EXCEPT ![x] = turns + 1]
            /\ cached' = [cached EXCEPT ![x] = "running"]
            /\ rows' = rows
       ELSE rows' = rows \cup {x} /\ UNCHANGED <<cached, live, turns>>
  /\ UNCHANGED <<window, operator>>

(* the request fails on the way *)
GiveUp(x) ==
  /\ x \in gate
  /\ gate' = gate \ {x}
  /\ UNCHANGED <<window, cached, live, turns, rows, operator>>

(* work ends: "existing tasks may still finish or be interrupted"; a task, a Relay      *)
(* round or a queued run is written with a status that active_work_counts leaves out    *)
WriterEnds(w) ==
  /\ w \in rows
  /\ rows' = rows \ {w}
  /\ UNCHANGED <<window, cached, live, turns, gate, operator>>

TurnEnds(s) ==
  /\ live[s] # 0
  /\ live' = [live EXCEPT ![s] = 0]
  /\ UNCHANGED <<window, cached, turns, gate, rows, operator>>

(* the service hears of it: turn/completed *)
Heard(s) ==
  /\ live[s] = 0 /\ cached[s] = "running"
  /\ cached' = [cached EXCEPT ![s] = "idle"]
  /\ UNCHANGED <<window, live, turns, gate, rows, operator>>
-----------------------------------------------------------------------------
(* The operator *)

(* the freeze and the capture of what looks in flight, in one transaction *)
Freeze(at) ==
  /\ frozen' = TRUE /\ opened' = at
  /\ candidates' = candidates \cup {<<at, s>> : s \in {t \in Sessions : cached[t] = "running"}}
  /\ captured' = IF frozen THEN captured
                 ELSE {<<s, live[s]>> : s \in {t \in Sessions : cached[t] = "running"
                                                                /\ live[t] # 0}}
  /\ UNCHANGED <<service, operator>>

(* mutation: a new freeze takes up the opened_at of the cancelled window *)
BeginReused ==
  /\ probe = NoProbe /\ windows < MaxWindows
  /\ windows' = windows + 1
  /\ Freeze(IF opened # 0 THEN opened ELSE windows + 1)

(* begin_maintenance_window: an open window keeps its opened_at, a cancelled one not *)
Begin ==
  /\ probe = NoProbe /\ windows < MaxWindows
  /\ windows' = windows + 1
  /\ Freeze(IF frozen /\ opened # 0 THEN opened ELSE windows + 1)

(* cancel_maintenance_window *)
Cancel ==
  /\ probe = NoProbe /\ frozen
  /\ frozen' = FALSE /\ captured' = {}
  /\ UNCHANGED <<opened, windows, candidates, service, operator>>

(* mutation: a session is probed once *)
ProbeTargetsOnce == {s \in Sessions : cached[s] = "running" /\ verdict[<<opened, s>>] = "none"}

(* native_turn_probe_candidates: what looks in flight now, not what was captured *)
ProbeTargets == {s \in Sessions : cached[s] = "running"}

(* _probe_native_turns *)
StartProbe ==
  /\ probe = NoProbe /\ frozen
  /\ ProbeTargets # {}
  /\ probe' = [todo |-> ProbeTargets, at |-> opened]
  /\ UNCHANGED <<window, verdict, misses, service>>

(* an active or waiting turn, a known terminal status, or nothing that proves either *)
Verdict(s, answers) ==
  IF ~answers THEN "unknown" ELSE IF live[s] # 0 THEN "active" ELSE "terminal"

(* _record_native_turn_probes: one session is read and its verdict committed; a failed *)
(* read is recorded as unknown                                                         *)
ProbeSession(s, answers) ==
  /\ s \in probe.todo
  /\ ~answers => misses < MaxMisses
  /\ misses' = IF answers THEN misses ELSE misses + 1
  /\ verdict' = [verdict EXCEPT ![<<probe.at, s>>] = Verdict(s, answers)]
  /\ probe' = IF probe.todo = {s} THEN NoProbe ELSE [probe EXCEPT !.todo = @ \ {s}]
  /\ UNCHANGED <<window, service>>

Next ==
  \/ \E x \in Sessions \cup Writers : Submit(x) \/ Act(x) \/ GiveUp(x)
  \/ \E w \in Writers : WriterEnds(w)
  \/ \E s \in Sessions : TurnEnds(s) \/ Heard(s)
  \/ Begin \/ Cancel \/ StartProbe
  \/ \E s \in Sessions, answers \in BOOLEAN : ProbeSession(s, answers)

(* work in progress ends, a request that passed the gate goes on or fails; the manual  *)
(* has the operator probe until the status is ready or the window is cancelled, and a  *)
(* provider that is there answers                                                      *)
Fairness ==
  /\ \A x \in Sessions \cup Writers : WF_vars(Act(x) \/ GiveUp(x))
  /\ \A w \in Writers : WF_vars(WriterEnds(w))
  /\ \A s \in Sessions : WF_vars(TurnEnds(s)) /\ SF_vars(ProbeSession(s, TRUE))
  /\ SF_vars(StartProbe)

Spec == Init /\ [][Next]_vars /\ Fairness
-----------------------------------------------------------------------------
(* "ready" is not said too early: when apply or compact may run, every native turn     *)
(* that was captured at this window's freeze has ended at its provider, whatever was    *)
(* probed, answered or left unanswered in this and in cancelled windows before.         *)
ReadyMeansEnded == Ready => \A p \in captured : live[p[1]] # p[2]

(* captured, not seen terminal, and no longer a target of the probe *)
Unprobed == {s \in Sessions : <<opened, s>> \in candidates /\ verdict[<<opened, s>>] # "terminal"
                              /\ cached[s] = "idle"}

(* A drain ends: a window that is not cancelled becomes ready once its work is over,    *)
(* unless a captured session is stored as idle before a probe has seen it, which no     *)
(* later probe reads (native_turn_probe_candidates).                                    *)
DrainEnds == frozen ~> (Ready \/ ~frozen \/ Unprobed # {})
=============================================================================
