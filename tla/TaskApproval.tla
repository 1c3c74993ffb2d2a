---------------------------- MODULE TaskApproval ----------------------------
(***************************************************************************)
(* Approvals of Codex requests: the server requests that the JSON-RPC client *)
(* of wlcodex/jsonrpc.py holds open, the approval rows and the pending count *)
(* of wlcodex/db.py, the events that create them (task_service.py,           *)
(* event_bridge.py, runtime_projector.py) and the clicks that               *)
(* wlcodex/approval.py resolves, with connections that are lost and made     *)
(* again by wlcodex/codex_backend.py.                                        *)
(*                                                                         *)
(* A click on a live connection is resolved without an await that suspends;  *)
(* it waits only while it connects or interrupts a turn.                     *)
(***************************************************************************)
EXTENDS Naturals, Sequences, FiniteSets, SequencesExt

CONSTANTS
    Tasks,
    Rids,          \* request ids the app-server uses
    ReuseIds,      \* it may use an id again
    Overlap,       \* a task may ask during the prompt of another task's run
    Kinds,         \* kinds of approval that occur
    Buttons,       \* buttons that are pressed
    Handlers,      \* callbacks handled at once
    MaxAsked,      \* bound: server requests
    MaxClients,    \* bound: connections
    MaxLost        \* bound: connections lost

ASSUME ApprovalAssumption ==
    /\ ReuseIds \in BOOLEAN /\ Overlap \in BOOLEAN
    /\ Kinds \subseteq {"command", "file_change", "permissions"}
    /\ Buttons \subseteq {"approve_once", "approve_session", "deny", "cancel"}
    /\ MaxAsked \in Nat /\ MaxLost \in Nat /\ MaxClients \in Nat \ {0}

VARIABLES
    client,   \* CodexBackend._client, 0 if None
    alive,    \* clients whose receive loop runs
    made,     \* clients ever made
    asked,    \* the server requests, with the answer the app-server has got
    held,     \* JsonRpcClient._held_requests of each client
    sending,  \* resolved futures whose _send_held_response has not run yet
    events,   \* CodexBackend._bridge_event_queue
    rows,     \* approval_requests, unique by task and request id
    count,    \* tasks.pending_approval_count
    st,       \* tasks.status
    orch,     \* the tasks that a chief-engineer run drives
    prompts,  \* orchestrated tasks in send_codex_prompt: their runtime callback is set
    clicks    \* callback handlers that are waiting

vars == <<client, alive, made, asked, held, sending, events, rows, count, st, orch, prompts, clicks>>

Clients == 1..MaxClients
Asked   == 1..MaxAsked
Answers == {"approve", "deny", "cancel"}

\* What a row stores of its request: "bare" is a permissions request without the
\* permissions (command_json is '{}').
RowKinds   == Kinds \cup {"bare"}
Permission == {"permissions", "bare"}

\* build_approval_response and build_legacy_approval_response, by their effect: a
\* permission is refused, and cancelled, by granting none, and so is one that is
\* approved from a bare row.
AnswerOf(act, kind) ==
    IF act = "deny" \/ (act = "cancel" /\ kind \in Permission) \/ kind = "bare" THEN "deny"
    ELSE IF act = "cancel" THEN "cancel" ELSE "approve"
StatusOf(act) ==
    CASE act = "deny" -> "denied" [] act = "cancel" -> "cancelled" [] OTHER -> "approved"

NoRow == [st |-> "none", q |-> 0, kind |-> "", card |-> FALSE]
Idle  == [at |-> "idle"]

Request == [client : Clients, rid : Rids, task : Tasks, kind : Kinds,
            reply : {"open", "lost"} \cup Answers]
RowType == [st : {"pending", "approved", "denied", "cancelled"}, q : Asked, kind : RowKinds,
            card : BOOLEAN] \cup {NoRow}
\* connect: in websockets.connect; initialize: awaiting the handshake on client
\* c; interrupt: awaiting interrupt_turn.  todo: the requests still to be sent,
\* first the one of the button (own), then those of its batch.
Click == [at : {"connect", "initialize", "interrupt"}, t : Tasks, rid : Rids, act : Buttons,
          c : 0..MaxClients, own : BOOLEAN, todo : SUBSET Rids] \cup {Idle}
Event == [type : {"requested"}, q : Asked] \cup [type : {"resolved"}, rid : Rids, a : Answers]

\* Tables, futures and handlers are well typed; the count stays non-negative.
TypeOK ==
    /\ made \in 0..MaxClients /\ client \in 0..made /\ alive \in SUBSET (1..made)
    /\ asked \in Seq(Request) /\ Len(asked) <= MaxAsked
    /\ held \in [Clients -> [Rids -> 0..Len(asked)]]
    /\ sending \in SUBSET [q : 1..Len(asked), a : Answers]
    /\ \A i \in DOMAIN events : events[i] \in Event
    /\ rows \in [Tasks \X Rids -> RowType]
    /\ count \in [Tasks -> Nat]
    /\ st \in [Tasks -> {"running", "waiting_approval", "paused", "ended"}]
    /\ orch \in SUBSET Tasks /\ prompts \in SUBSET orch
    /\ clicks \in [Handlers -> Click]

\* A fresh process, connected, with its tasks running.
Init ==
    /\ client = 1 /\ alive = {1} /\ made = 1
    /\ asked = <<>> /\ sending = {}
    /\ held = [c \in Clients |-> [r \in Rids |-> 0]]
    /\ events = <<>>
    /\ rows = [p \in Tasks \X Rids |-> NoRow]
    /\ count = [t \in Tasks |-> 0]
    /\ st = [t \in Tasks |-> "running"]
    /\ orch \in SUBSET Tasks /\ prompts = {}
    /\ clicks = [h \in Handlers |-> Idle]

-----------------------------------------------------------------------------
(* The ledger.                                                               *)

Pending(R, t) == {r \in Rids : R[<<t, r>>].st = "pending"}

\* INSERT OR IGNORE: the row stays as it was first written.
Created(R, t, q, kind) ==
    IF R[<<t, asked'[q].rid>>].st # "none" THEN R
    ELSE [R EXCEPT ![<<t, asked'[q].rid>>] =
             [st |-> "pending", q |-> q, kind |-> kind, card |-> FALSE]]

\* Mutant: the update does not look at the status.
ResolvedAgain(R, P, status) ==
    [p \in DOMAIN R |-> IF p \in P /\ R[p].st # "none"
                        THEN [R[p] EXCEPT !.st = status] ELSE R[p]]

\* UPDATE ... WHERE status = 'pending', for the rows of the set P.
Resolved(R, P, status) ==
    [p \in DOMAIN R |-> IF p \in P /\ R[p].st = "pending"
                        THEN [R[p] EXCEPT !.st = status] ELSE R[p]]

\* The projector knows approved and denied only.
Projected(R, P, a) == Resolved(R, P, IF a = "approve" THEN "approved" ELSE "denied")

\* decrement_pending_approvals, n times
Decremented(t, n) == [count EXCEPT ![t] = IF @ > n THEN @ - n ELSE 0]

\* Mutant: the rows are read before they are resolved.
ReleasedStale(t, R) ==
    [st EXCEPT ![t] = IF @ = "waiting_approval" /\ Pending(rows, t) = {} THEN "running" ELSE @]

\* Back to running if the task waited and nothing is pending any more.
Released(t, R) ==
    [st EXCEPT ![t] = IF @ = "waiting_approval" /\ Pending(R, t) = {} THEN "running" ELSE @]

-----------------------------------------------------------------------------
(* Server requests.                                                          *)

\* receive_message: the request is held and its event emitted; a chief-engineer
\* run that is awaiting a prompt records it at once, as its own, and the projector
\* drops the permissions it asks for.
Ask(c, t, r, k) ==
    LET q == Len(asked) + 1 IN
    /\ c \in alive /\ q \in Asked
    /\ ReuseIds \/ \A i \in DOMAIN asked : asked[i].rid # r
    /\ Overlap \/ prompts \subseteq {t}
    /\ asked' = Append(asked, [client |-> c, rid |-> r, task |-> t, kind |-> k, reply |-> "open"])
    /\ held' = [held EXCEPT ![c][r] = q]
    /\ events' = Append(events, [type |-> "requested", q |-> q])
    /\ rows' = [p \in DOMAIN rows |->
                   IF p[1] \in prompts /\ p[2] = r
                   THEN Created(rows, p[1], q, IF k = "permissions" THEN "bare" ELSE k)[p]
                   ELSE rows[p]]
    /\ UNCHANGED <<client, alive, made, sending, count, st, orch, prompts, clicks>>

\* apply_backend_event and _on_approval_requested: the row, the count, the
\* status, and the card with its buttons.  (A card that is not delivered, or
\* whose approval is superseded, is one that nobody presses to any effect.)
RequestProcessed ==
    LET q == Head(events).q
        t == asked[q].task
        r == asked[q].rid
        R == Created(rows, t, q, asked[q].kind)
    IN  /\ events # <<>> /\ Head(events).type = "requested"
        /\ events' = Tail(events)
        /\ UNCHANGED asked
        /\ count' = [count EXCEPT ![t] = IF rows[<<t, r>>].st = "none" THEN @ + 1 ELSE @]
        /\ st' = [st EXCEPT ![t] = IF @ \in {"paused", "ended"} THEN @ ELSE "waiting_approval"]
        /\ rows' = [R EXCEPT ![<<t, r>>].card = st[t] # "ended" \/ @]
        /\ UNCHANGED <<client, alive, made, held, sending, orch, prompts, clicks>>

\* approval_resolved of a task without a run: recorded on the last row with that
\* request id, whichever task it belongs to.
ResolutionProcessed ==
    LET ev  == Head(events)
        S   == {p \in Tasks \X {ev.rid} : rows[p].st # "none"}
        row == CHOOSE p \in S : \A o \in S : rows[o].q <= rows[p].q
    IN  /\ events # <<>> /\ Head(events).type = "resolved"
        /\ events' = Tail(events)
        /\ rows' = IF S = {} \/ row[1] \in orch THEN rows
                   ELSE Projected(rows, {row}, ev.a)
        /\ UNCHANGED <<client, alive, made, asked, held, sending, count, st, orch, prompts, clicks>>

\* _send_held_response, whose last statement drops the id once more.
SendReply(s) ==
    LET q == asked[s.q] IN
    /\ s \in sending
    /\ sending' = sending \ {s}
    /\ asked' = [asked EXCEPT ![s.q].reply = s.a]
    /\ held' = [held EXCEPT ![q.client][q.rid] = 0]
    /\ UNCHANGED <<client, alive, made, events, rows, count, st, orch, prompts, clicks>>

\* The receive loop of c ends: close() cancels what it holds and the handshakes
\* on it; _client is reset even if it is another client by now.
ConnectionLost(c) ==
    /\ c \in alive /\ made - Cardinality(alive) < MaxLost
    /\ alive' = alive \ {c} /\ client' = 0
    /\ asked' = [i \in DOMAIN asked |-> IF asked[i].client = c /\ asked[i].reply = "open"
                                        THEN [asked[i] EXCEPT !.reply = "lost"] ELSE asked[i]]
    /\ held' = [held EXCEPT ![c] = [r \in Rids |-> 0]]
    /\ sending' = {s \in sending : asked[s.q].client # c}
    /\ clicks' = [h \in Handlers |->
                     IF clicks[h].at \in {"initialize", "interrupt"} /\ clicks[h].c = c
                     THEN Idle ELSE clicks[h]]
    /\ UNCHANGED <<made, events, rows, count, st, orch, prompts>>

-----------------------------------------------------------------------------
(* resolve_callback.                                                         *)

\* Mutant: the row is resolved but the future is not.
SentNowhere(M, k) ==
    /\ UNCHANGED <<held, sending, events>>
    /\ rows' = Resolved(rows, {k.t} \X {m[2] : m \in M}, StatusOf(k.act))

\* backend.resolve_approval for the requests of M, pairs of a client and an id:
\* the futures are resolved, the event is emitted, the rows are resolved.  (A batch
\* is of commands only, like the row that was clicked: they have one answer.)
Sent(M, k) ==
    LET a    == AnswerOf(k.act, rows[<<k.t, k.rid>>].kind)
        ids  == {m[2] : m \in M}
        hits == {held[m[1]][m[2]] : m \in M} \ {0}
        emit == SetToSeq({[type |-> "resolved", rid |-> r, a |-> a] : r \in ids})
    IN  /\ held' = [c \in Clients |->
                       [r \in Rids |-> IF <<c, r>> \in M THEN 0 ELSE held[c][r]]]
        /\ sending' = sending \cup {[q |-> q, a |-> a] : q \in hits}
        /\ events' = events \o emit
        /\ rows' = Resolved(Projected(rows, prompts \X ids, a), {k.t} \X ids, StatusOf(k.act))

\* The other pending commands, which a session approval releases too.
Batch(k) ==
    IF k.act = "approve_session" /\ rows[<<k.t, k.rid>>].kind = "command"
    THEN {r \in Pending(rows, k.t) \ {k.rid} : rows[<<k.t, r>>].kind = "command"}
    ELSE {}

\* One request is sent on client c and the rest on the current client, which
\* suspends only if there is none.  A cancelled permission also interrupts the
\* turn, if there is one, before the count and the status are touched.
Resolve(h, k, c) ==
    \E r \in k.todo :
        LET rest == IF k.own THEN Batch(k) ELSE k.todo \ {r}
            now  == IF client = 0 THEN {} ELSE rest
        IN  /\ Sent({<<c, r>>} \cup ({client} \X now), k)
            /\ \/ /\ k.act = "cancel" /\ rows[<<k.t, k.rid>>].kind \in Permission
                  /\ clicks' = [clicks EXCEPT ![h] = [k EXCEPT !.at = "interrupt", !.c = client]]
                  /\ UNCHANGED <<count, st>>
               \/ /\ count' = Decremented(k.t, 1 + Cardinality(now))
                  /\ IF rest = now
                     THEN clicks' = [clicks EXCEPT ![h] = Idle] /\ st' = Released(k.t, rows')
                     ELSE /\ clicks' = [clicks EXCEPT ![h] =
                                          [k EXCEPT !.at = "connect", !.own = FALSE, !.todo = rest]]
                          /\ UNCHANGED st
            /\ UNCHANGED <<client, alive, made, asked, orch, prompts>>

\* A button is pressed: an approval of an ended task is cancelled, one already
\* resolved is left alone, a pending one is sent.
Press(h, t, r, act) ==
    LET k == [at |-> "connect", t |-> t, rid |-> r, act |-> act, c |-> 0,
          own |-> TRUE, todo |-> {r}] IN
    /\ clicks[h] = Idle /\ rows[<<t, r>>].card
    /\ \/ /\ st[t] = "ended"
          /\ rows' = Resolved(rows, {<<t, r>>}, "cancelled")
          /\ count' = Decremented(t, 1)
          /\ UNCHANGED <<client, alive, made, asked, held, sending, events, st, orch, prompts, clicks>>
       \/ /\ st[t] # "ended" /\ rows[<<t, r>>].st = "pending" /\ client # 0
          /\ Resolve(h, k, client)
       \/ /\ st[t] # "ended" /\ rows[<<t, r>>].st = "pending" /\ client = 0
          /\ clicks' = [clicks EXCEPT ![h] = k]
          /\ UNCHANGED <<client, alive, made, asked, held, sending, events, rows, count, st, orch, prompts>>

\* _ensure_client: two handlers that found no client both connect.
Connected(h) ==
    /\ clicks[h].at = "connect" /\ made < MaxClients
    /\ made' = made + 1 /\ client' = made + 1 /\ alive' = alive \cup {made + 1}
    /\ clicks' = [clicks EXCEPT ![h].at = "initialize", ![h].c = made + 1]
    /\ UNCHANGED <<asked, held, sending, events, rows, count, st, orch, prompts>>

\* Another handler may have replaced the client meanwhile.
Initialized(h) == clicks[h].at = "initialize" /\ Resolve(h, clicks[h], clicks[h].c)

\* Connecting or initializing fails: the error is noted, the row stays pending
\* and a batch goes on with the next.
SendFails(h) ==
    LET k == clicks[h] IN
    /\ k.at \in {"connect", "initialize"}
    /\ IF k.own THEN clicks' = [clicks EXCEPT ![h] = Idle] /\ UNCHANGED st
       ELSE \E r \in k.todo :
              IF k.todo = {r}
              THEN clicks' = [clicks EXCEPT ![h] = Idle] /\ st' = Released(k.t, rows)
              ELSE /\ clicks' = [clicks EXCEPT ![h] = [k EXCEPT !.at = "connect", !.todo = @ \ {r}]]
                   /\ UNCHANGED st
    /\ UNCHANGED <<client, alive, made, asked, held, sending, events, rows, count, orch, prompts>>

\* interrupt_turn answers or fails.
Interrupted(h) ==
    LET k == clicks[h] IN
    /\ k.at = "interrupt"
    /\ clicks' = [clicks EXCEPT ![h] = Idle]
    /\ count' = Decremented(k.t, 1)
    /\ st' = Released(k.t, rows)
    /\ UNCHANGED <<client, alive, made, asked, held, sending, events, rows, orch, prompts>>

-----------------------------------------------------------------------------
(* The tasks around them (TaskService), as far as the status is concerned.   *)

TurnCompleted(t) ==
    /\ st[t] # "ended"
    /\ st' = [st EXCEPT ![t] = IF Pending(rows, t) # {}
                               THEN IF @ = "paused" THEN @ ELSE "waiting_approval"
                               ELSE IF t \in orch THEN "running" ELSE "ended"]
    /\ UNCHANGED <<client, alive, made, asked, held, sending, events, rows, count, orch, prompts, clicks>>

TaskMoves(t, to) ==
    /\ \/ to = "ended"
       \/ to = "paused" /\ st[t] \in {"running", "waiting_approval"}
       \/ to = "running" /\ st[t] \in {"paused", "ended"}
    /\ st' = [st EXCEPT ![t] = to]
    /\ UNCHANGED <<client, alive, made, asked, held, sending, events, rows, count, orch, prompts, clicks>>

PromptStarts(t) ==
    /\ t \in orch \ prompts /\ prompts' = prompts \cup {t}
    /\ UNCHANGED <<client, alive, made, asked, held, sending, events, rows, count, st, orch, clicks>>

PromptEnds(t) ==
    /\ t \in prompts /\ prompts' = prompts \ {t}
    /\ UNCHANGED <<client, alive, made, asked, held, sending, events, rows, count, st, orch, clicks>>

-----------------------------------------------------------------------------
Server ==
    \/ \E c \in Clients, t \in Tasks, r \in Rids, k \in Kinds : Ask(c, t, r, k)
    \/ \E s \in sending : SendReply(s)
    \/ \E c \in Clients : ConnectionLost(c)

Bridge == RequestProcessed \/ ResolutionProcessed

User ==
    \E h \in Handlers, t \in Tasks, r \in Rids, act \in Buttons : Press(h, t, r, act)

Handler == \E h \in Handlers : Connected(h) \/ Initialized(h) \/ SendFails(h) \/ Interrupted(h)

Task ==
    \/ \E t \in Tasks : TurnCompleted(t) \/ PromptStarts(t) \/ PromptEnds(t)
    \/ \E t \in Tasks, to \in {"running", "paused", "ended"} : TaskMoves(t, to)

Next == Server \/ Bridge \/ User \/ Handler \/ Task

Spec == Init /\ [][Next]_vars

-----------------------------------------------------------------------------
ReplyTo(q)   == IF q \in DOMAIN asked THEN asked[q].reply ELSE "none"

\* An approval of a bare row grants nothing: it is void.
Ruling(row) == IF row.st = "approved" /\ row.kind = "bare" THEN "void" ELSE row.st

VerdictOf(q) ==
    IF q \notin DOMAIN asked THEN "none"
    ELSE LET row == rows[<<asked[q].task, asked[q].rid>>]
         IN  IF row.q # q \/ row.st \in {"none", "pending"} THEN "none" ELSE Ruling(row)

Promise == INSTANCE ApprovalPromise
    WITH Requests <- Asked,
         reply    <- [q \in Asked |-> ReplyTo(q)],
         verdict  <- [q \in Asked |-> VerdictOf(q)]

\* With request ids that are not used twice and prompts that do not overlap
\* with another task's requests, the flow of clicks, batches, lost
\* connections and concurrent handlers implements ApprovalPromise: the
\* app-server gets at most one answer to a request, and it is the decision that
\* resolve_callback recorded for this request, once and for all; only an approval
\* of a bare row, and no other, is answered with a refusal.
KeepsPromise == Promise!Spec

\* A decision is on record only if its request is no longer held: as long as the
\* client that asked is the current one, the answer has been sent or is on its
\* way (resolve_callback sends before it records).
DecisionReaches ==
    \A t \in Tasks, r \in Rids :
        LET row == rows[<<t, r>>] IN
        /\ row.st \in {"approved", "denied"}
        /\ asked[row.q].task = t /\ asked[row.q].client = client
        => asked[row.q].reply # "open" \/ \E s \in sending : s.q = row.q

\* A task without a run that waits for an approval has one that is pending:
\* otherwise no click could ever release it, and the watchdog has no limit for
\* this status.  (Two handlers leave it waiting for ever when they are cut off: that
\* of a cancelled permission in interrupt_turn, and that of a session approval
\* when it connects again between the second and the third request of its batch.)
WaitingHasPending ==
    \A t \in Tasks \ orch :
        /\ st[t] = "waiting_approval"
        /\ \A r \in Rids : rows[<<t, r>>].kind \notin Permission
        /\ \E r1, r2 \in Rids : \A r \in Rids : rows[<<t, r>>].st # "none" => r \in {r1, r2}
        => Pending(rows, t) # {}

\* An answer that reaches the app-server is a decision about this request: not
\* about one of the same id, nor about the batch of another task
\* (_approve_pending_command_batch).
AnswersOwnRequest ==
    \A q \in DOMAIN asked : asked[q].reply \in Answers =>
        Promise!Means(asked[q].reply, VerdictOf(q))
=============================================================================
