----------------------------- MODULE RelayCreate -----------------------------
(***************************************************************************)
(* Creating a Relay task over HTTP.  A request carries an idempotency key   *)
(* (wlcodex/relay/mutations.py); the client repeats it when the answer is   *)
(* lost.  Creation in a workspace is serialised by a lease                  *)
(* (wlcodex/relay/store.py) and, if tasks are active there, needs a         *)
(* decision of the user (wlcodex/relay/service.py): leave them running or   *)
(* interrupt them first, which awaits their providers.                      *)
(*                                                                          *)
(* One workspace, whose requests are handled by different worker processes: *)
(* within a process an asyncio.Lock serialises them already.  A handler may *)
(* die between any two commits.                                             *)
(***************************************************************************)
EXTENDS Naturals, Sequences, FiniteSets

CONSTANTS
    Requests,    \* request handlers
    Keys,        \* idempotency keys the clients use
    None,
    MaxTasks,    \* bound: tasks created
    MaxFaults,   \* bound: crashes
    MaxSlow      \* bound: interrupts that take longer than the lease

ASSUME CreateAssumption ==
    /\ None \notin Requests \cup Keys
    /\ MaxTasks \in Nat /\ MaxFaults \in Nat /\ MaxSlow \in Nat

VARIABLES
    mutations,  \* relay_mutation_idempotency, by key
    tasks,      \* team_runs in creation order
    lease,      \* relay_workspace_creation_leases: the row of the workspace
    request,    \* what each handler is doing
    faults,
    slow

vars == <<mutations, tasks, lease, request, faults, slow>>

MutationStatus == {"absent", "in_progress", "completed"}
Policy == {"none", "continue_background", "interrupt_active"}
Pc == {"idle", "lease", "observe", "interrupt", "create", "build", "bind", "repair",
       "dispatch"}

\* task: the bound task id, 0 if NULL.  policy stands for request_fingerprint: the
\* rest of a client's payload does not change between its retries.
Mutation == [status : MutationStatus, task : Nat, policy : Policy]
\* key: creation_idempotency_key of the goal; built: the role jobs, the first
\* round and the board exist as well.
Task == [key : Keys, active : BOOLEAN, built : BOOLEAN]
Request == [pc : Pc, key : Keys \cup {None}, policy : Policy, seen : SUBSET Nat, task : Nat]

Absent == [status |-> "absent", task |-> 0, policy |-> "none"]
NoLease == [owner |-> None, live |-> FALSE]
Idle == [pc |-> "idle", key |-> None, policy |-> "none", seen |-> {}, task |-> 0]

\* Rows and handlers have the shape of their tables.
TypeOK ==
    /\ mutations \in [Keys -> Mutation]
    /\ tasks \in Seq(Task)
    /\ lease \in [owner : Requests \cup {None}, live : BOOLEAN]
    /\ request \in [Requests -> Request]
    /\ faults \in Nat /\ slow \in Nat

-----------------------------------------------------------------------------
GoIdle(r) == request' = [request EXCEPT ![r] = Idle]

Goto(r, pc) == request' = [request EXCEPT ![r].pc = pc]

\* active_workspace_tasks_readonly.
ActiveTasks == {t \in DOMAIN tasks : tasks[t].active}

\* recover_task_create_binding looks for the key in the goals of the tasks.
Marked(k) == {t \in DOMAIN tasks : tasks[t].key = k}

\* abandon: only a row still in progress is deleted.
Abandon(k) ==
    mutations' = [mutations EXCEPT ![k] = IF @.status = "in_progress" THEN Absent ELSE @]

\* release_workspace_creation_lease.
ReleaseLease(r) == lease' = IF lease.owner = r THEN NoLease ELSE lease

BeginAt(r, pc, k, policy, t) ==
    request' = [request EXCEPT ![r] =
                  [pc |-> pc, key |-> k, policy |-> policy, seen |-> {}, task |-> t]]

\* claim, no row yet: the key is claimed and the request runs.
StartNew(r, k, policy) ==
    /\ mutations[k].status = "absent"
    /\ mutations' = [mutations EXCEPT ![k] =
                       [status |-> "in_progress", task |-> 0, policy |-> policy]]
    /\ BeginAt(r, "lease", k, policy, 0)

\* claim, the same request in progress with a task bound: its creation is resumed.
StartBound(r, k, policy) ==
    /\ mutations[k].status = "in_progress" /\ mutations[k].policy = policy
    /\ mutations[k].task # 0
    /\ BeginAt(r, "repair", k, policy, mutations[k].task)
    /\ UNCHANGED mutations

\* Variant: without the creation marker the task cannot be found again.
StartUnboundMissing(r, k, policy) == FALSE /\ UNCHANGED <<mutations, request>>

\* The same with no task bound: the newest task that carries the key is bound.
StartUnbound(r, k, policy) ==
    /\ mutations[k].status = "in_progress" /\ mutations[k].policy = policy
    /\ mutations[k].task = 0
    /\ \E t \in Marked(k) :
         /\ \A u \in Marked(k) : u <= t
         /\ mutations' = [mutations EXCEPT ![k].task = t]
         /\ BeginAt(r, "repair", k, policy, t)

\* Variant: a row in progress with no task is taken over, as if its handler were
\* surely dead and had created nothing.
StartTakesOver(r, k, policy) ==
    /\ request[r].pc = "idle"
    /\ \/ StartNew(r, k, policy)
       \/ StartBound(r, k, policy)
       \/ /\ mutations[k].status = "in_progress" /\ mutations[k].task = 0
          /\ BeginAt(r, "lease", k, policy, 0)
          /\ UNCHANGED mutations
    /\ UNCHANGED <<tasks, lease, faults, slow>>

\* begin_mutation("relay.task.create").  In every other case the client is answered
\* at once and nothing changes: the stored response of a completed mutation, a
\* conflict if the payload differs, or 409 "retry this same key shortly".
Start(r, k, policy) ==
    /\ request[r].pc = "idle"
    /\ StartNew(r, k, policy) \/ StartBound(r, k, policy) \/ StartUnbound(r, k, policy)
    /\ UNCHANGED <<tasks, lease, faults, slow>>

\* create_task_after_workspace_decision: the lease, or 409 (it is
\* held, or the database is busy) and the key is free again.
ClaimLease(r) ==
    /\ request[r].pc = "lease"
    /\ \/ /\ GoIdle(r) /\ Abandon(request[r].key)
          /\ UNCHANGED lease
       \/ /\ ~lease.live
          /\ lease' = [owner |-> r, live |-> TRUE]
          /\ Goto(r, "observe")
          /\ UNCHANGED mutations
    /\ UNCHANGED <<tasks, faults, slow>>

\* The request is refused: no decision about active tasks, tasks that could not
\* be interrupted, a closed maintenance gate, or a payload that is not valid.
Refuse(r) == GoIdle(r) /\ Abandon(request[r].key) /\ ReleaseLease(r)

Observe(r) ==
    /\ request[r].pc = "observe"
    /\ \/ /\ ActiveTasks # {} /\ request[r].policy = "none"
          /\ Refuse(r)
       \/ /\ ActiveTasks # {} /\ request[r].policy = "interrupt_active"
          /\ request' = [request EXCEPT ![r].pc = "interrupt", ![r].seen = ActiveTasks]
          /\ UNCHANGED <<mutations, lease>>
       \/ /\ ActiveTasks = {} \/ request[r].policy = "continue_background"
          /\ Goto(r, "create")
          /\ UNCHANGED <<mutations, lease>>
    /\ UNCHANGED <<tasks, faults, slow>>

\* Variant: tasks that did not stop are not looked for.
InterruptedUnchecked(r) ==
    /\ request[r].pc = "interrupt"
    /\ \E stopped \in SUBSET request[r].seen :
         tasks' = [t \in DOMAIN tasks |->
                     IF t \in stopped THEN [tasks[t] EXCEPT !.active = FALSE] ELSE tasks[t]]
    /\ Goto(r, "create")
    /\ UNCHANGED <<mutations, lease, faults, slow>>

\* The awaited interrupts: the observed tasks stop, or some do not, and then the
\* workspace is looked at again.
Interrupted(r) ==
    /\ request[r].pc = "interrupt"
    /\ \E stopped \in SUBSET request[r].seen :
         /\ tasks' = [t \in DOMAIN tasks |->
                        IF t \in stopped THEN [tasks[t] EXCEPT !.active = FALSE] ELSE tasks[t]]
         /\ \/ /\ ActiveTasks \ stopped # {}
               /\ Refuse(r)
            \/ /\ ActiveTasks \ stopped = {}
               /\ Goto(r, "create")
               /\ UNCHANGED <<mutations, lease>>
    /\ UNCHANGED <<faults, slow>>

\* create_task: the first durable record is the team run with the key.
Create(r) ==
    /\ request[r].pc = "create"
    /\ \/ /\ Len(tasks) < MaxTasks
          /\ tasks' = Append(tasks, [key |-> request[r].key, active |-> TRUE, built |-> FALSE])
          /\ request' = [request EXCEPT ![r].pc = "build", ![r].task = Len(tasks) + 1]
          /\ UNCHANGED <<mutations, lease>>
       \/ /\ Refuse(r)
          /\ UNCHANGED tasks
    /\ UNCHANGED <<faults, slow>>

\* The rest of create_task and the release of the lease in its finally clause.
Build(r) ==
    /\ request[r].pc = "build"
    /\ tasks' = [tasks EXCEPT ![request[r].task].built = TRUE]
    /\ ReleaseLease(r)
    /\ Goto(r, "bind")
    /\ UNCHANGED <<mutations, faults, slow>>

BindTask(r) ==
    /\ request[r].pc = "bind"
    /\ mutations' = [mutations EXCEPT ![request[r].key] =
         IF @.status = "in_progress" THEN [@ EXCEPT !.task = request[r].task] ELSE @]
    /\ Goto(r, "dispatch")
    /\ UNCHANGED <<tasks, lease, faults, slow>>

\* Variant: a task that was found is taken to be complete.
RepairNothing(r) ==
    /\ request[r].pc = "repair"
    /\ Goto(r, "dispatch")
    /\ UNCHANGED <<mutations, tasks, lease, faults, slow>>

\* recover_task_creation.
Repair(r) ==
    /\ request[r].pc = "repair"
    /\ tasks' = [tasks EXCEPT ![request[r].task].built = TRUE]
    /\ Goto(r, "dispatch")
    /\ UNCHANGED <<mutations, lease, faults, slow>>

\* The director is dispatched (RelayDispatch); whatever comes of it, the answer is
\* stored and sent.
Finish(r) ==
    /\ request[r].pc = "dispatch"
    /\ mutations' = [mutations EXCEPT ![request[r].key].status =
                       IF @ = "absent" THEN @ ELSE "completed"]
    /\ GoIdle(r)
    /\ UNCHANGED <<tasks, lease, faults, slow>>

Crash(r) ==
    /\ request[r].pc # "idle" /\ faults < MaxFaults
    /\ GoIdle(r)
    /\ faults' = faults + 1
    /\ UNCHANGED <<mutations, tasks, lease, slow>>

\* The lease's 300 seconds pass: its handler is gone, or still waits for providers.
ExpireLease ==
    /\ lease.live
    /\ \/ /\ request[lease.owner].pc \notin {"observe", "interrupt", "create", "build"}
          /\ UNCHANGED slow
       \/ /\ request[lease.owner].pc = "interrupt"
          /\ slow < MaxSlow /\ slow' = slow + 1
    /\ lease' = NoLease
    /\ UNCHANGED <<mutations, tasks, request, faults>>

\* A task ends by itself: its last role's output completes, blocks or fails it.
TaskEnds(t) ==
    /\ tasks[t].active /\ tasks[t].built
    /\ tasks' = [tasks EXCEPT ![t].active = FALSE]
    /\ UNCHANGED <<mutations, lease, request, faults, slow>>

-----------------------------------------------------------------------------
Init ==
    /\ mutations = [k \in Keys |-> Absent]
    /\ tasks = <<>>
    /\ lease = NoLease
    /\ request = [r \in Requests |-> Idle]
    /\ faults = 0 /\ slow = 0

Handle(r) ==
    \/ ClaimLease(r) \/ Observe(r) \/ Interrupted(r) \/ Create(r) \/ Build(r)
    \/ BindTask(r) \/ Repair(r) \/ Finish(r)

Next ==
    \/ \E r \in Requests : Handle(r) \/ Crash(r)
    \/ \E r \in Requests, k \in Keys, policy \in Policy : Start(r, k, policy)
    \/ ExpireLease
    \/ \E t \in DOMAIN tasks : TaskEnds(t)

\* A handler runs on; providers answer; a client repeats a request whose answer
\* never came, with the same key, as the API asks it to.
Fairness ==
    /\ \A r \in Requests : WF_vars(Handle(r))
    /\ WF_vars(ExpireLease)
    /\ \A k \in Keys : SF_vars(\E r \in Requests, policy \in Policy : Start(r, k, policy))

Spec == Init /\ [][Next]_vars
FairSpec == Spec /\ Fairness

-----------------------------------------------------------------------------
(* Properties *)

\* A key creates at most one task, however its request is repeated, refused,
\* interrupted by a crash or overtaken by its own retry.
OneTaskPerKey == \A k \in Keys : Cardinality(Marked(k)) <= 1

\* A stored success names a task that has its jobs, its round and its board,
\* although the handler that inserted it may have died before making them.
CompletedMeansBuilt ==
    \A k \in Keys : mutations[k].status = "completed" =>
        /\ mutations[k].task \in Marked(k)
        /\ tasks[mutations[k].task].built

\* "Create a task only after an explicit decision about existing work": unless the
\* user chose to leave other tasks running, none is active when one is created.
ParallelOnlyByChoice ==
    [][\A r \in Requests :
         (/\ request[r].pc = "create" /\ request'[r].pc = "build"
          /\ request[r].policy # "continue_background") => ActiveTasks = {}]_vars

\* Once the task is on disk, retrying the key ends in a stored success.
FoundTaskCompletes ==
    \A k \in Keys : Marked(k) # {} ~> mutations[k].status = "completed"
=============================================================================
