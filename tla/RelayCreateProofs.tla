-------------------------- MODULE RelayCreateProofs --------------------------
(***************************************************************************)
(* Proofs about RelayCreate for every number of handlers, keys and crashes: *)
(* one task per key, complete tasks behind stored successes and, while no   *)
(* interrupt outlasts the creation lease, no parallel task without a choice.*)
(***************************************************************************)
EXTENDS RelayCreate, FiniteSetTheorems, TLAPS

\* A handler that has claimed its key and created nothing yet, one whose task is
\* on disk, and one inside create_task_after_workspace_decision.
Fresh == {"lease", "observe", "interrupt", "create"}
Made  == {"build", "bind", "repair", "dispatch"}
Held  == {"observe", "interrupt", "create", "build"}

\* What a handler may rely on about its key.
HandlerInv ==
    \A r \in Requests :
        /\ request[r].pc # "idle" => request[r].key \in Keys
        /\ request[r].pc \in Fresh =>
             /\ mutations[request[r].key].status = "in_progress"
             /\ mutations[request[r].key].task = 0
             /\ Marked(request[r].key) = {}
        /\ request[r].pc \in Made => request[r].task \in Marked(request[r].key)
        /\ request[r].pc \in {"bind", "dispatch"} => tasks[request[r].task].built
        /\ request[r].pc \in {"repair", "dispatch"} => mutations[request[r].key].task # 0

\* The claim of a key is exclusive until its task exists.
FreshInv ==
    \A r, s \in Requests :
        (request[r].pc \in Fresh /\ request[s].pc \in Fresh
         /\ request[r].key = request[s].key) => r = s

\* A deleted row has no task behind it, a bound task carries its key.
RowInv ==
    \A k \in Keys :
        /\ mutations[k].status = "absent" => Marked(k) = {}
        /\ mutations[k].task # 0 => mutations[k].task \in Marked(k)

UniqueInv == \A t, u \in DOMAIN tasks : tasks[t].key = tasks[u].key => t = u

CreateInv ==
    /\ TypeOK /\ HandlerInv /\ FreshInv /\ RowInv /\ UniqueInv /\ CompletedMeansBuilt

-----------------------------------------------------------------------------
(* Facts about the tasks *)

\* Keys of tasks never change: what carries a key only depends on the keys.
LEMMA MarkedSame ==
    ASSUME DOMAIN tasks' = DOMAIN tasks,
           \A t \in DOMAIN tasks : tasks'[t].key = tasks[t].key
    PROVE  /\ \A k \in Keys : Marked(k)' = Marked(k)
           /\ \A k \in Keys : {t \in DOMAIN tasks' : tasks'[t].key = k} = Marked(k)
  BY DEF Marked

\* A step that neither creates a task nor takes one apart.
Kept ==
    /\ tasks' \in Seq(Task)
    /\ DOMAIN tasks' = DOMAIN tasks
    /\ \A t \in DOMAIN tasks : /\ tasks'[t].key = tasks[t].key
                               /\ tasks[t].built => tasks'[t].built

\* Leaving the tasks alone is such a step.
LEMMA SameKept == ASSUME TypeOK, UNCHANGED tasks PROVE Kept
  BY DEF Kept, TypeOK

\* So is completing the records of one task.
LEMMA BuildKept ==
    ASSUME TypeOK, NEW t \in DOMAIN tasks,
           tasks' = [tasks EXCEPT ![t].built = TRUE]
    PROVE  Kept /\ tasks'[t].built
<1>1. tasks \in [1 .. Len(tasks) -> Task] /\ Len(tasks) \in Nat /\ DOMAIN tasks = 1 .. Len(tasks)
  BY DEF TypeOK
<1>2. tasks' \in [1 .. Len(tasks) -> Task]
  BY <1>1 DEF Task
<1>3. tasks' \in Seq(Task)
  BY <1>1, <1>2
<1>4. \A u \in DOMAIN tasks : /\ tasks'[u].key = tasks[u].key
                              /\ tasks[u].built => tasks'[u].built
  BY <1>1 DEF Task
<1>5. tasks'[t].built
  BY <1>1 DEF Task
<1> QED BY <1>1, <1>2, <1>3, <1>4, <1>5 DEF Kept

\* And the end of some tasks.
LEMMA StopKept ==
    ASSUME TypeOK, NEW S,
           tasks' = [t \in DOMAIN tasks |->
                       IF t \in S THEN [tasks[t] EXCEPT !.active = FALSE] ELSE tasks[t]]
    PROVE  Kept
<1>1. tasks \in [1 .. Len(tasks) -> Task] /\ Len(tasks) \in Nat /\ DOMAIN tasks = 1 .. Len(tasks)
  BY DEF TypeOK
<1>2. tasks' \in [1 .. Len(tasks) -> Task]
  BY <1>1 DEF Task
<1>3. tasks' \in Seq(Task)
  BY <1>1, <1>2
<1>4. \A u \in DOMAIN tasks : /\ tasks'[u].key = tasks[u].key
                              /\ tasks[u].built => tasks'[u].built
  BY <1>1 DEF Task
<1> QED BY <1>1, <1>2, <1>3, <1>4 DEF Kept

\* Steps that keep the tasks leave UniqueInv alone.
LEMMA KeptUnique == ASSUME UniqueInv, Kept PROVE UniqueInv'
  BY DEF UniqueInv, Kept

-----------------------------------------------------------------------------
(* Steps of one handler *)

\* The general shape of a step that keeps the tasks: handler r continues as q and
\* at most the row of key k changes, to m.  What q and m have to satisfy.
ContinuesAs(r, q) ==
    /\ request' = [request EXCEPT ![r] = q]
    /\ q.pc # "idle" => q.key \in Keys
    /\ q.pc \in Fresh =>
         /\ mutations'[q.key].status = "in_progress" /\ mutations'[q.key].task = 0
         /\ Marked(q.key) = {}
         /\ \A s \in Requests \ {r} : ~(request[s].pc \in Fresh /\ request[s].key = q.key)
    /\ q.pc \in Made => q.task \in Marked(q.key)
    /\ q.pc \in {"bind", "dispatch"} => tasks'[q.task].built
    /\ q.pc \in {"repair", "dispatch"} => mutations'[q.key].task # 0

RowBecomes(r, k, m) ==
    /\ mutations' = [mutations EXCEPT ![k] = m]
    /\ m # mutations[k] =>
         \A s \in Requests \ {r} : request[s].key = k => request[s].pc \notin Fresh
    /\ m.task = 0 => m = mutations[k] \/ Marked(k) = {}
    /\ m.status = "absent" => Marked(k) = {}
    /\ m.task # 0 => m.task \in Marked(k)
    /\ m.status = "completed" => m.task \in Marked(k) /\ tasks'[m.task].built

\* The lease and the fault counters stay what they are.
RestTyped ==
    /\ lease' \in [owner : Requests \cup {None}, live : BOOLEAN]
    /\ faults' \in Nat /\ slow' \in Nat

\* Such a step preserves the invariant.
LEMMA HandlerStep ==
    ASSUME CreateInv, Kept, RestTyped,
           NEW r \in Requests, NEW q \in Request, NEW k \in Keys, NEW m \in Mutation,
           ContinuesAs(r, q), RowBecomes(r, k, m)
    PROVE  CreateInv'
<1> USE DEF ContinuesAs, RowBecomes, RestTyped
<1> USE DEF CreateInv
<1> DEFINE M(j) == {t \in DOMAIN tasks' : tasks'[t].key = j}
<1>1. \A j \in Keys : Marked(j)' = Marked(j) /\ M(j) = Marked(j)
  BY MarkedSame DEF Kept
<1>2. /\ request \in [Requests -> Request] /\ mutations \in [Keys -> Mutation]
      /\ request' \in [Requests -> Request] /\ mutations' \in [Keys -> Mutation]
  BY DEF TypeOK
<1>3. TypeOK'
  BY <1>2 DEF TypeOK, Kept
<1>4. /\ request'[r] = q /\ mutations'[k] = m
      /\ \A s \in Requests \ {r} : request'[s] = request[s]
      /\ \A j \in Keys \ {k} : mutations'[j] = mutations[j]
  BY <1>2
<1>5. \A j \in Keys : \A t \in Marked(j) : tasks[t].built => tasks'[t].built
  BY DEF Marked, Kept
<1>6. HandlerInv'
  <2> SUFFICES ASSUME NEW s \in Requests
               PROVE  /\ request'[s].pc # "idle" => request'[s].key \in Keys
                      /\ request'[s].pc \in Fresh =>
                           /\ mutations'[request'[s].key].status = "in_progress"
                           /\ mutations'[request'[s].key].task = 0
                           /\ M(request'[s].key) = {}
                      /\ request'[s].pc \in Made => request'[s].task \in M(request'[s].key)
                      /\ request'[s].pc \in {"bind", "dispatch"} => tasks'[request'[s].task].built
                      /\ request'[s].pc \in {"repair", "dispatch"} => mutations'[request'[s].key].task # 0
    BY DEF HandlerInv, Marked
  <2> HIDE DEF M
  <2>1. CASE s = r
    BY <2>1, <1>1, <1>4 DEF Fresh, Made
  <2>2. CASE s # r
    <3> DEFINE h == request[s]
    <3>1. request'[s] = h
      BY <2>2, <1>4
    <3>2. h.pc # "idle" => h.key \in Keys
      BY DEF HandlerInv
    <3>3. h.pc \in Fresh => /\ mutations[h.key].status = "in_progress"
                            /\ mutations[h.key].task = 0 /\ Marked(h.key) = {}
      BY DEF HandlerInv
    <3>4. h.pc \in Made => h.task \in Marked(h.key)
      BY DEF HandlerInv
    <3>5. h.pc \in {"bind", "dispatch"} => tasks[h.task].built
      BY DEF HandlerInv
    <3>6. h.pc \in {"repair", "dispatch"} => mutations[h.key].task # 0
      BY DEF HandlerInv
    <3>7. h.pc \in Fresh => mutations'[h.key] = mutations[h.key]
      BY <2>2, <3>2, <1>4 DEF Fresh
    <3>8. h.pc \in {"repair", "dispatch"} => mutations'[h.key].task # 0
      BY <3>2, <3>4, <3>6, <1>4 DEF Made
    <3>9. h.pc \in {"bind", "dispatch"} => tasks'[h.task].built
      BY <3>2, <3>4, <3>5, <1>5 DEF Made
    <3>10. h.pc \in Fresh => h.key \in Keys
      BY <3>2 DEF Fresh
    <3>11. h.pc \in Made => h.key \in Keys
      BY <3>2 DEF Made
    <3> HIDE DEF h
    <3> QED BY <3>1, <3>2, <3>3, <3>4, <3>7, <3>8, <3>9, <3>10, <3>11, <1>1
  <2> QED BY <2>1, <2>2
<1>7. FreshInv'
  BY <1>4 DEF FreshInv
<1>8. RowInv'
  BY <1>1, <1>4 DEF RowInv
<1>9. UniqueInv'
  BY KeptUnique
<1>10. CompletedMeansBuilt'
  BY <1>1, <1>4, <1>5 DEF CompletedMeansBuilt
<1> QED BY <1>3, <1>6, <1>7, <1>8, <1>9, <1>10

\* Facts about one handler and its key that every step below starts from.
LEMMA HandlerFacts ==
    ASSUME CreateInv, NEW r \in Requests
    PROVE  /\ request[r] \in Request /\ Idle \in Request /\ Absent \in Mutation
           /\ NoLease \in [owner : Requests \cup {None}, live : BOOLEAN]
           /\ lease \in [owner : Requests \cup {None}, live : BOOLEAN]
           /\ faults \in Nat /\ slow \in Nat
           /\ request \in [Requests -> Request] /\ mutations \in [Keys -> Mutation]
           /\ request[r].pc # "idle" => request[r].key \in Keys
           /\ request[r].pc \in Fresh =>
                /\ mutations[request[r].key].status = "in_progress"
                /\ mutations[request[r].key].task = 0
                /\ Marked(request[r].key) = {}
                /\ \A s \in Requests \ {r} :
                     ~(request[s].pc \in Fresh /\ request[s].key = request[r].key)
           /\ request[r].pc \in Made => request[r].task \in Marked(request[r].key)
           /\ request[r].pc \in {"bind", "dispatch"} => tasks[request[r].task].built
           /\ request[r].pc \in {"repair", "dispatch"} => mutations[request[r].key].task # 0
<1>1. /\ request[r] \in Request /\ request \in [Requests -> Request]
      /\ mutations \in [Keys -> Mutation] /\ faults \in Nat /\ slow \in Nat
      /\ lease \in [owner : Requests \cup {None}, live : BOOLEAN]
  BY DEF CreateInv, TypeOK
<1>2. Idle \in Request /\ Absent \in Mutation
      /\ NoLease \in [owner : Requests \cup {None}, live : BOOLEAN]
  BY DEF Idle, Request, Absent, Mutation, NoLease, Pc, Policy, MutationStatus
<1>3. \A s \in Requests \ {r} :
        request[r].pc \in Fresh => ~(request[s].pc \in Fresh /\ request[s].key = request[r].key)
  BY DEF CreateInv, FreshInv
<1> QED BY <1>1, <1>2, <1>3 DEF CreateInv, HandlerInv

\* A row in use has its task, if it is bound, among those that carry the key.
LEMMA RowFacts ==
    ASSUME CreateInv, NEW k \in Keys
    PROVE  /\ mutations[k] \in Mutation
           /\ mutations[k].status = "absent" => Marked(k) = {}
           /\ mutations[k].task # 0 => mutations[k].task \in Marked(k)
           /\ mutations[k].status = "completed" =>
                mutations[k].task \in Marked(k) /\ tasks[mutations[k].task].built
  BY DEF CreateInv, TypeOK, RowInv, CompletedMeansBuilt

\* A key that is free, bound or has a task is nobody's fresh claim.
LEMMA NotFresh ==
    ASSUME CreateInv, NEW k \in Keys,
           mutations[k].status # "in_progress" \/ mutations[k].task # 0 \/ Marked(k) # {},
           NEW s \in Requests, request[s].key = k
    PROVE  request[s].pc \notin Fresh
  BY HandlerFacts

\* Leaving the row alone is always allowed.
LEMMA SameRow ==
    ASSUME CreateInv, Kept, UNCHANGED mutations, NEW r \in Requests, NEW k \in Keys
    PROVE  mutations[k] \in Mutation /\ RowBecomes(r, k, mutations[k])
<1>1. \A t \in Marked(k) : tasks[t].built => tasks'[t].built
  BY DEF Marked, Kept
<1>2. mutations \in [Keys -> Mutation]
  BY DEF CreateInv, TypeOK
<1> QED BY <1>1, <1>2, RowFacts DEF RowBecomes

\* A handler goes on without touching its row.
LEMMA SameRowStep ==
    ASSUME CreateInv, Kept, RestTyped, UNCHANGED mutations,
           NEW r \in Requests, NEW q \in Request,
           request' = [request EXCEPT ![r] = q],
           q.pc # "idle", q.key \in Keys,
           q.pc \in Fresh => request[r].pc \in Fresh /\ request[r].key = q.key,
           q.pc \in Made => q.task \in Marked(q.key),
           q.pc \in {"bind", "dispatch"} => tasks'[q.task].built,
           q.pc \in {"repair", "dispatch"} => mutations[q.key].task # 0
    PROVE  CreateInv'
<1>1. mutations[q.key] \in Mutation /\ RowBecomes(r, q.key, mutations[q.key])
  BY SameRow
<1>2. q.pc \in Fresh =>
        /\ mutations[q.key].status = "in_progress" /\ mutations[q.key].task = 0
        /\ Marked(q.key) = {}
        /\ \A s \in Requests \ {r} : ~(request[s].pc \in Fresh /\ request[s].key = q.key)
  BY HandlerFacts
<1>3. ContinuesAs(r, q)
  BY <1>2 DEF ContinuesAs
<1> QED BY <1>1, <1>3, HandlerStep

\* A handler that ends has nothing left to rely on.
LEMMA IdleContinues ==
    ASSUME NEW r \in Requests, GoIdle(r)
    PROVE  ContinuesAs(r, Idle)
  BY DEF GoIdle, ContinuesAs, Idle, Fresh, Made

\* A handler ends without touching its row: it crashed.
LEMMA IdleStep ==
    ASSUME CreateInv, Kept, RestTyped, UNCHANGED mutations, NEW r \in Requests, GoIdle(r),
           request[r].pc # "idle"
    PROVE  CreateInv'
<1>1. request[r].key \in Keys /\ Idle \in Request
  BY HandlerFacts
<1> QED BY <1>1, SameRow, IdleContinues, HandlerStep

\* A handler that has created nothing gives up: its key is free again.
LEMMA AbandonStep ==
    ASSUME CreateInv, Kept, RestTyped, NEW r \in Requests, request[r].pc \in Fresh,
           GoIdle(r), Abandon(request[r].key)
    PROVE  CreateInv'
<1> DEFINE k == request[r].key
<1>1. request[r].pc # "idle"
  BY DEF Fresh
<1>2. /\ k \in Keys /\ Idle \in Request /\ Absent \in Mutation /\ Marked(k) = {}
      /\ mutations[k].status = "in_progress" /\ mutations \in [Keys -> Mutation]
      /\ \A s \in Requests \ {r} : request[s].key = k => request[s].pc \notin Fresh
  BY <1>1, HandlerFacts
<1>3. RowBecomes(r, k, Absent)
  BY <1>2 DEF Abandon, RowBecomes, Absent
<1> QED BY <1>2, <1>3, IdleContinues, HandlerStep

-----------------------------------------------------------------------------
(* The actions *)

\* Nothing exists at the start.
LEMMA InitInv == Init => CreateInv
<1> SUFFICES ASSUME Init PROVE CreateInv
  OBVIOUS
<1>1. TypeOK
  BY DEF Init, TypeOK, Absent, Mutation, NoLease, Idle, Request, Pc, Policy, MutationStatus, Task
<1>2. tasks = <<>> /\ DOMAIN tasks = {}
  BY DEF Init
<1>3. \A k \in Keys : Marked(k) = {}
  BY <1>2 DEF Marked
<1>4. HandlerInv /\ FreshInv
  BY DEF Init, Idle, HandlerInv, FreshInv, Fresh, Made
<1>5. RowInv /\ CompletedMeansBuilt
  BY <1>3 DEF Init, Absent, RowInv, CompletedMeansBuilt
<1> QED BY <1>1, <1>2, <1>4, <1>5 DEF CreateInv, UniqueInv

\* begin_mutation: a free key, a bound key, or a key whose task is found.
LEMMA StartStep ==
    ASSUME CreateInv, NEW r \in Requests, NEW k \in Keys, NEW policy \in Policy,
           Start(r, k, policy)
    PROVE  CreateInv'
<1>0. /\ Kept /\ lease' = lease /\ faults' = faults /\ slow' = slow
      /\ request[r].pc = "idle"
  BY SameKept DEF Start, CreateInv
<1>1. /\ RestTyped
      /\ request \in [Requests -> Request] /\ mutations \in [Keys -> Mutation]
  BY <1>0, HandlerFacts DEF RestTyped
<1>2. CASE StartNew(r, k, policy)
  <2> DEFINE q == [pc |-> "lease", key |-> k, policy |-> policy, seen |-> {}, task |-> 0]
             m == [status |-> "in_progress", task |-> 0, policy |-> policy]
  <2>1. q \in Request /\ m \in Mutation
    BY DEF Request, Mutation, Pc, MutationStatus
  <2>2. request' = [request EXCEPT ![r] = q] /\ mutations' = [mutations EXCEPT ![k] = m]
        /\ mutations[k].status = "absent"
    BY <1>2 DEF StartNew, BeginAt
  <2>3. Marked(k) = {} /\ \A s \in Requests : request[s].key = k => request[s].pc \notin Fresh
    BY <2>2, RowFacts, NotFresh
  <2>4. /\ q.pc = "lease" /\ q.key = k /\ q.pc \in Fresh /\ q.pc \notin Made
        /\ m.status = "in_progress" /\ m.task = 0 /\ mutations'[k] = m
    BY <2>2, <1>1 DEF Fresh, Made
  <2> HIDE DEF q, m
  <2>5. ContinuesAs(r, q) /\ RowBecomes(r, k, m)
    BY <2>2, <2>3, <2>4 DEF ContinuesAs, RowBecomes
  <2> QED BY <2>1, <2>5, <1>0, <1>1, HandlerStep
<1>3. CASE StartBound(r, k, policy)
  <2> DEFINE q == [pc |-> "repair", key |-> k, policy |-> policy, seen |-> {},
                   task |-> mutations[k].task]
  <2>1. mutations[k].task \in Nat
    BY <1>1 DEF Mutation
  <2>2. q \in Request /\ q.pc = "repair" /\ q.key = k /\ q.task = mutations[k].task
        /\ q.pc \notin Fresh
    BY <2>1 DEF Request, Pc, Fresh
  <2>3. request' = [request EXCEPT ![r] = q] /\ UNCHANGED mutations
        /\ mutations[k].task # 0
    BY <1>3 DEF StartBound, BeginAt
  <2>4. q.task \in Marked(k)
    BY <2>2, <2>3, RowFacts
  <2> HIDE DEF q
  <2> QED BY <2>2, <2>3, <2>4, <1>0, <1>1, SameRowStep
<1>4. CASE StartUnbound(r, k, policy)
  <2>1. PICK t \in Marked(k) :
          /\ mutations' = [mutations EXCEPT ![k].task = t]
          /\ BeginAt(r, "repair", k, policy, t)
    BY <1>4 DEF StartUnbound
  <2> DEFINE q == [pc |-> "repair", key |-> k, policy |-> policy, seen |-> {}, task |-> t]
             m == [mutations[k] EXCEPT !.task = t]
  <2>2. t \in Nat \ {0}
    BY DEF Marked, CreateInv, TypeOK
  <2>3. q \in Request /\ q.pc = "repair" /\ q.key = k /\ q.task = t /\ q.pc \notin Fresh
    BY <2>2 DEF Request, Pc, Fresh
  <2>4. m \in Mutation /\ m.task = t /\ m.status = "in_progress"
    BY <2>2, <1>1, <1>4 DEF Mutation, StartUnbound
  <2>5. mutations' = [mutations EXCEPT ![k] = m]
    BY <2>1
  <2>6. request' = [request EXCEPT ![r] = q]
    BY <2>1 DEF BeginAt
  <2>7. \A s \in Requests : request[s].key = k => request[s].pc \notin Fresh
    BY <2>1, NotFresh
  <2>8. q.pc \notin {"bind", "dispatch"} /\ mutations'[k] = m
    BY <2>3, <2>5, <1>1
  <2> HIDE DEF q, m
  <2>9. ContinuesAs(r, q) /\ RowBecomes(r, k, m)
    BY <2>2, <2>3, <2>4, <2>5, <2>6, <2>7, <2>8 DEF ContinuesAs, RowBecomes
  <2> QED BY <2>3, <2>4, <2>9, <1>0, <1>1, HandlerStep
<1> QED BY <1>2, <1>3, <1>4 DEF Start

\* Moving on to another program point changes nothing else of the handler.
LEMMA GotoShape ==
    ASSUME CreateInv, NEW r \in Requests, NEW pc \in Pc, Goto(r, pc)
    PROVE  \E q \in Request :
             /\ request' = [request EXCEPT ![r] = q]
             /\ q.pc = pc /\ q.key = request[r].key /\ q.task = request[r].task
<1> DEFINE q == [request[r] EXCEPT !.pc = pc]
<1>1. request[r] \in Request
  BY HandlerFacts
<1>2. q \in Request /\ q.pc = pc /\ q.key = request[r].key /\ q.task = request[r].task
  BY <1>1 DEF Request
<1>3. request' = [request EXCEPT ![r] = q]
  BY DEF Goto
<1> QED BY <1>2, <1>3

\* A handler that has created nothing moves on before creating.
LEMMA FreshGoto ==
    ASSUME CreateInv, Kept, RestTyped, UNCHANGED mutations,
           NEW r \in Requests, NEW pc \in Fresh, request[r].pc \in Fresh, Goto(r, pc)
    PROVE  CreateInv'
<1>1. pc \in Pc /\ pc # "idle" /\ pc \notin Made /\ request[r].pc # "idle"
  BY DEF Fresh, Made, Pc
<1>2. PICK q \in Request : /\ request' = [request EXCEPT ![r] = q]
                           /\ q.pc = pc /\ q.key = request[r].key
  BY <1>1, GotoShape
<1>3. q.key \in Keys
  BY <1>1, <1>2, HandlerFacts
<1>4. q.pc \notin {"bind", "repair", "dispatch"}
  BY <1>2 DEF Fresh
<1> QED BY <1>1, <1>2, <1>3, <1>4, SameRowStep

\* Lease and counters keep their types when the lease is released or left alone.
LEMMA ReleaseTyped ==
    ASSUME CreateInv, NEW r \in Requests, ReleaseLease(r) \/ UNCHANGED lease,
           UNCHANGED <<faults, slow>>
    PROVE  RestTyped
  BY HandlerFacts DEF ReleaseLease, RestTyped

\* The lease is taken, or the request is refused.
LEMMA ClaimLeaseStep ==
    ASSUME CreateInv, NEW r \in Requests, ClaimLease(r)
    PROVE  CreateInv'
<1>1. Kept /\ request[r].pc \in Fresh /\ UNCHANGED <<faults, slow>>
  BY SameKept DEF ClaimLease, CreateInv, Fresh
<1>2. CASE GoIdle(r) /\ Abandon(request[r].key) /\ UNCHANGED lease
  BY <1>1, <1>2, ReleaseTyped, AbandonStep
<1>3. CASE lease' = [owner |-> r, live |-> TRUE] /\ Goto(r, "observe") /\ UNCHANGED mutations
  <2>1. RestTyped
    BY <1>1, <1>3, HandlerFacts DEF RestTyped
  <2>2. "observe" \in Fresh
    BY DEF Fresh
  <2> QED BY <1>1, <1>3, <2>1, <2>2, FreshGoto
<1> QED BY <1>2, <1>3 DEF ClaimLease

\* The active tasks are looked at.
LEMMA ObserveStep ==
    ASSUME CreateInv, NEW r \in Requests, Observe(r)
    PROVE  CreateInv'
<1>1. Kept /\ request[r].pc \in Fresh /\ UNCHANGED <<faults, slow>>
  BY SameKept DEF Observe, CreateInv, Fresh
<1>2. CASE Refuse(r)
  BY <1>1, <1>2, ReleaseTyped, AbandonStep DEF Refuse
<1>3. CASE /\ request' = [request EXCEPT ![r].pc = "interrupt", ![r].seen = ActiveTasks]
           /\ UNCHANGED <<mutations, lease>>
  <2> DEFINE q == [request[r] EXCEPT !.pc = "interrupt", !.seen = ActiveTasks]
  <2>1. ActiveTasks \subseteq Nat
    BY DEF ActiveTasks, CreateInv, TypeOK
  <2>2. request[r] \in Request /\ request[r].key \in Keys
    BY <1>1, HandlerFacts DEF Fresh
  <2>3. /\ q \in Request /\ q.pc = "interrupt" /\ q.key = request[r].key
        /\ q.pc \notin Made /\ q.pc \notin {"bind", "repair", "dispatch"} /\ q.pc # "idle"
    BY <2>1, <2>2 DEF Request, Pc, Made
  <2>4. request' = [request EXCEPT ![r] = q]
    BY <1>3
  <2> HIDE DEF q
  <2>5. RestTyped
    BY <1>1, <1>3, ReleaseTyped
  <2> QED BY <1>1, <1>3, <2>2, <2>3, <2>4, <2>5, SameRowStep
<1>4. CASE Goto(r, "create") /\ UNCHANGED <<mutations, lease>>
  <2>1. "create" \in Fresh
    BY DEF Fresh
  <2> QED BY <1>1, <1>4, <2>1, ReleaseTyped, FreshGoto
<1> QED BY <1>2, <1>3, <1>4 DEF Observe

\* The interrupts are over: the request is refused or goes on to create.
LEMMA InterruptedStep ==
    ASSUME CreateInv, NEW r \in Requests, Interrupted(r)
    PROVE  CreateInv'
<1>1. request[r].pc \in Fresh /\ UNCHANGED <<faults, slow>>
  BY DEF Interrupted, Fresh
<1>2. Kept
  BY StopKept DEF Interrupted, CreateInv
<1>3. CASE Refuse(r)
  BY <1>1, <1>2, <1>3, ReleaseTyped, AbandonStep DEF Refuse
<1>4. CASE Goto(r, "create") /\ UNCHANGED <<mutations, lease>>
  <2>1. "create" \in Fresh
    BY DEF Fresh
  <2> QED BY <1>1, <1>2, <1>4, <2>1, ReleaseTyped, FreshGoto
<1> QED BY <1>3, <1>4 DEF Interrupted

\* A handler whose task is on disk knows where it is.
LEMMA MadeFacts ==
    ASSUME CreateInv, NEW r \in Requests, request[r].pc \in Made
    PROVE  /\ request[r].key \in Keys /\ request[r].task \in DOMAIN tasks
           /\ request[r].task \in Nat \ {0}
           /\ request[r].task \in Marked(request[r].key)
           /\ mutations[request[r].key].status # "absent"
           /\ \A s \in Requests : request[s].key = request[r].key => request[s].pc \notin Fresh
<1>1. /\ request[r].key \in Keys /\ request[r].task \in Marked(request[r].key)
  BY HandlerFacts DEF Made
<1>2. request[r].task \in DOMAIN tasks /\ request[r].task \in Nat \ {0}
  BY <1>1 DEF Marked, CreateInv, TypeOK
<1> QED BY <1>1, <1>2, RowFacts, NotFresh

\* create_task completes its records; the lease is released.
LEMMA BuildStep ==
    ASSUME CreateInv, NEW r \in Requests, Build(r)
    PROVE  CreateInv'
<1>1. request[r].pc \in Made /\ request[r].pc = "build" /\ UNCHANGED <<mutations, faults, slow>>
  BY DEF Build, Made
<1>2. Kept /\ tasks'[request[r].task].built
  BY <1>1, MadeFacts, BuildKept DEF Build, CreateInv
<1>3. PICK q \in Request : /\ request' = [request EXCEPT ![r] = q]
                           /\ q.pc = "bind" /\ q.key = request[r].key /\ q.task = request[r].task
  BY GotoShape DEF Build, Pc
<1>4. q.pc \notin Fresh /\ q.pc # "idle" /\ q.pc \notin {"repair", "dispatch"}
  BY <1>3 DEF Fresh
<1>5. RestTyped
  BY <1>1, ReleaseTyped DEF Build
<1> QED BY <1>1, <1>2, <1>3, <1>4, <1>5, MadeFacts, SameRowStep

\* The key is bound to the task, if its row is still in progress.
LEMMA BindStep ==
    ASSUME CreateInv, NEW r \in Requests, BindTask(r)
    PROVE  CreateInv'
<1> DEFINE k == request[r].key
           t == request[r].task
           m == IF mutations[k].status = "in_progress"
                THEN [mutations[k] EXCEPT !.task = t] ELSE mutations[k]
<1>1. request[r].pc = "bind" /\ request[r].pc \in Made /\ UNCHANGED <<tasks, lease, faults, slow>>
  BY DEF BindTask, Made
<1>2. Kept /\ RestTyped
  BY <1>1, SameKept, ReleaseTyped DEF CreateInv
<1>3. /\ k \in Keys /\ t \in Nat \ {0} /\ t \in Marked(k) /\ tasks[t].built
      /\ mutations[k].status # "absent"
      /\ \A s \in Requests : request[s].key = k => request[s].pc \notin Fresh
      /\ mutations \in [Keys -> Mutation]
  BY <1>1, MadeFacts, HandlerFacts
<1>4. mutations' = [mutations EXCEPT ![k] = m]
  BY <1>3 DEF BindTask
<1>5. m \in Mutation
  BY <1>3 DEF Mutation
<1>6. RowBecomes(r, k, m) /\ m.task # 0
  <2>1. CASE mutations[k].status = "in_progress"
    <3>1. m.task = t /\ m.status = "in_progress"
      BY <1>3, <2>1 DEF Mutation
    <3> QED BY <1>3, <1>4, <3>1 DEF RowBecomes
  <2>2. CASE mutations[k].status # "in_progress"
    <3>1. m = mutations[k] /\ m.status = "completed"
      BY <1>3, <2>2 DEF Mutation, MutationStatus
    <3>2. m.task \in Marked(k) /\ tasks[m.task].built
      BY <1>3, <3>1, RowFacts
    <3>3. \A u \in Marked(k) : u # 0
      BY DEF Marked, CreateInv, TypeOK
    <3> QED BY <1>1, <1>4, <3>1, <3>2, <3>3 DEF RowBecomes
  <2> QED BY <2>1, <2>2
<1>7. PICK q \in Request : /\ request' = [request EXCEPT ![r] = q]
                           /\ q.pc = "dispatch" /\ q.key = k /\ q.task = t
  BY GotoShape DEF BindTask, Pc
<1>8. mutations'[k] = m
  BY <1>3, <1>4
<1>9. q.pc \notin Fresh
  BY <1>7 DEF Fresh
<1> HIDE DEF k, t, m
<1>10. ContinuesAs(r, q)
  BY <1>1, <1>3, <1>7, <1>6, <1>8, <1>9 DEF ContinuesAs
<1> QED BY <1>2, <1>3, <1>5, <1>6, <1>10, HandlerStep

\* recover_task_creation completes the records of a task that was found.
LEMMA RepairStep ==
    ASSUME CreateInv, NEW r \in Requests, Repair(r)
    PROVE  CreateInv'
<1>1. /\ request[r].pc \in Made /\ UNCHANGED <<mutations, lease, faults, slow>>
      /\ mutations[request[r].key].task # 0
  BY HandlerFacts DEF Repair, Made
<1>2. Kept /\ tasks'[request[r].task].built
  BY <1>1, MadeFacts, BuildKept DEF Repair, CreateInv
<1>3. PICK q \in Request : /\ request' = [request EXCEPT ![r] = q]
                           /\ q.pc = "dispatch" /\ q.key = request[r].key /\ q.task = request[r].task
  BY GotoShape DEF Repair, Pc
<1>4. q.pc \notin Fresh /\ q.pc # "idle"
  BY <1>3 DEF Fresh
<1>5. RestTyped
  BY <1>1, ReleaseTyped
<1> QED BY <1>1, <1>2, <1>3, <1>4, <1>5, MadeFacts, SameRowStep

\* The answer is stored.
LEMMA FinishStep ==
    ASSUME CreateInv, NEW r \in Requests, Finish(r)
    PROVE  CreateInv'
<1> DEFINE k == request[r].key
           m == [mutations[k] EXCEPT !.status = "completed"]
<1>1. request[r].pc = "dispatch" /\ request[r].pc \in Made /\ UNCHANGED <<tasks, lease, faults, slow>>
  BY DEF Finish, Made
<1>2. Kept /\ RestTyped
  BY <1>1, SameKept, ReleaseTyped DEF CreateInv
<1>3. /\ k \in Keys /\ request[r].task \in Marked(k) /\ tasks[request[r].task].built
      /\ mutations[k].status # "absent" /\ mutations[k].task # 0
      /\ \A s \in Requests : request[s].key = k => request[s].pc \notin Fresh
      /\ mutations \in [Keys -> Mutation] /\ Idle \in Request
  BY <1>1, MadeFacts, HandlerFacts
<1>4. mutations' = [mutations EXCEPT ![k] = m]
  BY <1>3 DEF Finish
<1>5. m \in Mutation /\ m.task = mutations[k].task /\ m.status = "completed"
  BY <1>3 DEF Mutation, MutationStatus
<1>6. mutations[k].task = request[r].task
  <2>1. mutations[k].task \in Marked(k)
    BY <1>3, RowFacts
  <2> QED BY <1>3, <2>1 DEF Marked, CreateInv, UniqueInv
<1> HIDE DEF k, m
<1>7. RowBecomes(r, k, m)
  BY <1>1, <1>3, <1>4, <1>5, <1>6 DEF RowBecomes
<1>8. ContinuesAs(r, Idle)
  BY IdleContinues DEF Finish
<1> QED BY <1>2, <1>3, <1>5, <1>7, <1>8, HandlerStep

\* create_task inserts the first task of its key.
LEMMA InsertStep ==
    ASSUME CreateInv, NEW r \in Requests, request[r].pc = "create",
           tasks' = Append(tasks, [key |-> request[r].key, active |-> TRUE, built |-> FALSE]),
           request' = [request EXCEPT ![r].pc = "build", ![r].task = Len(tasks) + 1],
           UNCHANGED <<mutations, lease, faults, slow>>
    PROVE  CreateInv'
<1> USE DEF CreateInv
<1> DEFINE k == request[r].key
           n == Len(tasks) + 1
           new == [key |-> k, active |-> TRUE, built |-> FALSE]
           q == [request[r] EXCEPT !.pc = "build", !.task = n]
<1>1. /\ k \in Keys /\ mutations[k].status = "in_progress" /\ mutations[k].task = 0
      /\ Marked(k) = {} /\ request \in [Requests -> Request]
      /\ \A s \in Requests \ {r} : ~(request[s].pc \in Fresh /\ request[s].key = k)
  BY HandlerFacts DEF Fresh
<1>2. /\ tasks \in Seq(Task) /\ Len(tasks) \in Nat /\ DOMAIN tasks = 1 .. Len(tasks)
      /\ n \in Nat /\ n \notin DOMAIN tasks /\ n # 0
  BY DEF TypeOK
<1>3. new \in Task
  BY <1>1 DEF Task
<1>4. /\ tasks' \in Seq(Task) /\ DOMAIN tasks' = DOMAIN tasks \cup {n}
      /\ tasks'[n] = new /\ \A t \in DOMAIN tasks : tasks'[t] = tasks[t]
  BY <1>2, <1>3
<1>5. q \in Request /\ q.pc = "build" /\ q.key = k /\ q.task = n
  BY <1>1, <1>2 DEF Request, Pc
<1>6. request' = [request EXCEPT ![r] = q]
  OBVIOUS
<1>7. request'[r] = q /\ \A s \in Requests \ {r} : request'[s] = request[s]
  BY <1>1, <1>6
<1>8. TypeOK'
  BY <1>1, <1>4, <1>5, <1>6 DEF TypeOK
<1> DEFINE M(j) == {t \in DOMAIN tasks' : tasks'[t].key = j}
<1>9. new.key = k /\ \A j \in Keys : Marked(j)' = M(j)
  BY DEF Marked
<1>10. /\ M(k) = {n}
       /\ \A j \in Keys \ {k} : M(j) = Marked(j)
       /\ \A j \in Keys : Marked(j) \subseteq M(j)
  BY <1>1, <1>2, <1>4, <1>9 DEF Marked
<1>11. \A j \in Keys : \A t \in Marked(j) : tasks'[t] = tasks[t]
  BY <1>4 DEF Marked
<1>12. UniqueInv'
  <2>1. \A t \in DOMAIN tasks : tasks[t].key # k
    BY <1>1 DEF Marked
  <2> HIDE DEF n, k, new
  <2> QED BY <1>4, <1>9, <2>1 DEF UniqueInv
<1>13. FreshInv'
  <2>1. q.pc \notin Fresh
    BY <1>5 DEF Fresh
  <2> HIDE DEF k, n, new, q
  <2> QED BY <1>7, <2>1 DEF FreshInv
<1>14. RowInv'
  BY <1>1, <1>9, <1>10 DEF RowInv
<1>15. CompletedMeansBuilt'
  BY <1>9, <1>10, <1>11 DEF CompletedMeansBuilt
<1>16. HandlerInv'
  <2> SUFFICES ASSUME NEW s \in Requests
               PROVE  /\ request'[s].pc # "idle" => request'[s].key \in Keys
                      /\ request'[s].pc \in Fresh =>
                           /\ mutations'[request'[s].key].status = "in_progress"
                           /\ mutations'[request'[s].key].task = 0
                           /\ M(request'[s].key) = {}
                      /\ request'[s].pc \in Made => request'[s].task \in M(request'[s].key)
                      /\ request'[s].pc \in {"bind", "dispatch"} => tasks'[request'[s].task].built
                      /\ request'[s].pc \in {"repair", "dispatch"} =>
                           mutations'[request'[s].key].task # 0
    BY DEF HandlerInv, Marked
  <2> HIDE DEF M, k, n, q, new
  <2>1. CASE s = r
    BY <2>1, <1>1, <1>5, <1>7, <1>10 DEF Fresh
  <2>2. CASE s # r
    <3> DEFINE h == request[s]
    <3>1. request'[s] = h
      BY <2>2, <1>7
    <3>2. /\ h.pc # "idle" => h.key \in Keys
          /\ h.pc \in Fresh => /\ mutations[h.key].status = "in_progress"
                               /\ mutations[h.key].task = 0 /\ Marked(h.key) = {}
          /\ h.pc \in Made => h.task \in Marked(h.key)
          /\ h.pc \in {"bind", "dispatch"} => tasks[h.task].built
          /\ h.pc \in {"repair", "dispatch"} => mutations[h.key].task # 0
      BY HandlerFacts
    <3>3. h.pc \in Fresh => h.key \in Keys \ {k}
      BY <2>2, <3>2, <1>1 DEF Fresh
    <3>4. h.pc \in Made => h.key \in Keys
      BY <3>2 DEF Made
    <3>5. h.pc \in {"bind", "dispatch"} => h.pc \in Made
      BY DEF Made
    <3> HIDE DEF h
    <3> QED BY <3>1, <3>2, <3>3, <3>4, <3>5, <1>10, <1>11
  <2> QED BY <2>1, <2>2
<1> QED BY <1>8, <1>12, <1>13, <1>14, <1>15, <1>16

\* create_task, or its refusal.
LEMMA CreateStep ==
    ASSUME CreateInv, NEW r \in Requests, Create(r)
    PROVE  CreateInv'
<1>1. request[r].pc = "create" /\ request[r].pc \in Fresh /\ UNCHANGED <<faults, slow>>
  BY DEF Create, Fresh
<1>2. CASE Refuse(r) /\ UNCHANGED tasks
  <2>1. Kept
    BY <1>2, SameKept DEF CreateInv
  <2> QED BY <1>1, <1>2, <2>1, ReleaseTyped, AbandonStep DEF Refuse
<1>3. CASE ~(Refuse(r) /\ UNCHANGED tasks)
  BY <1>1, <1>3, InsertStep DEF Create
<1> QED BY <1>2, <1>3

\* Crashes, the passing of time and the end of a task.
LEMMA OtherStep ==
    ASSUME CreateInv,
           \/ \E r \in Requests : Crash(r)
           \/ ExpireLease
           \/ \E t \in DOMAIN tasks : TaskEnds(t)
    PROVE  CreateInv'
<1>1. ASSUME NEW r \in Requests, Crash(r) PROVE CreateInv'
  <2>1. Kept /\ RestTyped
    BY <1>1, SameKept, HandlerFacts DEF Crash, CreateInv, RestTyped
  <2> QED BY <1>1, <2>1, IdleStep DEF Crash
<1>2. CASE ExpireLease
  <2>1. TypeOK'
    BY <1>2 DEF ExpireLease, CreateInv, TypeOK, NoLease
  <2>2. UNCHANGED <<mutations, tasks, request>>
    BY <1>2 DEF ExpireLease
  <2> QED BY <2>1, <2>2 DEF CreateInv, HandlerInv, FreshInv, RowInv, UniqueInv,
                            CompletedMeansBuilt, Marked
<1>3. ASSUME NEW t \in DOMAIN tasks, TaskEnds(t) PROVE CreateInv'
  <2>1. tasks' = [u \in DOMAIN tasks |->
                    IF u \in {t} THEN [tasks[u] EXCEPT !.active = FALSE] ELSE tasks[u]]
    BY <1>3 DEF TaskEnds
  <2>2. Kept
    BY <2>1, StopKept DEF CreateInv
  <2>3. UNCHANGED <<mutations, request, lease, faults, slow>>
    BY <1>3 DEF TaskEnds
  <2>4. TypeOK'
    BY <2>2, <2>3 DEF CreateInv, TypeOK, Kept
  <2>5. \A j \in Keys : Marked(j)' = Marked(j)
    BY <2>2, MarkedSame DEF Kept
  <2>6. \A u : {v \in DOMAIN tasks' : tasks'[v].key = u} = {v \in DOMAIN tasks : tasks[v].key = u}
    BY <2>2 DEF Kept
  <2>7. \A u \in DOMAIN tasks : tasks'[u].built = tasks[u].built
    BY <2>1 DEF CreateInv, TypeOK, Task
  <2>8. HandlerInv'
    <3>1. ASSUME NEW s \in Requests, request[s].pc \in {"bind", "dispatch"}
          PROVE  tasks'[request[s].task].built
      <4>1. request[s].task \in Marked(request[s].key) /\ tasks[request[s].task].built
        BY <3>1 DEF CreateInv, HandlerInv, Made
      <4>2. request[s].task \in DOMAIN tasks
        BY <4>1 DEF Marked
      <4> QED BY <4>1, <4>2, <2>7
    <3>2. \A s \in Requests : /\ Marked(request[s].key)' = Marked(request[s].key)
                              /\ request'[s] = request[s]
      BY <2>3, <2>6 DEF Marked
    <3> QED BY <2>3, <3>1, <3>2 DEF CreateInv, HandlerInv
  <2>9. FreshInv' /\ RowInv' /\ UniqueInv'
    BY <2>2, <2>3, <2>5, KeptUnique DEF CreateInv, FreshInv, RowInv
  <2>10. CompletedMeansBuilt'
    BY <2>3, <2>6, <2>7 DEF CreateInv, CompletedMeansBuilt, Marked
  <2> QED BY <2>4, <2>8, <2>9, <2>10 DEF CreateInv
<1> QED BY <1>1, <1>2, <1>3

\* Every step preserves the invariant.
LEMMA NextInv == CreateInv /\ [Next]_vars => CreateInv'
<1> SUFFICES ASSUME CreateInv, [Next]_vars PROVE CreateInv'
  OBVIOUS
<1>1. CASE UNCHANGED vars
  BY <1>1 DEF vars, CreateInv, TypeOK, HandlerInv, FreshInv, RowInv, UniqueInv,
              CompletedMeansBuilt, Marked
<1>2. ASSUME NEW r \in Requests, Handle(r) PROVE CreateInv'
  BY <1>2, ClaimLeaseStep, ObserveStep, InterruptedStep, CreateStep, BuildStep, BindStep,
     RepairStep, FinishStep DEF Handle
<1>3. CASE Next
  BY <1>2, <1>3, StartStep, OtherStep DEF Next
<1> QED BY <1>1, <1>3

\* The inductive invariant of creation, for any handlers, keys and faults.
THEOREM CreateInvariant == Spec => []CreateInv
<1> QED BY InitInv, NextInv, PTL DEF Spec

\* A key creates at most one task however often its request is repeated, refused or
\* cut off by a crash (begin_mutation, recover_task_create_binding).
THEOREM KeyCreatesOnce == Spec => []OneTaskPerKey
<1>1. CreateInv => OneTaskPerKey
  <2> SUFFICES ASSUME CreateInv, NEW k \in Keys PROVE Cardinality(Marked(k)) <= 1
    BY DEF OneTaskPerKey
  <2>1. CASE Marked(k) = {}
    BY <2>1, FS_EmptySet
  <2>2. CASE Marked(k) # {}
    <3>1. PICK t : t \in Marked(k)
      BY <2>2
    <3>2. Marked(k) = {t}
      BY <3>1 DEF Marked, CreateInv, UniqueInv
    <3>3. Cardinality({t}) = 1
      BY FS_Singleton
    <3> QED BY <3>2, <3>3
  <2> QED BY <2>1, <2>2
<1> QED BY <1>1, CreateInvariant, PTL

\* A stored success names a complete task (recover_task_creation, complete).
THEOREM SuccessIsComplete == Spec => []CompletedMeansBuilt
<1>1. CreateInv => CompletedMeansBuilt
  BY DEF CreateInv
<1> QED BY <1>1, CreateInvariant, PTL
-----------------------------------------------------------------------------
(* The lease, while no interrupt outlasts it *)

\* A handler inside create_task_after_workspace_decision holds the lease.
LeaseInv ==
    \A r \in Requests : request[r].pc \in Held => lease = [owner |-> r, live |-> TRUE]

\* What the handler found out about the workspace still holds when it creates.
QuietInv ==
    \A r \in Requests :
        (request[r].pc = "create" /\ request[r].policy # "continue_background")
            => ActiveTasks = {}

SerialInv == TypeOK /\ LeaseInv /\ QuietInv

\* A step of handler r that takes nobody else's lease and starts no task: what is
\* left to show is that r itself has the lease and a quiet workspace if it needs them.
LEMMA SerialStep ==
    ASSUME SerialInv, TypeOK', NEW r \in Requests,
           \A s \in Requests \ {r} : request'[s] = request[s],
           lease' = lease \/ lease.owner = r \/ ~lease.live,
           request'[r].pc \in Held => lease' = [owner |-> r, live |-> TRUE],
           ActiveTasks' \subseteq ActiveTasks,
           request'[r].pc = "create" /\ request'[r].policy # "continue_background"
              => ActiveTasks' = {}
    PROVE  SerialInv'
<1>1. LeaseInv'
  <2> SUFFICES ASSUME NEW s \in Requests, request'[s].pc \in Held, s # r
               PROVE  lease' = [owner |-> s, live |-> TRUE]
    BY DEF LeaseInv
  <2>1. lease = [owner |-> s, live |-> TRUE]
    BY DEF SerialInv, LeaseInv
  <2> QED BY <2>1
<1>2. QuietInv'
  BY DEF SerialInv, QuietInv
<1> QED BY <1>1, <1>2 DEF SerialInv

\* Stopping tasks leaves the others active.
LEMMA StopActive ==
    ASSUME NEW S,
           tasks' = [t \in DOMAIN tasks |->
                       IF t \in S THEN [tasks[t] EXCEPT !.active = FALSE] ELSE tasks[t]],
           tasks \in Seq(Task)
    PROVE  ActiveTasks' = ActiveTasks \ S
<1>1. DOMAIN tasks' = DOMAIN tasks
  OBVIOUS
<1>2. \A t \in DOMAIN tasks : tasks'[t].active <=> tasks[t].active /\ t \notin S
  BY DEF Task
<1> QED BY <1>1, <1>2 DEF ActiveTasks

\* Completing the records of a task changes nothing about what is active.
LEMMA BuildActive ==
    ASSUME NEW t, tasks' = [tasks EXCEPT ![t].built = TRUE], tasks \in Seq(Task)
    PROVE  ActiveTasks' = ActiveTasks
<1>1. DOMAIN tasks' = DOMAIN tasks
  OBVIOUS
<1>2. \A u \in DOMAIN tasks : tasks'[u].active = tasks[u].active
  BY DEF Task
<1> QED BY <1>1, <1>2 DEF ActiveTasks

\* A handler that ends, giving its lease back or leaving it to expire.
LEMMA SerialEnd ==
    ASSUME SerialInv, TypeOK', NEW r \in Requests, GoIdle(r),
           ReleaseLease(r) \/ UNCHANGED lease, ActiveTasks' \subseteq ActiveTasks
    PROVE  SerialInv'
<1>1. request \in [Requests -> Request]
  BY DEF SerialInv, TypeOK
<1>2. request'[r] = Idle /\ \A s \in Requests \ {r} : request'[s] = request[s]
  BY <1>1 DEF GoIdle
<1>3. request'[r].pc \notin Held /\ request'[r].pc # "create"
  BY <1>2 DEF Idle, Held
<1>4. lease' = lease \/ lease.owner = r
  BY DEF ReleaseLease
<1> QED BY <1>2, <1>3, <1>4, SerialStep

\* A handler goes on to pc.
LEMMA SerialGoto ==
    ASSUME SerialInv, TypeOK', NEW r \in Requests, NEW pc, Goto(r, pc),
           lease' = lease \/ lease.owner = r \/ ~lease.live,
           pc \in Held => lease' = [owner |-> r, live |-> TRUE],
           ActiveTasks' \subseteq ActiveTasks,
           pc = "create" /\ request[r].policy # "continue_background" => ActiveTasks' = {}
    PROVE  SerialInv'
<1>1. request \in [Requests -> Request]
  BY DEF SerialInv, TypeOK
<1>2. /\ request'[r].pc = pc /\ request'[r].policy = request[r].policy
      /\ \A s \in Requests \ {r} : request'[s] = request[s]
  BY <1>1 DEF Goto, Request
<1> QED BY <1>2, SerialStep

\* The steps of a handler.
LEMMA SerialHandle ==
    ASSUME SerialInv, TypeOK', NEW r \in Requests, Handle(r)
    PROVE  SerialInv'
<1>1. request \in [Requests -> Request] /\ tasks \in Seq(Task)
  BY DEF SerialInv, TypeOK
<1>2. request[r].pc \in Held => lease = [owner |-> r, live |-> TRUE]
  BY DEF SerialInv, LeaseInv
<1>3. UNCHANGED tasks => ActiveTasks' = ActiveTasks
  BY DEF ActiveTasks
<1>4. CASE ClaimLease(r)
  <2>1. UNCHANGED tasks
    BY <1>4 DEF ClaimLease
  <2>2. CASE GoIdle(r) /\ UNCHANGED lease
    BY <1>3, <2>1, <2>2, SerialEnd
  <2>3. CASE ~lease.live /\ lease' = [owner |-> r, live |-> TRUE] /\ Goto(r, "observe")
    BY <1>3, <2>1, <2>3, SerialGoto
  <2> QED BY <1>4, <2>2, <2>3 DEF ClaimLease
<1>5. CASE Observe(r)
  <2>1. UNCHANGED tasks /\ request[r].pc \in Held
    BY <1>5 DEF Observe, Held
  <2>2. CASE Refuse(r)
    BY <1>3, <2>1, <2>2, SerialEnd DEF Refuse
  <2>3. CASE request' = [request EXCEPT ![r].pc = "interrupt", ![r].seen = ActiveTasks]
             /\ UNCHANGED lease
    <3>1. request'[r].pc = "interrupt" /\ \A s \in Requests \ {r} : request'[s] = request[s]
      BY <1>1, <2>3 DEF Request
    <3> QED BY <1>2, <1>3, <2>1, <2>3, <3>1, SerialStep
  <2>4. CASE (ActiveTasks = {} \/ request[r].policy = "continue_background")
             /\ Goto(r, "create") /\ UNCHANGED lease
    BY <1>2, <1>3, <2>1, <2>4, SerialGoto
  <2> QED BY <1>5, <2>2, <2>3, <2>4 DEF Observe
<1>6. CASE Interrupted(r)
  <2>1. request[r].pc \in Held
    BY <1>6 DEF Interrupted, Held
  <2>2. PICK S : /\ tasks' = [t \in DOMAIN tasks |->
                     IF t \in S THEN [tasks[t] EXCEPT !.active = FALSE] ELSE tasks[t]]
                 /\ \/ Refuse(r)
                    \/ ActiveTasks \ S = {} /\ Goto(r, "create") /\ UNCHANGED lease
    BY <1>6 DEF Interrupted
  <2>3. ActiveTasks' = ActiveTasks \ S
    BY <1>1, <2>2, StopActive
  <2>4. CASE Refuse(r)
    BY <2>3, <2>4, SerialEnd DEF Refuse
  <2>5. CASE ActiveTasks \ S = {} /\ Goto(r, "create") /\ UNCHANGED lease
    BY <1>2, <2>1, <2>3, <2>5, SerialGoto
  <2> QED BY <2>2, <2>4, <2>5
<1>7. CASE Create(r)
  <2>1. request[r].pc \in Held /\ request[r].pc = "create"
    BY <1>7 DEF Create, Held
  <2>2. CASE Refuse(r) /\ UNCHANGED tasks
    BY <1>3, <2>2, SerialEnd DEF Refuse
  <2>3. CASE request' = [request EXCEPT ![r].pc = "build", ![r].task = Len(tasks) + 1]
             /\ UNCHANGED lease
    <3>1. request'[r].pc = "build" /\ \A s \in Requests \ {r} : request'[s] = request[s]
      BY <1>1, <2>3 DEF Request
    <3>2. \A s \in Requests \ {r} : request[s].pc \notin Held
      <4> SUFFICES ASSUME NEW s \in Requests \ {r}, request[s].pc \in Held PROVE FALSE
        OBVIOUS
      <4>1. lease = [owner |-> s, live |-> TRUE] /\ lease = [owner |-> r, live |-> TRUE]
        BY <1>2, <2>1 DEF SerialInv, LeaseInv
      <4> QED BY <4>1
    <3>3. LeaseInv'
      BY <1>2, <2>1, <2>3, <3>1, <3>2 DEF LeaseInv
    <3>4. QuietInv'
      BY <3>1, <3>2 DEF QuietInv, Held
    <3> QED BY <3>3, <3>4 DEF SerialInv
  <2> QED BY <1>7, <2>2, <2>3 DEF Create
<1>8. CASE Build(r)
  <2>1. ActiveTasks' = ActiveTasks /\ (lease' = lease \/ lease.owner = r)
    BY <1>1, <1>8, BuildActive DEF Build, ReleaseLease
  <2>2. "bind" \notin Held
    BY DEF Held
  <2> QED BY <1>8, <2>1, <2>2, SerialGoto DEF Build
<1>9. CASE BindTask(r)
  <2>1. "dispatch" \notin Held
    BY DEF Held
  <2> QED BY <1>3, <1>9, <2>1, SerialGoto DEF BindTask
<1>10. CASE Repair(r)
  <2>1. ActiveTasks' = ActiveTasks /\ UNCHANGED lease
    BY <1>1, <1>10, BuildActive DEF Repair
  <2>2. "dispatch" \notin Held
    BY DEF Held
  <2> QED BY <1>10, <2>1, <2>2, SerialGoto DEF Repair
<1>11. CASE Finish(r)
  BY <1>3, <1>11, SerialEnd DEF Finish
<1> QED BY <1>4, <1>5, <1>6, <1>7, <1>8, <1>9, <1>10, <1>11 DEF Handle

\* The other steps.  A lease only expires under a handler that waits for interrupts,
\* which takes a slow one.
LEMMA SerialOther ==
    ASSUME SerialInv, TypeOK', MaxSlow = 0,
           \/ \E r \in Requests : Crash(r)
           \/ \E r \in Requests, k \in Keys, policy \in Policy : Start(r, k, policy)
           \/ ExpireLease
           \/ \E t \in DOMAIN tasks : TaskEnds(t)
    PROVE  SerialInv'
<1>1. /\ request \in [Requests -> Request] /\ tasks \in Seq(Task) /\ slow \in Nat
      /\ lease \in [owner : Requests \cup {None}, live : BOOLEAN]
  BY DEF SerialInv, TypeOK
<1>2. UNCHANGED tasks => ActiveTasks' = ActiveTasks
  BY DEF ActiveTasks
<1>3. ASSUME NEW r \in Requests, Crash(r) PROVE SerialInv'
  BY <1>2, <1>3, SerialEnd DEF Crash
<1>4. ASSUME NEW r \in Requests, NEW k \in Keys, NEW policy \in Policy, Start(r, k, policy)
      PROVE  SerialInv'
  <2>1. UNCHANGED <<tasks, lease>>
    BY <1>4 DEF Start
  <2>2. PICK pc, t : pc \in {"lease", "repair"} /\ BeginAt(r, pc, k, policy, t)
    BY <1>4 DEF Start, StartNew, StartBound, StartUnbound
  <2>3. request'[r].pc = pc /\ \A s \in Requests \ {r} : request'[s] = request[s]
    BY <1>1, <2>2 DEF BeginAt
  <2>4. pc \notin Held /\ pc # "create"
    BY <2>2 DEF Held
  <2> QED BY <1>2, <2>1, <2>3, <2>4, SerialStep
<1>5. CASE ExpireLease
  <2>1. \A s \in Requests : request[s].pc \notin Held
    <3> SUFFICES ASSUME NEW s \in Requests, request[s].pc \in Held PROVE FALSE
      OBVIOUS
    <3>1. lease = [owner |-> s, live |-> TRUE]
      BY DEF SerialInv, LeaseInv
    <3>2. lease.owner = s
      BY <3>1
    <3>3. ~(slow < MaxSlow)
      BY <1>1
    <3> QED BY <1>5, <3>2, <3>3 DEF ExpireLease, Held
  <2>2. UNCHANGED <<request, tasks>>
    BY <1>5 DEF ExpireLease
  <2>3. LeaseInv'
    BY <2>1, <2>2 DEF LeaseInv
  <2>4. QuietInv'
    BY <1>2, <2>2 DEF SerialInv, QuietInv
  <2> QED BY <2>3, <2>4 DEF SerialInv
<1>6. ASSUME NEW t \in DOMAIN tasks, TaskEnds(t) PROVE SerialInv'
  <2>1. tasks' = [u \in DOMAIN tasks |->
                    IF u \in {t} THEN [tasks[u] EXCEPT !.active = FALSE] ELSE tasks[u]]
        /\ UNCHANGED <<request, lease>>
    BY <1>6 DEF TaskEnds
  <2>2. ActiveTasks' \subseteq ActiveTasks
    BY <1>1, <2>1, StopActive
  <2>3. LeaseInv'
    BY <2>1 DEF SerialInv, LeaseInv
  <2>4. QuietInv'
    BY <2>1, <2>2 DEF SerialInv, QuietInv
  <2> QED BY <2>3, <2>4 DEF SerialInv
<1> QED BY <1>3, <1>4, <1>5, <1>6

\* As long as no interrupt outlasts the creation lease, no task is created beside an
\* active one without the user's choice, whatever the handlers, keys and crashes: the
\* lease carries the workspace check of create_task_after_workspace_decision over to
\* its insert.
THEOREM NoParallelTaskUnasked ==
    ASSUME MaxSlow = 0 PROVE Spec => ParallelOnlyByChoice
<1>1. Init => SerialInv
  <2> SUFFICES ASSUME Init PROVE SerialInv
    OBVIOUS
  <2>1. TypeOK
    BY InitInv DEF CreateInv
  <2>2. \A r \in Requests : request[r].pc = "idle"
    BY DEF Init, Idle
  <2> QED BY <2>1, <2>2 DEF SerialInv, LeaseInv, QuietInv, Held
<1>2. SerialInv /\ TypeOK' /\ [Next]_vars => SerialInv'
  <2> SUFFICES ASSUME SerialInv, TypeOK', [Next]_vars PROVE SerialInv'
    OBVIOUS
  <2>1. CASE UNCHANGED vars
    BY <2>1 DEF vars, SerialInv, LeaseInv, QuietInv, ActiveTasks
  <2>2. CASE Next
    BY <2>2, SerialHandle, SerialOther DEF Next
  <2> QED BY <2>1, <2>2
<1>3. CreateInv => TypeOK
  BY DEF CreateInv
<1>4. SerialInv => \A r \in Requests :
        (/\ request[r].pc = "create" /\ request'[r].pc = "build"
         /\ request[r].policy # "continue_background") => ActiveTasks = {}
  BY DEF SerialInv, QuietInv
<1> QED BY <1>1, <1>2, <1>3, <1>4, CreateInvariant, PTL DEF Spec, ParallelOnlyByChoice
=============================================================================
