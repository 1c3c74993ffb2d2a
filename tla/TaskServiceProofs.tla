--------------------------- MODULE TaskServiceProofs ---------------------------
(***************************************************************************)
(* Proofs about TaskService: the workspace write lock and the end of a      *)
(* task, for every number of workspaces, tasks, handlers, phases and        *)
(* restarts.                                                                *)
(***************************************************************************)
EXTENDS TaskService, FiniteSetTheorems, WellFoundedInduction, TLAPS

\* d is a pair of task tables: the rows, and the order of their updates, which is only
\* kept if the list of tasks can be full.
Tables(d) ==
    /\ d.row \in [Created -> Row]
    /\ d.newer \subseteq Created \X Created
    /\ MaxTasks <= ListLimit => d.newer = {}

\* A row r becomes q without a task of the lock waking up: only what is active stays
\* active, nothing goes back to waiting for a slot, and none comes under the lock.
Moved(r, q) ==
    /\ q.ws = r.ws /\ q.orch = r.orch
    /\ r.tree => q.tree
    /\ r.forced => q.forced
    /\ ~r.orch /\ q.st \in Active => r.st \in Active
    /\ q.st = "waiting_slot" => r.st = "waiting_slot" /\ q.thread = r.thread

\* The row p is q, with the time of its last update.
Stamped(p, q) ==
    /\ p \in Row /\ p.st = q.st /\ p.ws = q.ws /\ p.thread = q.thread /\ p.orch = q.orch
    /\ p.tree = q.tree /\ p.forced = q.forced

\* Tables d become e, each row by such a move.
Calm(d, e) == Tables(e) /\ \A t \in Created : Moved(d.row[t], e.row[t])

\* A handler works on, and a thread belongs to, a task that has its slot; a
\* chief-engineer run drives only tasks it started.
Placed ==
    /\ \A j \in jobs : db.row[j.t].st # "waiting_slot"
    /\ \A t \in Created : db.row[t].thread => db.row[t].st # "waiting_slot"
    /\ \A t \in Created : run[t] > 0 => db.row[t].orch
    /\ MaxTasks <= ListLimit => db.newer = {}

\* The inductive invariant of the tasks, but for the lock.
TaskInv == TypeOK /\ Placed

\* No task of the lock that has ended is active after the step.
NoneWakes ==
    \A t \in Created : ~db.row[t].orch /\ db.row[t].st \in Terminal \cup {"archived"}
                          => db'.row[t].st \notin Active

\* The types, field by field.
LEMMA TaskFacts ==
    ASSUME TaskInv
    PROVE  /\ count \in Nat /\ count <= MaxTasks /\ Created \subseteq Ids /\ Ids \subseteq Nat
           /\ db = [row |-> db.row, newer |-> db.newer] /\ Tables(db)
           /\ \A t \in Created : db.row[t] \in Row
           /\ run \in [Created -> Nat] /\ jobs \subseteq Job
           /\ \A j \in jobs : j.t \in Created /\ db.row[j.t] \in Row
           /\ "waiting_slot" \notin Active
<1>1. TypeOK /\ Placed
  BY DEF TaskInv
<1>2. count \in Nat /\ count <= MaxTasks /\ Created \subseteq Ids /\ Ids \subseteq Nat
  BY <1>1, TaskAssumption DEF TypeOK, Created, Ids
<1>3. db \in [row : [Created -> Row], newer : SUBSET (Created \X Created)]
  BY <1>1 DEF TypeOK
<1> DEFINE F == [Created -> Row]
           S == SUBSET (Created \X Created)
<1>4. /\ db = [row |-> db.row, newer |-> db.newer] /\ db.row \in F /\ db.newer \in S
  <2> HIDE DEF F, S
  <2>1. db \in [row : F, newer : S]
    BY <1>3 DEF F, S
  <2> QED BY <2>1
<1>5. Tables(db)
  BY <1>1, <1>4 DEF Tables, Placed
<1>6. \A t \in Created : db.row[t] \in Row
  BY <1>4
<1>7. run \in [Created -> Nat] /\ jobs \subseteq Job /\ \A j \in jobs : j.t \in Created
  BY <1>1, TaskAssumption DEF TypeOK
<1> QED BY <1>2, <1>4, <1>5, <1>6, <1>7 DEF Active

\* Tables with typed parts are typed.
LEMMA TablesType ==
    ASSUME Tables(db'), db' = [row |-> db'.row, newer |-> db'.newer]
    PROVE  db' \in [row : [Created -> Row], newer : SUBSET (Created \X Created)]
<1> DEFINE F == [Created -> Row]
           S == SUBSET (Created \X Created)
           x == db'.row
           y == db'.newer
<1>1. x \in F /\ y \in S
  BY DEF Tables
<1> HIDE DEF F, S, x, y
<1>2. [row |-> x, newer |-> y] \in [row : F, newer : S]
  BY <1>1
<1> QED BY <1>2 DEF F, S, x, y

\* A row is written.
LEMMA WriteTables ==
    ASSUME NEW d, Tables(d), NEW t \in Created, NEW q \in Row
    PROVE  /\ Tables(Write(d, t, q))
           /\ Write(d, t, q) = [row |-> Write(d, t, q).row, newer |-> Write(d, t, q).newer]
           /\ \A u \in Created \ {t} : Write(d, t, q).row[u] = d.row[u]
           /\ Stamped(Write(d, t, q).row[t], q)
<1> DEFINE x == [q EXCEPT !.late = FALSE]
           R == [d.row EXCEPT ![t] = x]
           P == {p \in d.newer : p[1] # t /\ p[2] # t} \cup {<<t, u>> : u \in Created \ {t}}
           N == Order(P)
           w == Write(d, t, q)
<1>1. w = [row |-> R, newer |-> N]
  BY DEF Write
<1>2. Stamped(x, q)
  BY DEF Row, Stamped
<1> HIDE DEF x
<1>3. /\ R \in [Created -> Row] /\ R[t] = x
      /\ \A u \in Created \ {t} : R[u] = d.row[u]
  BY <1>2 DEF Tables, Stamped
<1>4. P \subseteq Created \X Created
  BY DEF Tables
<1>5. N \subseteq Created \X Created /\ (MaxTasks <= ListLimit => N = {})
  BY <1>4 DEF Order
<1> HIDE DEF R, N, w, P
<1>6. w.row = R /\ w.newer = N
  BY <1>1
<1>7. Tables(w)
  BY <1>3, <1>5, <1>6 DEF Tables
<1> QED BY <1>1, <1>2, <1>3, <1>6, <1>7 DEF w

\* One row is written by a move.
LEMMA WriteCalm ==
    ASSUME NEW d, Tables(d), NEW t \in Created, NEW q \in Row, Moved(d.row[t], q)
    PROVE  Calm(d, Write(d, t, q))
<1> DEFINE w == Write(d, t, q)
<1>1. /\ Tables(w) /\ Stamped(w.row[t], q)
      /\ \A u \in Created \ {t} : w.row[u] = d.row[u]
  BY WriteTables
<1> HIDE DEF w
<1>2. \A u \in Created : Moved(d.row[u], d.row[u])
  BY DEF Moved
<1>3. Moved(d.row[t], w.row[t])
  BY <1>1 DEF Moved, Stamped
<1> QED BY <1>1, <1>2, <1>3 DEF Calm, w

\* Moves compose.
LEMMA CalmTrans ==
    ASSUME NEW d, NEW e, NEW f, Calm(d, e), Calm(e, f)
    PROVE  Calm(d, f)
BY DEF Calm, Moved

\* What a step writes is typed.
LEMMA TypesStep ==
    ASSUME TaskInv, count' = count, Tables(db'),
           db' = [row |-> db'.row, newer |-> db'.newer],
           run' \in [Created -> 0 .. MaxPhases + 1],
           jobs' \subseteq Job, \A j \in jobs' : j.t \in Created,
           todrain' \in SUBSET ({"startup", "watchdog"} \X Workspaces),
           loops' \in SUBSET {"pump", "watchdog"}, frozen' \in BOOLEAN,
           restarts' \in 0 .. MaxRestarts
    PROVE  TypeOK'
<1>0. Created' = Created
  BY DEF Created
<1>1. db' \in [row : [Created -> Row], newer : SUBSET (Created \X Created)]
  BY TablesType
<1> HIDE DEF Created
<1>2. (db \in [row : [Created -> Row], newer : SUBSET (Created \X Created)])'
  BY <1>0, <1>1 DEF Row, Status, Active, Terminal
<1>3. (run \in [Created -> 0 .. MaxPhases + 1])' /\ (jobs \in SUBSET Job)'
      /\ \A j \in jobs' : j.t \in Created'
  BY <1>0 DEF Job, Calls, Callers, Ids
<1>4. (todrain \in SUBSET ({"startup", "watchdog"} \X Workspaces))'
      /\ (count \in 0 .. MaxTasks)' /\ (restarts \in 0 .. MaxRestarts)'
  BY DEF TaskInv, TypeOK
<1>5. (loops \in SUBSET {"pump", "watchdog"})' /\ (frozen \in BOOLEAN)'
  OBVIOUS
<1> QED BY <1>2, <1>3, <1>4, <1>5 DEF TypeOK

\* A step all of whose rows move calmly keeps the invariant and the lock, and wakes
\* nothing.
LEMMA CalmStep ==
    ASSUME TaskInv, count' = count, Calm(db, db'),
           db' = [row |-> db'.row, newer |-> db'.newer],
           run' \in [Created -> 0 .. MaxPhases + 1],
           \A t \in Created : run'[t] > 0 => run[t] > 0 \/ db.row[t].orch,
           jobs' \subseteq Job,
           \A j \in jobs' : j.t \in Created /\ db.row[j.t].st # "waiting_slot",
           \A t \in Created : db'.row[t].thread => db'.row[t].st # "waiting_slot",
           todrain' \in SUBSET ({"startup", "watchdog"} \X Workspaces),
           loops' \in SUBSET {"pump", "watchdog"}, frozen' \in BOOLEAN,
           restarts' \in 0 .. MaxRestarts
    PROVE  TaskInv' /\ (OneWriterPerWorkspace => OneWriterPerWorkspace') /\ NoneWakes
<1>1. Created' = Created
  BY DEF Created
<1>2. TypeOK'
  BY TypesStep DEF Calm
<1>3. \A t \in Created : Moved(db.row[t], db'.row[t]) /\ (MaxTasks <= ListLimit => db'.newer = {})
  BY DEF Calm, Tables
<1>4. Placed'
  <2>1. \A j \in jobs' : db'.row[j.t].st # "waiting_slot"
    BY <1>3 DEF Moved
  <2>2. \A t \in Created : run'[t] > 0 => db'.row[t].orch
    BY <1>3 DEF TaskInv, Placed, Moved
  <2>3. MaxTasks <= ListLimit => db'.newer = {}
    BY DEF Calm, Tables
  <2> QED BY <1>1, <2>1, <2>2, <2>3 DEF Placed
<1>5. OneWriterPerWorkspace => OneWriterPerWorkspace'
  BY <1>1, <1>3 DEF OneWriterPerWorkspace, Locked, Moved, Active
<1>6. NoneWakes
  BY <1>3 DEF NoneWakes, Moved, Active, Terminal
<1> QED BY <1>2, <1>4, <1>5, <1>6 DEF TaskInv

\* A set of naturals that is not empty has a least element.
LEMMA LeastNat == ASSUME NEW S, S \subseteq Nat, S # {} PROVE \E x \in S : \A y \in S : x <= y
<1>1. PICK x \in S : \A y \in S : ~(<<y, x>> \in OpToRel(<, Nat))
  BY WFMin, NatLessThanWellFounded
<1>2. \A y \in S : ~(y < x)
  BY <1>1 DEF OpToRel
<1> QED BY <1>2

\* While the list of tasks is not full, a workspace without a blocker has no active task
\* outside worktrees.
LEMMA NoBlocker ==
    ASSUME TaskInv, MaxTasks <= ListLimit, NEW d, Tables(d), NEW w, NEW exclude,
           Blockers(d, w, exclude) = {}
    PROVE  \A u \in Created \ exclude :
               d.row[u].ws = w /\ ~d.row[u].tree => d.row[u].st \notin Active
<1> SUFFICES ASSUME NEW u \in Created \ exclude, d.row[u].ws = w, ~d.row[u].tree,
                    d.row[u].st \in Active
             PROVE  FALSE
  OBVIOUS
<1>1. d.newer = {}
  BY DEF Tables
<1>2. {v \in Created : d.row[v].st # "archived" /\ <<v, u>> \in d.newer} = {}
  BY <1>1
<1>3. Cardinality({v \in Created : d.row[v].st # "archived" /\ <<v, u>> \in d.newer}) = 0
  BY <1>2, FS_EmptySet
<1>4. 0 < ListLimit
  <2>1. u \in 1 .. count /\ count \in Nat /\ count <= MaxTasks
    BY TaskFacts DEF Created
  <2> QED BY <2>1, TaskAssumption
<1>5. d.row[u].st # "archived"
  BY DEF Active
<1>6. u \in Listed(d)
  BY <1>3, <1>4, <1>5 DEF Listed
<1> QED BY <1>6 DEF Blockers

\* A drain leaves the tables calmly, or promotes one waiting task of a workspace that
\* has no blocker and creates its thread.
LEMMA DrainFacts ==
    ASSUME TaskInv, NEW d, Tables(d), d = [row |-> d.row, newer |-> d.newer],
           NEW w, NEW by \in Callers
    PROVE  LET r == Drain(d, w, by) IN
           \/ r.jobs = {} /\ Calm(d, r.db) /\ r.db = [row |-> r.db.row, newer |-> r.db.newer]
              /\ \A u \in Created : r.db.row[u].thread = d.row[u].thread
           \/ \E t \in Created :
                 /\ d.row[t].st = "waiting_slot" /\ d.row[t].ws = w /\ Blockers(d, w, {}) = {}
                 /\ Tables(r.db) /\ r.db = [row |-> r.db.row, newer |-> r.db.newer]
                 /\ \A u \in Created \ {t} : r.db.row[u] = d.row[u]
                 /\ r.db.row[t].st = "queued" /\ r.db.row[t].ws = w
                 /\ r.db.row[t].orch = d.row[t].orch
                 /\ r.jobs = {Await("create_thread", t, by)}
<1> DEFINE r == Drain(d, w, by)
           waiting == {t \in Created : d.row[t].ws = w /\ d.row[t].st = "waiting_slot"}
           first == CHOOSE t \in waiting : \A u \in waiting : t <= u
<1>1. r = IF Blockers(d, w, {}) # {} \/ waiting = {}
          THEN [db |-> d, jobs |-> {}]
          ELSE IF frozen
          THEN [db |-> SetStatus(d, first, "failed"), jobs |-> {}]
          ELSE [db |-> SetStatus(d, first, "queued"), jobs |-> {Await("create_thread", first, by)}]
  BY DEF Drain
<1>2. waiting # {} => first \in waiting
  <2> HIDE DEF waiting
  <2>1. waiting \subseteq Nat
    BY TaskFacts DEF waiting
  <2>2. waiting # {} => \E x \in waiting : \A y \in waiting : x <= y
    BY <2>1, LeastNat
  <2> QED BY <2>2
<1> HIDE DEF r, first
<1>3. CASE Blockers(d, w, {}) # {} \/ waiting = {}
  <2>1. r.db = d /\ r.jobs = {}
    BY <1>1, <1>3
  <2>2. Calm(d, d)
    BY DEF Calm, Moved
  <2> QED BY <2>1, <2>2 DEF r
<1>4. ASSUME Blockers(d, w, {}) = {}, waiting # {}, NEW st \in {"failed", "queued"}
      PROVE  LET q == [d.row[first] EXCEPT !.st = st] IN
             /\ first \in Created /\ d.row[first].st = "waiting_slot" /\ d.row[first].ws = w
             /\ q \in Row /\ q.st = st /\ q.ws = w /\ q.orch = d.row[first].orch
             /\ q.thread = d.row[first].thread
             /\ q.tree = d.row[first].tree /\ q.forced = d.row[first].forced
             /\ SetStatus(d, first, st) = Write(d, first, q)
  <2>1. first \in Created /\ d.row[first].st = "waiting_slot" /\ d.row[first].ws = w
    BY <1>2, <1>4
  <2>2. d.row[first] \in Row
    BY <2>1 DEF Tables
  <2> QED BY <2>1, <2>2 DEF Row, Status, Active, Terminal, SetStatus
<1>5. CASE Blockers(d, w, {}) = {} /\ waiting # {} /\ frozen
  <2> DEFINE q == [d.row[first] EXCEPT !.st = "failed"]
  <2>1. /\ first \in Created /\ d.row[first].st = "waiting_slot" /\ d.row[first].ws = w
        /\ q \in Row /\ q.st = "failed" /\ q.ws = w /\ q.orch = d.row[first].orch
        /\ q.thread = d.row[first].thread
        /\ q.tree = d.row[first].tree /\ q.forced = d.row[first].forced
        /\ SetStatus(d, first, "failed") = Write(d, first, q)
    BY <1>4, <1>5
  <2> HIDE DEF q
  <2>2. r.db = Write(d, first, q) /\ r.jobs = {}
    BY <1>1, <1>5, <2>1
  <2>3. Moved(d.row[first], q)
    BY <2>1 DEF Moved, Active
  <2>4. Calm(d, Write(d, first, q))
    BY <2>1, <2>3, WriteCalm
  <2>5. /\ Write(d, first, q) = [row |-> Write(d, first, q).row, newer |-> Write(d, first, q).newer]
        /\ \A u \in Created \ {first} : Write(d, first, q).row[u] = d.row[u]
        /\ Write(d, first, q).row[first].thread = q.thread
    BY <2>1, WriteTables DEF Stamped
  <2> QED BY <2>1, <2>2, <2>4, <2>5 DEF r
<1>6. CASE Blockers(d, w, {}) = {} /\ waiting # {} /\ ~frozen
  <2> DEFINE q == [d.row[first] EXCEPT !.st = "queued"]
  <2>1. /\ first \in Created /\ d.row[first].st = "waiting_slot" /\ d.row[first].ws = w
        /\ q \in Row /\ q.st = "queued" /\ q.ws = w /\ q.orch = d.row[first].orch
        /\ SetStatus(d, first, "queued") = Write(d, first, q)
    BY <1>4, <1>6
  <2> HIDE DEF q
  <2>2. r.db = Write(d, first, q) /\ r.jobs = {Await("create_thread", first, by)}
    BY <1>1, <1>6, <2>1
  <2>3. /\ Tables(Write(d, first, q))
        /\ Write(d, first, q) = [row |-> Write(d, first, q).row, newer |-> Write(d, first, q).newer]
        /\ \A u \in Created \ {first} : Write(d, first, q).row[u] = d.row[u]
        /\ Stamped(Write(d, first, q).row[first], q)
    BY <2>1, WriteTables
  <2> QED BY <1>6, <2>1, <2>2, <2>3 DEF r, Stamped
<1> QED BY <1>3, <1>5, <1>6

\* What a handler waits for is typed.
LEMMA AwaitType ==
    ASSUME TaskInv, NEW call \in Calls, NEW t \in Created, NEW by \in Callers
    PROVE  Await(call, t, by) \in Job /\ Await(call, t, by).t = t
<1>1. t \in Ids
  BY TaskFacts
<1> QED BY <1>1 DEF Await, Job

\* A step that moves the rows calmly to d and then drains a workspace.
LEMMA DrainStep ==
    ASSUME TaskInv, NEW d, Calm(db, d), d = [row |-> d.row, newer |-> d.newer],
           \A t \in Created : d.row[t].thread => d.row[t].st # "waiting_slot",
           NEW w, NEW by \in Callers, NEW J, ThenDrain(d, w, by, J),
           todrain' \in SUBSET ({"startup", "watchdog"} \X Workspaces),
           UNCHANGED <<count, run, loops, frozen, restarts>>
    PROVE  /\ TaskInv' /\ NoneWakes
           /\ MaxTasks <= ListLimit /\ OneWriterPerWorkspace => OneWriterPerWorkspace'
<1> DEFINE r == Drain(d, w, by)
<1>1. db' = r.db /\ jobs' = (jobs \ J) \cup r.jobs
  BY DEF ThenDrain
<1>2. Tables(d) /\ \A t \in Created : Moved(db.row[t], d.row[t])
  BY DEF Calm
<1>3. /\ run' \in [Created -> 0 .. MaxPhases + 1] /\ loops' \in SUBSET {"pump", "watchdog"}
      /\ frozen' \in BOOLEAN /\ restarts' \in 0 .. MaxRestarts
  BY DEF TaskInv, TypeOK
<1>4. jobs \subseteq Job /\ \A j \in jobs : j.t \in Created /\ db.row[j.t].st # "waiting_slot"
  BY TaskFacts DEF TaskInv, Placed
<1>5. CASE /\ r.jobs = {} /\ Calm(d, r.db) /\ r.db = [row |-> r.db.row, newer |-> r.db.newer]
           /\ \A u \in Created : r.db.row[u].thread = d.row[u].thread
  <2>1. Calm(db, db')
    BY <1>1, <1>5, CalmTrans
  <2>2. \A t \in Created : db'.row[t].thread => db'.row[t].st # "waiting_slot"
    BY <1>1, <1>5 DEF Calm, Moved
  <2>3. db' = [row |-> db'.row, newer |-> db'.newer] /\ jobs' \subseteq Job
        /\ \A j \in jobs' : j.t \in Created /\ db.row[j.t].st # "waiting_slot"
    BY <1>1, <1>4, <1>5
  <2> QED BY <1>3, <2>1, <2>2, <2>3, CalmStep
<1>6. ASSUME NEW t \in Created,
             d.row[t].st = "waiting_slot", d.row[t].ws = w, Blockers(d, w, {}) = {},
             Tables(r.db), r.db = [row |-> r.db.row, newer |-> r.db.newer],
             \A u \in Created \ {t} : r.db.row[u] = d.row[u],
             r.db.row[t].st = "queued", r.db.row[t].ws = w,
             r.db.row[t].orch = d.row[t].orch,
             r.jobs = {Await("create_thread", t, by)}
      PROVE  /\ TaskInv' /\ NoneWakes
             /\ MaxTasks <= ListLimit /\ OneWriterPerWorkspace => OneWriterPerWorkspace'
  <2> HIDE DEF r
  <2>1. db.row[t].st = "waiting_slot" /\ db.row[t].orch = d.row[t].orch
    BY <1>2, <1>6 DEF Moved
  <2>2. Await("create_thread", t, by) \in Job /\ Await("create_thread", t, by).t = t
    BY AwaitType DEF Calls
  <2>3. jobs' \subseteq Job /\ \A j \in jobs' : j.t \in Created /\ (j \in jobs \/ j.t = t)
    BY <1>1, <1>4, <1>6, <2>2
  <2>4. TypeOK'
    BY <1>1, <1>3, <1>6, <2>3, TypesStep
  <2>5. Created' = Created
    BY DEF Created
  <2>6. Placed'
    <3>1. \A j \in jobs' : db'.row[j.t].st # "waiting_slot"
      <4> SUFFICES ASSUME NEW j \in jobs' PROVE db'.row[j.t].st # "waiting_slot"
        OBVIOUS
      <4>1. CASE j.t = t
        BY <1>1, <1>6, <4>1
      <4>2. CASE j \in jobs /\ j.t # t
        <5>1. db'.row[j.t] = d.row[j.t] /\ Moved(db.row[j.t], d.row[j.t])
          BY <1>1, <1>2, <1>4, <1>6, <4>2
        <5> QED BY <1>4, <4>2, <5>1 DEF Moved
      <4> QED BY <2>3, <4>1, <4>2
    <3>2. \A u \in Created : db'.row[u].thread => db'.row[u].st # "waiting_slot"
      BY <1>1, <1>6
    <3>3. \A u \in Created : run'[u] > 0 => db'.row[u].orch
      BY <1>1, <1>2, <1>6 DEF TaskInv, Placed, Moved
    <3>4. MaxTasks <= ListLimit => db'.newer = {}
      BY <1>1, <1>6 DEF Tables
    <3> QED BY <2>5, <3>1, <3>2, <3>3, <3>4 DEF Placed
  <2>7. NoneWakes
    <3>1. \A u \in Created \ {t} : Moved(db.row[u], db'.row[u])
      BY <1>1, <1>2, <1>6
    <3> QED BY <2>1, <3>1 DEF NoneWakes, Moved, Terminal, Active
  <2>8. ASSUME MaxTasks <= ListLimit, OneWriterPerWorkspace PROVE OneWriterPerWorkspace'
    <3>1. \A u \in Created : d.row[u].ws = w /\ ~d.row[u].tree => d.row[u].st \notin Active
      BY <1>2, <1>6, <2>8, NoBlocker
    <3>2. \A u \in Created \ {t} : db'.row[u] = d.row[u] /\ Moved(db.row[u], d.row[u])
      BY <1>1, <1>2, <1>6
    <3>3. \A u \in Created \ {t} : db'.row[u].ws = db'.row[t].ws /\ ~db'.row[u].tree
                                       => db'.row[u].st \notin Active
      BY <1>1, <1>6, <3>1, <3>2
    <3> SUFFICES ASSUME NEW a \in Created, NEW b \in Created, a # b,
                        db'.row[a].ws = db'.row[b].ws, ~db'.row[a].orch, ~db'.row[b].orch,
                        ~db'.row[a].tree, ~db'.row[a].forced, ~db'.row[b].tree,
                        ~db'.row[b].forced, db'.row[a].st \in Active, db'.row[b].st \in Active
                 PROVE  FALSE
      BY <2>5 DEF OneWriterPerWorkspace, Locked, Active
    <3>4. a # t /\ b # t
      BY <3>3
    <3> QED BY <2>8, <3>2, <3>4 DEF OneWriterPerWorkspace, Locked, Moved
  <2> QED BY <2>4, <2>6, <2>7, <2>8 DEF TaskInv
<1>7. \/ /\ r.jobs = {} /\ Calm(d, r.db) /\ r.db = [row |-> r.db.row, newer |-> r.db.newer]
         /\ \A u \in Created : r.db.row[u].thread = d.row[u].thread
      \/ \E t \in Created :
            /\ d.row[t].st = "waiting_slot" /\ d.row[t].ws = w /\ Blockers(d, w, {}) = {}
            /\ Tables(r.db) /\ r.db = [row |-> r.db.row, newer |-> r.db.newer]
            /\ \A u \in Created \ {t} : r.db.row[u] = d.row[u]
            /\ r.db.row[t].st = "queued" /\ r.db.row[t].ws = w
            /\ r.db.row[t].orch = d.row[t].orch
            /\ r.jobs = {Await("create_thread", t, by)}
  BY <1>2, DrainFacts
<1> HIDE DEF r
<1> QED BY <1>5, <1>6, <1>7

\* What every step but the continue command does.
StepKeeps ==
    /\ TaskInv' /\ NoneWakes
    /\ MaxTasks <= ListLimit /\ OneWriterPerWorkspace => OneWriterPerWorkspace'

\* A step that writes no row; the handlers that remain work on tasks with a slot.
LEMMA RowsKept ==
    ASSUME TaskInv, UNCHANGED <<count, db, run>>,
           jobs' \subseteq Job,
           \A j \in jobs' : j.t \in Created /\ db.row[j.t].st # "waiting_slot",
           todrain' \in SUBSET ({"startup", "watchdog"} \X Workspaces),
           loops' \in SUBSET {"pump", "watchdog"}, frozen' \in BOOLEAN,
           restarts' \in 0 .. MaxRestarts
    PROVE  StepKeeps
<1>1. Calm(db, db') /\ db' = [row |-> db'.row, newer |-> db'.newer]
  BY TaskFacts DEF Calm, Moved
<1>2. run' \in [Created -> 0 .. MaxPhases + 1] /\ \A t \in Created : run'[t] > 0 => run[t] > 0
  BY DEF TaskInv, TypeOK
<1>3. \A t \in Created : db'.row[t].thread => db'.row[t].st # "waiting_slot"
  BY DEF TaskInv, Placed
<1> QED BY <1>1, <1>2, <1>3, CalmStep DEF StepKeeps

\* A step that writes one row by a move.
LEMMA RowMoves ==
    ASSUME TaskInv, NEW t \in Created, NEW q \in Row, Moved(db.row[t], q),
           q.thread => q.st # "waiting_slot",
           db' = Write(db, t, q), count' = count,
           run' \in [Created -> 0 .. MaxPhases + 1],
           \A u \in Created : run'[u] > 0 => run[u] > 0,
           jobs' \subseteq Job,
           \A j \in jobs' : j.t \in Created /\ db.row[j.t].st # "waiting_slot",
           todrain' \in SUBSET ({"startup", "watchdog"} \X Workspaces),
           loops' \in SUBSET {"pump", "watchdog"}, UNCHANGED <<frozen, restarts>>
    PROVE  StepKeeps
<1>1. Tables(db)
  BY TaskFacts
<1>2. Calm(db, db')
  BY <1>1, WriteCalm
<1>3. /\ db' = [row |-> db'.row, newer |-> db'.newer]
      /\ \A u \in Created \ {t} : db'.row[u] = db.row[u]
      /\ Stamped(db'.row[t], q)
  BY <1>1, WriteTables
<1>4. \A u \in Created : db'.row[u].thread => db'.row[u].st # "waiting_slot"
  BY <1>3 DEF TaskInv, Placed, Stamped
<1>5. frozen' \in BOOLEAN /\ restarts' \in 0 .. MaxRestarts
  BY DEF TaskInv, TypeOK
<1> QED BY <1>2, <1>3, <1>4, <1>5, CalmStep DEF StepKeeps

\* The variables most steps leave alone keep their types, and the handlers their tasks.
LEMMA Rest ==
    ASSUME TaskInv
    PROVE  /\ run \in [Created -> 0 .. MaxPhases + 1]
           /\ todrain \in SUBSET ({"startup", "watchdog"} \X Workspaces)
           /\ loops \in SUBSET {"pump", "watchdog"} /\ frozen \in BOOLEAN
           /\ restarts \in 0 .. MaxRestarts
           /\ jobs \subseteq Job
           /\ \A j \in jobs : j.t \in Created /\ db.row[j.t].st # "waiting_slot"
           /\ \A t \in Created : db.row[t] \in Row
           /\ \A t \in Created : db.row[t].thread => db.row[t].st # "waiting_slot"
           /\ \A t \in Created : run[t] > 0 => db.row[t].orch
BY TaskFacts DEF TaskInv, TypeOK, Placed

\* reserve_task and reserve_waiting_task: a row is inserted; it is active only if it found
\* no blocker.
LEMMA InsertStep ==
    ASSUME TaskInv, NEW q \in Row, NEW phases \in 0 .. MaxPhases + 1, Insert(q, phases),
           phases > 0 => q.orch, ~q.thread,
           q.st \in Active => Blockers(db, q.ws, {}) = {},
           jobs' = jobs \/ (/\ q.st # "waiting_slot"
                            /\ jobs' = jobs \cup {Await("create_thread", count + 1, "command")}),
           UNCHANGED <<todrain, loops, frozen, restarts>>
    PROVE  StepKeeps
<1> DEFINE n == count + 1
           N == Order(db.newer \cup {<<n, u>> : u \in Created})
           R == [u \in 1 .. n |-> IF u = n THEN q ELSE db.row[u]]
<1>1. /\ count \in Nat /\ count < MaxTasks /\ count' = n /\ MaxTasks \in Nat
      /\ db' = [row |-> R, newer |-> N]
      /\ run' = [u \in 1 .. n |-> IF u = n THEN phases ELSE run[u]]
  BY TaskFacts, TaskAssumption DEF Insert
<1>2. /\ Created = 1 .. count /\ Created' = 1 .. n /\ n \in Created' /\ n \in Nat
      /\ \A u \in Created' : u = n \/ u \in Created
      /\ \A u \in Created : u \in Created' /\ u # n
  BY <1>1 DEF Created
<1>3. db'.row = R /\ db'.newer = N
  BY <1>1
<1>4. /\ \A u \in Created : db.row[u] \in Row
      /\ R \in [1 .. n -> Row] /\ R[n] = q /\ \A u \in Created : R[u] = db.row[u]
  BY <1>1, <1>2, TaskFacts
<1>5. /\ run' \in [1 .. n -> 0 .. MaxPhases + 1] /\ run'[n] = phases
      /\ \A u \in Created : run'[u] = run[u]
  BY <1>1, <1>2, Rest
<1>6. N \subseteq (1 .. n) \X (1 .. n) /\ (MaxTasks <= ListLimit => N = {})
  <2>1. db.newer \subseteq Created \X Created
    BY TaskFacts DEF Tables
  <2> QED BY <1>2, <2>1 DEF Order
<1> HIDE DEF n, N, R
<1>7. /\ jobs' \subseteq Job
      /\ \A j \in jobs' : /\ j.t \in Created'
                          /\ \/ j.t \in Created /\ j \in jobs
                             \/ j.t = n /\ q.st # "waiting_slot"
  <2>1. Await("create_thread", n, "command") \in Job /\ Await("create_thread", n, "command").t = n
    BY <1>1, <1>2 DEF Await, Job, Ids, Calls, Callers, n
  <2>2. jobs' = jobs \/ (/\ q.st # "waiting_slot"
                         /\ jobs' = jobs \cup {Await("create_thread", n, "command")})
    BY DEF n
  <2>3. jobs \subseteq Job /\ \A j \in jobs : j.t \in Created /\ j.t \in Created'
    BY <1>2, Rest
  <2>4. CASE jobs' = jobs
    BY <2>3, <2>4
  <2>5. CASE q.st # "waiting_slot" /\ jobs' = jobs \cup {Await("create_thread", n, "command")}
    BY <1>2, <2>1, <2>3, <2>5
  <2> QED BY <2>2, <2>4, <2>5
<1>8. TypeOK'
  <2>1. db' \in [row : [1 .. n -> Row], newer : SUBSET ((1 .. n) \X (1 .. n))]
    <3> DEFINE F == [1 .. n -> Row]
               S == SUBSET ((1 .. n) \X (1 .. n))
    <3>1. R \in F /\ N \in S
      BY <1>4, <1>6
    <3> HIDE DEF F, S
    <3>2. db' \in [row : F, newer : S]
      BY <1>1, <3>1
    <3> QED BY <3>2 DEF F, S
  <2>2. (db \in [row : [Created -> Row], newer : SUBSET (Created \X Created)])'
    <3> HIDE DEF Created
    <3> QED BY <1>2, <2>1 DEF Row, Status, Active, Terminal
  <2>3. (run \in [Created -> 0 .. MaxPhases + 1])' /\ (jobs \in SUBSET Job)'
        /\ \A j \in jobs' : j.t \in Created'
    <3> HIDE DEF Created
    <3> QED BY <1>2, <1>5, <1>7 DEF Job, Calls, Callers, Ids
  <2>4. (count \in 0 .. MaxTasks)'
    BY <1>1 DEF n
  <2>5. (todrain \in SUBSET ({"startup", "watchdog"} \X Workspaces))'
        /\ (restarts \in 0 .. MaxRestarts)'
        /\ (loops \in SUBSET {"pump", "watchdog"})' /\ (frozen \in BOOLEAN)'
    BY Rest
  <2> QED BY <2>2, <2>3, <2>4, <2>5 DEF TypeOK
<1>9. Placed'
  <2>1. \A j \in jobs' : db'.row[j.t].st # "waiting_slot"
    BY <1>3, <1>4, <1>7, Rest
  <2>2. \A t \in Created' : db'.row[t].thread => db'.row[t].st # "waiting_slot"
    BY <1>2, <1>3, <1>4, Rest
  <2>3. \A t \in Created' : run'[t] > 0 => db'.row[t].orch
    BY <1>2, <1>3, <1>4, <1>5, Rest
  <2> QED BY <1>3, <1>6, <2>1, <2>2, <2>3 DEF Placed
<1>10. NoneWakes
  BY <1>3, <1>4 DEF NoneWakes, Terminal, Active
<1>11. ASSUME MaxTasks <= ListLimit, OneWriterPerWorkspace PROVE OneWriterPerWorkspace'
  <2>1. q.st \in Active => \A u \in Created :
                               db.row[u].ws = q.ws /\ ~db.row[u].tree => db.row[u].st \notin Active
    BY <1>11, TaskFacts, NoBlocker
  <2> SUFFICES ASSUME NEW a \in Created', NEW b \in Created', a # b,
                      R[a].ws = R[b].ws, ~R[a].orch, ~R[b].orch,
                      ~R[a].tree, ~R[a].forced, ~R[b].tree, ~R[b].forced,
                      R[a].st \in Active, R[b].st \in Active
               PROVE  FALSE
    BY <1>3 DEF OneWriterPerWorkspace, Locked, Active
  <2>2. CASE a = n
    BY <1>2, <1>4, <2>1, <2>2
  <2>3. CASE b = n
    BY <1>2, <1>4, <2>1, <2>3
  <2>4. CASE a \in Created /\ b \in Created
    BY <1>4, <1>11, <2>4 DEF OneWriterPerWorkspace, Locked
  <2> QED BY <1>2, <2>2, <2>3, <2>4
<1> QED BY <1>8, <1>9, <1>10, <1>11 DEF StepKeeps, TaskInv
-----------------------------------------------------------------------------
(* One lemma per operation. *)

\* The commands that insert a row.
LEMMA StartStep ==
    ASSUME TaskInv, NEW w \in Workspaces, StartTask(w) \/ StartRun(w) PROVE StepKeeps
<1>1. ASSUME NEW st \in {"queued", "waiting_slot", "running"}, NEW orch \in BOOLEAN
      PROVE  /\ NewRow(st, w, orch) \in Row /\ ~NewRow(st, w, orch).thread
             /\ NewRow(st, w, orch).st = st /\ NewRow(st, w, orch).ws = w
             /\ NewRow(st, w, orch).orch = orch
  BY DEF NewRow, Row, Status, Active, Terminal
<1>2. CASE StartTask(w) /\ Blockers(db, w, {}) = {}
  <2> DEFINE q == NewRow("queued", w, FALSE)
  <2>1. Insert(q, 0) /\ jobs' = jobs \cup {Await("create_thread", count + 1, "command")}
        /\ UNCHANGED <<todrain, loops, frozen, restarts>>
    BY <1>2 DEF StartTask
  <2>2. q \in Row /\ ~q.thread /\ q.st = "queued" /\ q.ws = w
    BY <1>1
  <2> HIDE DEF q
  <2>3. 0 \in 0 .. MaxPhases + 1
    BY TaskAssumption
  <2> QED BY <1>2, <2>1, <2>2, <2>3, InsertStep
<1>3. CASE StartTask(w) /\ Blockers(db, w, {}) # {}
  <2> DEFINE q == NewRow("waiting_slot", w, FALSE)
  <2>1. Insert(q, 0) /\ jobs' = jobs /\ UNCHANGED <<todrain, loops, frozen, restarts>>
    BY <1>3 DEF StartTask
  <2>2. q \in Row /\ ~q.thread /\ q.st = "waiting_slot" /\ q.st \notin Active
    BY <1>1 DEF Active
  <2> HIDE DEF q
  <2>3. 0 \in 0 .. MaxPhases + 1
    BY TaskAssumption
  <2> QED BY <2>1, <2>2, <2>3, InsertStep
<1>4. CASE StartRun(w)
  <2> DEFINE q == NewRow("running", w, TRUE)
  <2>1. Insert(q, MaxPhases + 1) /\ jobs' = jobs /\ Blockers(db, w, {}) = {}
        /\ UNCHANGED <<todrain, loops, frozen, restarts>>
    BY <1>4 DEF StartRun
  <2>2. q \in Row /\ ~q.thread /\ q.ws = w /\ q.orch
    BY <1>1
  <2> HIDE DEF q
  <2>3. MaxPhases + 1 \in 0 .. MaxPhases + 1
    BY TaskAssumption
  <2> QED BY <2>1, <2>2, <2>3, InsertStep
<1> QED BY <1>2, <1>3, <1>4

LEMMA ForkStep == ASSUME TaskInv, NEW p \in Created, ForkTask(p) PROVE StepKeeps
<1> DEFINE w == db.row[p].ws
           q == NewRow("queued", w, FALSE)
<1>1. Insert(q, 0) /\ jobs' = jobs \cup {Await("create_thread", count + 1, "command")}
      /\ Blockers(db, w, {}) = {} /\ UNCHANGED <<todrain, loops, frozen, restarts>>
  BY DEF ForkTask
<1>2. w \in Workspaces
  BY Rest DEF Row
<1>3. q \in Row /\ ~q.thread /\ q.st = "queued" /\ q.ws = w
  BY <1>2 DEF NewRow, Row, Status, Active, Terminal
<1> HIDE DEF q, w
<1>4. 0 \in 0 .. MaxPhases + 1
  BY TaskAssumption
<1> QED BY <1>1, <1>3, <1>4, InsertStep

\* The commands that move one row, and the answer to an approval.
LEMMA MoveCommands ==
    ASSUME TaskInv, NEW t \in Created,
           PauseTask(t) \/ ArchiveTask(t) \/ SetupWorktree(t) \/ ApprovalsResolved(t)
    PROVE  StepKeeps
<1> DEFINE r == db.row[t]
<1>1. UNCHANGED <<count, run, jobs, todrain, loops, frozen, restarts>>
  BY DEF PauseTask, ArchiveTask, SetupWorktree, ApprovalsResolved
<1>2. r \in Row /\ (r.thread => r.st # "waiting_slot")
  BY Rest
<1>3. CASE PauseTask(t)
  <2> DEFINE q == [r EXCEPT !.st = "paused"]
  <2>1. db' = Write(db, t, q) /\ r.st \in {"running", "waiting_approval", "queued"}
    BY <1>3 DEF PauseTask, SetStatus
  <2>2. q \in Row /\ Moved(r, q) /\ q.st # "waiting_slot"
    BY <1>2, <2>1 DEF Row, Status, Active, Terminal, Moved
  <2> HIDE DEF q
  <2> QED BY <1>1, <2>1, <2>2, Rest, RowMoves
<1>4. CASE ArchiveTask(t)
  <2> DEFINE q == [r EXCEPT !.st = "archived"]
  <2>1. db' = Write(db, t, q)
    BY <1>4 DEF ArchiveTask, SetStatus
  <2>2. q \in Row /\ Moved(r, q) /\ q.st # "waiting_slot"
    BY <1>2, <2>1 DEF Row, Status, Active, Terminal, Moved
  <2> HIDE DEF q
  <2> QED BY <1>1, <2>1, <2>2, Rest, RowMoves
<1>5. CASE ApprovalsResolved(t)
  <2> DEFINE p == [r EXCEPT !.pending = FALSE]
             q == IF p.st = "waiting_approval" THEN [p EXCEPT !.st = "running"] ELSE p
  <2>1. db' = Write(db, t, q)
    BY <1>5 DEF ApprovalsResolved
  <2>2. q \in Row /\ Moved(r, q) /\ (q.thread => q.st # "waiting_slot")
    BY <1>2, <2>1 DEF Row, Status, Active, Terminal, Moved
  <2> HIDE DEF q
  <2> QED BY <1>1, <2>1, <2>2, Rest, RowMoves
<1>6. CASE SetupWorktree(t)
  <2> DEFINE q == [r EXCEPT !.tree = TRUE]
  <2>1. db' = Write(db, t, q)
    BY <1>6 DEF SetupWorktree
  <2>2. q \in Row /\ Moved(r, q) /\ (q.thread => q.st # "waiting_slot")
    BY <1>2 DEF Row, Moved
  <2> HIDE DEF q
  <2> QED BY <1>1, <2>1, <2>2, Rest, RowMoves
<1> QED BY <1>3, <1>4, <1>5, <1>6

\* A waiting task starts beside the lock: in a worktree, or in parallel by choice.
LEMMA ParallelStep ==
    ASSUME TaskInv, NEW t \in Created, ForceParallel(t) \/ StartWorktree(t) PROVE StepKeeps
<1> DEFINE r == db.row[t]
           q == IF ForceParallel(t) THEN [r EXCEPT !.st = "queued", !.forced = TRUE]
                                    ELSE [r EXCEPT !.st = "queued"]
<1>1. /\ db' = Write(db, t, q) /\ r.st = "waiting_slot"
      /\ UNCHANGED <<count, run, jobs, todrain, loops, frozen, restarts>>
  BY DEF ForceParallel, StartWorktree, SetStatus
<1>2. r \in Row /\ Tables(db)
  BY Rest, TaskFacts
<1>3. q \in Row /\ q.st = "queued" /\ q.orch = r.orch /\ (q.tree \/ q.forced)
  <2>1. CASE ForceParallel(t)
    BY <1>2, <2>1 DEF Row, Status, Active
  <2>2. CASE ~ForceParallel(t)
    BY <1>2, <2>2 DEF Row, Status, Active, StartWorktree
  <2> QED BY <2>1, <2>2
<1> HIDE DEF q
<1>4. /\ Tables(db') /\ db' = [row |-> db'.row, newer |-> db'.newer]
      /\ \A u \in Created \ {t} : db'.row[u] = db.row[u]
      /\ db'.row[t].st = "queued" /\ db'.row[t].orch = r.orch
      /\ db'.row[t].tree \/ db'.row[t].forced
  BY <1>1, <1>2, <1>3, WriteTables DEF Stamped
<1>5. TypeOK'
  BY <1>1, <1>4, Rest, TypesStep
<1>6. Created' = Created
  BY <1>1 DEF Created
<1>7. Placed'
  <2>1. \A u \in Created : /\ db'.row[u].thread => db'.row[u].st # "waiting_slot"
                           /\ run'[u] > 0 => db'.row[u].orch
    BY <1>1, <1>4, Rest
  <2>2. \A j \in jobs' : db'.row[j.t].st # "waiting_slot"
    BY <1>1, <1>4, Rest
  <2> QED BY <1>4, <1>6, <2>1, <2>2 DEF Placed, Tables
<1>8. NoneWakes
  BY <1>1, <1>4 DEF NoneWakes, Terminal, Active
<1>9. OneWriterPerWorkspace => OneWriterPerWorkspace'
  BY <1>4, <1>6 DEF OneWriterPerWorkspace, Locked, Active
<1> QED BY <1>5, <1>7, <1>8, <1>9 DEF StepKeeps, TaskInv

\* The turn of a task ends in a status that wakes nothing.
LEMMA EndTurnCalm ==
    ASSUME TaskInv, NEW t \in Created, NEW st \in Status,
           st \in Active /\ ~db.row[t].orch => db.row[t].st \in Active,
           st = "waiting_slot" => db.row[t].st = "waiting_slot"
    PROVE  LET d == EndTurn(db, t, st) IN
           /\ Calm(db, d) /\ d = [row |-> d.row, newer |-> d.newer]
           /\ d.row[t].st = st /\ d.row[t].ws = db.row[t].ws
           /\ \A u \in Created : d.row[u].thread => d.row[u].st # "waiting_slot"
<1> DEFINE r == db.row[t]
           q == [r EXCEPT !.st = st, !.turn = FALSE]
           d == EndTurn(db, t, st)
<1>1. r \in Row /\ (r.thread => r.st # "waiting_slot") /\ Tables(db)
  BY Rest, TaskFacts
<1>2. d = Write(db, t, q)
  BY DEF EndTurn
<1>3. /\ q \in Row /\ Moved(r, q) /\ q.st = st /\ q.ws = r.ws
      /\ (q.thread => q.st # "waiting_slot")
  BY <1>1 DEF Row, Moved
<1> HIDE DEF q, d
<1>4. Calm(db, d)
  BY <1>1, <1>2, <1>3, WriteCalm
<1>5. /\ d = [row |-> d.row, newer |-> d.newer]
      /\ \A u \in Created \ {t} : d.row[u] = db.row[u]
      /\ d.row[t].st = q.st /\ d.row[t].ws = q.ws /\ d.row[t].thread = q.thread
  BY <1>1, <1>2, <1>3, WriteTables DEF Stamped
<1>6. \A u \in Created : d.row[u].thread => d.row[u].st # "waiting_slot"
  BY <1>3, <1>5, Rest
<1> QED BY <1>3, <1>4, <1>5, <1>6 DEF d

\* The rows become the calm tables d, and the handlers of J are gone.
LEMMA CalmOnly ==
    ASSUME TaskInv, NEW d, Calm(db, d), d = [row |-> d.row, newer |-> d.newer],
           \A u \in Created : d.row[u].thread => d.row[u].st # "waiting_slot",
           db' = d, jobs' \subseteq jobs,
           UNCHANGED <<count, run, todrain, loops, frozen, restarts>>
    PROVE  StepKeeps
<1>1. /\ jobs' \subseteq Job
      /\ \A j \in jobs' : j.t \in Created /\ db.row[j.t].st # "waiting_slot"
      /\ run' \in [Created -> 0 .. MaxPhases + 1]
      /\ \A u \in Created : run'[u] > 0 => run[u] > 0
      /\ todrain' \in SUBSET ({"startup", "watchdog"} \X Workspaces)
      /\ loops' \in SUBSET {"pump", "watchdog"} /\ frozen' \in BOOLEAN
      /\ restarts' \in 0 .. MaxRestarts
  BY Rest
<1> QED BY <1>1, CalmStep DEF StepKeeps

\* abort_task with or without the drain of /abort.
LEMMA AbortNowStep ==
    ASSUME TaskInv, NEW t \in Created, NEW call, NEW J, AbortNow(t, call, J)
    PROVE  StepKeeps
<1> DEFINE d == EndTurn(db, t, "aborted")
           w == db.row[t].ws
<1>1. /\ Calm(db, d) /\ d = [row |-> d.row, newer |-> d.newer]
      /\ \A u \in Created : d.row[u].thread => d.row[u].st # "waiting_slot"
  BY EndTurnCalm DEF Status, Terminal, Active
<1>2. UNCHANGED <<count, run, todrain, loops, frozen, restarts>>
  BY DEF AbortNow
<1> HIDE DEF d, w
<1>3. CASE ThenDrain(d, w, "command", J)
  <2>1. "command" \in Callers /\ todrain' \in SUBSET ({"startup", "watchdog"} \X Workspaces)
    BY <1>2, Rest DEF Callers
  <2> QED BY <1>1, <1>2, <1>3, <2>1, DrainStep DEF StepKeeps
<1>4. CASE db' = d /\ jobs' = jobs \ J
  <2>1. jobs' \subseteq jobs
    BY <1>4
  <2> QED BY <1>1, <1>2, <1>4, <2>1, CalmOnly
<1>5. CASE jobs' = jobs \ J /\ UNCHANGED db
  BY <1>2, <1>5, Rest, RowsKept
<1> QED BY <1>3, <1>4, <1>5 DEF AbortNow, d, w

LEMMA AbortStep ==
    ASSUME TaskInv, NEW t \in Created, NEW call \in {"abort", "stop"}, AbortTask(t, call)
    PROVE  StepKeeps
<1>1. CASE db.row[t].turn /\ db.row[t].thread
  <2> DEFINE j == Await(call, t, "command")
  <2>1. jobs' = jobs \cup {j} /\ UNCHANGED <<count, db, run, todrain, loops, frozen, restarts>>
    BY <1>1 DEF AbortTask
  <2>2. j \in Job /\ j.t = t
    BY AwaitType DEF Calls, Callers
  <2> HIDE DEF j
  <2> QED BY <1>1, <2>1, <2>2, Rest, RowsKept
<1>2. CASE ~(db.row[t].turn /\ db.row[t].thread)
  BY <1>2, AbortNowStep DEF AbortTask
<1> QED BY <1>1, <1>2

\* The backend answers a handler.
LEMMA ThreadStep == ASSUME TaskInv, NEW j \in jobs, ThreadCreated(j) PROVE StepKeeps
<1> DEFINE t == j.t
           r == db.row[t]
           q == [r EXCEPT !.thread = TRUE]
           k == Await("start_turn", t, j.by)
<1>1. /\ db' = Write(db, t, q) /\ jobs' = (jobs \ {j}) \cup {k}
      /\ UNCHANGED <<count, run, todrain, loops, frozen, restarts>>
  BY DEF ThreadCreated
<1>2. t \in Created /\ r \in Row /\ r.st # "waiting_slot" /\ j.by \in Callers
  BY Rest DEF Job
<1>3. q \in Row /\ Moved(r, q) /\ q.st # "waiting_slot"
  BY <1>2 DEF Row, Moved
<1>4. k \in Job /\ k.t = t
  BY <1>2, AwaitType DEF Calls
<1> HIDE DEF q, k, t
<1>5. jobs' \subseteq Job /\ \A i \in jobs' : i.t \in Created /\ db.row[i.t].st # "waiting_slot"
  BY <1>1, <1>2, <1>4, Rest
<1>6. /\ run' \in [Created -> 0 .. MaxPhases + 1] /\ \A u \in Created : run'[u] > 0 => run[u] > 0
      /\ todrain' \in SUBSET ({"startup", "watchdog"} \X Workspaces)
      /\ loops' \in SUBSET {"pump", "watchdog"}
  BY <1>1, Rest
<1> QED BY <1>1, <1>2, <1>3, <1>5, <1>6, RowMoves

LEMMA AcceptedStep ==
    ASSUME TaskInv, NEW j \in jobs, TurnAccepted(j) \/ InterruptAnswered(j) PROVE StepKeeps
<1>1. CASE TurnAccepted(j)
  BY <1>1, Rest, RowsKept DEF TurnAccepted
<1>2. CASE InterruptAnswered(j)
  <2>1. j.t \in Created /\ AbortNow(j.t, j.call, {j})
    BY <1>2, Rest DEF InterruptAnswered
  <2> QED BY <2>1, AbortNowStep
<1> QED BY <1>1, <1>2

LEMMA CallFailedStep == ASSUME TaskInv, NEW j \in jobs, CallFailed(j) PROVE StepKeeps
<1> DEFINE r == db.row[j.t]
<1>1. j.t \in Created /\ r \in Row /\ r.st # "waiting_slot"
  BY Rest
<1>2. CASE CanFail(r.st)
  <2> DEFINE q == [r EXCEPT !.st = "failed"]
  <2>1. /\ db' = Write(db, j.t, q) /\ jobs' = jobs \ {j}
        /\ UNCHANGED <<count, run, todrain, loops, frozen, restarts>>
    BY <1>2 DEF CallFailed, SetStatus
  <2>2. q \in Row /\ Moved(r, q) /\ q.st # "waiting_slot"
    BY <1>1 DEF Row, Status, Active, Terminal, Moved
  <2> HIDE DEF q
  <2> QED BY <1>1, <2>1, <2>2, Rest, RowMoves
<1>3. CASE ~CanFail(r.st)
  <2>1. /\ jobs' \subseteq jobs /\ todrain' \subseteq todrain
        /\ loops' = {} \/ loops' = loops
        /\ UNCHANGED <<count, db, run, frozen, restarts>>
    BY <1>3 DEF CallFailed
  <2>2. /\ jobs' \subseteq Job
        /\ \A i \in jobs' : i.t \in Created /\ db.row[i.t].st # "waiting_slot"
        /\ todrain' \in SUBSET ({"startup", "watchdog"} \X Workspaces)
        /\ loops' \in SUBSET {"pump", "watchdog"} /\ frozen' \in BOOLEAN
        /\ restarts' \in 0 .. MaxRestarts
    BY <2>1, Rest
  <2> QED BY <2>1, <2>2, RowsKept
<1> QED BY <1>2, <1>3

\* The connection is lost, or the maintenance window opens or closes.
LEMMA LostStep == ASSUME TaskInv, ConnectionLost \/ Maintenance PROVE StepKeeps
<1>1. /\ jobs' \subseteq jobs /\ todrain' \subseteq todrain /\ loops' \subseteq loops
      /\ UNCHANGED <<count, db, run, restarts>>
      /\ frozen' = frozen \/ frozen' = ~frozen
  <2>1. CASE ConnectionLost
    BY <2>1 DEF ConnectionLost
  <2>2. CASE Maintenance
    BY <2>2 DEF Maintenance
  <2> QED BY <2>1, <2>2
<1>2. frozen' \in BOOLEAN
  BY <1>1, Rest
<1>3. /\ jobs' \subseteq Job
      /\ \A i \in jobs' : i.t \in Created /\ db.row[i.t].st # "waiting_slot"
      /\ todrain' \in SUBSET ({"startup", "watchdog"} \X Workspaces)
      /\ loops' \in SUBSET {"pump", "watchdog"} /\ restarts' \in 0 .. MaxRestarts
  BY <1>1, Rest
<1> QED BY <1>1, <1>2, <1>3, RowsKept

\* Events that only move the row.
LEMMA EventMoves ==
    ASSUME TaskInv, NEW t \in Created,
           TurnStarted(t) \/ ItemActivity(t) \/ TextActivity(t) \/ ApprovalRequested(t)
    PROVE  StepKeeps
<1> DEFINE r == db.row[t]
<1>1. UNCHANGED <<count, run, jobs, todrain, loops, frozen, restarts>>
  BY DEF TurnStarted, ItemActivity, TextActivity, ApprovalRequested
<1>2. r \in Row /\ (r.thread => r.st # "waiting_slot")
  BY Rest
<1>3. CASE TurnStarted(t)
  <2> DEFINE p == [r EXCEPT !.turn = TRUE]
             q == IF CanMove(p.st, "running") THEN [p EXCEPT !.st = "running"] ELSE p
  <2>1. db' = Write(db, t, q)
    BY <1>3 DEF TurnStarted
  <2>2. p \in Row /\ p.st = r.st /\ p.ws = r.ws /\ p.orch = r.orch /\ p.thread = r.thread
        /\ p.tree = r.tree /\ p.forced = r.forced
    BY <1>2 DEF Row
  <2> HIDE DEF p
  <2>3. CanMove(p.st, "running") => p.st \in Active
    BY <2>2 DEF CanMove, ValidTransitions, Row, Status, Active, Terminal
  <2>4. q \in Row /\ Moved(r, q) /\ (q.thread => q.st # "waiting_slot")
    BY <1>2, <2>2, <2>3 DEF Row, Status, Active, Terminal, Moved
  <2> HIDE DEF q
  <2> QED BY <1>1, <2>1, <2>4, Rest, RowMoves
<1>4. CASE ItemActivity(t)
  <2> DEFINE q == [r EXCEPT !.st = Seen(r.st)]
  <2>1. db' = Write(db, t, q)
    BY <1>4 DEF ItemActivity, SetStatus
  <2>2. q \in Row /\ Moved(r, q) /\ (q.thread => q.st # "waiting_slot")
    BY <1>2 DEF Row, Status, Active, Terminal, Moved, Seen
  <2> HIDE DEF q
  <2> QED BY <1>1, <2>1, <2>2, Rest, RowMoves
<1>5. CASE TextActivity(t)
  <2> DEFINE q == [r EXCEPT !.st = r.st]
  <2>1. db' = Write(db, t, q)
    BY <1>5 DEF TextActivity, SetStatus
  <2>2. q \in Row /\ Moved(r, q) /\ (q.thread => q.st # "waiting_slot")
    BY <1>2 DEF Row, Moved
  <2> HIDE DEF q
  <2> QED BY <1>1, <2>1, <2>2, Rest, RowMoves
<1>6. CASE ApprovalRequested(t)
  <2> DEFINE p == [r EXCEPT !.pending = TRUE, !.turn = TRUE]
             q == IF p.st # "paused" /\ CanMove(p.st, "waiting_approval")
                    THEN [p EXCEPT !.st = "waiting_approval"] ELSE p
  <2>1. db' = Write(db, t, q)
    BY <1>6 DEF ApprovalRequested
  <2>2. p \in Row /\ p.st = r.st /\ p.ws = r.ws /\ p.orch = r.orch /\ p.thread = r.thread
        /\ p.tree = r.tree /\ p.forced = r.forced
    BY <1>2 DEF Row
  <2> HIDE DEF p
  <2>3. CanMove(p.st, "waiting_approval") => p.st \in Active
    BY <2>2 DEF CanMove, ValidTransitions, Row, Status, Active, Terminal
  <2>4. q \in Row /\ Moved(r, q) /\ (q.thread => q.st # "waiting_slot")
    BY <1>2, <2>2, <2>3 DEF Row, Status, Active, Terminal, Moved
  <2> HIDE DEF q
  <2> QED BY <1>1, <2>1, <2>4, Rest, RowMoves
<1> QED BY <1>3, <1>4, <1>5, <1>6

\* What turn_completed makes of a status wakes nothing.
LEMMA CompletedFacts ==
    ASSUME TaskInv, NEW t \in Created, db.row[t].thread,
           NEW how \in {"failed", "interrupted", "inProgress", "completed"}
    PROVE  /\ Completed(t, how) \in Status /\ Completed(t, how) # "waiting_slot"
           /\ Completed(t, how) \in Active /\ ~db.row[t].orch => db.row[t].st \in Active
<1> DEFINE r == db.row[t]
           c == Completed(t, how)
<1>1. r \in Row /\ r.st \in Status /\ r.st # "waiting_slot" /\ r.orch \in BOOLEAN
  BY Rest DEF Row
<1>2. /\ r.orch /\ run[t] > 0 => r.orch
      /\ \/ c \in {"failed", "aborted", r.st, "done"}
         \/ c = "waiting_approval" /\ r.st # "paused" /\ CanMove(Seen(r.st), "waiting_approval")
         \/ c = "running" /\ r.orch
  BY DEF Completed
<1>3. r.st # "paused" /\ CanMove(Seen(r.st), "waiting_approval") => r.st \in Active
  BY <1>1 DEF CanMove, ValidTransitions, Seen, Status, Active, Terminal
<1> HIDE DEF c
<1>4. c \in Status /\ c # "waiting_slot" /\ (c \in Active /\ ~r.orch => r.st \in Active)
  BY <1>1, <1>2, <1>3 DEF Status, Active, Terminal
<1> QED BY <1>4 DEF c

\* turn_completed and systemError, with their drains.
LEMMA EventEnds ==
    ASSUME TaskInv, NEW t \in Created,
           \/ SystemError(t)
           \/ \E how \in {"failed", "interrupted", "inProgress", "completed"} :
                 TurnCompleted(t, how)
    PROVE  StepKeeps
<1>1. UNCHANGED <<count, run, todrain, loops, frozen, restarts>> /\ db.row[t].thread
  BY DEF SystemError, TurnCompleted
<1>2. "pump" \in Callers /\ todrain' \in SUBSET ({"startup", "watchdog"} \X Workspaces)
  BY <1>1, Rest DEF Callers
<1>3. CASE SystemError(t)
  <2> DEFINE d == EndTurn(db, t, "failed")
             w == db.row[t].ws
  <2>1. /\ Calm(db, d) /\ d = [row |-> d.row, newer |-> d.newer]
        /\ \A u \in Created : d.row[u].thread => d.row[u].st # "waiting_slot"
    BY EndTurnCalm DEF Status, Terminal, Active
  <2>2. ThenDrain(d, w, "pump", {})
    BY <1>3 DEF SystemError
  <2> HIDE DEF d, w
  <2> QED BY <1>1, <1>2, <2>1, <2>2, DrainStep DEF StepKeeps
<1>4. ASSUME NEW how \in {"failed", "interrupted", "inProgress", "completed"},
             TurnCompleted(t, how)
      PROVE  StepKeeps
  <2> DEFINE d == EndTurn(db, t, Completed(t, how))
             w == d.row[t].ws
  <2>1. /\ Calm(db, d) /\ d = [row |-> d.row, newer |-> d.newer]
        /\ \A u \in Created : d.row[u].thread => d.row[u].st # "waiting_slot"
    <3> DEFINE c == Completed(t, how)
    <3>1. c \in Status /\ c # "waiting_slot"
          /\ (c \in Active /\ ~db.row[t].orch => db.row[t].st \in Active)
      BY <1>1, CompletedFacts
    <3> HIDE DEF c
    <3> QED BY <3>1, EndTurnCalm DEF c
  <2>2. ThenDrain(d, w, "pump", {}) \/ (db' = d /\ jobs' = jobs)
    BY <1>4 DEF TurnCompleted
  <2> HIDE DEF d, w
  <2>3. CASE ThenDrain(d, w, "pump", {})
    BY <1>1, <1>2, <2>1, <2>3, DrainStep DEF StepKeeps
  <2>4. CASE db' = d /\ jobs' = jobs
    <3>1. jobs' \subseteq jobs
      BY <2>4
    <3> QED BY <1>1, <2>1, <2>4, <3>1, CalmOnly
  <2> QED BY <2>2, <2>3, <2>4
<1> QED BY <1>3, <1>4

\* A chief-engineer run reports a phase or ends: it drives only a task of its own.
LEMMA RunSteps ==
    ASSUME TaskInv, NEW t \in Created,
           RunReports(t) \/ \E st \in {"done", "failed"} : RunEnds(t, st)
    PROVE  StepKeeps
<1> DEFINE r == db.row[t]
<1>1. UNCHANGED <<count, jobs, todrain, loops, frozen, restarts>> /\ run[t] > 0
  <2>1. run[t] \in Nat
    BY TaskFacts
  <2> QED BY <2>1 DEF RunReports, RunEnds
<1>2. r \in Row /\ r.orch
  BY <1>1, Rest
<1>3. CASE RunReports(t)
  <2> DEFINE q == [r EXCEPT !.st = "running", !.thread = TRUE]
  <2>1. db' = Write(db, t, q) /\ run' = [run EXCEPT ![t] = @ - 1] /\ run[t] > 1
    BY <1>3 DEF RunReports
  <2>2. q \in Row /\ Moved(r, q) /\ q.st # "waiting_slot"
    BY <1>2 DEF Row, Status, Active, Terminal, Moved
  <2> HIDE DEF q
  <2>3. run' \in [Created -> 0 .. MaxPhases + 1] /\ \A u \in Created : run'[u] > 0 => run[u] > 0
    <3>1. run \in [Created -> 0 .. MaxPhases + 1] /\ MaxPhases \in Nat
      BY Rest, TaskAssumption
    <3>2. run[t] - 1 \in 0 .. MaxPhases + 1
      BY <2>1, <3>1
    <3> QED BY <1>1, <2>1, <3>1, <3>2
  <2> QED BY <1>1, <2>1, <2>2, <2>3, Rest, RowMoves
<1>4. ASSUME NEW st \in {"done", "failed"}, RunEnds(t, st) PROVE StepKeeps
  <2> DEFINE q == [r EXCEPT !.st = st]
  <2>1. db' = Write(db, t, q) /\ run' = [run EXCEPT ![t] = 0]
    BY <1>4 DEF RunEnds, SetStatus
  <2>2. q \in Row /\ Moved(r, q) /\ q.st # "waiting_slot"
    BY <1>2 DEF Row, Status, Active, Terminal, Moved
  <2> HIDE DEF q
  <2>3. run' \in [Created -> 0 .. MaxPhases + 1] /\ \A u \in Created : run'[u] > 0 => run[u] > 0
    <3>1. run \in [Created -> 0 .. MaxPhases + 1] /\ 0 \in 0 .. MaxPhases + 1
      BY Rest, TaskAssumption
    <3> QED BY <2>1, <3>1
  <2> QED BY <1>1, <2>1, <2>2, <2>3, Rest, RowMoves
<1> QED BY <1>3, <1>4

\* Rows updated together: all of them move, and the order stays one of the rows.
LEMMA BulkTables ==
    ASSUME TaskInv, NEW S \in SUBSET Created, NEW inner \in SUBSET (S \X S),
           NEW R \in [Created -> Row], db' = [row |-> R, newer |-> TouchAll(S, inner)],
           \A t \in Created : Moved(db.row[t], R[t])
    PROVE  Calm(db, db') /\ db' = [row |-> db'.row, newer |-> db'.newer] /\ db'.row = R
<1> DEFINE N == TouchAll(S, inner)
<1>1. db'.row = R /\ db'.newer = N
  OBVIOUS
<1>2. db.newer \subseteq Created \X Created
  BY TaskFacts DEF Tables
<1>3. N \subseteq Created \X Created /\ (MaxTasks <= ListLimit => N = {})
  BY <1>2 DEF TouchAll, Order
<1> HIDE DEF N
<1>4. Tables(db')
  BY <1>1, <1>3 DEF Tables
<1> QED BY <1>1, <1>4 DEF Calm, N

\* The watchdog fails queued, running or disconnected tasks.
LEMMA ScanStep ==
    ASSUME TaskInv, NEW S \in SUBSET Created, WatchdogFails(S),
           \A t \in S : db.row[t].st # "waiting_slot"
    PROVE  StepKeeps
<1> DEFINE R == [t \in Created |-> IF t \in S
                    THEN [db.row[t] EXCEPT !.st = "failed", !.turn = FALSE, !.late = FALSE]
                    ELSE db.row[t]]
           inner == db.newer \cap (S \X S)
<1>1. /\ db' = [row |-> R, newer |-> TouchAll(S, inner)]
      /\ todrain' = {"watchdog"} \X Workspaces
      /\ UNCHANGED <<count, run, jobs, loops, frozen, restarts>>
  BY DEF WatchdogFails
<1>2. ASSUME NEW t \in Created
      PROVE  R[t] \in Row /\ Moved(db.row[t], R[t]) /\ (R[t].thread => R[t].st # "waiting_slot")
  <2>1. db.row[t] \in Row /\ (db.row[t].thread => db.row[t].st # "waiting_slot")
    BY Rest
  <2>2. R[t] = IF t \in S THEN [db.row[t] EXCEPT !.st = "failed", !.turn = FALSE, !.late = FALSE]
                          ELSE db.row[t]
    OBVIOUS
  <2> HIDE DEF R
  <2>3. CASE t \in S
    BY <2>1, <2>2, <2>3 DEF Row, Status, Active, Terminal, Moved
  <2>4. CASE t \notin S
    BY <2>1, <2>2, <2>4 DEF Moved
  <2> QED BY <2>3, <2>4
<1>3. R \in [Created -> Row] /\ inner \in SUBSET (S \X S)
  BY <1>2
<1> HIDE DEF R, inner
<1>4. Calm(db, db') /\ db' = [row |-> db'.row, newer |-> db'.newer] /\ db'.row = R
  BY <1>1, <1>2, <1>3, BulkTables
<1>5. \A t \in Created : db'.row[t].thread => db'.row[t].st # "waiting_slot"
  BY <1>2, <1>4
<1>6. todrain' \in SUBSET ({"startup", "watchdog"} \X Workspaces)
  BY <1>1
<1>7. /\ run' \in [Created -> 0 .. MaxPhases + 1] /\ \A t \in Created : run'[t] > 0 => run[t] > 0
      /\ jobs' \subseteq Job
      /\ \A j \in jobs' : j.t \in Created /\ db.row[j.t].st # "waiting_slot"
      /\ loops' \in SUBSET {"pump", "watchdog"} /\ frozen' \in BOOLEAN
      /\ restarts' \in 0 .. MaxRestarts
  BY <1>1, Rest
<1> QED BY <1>1, <1>4, <1>5, <1>6, <1>7, CalmStep DEF StepKeeps

\* A restart fails or pauses what was active.
LEMMA RestartStep == ASSUME TaskInv, Restart PROVE StepKeeps
<1> DEFINE S == {t \in Created : db.row[t].st \in Active \ {"paused"}}
           new(t) == IF db.row[t].st = "running" /\ run[t] = MaxPhases + 1
                       THEN "paused" ELSE "failed"
           R == [t \in Created |-> IF t \in S THEN [db.row[t] EXCEPT !.late = FALSE, !.st = new(t)]
                                              ELSE db.row[t]]
           inner == {p \in S \X S : p[1] > p[2]}
<1>1. /\ db' = [row |-> R, newer |-> TouchAll(S, inner)]
      /\ run' = [t \in Created |-> 0] /\ jobs' = {} /\ loops' = {"pump", "watchdog"}
      /\ todrain' = {"startup"} \X Workspaces
      /\ restarts < MaxRestarts /\ restarts' = restarts + 1
      /\ UNCHANGED <<count, frozen>>
  BY DEF Restart
<1>2. ASSUME NEW t \in Created
      PROVE  R[t] \in Row /\ Moved(db.row[t], R[t]) /\ (R[t].thread => R[t].st # "waiting_slot")
  <2>1. db.row[t] \in Row /\ (db.row[t].thread => db.row[t].st # "waiting_slot")
    BY Rest
  <2>2. R[t] = IF t \in S THEN [db.row[t] EXCEPT !.late = FALSE, !.st = new(t)]
                          ELSE db.row[t]
    OBVIOUS
  <2>3. t \in S => db.row[t].st \in Active
    OBVIOUS
  <2>4. new(t) \in {"paused", "failed"}
    OBVIOUS
  <2> HIDE DEF new, R, S
  <2>5. CASE t \in S
    BY <2>1, <2>2, <2>3, <2>4, <2>5 DEF Row, Status, Active, Terminal, Moved
  <2>6. CASE t \notin S
    BY <2>1, <2>2, <2>6 DEF Moved
  <2> QED BY <2>5, <2>6
<1>3. R \in [Created -> Row] /\ inner \in SUBSET (S \X S) /\ S \in SUBSET Created
  BY <1>2
<1> HIDE DEF R, inner, S
<1>4. Calm(db, db') /\ db' = [row |-> db'.row, newer |-> db'.newer] /\ db'.row = R
  BY <1>1, <1>2, <1>3, BulkTables
<1>5. \A t \in Created : db'.row[t].thread => db'.row[t].st # "waiting_slot"
  BY <1>2, <1>4
<1>6. /\ todrain' \in SUBSET ({"startup", "watchdog"} \X Workspaces)
      /\ loops' \in SUBSET {"pump", "watchdog"} /\ jobs' \subseteq Job
      /\ \A j \in jobs' : j.t \in Created /\ db.row[j.t].st # "waiting_slot"
  BY <1>1
<1>7. run' \in [Created -> 0 .. MaxPhases + 1] /\ \A t \in Created : run'[t] = 0
  BY <1>1, TaskAssumption
<1>8. frozen' \in BOOLEAN /\ restarts' \in 0 .. MaxRestarts
  <2>1. frozen' \in BOOLEAN
    BY <1>1, Rest
  <2>2. restarts' \in 0 .. MaxRestarts
    BY <1>1, Rest, TaskAssumption
  <2> QED BY <2>1, <2>2
<1>9. \A t \in Created : run'[t] > 0 => run[t] > 0 \/ db.row[t].orch
  BY <1>7
<1> QED BY <1>1, <1>4, <1>5, <1>6, <1>7, <1>8, <1>9, CalmStep DEF StepKeeps

\* The startup or the watchdog loop drains its next workspace.
LEMMA DrainNextStep ==
    ASSUME TaskInv, NEW p \in todrain, DrainNext(p[1], p[2]) PROVE StepKeeps
<1>1. /\ ThenDrain(db, p[2], p[1], {}) /\ todrain' = todrain \ {<<p[1], p[2]>>}
      /\ UNCHANGED <<count, run, loops, frozen, restarts>>
  BY DEF DrainNext
<1>2. p[1] \in Callers /\ todrain' \in SUBSET ({"startup", "watchdog"} \X Workspaces)
  BY <1>1, Rest DEF Callers
<1>3. Calm(db, db) /\ db = [row |-> db.row, newer |-> db.newer]
  BY TaskFacts DEF Calm, Moved
<1>4. \A t \in Created : db.row[t].thread => db.row[t].st # "waiting_slot"
  BY Rest
<1> QED BY <1>1, <1>2, <1>3, <1>4, DrainStep DEF StepKeeps

\* The continue command, the only step that wakes an ended task: it found no blocker.
LEMMA ContinueStep ==
    ASSUME TaskInv, NEW t \in Created, ContinueTask(t)
    PROVE  /\ TaskInv'
           /\ MaxTasks <= ListLimit /\ OneWriterPerWorkspace => OneWriterPerWorkspace'
           /\ \A u \in Created \ {t} : db'.row[u] = db.row[u]
<1> DEFINE r == db.row[t]
           q == [r EXCEPT !.st = "queued", !.turn = FALSE]
           k == Await("continue_turn", t, "command")
<1>1. /\ db' = Write(db, t, q) /\ jobs' = jobs \cup {k} /\ Blockers(db, r.ws, {t}) = {}
      /\ r.thread /\ UNCHANGED <<count, run, todrain, loops, frozen, restarts>>
  BY DEF ContinueTask, EndTurn
<1>2. r \in Row /\ r.st # "waiting_slot" /\ Tables(db)
  BY <1>1, Rest, TaskFacts
<1>3. q \in Row /\ q.st = "queued" /\ q.ws = r.ws /\ q.orch = r.orch
  BY <1>2 DEF Row, Status, Active
<1>4. k \in Job /\ k.t = t
  BY AwaitType DEF Calls, Callers
<1> HIDE DEF q, k
<1>5. /\ Tables(db') /\ db' = [row |-> db'.row, newer |-> db'.newer]
      /\ \A u \in Created \ {t} : db'.row[u] = db.row[u]
      /\ db'.row[t].st = q.st /\ db'.row[t].ws = q.ws /\ db'.row[t].orch = q.orch
  BY <1>1, <1>2, <1>3, WriteTables DEF Stamped
<1>6. jobs' \subseteq Job /\ \A j \in jobs' : j.t \in Created /\ db.row[j.t].st # "waiting_slot"
  BY <1>1, <1>2, <1>4, Rest
<1>7. TypeOK'
  BY <1>1, <1>5, <1>6, Rest, TypesStep
<1>8. Created' = Created
  BY <1>1 DEF Created
<1>9. Placed'
  <2>1. \A j \in jobs' : db'.row[j.t].st # "waiting_slot"
    BY <1>3, <1>5, <1>6
  <2>2. \A u \in Created : /\ db'.row[u].thread => db'.row[u].st # "waiting_slot"
                           /\ run'[u] > 0 => db'.row[u].orch
    BY <1>1, <1>3, <1>5, Rest
  <2> QED BY <1>5, <1>8, <2>1, <2>2 DEF Placed, Tables
<1>10. ASSUME MaxTasks <= ListLimit, OneWriterPerWorkspace PROVE OneWriterPerWorkspace'
  <2>1. \A u \in Created \ {t} : db.row[u].ws = r.ws /\ ~db.row[u].tree
                                     => db.row[u].st \notin Active
    BY <1>1, <1>2, <1>10, NoBlocker
  <2> SUFFICES ASSUME NEW a \in Created, NEW b \in Created, a # b,
                      db'.row[a].ws = db'.row[b].ws, ~db'.row[a].orch, ~db'.row[b].orch,
                      ~db'.row[a].tree, ~db'.row[a].forced, ~db'.row[b].tree,
                      ~db'.row[b].forced, db'.row[a].st \in Active, db'.row[b].st \in Active
               PROVE  FALSE
    BY <1>8 DEF OneWriterPerWorkspace, Locked, Active
  <2>2. CASE a = t
    BY <1>3, <1>5, <2>1, <2>2
  <2>3. CASE b = t
    BY <1>3, <1>5, <2>1, <2>3
  <2>4. CASE a # t /\ b # t
    BY <1>5, <1>10, <2>4 DEF OneWriterPerWorkspace, Locked
  <2> QED BY <2>2, <2>3, <2>4
<1> QED BY <1>5, <1>7, <1>9, <1>10 DEF TaskInv

\* Time passes.
LEMMA LateStep == ASSUME TaskInv, NEW t, GrowLate(t) PROVE StepKeeps
<1> DEFINE q == [db.row[t] EXCEPT !.late = TRUE]
           R == [db.row EXCEPT ![t] = q]
<1>1. /\ t \in Created /\ db' = [db EXCEPT !.row[t].late = TRUE]
      /\ UNCHANGED <<count, run, jobs, todrain, loops, frozen, restarts>>
  BY DEF GrowLate
<1>2. /\ db = [row |-> db.row, newer |-> db.newer] /\ Tables(db) /\ db.row[t] \in Row
  BY <1>1, TaskFacts
<1>3. db' = [row |-> R, newer |-> db.newer]
  BY <1>1, <1>2
<1>4. Stamped(q, db.row[t])
  BY <1>2 DEF Row, Stamped
<1> HIDE DEF q
<1>5. R \in [Created -> Row] /\ R[t] = q /\ \A u \in Created \ {t} : R[u] = db.row[u]
  BY <1>1, <1>2, <1>4 DEF Tables, Stamped
<1> HIDE DEF R
<1>6. db'.row = R /\ db'.newer = db.newer
  BY <1>3
<1>7. Tables(db') /\ db' = [row |-> db'.row, newer |-> db'.newer]
  BY <1>2, <1>3, <1>5, <1>6 DEF Tables
<1>8. Calm(db, db')
  BY <1>4, <1>5, <1>6, <1>7 DEF Calm, Moved, Stamped
<1>9. \A u \in Created : db'.row[u].thread => db'.row[u].st # "waiting_slot"
  BY <1>1, <1>4, <1>5, <1>6, Rest DEF Stamped
<1> QED BY <1>1, <1>7, <1>8, <1>9, CalmOnly
-----------------------------------------------------------------------------
\* Every step but the continue command keeps what StepKeeps says.
LEMMA OtherSteps ==
    ASSUME TaskInv, Next PROVE StepKeeps \/ \E t \in Created : ContinueTask(t)
<1>1. CASE Command
  <2>1. CASE \E w \in Workspaces : StartTask(w) \/ StartRun(w)
    BY <2>1, StartStep
  <2>2. ASSUME NEW t \in Created,
               \/ ForkTask(t) \/ PauseTask(t) \/ ArchiveTask(t)
               \/ ForceParallel(t) \/ SetupWorktree(t) \/ StartWorktree(t)
               \/ AbortTask(t, "abort") \/ AbortTask(t, "stop") \/ ApprovalsResolved(t)
        PROVE  StepKeeps
    BY <2>2, ForkStep, MoveCommands, ParallelStep, AbortStep
  <2>3. CASE Maintenance
    BY <2>3, LostStep
  <2> QED BY <1>1, <2>1, <2>2, <2>3 DEF Command
<1>2. ASSUME NEW by \in Callers, Answer(by) PROVE StepKeeps
  BY <1>2, ThreadStep, AcceptedStep, CallFailedStep DEF Answer
<1>3. CASE Event
  BY <1>3, EventMoves, EventEnds DEF Event
<1>4. CASE RunStep
  BY <1>4, RunSteps DEF RunStep
<1>5. CASE Scan
  <2>1. ASSUME NEW S \in {Stale, Stale \cup OnDeadBackend}, WatchdogFails(S) PROVE StepKeeps
    <3>1. S \in SUBSET Created /\ \A t \in S : db.row[t].st # "waiting_slot"
      BY <2>1 DEF Stale, OnDeadBackend, Active
    <3> QED BY <2>1, <3>1, ScanStep
  <2> QED BY <1>5, <2>1 DEF Scan
<1>6. CASE Drains
  BY <1>6, DrainNextStep DEF Drains
<1>7. CASE ConnectionLost \/ Restart
  BY <1>7, LostStep, RestartStep
<1>8. ASSUME NEW t \in Ids, GrowLate(t) PROVE StepKeeps
  BY <1>8, LateStep
<1> QED BY <1>1, <1>2, <1>3, <1>4, <1>5, <1>6, <1>7, <1>8 DEF Next

LEMMA TaskStep ==
    ASSUME TaskInv, [Next]_vars
    PROVE  /\ TaskInv'
           /\ MaxTasks <= ListLimit /\ OneWriterPerWorkspace => OneWriterPerWorkspace'
<1>1. CASE Next
  BY <1>1, OtherSteps, ContinueStep DEF StepKeeps
<1>2. CASE UNCHANGED vars
  <2>1. UNCHANGED <<count, db, run, jobs, todrain, loops, frozen, restarts>>
    BY <1>2 DEF vars
  <2> QED BY <2>1, Rest, RowsKept DEF StepKeeps
<1> QED BY <1>1, <1>2

LEMMA TaskStart == Init => TaskInv /\ OneWriterPerWorkspace
<1> SUFFICES ASSUME Init PROVE TaskInv /\ OneWriterPerWorkspace
  OBVIOUS
<1>1. Created = {} /\ count = 0
  BY DEF Init, Created
<1> DEFINE R == [t \in Created |-> NewRow("queued", CHOOSE w \in Workspaces : TRUE, FALSE)]
           F == [Created -> Row]
           S == SUBSET (Created \X Created)
<1>2. db = [row |-> R, newer |-> {}]
  BY DEF Init
<1>3. R \in F /\ {} \in S
  BY <1>1
<1> HIDE DEF R, F, S
<1>4. db \in [row : F, newer : S] /\ db.newer = {}
  BY <1>2, <1>3
<1>5. run \in [Created -> 0 .. MaxPhases + 1] /\ jobs = {}
  BY <1>1 DEF Init
<1>6. frozen \in BOOLEAN /\ loops \in SUBSET {"pump", "watchdog"} /\ todrain = {}
  BY DEF Init
<1>7. restarts \in 0 .. MaxRestarts /\ count \in 0 .. MaxTasks
  BY <1>1, TaskAssumption DEF Init
<1>8. TypeOK
  BY <1>4, <1>5, <1>6, <1>7 DEF TypeOK, F, S
<1>9. Placed /\ OneWriterPerWorkspace
  BY <1>1, <1>4, <1>5 DEF Placed, OneWriterPerWorkspace
<1> QED BY <1>8, <1>9 DEF TaskInv

\* The invariant of the task tables and the waiting handlers, on every behaviour.
THEOREM TaskInvariant == Spec => []TaskInv
<1>1. TaskInv /\ [Next]_vars => TaskInv'
  BY TaskStep
<1> QED BY <1>1, TaskStart, PTL DEF Spec

\* Every table keeps its type.
THEOREM TaskTypes == Spec => []TypeOK
<1>1. TaskInv => TypeOK
  BY DEF TaskInv
<1> QED BY <1>1, TaskInvariant, PTL

\* The write lock, on the hypothesis that the table never holds more rows than list_tasks
\* returns (100 in the code: a blocker pushed off a longer list is not seen).  Of the tasks
\* that are not in a worktree, were not started in parallel by the user and are not driven
\* by a chief-engineer run, at most one per workspace is active, whatever commands, parallel
\* starts, drains, late events, failed calls, scans and restarts interleave.
THEOREM WriterAlwaysAlone ==
    ASSUME MaxTasks <= ListLimit
    PROVE  Spec => []OneWriterPerWorkspace
<1>1. Init => TaskInv /\ OneWriterPerWorkspace
  BY TaskStart
<1>2. TaskInv /\ OneWriterPerWorkspace /\ [Next]_vars
        => (TaskInv /\ OneWriterPerWorkspace)'
  BY TaskStep
<1> QED BY <1>1, <1>2, PTL DEF Spec

\* A task that ended becomes active again only by the continue command: no late event,
\* no answer to a handler that outlived it, no drain and no restart revives it.
THEOREM EndedAlwaysStaysEnded == Spec => EndedStaysEnded
<1>1. ASSUME TaskInv, [Next]_vars
      PROVE  [\A t \in Created :
                 /\ ~db.row[t].orch
                 /\ db.row[t].st \in Terminal \cup {"archived"} /\ db'.row[t].st \in Active
                 => ContinueTask(t)]_vars
  <2> SUFFICES ASSUME Next, NEW t \in Created, ~db.row[t].orch,
                      db.row[t].st \in Terminal \cup {"archived"}, db'.row[t].st \in Active
               PROVE  ContinueTask(t)
    BY <1>1
  <2>1. ~NoneWakes
    BY DEF NoneWakes
  <2>2. PICK u \in Created : ContinueTask(u)
    BY <1>1, <2>1, OtherSteps DEF StepKeeps
  <2>3. \A v \in Created \ {u} : db'.row[v] = db.row[v]
    BY <1>1, <2>2, ContinueStep
  <2>4. t = u
    BY <2>3 DEF Active, Terminal
  <2> QED BY <2>2, <2>4
<1> QED BY <1>1, TaskInvariant, PTL DEF Spec, EndedStaysEnded
=============================================================================
