-------------------------- MODULE RelayQueueProofs --------------------------
(***************************************************************************)
(* Proofs about RelayQueue for every number of workers, tasks, workspaces  *)
(* and inputs: type correctness, the workspace fence, and the way of an    *)
(* input from the queue into the one round it starts.                      *)
(***************************************************************************)
EXTENDS RelayQueue, WellFoundedInduction, FiniteSetTheorems, TLAPS

\* What the bookkeeping of inputs, leases and workers adds to FenceMatchesLease
\* to make it inductive: a worker past its claim works on an input of its own
\* task, a lease is only taken on a queued input, and a live fence stands in the
\* workspace of the input it names.
JobBound ==
    \A w \in Workers :
        /\ job[w].pc = "claim" => job[w].task \in Tasks
        /\ job[w].pc \notin {"idle", "claim"} =>
             /\ job[w].task \in Tasks /\ job[w].input \in Inputs
             /\ inputs[job[w].input].task = job[w].task

InputBound ==
    \A i \in Inputs :
        /\ inputs[i].status = "new" => inputs[i].task = None
        /\ inputs[i].status # "new" => inputs[i].task \in Tasks

LeaseBound == \A i \in Inputs : leases[i].live => inputs[i].task \in Tasks

FencePlace ==
    \A ws \in Workspaces : locks[ws].live =>
        locks[ws].input \in Inputs /\ Ws(locks[ws].input) = ws

FenceInv ==
    /\ leases \in [Inputs -> Lease] /\ locks \in [Workspaces -> Lock]
    /\ LeaseBound /\ FenceMatchesLease /\ FencePlace

QueueInv == TypeOK /\ JobBound /\ InputBound /\ FenceInv

-----------------------------------------------------------------------------
(* Facts about the operators *)

\* A non-empty set of round numbers has a greatest element, so Max is one of them.
LEMMA MaxOfRounds ==
    ASSUME NEW n \in Nat, NEW S, S \subseteq 1 .. n, S # {}
    PROVE  Max(S) \in S /\ Max(S) \in Nat
<1> DEFINE T == {n - x : x \in S}
           R == OpToRel(<, Nat)
<1>0. \A x \in S : x \in 1 .. n
  OBVIOUS
<1>1. T \subseteq Nat /\ T # {}
  <2>1. \A x \in S : n - x \in Nat
    BY <1>0
  <2> QED BY <2>1
<1>2. PICK m \in T : \A y \in T : ~(<<y, m>> \in R)
  BY <1>1, WFMin, NatLessThanWellFounded
<1>3. \A y \in T : ~(y < m)
  BY <1>1, <1>2 DEF OpToRel
<1>4. PICK x \in S : m = n - x
  BY <1>2
<1>5. \A y \in S : x >= y
  <2> TAKE y \in S
  <2>1. n - y \in T
    OBVIOUS
  <2>2. ~(n - y < n - x)
    BY <2>1, <1>3, <1>4
  <2>3. x \in 1 .. n /\ y \in 1 .. n
    BY <1>0
  <2>4. x \in Int /\ y \in Int /\ n \in Int
    BY <2>3
  <2> HIDE DEF T, R
  <2> QED BY <2>2, <2>4
<1>6. \E z \in S : \A y \in S : z >= y
  BY <1>5
<1>7. Max(S) \in S
  BY <1>6 DEF Max
<1>8. Max(S) \in 1 .. n
  BY <1>0, <1>7
<1> QED BY <1>7, <1>8

\* The current round of a task is a natural number.
LEMMA CurrentRoundNat ==
    ASSUME TypeOK, NEW t \in Tasks
    PROVE  CurrentRound(t) \in Nat
<1>1. rounds[t] \in Seq(Round) /\ Len(rounds[t]) \in Nat
      /\ DOMAIN rounds[t] = 1 .. Len(rounds[t])
  BY DEF TypeOK
<1>2. LiveRounds(t) \subseteq 1 .. Len(rounds[t])
  BY <1>1 DEF LiveRounds
<1>3. CASE LiveRounds(t) # {}
  BY <1>1, <1>2, <1>3, MaxOfRounds DEF CurrentRound
<1>4. CASE LiveRounds(t) = {}
  BY <1>1, <1>4 DEF CurrentRound
<1> QED BY <1>3, <1>4

\* Setting the status of one round of one task keeps the table well typed.
LEMMA SetStatusType ==
    ASSUME rounds \in [Tasks -> Seq(Round)], NEW t \in Tasks, NEW r,
           NEW st \in RoundStatus
    PROVE  [rounds EXCEPT ![t][r].status = st] \in [Tasks -> Seq(Round)]
<1> DEFINE s == rounds[t]
           u == [s EXCEPT ![r].status = st]
<1>1. s \in [1 .. Len(s) -> Round] /\ Len(s) \in Nat
  OBVIOUS
<1>2. u \in [1 .. Len(s) -> Round]
  BY <1>1 DEF Round
<1>3. u \in Seq(Round)
  BY <1>1, <1>2
<1> QED BY <1>3

\* Starting a follow-up round keeps the table well typed.
LEMMA FollowupType ==
    ASSUME rounds \in [Tasks -> Seq(Round)], NEW t \in Tasks,
           NEW g \in Inputs \cup {None}, StartFollowupRound(t, g)
    PROVE  rounds' \in [Tasks -> Seq(Round)]
<1> DEFINE s == rounds[t]
           u == [r \in DOMAIN s |->
                   IF r = CurrentRound(t) /\ s[r].status \notin Ended
                   THEN [s[r] EXCEPT !.status = "superseded"] ELSE s[r]]
           new == [status |-> "running", trigger |-> g]
<1>1. s \in [1 .. Len(s) -> Round] /\ Len(s) \in Nat /\ DOMAIN s = 1 .. Len(s)
  OBVIOUS
<1>2. ASSUME NEW r \in DOMAIN s PROVE u[r] \in Round
  BY <1>1, <1>2 DEF Round, RoundStatus
<1>3. u \in [1 .. Len(s) -> Round]
  BY <1>1, <1>2
<1>4. u \in Seq(Round)
  BY <1>1, <1>3
<1>5. new \in Round
  BY DEF Round, RoundStatus
<1>6. Append(u, new) \in Seq(Round)
  BY <1>4, <1>5
<1>7. rounds' = [rounds EXCEPT ![t] = Append(u, new)]
  BY DEF StartFollowupRound
<1> QED BY <1>6, <1>7

-----------------------------------------------------------------------------
(* What the operations on the two claim tables do to the fence *)

\* The workspace of an input that has a task is a workspace.
LEMMA WsType ==
    ASSUME NEW i \in Inputs, inputs[i].task \in Tasks
    PROVE  Ws(i) \in Workspaces
  BY QueueAssumption DEF Ws

\* Taking a claim in a workspace that is not busy.
LEMMA TakeClaimFence ==
    ASSUME FenceInv, NEW w \in Workers, NEW i \in Inputs, inputs[i].task \in Tasks,
           ~WorkspaceBusy(Ws(i)), TakeClaim(w, i), UNCHANGED inputs
    PROVE  FenceInv'
<1> USE DEF FenceInv
<1>a. None \notin Inputs /\ None \notin Workers /\ None \notin Tasks
  BY QueueAssumption
<1>0. Ws(i) \in Workspaces
  BY WsType
<1>1. leases' \in [Inputs -> Lease] /\ locks' \in [Workspaces -> Lock]
  BY DEF TakeClaim, Lease, Lock
<1>2. leases'[i] = [owner |-> w, live |-> TRUE]
      /\ locks'[Ws(i)] = [input |-> i, owner |-> w, live |-> TRUE]
  BY <1>0 DEF TakeClaim
<1>3. \A j \in Inputs : j # i => leases'[j] = leases[j]
  BY DEF TakeClaim
<1>4. \A ws \in Workspaces : ws # Ws(i) => locks'[ws] = locks[ws]
  BY DEF TakeClaim
<1>5. \A j \in Inputs : Ws(j)' = Ws(j)
  BY DEF Ws
<1>6. ~locks[Ws(i)].live
  BY <1>0, <1>a DEF WorkspaceBusy, FenceMatchesLease
<1>7. \A j \in Inputs : leases[j].live => Ws(j) # Ws(i)
  <2> SUFFICES ASSUME NEW j \in Inputs, leases[j].live, Ws(j) = Ws(i)
               PROVE  FALSE
    OBVIOUS
  <2>1. locks[Ws(j)] = [input |-> j, owner |-> leases[j].owner, live |-> TRUE]
    BY DEF FenceMatchesLease
  <2> QED BY <2>1, <1>6
<1>8. \A j \in Inputs : leases[j].live => Ws(j) \in Workspaces
  BY WsType DEF LeaseBound
<1>9. LeaseBound'
  BY <1>3 DEF LeaseBound
<1>10. FenceMatchesLease'
  <2>1. ASSUME NEW j \in Inputs, leases'[j].live
        PROVE  locks'[Ws(j)'] = [input |-> j, owner |-> leases'[j].owner, live |-> TRUE]
    <3>1. CASE j = i
      BY <3>1, <1>2, <1>5
    <3>2. CASE j # i
      BY <2>1, <3>2, <1>3, <1>4, <1>5, <1>7, <1>8 DEF FenceMatchesLease
    <3> QED BY <3>1, <3>2
  <2>2. ASSUME NEW ws \in Workspaces, locks'[ws].live
        PROVE  /\ locks'[ws].input # None
               /\ leases'[locks'[ws].input] = [owner |-> locks'[ws].owner, live |-> TRUE]
    <3>1. CASE ws = Ws(i)
      BY <3>1, <1>2, <1>a
    <3>2. CASE ws # Ws(i)
      BY <2>2, <3>2, <1>3, <1>4 DEF FenceMatchesLease, FencePlace
    <3> QED BY <3>1, <3>2
  <2> QED BY <2>1, <2>2 DEF FenceMatchesLease
<1>11. FencePlace'
  <2> SUFFICES ASSUME NEW ws \in Workspaces, locks'[ws].live
               PROVE  /\ locks'[ws].input \in Inputs
                      /\ WorkspaceOf[inputs'[locks'[ws].input].task] = ws
    BY DEF FencePlace, Ws
  <2>1. CASE ws = Ws(i)
    BY <2>1, <1>2 DEF Ws
  <2>2. CASE ws # Ws(i)
    BY <2>2, <1>4 DEF FencePlace, Ws
  <2> QED BY <2>1, <2>2
<1> QED BY <1>1, <1>9, <1>10, <1>11

\* A claim that finds nothing at most deletes a fence that has expired.
LEMMA ClaimNothingFence ==
    ASSUME FenceInv, NEW ws \in Workspaces, ClaimNothing(ws), UNCHANGED inputs
    PROVE  FenceInv'
<1> USE DEF FenceInv
<1>1. leases' = leases /\ locks' \in [Workspaces -> Lock]
  BY DEF ClaimNothing, NoLock, Lock
<1>2. \A v \in Workspaces : locks'[v] = locks[v] \/ (~locks[v].live /\ ~locks'[v].live)
  BY DEF ClaimNothing, NoLock
<1>3. \A j \in Inputs : Ws(j)' = Ws(j)
  BY DEF Ws
<1>4. \A j \in Inputs : leases[j].live => Ws(j) \in Workspaces
  BY WsType DEF LeaseBound
<1>5. LeaseBound'
  BY <1>1 DEF LeaseBound
<1>6. FenceMatchesLease'
  BY <1>1, <1>2, <1>3, <1>4 DEF FenceMatchesLease
<1>7. FencePlace'
  BY <1>1, <1>2, <1>3 DEF FencePlace
<1> QED BY <1>1, <1>5, <1>6, <1>7

\* Deleting a lease together with the fence, if the fence is of the same claim.
LEMMA DropFence ==
    ASSUME FenceInv, NEW w \in Workers, NEW i \in Inputs, inputs[i].task \in Tasks,
           leases[i].owner = w,
           leases' = [leases EXCEPT ![i] = NoLease],
           locks' = IF locks[Ws(i)].input = i /\ locks[Ws(i)].owner = w
                    THEN [locks EXCEPT ![Ws(i)] = NoLock] ELSE locks,
           \A j \in Inputs : inputs'[j].task = inputs[j].task
    PROVE  FenceInv'
<1> USE DEF FenceInv
<1>0. Ws(i) \in Workspaces
  BY WsType
<1>1. leases' \in [Inputs -> Lease] /\ locks' \in [Workspaces -> Lock]
  BY DEF NoLease, NoLock, Lease, Lock
<1>2. ~leases'[i].live /\ \A j \in Inputs : j # i => leases'[j] = leases[j]
  BY DEF NoLease
<1>3. \A j \in Inputs : Ws(j)' = Ws(j)
  BY DEF Ws
<1>4. \A j \in Inputs : leases[j].live => Ws(j) \in Workspaces
  BY WsType DEF LeaseBound
<1>5. \A ws \in Workspaces : ws # Ws(i) => locks'[ws] = locks[ws]
  OBVIOUS
<1>6. \/ locks' = locks /\ ~(locks[Ws(i)].input = i /\ locks[Ws(i)].owner = w)
      \/ ~locks'[Ws(i)].live /\ locks[Ws(i)].input = i
  BY <1>0 DEF NoLock
<1>7. \A j \in Inputs : leases[j].live /\ j # i => locks'[Ws(j)] = locks[Ws(j)]
  <2> SUFFICES ASSUME NEW j \in Inputs, leases[j].live, j # i
               PROVE  locks'[Ws(j)] = locks[Ws(j)]
    OBVIOUS
  <2>1. locks[Ws(j)] = [input |-> j, owner |-> leases[j].owner, live |-> TRUE]
    BY DEF FenceMatchesLease
  <2>2. CASE Ws(j) = Ws(i)
    BY <2>1, <2>2, <1>6
  <2>3. CASE Ws(j) # Ws(i)
    BY <2>3, <1>4, <1>5
  <2> QED BY <2>2, <2>3
<1>8. \A ws \in Workspaces : locks'[ws].live => locks'[ws] = locks[ws] /\ locks[ws].input # i
  <2> SUFFICES ASSUME NEW ws \in Workspaces, locks'[ws].live
               PROVE  locks'[ws] = locks[ws] /\ locks[ws].input # i
    OBVIOUS
  <2>1. CASE ws # Ws(i)
    BY <2>1, <1>5 DEF FencePlace
  <2>2. CASE ws = Ws(i)
    <3>1. locks' = locks /\ ~(locks[Ws(i)].input = i /\ locks[Ws(i)].owner = w)
      BY <2>2, <1>6
    <3>2. leases[locks[ws].input] = [owner |-> locks[ws].owner, live |-> TRUE]
      BY <3>1 DEF FenceMatchesLease
    <3> QED BY <2>2, <3>1, <3>2
  <2> QED BY <2>1, <2>2
<1>9. LeaseBound'
  BY <1>2 DEF LeaseBound
<1>10. FenceMatchesLease'
  <2>1. ASSUME NEW j \in Inputs, leases'[j].live
        PROVE  locks'[Ws(j)'] = [input |-> j, owner |-> leases'[j].owner, live |-> TRUE]
    BY <2>1, <1>2, <1>3, <1>7 DEF FenceMatchesLease
  <2>2. ASSUME NEW ws \in Workspaces, locks'[ws].live
        PROVE  /\ locks'[ws].input # None
               /\ leases'[locks'[ws].input] = [owner |-> locks'[ws].owner, live |-> TRUE]
    BY <2>2, <1>2, <1>8 DEF FenceMatchesLease, FencePlace
  <2> QED BY <2>1, <2>2 DEF FenceMatchesLease
<1>11. FencePlace'
  BY <1>3, <1>8 DEF FencePlace
<1> QED BY <1>1, <1>9, <1>10, <1>11

\* Releasing a claim, owned or not.
LEMMA ReleaseClaimFence ==
    ASSUME FenceInv, NEW w \in Workers, NEW i \in Inputs, inputs[i].task \in Tasks,
           ReleaseClaim(w, i), UNCHANGED inputs
    PROVE  FenceInv'
<1>1. CASE leases[i].owner = w
  BY <1>1, DropFence DEF ReleaseClaim
<1>2. CASE leases[i].owner # w
  <2>1. UNCHANGED <<leases, locks, inputs>>
    BY <1>2 DEF ReleaseClaim
  <2> QED BY <2>1 DEF FenceInv, LeaseBound, FenceMatchesLease, FencePlace, Ws
<1> QED BY <1>1, <1>2

\* Steps that leave both tables alone and keep the task of every leased input.
LEMMA UnchangedFence ==
    ASSUME FenceInv, UNCHANGED <<leases, locks>>,
           \A j \in Inputs : inputs[j].task \in Tasks => inputs'[j].task = inputs[j].task
    PROVE  FenceInv'
<1> USE DEF FenceInv
<1>1. \A j \in Inputs : leases[j].live => Ws(j)' = Ws(j) /\ inputs'[j].task \in Tasks
  BY DEF Ws, LeaseBound
<1>2. LeaseBound'
  BY <1>1 DEF LeaseBound
<1>3. FenceMatchesLease'
  BY <1>1 DEF FenceMatchesLease
<1>4. FencePlace'
  <2> SUFFICES ASSUME NEW ws \in Workspaces, locks[ws].live
               PROVE  /\ locks[ws].input \in Inputs
                      /\ WorkspaceOf[inputs'[locks[ws].input].task] = ws
    BY DEF FencePlace, Ws
  <2>1. locks[ws].input \in Inputs /\ Ws(locks[ws].input) = ws
    BY DEF FencePlace
  <2>2. leases[locks[ws].input].live
    <3>1. leases[locks[ws].input] = [owner |-> locks[ws].owner, live |-> TRUE]
      BY DEF FenceMatchesLease
    <3> QED BY <3>1
  <2>3. inputs'[locks[ws].input].task = inputs[locks[ws].input].task
    BY <2>1, <2>2 DEF LeaseBound
  <2> QED BY <2>1, <2>3 DEF Ws
<1> QED BY <1>2, <1>3, <1>4

-----------------------------------------------------------------------------
(* The inductive invariant *)

\* Before anything is queued there is neither a lease nor a fence.
LEMMA InitInv == Init => QueueInv
<1> SUFFICES ASSUME Init PROVE QueueInv
  OBVIOUS
<1> USE QueueAssumption DEF Init
<1>1. rounds \in [Tasks -> Seq(Round)]
  BY DEF Round, RoundStatus
<1>2. TypeOK
  BY <1>1 DEF TypeOK, AttemptStatus, Input, InputStatus, NoLease, Lease, NoLock, Lock,
              Idle, Job, Pc
<1>3. JobBound /\ InputBound
  BY DEF JobBound, InputBound, Idle
<1>4. FenceInv
  BY <1>2 DEF FenceInv, TypeOK, LeaseBound, FenceMatchesLease, FencePlace, NoLease, NoLock
<1> QED BY <1>2, <1>3, <1>4 DEF QueueInv

\* Every step but a round or lease change keeps the types; the lease tables are
\* dealt with by FenceInv.
RestOK ==
    /\ rounds \in [Tasks -> Seq(Round)]
    /\ attempt \in [Tasks -> AttemptStatus]
    /\ inputs \in [Inputs -> Input]
    /\ marker \in [Inputs -> Nat]
    /\ followups \subseteq Inputs
    /\ steering \subseteq Inputs
    /\ job \in [Workers -> Job]
    /\ frozen \in BOOLEAN
    /\ faults \in Nat
    /\ freezes \in Nat

\* TypeOK without the two claim tables, which the fence lemmas treat together.
LEMMA TypeSplit == TypeOK <=> RestOK /\ leases \in [Inputs -> Lease] /\ locks \in [Workspaces -> Lock]
  BY DEF TypeOK, RestOK

\* Steps of users, of the operator and the failure of a round touch no claim.
LEMMA UserStep ==
    ASSUME QueueInv,
           \/ \E t \in Tasks : AddUserMessage(t) \/ FailRound(t) \/ Interrupt(t)
           \/ \E t \in Tasks, i \in Inputs : QueueInput(t, i)
           \/ \E i \in Inputs : Cancel(i) \/ SteerBegin(i) \/ SteerAccepted(i) \/ SteerFailed(i)
           \/ Freeze \/ Unfreeze
    PROVE  QueueInv'
<1> USE DEF QueueInv
<1>0. RestOK
  BY TypeSplit
<1>a. None \notin Tasks /\ None \notin Inputs
  BY QueueAssumption
<1>1. ASSUME NEW t \in Tasks, AddUserMessage(t) PROVE QueueInv'
  <2>1. rounds' \in [Tasks -> Seq(Round)]
    BY <1>0, <1>1, FollowupType DEF RestOK, AddUserMessage
  <2>2. RestOK'
    BY <1>0, <1>1, <2>1 DEF RestOK, AddUserMessage, AttemptStatus
  <2>3. FenceInv'
    BY <1>1, UnchangedFence DEF AddUserMessage
  <2>4. JobBound' /\ InputBound'
    BY <1>1 DEF AddUserMessage, JobBound, InputBound
  <2> QED BY <2>2, <2>3, <2>4, TypeSplit DEF FenceInv, TypeOK, RestOK
<1>2. ASSUME NEW t \in Tasks, FailRound(t) PROVE QueueInv'
  <2>1. rounds' \in [Tasks -> Seq(Round)]
    BY <1>0, <1>2, SetStatusType DEF RestOK, FailRound, RoundStatus
  <2>2. RestOK'
    BY <1>0, <1>2, <2>1 DEF RestOK, FailRound, AttemptStatus
  <2>3. FenceInv'
    BY <1>2, UnchangedFence DEF FailRound
  <2>4. JobBound' /\ InputBound'
    BY <1>2 DEF FailRound, JobBound, InputBound
  <2> QED BY <2>2, <2>3, <2>4 DEF FenceInv, TypeOK, RestOK
<1>2i. ASSUME NEW t \in Tasks, Interrupt(t) PROVE QueueInv'
  <2>1. rounds' \in [Tasks -> Seq(Round)]
    BY <1>0, <1>2i, SetStatusType DEF RestOK, Interrupt, RoundStatus
  <2>2. RestOK'
    BY <1>0, <1>2i, <2>1 DEF RestOK, Interrupt, AttemptStatus
  <2>3. FenceInv'
    BY <1>2i, UnchangedFence DEF Interrupt
  <2>4. JobBound' /\ InputBound'
    BY <1>2i DEF Interrupt, JobBound, InputBound
  <2> QED BY <2>2, <2>3, <2>4 DEF FenceInv, TypeOK, RestOK
<1>3. ASSUME NEW t \in Tasks, NEW i \in Inputs, QueueInput(t, i) PROVE QueueInv'
  <2>1. CurrentRound(t) \in Nat
    BY CurrentRoundNat
  <2>2. RestOK'
    BY <1>0, <1>3, <2>1 DEF RestOK, QueueInput, Input, InputStatus
  <2>3. inputs[i].task = None /\ \A j \in Inputs : j # i => inputs'[j] = inputs[j]
    BY <1>0, <1>3 DEF InputBound, QueueInput, RestOK
  <2>4. FenceInv'
    BY <1>3, <1>a, <2>3, UnchangedFence DEF QueueInput
  <2>5. InputBound'
    BY <1>0, <1>3, <2>3 DEF InputBound, QueueInput, RestOK
  <2>6. JobBound'
    BY <1>3, <1>a, <2>3 DEF JobBound, QueueInput
  <2> QED BY <2>2, <2>4, <2>5, <2>6 DEF FenceInv, TypeOK, RestOK
<1>4. ASSUME NEW i \in Inputs, Cancel(i) \/ SteerBegin(i) \/ SteerAccepted(i) \/ SteerFailed(i)
      PROVE  QueueInv'
  <2>1. RestOK'
    <3>1. CASE Cancel(i)
      BY <1>0, <3>1 DEF RestOK, Cancel, Input, InputStatus
    <3>2. CASE SteerBegin(i) \/ SteerFailed(i)
      BY <1>0, <3>2 DEF RestOK, SteerBegin, SteerFailed
    <3>3. CASE SteerAccepted(i)
      <4>1. inputs' \in [Inputs -> Input]
        <5> DEFINE x == [inputs[i] EXCEPT !.status = IF @ = "pending" THEN "steered" ELSE @]
        <5>1. inputs \in [Inputs -> Input]
          BY <1>0 DEF RestOK
        <5>2. inputs[i] \in Input
          BY <5>1
        <5>3. x \in Input
          BY <5>2 DEF Input, InputStatus
        <5>4. inputs' = [inputs EXCEPT ![i] = x]
          BY <3>3 DEF SteerAccepted
        <5> HIDE DEF x
        <5> QED BY <5>1, <5>3, <5>4
      <4>2. followups' \subseteq Inputs
        BY <1>0, <3>3 DEF RestOK, SteerAccepted
      <4>3. steering' \subseteq Inputs
        BY <1>0, <3>3 DEF RestOK, SteerAccepted
      <4> QED BY <1>0, <3>3, <4>1, <4>2, <4>3 DEF RestOK, SteerAccepted
    <3> QED BY <1>4, <3>1, <3>2, <3>3
  <2>2. \A j \in Inputs : /\ inputs'[j].task = inputs[j].task
                          /\ inputs'[j].status = "new" <=> inputs[j].status = "new"
    BY <1>0, <1>4 DEF RestOK, Cancel, SteerBegin, SteerAccepted, SteerFailed, Input
  <2>3. FenceInv'
    BY <1>4, <2>2, UnchangedFence DEF Cancel, SteerBegin, SteerAccepted, SteerFailed
  <2>4. InputBound'
    BY <2>2 DEF InputBound
  <2>5. JobBound'
    BY <1>4, <2>2 DEF JobBound, Cancel, SteerBegin, SteerAccepted, SteerFailed
  <2> QED BY <2>1, <2>3, <2>4, <2>5 DEF FenceInv, TypeOK, RestOK
<1>5. ASSUME Freeze \/ Unfreeze PROVE QueueInv'
  <2>1. RestOK'
    <3>1. frozen' \in BOOLEAN
      BY <1>5, Zenon DEF Freeze, Unfreeze
    <3>2. freezes' \in Nat
      BY <1>0, <1>5 DEF RestOK, Freeze, Unfreeze
    <3>3. UNCHANGED <<rounds, attempt, inputs, marker, followups, steering, job, faults>>
      BY <1>5 DEF Freeze, Unfreeze
    <3> QED BY <1>0, <3>1, <3>2, <3>3 DEF RestOK
  <2>2. FenceInv'
    BY <1>5, UnchangedFence DEF Freeze, Unfreeze
  <2>3. JobBound' /\ InputBound'
    BY <1>5 DEF Freeze, Unfreeze, JobBound, InputBound
  <2> QED BY <2>1, <2>2, <2>3 DEF FenceInv, TypeOK, RestOK
<1> QED BY <1>1, <1>2, <1>2i, <1>3, <1>4, <1>5

\* Expiry takes the life of a lease and of the fence that names its input.
LEMMA ExpireStep ==
    ASSUME QueueInv, NEW i \in Inputs, Expire(i)
    PROVE  QueueInv'
<1> USE DEF QueueInv
<1>0. RestOK
  BY TypeSplit
<1>1. RestOK'
  <2>1. faults' \in Nat
    BY <1>0 DEF RestOK, Expire
  <2> QED BY <1>0, <2>1 DEF RestOK, Expire
<1>2. inputs' = inputs /\ job' = job
  BY DEF Expire
<1>3. JobBound' /\ InputBound'
  BY <1>2 DEF JobBound, InputBound
<1>4. leases' \in [Inputs -> Lease] /\ ~leases'[i].live
      /\ \A j \in Inputs : j # i => leases'[j] = leases[j]
  BY DEF Expire, FenceInv, Lease
<1>5. locks' \in [Workspaces -> Lock]
  BY DEF Expire, FenceInv, Lock
<1>6. \A ws \in Workspaces :
        IF locks[ws].input = i THEN ~locks'[ws].live ELSE locks'[ws] = locks[ws]
  BY DEF Expire, FenceInv, Lock
<1>7. LeaseBound'
  BY <1>2, <1>4 DEF LeaseBound, FenceInv
<1>8. FenceMatchesLease'
  <2>1. ASSUME NEW j \in Inputs, leases'[j].live
        PROVE  locks'[Ws(j)'] = [input |-> j, owner |-> leases'[j].owner, live |-> TRUE]
    <3>1. j # i /\ leases[j].live
      BY <2>1, <1>4
    <3>2. Ws(j)' = Ws(j) /\ Ws(j) \in Workspaces
      BY <1>2, <3>1, WsType DEF Ws, LeaseBound, FenceInv
    <3>3. locks[Ws(j)] = [input |-> j, owner |-> leases[j].owner, live |-> TRUE]
      BY <3>1 DEF FenceMatchesLease, FenceInv
    <3>4. locks[Ws(j)].input = j
      BY <3>3
    <3>5. locks'[Ws(j)] = locks[Ws(j)] /\ leases'[j] = leases[j]
      BY <3>1, <3>2, <3>4, <1>4, <1>6
    <3> QED BY <3>2, <3>3, <3>5
  <2>2. ASSUME NEW ws \in Workspaces, locks'[ws].live
        PROVE  /\ locks'[ws].input # None
               /\ leases'[locks'[ws].input] = [owner |-> locks'[ws].owner, live |-> TRUE]
    BY <2>2, <1>4, <1>6 DEF FenceMatchesLease, FencePlace, FenceInv
  <2> QED BY <2>1, <2>2 DEF FenceMatchesLease
<1>9. FencePlace'
  BY <1>2, <1>6 DEF FencePlace, FenceInv, Ws
<1> QED BY <1>1, <1>3, <1>4, <1>5, <1>7, <1>8, <1>9 DEF FenceInv, TypeOK, RestOK

\* A worker that has an input only changes its own job and keeps its input's task.
LEMMA JobStep ==
    ASSUME QueueInv, NEW w \in Workers, NEW jb \in Job,
           job' = [job EXCEPT ![w] = jb],
           \A j \in Inputs : inputs'[j].task = inputs[j].task,
           jb.pc = "claim" => jb.task \in Tasks,
           jb.pc \notin {"idle", "claim"} =>
             /\ jb.task \in Tasks /\ jb.input \in Inputs
             /\ inputs[jb.input].task = jb.task
    PROVE  job' \in [Workers -> Job] /\ JobBound'
<1>1. job \in [Workers -> Job]
  BY DEF QueueInv, TypeOK
<1>2. job' \in [Workers -> Job]
  BY <1>1
<1>3. ASSUME NEW v \in Workers
      PROVE  /\ job'[v].pc = "claim" => job'[v].task \in Tasks
             /\ job'[v].pc \notin {"idle", "claim"} =>
                  /\ job'[v].task \in Tasks /\ job'[v].input \in Inputs
                  /\ inputs'[job'[v].input].task = job'[v].task
  <2>1. CASE v = w
    BY <2>1, <1>1
  <2>2. CASE v # w
    BY <2>2, <1>1 DEF QueueInv, JobBound
  <2> QED BY <2>1, <2>2
<1> QED BY <1>2, <1>3 DEF JobBound

\* The steps a worker takes while it holds an input, by what they do to the job.
LEMMA WorkerJob ==
    ASSUME QueueInv, NEW w \in Workers
    PROVE  /\ Idle \in Job
           /\ job[w] \in Job
           /\ job[w].pc = "claim" => job[w].task \in Tasks
           /\ job[w].pc \notin {"idle", "claim"} =>
                /\ job[w].task \in Tasks /\ job[w].input \in Inputs
                /\ inputs[job[w].input].task = job[w].task
  BY DEF QueueInv, TypeOK, JobBound, Idle, Job, Pc

\* Ending a worker's run keeps the jobs consistent.
LEMMA GoIdleStep ==
    ASSUME QueueInv, NEW w \in Workers, GoIdle(w),
           \A j \in Inputs : inputs'[j].task = inputs[j].task
    PROVE  job' \in [Workers -> Job] /\ JobBound'
<1>1. Idle.pc = "idle"
  BY DEF Idle
<1> QED BY <1>1, WorkerJob, JobStep DEF GoIdle

\* Moving on to a later statement keeps the jobs consistent.
LEMMA SetJobStep ==
    ASSUME QueueInv, NEW w \in Workers, NEW pc \in Pc \ {"idle", "claim"}, SetJob(w, pc),
           job[w].pc \notin {"idle", "claim"},
           \A j \in Inputs : inputs'[j].task = inputs[j].task
    PROVE  job' \in [Workers -> Job] /\ JobBound'
<1> DEFINE jb == [job[w] EXCEPT !.pc = pc]
<1>1. jb \in Job /\ jb.pc = pc /\ jb.task = job[w].task /\ jb.input = job[w].input
  BY WorkerJob DEF Job
<1>2. job' = [job EXCEPT ![w] = jb]
  BY DEF SetJob
<1> HIDE DEF jb
<1> QED BY <1>1, <1>2, WorkerJob, JobStep

\* One case per statement of the queue consumer.
LEMMA WorkerStepInv ==
    ASSUME QueueInv, NEW w \in Workers, WorkerStep(w)
    PROVE  QueueInv'
<1> USE DEF QueueInv
<1>0. RestOK /\ FenceInv
  BY TypeSplit
<1>j. /\ job[w] \in Job
      /\ job[w].pc = "claim" => job[w].task \in Tasks
      /\ job[w].pc \notin {"idle", "claim"} =>
           /\ job[w].task \in Tasks /\ job[w].input \in Inputs
           /\ inputs[job[w].input].task = job[w].task
  BY WorkerJob
<1> DEFINE i == job[w].input
           t == job[w].task
<1>1. CASE ClaimAfterRound(w)
  <2>0. t \in Tasks /\ WorkspaceOf[t] \in Workspaces /\ inputs' = inputs
    BY <1>1, <1>j, QueueAssumption DEF ClaimAfterRound
  <2>1. FenceInv' /\ job' \in [Workers -> Job] /\ JobBound'
    <3>1. CASE GoIdle(w) /\ UNCHANGED <<leases, locks>>
      BY <3>1, <1>0, <2>0, GoIdleStep, UnchangedFence
    <3>2. CASE \E k \in Eligible(t, job[w].source) :
                 /\ ~WorkspaceBusy(WorkspaceOf[t])
                 /\ TakeClaim(w, k)
                 /\ job' = [job EXCEPT ![w].pc = "claimed", ![w].input = k]
      <4>1. PICK k \in Eligible(t, job[w].source) :
                 /\ ~WorkspaceBusy(WorkspaceOf[t])
                 /\ TakeClaim(w, k)
                 /\ job' = [job EXCEPT ![w].pc = "claimed", ![w].input = k]
        BY <3>2
      <4>2. k \in Inputs /\ inputs[k].task = t
        BY DEF Eligible
      <4>3. FenceInv'
        BY <1>0, <2>0, <4>1, <4>2, TakeClaimFence DEF Ws
      <4> DEFINE jb == [job[w] EXCEPT !.pc = "claimed", !.input = k]
      <4>4. jb \in Job /\ jb.pc = "claimed" /\ jb.task = t /\ jb.input = k
        BY <1>j, <4>2 DEF Job, Pc
      <4>5. job' = [job EXCEPT ![w] = jb]
        BY <4>1
      <4> HIDE DEF jb
      <4>6. job' \in [Workers -> Job] /\ JobBound'
        BY <2>0, <4>2, <4>4, <4>5, JobStep
      <4> QED BY <4>3, <4>6
    <3>3. CASE ClaimNothing(WorkspaceOf[t]) /\ GoIdle(w)
      BY <3>3, <1>0, <2>0, GoIdleStep, ClaimNothingFence
    <3> QED BY <1>1, <3>1, <3>2, <3>3 DEF ClaimAfterRound
  <2>2. RestOK'
    BY <1>0, <1>1, <2>0, <2>1 DEF RestOK, ClaimAfterRound
  <2>3. InputBound'
    BY <2>0 DEF InputBound
  <2> QED BY <2>1, <2>2, <2>3 DEF FenceInv, TypeOK, RestOK
<1>g. ASSUME job[w].pc \notin {"idle", "claim"}, GiveUp(w), inputs' = inputs
      PROVE  FenceInv' /\ job' \in [Workers -> Job] /\ JobBound'
  BY <1>g, <1>0, <1>j, GoIdleStep, ReleaseClaimFence DEF GiveUp
<1>2. CASE MarkTransition(w)
  <2>0. job[w].pc = "claimed" /\ inputs' = inputs /\ t \in Tasks /\ i \in Inputs
    BY <1>2, <1>j DEF MarkTransition
  <2>1. marker' \in [Inputs -> Nat]
    BY <1>0, <1>2, <1>j, <2>0 DEF MarkTransition, RestOK, Job
  <2>2. FenceInv' /\ job' \in [Workers -> Job] /\ JobBound'
    <3>1. CASE GiveUp(w)
      BY <3>1, <2>0, <1>g
    <3>2. CASE SetJob(w, "marked") /\ UNCHANGED <<leases, locks>>
      BY <3>2, <1>0, <2>0, SetJobStep, UnchangedFence DEF Pc
    <3>3. CASE /\ job' = [job EXCEPT ![w].pc = "marked", ![w].source = marker[i]]
               /\ UNCHANGED <<leases, locks>>
      <4> DEFINE jb == [job[w] EXCEPT !.pc = "marked", !.source = marker[i]]
      <4>1. marker[i] \in Nat
        BY <1>0, <2>0 DEF RestOK
      <4>2. jb \in Job /\ jb.pc = "marked" /\ jb.task = t /\ jb.input = i
        BY <1>j, <4>1 DEF Job, Pc
      <4>3. job' = [job EXCEPT ![w] = jb]
        BY <3>3
      <4> HIDE DEF jb
      <4>4. job' \in [Workers -> Job] /\ JobBound'
        BY <1>j, <2>0, <4>2, <4>3, JobStep
      <4> QED BY <3>3, <4>4, <1>0, <2>0, UnchangedFence
    <3> QED BY <1>2, <3>1, <3>2, <3>3 DEF MarkTransition
  <2>3. RestOK'
    BY <1>0, <1>2, <2>0, <2>1, <2>2 DEF RestOK, MarkTransition
  <2>4. InputBound'
    BY <2>0 DEF InputBound
  <2> QED BY <2>2, <2>3, <2>4 DEF FenceInv, TypeOK, RestOK
<1>3. CASE StartRound(w)
  <2>0. job[w].pc = "marked" /\ inputs' = inputs /\ t \in Tasks /\ i \in Inputs
    BY <1>3, <1>j DEF StartRound
  <2>1. CASE \E r \in RoundsOf(i) :
               /\ job' = [job EXCEPT ![w].pc = "started", ![w].target = r]
               /\ UNCHANGED <<rounds, attempt, leases, locks>>
    <3>1. PICK r \in RoundsOf(i) :
               /\ job' = [job EXCEPT ![w].pc = "started", ![w].target = r]
               /\ UNCHANGED <<rounds, attempt, leases, locks>>
      BY <2>1
    <3>2. r \in Nat
      <4>1. inputs[i].task \in Tasks /\ rounds[inputs[i].task] \in Seq(Round)
        BY <1>0, <1>j, <2>0 DEF RestOK
      <4>2. r \in DOMAIN rounds[inputs[i].task]
        BY DEF RoundsOf
      <4> QED BY <4>1, <4>2
    <3> DEFINE jb == [job[w] EXCEPT !.pc = "started", !.target = r]
    <3>3. jb \in Job /\ jb.pc = "started" /\ jb.task = t /\ jb.input = i
      BY <1>j, <3>2 DEF Job, Pc
    <3>4. job' = [job EXCEPT ![w] = jb]
      BY <3>1
    <3> HIDE DEF jb
    <3>5. job' \in [Workers -> Job] /\ JobBound'
      BY <1>j, <2>0, <3>3, <3>4, JobStep
    <3>6. FenceInv'
      BY <1>0, <2>0, <3>1, UnchangedFence
    <3>7. RestOK' /\ InputBound'
      BY <1>0, <1>3, <2>0, <3>1, <3>5 DEF RestOK, StartRound, InputBound
    <3> QED BY <3>5, <3>6, <3>7 DEF FenceInv, TypeOK, RestOK
  <2>2. CASE GiveUp(w) /\ UNCHANGED <<rounds, attempt>>
    <3>1. FenceInv' /\ job' \in [Workers -> Job] /\ JobBound'
      BY <2>0, <2>2, <1>g
    <3>2. RestOK' /\ InputBound'
      BY <1>0, <1>3, <2>0, <2>2, <3>1 DEF RestOK, StartRound, InputBound
    <3> QED BY <3>1, <3>2 DEF FenceInv, TypeOK, RestOK
  <2>3. CASE /\ StartFollowupRound(t, i)
             /\ attempt' = [attempt EXCEPT ![t] = "queued"]
             /\ job' = [job EXCEPT ![w].pc = "started", ![w].target = CurrentRound(t) + 1]
             /\ UNCHANGED <<leases, locks>>
    <3>1. rounds' \in [Tasks -> Seq(Round)]
      BY <1>0, <2>0, <2>3, FollowupType DEF RestOK
    <3>2. CurrentRound(t) + 1 \in Nat
      BY <2>0, CurrentRoundNat
    <3> DEFINE jb == [job[w] EXCEPT !.pc = "started", !.target = CurrentRound(t) + 1]
    <3>3. jb \in Job /\ jb.pc = "started" /\ jb.task = t /\ jb.input = i
      BY <1>j, <3>2 DEF Job, Pc
    <3>4. job' = [job EXCEPT ![w] = jb]
      BY <2>3
    <3> HIDE DEF jb
    <3>5. job' \in [Workers -> Job] /\ JobBound'
      BY <1>j, <2>0, <3>3, <3>4, JobStep
    <3>6. FenceInv'
      BY <1>0, <2>0, <2>3, UnchangedFence
    <3>7. RestOK' /\ InputBound'
      BY <1>0, <1>3, <2>0, <2>3, <3>1, <3>5 DEF RestOK, StartRound, InputBound, AttemptStatus
    <3> QED BY <3>5, <3>6, <3>7 DEF FenceInv, TypeOK, RestOK
  <2> QED BY <1>3, <2>1, <2>2, <2>3 DEF StartRound
<1>4. CASE RecordFollowup(w)
  <2>0. job[w].pc = "started" /\ inputs' = inputs /\ t \in Tasks /\ i \in Inputs
    BY <1>4, <1>j DEF RecordFollowup
  <2>1. job' \in [Workers -> Job] /\ JobBound'
    BY <1>4, <2>0, SetJobStep DEF RecordFollowup, Pc
  <2>2. /\ followups' \subseteq Inputs
        /\ attempt' \in [Tasks -> AttemptStatus]
    <3>0. /\ followups \subseteq Inputs
          /\ attempt \in [Tasks -> AttemptStatus]
      BY <1>0 DEF RestOK
    <3>1. CASE UNCHANGED <<followups, attempt>>
      BY <3>0, <3>1
    <3>2. CASE /\ followups' = followups \cup {i}
               /\ attempt' = [attempt EXCEPT ![t] = "queued"]
      <4>1. "queued" \in AttemptStatus
        BY DEF AttemptStatus
      <4> QED BY <2>0, <3>0, <3>2, <4>1
    <3> QED BY <1>4, <3>1, <3>2 DEF RecordFollowup
  <2>4. FenceInv'
    BY <1>0, <1>4, <2>0, UnchangedFence DEF RecordFollowup
  <2>5. RestOK' /\ InputBound'
    BY <1>0, <1>4, <2>0, <2>1, <2>2 DEF RestOK, RecordFollowup, InputBound
  <2> QED BY <2>1, <2>4, <2>5 DEF FenceInv, TypeOK, RestOK
<1>5. CASE Dispatch(w)
  <2>0. job[w].pc = "dispatch" /\ inputs' = inputs /\ t \in Tasks /\ i \in Inputs
    BY <1>5, <1>j DEF Dispatch
  <2>1. attempt' \in [Tasks -> AttemptStatus]
    BY <1>0, <1>5, <2>0 DEF Dispatch, RestOK, AttemptStatus
  <2>2. FenceInv' /\ job' \in [Workers -> Job] /\ JobBound'
    <3>1. CASE GiveUp(w)
      BY <3>1, <2>0, <1>g
    <3>2. CASE GoIdle(w) /\ UNCHANGED <<leases, locks>>
      BY <3>2, <1>0, <2>0, GoIdleStep, UnchangedFence
    <3>3. CASE SetJob(w, "dispatching") /\ UNCHANGED <<leases, locks>>
      BY <3>3, <1>0, <2>0, SetJobStep, UnchangedFence DEF Pc
    <3>4. CASE SetJob(w, "finish") /\ UNCHANGED <<leases, locks>>
      BY <3>4, <1>0, <2>0, SetJobStep, UnchangedFence DEF Pc
    <3> QED BY <1>5, <3>1, <3>2, <3>3, <3>4 DEF Dispatch
  <2>3. RestOK' /\ InputBound'
    BY <1>0, <1>5, <2>0, <2>1, <2>2 DEF RestOK, Dispatch, InputBound
  <2> QED BY <2>2, <2>3 DEF FenceInv, TypeOK, RestOK
<1>6. CASE DispatchReturns(w)
  <2>0. job[w].pc = "dispatching" /\ inputs' = inputs /\ t \in Tasks /\ i \in Inputs
    BY <1>6, <1>j DEF DispatchReturns
  <2>1. attempt' \in [Tasks -> AttemptStatus]
    BY <1>0, <1>6, <2>0 DEF DispatchReturns, RestOK, AttemptStatus
  <2>2. rounds' \in [Tasks -> Seq(Round)]
    <3>0. rounds \in [Tasks -> Seq(Round)] /\ "blocked" \in RoundStatus
      BY <1>0 DEF RestOK, RoundStatus
    <3>1. CASE UNCHANGED rounds
      BY <3>0, <3>1
    <3>2. CASE rounds' = [rounds EXCEPT ![t][CurrentRound(t)].status = "blocked"]
      BY <2>0, <3>0, <3>2, SetStatusType
    <3> QED BY <1>6, <3>1, <3>2 DEF DispatchReturns
  <2>3. job' \in [Workers -> Job] /\ JobBound'
    BY <1>6, <2>0, SetJobStep DEF DispatchReturns, Pc
  <2>4. FenceInv'
    BY <1>0, <1>6, <2>0, UnchangedFence DEF DispatchReturns
  <2>5. RestOK' /\ InputBound'
    BY <1>0, <1>6, <2>0, <2>1, <2>2, <2>3 DEF RestOK, DispatchReturns, InputBound
  <2> QED BY <2>3, <2>4, <2>5 DEF FenceInv, TypeOK, RestOK
<1>7. CASE Consume(w)
  <2>0. job[w].pc = "finish" /\ t \in Tasks /\ i \in Inputs /\ inputs[i].task = t
        /\ job[w].target \in Nat /\ GoIdle(w)
    BY <1>7, <1>j DEF Consume, Job
  <2>1. \/ UNCHANGED inputs
        \/ /\ inputs[i].status = "pending"
           /\ inputs' = [inputs EXCEPT ![i].status = "consumed",
                                       ![i].into = job[w].target]
    BY <1>7 DEF Consume
  <2>2. /\ inputs' \in [Inputs -> Input]
        /\ \A j \in Inputs : /\ inputs'[j].task = inputs[j].task
                             /\ inputs'[j].status = "new" => inputs[j].status = "new"
                             /\ inputs'[j].status # "new" => inputs[j].status # "new"
    <3>0. inputs \in [Inputs -> Input]
      BY <1>0 DEF RestOK
    <3>1. CASE UNCHANGED inputs
      BY <3>0, <3>1
    <3>2. CASE /\ inputs[i].status = "pending"
               /\ inputs' = [inputs EXCEPT ![i].status = "consumed",
                                           ![i].into = job[w].target]
      <4> DEFINE row == [inputs[i] EXCEPT !.status = "consumed", !.into = job[w].target]
      <4>1. inputs[i] \in Input
        BY <2>0, <3>0
      <4>2. row \in Input /\ row.task = inputs[i].task /\ row.status = "consumed"
        BY <2>0, <4>1 DEF Input, InputStatus
      <4>3. inputs' = [inputs EXCEPT ![i] = row]
        BY <3>2
      <4> HIDE DEF row
      <4> QED BY <2>0, <3>0, <3>2, <4>2, <4>3
    <3> QED BY <2>1, <3>1, <3>2
  <2>3. job' \in [Workers -> Job] /\ JobBound'
    BY <2>0, <2>2, GoIdleStep
  <2>4. FenceInv'
    <3>1. CASE UNCHANGED <<leases, locks>>
      BY <3>1, <1>0, <2>2, UnchangedFence
    <3>2. CASE ReleaseClaim(w, i) /\ UNCHANGED inputs
      BY <3>2, <1>0, <2>0, ReleaseClaimFence
    <3>3. CASE /\ OwnsLease(w, i) /\ OwnsLock(w, i)
               /\ leases' = [leases EXCEPT ![i] = NoLease]
               /\ locks' = [locks EXCEPT ![Ws(i)] = NoLock]
      BY <3>3, <1>0, <2>0, <2>2, DropFence DEF OwnsLease, OwnsLock
    <3> QED BY <1>7, <3>1, <3>2, <3>3 DEF Consume
  <2>5. RestOK' /\ InputBound'
    BY <1>0, <1>7, <2>2, <2>3 DEF RestOK, Consume, InputBound
  <2> QED BY <2>3, <2>4, <2>5 DEF FenceInv, TypeOK, RestOK
<1> QED BY <1>1, <1>2, <1>3, <1>4, <1>5, <1>6, <1>7 DEF WorkerStep

\* The remaining steps of a worker: completing a round, recovering a marked
\* input, and dying.
LEMMA OtherWorkerStep ==
    ASSUME QueueInv, NEW w \in Workers,
           \/ \E t \in Tasks : CompleteRound(w, t)
           \/ \E i \in Inputs : RecoverTransition(w, i)
           \/ Crash(w)
    PROVE  QueueInv'
<1> USE DEF QueueInv
<1>0. RestOK /\ FenceInv
  BY TypeSplit
<1>1. ASSUME NEW t \in Tasks, CompleteRound(w, t) PROVE QueueInv'
  <2>0. inputs' = inputs /\ CurrentRound(t) \in Nat
    BY <1>1, CurrentRoundNat DEF CompleteRound
  <2> DEFINE jb == [pc |-> "claim", task |-> t, input |-> None,
                    source |-> CurrentRound(t), target |-> 0]
  <2>1. jb \in Job /\ jb.pc = "claim" /\ jb.task = t
    BY <2>0 DEF Job, Pc
  <2>2. job' = [job EXCEPT ![w] = jb]
    BY <1>1 DEF CompleteRound
  <2> HIDE DEF jb
  <2>3. job' \in [Workers -> Job] /\ JobBound'
    BY <2>0, <2>1, <2>2, JobStep
  <2>4. rounds' \in [Tasks -> Seq(Round)]
    BY <1>0, <1>1, SetStatusType DEF RestOK, CompleteRound, RoundStatus
  <2>5. RestOK' /\ InputBound'
    BY <1>0, <1>1, <2>0, <2>3, <2>4 DEF RestOK, CompleteRound, InputBound, AttemptStatus
  <2>6. FenceInv'
    BY <1>0, <1>1, <2>0, UnchangedFence DEF CompleteRound
  <2> QED BY <2>3, <2>5, <2>6 DEF FenceInv, TypeOK, RestOK
<1>2. ASSUME NEW i \in Inputs, RecoverTransition(w, i) PROVE QueueInv'
  <2>0. inputs' = inputs /\ inputs[i].task \in Tasks /\ marker[i] \in Nat
    BY <1>0, <1>2 DEF RecoverTransition, InputBound, RestOK
  <2> DEFINE jb == [pc |-> "claimed", task |-> inputs[i].task, input |-> i,
                    source |-> marker[i], target |-> 0]
  <2>1. jb \in Job /\ jb.pc = "claimed" /\ jb.task = inputs[i].task /\ jb.input = i
    BY <2>0 DEF Job, Pc
  <2>2. job' = [job EXCEPT ![w] = jb]
    BY <1>2 DEF RecoverTransition
  <2> HIDE DEF jb
  <2>3. job' \in [Workers -> Job] /\ JobBound'
    BY <2>0, <2>1, <2>2, JobStep
  <2>4. FenceInv'
    BY <1>0, <1>2, <2>0, TakeClaimFence DEF RecoverTransition
  <2>5. RestOK' /\ InputBound'
    BY <1>0, <1>2, <2>0, <2>3 DEF RestOK, RecoverTransition, InputBound
  <2> QED BY <2>3, <2>4, <2>5 DEF FenceInv, TypeOK, RestOK
<1>3. CASE Crash(w)
  <2>0. inputs' = inputs /\ GoIdle(w)
    BY <1>3 DEF Crash
  <2>1. job' \in [Workers -> Job] /\ JobBound'
    BY <2>0, GoIdleStep
  <2>2. RestOK' /\ InputBound'
    BY <1>0, <1>3, <2>0, <2>1 DEF RestOK, Crash, InputBound
  <2>3. FenceInv'
    BY <1>0, <1>3, <2>0, UnchangedFence DEF Crash
  <2> QED BY <2>1, <2>2, <2>3 DEF FenceInv, TypeOK, RestOK
<1> QED BY <1>1, <1>2, <1>3

\* QueueInv is inductive.
LEMMA NextInv == QueueInv /\ [Next]_vars => QueueInv'
<1> SUFFICES ASSUME QueueInv, [Next]_vars PROVE QueueInv'
  OBVIOUS
<1>1. CASE UNCHANGED vars
  BY <1>1 DEF vars, QueueInv, TypeOK, JobBound, InputBound, FenceInv, LeaseBound,
              FenceMatchesLease, FencePlace, Ws
<1>2. CASE Next
  BY <1>2, UserStep, ExpireStep, WorkerStepInv, OtherWorkerStep DEF Next
<1> QED BY <1>1, <1>2

\* Every reachable state satisfies the inductive invariant.
THEOREM QueueInvariant == Spec => []QueueInv
<1> QED BY InitInv, NextInv, PTL DEF Spec

\* The tables and the workers' local state are always well typed.
THEOREM QueueTypeCorrect == Spec => []TypeOK
<1>1. QueueInv => TypeOK
  BY DEF QueueInv
<1> QED BY <1>1, QueueInvariant, PTL

\* The lease of an input and the fence of its workspace never disagree, for any
\* number of workers, tasks and workspaces and any pattern of crashes, stalls and
\* takeovers.
THEOREM FenceAndLeaseAgree == Spec => []FenceMatchesLease
<1>1. QueueInv => FenceMatchesLease
  BY DEF QueueInv, FenceInv
<1> QED BY <1>1, QueueInvariant, PTL

\* Mutual exclusion of the queue consumer: a workspace never has two live leases.
THEOREM WorkspaceExclusion == Spec => []OneLiveLeasePerWorkspace
<1>1. QueueInv => OneLiveLeasePerWorkspace
  <2> SUFFICES ASSUME QueueInv, NEW i \in Inputs, NEW j \in Inputs,
                      leases[i].live, leases[j].live, Ws(i) = Ws(j)
               PROVE  i = j
    BY DEF OneLiveLeasePerWorkspace
  <2>1. /\ locks[Ws(i)] = [input |-> i, owner |-> leases[i].owner, live |-> TRUE]
        /\ locks[Ws(j)] = [input |-> j, owner |-> leases[j].owner, live |-> TRUE]
    BY DEF QueueInv, FenceInv, FenceMatchesLease
  <2>2. locks[Ws(i)].input = i /\ locks[Ws(j)].input = j
    BY <2>1
  <2> QED BY <2>2
<1> QED BY <1>1, QueueInvariant, PTL

-----------------------------------------------------------------------------
(* One round per input, in the order of the queue *)

\* The last round of a task is never superseded: it is the current one.
RoundShape ==
    \A t \in Tasks : /\ Len(rounds[t]) >= 1
                     /\ rounds[t][Len(rounds[t])].status # "superseded"

\* A round an input triggered is a round of the input's task and directly
\* follows the round that the input's transition marker names.
RoundBound ==
    \A t \in Tasks : \A r \in 1 .. Len(rounds[t]) : \A i \in Inputs :
        rounds[t][r].trigger = i =>
            inputs[i].task = t /\ marker[i] # 0 /\ r = marker[i] + 1

\* Ids are handed out in order, and a later input is queued behind the same or a
\* later round.
QueueOrder ==
    \A j \in Inputs : inputs[j].status # "new" =>
        /\ inputs[j].after <= Len(rounds[inputs[j].task])
        /\ \A i \in Inputs : i < j =>
             /\ inputs[i].status # "new"
             /\ inputs[i].task = inputs[j].task => inputs[i].after <= inputs[j].after

\* Nothing queued before j in the same task is still waiting.
EarlierSettled(j) ==
    \A i \in Inputs : (i < j /\ inputs[i].task = inputs[j].task)
                      => inputs[i].status # "pending"

MarkerBound ==
    \A j \in Inputs : marker[j] # 0 =>
        /\ inputs[j].status # "new" /\ inputs[j].after <= marker[j]
        /\ EarlierSettled(j)
        /\ \A i \in Inputs :
             (/\ i < j /\ inputs[i].task = inputs[j].task
              /\ inputs[i].status = "consumed") => inputs[i].into <= marker[j]

ConsumedBound ==
    \A i \in Inputs : inputs[i].status = "consumed" => inputs[i].into \in RoundsOf(i)

LatePc == {"started", "dispatch", "dispatching", "finish"}

\* What a worker knows of its input at each statement.
JobOrder(w) ==
    /\ job[w].pc # "idle" => job[w].source # 0
    /\ job[w].pc = "claimed" => /\ EarlierSettled(job[w].input)
                                /\ inputs[job[w].input].after <= job[w].source
    /\ job[w].pc \in LatePc \cup {"marked"} => marker[job[w].input] = job[w].source
    /\ job[w].pc \in LatePc => job[w].target \in RoundsOf(job[w].input)

RowOrder == RoundShape /\ RoundBound /\ QueueOrder /\ MarkerBound /\ ConsumedBound

OrderInv == RowOrder /\ \A w \in Workers : JobOrder(w)

\* What a step may do to rounds, settled inputs and markers: rounds keep their
\* trigger, a queued input its place, a settled input its row, a marker its round.
Forward ==
    /\ \A t \in Tasks :
         /\ Len(rounds[t]) <= Len(rounds'[t])
         /\ \A r \in 1 .. Len(rounds[t]) : rounds'[t][r].trigger = rounds[t][r].trigger
    /\ \A i \in Inputs : inputs[i].status # "new" =>
         /\ inputs'[i].task = inputs[i].task /\ inputs'[i].after = inputs[i].after
         /\ inputs'[i].status # "new"
         /\ inputs[i].status # "pending" => inputs'[i] = inputs[i]
    /\ \A i \in Inputs : marker[i] # 0 => marker'[i] = marker[i]

-----------------------------------------------------------------------------
(* Facts about rounds *)

\* The rounds of a task are numbered from one.
LEMMA RoundsType ==
    ASSUME TypeOK, NEW t \in Tasks
    PROVE  /\ rounds[t] \in Seq(Round) /\ Len(rounds[t]) \in Nat
           /\ DOMAIN rounds[t] = 1 .. Len(rounds[t])
           /\ \A r \in 1 .. Len(rounds[t]) : rounds[t][r] \in Round
<1>1. rounds[t] \in Seq(Round)
  BY DEF TypeOK
<1> QED BY <1>1

\* The current round is the last one.
LEMMA CurrentIsLast ==
    ASSUME TypeOK, RoundShape, NEW t \in Tasks
    PROVE  CurrentRound(t) = Len(rounds[t]) /\ Len(rounds[t]) \in Nat /\ Len(rounds[t]) >= 1
<1> DEFINE n == Len(rounds[t])
           S == LiveRounds(t)
<1>1. n \in Nat /\ DOMAIN rounds[t] = 1 .. n
  BY RoundsType
<1>2. n >= 1 /\ rounds[t][n].status # "superseded"
  BY DEF RoundShape
<1>3. S \subseteq 1 .. n /\ n \in S
  BY <1>1, <1>2 DEF LiveRounds
<1> HIDE DEF n, S
<1>4. \A y \in S : n >= y
  BY <1>1, <1>3
<1>5. Max(S) \in S /\ \A y \in S : Max(S) >= y
  BY <1>3, <1>4 DEF Max
<1>6. Max(S) = n
  <2>1. Max(S) \in 1 .. n /\ Max(S) >= n
    BY <1>3, <1>5
  <2> QED BY <1>1, <2>1
<1>7. CurrentRound(t) = Max(S)
  BY <1>3 DEF CurrentRound, S
<1> QED BY <1>1, <1>2, <1>6, <1>7 DEF n

\* A follow-up round is appended behind the rounds there are.
LEMMA FollowupRounds ==
    ASSUME TypeOK, RoundShape, NEW t \in Tasks, NEW g \in Inputs \cup {None},
           StartFollowupRound(t, g), NEW n, n = Len(rounds[t])
    PROVE  /\ n \in Nat /\ Len(rounds'[t]) = n + 1
           /\ rounds'[t][n + 1].trigger = g
           /\ \A r \in 1 .. n : rounds'[t][r].trigger = rounds[t][r].trigger
           /\ \A u \in Tasks : u # t => rounds'[u] = rounds[u]
           /\ RoundShape'
<1> DEFINE s == rounds[t]
           v == [r \in DOMAIN s |->
                   IF r = CurrentRound(t) /\ s[r].status \notin Ended
                   THEN [s[r] EXCEPT !.status = "superseded"] ELSE s[r]]
           new == [status |-> "running", trigger |-> g]
<1>1. s \in Seq(Round) /\ n \in Nat /\ DOMAIN s = 1 .. n
      /\ \A r \in 1 .. n : s[r] \in Round
  BY RoundsType
<1>2. new \in Round /\ new.status = "running" /\ new.trigger = g
  BY DEF Round, RoundStatus
<1>3. v \in [1 .. n -> Round] /\ \A r \in 1 .. n : v[r].trigger = s[r].trigger
  <2>1. \A r \in 1 .. n : v[r] \in Round /\ v[r].trigger = s[r].trigger
    BY <1>1 DEF Round, RoundStatus
  <2>2. v = [r \in 1 .. n |-> v[r]]
    BY <1>1
  <2> HIDE DEF v
  <2> QED BY <2>1, <2>2
<1>4. rounds' = [rounds EXCEPT ![t] = Append(v, new)] /\ rounds \in [Tasks -> Seq(Round)]
  BY DEF StartFollowupRound, TypeOK
<1> HIDE DEF v, new
<1>5. v \in Seq(Round) /\ Len(v) = n
  BY <1>1, <1>3
<1>6. Len(Append(v, new)) = n + 1 /\ Append(v, new)[n + 1] = new
      /\ \A r \in 1 .. n : Append(v, new)[r] = v[r]
  BY <1>1, <1>2, <1>5
<1>7. rounds'[t] = Append(v, new) /\ \A u \in Tasks : u # t => rounds'[u] = rounds[u]
  BY <1>4
<1>8. RoundShape'
  <2> SUFFICES ASSUME NEW u \in Tasks
               PROVE  /\ Len(rounds'[u]) >= 1
                      /\ rounds'[u][Len(rounds'[u])].status # "superseded"
    BY DEF RoundShape
  <2>1. CASE u = t
    BY <2>1, <1>1, <1>2, <1>6, <1>7
  <2>2. CASE u # t
    BY <2>2, <1>7 DEF RoundShape
  <2> QED BY <2>1, <2>2
<1> QED BY <1>1, <1>2, <1>3, <1>6, <1>7, <1>8

\* Ending or blocking the current round keeps every trigger.
LEMMA StatusRounds ==
    ASSUME TypeOK, RoundShape, NEW t \in Tasks, NEW st, st # "superseded",
           rounds' = [rounds EXCEPT ![t][CurrentRound(t)].status = st]
    PROVE  /\ \A u \in Tasks : /\ Len(rounds'[u]) = Len(rounds[u])
                               /\ \A r \in 1 .. Len(rounds[u]) :
                                    rounds'[u][r].trigger = rounds[u][r].trigger
           /\ RoundShape'
<1> DEFINE s == rounds[t]
           n == Len(s)
           v == [s EXCEPT ![n].status = st]
<1>1. s \in Seq(Round) /\ n \in Nat /\ DOMAIN s = 1 .. n
      /\ \A r \in 1 .. n : s[r] \in Round
  BY RoundsType
<1>2. CurrentRound(t) = n /\ n >= 1
  BY CurrentIsLast
<1>3. rounds' = [rounds EXCEPT ![t] = v] /\ rounds \in [Tasks -> Seq(Round)]
  BY <1>2 DEF TypeOK
<1>4. n \in 1 .. n
  BY <1>1, <1>2
<1>5. DOMAIN v = 1 .. n /\ v[n].status = st /\ \A r \in 1 .. n : v[r].trigger = s[r].trigger
  BY <1>1, <1>4 DEF Round
<1>6. Len(v) = n
  BY <1>1, <1>5
<1>7. rounds'[t] = v /\ \A u \in Tasks : u # t => rounds'[u] = rounds[u]
  BY <1>3
<1> HIDE DEF v
<1>8. RoundShape'
  <2> SUFFICES ASSUME NEW u \in Tasks
               PROVE  /\ Len(rounds'[u]) >= 1
                      /\ rounds'[u][Len(rounds'[u])].status # "superseded"
    BY DEF RoundShape
  <2>1. CASE u = t
    BY <2>1, <1>2, <1>5, <1>6, <1>7
  <2>2. CASE u # t
    BY <2>2, <1>7 DEF RoundShape
  <2> QED BY <2>1, <2>2
<1> QED BY <1>5, <1>6, <1>7, <1>8

-----------------------------------------------------------------------------
(* What a step forward keeps *)

\* A queued input belongs to a task, and its rounds are among that task's.
LEMMA RoundsOfQueued ==
    ASSUME QueueInv, NEW i \in Inputs, inputs[i].status # "new"
    PROVE  /\ inputs[i].task \in Tasks /\ inputs[i] \in Input
           /\ \A r : r \in RoundsOf(i) <=>
                (r \in 1 .. Len(rounds[inputs[i].task])
                 /\ rounds[inputs[i].task][r].trigger = i)
<1>1. inputs[i].task \in Tasks /\ inputs[i] \in Input
  BY DEF QueueInv, InputBound, TypeOK
<1>2. DOMAIN rounds[inputs[i].task] = 1 .. Len(rounds[inputs[i].task])
  BY <1>1, RoundsType DEF QueueInv
<1> QED BY <1>1, <1>2 DEF RoundsOf

\* A round keeps its input.
LEMMA RoundsOfForward ==
    ASSUME QueueInv, QueueInv', Forward, NEW i \in Inputs, inputs[i].status # "new",
           NEW r \in RoundsOf(i)
    PROVE  r \in RoundsOf(i)'
<1> DEFINE t == inputs[i].task
<1>1. t \in Tasks /\ r \in 1 .. Len(rounds[t]) /\ rounds[t][r].trigger = i
  BY RoundsOfQueued
<1>2. inputs'[i].task = t
  BY DEF Forward
<1> HIDE DEF t
<1>3. Len(rounds[t]) \in Nat /\ Len(rounds'[t]) \in Nat
      /\ DOMAIN rounds'[t] = 1 .. Len(rounds'[t])
  <2>1. rounds[t] \in Seq(Round) /\ rounds'[t] \in Seq(Round)
    BY <1>1 DEF QueueInv, TypeOK
  <2> QED BY <2>1
<1>4. Len(rounds[t]) <= Len(rounds'[t]) /\ rounds'[t][r].trigger = i
  BY <1>1 DEF Forward
<1>5. r \in 1 .. Len(rounds'[t])
  BY <1>1, <1>3, <1>4
<1> QED BY <1>2, <1>3, <1>4, <1>5 DEF RoundsOf

\* Nothing is queued in front of an input, and nothing settled waits again.
LEMMA SettledForward ==
    ASSUME QueueInv, QueueOrder, Forward, NEW j \in Inputs, inputs[j].status # "new",
           EarlierSettled(j)
    PROVE  EarlierSettled(j)'
<1> SUFFICES ASSUME NEW i \in Inputs, i < j, inputs'[i].task = inputs'[j].task
             PROVE  inputs'[i].status # "pending"
  BY DEF EarlierSettled
<1>1. inputs[i].status # "new"
  BY DEF QueueOrder
<1>2. inputs[i].task = inputs[j].task
  BY <1>1 DEF Forward
<1>3. inputs[i].status # "pending"
  BY <1>2 DEF EarlierSettled
<1> QED BY <1>1, <1>3 DEF Forward

\* What a worker knows stays true while others move on, and while it only goes
\* on to a later statement.
LEMMA JobsForward ==
    ASSUME QueueInv, QueueInv', OrderInv, Forward,
           \A w \in Workers :
             \/ job'[w] = job[w] \/ job'[w].pc = "idle" \/ JobOrder(w)'
             \/ /\ job[w].pc \in LatePc /\ job'[w].pc \in LatePc
                /\ job'[w].input = job[w].input /\ job'[w].source = job[w].source
                /\ job'[w].target = job[w].target
    PROVE  \A w \in Workers : JobOrder(w)'
<1> SUFFICES ASSUME NEW w \in Workers PROVE JobOrder(w)'
  OBVIOUS
<1>1. CASE job'[w].pc = "idle"
  BY <1>1 DEF JobOrder, LatePc
<1>2. ASSUME NEW i, i = job[w].input,
             /\ job'[w].input = job[w].input /\ job'[w].source = job[w].source
             /\ job'[w].target = job[w].target
             /\ \/ job'[w].pc = job[w].pc
                \/ job[w].pc \in LatePc /\ job'[w].pc \in LatePc,
             job[w].pc # "idle"
      PROVE  JobOrder(w)'
  <2>1. JobOrder(w) /\ QueueOrder
    BY DEF OrderInv, RowOrder
  <2>2. job[w].source # 0
    BY <1>2, <2>1 DEF JobOrder
  <2>3. CASE job[w].pc = "claim"
    BY <1>2, <2>2, <2>3 DEF JobOrder, LatePc
  <2>4. CASE job[w].pc # "claim"
    <3>1. i \in Inputs /\ inputs[i].task \in Tasks
      BY <1>2, <2>4 DEF QueueInv, JobBound
    <3>2. inputs[i].status # "new"
      BY <3>1, QueueAssumption DEF QueueInv, InputBound
    <3>3. job'[w].pc = "claimed" =>
            EarlierSettled(i)' /\ inputs'[i].after <= job[w].source
      <4> SUFFICES ASSUME job'[w].pc = "claimed"
                   PROVE  EarlierSettled(i)' /\ inputs'[i].after <= job[w].source
        OBVIOUS
      <4>1. job[w].pc = "claimed"
        BY <1>2 DEF LatePc
      <4>2. EarlierSettled(i) /\ inputs[i].after <= job[w].source
        BY <1>2, <2>1, <4>1 DEF JobOrder
      <4>3. inputs'[i].after = inputs[i].after
        BY <3>1, <3>2 DEF Forward
      <4>4. EarlierSettled(i)'
        BY <2>1, <3>1, <3>2, <4>2, SettledForward
      <4> QED BY <4>2, <4>3, <4>4
    <3>4. job'[w].pc \in LatePc \cup {"marked"} => marker'[i] = job[w].source
      BY <1>2, <2>1, <2>2, <3>1 DEF JobOrder, Forward
    <3>5. job'[w].pc \in LatePc => job[w].target \in RoundsOf(i)'
      BY <1>2, <2>1, <3>1, <3>2, RoundsOfForward DEF JobOrder
    <3> QED BY <1>2, <2>2, <3>3, <3>4, <3>5 DEF JobOrder, EarlierSettled, RoundsOf
  <2> QED BY <2>3, <2>4
<1>3. CASE job'[w] = job[w] /\ job[w].pc # "idle"
  BY <1>2, <1>3
<1>4. CASE job[w].pc \in LatePc
  BY <1>1, <1>2, <1>4 DEF LatePc
<1> QED BY <1>1, <1>2, <1>3, <1>4
-----------------------------------------------------------------------------
(* What each kind of write does to the rows *)

\* Rounds move on while inputs and markers stay.
LEMMA RowRounds ==
    ASSUME QueueInv, QueueInv', RowOrder, Forward, UNCHANGED <<inputs, marker>>,
           RoundShape', RoundBound'
    PROVE  RowOrder'
<1> USE DEF RowOrder
<1>1. QueueOrder'
  <2> SUFFICES ASSUME NEW j \in Inputs, inputs[j].status # "new"
               PROVE  /\ inputs[j].after <= Len(rounds'[inputs[j].task])
                      /\ \A i \in Inputs : i < j =>
                           /\ inputs[i].status # "new"
                           /\ inputs[i].task = inputs[j].task => inputs[i].after <= inputs[j].after
    BY DEF QueueOrder
  <2>1. inputs[j].task \in Tasks /\ inputs[j] \in Input
    BY RoundsOfQueued
  <2>2. /\ inputs[j].after <= Len(rounds[inputs[j].task])
        /\ Len(rounds[inputs[j].task]) <= Len(rounds'[inputs[j].task])
    BY <2>1 DEF QueueOrder, Forward
  <2>3. /\ rounds[inputs[j].task] \in Seq(Round) /\ rounds'[inputs[j].task] \in Seq(Round)
        /\ inputs[j].after \in Nat
    BY <2>1 DEF QueueInv, TypeOK, Input
  <2>4. Len(rounds[inputs[j].task]) \in Nat /\ Len(rounds'[inputs[j].task]) \in Nat
    BY <2>3
  <2>5. inputs[j].after <= Len(rounds'[inputs[j].task])
    BY <2>2, <2>3, <2>4
  <2> QED BY <2>5 DEF QueueOrder
<1>2. MarkerBound'
  BY DEF MarkerBound, EarlierSettled
<1>3. ConsumedBound'
  BY RoundsOfForward DEF ConsumedBound
<1> QED BY <1>1, <1>2, <1>3

\* A pending input is settled.
LEMMA RowSettle ==
    ASSUME QueueInv, QueueInv', RowOrder, UNCHANGED <<rounds, marker>>,
           NEW k \in Inputs, inputs[k].status = "pending",
           inputs'[k].status \notin {"new", "pending"},
           inputs'[k].task = inputs[k].task, inputs'[k].after = inputs[k].after,
           inputs'[k].status = "consumed" => inputs'[k].into \in RoundsOf(k),
           \A i \in Inputs : i # k => inputs'[i] = inputs[i]
    PROVE  RowOrder' /\ Forward
<1> USE DEF RowOrder
<1>a. \A t \in Tasks : Len(rounds[t]) \in Nat
  BY RoundsType DEF QueueInv
<1>b. \A i \in Inputs : inputs[i].task = inputs'[i].task /\ inputs[i].after = inputs'[i].after
                        /\ (inputs'[i].status # "new" <=> inputs[i].status # "new")
  OBVIOUS
<1>0. Forward
  BY <1>a DEF Forward
<1>1. RoundShape' /\ RoundBound'
  BY <1>b DEF RoundShape, RoundBound
<1>2. QueueOrder'
  BY <1>b DEF QueueOrder
<1>3. MarkerBound'
  <2> SUFFICES ASSUME NEW j \in Inputs, marker[j] # 0
               PROVE  /\ inputs'[j].status # "new" /\ inputs'[j].after <= marker[j]
                      /\ EarlierSettled(j)'
                      /\ \A i \in Inputs :
                           (/\ i < j /\ inputs'[i].task = inputs'[j].task
                            /\ inputs'[i].status = "consumed") => inputs'[i].into <= marker[j]
    BY DEF MarkerBound
  <2>1. EarlierSettled(j) /\ inputs[j].status # "new"
    BY DEF MarkerBound
  <2>2. EarlierSettled(j)'
    BY <1>0, <2>1, SettledForward
  <2>3. ASSUME NEW i \in Inputs, i < j, inputs'[i].task = inputs'[j].task,
               inputs'[i].status = "consumed"
        PROVE  inputs'[i].into <= marker[j]
    <3>1. i # k
      BY <1>b, <2>1, <2>3 DEF EarlierSettled
    <3> QED BY <1>b, <2>3, <3>1 DEF MarkerBound
  <2>4. inputs'[j].status # "new" /\ inputs'[j].after <= marker[j]
    BY <1>b DEF MarkerBound
  <2> QED BY <2>2, <2>3, <2>4
<1>4. ConsumedBound'
  <2> SUFFICES ASSUME NEW i \in Inputs, inputs'[i].status = "consumed"
               PROVE  inputs'[i].into \in RoundsOf(i)'
    BY DEF ConsumedBound
  <2>1. RoundsOf(i)' = RoundsOf(i)
    BY <1>b DEF RoundsOf
  <2>2. inputs'[i].into \in RoundsOf(i)
    BY DEF ConsumedBound
  <2> QED BY <2>1, <2>2
<1> QED BY <1>0, <1>1, <1>2, <1>3, <1>4

\* A new input is queued behind the current round.
LEMMA RowQueue ==
    ASSUME QueueInv, QueueInv', RowOrder, NEW t \in Tasks, NEW k \in Inputs, QueueInput(t, k)
    PROVE  RowOrder' /\ Forward
<1> USE DEF RowOrder
<1>0. UNCHANGED <<rounds, marker>> /\ inputs[k].status = "new"
      /\ \A j \in Inputs : j < k => inputs[j].status # "new"
  BY DEF QueueInput
<1>1. inputs'[k].status = "pending" /\ inputs'[k].task = t /\ inputs'[k].after = Len(rounds[t])
      /\ \A i \in Inputs : i # k => inputs'[i] = inputs[i]
  <2>1. CurrentRound(t) = Len(rounds[t]) /\ inputs \in [Inputs -> Input]
    BY CurrentIsLast DEF QueueInv, TypeOK
  <2> QED BY <2>1 DEF QueueInput
<1>2. marker[k] = 0 /\ \A i \in Inputs : inputs[i].status # "new" => i # k
  BY <1>0 DEF MarkerBound
<1>a. \A u \in Tasks : Len(rounds[u]) \in Nat
  BY RoundsType DEF QueueInv
<1>3. Forward
  BY <1>0, <1>1, <1>2, <1>a DEF Forward
<1>4. RoundShape' /\ RoundBound'
  <2>1. RoundShape'
    BY <1>0 DEF RoundShape
  <2>2. \A i \in Inputs : marker[i] # 0 => inputs'[i].task = inputs[i].task
    BY <1>1, <1>2
  <2>3. RoundBound'
    BY <1>0, <2>2 DEF RoundBound
  <2> QED BY <2>1, <2>3
<1>5. QueueOrder'
  <2> SUFFICES ASSUME NEW j \in Inputs, inputs'[j].status # "new"
               PROVE  /\ inputs'[j].after <= Len(rounds[inputs'[j].task])
                      /\ \A i \in Inputs : i < j =>
                           /\ inputs'[i].status # "new"
                           /\ inputs'[i].task = inputs'[j].task
                              => inputs'[i].after <= inputs'[j].after
    BY <1>0 DEF QueueOrder
  <2>1. CASE j = k
    <3>1. inputs'[j].after <= Len(rounds[inputs'[j].task])
      BY <1>1, <1>a, <2>1
    <3>2. ASSUME NEW i \in Inputs, i < j
          PROVE  /\ inputs'[i].status # "new"
                 /\ inputs'[i].task = inputs'[j].task => inputs'[i].after <= inputs'[j].after
      <4>1. i # k /\ inputs[i].status # "new"
        BY <1>0, <2>1, <3>2, QueueAssumption
      <4> QED BY <1>1, <2>1, <4>1 DEF QueueOrder
    <3> QED BY <3>1, <3>2
  <2>2. CASE j # k
    <3>1. inputs[j].status # "new" /\ inputs'[j] = inputs[j]
      BY <1>1, <2>2
    <3>2. \A i \in Inputs : i < j => i # k
      BY <1>0, <3>1 DEF QueueOrder
    <3> QED BY <1>1, <3>1, <3>2 DEF QueueOrder
  <2> QED BY <2>1, <2>2
<1>6. MarkerBound'
  <2> SUFFICES ASSUME NEW j \in Inputs, marker[j] # 0
               PROVE  /\ inputs'[j].status # "new" /\ inputs'[j].after <= marker[j]
                      /\ EarlierSettled(j)'
                      /\ \A i \in Inputs :
                           (/\ i < j /\ inputs'[i].task = inputs'[j].task
                            /\ inputs'[i].status = "consumed") => inputs'[i].into <= marker[j]
    BY <1>0 DEF MarkerBound
  <2>1. EarlierSettled(j) /\ inputs[j].status # "new" /\ inputs'[j] = inputs[j]
    BY <1>1, <1>2 DEF MarkerBound
  <2>2. EarlierSettled(j)'
    BY <1>3, <2>1, SettledForward
  <2>3. \A i \in Inputs : i < j => i # k
    BY <1>0, <2>1 DEF QueueOrder
  <2> QED BY <1>1, <2>1, <2>2, <2>3 DEF MarkerBound
<1>7. ConsumedBound'
  <2> SUFFICES ASSUME NEW i \in Inputs, inputs'[i].status = "consumed"
               PROVE  inputs'[i].into \in RoundsOf(i)'
    BY DEF ConsumedBound
  <2>1. inputs'[i] = inputs[i]
    BY <1>1
  <2>2. RoundsOf(i)' = RoundsOf(i)
    BY <1>0, <2>1 DEF RoundsOf
  <2> QED BY <2>1, <2>2 DEF ConsumedBound
<1> QED BY <1>3, <1>4, <1>5, <1>6, <1>7

\* A marker is written, naming the current round.
LEMMA RowMark ==
    ASSUME QueueInv, QueueInv', RowOrder, UNCHANGED <<rounds, inputs>>,
           NEW k \in Inputs, inputs[k].status # "new", marker[k] = 0, EarlierSettled(k),
           NEW s, s = Len(rounds[inputs[k].task]), s # 0, inputs[k].after <= s,
           marker'[k] = s, \A i \in Inputs : i # k => marker'[i] = marker[i]
    PROVE  RowOrder' /\ Forward
<1> USE DEF RowOrder
<1>a. \A u \in Tasks : Len(rounds[u]) \in Nat
  BY RoundsType DEF QueueInv
<1>1. Forward
  BY <1>a DEF Forward
<1>2. RoundShape' /\ QueueOrder'
  BY DEF RoundShape, QueueOrder
<1>3. RoundBound'
  BY DEF RoundBound
<1>4. MarkerBound'
  <2> SUFFICES ASSUME NEW j \in Inputs, marker'[j] # 0
               PROVE  /\ inputs[j].status # "new" /\ inputs[j].after <= marker'[j]
                      /\ EarlierSettled(j)
                      /\ \A i \in Inputs :
                           (/\ i < j /\ inputs[i].task = inputs[j].task
                            /\ inputs[i].status = "consumed") => inputs[i].into <= marker'[j]
    BY DEF MarkerBound, EarlierSettled
  <2>1. CASE j = k
    <3>1. ASSUME NEW i \in Inputs, inputs[i].task = inputs[j].task,
                 inputs[i].status = "consumed"
          PROVE  inputs[i].into <= s
      <4>1. inputs[i].into \in RoundsOf(i)
        BY <3>1 DEF ConsumedBound
      <4>2. inputs[i].into \in 1 .. s
        BY <2>1, <3>1, <4>1, RoundsOfQueued
      <4> QED BY <4>2
    <3> QED BY <2>1, <3>1
  <2>2. CASE j # k
    BY <2>2 DEF MarkerBound
  <2> QED BY <2>1, <2>2
<1>5. ConsumedBound'
  BY DEF ConsumedBound, RoundsOf
<1> QED BY <1>1, <1>2, <1>3, <1>4, <1>5

\* A follow-up round of a marked input, or of a message, is started.
LEMMA RowStart ==
    ASSUME QueueInv, QueueInv', RowOrder, UNCHANGED <<inputs, marker>>,
           NEW t \in Tasks, NEW g \in Inputs \cup {None}, StartFollowupRound(t, g),
           g # None => inputs[g].task = t /\ marker[g] # 0 /\ marker[g] = Len(rounds[t])
    PROVE  RowOrder' /\ Forward
<1> DEFINE n == Len(rounds[t])
<1>1. /\ n \in Nat /\ Len(rounds'[t]) = n + 1
      /\ rounds'[t][n + 1].trigger = g
      /\ \A r \in 1 .. n : rounds'[t][r].trigger = rounds[t][r].trigger
      /\ \A u \in Tasks : u # t => rounds'[u] = rounds[u]
      /\ RoundShape'
  BY FollowupRounds DEF RowOrder, QueueInv
<1>2. Forward
  <2>1. \A u \in Tasks :
         /\ Len(rounds[u]) <= Len(rounds'[u])
         /\ \A r \in 1 .. Len(rounds[u]) : rounds'[u][r].trigger = rounds[u][r].trigger
    <3> TAKE u \in Tasks
    <3>1. CASE u = t
      BY <1>1, <3>1
    <3>2. CASE u # t
      <4>1. Len(rounds[u]) \in Nat
        BY RoundsType DEF QueueInv
      <4> QED BY <1>1, <3>2, <4>1
    <3> QED BY <3>1, <3>2
  <2> QED BY <2>1 DEF Forward
<1>3. RoundBound'
  <2> SUFFICES ASSUME NEW u \in Tasks, NEW r \in 1 .. Len(rounds'[u]), NEW i \in Inputs,
                      rounds'[u][r].trigger = i
               PROVE  inputs[i].task = u /\ marker[i] # 0 /\ r = marker[i] + 1
    BY DEF RoundBound
  <2>1. CASE u = t /\ r = n + 1
    <3>1. g = i /\ g # None
      BY <1>1, <2>1, QueueAssumption
    <3> QED BY <2>1, <3>1
  <2>2. CASE u = t /\ r # n + 1
    <3>1. r \in 1 .. n
      <4> HIDE DEF n
      <4> QED BY <1>1, <2>2
    <3>2. rounds[t][r].trigger = i
      BY <1>1, <2>2, <3>1
    <3> QED BY <2>2, <3>1, <3>2 DEF RowOrder, RoundBound
  <2>3. CASE u # t
    BY <1>1, <2>3 DEF RowOrder, RoundBound
  <2> QED BY <2>1, <2>2, <2>3
<1> QED BY <1>1, <1>2, <1>3, RowRounds

\* The current round gets another status.
LEMMA RowStatus ==
    ASSUME QueueInv, QueueInv', RowOrder, UNCHANGED <<inputs, marker>>,
           NEW t \in Tasks, NEW st, st # "superseded",
           rounds' = [rounds EXCEPT ![t][CurrentRound(t)].status = st]
    PROVE  RowOrder' /\ Forward
<1>1. /\ \A u \in Tasks : /\ Len(rounds'[u]) = Len(rounds[u])
                          /\ \A r \in 1 .. Len(rounds[u]) :
                               rounds'[u][r].trigger = rounds[u][r].trigger
      /\ RoundShape'
  BY StatusRounds DEF RowOrder, QueueInv
<1>2. \A u \in Tasks : Len(rounds[u]) \in Nat
  BY RoundsType DEF QueueInv
<1>3. Forward
  BY <1>1, <1>2 DEF Forward
<1>4. RoundBound'
  BY <1>1 DEF RowOrder, RoundBound
<1> QED BY <1>1, <1>3, <1>4, RowRounds

\* Nothing is written to the three tables.
LEMMA RowSame ==
    ASSUME QueueInv, RowOrder, UNCHANGED <<rounds, inputs, marker>>
    PROVE  RowOrder' /\ Forward
<1>1. \A u \in Tasks : Len(rounds[u]) \in Nat
  BY RoundsType DEF QueueInv
<1>2. Forward
  BY <1>1 DEF Forward
<1> QED BY <1>2 DEF RowOrder, RoundShape, RoundBound, QueueOrder, MarkerBound,
                    EarlierSettled, ConsumedBound, RoundsOf
-----------------------------------------------------------------------------
(* OrderInv is inductive *)

\* Every task starts with one round that no input triggered.
LEMMA InitOrder == Init => OrderInv
<1> SUFFICES ASSUME Init PROVE OrderInv
  OBVIOUS
<1> USE QueueAssumption DEF Init
<1>1. \A t \in Tasks : /\ Len(rounds[t]) = 1 /\ rounds[t][1].status = "running"
                       /\ rounds[t][1].trigger = None
  OBVIOUS
<1>2. RoundShape
  BY <1>1 DEF RoundShape
<1>3. RoundBound
  <2> SUFFICES ASSUME NEW t \in Tasks, NEW r \in 1 .. Len(rounds[t]), NEW i \in Inputs,
                      rounds[t][r].trigger = i
               PROVE  FALSE
    BY DEF RoundBound
  <2>1. r = 1
    BY <1>1
  <2> QED BY <1>1, <2>1
<1>4. QueueOrder /\ MarkerBound /\ ConsumedBound
  BY DEF QueueOrder, MarkerBound, ConsumedBound
<1>5. \A w \in Workers : JobOrder(w)
  BY DEF JobOrder, Idle, LatePc
<1> QED BY <1>2, <1>3, <1>4, <1>5 DEF OrderInv, RowOrder

\* A worker past its claim works on a queued input.
LEMMA JobInput ==
    ASSUME QueueInv, NEW w \in Workers, job[w].pc \notin {"idle", "claim"}
    PROVE  /\ job[w].input \in Inputs /\ job[w].task \in Tasks
           /\ inputs[job[w].input].task = job[w].task
           /\ inputs[job[w].input].status # "new"
           /\ job[w].source \in Nat
<1>1. job[w] \in Job
  BY DEF QueueInv, TypeOK
<1>2. /\ job[w].input \in Inputs /\ job[w].task \in Tasks
      /\ inputs[job[w].input].task = job[w].task
  BY QueueAssumption, <1>1 DEF QueueInv, JobBound, Job
<1>3. inputs[job[w].input].status # "new"
  BY QueueAssumption, <1>2 DEF QueueInv, InputBound
<1> QED BY <1>1, <1>2, <1>3 DEF Job

\* Steps of users, the operator and time.
LEMMA UserOrder ==
    ASSUME QueueInv, QueueInv', OrderInv,
           \/ \E t \in Tasks : AddUserMessage(t) \/ FailRound(t) \/ Interrupt(t)
           \/ \E t \in Tasks, i \in Inputs : QueueInput(t, i)
           \/ \E i \in Inputs : Cancel(i) \/ SteerBegin(i) \/ SteerAccepted(i)
                                \/ SteerFailed(i) \/ Expire(i)
           \/ Freeze \/ Unfreeze
    PROVE  RowOrder' /\ Forward /\ job' = job
<1>0. RowOrder
  BY DEF OrderInv
<1>1. ASSUME NEW t \in Tasks, AddUserMessage(t) PROVE RowOrder' /\ Forward /\ job' = job
  BY <1>0, <1>1, RowStart DEF AddUserMessage
<1>2. ASSUME NEW t \in Tasks, FailRound(t) PROVE RowOrder' /\ Forward /\ job' = job
  BY <1>0, <1>2, RowStatus DEF FailRound
<1>2i. ASSUME NEW t \in Tasks, Interrupt(t) PROVE RowOrder' /\ Forward /\ job' = job
  BY <1>0, <1>2i, RowStatus DEF Interrupt
<1>3. ASSUME NEW t \in Tasks, NEW i \in Inputs, QueueInput(t, i)
      PROVE  RowOrder' /\ Forward /\ job' = job
  BY <1>0, <1>3, RowQueue DEF QueueInput
<1>4. ASSUME NEW i \in Inputs, Cancel(i) PROVE RowOrder' /\ Forward /\ job' = job
  <2>1. inputs \in [Inputs -> Input]
    BY DEF QueueInv, TypeOK
  <2>2. /\ inputs[i].status = "pending" /\ inputs'[i].status = "cancelled"
        /\ inputs'[i].task = inputs[i].task /\ inputs'[i].after = inputs[i].after
        /\ \A j \in Inputs : j # i => inputs'[j] = inputs[j]
    BY <1>4, <2>1 DEF Cancel, Input
  <2> QED BY <1>0, <1>4, <2>2, RowSettle DEF Cancel
<1>5. ASSUME NEW i \in Inputs, SteerAccepted(i) PROVE RowOrder' /\ Forward /\ job' = job
  <2>1. inputs \in [Inputs -> Input]
    BY DEF QueueInv, TypeOK
  <2>2. CASE inputs[i].status = "pending"
    <3>1. /\ inputs'[i].status = "steered"
          /\ inputs'[i].task = inputs[i].task /\ inputs'[i].after = inputs[i].after
          /\ \A j \in Inputs : j # i => inputs'[j] = inputs[j]
      BY <1>5, <2>1, <2>2 DEF SteerAccepted, Input
    <3> QED BY <1>0, <1>5, <2>2, <3>1, RowSettle DEF SteerAccepted
  <2>3. CASE inputs[i].status # "pending"
    <3>1. inputs' = inputs
      BY <1>5, <2>1, <2>3 DEF SteerAccepted, Input
    <3> QED BY <1>0, <1>5, <3>1, RowSame DEF SteerAccepted
  <2> QED BY <2>2, <2>3
<1>6. ASSUME NEW i \in Inputs, SteerBegin(i) \/ SteerFailed(i) \/ Expire(i)
      PROVE  RowOrder' /\ Forward /\ job' = job
  BY <1>0, <1>6, RowSame DEF SteerBegin, SteerFailed, Expire
<1>7. CASE Freeze \/ Unfreeze
  BY <1>0, <1>7, RowSame DEF Freeze, Unfreeze
<1> QED BY <1>1, <1>2, <1>2i, <1>3, <1>4, <1>5, <1>6, <1>7

\* The claim: the oldest eligible input of an idle workspace is the oldest
\* pending input of its task.
LEMMA FirstIsOldest ==
    ASSUME QueueInv, OrderInv, NEW t \in Tasks, NEW r \in Nat, ~WorkspaceBusy(WorkspaceOf[t]),
           NEW k \in Eligible(t, r), First(k, Eligible(t, r))
    PROVE  EarlierSettled(k)
<1>0. k \in Inputs /\ inputs[k].status = "pending" /\ inputs[k].task = t /\ inputs[k].after <= r
  BY DEF Eligible
<1> SUFFICES ASSUME NEW i \in Inputs, i < k, inputs[i].task = t, inputs[i].status = "pending"
             PROVE  FALSE
  BY <1>0 DEF EarlierSettled
<1>1. inputs[i].after <= inputs[k].after
  BY <1>0 DEF OrderInv, RowOrder, QueueOrder
<1>2. inputs[i].after \in Nat /\ inputs[k].after \in Nat /\ i \in Nat /\ k \in Nat
  BY <1>0, QueueAssumption DEF QueueInv, TypeOK, Input
<1>3. inputs[i].after <= r
  BY <1>0, <1>1, <1>2
<1>4. ~leases[i].live
  <2> SUFFICES ASSUME leases[i].live PROVE FALSE
    OBVIOUS
  <2>0. leases[i] \in Lease /\ WorkspaceOf[t] \in Workspaces /\ Ws(i) = WorkspaceOf[t]
    BY QueueAssumption DEF QueueInv, TypeOK, Ws
  <2>1. locks[Ws(i)] = [input |-> i, owner |-> leases[i].owner, live |-> TRUE]
    BY DEF QueueInv, FenceInv, FenceMatchesLease
  <2>2. locks[WorkspaceOf[t]].input = i /\ locks[WorkspaceOf[t]].live
    BY <2>0, <2>1
  <2>3. i # None
    BY QueueAssumption
  <2> QED BY <2>2, <2>3 DEF WorkspaceBusy
<1>5. i \in Eligible(t, r)
  BY <1>3, <1>4 DEF Eligible
<1>6. k <= i
  BY <1>5 DEF First
<1> QED BY <1>2, <1>6

\* A worker's statements that write neither rounds, inputs nor markers.
LEMMA QuietOrder ==
    ASSUME QueueInv, QueueInv', OrderInv, UNCHANGED <<rounds, inputs, marker>>,
           \A w \in Workers :
             \/ job'[w] = job[w] \/ job'[w].pc = "idle" \/ JobOrder(w)'
             \/ /\ job[w].pc \in LatePc /\ job'[w].pc \in LatePc
                /\ job'[w].input = job[w].input /\ job'[w].source = job[w].source
                /\ job'[w].target = job[w].target
    PROVE  OrderInv' /\ Forward
<1>1. RowOrder' /\ Forward
  BY RowSame DEF OrderInv
<1>2. \A w \in Workers : JobOrder(w)'
  BY <1>1, JobsForward
<1> QED BY <1>1, <1>2 DEF OrderInv

\* A worker that ends its run leaves the jobs of the others alone.
LEMMA GoIdleJobs ==
    ASSUME QueueInv, NEW w \in Workers, GoIdle(w)
    PROVE  job'[w].pc = "idle" /\ \A v \in Workers : v # w => job'[v] = job[v]
  BY DEF GoIdle, Idle, QueueInv, TypeOK

\* Going on to another statement changes nothing else of the job.
LEMMA SetJobJobs ==
    ASSUME QueueInv, NEW w \in Workers, NEW pc, SetJob(w, pc)
    PROVE  /\ job'[w].pc = pc /\ job'[w].input = job[w].input
           /\ job'[w].source = job[w].source /\ job'[w].target = job[w].target
           /\ \A v \in Workers : v # w => job'[v] = job[v]
  BY DEF SetJob, QueueInv, TypeOK, Job

\* One case per statement of the queue consumer.
LEMMA WorkerOrder ==
    ASSUME QueueInv, QueueInv', OrderInv, NEW w \in Workers, WorkerStep(w)
    PROVE  OrderInv' /\ Forward
<1> USE DEF OrderInv
<1>0. JobOrder(w) /\ RowOrder
  OBVIOUS
<1>t. job \in [Workers -> Job] /\ inputs \in [Inputs -> Input] /\ marker \in [Inputs -> Nat]
  BY DEF QueueInv, TypeOK
<1>g. ASSUME UNCHANGED <<rounds, inputs, marker>>, GiveUp(w) \/ GoIdle(w)
      PROVE  OrderInv' /\ Forward
  <2>1. job'[w].pc = "idle" /\ \A v \in Workers : v # w => job'[v] = job[v]
    BY <1>g, GoIdleJobs DEF GiveUp
  <2> QED BY <1>g, <2>1, QuietOrder
<1>1. CASE ClaimAfterRound(w)
  <2>0. UNCHANGED <<rounds, inputs, marker>> /\ job[w].pc = "claim"
    BY <1>1 DEF ClaimAfterRound
  <2>1. CASE GoIdle(w)
    BY <1>g, <2>0, <2>1
  <2>2. CASE \E k \in Eligible(job[w].task, job[w].source) :
               /\ ~WorkspaceBusy(WorkspaceOf[job[w].task])
               /\ First(k, Eligible(job[w].task, job[w].source))
               /\ job' = [job EXCEPT ![w].pc = "claimed", ![w].input = k]
    <3>1. PICK k \in Eligible(job[w].task, job[w].source) :
               /\ ~WorkspaceBusy(WorkspaceOf[job[w].task])
               /\ First(k, Eligible(job[w].task, job[w].source))
               /\ job' = [job EXCEPT ![w].pc = "claimed", ![w].input = k]
      BY <2>2
    <3>2. job[w].task \in Tasks /\ job[w].source \in Nat /\ job[w].source # 0
      BY <1>0, <1>t, <2>0 DEF JobOrder, QueueInv, JobBound, Job
    <3>3. EarlierSettled(k)
      BY <3>1, <3>2, FirstIsOldest
    <3>4. k \in Inputs /\ inputs[k].after <= job[w].source
      BY DEF Eligible
    <3>5. /\ job'[w].pc = "claimed" /\ job'[w].input = k /\ job'[w].source = job[w].source
          /\ \A v \in Workers : v # w => job'[v] = job[v]
      BY <1>t, <3>1 DEF Job
    <3>6. EarlierSettled(k)'
      BY <2>0, <3>3 DEF EarlierSettled
    <3>7. JobOrder(w)'
      BY <2>0, <3>2, <3>4, <3>5, <3>6 DEF JobOrder, LatePc, EarlierSettled
    <3> QED BY <2>0, <3>5, <3>7, QuietOrder
  <2> QED BY <1>1, <2>1, <2>2 DEF ClaimAfterRound
<1>2. CASE MarkTransition(w)
  <2>0. UNCHANGED <<rounds, inputs>> /\ job[w].pc = "claimed"
    BY <1>2 DEF MarkTransition
  <2>1. CASE GiveUp(w) /\ UNCHANGED marker
    BY <1>g, <2>0, <2>1
  <2>j. PICK i : i = job[w].input
    OBVIOUS
  <2>k. /\ i \in Inputs /\ job[w].task \in Tasks /\ inputs[i].task = job[w].task
        /\ inputs[i].status # "new" /\ job[w].source # 0
        /\ EarlierSettled(i) /\ inputs[i].after <= job[w].source
    BY <1>0, <2>0, <2>j, JobInput DEF JobOrder
  <2>2. CASE /\ marker[i] = 0 /\ CurrentRound(job[w].task) = job[w].source
             /\ marker' = [marker EXCEPT ![i] = job[w].source]
             /\ SetJob(w, "marked")
    <3>1. job[w].source = Len(rounds[inputs[i].task])
      BY <1>0, <2>2, <2>k, CurrentIsLast DEF RowOrder, QueueInv
    <3>2. marker'[i] = job[w].source /\ \A j \in Inputs : j # i => marker'[j] = marker[j]
      BY <1>t, <2>2, <2>k
    <3>3. RowOrder' /\ Forward
      BY <1>0, <2>0, <2>2, <2>k, <3>1, <3>2, RowMark
    <3>4. /\ job'[w].pc = "marked" /\ job'[w].input = i /\ job'[w].source = job[w].source
          /\ \A v \in Workers : v # w => job'[v] = job[v]
      BY <2>2, <2>j, SetJobJobs
    <3>5. JobOrder(w)'
      BY <2>k, <3>2, <3>4 DEF JobOrder, LatePc
    <3>6. \A v \in Workers : JobOrder(v)'
      BY <3>3, <3>4, <3>5, JobsForward
    <3> QED BY <3>3, <3>6
  <2>3. CASE /\ marker[i] # 0
             /\ job' = [job EXCEPT ![w].pc = "marked", ![w].source = marker[i]]
             /\ UNCHANGED marker
    <3>1. /\ job'[w].pc = "marked" /\ job'[w].input = i /\ job'[w].source = marker[i]
          /\ \A v \in Workers : v # w => job'[v] = job[v]
      BY <1>t, <2>j, <2>3 DEF Job
    <3>2. JobOrder(w)'
      BY <2>3, <3>1 DEF JobOrder, LatePc
    <3> QED BY <2>0, <2>3, <3>1, <3>2, QuietOrder
  <2> QED BY <1>2, <2>1, <2>2, <2>3, <2>j DEF MarkTransition
<1>3. CASE StartRound(w)
  <2>0. UNCHANGED <<inputs, marker>> /\ job[w].pc = "marked"
    BY <1>3 DEF StartRound
  <2>j. PICK i : i = job[w].input
    OBVIOUS
  <2>k. /\ i \in Inputs /\ job[w].task \in Tasks /\ inputs[i].task = job[w].task
        /\ inputs[i].status # "new" /\ job[w].source # 0 /\ marker[i] = job[w].source
    BY <1>0, <2>0, <2>j, JobInput DEF JobOrder
  <2>1. CASE GiveUp(w) /\ UNCHANGED rounds
    BY <1>g, <2>0, <2>1
  <2>2. CASE \E r \in RoundsOf(i) :
               /\ job' = [job EXCEPT ![w].pc = "started", ![w].target = r]
               /\ UNCHANGED rounds
    <3>1. PICK r \in RoundsOf(i) :
               /\ job' = [job EXCEPT ![w].pc = "started", ![w].target = r]
               /\ UNCHANGED rounds
      BY <2>2
    <3>2. /\ job'[w].pc = "started" /\ job'[w].input = i /\ job'[w].source = job[w].source
          /\ job'[w].target = r /\ \A v \in Workers : v # w => job'[v] = job[v]
      BY <1>t, <2>j, <3>1 DEF Job
    <3>3. r \in RoundsOf(i)'
      BY <2>0, <3>1 DEF RoundsOf
    <3>4. JobOrder(w)'
      BY <2>0, <2>k, <3>2, <3>3 DEF JobOrder, LatePc, RoundsOf
    <3> QED BY <2>0, <3>1, <3>2, <3>4, QuietOrder
  <2>3. CASE /\ CurrentRound(job[w].task) = job[w].source
             /\ StartFollowupRound(job[w].task, i)
             /\ job' = [job EXCEPT ![w].pc = "started",
                                   ![w].target = CurrentRound(job[w].task) + 1]
    <3>1. PICK t : t = job[w].task
      OBVIOUS
    <3>2. CurrentRound(t) = Len(rounds[t]) /\ job[w].source = Len(rounds[t])
      BY <1>0, <2>3, <2>k, <3>1, CurrentIsLast DEF RowOrder, QueueInv
    <3>3. RowOrder' /\ Forward
      BY <1>0, <2>0, <2>3, <2>k, <3>1, <3>2, RowStart
    <3>4. PICK n : n = Len(rounds[t])
      OBVIOUS
    <3>5. n \in Nat /\ Len(rounds'[t]) = n + 1 /\ rounds'[t][n + 1].trigger = i
      BY <1>0, <2>3, <2>k, <3>1, <3>4, FollowupRounds DEF RowOrder, QueueInv
    <3>6. /\ job'[w].pc = "started" /\ job'[w].input = i /\ job'[w].source = job[w].source
          /\ job'[w].target = n + 1 /\ \A v \in Workers : v # w => job'[v] = job[v]
      BY <1>t, <2>j, <2>3, <3>1, <3>2, <3>4 DEF Job
    <3>7. n + 1 \in RoundsOf(i)'
      <4>1. rounds'[t] \in Seq(Round)
        BY <2>k, <3>1 DEF QueueInv, TypeOK
      <4>2. n + 1 \in DOMAIN rounds'[t]
        BY <3>5, <4>1
      <4> QED BY <2>0, <2>k, <3>1, <3>5, <4>2 DEF RoundsOf
    <3>8. JobOrder(w)'
      BY <2>0, <2>k, <3>6, <3>7 DEF JobOrder, LatePc, RoundsOf
    <3>9. \A v \in Workers : JobOrder(v)'
      BY <3>3, <3>6, <3>8, JobsForward
    <3> QED BY <3>3, <3>9
  <2> QED BY <1>3, <2>1, <2>2, <2>3, <2>j DEF StartRound
<1>4. CASE RecordFollowup(w)
  <2>1. UNCHANGED <<rounds, inputs, marker>> /\ job[w].pc = "started" /\ SetJob(w, "dispatch")
    BY <1>4 DEF RecordFollowup
  <2> QED BY <2>1, SetJobJobs, QuietOrder DEF LatePc
<1>5. CASE Dispatch(w)
  <2>0. UNCHANGED <<rounds, inputs, marker>> /\ job[w].pc = "dispatch"
    BY <1>5 DEF Dispatch
  <2>1. CASE GiveUp(w) \/ GoIdle(w)
    BY <1>g, <2>0, <2>1
  <2>2. CASE SetJob(w, "dispatching")
    BY <2>0, <2>2, SetJobJobs, QuietOrder DEF LatePc
  <2>3. CASE SetJob(w, "finish")
    BY <2>0, <2>3, SetJobJobs, QuietOrder DEF LatePc
  <2> QED BY <1>5, <2>1, <2>2, <2>3 DEF Dispatch
<1>6. CASE DispatchReturns(w)
  <2>0. UNCHANGED <<inputs, marker>> /\ job[w].pc = "dispatching" /\ SetJob(w, "finish")
        /\ job[w].task \in Tasks
    BY <1>6, JobInput DEF DispatchReturns
  <2>1. RowOrder' /\ Forward
    <3>1. CASE UNCHANGED rounds
      BY <1>0, <2>0, <3>1, RowSame
    <3>2. CASE rounds' = [rounds EXCEPT
                            ![job[w].task][CurrentRound(job[w].task)].status = "blocked"]
      BY <1>0, <2>0, <3>2, RowStatus
    <3> QED BY <1>6, <3>1, <3>2 DEF DispatchReturns
  <2>2. \A v \in Workers : JobOrder(v)'
    BY <2>0, <2>1, SetJobJobs, JobsForward DEF LatePc
  <2> QED BY <2>1, <2>2
<1>7. CASE Consume(w)
  <2>0. UNCHANGED <<rounds, marker>> /\ job[w].pc = "finish" /\ GoIdle(w)
    BY <1>7 DEF Consume
  <2>1. CASE UNCHANGED inputs
    BY <1>g, <2>0, <2>1
  <2>2. CASE /\ inputs[job[w].input].status = "pending"
             /\ inputs' = [inputs EXCEPT ![job[w].input].status = "consumed",
                                         ![job[w].input].into = job[w].target]
    <3>1. PICK i : i = job[w].input
      OBVIOUS
    <3>2. i \in Inputs /\ job[w].target \in RoundsOf(i)
      BY <1>0, <2>0, <3>1, JobInput DEF JobOrder, LatePc
    <3>3. /\ inputs'[i].status = "consumed" /\ inputs'[i].into = job[w].target
          /\ inputs'[i].task = inputs[i].task /\ inputs'[i].after = inputs[i].after
          /\ \A j \in Inputs : j # i => inputs'[j] = inputs[j]
      BY <1>t, <2>2, <3>1, <3>2 DEF Input
    <3>4. RowOrder' /\ Forward
      BY <1>0, <2>0, <2>2, <3>1, <3>2, <3>3, RowSettle
    <3>5. \A v \in Workers : JobOrder(v)'
      BY <2>0, <3>4, GoIdleJobs, JobsForward
    <3> QED BY <3>4, <3>5
  <2> QED BY <1>7, <2>1, <2>2 DEF Consume
<1> QED BY <1>1, <1>2, <1>3, <1>4, <1>5, <1>6, <1>7 DEF WorkerStep

\* Completing a round, recovering a marked input, and dying.
LEMMA OtherOrder ==
    ASSUME QueueInv, QueueInv', OrderInv, NEW w \in Workers,
           \/ \E t \in Tasks : CompleteRound(w, t)
           \/ \E i \in Inputs : RecoverTransition(w, i)
           \/ Crash(w)
    PROVE  OrderInv' /\ Forward
<1> USE DEF OrderInv
<1>t. job \in [Workers -> Job]
  BY DEF QueueInv, TypeOK
<1>1. ASSUME NEW t \in Tasks, CompleteRound(w, t) PROVE OrderInv' /\ Forward
  <2>1. RowOrder' /\ Forward
    BY <1>1, RowStatus DEF CompleteRound
  <2>2. CurrentRound(t) # 0
    BY CurrentIsLast DEF RowOrder, QueueInv
  <2>3. job'[w].pc = "claim" /\ job'[w].source = CurrentRound(t)
        /\ \A v \in Workers : v # w => job'[v] = job[v]
    BY <1>1, <1>t DEF CompleteRound
  <2>4. JobOrder(w)'
    BY <2>2, <2>3 DEF JobOrder, LatePc
  <2>5. \A v \in Workers : JobOrder(v)'
    BY <2>1, <2>3, <2>4, JobsForward
  <2> QED BY <2>1, <2>5
<1>2. ASSUME NEW i \in Inputs, RecoverTransition(w, i) PROVE OrderInv' /\ Forward
  <2>0. UNCHANGED <<rounds, inputs, marker>> /\ marker[i] # 0
    BY <1>2 DEF RecoverTransition
  <2>1. EarlierSettled(i) /\ inputs[i].after <= marker[i]
    BY <2>0 DEF RowOrder, MarkerBound
  <2>2. job'[w].pc = "claimed" /\ job'[w].input = i /\ job'[w].source = marker[i]
        /\ \A v \in Workers : v # w => job'[v] = job[v]
    BY <1>2, <1>t DEF RecoverTransition
  <2>3. EarlierSettled(i)'
    BY <2>0, <2>1 DEF EarlierSettled
  <2>4. JobOrder(w)'
    BY <2>0, <2>1, <2>2, <2>3 DEF JobOrder, LatePc, EarlierSettled
  <2> QED BY <2>0, <2>2, <2>4, QuietOrder
<1>3. CASE Crash(w)
  <2>1. UNCHANGED <<rounds, inputs, marker>> /\ GoIdle(w)
    BY <1>3 DEF Crash
  <2> QED BY <2>1, GoIdleJobs, QuietOrder
<1> QED BY <1>1, <1>2, <1>3

\* Every step goes forward and keeps the order.
LEMMA NextOrder ==
    ASSUME QueueInv, QueueInv', OrderInv, [Next]_vars
    PROVE  OrderInv' /\ Forward
<1>1. CASE UNCHANGED vars
  BY <1>1, QuietOrder DEF vars
<1>2. CASE \/ \E t \in Tasks : AddUserMessage(t) \/ FailRound(t) \/ Interrupt(t)
           \/ \E t \in Tasks, i \in Inputs : QueueInput(t, i)
           \/ \E i \in Inputs : Cancel(i) \/ SteerBegin(i) \/ SteerAccepted(i)
                                \/ SteerFailed(i) \/ Expire(i)
           \/ Freeze \/ Unfreeze
  <2>1. RowOrder' /\ Forward /\ job' = job
    BY <1>2, UserOrder
  <2>2. \A w \in Workers : JobOrder(w)'
    BY <2>1, JobsForward
  <2> QED BY <2>1, <2>2 DEF OrderInv
<1>3. CASE \E w \in Workers : WorkerStep(w)
  BY <1>3, WorkerOrder
<1>4. CASE \E w \in Workers : \/ \E t \in Tasks : CompleteRound(w, t)
                              \/ \E i \in Inputs : RecoverTransition(w, i)
                              \/ Crash(w)
  BY <1>4, OtherOrder
<1> QED BY <1>1, <1>2, <1>3, <1>4 DEF Next

\* Every reachable state satisfies both inductive invariants.
THEOREM OrderInvariant == Spec => [](QueueInv /\ OrderInv)
<1>1. Init => QueueInv /\ OrderInv
  BY InitInv, InitOrder
<1>2. QueueInv /\ OrderInv /\ [Next]_vars => QueueInv' /\ OrderInv'
  BY NextInv, NextOrder
<1> QED BY <1>1, <1>2, PTL DEF Spec

\* The rounds of a queued input are at most the one behind its marker.
LEMMA RoundBehindMarker ==
    ASSUME QueueInv, OrderInv, NEW i \in Inputs, inputs[i].status # "new", NEW r \in RoundsOf(i)
    PROVE  r = marker[i] + 1 /\ marker[i] # 0 /\ marker[i] \in Nat
<1>1. inputs[i].task \in Tasks /\ r \in 1 .. Len(rounds[inputs[i].task])
      /\ rounds[inputs[i].task][r].trigger = i
  BY RoundsOfQueued
<1>2. marker[i] \in Nat
  BY DEF QueueInv, TypeOK
<1> QED BY <1>1, <1>2 DEF OrderInv, RowOrder, RoundBound

\* However often workers crash, lose their lease, are taken over or recovered, no
\* queued input starts a second follow-up round.
THEOREM OneRoundForEachInput == Spec => []OneRoundPerInput
<1>1. QueueInv /\ OrderInv => OneRoundPerInput
  <2> SUFFICES ASSUME QueueInv, OrderInv, NEW i \in Inputs, inputs[i].status # "new"
               PROVE  Cardinality(RoundsOf(i)) <= 1
    BY DEF OneRoundPerInput
  <2>1. CASE RoundsOf(i) = {}
    <3>1. Cardinality(RoundsOf(i)) = 0
      BY <2>1, FS_EmptySet
    <3> QED BY <3>1
  <2>2. CASE RoundsOf(i) # {}
    <3>1. RoundsOf(i) = {marker[i] + 1}
      BY <2>2, RoundBehindMarker
    <3>2. Cardinality({marker[i] + 1}) = 1
      BY FS_Singleton
    <3> QED BY <3>1, <3>2
  <2> QED BY <2>1, <2>2
<1> QED BY <1>1, OrderInvariant, PTL

\* An input is recorded as consumed into the round it started, which is the one
\* behind its marker and later than the round it was queued behind.
THEOREM AlwaysConsumedIntoItsRound == Spec => []ConsumedIntoItsRound
<1>1. QueueInv /\ OrderInv => ConsumedIntoItsRound
  <2> SUFFICES ASSUME QueueInv, OrderInv, NEW i \in Inputs, inputs[i].status = "consumed"
               PROVE  /\ inputs[i].into \in RoundsOf(i)
                      /\ inputs[i].into > inputs[i].after
                      /\ inputs[i].into = marker[i] + 1
    BY DEF ConsumedIntoItsRound
  <2>1. inputs[i].into \in RoundsOf(i)
    BY DEF OrderInv, RowOrder, ConsumedBound
  <2>2. inputs[i].into = marker[i] + 1 /\ marker[i] # 0 /\ marker[i] \in Nat
    BY <2>1, RoundBehindMarker
  <2>3. inputs[i].after <= marker[i] /\ inputs[i].after \in Nat
    BY <2>2 DEF OrderInv, RowOrder, MarkerBound, QueueInv, TypeOK, Input
  <2> QED BY <2>1, <2>2, <2>3
<1> QED BY <1>1, OrderInvariant, PTL

\* Inputs of one task are consumed in the order they were queued.
THEOREM AlwaysConsumedInOrder == Spec => []ConsumedInOrder
<1>1. QueueInv /\ OrderInv => ConsumedInOrder
  <2> SUFFICES ASSUME QueueInv, OrderInv, NEW i \in Inputs, NEW j \in Inputs, i < j,
                      inputs[i].task = inputs[j].task,
                      inputs[i].status = "consumed", inputs[j].status = "consumed"
               PROVE  inputs[i].into < inputs[j].into
    BY DEF ConsumedInOrder
  <2>1. inputs[j].into \in RoundsOf(j)
    BY DEF OrderInv, RowOrder, ConsumedBound
  <2>2. inputs[j].into = marker[j] + 1 /\ marker[j] # 0 /\ marker[j] \in Nat
    BY <2>1, RoundBehindMarker
  <2>3. inputs[i].into <= marker[j] /\ inputs[i].into \in Nat
    BY <2>2 DEF OrderInv, RowOrder, MarkerBound, QueueInv, TypeOK, Input
  <2> QED BY <2>2, <2>3
<1> QED BY <1>1, OrderInvariant, PTL

\* No racing worker, steer or cancel changes a settled input, and no retry moves a
\* transition marker.
THEOREM SettledAlwaysForever == Spec => SettledForever
<1>1. QueueInv /\ QueueInv' /\ OrderInv /\ [Next]_vars =>
        [\A i \in Inputs :
           /\ inputs[i].status \notin {"new", "pending"} => inputs'[i] = inputs[i]
           /\ marker[i] # 0 => marker'[i] = marker[i]]_vars
  BY NextOrder DEF Forward
<1> QED BY <1>1, OrderInvariant, PTL DEF Spec, SettledForever

\* Only a worker whose lease is still live settles an input as consumed.
THEOREM AlwaysConsumedUnderLease == Spec => ConsumedUnderLease
<1>1. QueueInv /\ [Next]_vars =>
        [\A i \in Inputs :
           (inputs[i].status # "consumed" /\ inputs'[i].status = "consumed")
           => leases[i].live /\ ~leases'[i].live]_vars
  <2> SUFFICES ASSUME QueueInv, Next, NEW i \in Inputs, inputs[i].status # "consumed",
                      inputs'[i].status = "consumed"
               PROVE  leases[i].live /\ ~leases'[i].live
    OBVIOUS
  <2>0. inputs \in [Inputs -> Input] /\ leases \in [Inputs -> Lease] /\ inputs' # inputs
    BY DEF QueueInv, TypeOK
  <2>1. ASSUME NEW t \in Tasks, NEW j \in Inputs, QueueInput(t, j) PROVE FALSE
    BY <2>0, <2>1 DEF QueueInput
  <2>2. ASSUME NEW j \in Inputs, Cancel(j) \/ SteerAccepted(j) PROVE FALSE
    BY <2>0, <2>2 DEF Cancel, SteerAccepted, Input
  <2>3. ASSUME NEW w \in Workers, Consume(w) PROVE leases[i].live /\ ~leases'[i].live
    <3>1. job[w].input \in Inputs
      BY <2>3, JobInput DEF Consume
    <3>2. /\ OwnsLease(w, job[w].input)
          /\ inputs' = [inputs EXCEPT ![job[w].input].status = "consumed",
                                      ![job[w].input].into = job[w].target]
          /\ leases' = [leases EXCEPT ![job[w].input] = NoLease]
      BY <2>0, <2>3 DEF Consume
    <3>3. job[w].input = i
      BY <2>0, <3>1, <3>2
    <3> QED BY <2>0, <3>2, <3>3 DEF OwnsLease, NoLease
  <2>4. ASSUME NEW w \in Workers, WorkerStep(w), ~Consume(w) PROVE FALSE
    BY <2>0, <2>4 DEF WorkerStep, ClaimAfterRound, MarkTransition, StartRound, RecordFollowup,
                      Dispatch, DispatchReturns
  <2>5. ASSUME \/ \E t \in Tasks : AddUserMessage(t) \/ FailRound(t) \/ Interrupt(t)
               \/ \E j \in Inputs : SteerBegin(j) \/ SteerFailed(j) \/ Expire(j)
               \/ Freeze \/ Unfreeze
               \/ \E w \in Workers, t \in Tasks : CompleteRound(w, t)
               \/ \E w \in Workers, j \in Inputs : RecoverTransition(w, j)
               \/ \E w \in Workers : Crash(w)
        PROVE  FALSE
    BY <2>0, <2>5 DEF AddUserMessage, FailRound, Interrupt, SteerBegin, SteerFailed, Expire,
                      Freeze, Unfreeze, CompleteRound, RecoverTransition, Crash
  <2> QED BY <2>1, <2>2, <2>3, <2>4, <2>5 DEF Next
<1> QED BY <1>1, QueueInvariant, PTL DEF Spec, ConsumedUnderLease
=============================================================================
