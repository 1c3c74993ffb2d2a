---------------------------- MODULE ServicesProofs ----------------------------
(***************************************************************************)
(* Proofs about the live stream, the Telegram outbox and the maintenance    *)
(* window of Services, for every number of pages, events, connections,      *)
(* texts, retries, sessions, turns and windows.                             *)
(***************************************************************************)
EXTENDS Services, TLAPS

-----------------------------------------------------------------------------
(* The live stream *)

\* The types the order of delivery rests on.
LiveTypes ==
    /\ stored \in Nat
    /\ phase \in [Clients -> {"off", "snapshot", "live"}]
    /\ todo \in [Clients -> Seq(Nat)] /\ queue \in [Clients -> Seq(Nat)]
    /\ latest \in [Clients -> Nat] /\ seen \in [Clients -> Seq(Nat)]

\* What is left of a snapshot follows the cursor without a gap and is stored.
TodoFollows ==
    \A c \in Clients :
        /\ \A i \in 1 .. Len(todo[c]) : todo[c][i] = latest[c] + i
        /\ latest[c] + Len(todo[c]) <= stored
        /\ phase[c] # "snapshot" => todo[c] = <<>>

\* The subscriber queue holds stored events only.
QueueStored == \A c \in Clients : \A i \in 1 .. Len(queue[c]) : queue[c][i] <= stored

\* The cursor a page reconnects with is past everything the page has received.
CursorPast == \A c \in Clients : \A i \in 1 .. Len(seen[c]) : seen[c][i] <= latest[c]

\* The inductive invariant of LiveHub.
LiveInv == LiveTypes /\ TodoFollows /\ QueueStored /\ CursorPast /\ InOrder

\* An event is stored and offered to the subscribers, whose full queues lose their
\* oldest event.
LEMMA LivePublish == ASSUME LiveInv, Live!Publish PROVE LiveInv'
<1>1. /\ stored' = stored + 1 /\ stored' \in Nat /\ stored \in Nat
      /\ UNCHANGED <<phase, todo, latest, seen>>
  BY DEF LiveInv, LiveTypes, Live!Publish
<1>2. QueueSize \in Nat \ {0}
  BY ServicesAssumption
<1>3. ASSUME NEW c \in Clients
      PROVE  /\ queue'[c] \in Seq(Nat)
             /\ \A i \in 1 .. Len(queue'[c]) : queue'[c][i] <= stored'
  <2> DEFINE q == queue[c]
  <2>1. q \in Seq(Nat) /\ \A i \in 1 .. Len(q) : q[i] <= stored
    BY DEF LiveInv, LiveTypes, QueueStored
  <2> HIDE DEF q
  <2>2. CASE queue'[c] = q
    BY <1>1, <2>1, <2>2
  <2>3. CASE queue'[c] = Append(q, stored')
    BY <1>1, <2>1, <2>3
  <2>4. CASE queue'[c] = Append(Tail(q), stored') /\ Len(q) >= QueueSize
    <3>1. Len(q) \in Nat /\ Len(q) > 0 /\ q # <<>>
      BY <1>2, <2>1, <2>4
    <3>2. /\ Tail(q) \in Seq(Nat) /\ Len(Tail(q)) = Len(q) - 1
          /\ \A i \in 1 .. Len(Tail(q)) : Tail(q)[i] = q[i + 1]
      BY <2>1, <3>1
    <3>3. \A i \in 1 .. Len(Tail(q)) : Tail(q)[i] <= stored
      BY <2>1, <3>1, <3>2
    <3> DEFINE t == Tail(q)
    <3>4. t \in Seq(Nat) /\ \A i \in 1 .. Len(t) : t[i] <= stored
      BY <3>2, <3>3
    <3>5. queue'[c] = Append(t, stored')
      BY <2>4
    <3> HIDE DEF t
    <3> QED BY <1>1, <3>4, <3>5
  <2>5. queue'[c] = q \/ queue'[c] = Append(q, stored')
        \/ (queue'[c] = Append(Tail(q), stored') /\ Len(q) >= QueueSize)
    BY <1>2, <2>1 DEF Live!Publish, Live!Offered, q
  <2> QED BY <2>2, <2>3, <2>4, <2>5
<1>4. queue' \in [Clients -> Seq(Nat)]
  BY <1>3 DEF Live!Publish
<1>5. LiveTypes'
  BY <1>1, <1>4 DEF LiveInv, LiveTypes
<1>6. TodoFollows'
  BY <1>1 DEF LiveInv, LiveTypes, TodoFollows
<1>7. QueueStored'
  BY <1>3 DEF QueueStored
<1>8. CursorPast' /\ InOrder'
  BY <1>1 DEF LiveInv, CursorPast, InOrder, Live!InOrder
<1> QED BY <1>5, <1>6, <1>7, <1>8 DEF LiveInv

\* A page connects with its cursor: the snapshot starts right after it.
LEMMA LiveConnect == ASSUME LiveInv, NEW c \in Clients, Live!Connect(c) PROVE LiveInv'
<1> DEFINE snap == Live!Snapshot(latest[c])
           n == IF stored - latest[c] < SnapshotLimit THEN stored - latest[c] ELSE SnapshotLimit
<1>1. /\ stored \in Nat /\ latest[c] \in Nat /\ latest[c] <= stored /\ SnapshotLimit \in Nat
  <2>1. latest[c] + Len(todo[c]) <= stored /\ Len(todo[c]) \in Nat
    BY DEF LiveInv, LiveTypes, TodoFollows
  <2>2. stored \in Nat /\ latest[c] \in Nat
    BY DEF LiveInv, LiveTypes
  <2> QED BY <2>1, <2>2, ServicesAssumption
<1>2. n \in Nat /\ latest[c] + n <= stored
  BY <1>1
<1>3. snap = [i \in 1 .. n |-> latest[c] + i]
  BY DEF Live!Snapshot
<1>4. snap \in Seq(Nat) /\ Len(snap) = n /\ \A i \in 1 .. n : snap[i] = latest[c] + i
  <2> HIDE DEF n, snap
  <2>1. \A i \in 1 .. n : latest[c] + i \in Nat
    BY <1>1, <1>2
  <2> QED BY <1>2, <1>3, <2>1
<1> HIDE DEF snap, n
<1>5. /\ todo' = [todo EXCEPT ![c] = snap]
      /\ phase' = [phase EXCEPT ![c] = IF snap = <<>> THEN "live" ELSE "snapshot"]
      /\ UNCHANGED <<stored, queue, latest, seen>>
  BY DEF Live!Connect, Live!ConnectAfter, snap
<1>6. LiveTypes'
  BY <1>4, <1>5 DEF LiveInv, LiveTypes
<1>7. TodoFollows'
  <2> SUFFICES ASSUME NEW d \in Clients
               PROVE  /\ \A i \in 1 .. Len(todo'[d]) : todo'[d][i] = latest[d] + i
                      /\ latest[d] + Len(todo'[d]) <= stored
                      /\ phase'[d] # "snapshot" => todo'[d] = <<>>
    BY <1>5 DEF TodoFollows
  <2>1. CASE d = c
    <3>1. todo'[d] = snap
      BY <1>5, <2>1 DEF LiveInv, LiveTypes
    <3>2. phase'[d] = IF snap = <<>> THEN "live" ELSE "snapshot"
      BY <1>5, <2>1 DEF LiveInv, LiveTypes
    <3> QED BY <1>2, <1>4, <2>1, <3>1, <3>2
  <2>2. CASE d # c
    BY <1>5, <2>2 DEF LiveInv, LiveTypes, TodoFollows
  <2> QED BY <2>1, <2>2
<1>8. QueueStored' /\ CursorPast' /\ InOrder'
  BY <1>5 DEF LiveInv, QueueStored, CursorPast, InOrder, Live!InOrder
<1> QED BY <1>6, <1>7, <1>8 DEF LiveInv

\* An event past the cursor is written: the page's list stays ascending.
LEMMA SeenGrows ==
    ASSUME NEW s \in Seq(Nat), NEW last \in Nat, NEW e \in Nat, last < e,
           \A i \in 1 .. Len(s) : s[i] <= last,
           \A i, j \in 1 .. Len(s) : i < j => s[i] < s[j]
    PROVE  /\ Append(s, e) \in Seq(Nat)
           /\ \A i \in 1 .. Len(Append(s, e)) : Append(s, e)[i] <= e
           /\ \A i, j \in 1 .. Len(Append(s, e)) : i < j => Append(s, e)[i] < Append(s, e)[j]
<1> DEFINE t == Append(s, e)
<1>1. /\ t \in Seq(Nat) /\ Len(t) = Len(s) + 1 /\ Len(s) \in Nat
      /\ \A i \in 1 .. Len(s) : t[i] = s[i] /\ s[i] \in Nat
      /\ t[Len(s) + 1] = e
  OBVIOUS
<1> HIDE DEF t
<1>2. \A i \in 1 .. Len(t) : i \in 1 .. Len(s) \/ i = Len(s) + 1
  BY <1>1
<1>3. ASSUME NEW i \in 1 .. Len(t) PROVE t[i] <= e
  <2>1. CASE i \in 1 .. Len(s)
    <3>1. t[i] = s[i] /\ s[i] \in Nat /\ s[i] <= last
      BY <1>1, <2>1
    <3> QED BY <3>1
  <2>2. CASE i = Len(s) + 1
    BY <1>1, <2>2
  <2> QED BY <1>2, <2>1, <2>2
<1>4. ASSUME NEW i \in 1 .. Len(t), NEW j \in 1 .. Len(t), i < j PROVE t[i] < t[j]
  <2>1. i \in 1 .. Len(s)
    BY <1>1, <1>4
  <2>2. CASE j \in 1 .. Len(s)
    BY <1>1, <1>4, <2>1, <2>2
  <2>3. CASE j = Len(s) + 1
    <3>1. t[i] = s[i] /\ s[i] <= last /\ s[i] \in Nat
      BY <1>1, <2>1
    <3>2. t[j] = e
      BY <1>1, <2>3
    <3> QED BY <3>1, <3>2
  <2> QED BY <1>2, <2>2, <2>3
<1> QED BY <1>1, <1>3, <1>4 DEF t

\* What CursorPast and InOrder say of one page.
LEMMA SeenFacts ==
    ASSUME LiveInv, NEW c \in Clients
    PROVE  /\ seen[c] \in Seq(Nat) /\ latest[c] \in Nat /\ DOMAIN seen[c] = 1 .. Len(seen[c])
           /\ \A i \in 1 .. Len(seen[c]) : seen[c][i] <= latest[c]
           /\ \A i, j \in 1 .. Len(seen[c]) : i < j => seen[c][i] < seen[c][j]
<1>1. seen[c] \in Seq(Nat) /\ latest[c] \in Nat
  BY DEF LiveInv, LiveTypes
<1>2. DOMAIN seen[c] = 1 .. Len(seen[c])
  BY <1>1
<1> QED BY <1>1, <1>2 DEF LiveInv, CursorPast, InOrder, Live!InOrder

\* One event past the cursor of page c is written to it.
LEMMA LiveWrites ==
    ASSUME LiveInv, NEW c \in Clients, NEW e \in Nat, latest[c] < e,
           latest' = [latest EXCEPT ![c] = e],
           seen' = [seen EXCEPT ![c] = Append(@, e)]
    PROVE  /\ latest' \in [Clients -> Nat] /\ seen' \in [Clients -> Seq(Nat)]
           /\ CursorPast' /\ InOrder'
<1> DEFINE s == Append(seen[c], e)
<1>1. /\ s \in Seq(Nat)
      /\ \A i \in 1 .. Len(s) : s[i] <= e
      /\ \A i, j \in 1 .. Len(s) : i < j => s[i] < s[j]
  BY SeenFacts, SeenGrows
<1> HIDE DEF s
<1>2. latest' \in [Clients -> Nat] /\ seen' \in [Clients -> Seq(Nat)]
      /\ seen'[c] = s /\ latest'[c] = e
      /\ \A d \in Clients : d # c => seen'[d] = seen[d] /\ latest'[d] = latest[d]
  BY <1>1 DEF LiveInv, LiveTypes, s
<1>3. CursorPast'
  BY <1>1, <1>2 DEF LiveInv, CursorPast
<1>4. ASSUME NEW d \in Clients
      PROVE  \A i, j \in DOMAIN seen'[d] : i < j => seen'[d][i] < seen'[d][j]
  <2>1. CASE d = c
    <3>1. seen'[d] = s /\ DOMAIN s = 1 .. Len(s)
      BY <1>1, <1>2, <2>1
    <3> QED BY <1>1, <3>1
  <2>2. CASE d # c
    BY <1>2, <2>2 DEF LiveInv, InOrder, Live!InOrder
  <2> QED BY <2>1, <2>2
<1> QED BY <1>2, <1>3, <1>4 DEF InOrder, Live!InOrder

\* The handler writes the next event of the snapshot.
LEMMA LiveWriteSnapshot ==
    ASSUME LiveInv, NEW c \in Clients, Live!WriteSnapshot(c) PROVE LiveInv'
<1> DEFINE t == todo[c]
           e == Head(t)
<1>1. /\ t \in Seq(Nat) /\ t # <<>> /\ latest[c] \in Nat /\ stored \in Nat
      /\ \A i \in 1 .. Len(t) : t[i] = latest[c] + i
      /\ latest[c] + Len(t) <= stored
  BY DEF LiveInv, LiveTypes, TodoFollows, Live!WriteSnapshot
<1>2. phase[c] = "snapshot"
  BY DEF Live!WriteSnapshot
<1>3. /\ latest' = [latest EXCEPT ![c] = e] /\ seen' = [seen EXCEPT ![c] = Append(@, e)]
      /\ todo' = [todo EXCEPT ![c] = Tail(t)] /\ UNCHANGED <<stored, phase, queue>>
  BY DEF Live!WriteSnapshot
<1> HIDE DEF t
<1>4. Len(t) \in Nat \ {0} /\ e = t[1]
  BY <1>1
<1>5. e = latest[c] + 1 /\ e \in Nat
  BY <1>1, <1>4
<1> HIDE DEF e
<1>6. /\ Tail(t) \in Seq(Nat) /\ Len(Tail(t)) = Len(t) - 1
      /\ \A i \in 1 .. Len(Tail(t)) : Tail(t)[i] = t[i + 1]
  BY <1>1, <1>4
<1>7. /\ \A i \in 1 .. Len(Tail(t)) : Tail(t)[i] = e + i
      /\ e + Len(Tail(t)) <= stored
  <2>1. ASSUME NEW i \in 1 .. Len(Tail(t)) PROVE Tail(t)[i] = e + i
    <3>1. i \in Nat /\ i + 1 \in 1 .. Len(t)
      BY <1>4, <1>6
    <3>2. Tail(t)[i] = t[i + 1] /\ t[i + 1] = latest[c] + (i + 1)
      BY <1>1, <1>6, <3>1
    <3>3. latest[c] + (i + 1) = e + i
      <4>1. \A m, k \in Nat : m + (k + 1) = (m + 1) + k
        OBVIOUS
      <4>2. latest[c] \in Nat
        BY <1>1
      <4> QED BY <1>5, <3>1, <4>1, <4>2
    <3> QED BY <3>2, <3>3
  <2>2. e + Len(Tail(t)) <= stored
    BY <1>1, <1>4, <1>5, <1>6
  <2> QED BY <2>1, <2>2
<1>8. latest' \in [Clients -> Nat] /\ seen' \in [Clients -> Seq(Nat)] /\ CursorPast' /\ InOrder'
  <2>1. latest[c] < e
    BY <1>1, <1>5
  <2> QED BY <1>3, <1>5, <2>1, LiveWrites
<1>9. LiveTypes'
  BY <1>3, <1>6, <1>8 DEF LiveInv, LiveTypes
<1>10. TodoFollows'
  <2> SUFFICES ASSUME NEW d \in Clients
               PROVE  /\ \A i \in 1 .. Len(todo'[d]) : todo'[d][i] = latest'[d] + i
                      /\ latest'[d] + Len(todo'[d]) <= stored'
                      /\ phase'[d] # "snapshot" => todo'[d] = <<>>
    BY DEF TodoFollows
  <2>1. CASE d = c
    <3>1. todo'[d] = Tail(t) /\ latest'[d] = e /\ phase'[d] = "snapshot"
      BY <1>2, <1>3, <2>1 DEF LiveInv, LiveTypes
    <3> QED BY <1>3, <1>7, <3>1
  <2>2. CASE d # c
    BY <1>3, <2>2 DEF LiveInv, LiveTypes, TodoFollows
  <2> QED BY <2>1, <2>2
<1>11. QueueStored'
  BY <1>3 DEF LiveInv, QueueStored
<1> QED BY <1>8, <1>9, <1>10, <1>11 DEF LiveInv

\* The handler takes an event from the queue and writes it if it is past the cursor.
LEMMA LiveDeliver == ASSUME LiveInv, NEW c \in Clients, Live!Deliver(c) PROVE LiveInv'
<1> DEFINE q == queue[c]
           e == Head(q)
<1>1. /\ q \in Seq(Nat) /\ q # <<>> /\ latest[c] \in Nat /\ stored \in Nat
      /\ \A i \in 1 .. Len(q) : q[i] <= stored
  BY DEF LiveInv, LiveTypes, QueueStored, Live!Deliver
<1>2. phase[c] = "live" /\ todo[c] = <<>>
  BY DEF LiveInv, TodoFollows, Live!Deliver
<1>3. /\ latest' = IF e > latest[c] THEN [latest EXCEPT ![c] = e] ELSE latest
      /\ seen' = IF e > latest[c] THEN [seen EXCEPT ![c] = Append(@, e)] ELSE seen
      /\ queue' = [queue EXCEPT ![c] = Tail(q)] /\ UNCHANGED <<stored, phase, todo>>
  BY DEF Live!Deliver
<1> HIDE DEF q
<1>4. Len(q) \in Nat \ {0} /\ e = q[1]
  BY <1>1
<1>5. e \in Nat /\ e <= stored
  BY <1>1, <1>4
<1>6. /\ Tail(q) \in Seq(Nat) /\ Len(Tail(q)) = Len(q) - 1
      /\ \A i \in 1 .. Len(Tail(q)) : Tail(q)[i] = q[i + 1]
  BY <1>1, <1>4
<1>7. \A i \in 1 .. Len(Tail(q)) : Tail(q)[i] <= stored
  BY <1>1, <1>4, <1>6
<1> HIDE DEF e
<1>8. latest' \in [Clients -> Nat] /\ seen' \in [Clients -> Seq(Nat)] /\ CursorPast' /\ InOrder'
  <2>1. CASE e > latest[c]
    <3>1. latest[c] < e
      BY <1>1, <1>5, <2>1
    <3> QED BY <1>3, <1>5, <2>1, <3>1, LiveWrites
  <2>2. CASE ~(e > latest[c])
    BY <1>3, <2>2 DEF LiveInv, LiveTypes, CursorPast, InOrder, Live!InOrder
  <2> QED BY <2>1, <2>2
<1>9. LiveTypes'
  BY <1>3, <1>6, <1>8 DEF LiveInv, LiveTypes
<1>10. TodoFollows'
  <2> SUFFICES ASSUME NEW d \in Clients
               PROVE  /\ \A i \in 1 .. Len(todo[d]) : todo[d][i] = latest'[d] + i
                      /\ latest'[d] + Len(todo[d]) <= stored
                      /\ phase[d] # "snapshot" => todo[d] = <<>>
    BY <1>3 DEF TodoFollows
  <2>1. CASE d # c \/ ~(e > latest[c])
    <3>1. latest'[d] = latest[d]
      BY <1>3, <2>1 DEF LiveInv, LiveTypes
    <3> QED BY <3>1 DEF LiveInv, TodoFollows
  <2>2. CASE d = c /\ e > latest[c]
    <3>1. latest'[d] = e
      BY <1>3, <2>2 DEF LiveInv, LiveTypes
    <3> QED BY <1>2, <1>5, <2>2, <3>1
  <2> QED BY <2>1, <2>2
<1>11. QueueStored'
  <2>1. \A d \in Clients : queue'[d] = IF d = c THEN Tail(q) ELSE queue[d]
    BY <1>3 DEF LiveInv, LiveTypes
  <2> QED BY <1>3, <1>7, <2>1 DEF LiveInv, QueueStored
<1> QED BY <1>8, <1>9, <1>10, <1>11 DEF LiveInv

\* The subscription and the end of a connection leave what the page received alone.
LEMMA LiveEnds ==
    ASSUME LiveInv, NEW c \in Clients, Live!Subscribe(c) \/ Live!Disconnect(c)
    PROVE  LiveInv'
<1>1. UNCHANGED <<stored, latest, seen>> /\ CursorPast' /\ InOrder'
  BY DEF LiveInv, CursorPast, InOrder, Live!InOrder, Live!Subscribe, Live!Disconnect
<1>2. \A d \in Clients : /\ todo'[d] = todo[d] \/ todo'[d] = <<>>
                         /\ queue'[d] = queue[d] \/ queue'[d] = <<>>
                         /\ phase'[d] # phase[d] => todo'[d] = <<>>
  BY DEF LiveInv, LiveTypes, Live!Subscribe, Live!Disconnect
<1>3. LiveTypes'
  <2>1. <<>> \in Seq(Nat)
    OBVIOUS
  <2>2. /\ phase' \in [Clients -> {"off", "snapshot", "live"}]
        /\ todo' \in [Clients -> Seq(Nat)] /\ queue' \in [Clients -> Seq(Nat)]
    <3>1. CASE Live!Subscribe(c)
      BY <3>1 DEF LiveInv, LiveTypes, Live!Subscribe
    <3>2. CASE Live!Disconnect(c)
      <4> DEFINE S == Seq(Nat)
                 empty == <<>>
      <4>1. /\ todo' = [todo EXCEPT ![c] = empty] /\ queue' = [queue EXCEPT ![c] = empty]
            /\ todo \in [Clients -> S] /\ queue \in [Clients -> S] /\ empty \in S
        BY <2>1, <3>2 DEF LiveInv, LiveTypes, Live!Disconnect
      <4>2. phase' \in [Clients -> {"off", "snapshot", "live"}]
        BY <3>2 DEF LiveInv, LiveTypes, Live!Disconnect
      <4> HIDE DEF S, empty
      <4>3. todo' \in [Clients -> S] /\ queue' \in [Clients -> S]
        BY <4>1
      <4> QED BY <4>2, <4>3 DEF S
    <3> QED BY <3>1, <3>2
  <2> QED BY <1>1, <2>2 DEF LiveInv, LiveTypes
<1>4. QueueStored'
  BY <1>1, <1>2 DEF LiveInv, QueueStored
<1>5. TodoFollows'
  <2> SUFFICES ASSUME NEW d \in Clients
               PROVE  /\ \A i \in 1 .. Len(todo'[d]) : todo'[d][i] = latest[d] + i
                      /\ latest[d] + Len(todo'[d]) <= stored
                      /\ phase'[d] # "snapshot" => todo'[d] = <<>>
    BY <1>1 DEF TodoFollows
  <2>1. /\ \A i \in 1 .. Len(todo[d]) : todo[d][i] = latest[d] + i
        /\ latest[d] + Len(todo[d]) <= stored
        /\ phase[d] # "snapshot" => todo[d] = <<>>
        /\ Len(todo[d]) \in Nat /\ latest[d] \in Nat /\ stored \in Nat
    BY DEF LiveInv, LiveTypes, TodoFollows
  <2>2. CASE todo'[d] = todo[d]
    BY <1>2, <2>1, <2>2
  <2>3. CASE todo'[d] = <<>>
    BY <2>1, <2>3
  <2> QED BY <1>2, <2>2, <2>3
<1> QED BY <1>1, <1>3, <1>4, <1>5 DEF LiveInv

\* Every step of LiveHub keeps its inductive invariant.
LEMMA LiveStep == ASSUME LiveInv, [Live!Next]_(Live!vars) PROVE LiveInv'
<1>1. CASE Live!Publish
  BY <1>1, LivePublish
<1>2. ASSUME NEW c \in Clients,
             Live!Connect(c) \/ Live!WriteSnapshot(c) \/ Live!Subscribe(c)
             \/ Live!Deliver(c) \/ Live!Disconnect(c)
      PROVE  LiveInv'
  BY <1>2, LiveConnect, LiveWriteSnapshot, LiveDeliver, LiveEnds
<1>3. CASE UNCHANGED Live!vars
  BY <1>3 DEF Live!vars, LiveInv, LiveTypes, TodoFollows, QueueStored, CursorPast, InOrder,
              Live!InOrder
<1> QED BY <1>1, <1>2, <1>3 DEF Live!Next

\* The invariant of the live stream, on every behaviour: what a handler has still to
\* write follows the page's cursor, whatever was published, dropped or cut off.
THEOREM LiveInvariant == Live!Spec => []LiveInv
<1>1. Live!Init => LiveInv
  BY DEF Live!Init, LiveInv, LiveTypes, TodoFollows, QueueStored, CursorPast, InOrder,
         Live!InOrder
<1> QED BY <1>1, LiveStep, PTL DEF Live!Spec

\* Over all its connections a page receives no event twice and none out of order (the
\* cursor of the reconnect and the id check of _send_sse), for every queue size and
\* snapshot limit.
THEOREM PageAlwaysInOrder == Live!Spec => []InOrder
<1>1. LiveInv => InOrder
  BY DEF LiveInv
<1> QED BY <1>1, LiveInvariant, PTL
-----------------------------------------------------------------------------
(* The Telegram outbox *)

\* Direct texts t and u are in the order in which they were handed in.
Before(t, u) == Outbox!Direct(t) /\ Outbox!Direct(u) => t <= u

\* Of the request d it is known that its text was handed in, and that it still waits
\* for its first pass only if it was handed in wrapped.
KnownRequest(d) == d.text <= Len(entered) /\ (~d.raw => entered[d.text] = "wrapped")

\* Every request there is, and every text applied, was handed in.
RequestsKnown ==
    /\ \A i \in 1 .. Len(texts) : KnownRequest(texts[i])
    /\ current # Outbox!Nobody => KnownRequest(current)
    /\ \A i \in 1 .. Len(chat) : chat[i] <= Len(entered)

\* The chat, the request in work and the queue, in this order, hold the direct texts
\* in the order in which they were handed in.
RequestsOrdered ==
    /\ \A i, j \in 1 .. Len(texts) : i < j => Before(texts[i].text, texts[j].text)
    /\ current # Outbox!Nobody => \A j \in 1 .. Len(texts) : Before(current.text, texts[j].text)
    /\ \A i \in 1 .. Len(chat) :
         /\ \A j \in 1 .. Len(texts) : Before(chat[i], texts[j].text)
         /\ current # Outbox!Nobody => Before(chat[i], current.text)

\* A caller waits only for a text it handed in by enqueue_send_wait.
WaitersDirect ==
    \A t \in Outbox!Texts :
        waiter[t] = "waiting" => t <= Len(entered) /\ entered[t] = "waited"

\* The inductive invariant of TelegramOutbox.
OutboxInv ==
    /\ Outbox!TypeOK /\ RequestsKnown /\ RequestsOrdered /\ WaitersDirect
    /\ AppliedInOrder /\ IdMeansShown

\* What the types say of the requests.
LEMMA OutboxFacts ==
    ASSUME OutboxInv
    PROVE  /\ Outbox!Texts \subseteq Nat \ {0}
           /\ Len(entered) \in Nat
           /\ Len(texts) \in Nat /\ \A i \in 1 .. Len(texts) : texts[i] \in Outbox!Deliveries
           /\ \A d \in Outbox!Deliveries : d.text \in Outbox!Texts /\ d.raw \in BOOLEAN
           /\ Len(chat) \in Nat /\ DOMAIN chat = 1 .. Len(chat)
           /\ \A i \in 1 .. Len(chat) : chat[i] \in Outbox!Texts
           /\ current # Outbox!Nobody => current \in Outbox!Deliveries
<1>1. Outbox!TypeOK
  BY DEF OutboxInv
<1>2. Outbox!Texts \subseteq Nat \ {0}
  BY ServicesAssumption DEF Outbox!Texts
<1>3. \A d \in Outbox!Deliveries : d.text \in Outbox!Texts /\ d.raw \in BOOLEAN
  BY DEF Outbox!Deliveries
<1>4. texts \in Seq(Outbox!Deliveries) /\ chat \in Seq(Outbox!Texts)
      /\ entered \in Seq(Outbox!Kinds) /\ current \in Outbox!Deliveries \cup {Outbox!Nobody}
  BY <1>1 DEF Outbox!TypeOK
<1> QED BY <1>2, <1>3, <1>4

\* A text is handed in: it is later than all others.
LEMMA OutboxEnqueue ==
    ASSUME OutboxInv, NEW kind \in Outbox!Kinds, Outbox!Enqueue(kind)
    PROVE  OutboxInv'
<1> DEFINE n == Len(entered)
           m == Len(texts)
           d == [text |-> n + 1, raw |-> kind # "wrapped"]
<1>1. /\ Outbox!TypeOK /\ n \in Nat /\ m \in Nat /\ n < MaxTexts /\ MaxTexts \in Nat
      /\ entered' = Append(entered, kind) /\ texts' = Append(texts, d)
      /\ waiter' = (IF kind = "waited" THEN [waiter EXCEPT ![n + 1] = "waiting"] ELSE waiter)
      /\ UNCHANGED <<current, attempt, chat, outcome>>
  BY ServicesAssumption, OutboxFacts DEF OutboxInv, Outbox!Enqueue
<1>2. n + 1 \in Outbox!Texts
  BY <1>1 DEF Outbox!Texts
<1>3. d \in Outbox!Deliveries /\ d.text = n + 1 /\ (~d.raw => kind = "wrapped")
  BY <1>2 DEF Outbox!Deliveries
<1> HIDE DEF d
<1>4. /\ entered' \in Seq(Outbox!Kinds) /\ Len(entered') = n + 1
      /\ \A t \in 1 .. n : entered'[t] = entered[t]
      /\ entered'[n + 1] = kind
  BY <1>1 DEF Outbox!TypeOK
<1>5. /\ texts' \in Seq(Outbox!Deliveries) /\ Len(texts') = m + 1
      /\ \A i \in 1 .. m : texts'[i] = texts[i]
      /\ texts'[m + 1] = d
  BY <1>1, <1>3 DEF Outbox!TypeOK
<1>6. Outbox!TypeOK'
  <2>1. waiter' \in [Outbox!Texts -> {"none", "waiting", "id", "minus_one"}]
    BY <1>1 DEF Outbox!TypeOK
  <2>2. n + 1 <= MaxTexts
    BY <1>1
  <2> QED BY <1>1, <1>4, <1>5, <2>1, <2>2 DEF Outbox!TypeOK, Outbox!Texts, Outbox!Deliveries
<1> HIDE DEF n, m
<1>7. \A i \in 1 .. m + 1 : i \in 1 .. m \/ i = m + 1
  BY <1>1
<1>8. /\ \A i \in 1 .. m : texts[i].text \in 1 .. n
      /\ current # Outbox!Nobody => current.text \in 1 .. n
      /\ \A i \in 1 .. Len(chat) : chat[i] \in 1 .. n
  <2>1. \A t \in Outbox!Texts : t <= n => t \in 1 .. n
    BY <1>1, OutboxFacts
  <2> QED BY <2>1, OutboxFacts DEF OutboxInv, RequestsKnown, KnownRequest, n, m
<1>9. \A t, u \in 1 .. n : Before(t, u) => Before(t, u)'
  BY <1>4 DEF Before, Outbox!Direct
<1>10. \A t \in 1 .. n : \A u : u = n + 1 => (t <= u)
  BY <1>1
<1>11. RequestsKnown'
  <2>1. \A i \in 1 .. m : KnownRequest(texts[i])'
    <3> SUFFICES ASSUME NEW i \in 1 .. m PROVE KnownRequest(texts[i])'
      OBVIOUS
    <3>1. texts'[i] = texts[i] /\ texts[i].text \in 1 .. n /\ KnownRequest(texts[i])
      BY <1>5, <1>8 DEF OutboxInv, RequestsKnown, m
    <3> QED BY <1>1, <1>4, <3>1 DEF KnownRequest
  <2>2. ASSUME NEW k, k = m + 1 PROVE KnownRequest(texts[k])'
    BY <1>1, <1>3, <1>4, <1>5, <2>2 DEF KnownRequest
  <2>3. current' # Outbox!Nobody => KnownRequest(current)'
    BY <1>1, <1>4, <1>8 DEF OutboxInv, RequestsKnown, KnownRequest, Outbox!Nobody
  <2>4. \A i \in 1 .. Len(chat') : chat'[i] <= Len(entered')
    BY <1>1, <1>4, <1>8
  <2>5. \A i \in 1 .. Len(texts') : KnownRequest(texts[i])'
    BY <1>5, <1>7, <2>1, <2>2
  <2> QED BY <2>3, <2>4, <2>5 DEF RequestsKnown, Outbox!Nobody
<1>12. RequestsOrdered'
  <2>1. ASSUME NEW i \in 1 .. m + 1, NEW j \in 1 .. m + 1, i < j
        PROVE  Before(texts[i].text, texts[j].text)'
    <3>1. i \in 1 .. m /\ texts'[i] = texts[i] /\ texts[i].text \in 1 .. n
      BY <1>1, <1>5, <1>8, <2>1
    <3>2. CASE j \in 1 .. m
      <4>1. texts'[j] = texts[j] /\ texts[j].text \in 1 .. n
        BY <1>5, <1>8, <3>2
      <4>2. Before(texts[i].text, texts[j].text)
        BY <2>1, <3>1, <3>2 DEF OutboxInv, RequestsOrdered, m
      <4> QED BY <1>4, <3>1, <4>1, <4>2 DEF Before, Outbox!Direct
    <3>3. CASE j = m + 1
      <4>1. texts'[j].text = n + 1
        BY <1>3, <1>5, <3>3
      <4> QED BY <1>10, <3>1, <4>1 DEF Before
    <3> QED BY <1>7, <3>2, <3>3
  <2>2. ASSUME NEW t \in 1 .. n, NEW j \in 1 .. m + 1,
               \A k \in 1 .. m : Before(t, texts[k].text)
        PROVE  Outbox!Direct(t)' /\ Outbox!Direct(texts[j].text)' => t <= texts'[j].text
    <3>1. CASE j \in 1 .. m
      <4>1. texts'[j] = texts[j] /\ texts[j].text \in 1 .. n /\ Before(t, texts[j].text)
        BY <1>5, <1>8, <2>2, <3>1
      <4> QED BY <1>4, <4>1 DEF Before, Outbox!Direct
    <3>2. CASE j = m + 1
      <4>1. texts'[j].text = n + 1
        BY <1>3, <1>5, <3>2
      <4> QED BY <1>10, <4>1
    <3> QED BY <1>7, <3>1, <3>2
  <2>3. current' # Outbox!Nobody =>
          \A j \in 1 .. m + 1 : Before(current.text, texts[j].text)'
    <3> SUFFICES ASSUME current # Outbox!Nobody, NEW j \in 1 .. m + 1
                 PROVE  Before(current.text, texts[j].text)'
      BY <1>1
    <3>1. current.text \in 1 .. n /\ \A k \in 1 .. m : Before(current.text, texts[k].text)
      BY <1>8 DEF OutboxInv, RequestsOrdered, m
    <3> QED BY <1>1, <2>2, <3>1 DEF Before, Outbox!Direct
  <2>4. ASSUME NEW i \in 1 .. Len(chat)
        PROVE  /\ \A j \in 1 .. m + 1 : Before(chat[i], texts[j].text)'
               /\ current' # Outbox!Nobody => Before(chat[i], current.text)'
    <3>1. chat[i] \in 1 .. n /\ (\A k \in 1 .. m : Before(chat[i], texts[k].text))
          /\ (current # Outbox!Nobody => Before(chat[i], current.text))
      BY <1>8 DEF OutboxInv, RequestsOrdered, m
    <3>2. \A j \in 1 .. m + 1 : Before(chat[i], texts[j].text)'
      BY <1>1, <2>2, <3>1 DEF Before, Outbox!Direct
    <3>3. current' # Outbox!Nobody => Before(chat[i], current.text)'
      BY <1>1, <1>4, <1>8, <3>1 DEF Before, Outbox!Direct
    <3> QED BY <3>2, <3>3
  <2> QED BY <1>1, <1>5, <2>1, <2>3, <2>4 DEF RequestsOrdered, Outbox!Nobody
<1>13. WaitersDirect'
  <2> SUFFICES ASSUME NEW t \in Outbox!Texts, waiter'[t] = "waiting"
               PROVE  t <= Len(entered') /\ entered'[t] = "waited"
    BY DEF WaitersDirect, Outbox!Texts
  <2>1. CASE t = n + 1 /\ kind = "waited"
    BY <1>1, <1>4, <2>1
  <2>2. CASE ~(t = n + 1 /\ kind = "waited")
    <3>1. waiter[t] = "waiting"
      BY <1>1, <2>2 DEF Outbox!TypeOK
    <3>2. t \in 1 .. n /\ entered[t] = "waited"
      BY <1>1, <3>1, OutboxFacts DEF OutboxInv, WaitersDirect, n
    <3> QED BY <1>1, <1>4, <3>2
  <2> QED BY <2>1, <2>2
<1>14. AppliedInOrder'
  <2> SUFFICES ASSUME NEW i \in DOMAIN chat, NEW j \in DOMAIN chat, i < j,
                      Outbox!Direct(chat[i])', Outbox!Direct(chat[j])'
               PROVE  chat[i] <= chat[j]
    BY <1>1 DEF AppliedInOrder, Outbox!AppliedInOrder, Outbox!Direct
  <2>1. chat[i] \in 1 .. n /\ chat[j] \in 1 .. n
    BY <1>8, OutboxFacts
  <2>2. Outbox!Direct(chat[i]) /\ Outbox!Direct(chat[j])
    BY <1>1, <1>4, <2>1 DEF Outbox!Direct
  <2> QED BY <2>2 DEF OutboxInv, AppliedInOrder, Outbox!AppliedInOrder
<1>15. IdMeansShown'
  <2> SUFFICES ASSUME NEW t \in Outbox!Texts, waiter'[t] = "id" PROVE Outbox!Shown(t)
    BY <1>1 DEF IdMeansShown, Outbox!IdMeansShown, Outbox!Shown, Outbox!Texts
  <2>1. waiter[t] = "id"
    BY <1>1 DEF Outbox!TypeOK
  <2> QED BY <2>1 DEF OutboxInv, IdMeansShown, Outbox!IdMeansShown
<1> QED BY <1>6, <1>11, <1>12, <1>13, <1>14, <1>15 DEF OutboxInv

\* The drain takes the head of the queue: all the order needs of it is known there.
LEMMA OutboxPick == ASSUME OutboxInv, Outbox!Pick PROVE OutboxInv'
<1> DEFINE D == Outbox!Deliveries
           tail == Tail(texts)
<1>1. /\ Outbox!TypeOK /\ texts \in Seq(D) /\ texts # <<>> /\ current = Outbox!Nobody
      /\ current' = Head(texts) /\ texts' = tail /\ attempt' = 1
      /\ UNCHANGED <<entered, chat, outcome, waiter>>
  BY DEF OutboxInv, Outbox!TypeOK, Outbox!Pick
<1> HIDE DEF D
<1>2. /\ Len(texts) \in Nat \ {0} /\ Head(texts) = texts[1] /\ texts[1] \in D
      /\ tail \in Seq(D) /\ Len(tail) = Len(texts) - 1
      /\ \A i \in 1 .. Len(tail) : tail[i] = texts[i + 1]
  BY <1>1
<1> HIDE DEF tail
<1>3. \A i \in 1 .. Len(tail) : i + 1 \in 1 .. Len(texts) /\ 1 < i + 1 /\ 1 \in 1 .. Len(texts)
  BY <1>2
<1>4. Outbox!TypeOK'
  BY <1>1, <1>2, ServicesAssumption DEF Outbox!TypeOK, D, Outbox!Deliveries, Outbox!Texts
<1>5. RequestsKnown'
  <2>1. KnownRequest(current)'
    BY <1>1, <1>2 DEF OutboxInv, RequestsKnown, KnownRequest
  <2>2. \A i \in 1 .. Len(tail) : KnownRequest(texts[i])'
    BY <1>1, <1>2, <1>3 DEF OutboxInv, RequestsKnown, KnownRequest
  <2> QED BY <1>1, <2>1, <2>2 DEF OutboxInv, RequestsKnown
<1>6. RequestsOrdered'
  <2>1. \A i, j \in 1 .. Len(tail) : i < j => Before(tail[i].text, tail[j].text)
    <3> SUFFICES ASSUME NEW i \in 1 .. Len(tail), NEW j \in 1 .. Len(tail), i < j
                 PROVE  Before(tail[i].text, tail[j].text)
      OBVIOUS
    <3>1. i + 1 < j + 1
      BY <1>2
    <3> QED BY <1>2, <1>3, <3>1 DEF OutboxInv, RequestsOrdered
  <2>2. \A j \in 1 .. Len(tail) : Before(texts[1].text, tail[j].text)
    BY <1>2, <1>3 DEF OutboxInv, RequestsOrdered
  <2>3. \A i \in 1 .. Len(chat) : /\ \A j \in 1 .. Len(tail) : Before(chat[i], tail[j].text)
                                  /\ Before(chat[i], texts[1].text)
    BY <1>2, <1>3 DEF OutboxInv, RequestsOrdered
  <2> QED BY <1>1, <1>2, <2>1, <2>2, <2>3 DEF RequestsOrdered, Before, Outbox!Direct
<1>7. WaitersDirect' /\ AppliedInOrder' /\ IdMeansShown'
  BY <1>1 DEF OutboxInv, WaitersDirect, AppliedInOrder, Outbox!AppliedInOrder, Outbox!Direct,
              IdMeansShown, Outbox!IdMeansShown, Outbox!Shown, Outbox!Texts
<1> QED BY <1>4, <1>5, <1>6, <1>7 DEF OutboxInv

\* An attempt: it applies the request's text or not, keeps the request or ends it, puts
\* a wrapped one into the queue again, and answers its caller with an id only if it
\* applied the text.
LEMMA OutboxAttempt ==
    ASSUME OutboxInv, Outbox!TypeOK', current # Outbox!Nobody, UNCHANGED entered,
           current' = current \/ current' = Outbox!Nobody,
           \/ texts' = texts
           \/ /\ texts' = Append(texts, [current EXCEPT !.raw = TRUE])
              /\ entered[current.text] = "wrapped" /\ current' = Outbox!Nobody,
           chat' = chat \/ chat' = Append(chat, current.text),
           \A t \in Outbox!Texts :
              \/ waiter'[t] = waiter[t] \/ waiter'[t] = "minus_one"
              \/ /\ t = current.text /\ waiter[t] = "waiting" /\ waiter'[t] = "id"
                 /\ chat' = Append(chat, t) \/ entered[t] = "wrapped"
    PROVE  OutboxInv'
<1> DEFINE D == Outbox!Deliveries
           T == Outbox!Texts
           ct == current.text
<1>1. /\ current \in D /\ ct \in T /\ T \subseteq Nat \ {0} /\ Len(entered) \in Nat
      /\ texts \in Seq(D) /\ chat \in Seq(T) /\ chat' \in Seq(T)
  BY OutboxFacts DEF OutboxInv, Outbox!TypeOK
<1>2. \A j \in 1 .. Len(texts') :
         \/ j \in 1 .. Len(texts) /\ texts'[j] = texts[j]
         \/ /\ texts'[j].text = ct /\ texts'[j].raw = TRUE
            /\ j = Len(texts) + 1 /\ entered[ct] = "wrapped" /\ current' = Outbox!Nobody
  <2> DEFINE d == [current EXCEPT !.raw = TRUE]
  <2>1. d \in D /\ d.text = ct /\ d.raw = TRUE
    BY <1>1 DEF Outbox!Deliveries
  <2> HIDE DEF d, D
  <2>2. CASE texts' = texts
    BY <1>1, <2>2
  <2>3. CASE texts' = Append(texts, d) /\ entered[ct] = "wrapped" /\ current' = Outbox!Nobody
    BY <1>1, <2>1, <2>3
  <2> QED BY <2>2, <2>3 DEF d
<1>3. \A i \in 1 .. Len(chat') :
         \/ i \in 1 .. Len(chat) /\ chat'[i] = chat[i]
         \/ i = Len(chat) + 1 /\ chat'[i] = ct
  <2> HIDE DEF T, ct
  <2>1. CASE chat' = chat
    BY <1>1, <2>1
  <2>2. CASE chat' = Append(chat, ct)
    BY <1>1, <2>2
  <2> QED BY <2>1, <2>2 DEF ct
<1>4. KnownRequest(current) /\ ct <= Len(entered)
  BY DEF OutboxInv, RequestsKnown, KnownRequest
<1>5. \A t, u : (entered[u] = "wrapped" => Before(t, u)) /\ (t \in Nat => Before(t, t))
  BY DEF Before, Outbox!Direct
<1>6. \A t, u : Before(t, u) => (Outbox!Direct(t)' /\ Outbox!Direct(u)' => t <= u)
  BY DEF Before, Outbox!Direct
<1>7. RequestsKnown'
  <2>1. \A j \in 1 .. Len(texts') : KnownRequest(texts[j])'
    BY <1>2, <1>4 DEF OutboxInv, RequestsKnown, KnownRequest
  <2>2. current' # Outbox!Nobody => KnownRequest(current)'
    BY <1>4 DEF KnownRequest
  <2>3. \A i \in 1 .. Len(chat') : chat'[i] <= Len(entered')
    BY <1>3, <1>4 DEF OutboxInv, RequestsKnown
  <2> QED BY <2>1, <2>2, <2>3 DEF RequestsKnown, Outbox!Nobody
<1>8. /\ \A i, j \in 1 .. Len(texts) : i < j => Before(texts[i].text, texts[j].text)
      /\ \A j \in 1 .. Len(texts) : Before(ct, texts[j].text)
      /\ \A i \in 1 .. Len(chat) : (\A j \in 1 .. Len(texts) : Before(chat[i], texts[j].text))
                                    /\ Before(chat[i], ct)
  BY DEF OutboxInv, RequestsOrdered
<1> HIDE DEF D, T, ct
<1>9. ASSUME NEW t, \A j \in 1 .. Len(texts) : Before(t, texts[j].text)
      PROVE  \A j \in 1 .. Len(texts') : Before(t, texts'[j].text)
  BY <1>2, <1>5, <1>9
<1>10. \A i, j \in 1 .. Len(texts') : i < j => Before(texts'[i].text, texts'[j].text)
  <2> SUFFICES ASSUME NEW i \in 1 .. Len(texts'), NEW j \in 1 .. Len(texts'), i < j
               PROVE  Before(texts'[i].text, texts'[j].text)
    OBVIOUS
  <2>1. CASE texts'[j].text = ct /\ entered[ct] = "wrapped"
    BY <1>5, <2>1
  <2>2. CASE j \in 1 .. Len(texts) /\ texts'[j] = texts[j]
    <3>1. i \in 1 .. Len(texts) /\ i # Len(texts) + 1
      BY <1>1, <2>2
    <3> QED BY <1>2, <1>8, <2>2, <3>1
  <2> QED BY <1>2, <2>1, <2>2
<1>11. \A i \in 1 .. Len(chat') :
          /\ \A j \in 1 .. Len(texts') : Before(chat'[i], texts'[j].text)
          /\ Before(chat'[i], ct)
  <2> SUFFICES ASSUME NEW i \in 1 .. Len(chat')
               PROVE  /\ \A j \in 1 .. Len(texts') : Before(chat'[i], texts'[j].text)
                      /\ Before(chat'[i], ct)
    OBVIOUS
  <2>1. \A j \in 1 .. Len(texts) : Before(chat'[i], texts[j].text)
    BY <1>3, <1>8
  <2>2. Before(chat'[i], ct)
    BY <1>1, <1>3, <1>5, <1>8
  <2> QED BY <1>9, <2>1, <2>2
<1>12. RequestsOrdered'
  <2>1. current' # Outbox!Nobody => current' = current /\ current'.text = ct
    BY DEF ct
  <2>2. \A j \in 1 .. Len(texts') : Before(ct, texts'[j].text)
    BY <1>8, <1>9
  <2>3. \A i, j \in 1 .. Len(texts') : i < j => Before(texts[i].text, texts[j].text)'
    BY <1>6, <1>10 DEF Before
  <2>4. current' # Outbox!Nobody
          => \A j \in 1 .. Len(texts') : Before(current.text, texts[j].text)'
    BY <1>6, <2>1, <2>2 DEF Before
  <2>5. \A i \in 1 .. Len(chat') :
          /\ \A j \in 1 .. Len(texts') : Before(chat[i], texts[j].text)'
          /\ current' # Outbox!Nobody => Before(chat[i], current.text)'
    BY <1>6, <1>11, <2>1 DEF Before
  <2> QED BY <2>3, <2>4, <2>5 DEF RequestsOrdered, Outbox!Nobody
<1>13. AppliedInOrder'
  <2> SUFFICES ASSUME NEW i \in DOMAIN chat', NEW j \in DOMAIN chat', i < j
               PROVE  Before(chat'[i], chat'[j])
    BY DEF AppliedInOrder, Outbox!AppliedInOrder, Before, Outbox!Direct
  <2>1. i \in 1 .. Len(chat') /\ j \in 1 .. Len(chat')
    BY <1>1
  <2>2. CASE chat'[j] = ct
    BY <1>11, <2>1, <2>2
  <2>3. CASE j \in 1 .. Len(chat) /\ chat'[j] = chat[j]
    <3>1. i \in 1 .. Len(chat) /\ i # Len(chat) + 1
      BY <1>1, <2>1, <2>3
    <3>2. chat'[i] = chat[i] /\ i \in DOMAIN chat /\ j \in DOMAIN chat
      BY <1>1, <1>3, <2>1, <2>3, <3>1
    <3> QED BY <2>3, <3>2 DEF OutboxInv, AppliedInOrder, Outbox!AppliedInOrder, Before
  <2> QED BY <1>3, <2>1, <2>2, <2>3
<1>14. WaitersDirect'
  BY DEF OutboxInv, WaitersDirect, Outbox!Texts
<1>15. IdMeansShown'
  <2> SUFFICES ASSUME NEW t \in T, waiter'[t] = "id"
               PROVE  \E i \in DOMAIN chat' : chat'[i] = t
    BY DEF IdMeansShown, Outbox!IdMeansShown, Outbox!Shown, Outbox!Texts, T
  <2>1. CASE waiter[t] = "id"
    <3>1. PICK i \in DOMAIN chat : chat[i] = t
      BY <2>1 DEF OutboxInv, IdMeansShown, Outbox!IdMeansShown, Outbox!Shown, T
    <3>2. i \in DOMAIN chat' /\ chat'[i] = chat[i]
      <4>1. CASE chat' = chat
        BY <4>1
      <4>2. CASE chat' = Append(chat, ct)
        BY <1>1, <4>2
      <4> QED BY <4>1, <4>2 DEF ct
    <3> QED BY <3>1, <3>2
  <2>2. CASE waiter[t] = "waiting" /\ chat' = Append(chat, t)
    <3>1. Len(chat) + 1 \in DOMAIN chat' /\ chat'[Len(chat) + 1] = t
      BY <1>1, <2>2
    <3> QED BY <3>1
  <2>3. CASE waiter[t] = "waiting" /\ entered[t] = "wrapped"
    BY <2>3 DEF OutboxInv, WaitersDirect, T
  <2> QED BY <2>1, <2>2, <2>3 DEF T
<1> QED BY <1>7, <1>12, <1>13, <1>14, <1>15 DEF OutboxInv

\* What the end of a request does to the caller, and its types.
LEMMA OverFacts ==
    ASSUME OutboxInv, current # Outbox!Nobody,
           NEW how \in {"sent", "failed", "skipped"}, NEW answer \in {"id", "minus_one"},
           Outbox!Over(how, answer)
    PROVE  /\ current' = Outbox!Nobody /\ attempt' = 0
           /\ outcome' \in [Outbox!Texts -> {"none", "sent", "failed", "skipped"}]
           /\ waiter' \in [Outbox!Texts -> {"none", "waiting", "id", "minus_one"}]
           /\ \A t \in Outbox!Texts :
                 \/ waiter'[t] = waiter[t]
                 \/ t = current.text /\ waiter[t] = "waiting" /\ waiter'[t] = answer
<1>1. Outbox!TypeOK
  BY DEF OutboxInv
<1>2. /\ outcome' = [outcome EXCEPT ![current.text] = how]
      /\ waiter' = (IF waiter[current.text] = "waiting"
                      THEN [waiter EXCEPT ![current.text] = answer] ELSE waiter)
      /\ current' = Outbox!Nobody /\ attempt' = 0
  BY DEF Outbox!Over
<1> QED BY <1>1, <1>2 DEF Outbox!TypeOK

\* The four ways an attempt goes.
LEMMA OutboxTries ==
    ASSUME OutboxInv, NEW applied \in BOOLEAN, NEW retryable \in BOOLEAN,
           \/ Outbox!Delivered \/ Outbox!Rewrapped \/ Outbox!NotModified
           \/ Outbox!Failed(applied, retryable)
    PROVE  OutboxInv'
<1> DEFINE D == Outbox!Deliveries
           T == Outbox!Texts
<1>1. /\ current # Outbox!Nobody /\ current \in D /\ current.text \in T
      /\ texts \in Seq(D) /\ chat \in Seq(T) /\ Outbox!TypeOK /\ UNCHANGED entered
      /\ MaxRetries \in Nat \ {0}
  BY OutboxFacts, ServicesAssumption
     DEF OutboxInv, Outbox!TypeOK, Outbox!Delivered, Outbox!Rewrapped, Outbox!NotModified,
         Outbox!Failed
<1>2. ASSUME NEW t \in T PROVE Append(chat, t) \in Seq(T)
  BY <1>1
<1>3. ASSUME texts' \in Seq(D), chat' \in Seq(T), attempt' \in 0 .. MaxRetries,
             current' = current \/ current' = Outbox!Nobody,
             outcome' \in [T -> {"none", "sent", "failed", "skipped"}],
             waiter' \in [T -> {"none", "waiting", "id", "minus_one"}]
      PROVE  Outbox!TypeOK'
  BY <1>1, <1>3 DEF Outbox!TypeOK, Outbox!Texts, Outbox!Deliveries, Outbox!Kinds, Outbox!Nobody
<1>4. CASE Outbox!Delivered
  <2>1. chat' = Append(chat, current.text) /\ Outbox!Over("sent", "id") /\ texts' = texts
    BY <1>4 DEF Outbox!Delivered
  <2>2. /\ current' = Outbox!Nobody /\ attempt' = 0
        /\ outcome' \in [T -> {"none", "sent", "failed", "skipped"}]
        /\ waiter' \in [T -> {"none", "waiting", "id", "minus_one"}]
        /\ \A t \in T : \/ waiter'[t] = waiter[t]
                        \/ t = current.text /\ waiter[t] = "waiting" /\ waiter'[t] = "id"
    BY <1>1, <2>1, OverFacts
  <2>3. Outbox!TypeOK'
    BY <1>1, <1>2, <1>3, <2>1, <2>2
  <2> QED BY <1>1, <2>1, <2>2, <2>3, OutboxAttempt
<1>5. CASE Outbox!Rewrapped
  <2> DEFINE d == [current EXCEPT !.raw = TRUE]
  <2>1. /\ texts' = Append(texts, d) /\ Outbox!Over("sent", "id") /\ chat' = chat
        /\ ~current.raw
    BY <1>5 DEF Outbox!Rewrapped
  <2>2. /\ current' = Outbox!Nobody /\ attempt' = 0
        /\ outcome' \in [T -> {"none", "sent", "failed", "skipped"}]
        /\ waiter' \in [T -> {"none", "waiting", "id", "minus_one"}]
        /\ \A t \in T : \/ waiter'[t] = waiter[t]
                        \/ t = current.text /\ waiter[t] = "waiting" /\ waiter'[t] = "id"
    BY <1>1, <2>1, OverFacts
  <2>3. entered[current.text] = "wrapped"
    BY <1>1, <2>1 DEF OutboxInv, RequestsKnown, KnownRequest
  <2>4. texts' \in Seq(D)
    <3>1. d \in D
      BY <1>1 DEF Outbox!Deliveries
    <3> HIDE DEF d, D
    <3> QED BY <1>1, <2>1, <3>1
  <2>5. Outbox!TypeOK'
    BY <1>1, <1>3, <2>1, <2>2, <2>4
  <2> QED BY <1>1, <2>1, <2>2, <2>3, <2>5, OutboxAttempt
<1>6. CASE Outbox!NotModified
  <2>1. Outbox!Over("skipped", "minus_one") /\ chat' = chat /\ texts' = texts
    BY <1>6 DEF Outbox!NotModified
  <2>2. /\ current' = Outbox!Nobody /\ attempt' = 0
        /\ outcome' \in [T -> {"none", "sent", "failed", "skipped"}]
        /\ waiter' \in [T -> {"none", "waiting", "id", "minus_one"}]
        /\ \A t \in T : waiter'[t] = waiter[t] \/ waiter'[t] = "minus_one"
    BY <1>1, <2>1, OverFacts
  <2>3. Outbox!TypeOK'
    BY <1>1, <1>3, <2>1, <2>2
  <2> QED BY <1>1, <2>1, <2>2, <2>3, OutboxAttempt
<1>7. CASE Outbox!Failed(applied, retryable)
  <2>1. /\ chat' = Append(chat, current.text) \/ chat' = chat
        /\ texts' = texts
    BY <1>7 DEF Outbox!Failed
  <2>2. chat' \in Seq(T)
    BY <1>1, <1>2, <2>1
  <2>3. CASE attempt < MaxRetries /\ attempt' = attempt + 1
             /\ UNCHANGED <<current, outcome, waiter>>
    <3>1. attempt' \in 0 .. MaxRetries
      BY <1>1, <2>3 DEF Outbox!TypeOK
    <3>2. Outbox!TypeOK'
      BY <1>1, <1>3, <2>1, <2>2, <2>3, <3>1 DEF Outbox!TypeOK
    <3> QED BY <1>1, <2>1, <2>3, <3>2, OutboxAttempt
  <2>4. CASE Outbox!Over("failed", "minus_one")
    <3>1. /\ current' = Outbox!Nobody /\ attempt' = 0
          /\ outcome' \in [T -> {"none", "sent", "failed", "skipped"}]
          /\ waiter' \in [T -> {"none", "waiting", "id", "minus_one"}]
          /\ \A t \in T : waiter'[t] = waiter[t] \/ waiter'[t] = "minus_one"
      BY <1>1, <2>4, OverFacts
    <3>2. Outbox!TypeOK'
      BY <1>1, <1>3, <2>1, <2>2, <3>1
    <3> QED BY <1>1, <2>1, <3>1, <3>2, OutboxAttempt
  <2> QED BY <1>7, <2>3, <2>4 DEF Outbox!Failed
<1> QED BY <1>4, <1>5, <1>6, <1>7

\* The caller's timeout leaves the request queued.
LEMMA OutboxTimesOut ==
    ASSUME OutboxInv, NEW t \in Outbox!Texts, Outbox!WaitTimesOut(t) PROVE OutboxInv'
<1>1. Outbox!TypeOK /\ waiter' = [waiter EXCEPT ![t] = "minus_one"]
      /\ UNCHANGED <<entered, texts, current, attempt, chat, outcome>>
  BY DEF OutboxInv, Outbox!WaitTimesOut
<1>2. Outbox!TypeOK'
  BY <1>1 DEF Outbox!TypeOK, Outbox!Texts, Outbox!Deliveries, Outbox!Kinds, Outbox!Nobody
<1>3. \A u \in Outbox!Texts : waiter'[u] = waiter[u] \/ waiter'[u] = "minus_one"
  BY <1>1 DEF Outbox!TypeOK
<1>4. RequestsKnown' /\ RequestsOrdered' /\ AppliedInOrder'
  BY <1>1 DEF OutboxInv, RequestsKnown, KnownRequest, RequestsOrdered, Before, Outbox!Direct,
              AppliedInOrder, Outbox!AppliedInOrder, Outbox!Nobody
<1>5. WaitersDirect' /\ IdMeansShown'
  BY <1>1, <1>3 DEF OutboxInv, WaitersDirect, IdMeansShown, Outbox!IdMeansShown, Outbox!Shown,
                    Outbox!Texts
<1> QED BY <1>2, <1>4, <1>5 DEF OutboxInv

\* Every step of TelegramOutbox keeps its inductive invariant.
LEMMA OutboxStep == ASSUME OutboxInv, [Outbox!Next]_(Outbox!vars) PROVE OutboxInv'
<1>1. ASSUME NEW kind \in Outbox!Kinds, Outbox!Enqueue(kind) PROVE OutboxInv'
  BY <1>1, OutboxEnqueue
<1>2. CASE Outbox!Pick
  BY <1>2, OutboxPick
<1>3. CASE Outbox!Delivered \/ Outbox!Rewrapped \/ Outbox!NotModified
  BY <1>3, OutboxTries
<1>4. ASSUME NEW applied \in BOOLEAN, NEW retryable \in BOOLEAN,
             Outbox!Failed(applied, retryable)
      PROVE  OutboxInv'
  BY <1>4, OutboxTries
<1>5. ASSUME NEW t \in Outbox!Texts, Outbox!WaitTimesOut(t) PROVE OutboxInv'
  BY <1>5, OutboxTimesOut
<1>6. CASE UNCHANGED Outbox!vars
  <2>1. UNCHANGED <<entered, texts, current, attempt, chat, outcome, waiter>>
    BY <1>6 DEF Outbox!vars
  <2>2. Outbox!TypeOK'
    BY <2>1 DEF OutboxInv, Outbox!TypeOK, Outbox!Texts, Outbox!Deliveries, Outbox!Kinds,
                Outbox!Nobody
  <2>3. RequestsKnown' /\ RequestsOrdered' /\ AppliedInOrder'
    BY <2>1 DEF OutboxInv, RequestsKnown, KnownRequest, RequestsOrdered, Before,
                Outbox!Direct, AppliedInOrder, Outbox!AppliedInOrder, Outbox!Nobody
  <2>4. WaitersDirect' /\ IdMeansShown'
    BY <2>1 DEF OutboxInv, WaitersDirect, IdMeansShown, Outbox!IdMeansShown, Outbox!Shown,
                Outbox!Texts
  <2> QED BY <2>2, <2>3, <2>4 DEF OutboxInv
<1> QED BY <1>1, <1>2, <1>3, <1>4, <1>5, <1>6 DEF Outbox!Next

\* The invariant of the outbox, on every behaviour: the chat, the request in work and
\* the queue hold the direct texts in the order they were handed in.
THEOREM OutboxInvariant == Outbox!Spec => []OutboxInv
<1>1. Outbox!Init => OutboxInv
  <2> SUFFICES ASSUME Outbox!Init PROVE OutboxInv
    OBVIOUS
  <2>1. Outbox!TypeOK
    BY ServicesAssumption
       DEF Outbox!Init, Outbox!TypeOK, Outbox!Texts, Outbox!Deliveries, Outbox!Kinds
  <2>2. RequestsKnown /\ RequestsOrdered /\ WaitersDirect
    BY DEF Outbox!Init, RequestsKnown, RequestsOrdered, WaitersDirect
  <2>3. AppliedInOrder /\ IdMeansShown
    BY DEF Outbox!Init, AppliedInOrder, Outbox!AppliedInOrder, IdMeansShown,
           Outbox!IdMeansShown
  <2> QED BY <2>1, <2>2, <2>3 DEF OutboxInv
<1> QED BY <1>1, OutboxStep, PTL DEF Outbox!Spec

\* However often a request was retried or hidden by a timeout, an older direct text is
\* never applied after a newer one (process_all, _deliver), for every MAX_RETRIES.
THEOREM TextsAlwaysInOrder == Outbox!Spec => []AppliedInOrder
<1>1. OutboxInv => AppliedInOrder
  BY DEF OutboxInv
<1> QED BY <1>1, OutboxInvariant, PTL

\* A message id given to a caller of enqueue_send_wait is of a text Telegram applied,
\* also when its timeout raced the delivery.
THEOREM IdAlwaysShown == Outbox!Spec => []IdMeansShown
<1>1. OutboxInv => IdMeansShown
  BY DEF OutboxInv
<1> QED BY <1>1, OutboxInvariant, PTL
-----------------------------------------------------------------------------
(* The maintenance window *)

\* The types the readiness of a window rests on.
WindowTypes ==
    /\ frozen \in BOOLEAN /\ opened \in Nat /\ windows \in 0 .. MaxWindows
    /\ live \in [Sessions -> Nat] /\ turns \in Nat
    /\ verdict \in [Window!Windows \X Sessions -> {"none", "active", "terminal", "unknown"}]
    /\ probe.at \in Nat

\* An open window has a number of its own: no window with a later one has a verdict,
\* and a running probe records its verdicts in the open window.
WindowFresh ==
    /\ frozen => opened \in 1 .. windows
    /\ \A n \in Window!Windows, s \in Sessions : n > windows => verdict[<<n, s>>] = "none"
    /\ probe # Window!NoProbe => frozen /\ probe.at = opened

\* Every captured turn belongs to a candidate of the open window, is not newer than the
\* last turn started, and is not live any more once its session was seen terminal.
CapturedHeld ==
    /\ captured # {} => frozen
    /\ \A p \in captured :
         /\ p[1] \in Sessions /\ p[2] \in 1 .. turns
         /\ <<opened, p[1]>> \in candidates
         /\ verdict[<<opened, p[1]>>] = "terminal" => live[p[1]] # p[2]

\* No turn that is live was started later than the last one.
LiveStarted == \A s \in Sessions : live[s] <= turns

\* The inductive invariant of MaintenanceWindow.
WindowInv == WindowTypes /\ WindowFresh /\ CapturedHeld /\ LiveStarted

\* The window is ready only if each captured session was seen terminal.
LEMMA WindowReady == WindowInv => ReadyMeansEnded
<1> SUFFICES ASSUME WindowInv, Window!Ready, NEW p \in captured PROVE live[p[1]] # p[2]
  BY DEF ReadyMeansEnded, Window!ReadyMeansEnded
<1>1. /\ frozen /\ p[1] \in Sessions /\ <<opened, p[1]>> \in candidates
      /\ (verdict[<<opened, p[1]>>] = "terminal" => live[p[1]] # p[2])
  BY DEF WindowInv, CapturedHeld
<1>2. p[1] \notin Window!ActiveWork
  BY DEF Window!Ready
<1>3. verdict[<<opened, p[1]>>] = "terminal"
  BY <1>1, <1>2 DEF Window!ActiveWork
<1> QED BY <1>1, <1>3

\* The service's steps: a turn that starts is newer than every captured one.
LEMMA WindowService ==
    ASSUME WindowInv, NEW x,
           \/ Window!Submit(x) \/ Window!Act(x) \/ Window!GiveUp(x) \/ Window!WriterEnds(x)
           \/ x \in Sessions /\ (Window!TurnEnds(x) \/ Window!Heard(x))
    PROVE  WindowInv'
<1>1. UNCHANGED <<frozen, opened, windows, candidates, captured, verdict, probe>>
  BY DEF Window!Submit, Window!Act, Window!GiveUp, Window!WriterEnds, Window!TurnEnds,
         Window!Heard, Window!window, Window!operator
<1>2. \/ UNCHANGED <<live, turns>>
      \/ /\ x \in Sessions /\ turns' = turns + 1 /\ live' = [live EXCEPT ![x] = turns + 1]
      \/ /\ x \in Sessions /\ turns' = turns /\ live' = [live EXCEPT ![x] = 0]
  BY DEF Window!Submit, Window!Act, Window!GiveUp, Window!WriterEnds, Window!TurnEnds,
         Window!Heard
<1>3. /\ live \in [Sessions -> Nat] /\ turns \in Nat /\ \A s \in Sessions : live[s] <= turns
  BY DEF WindowInv, WindowTypes, LiveStarted
<1>4. /\ live' \in [Sessions -> Nat] /\ turns' \in Nat /\ turns <= turns'
      /\ \A s \in Sessions : live'[s] <= turns'
      /\ \A s \in Sessions : live'[s] = live[s] \/ live'[s] = 0 \/ live'[s] = turns + 1
  <2>1. CASE UNCHANGED <<live, turns>>
    BY <1>3, <2>1
  <2>2. CASE x \in Sessions /\ turns' = turns + 1 /\ live' = [live EXCEPT ![x] = turns + 1]
    <3>1. \A s \in Sessions : live'[s] = IF s = x THEN turns + 1 ELSE live[s]
      BY <1>3, <2>2
    <3> QED BY <1>3, <2>2, <3>1
  <2>3. CASE x \in Sessions /\ turns' = turns /\ live' = [live EXCEPT ![x] = 0]
    <3>1. \A s \in Sessions : live'[s] = IF s = x THEN 0 ELSE live[s]
      BY <1>3, <2>3
    <3> QED BY <1>3, <2>3, <3>1
  <2> QED BY <1>2, <2>1, <2>2, <2>3
<1>5. WindowTypes' /\ LiveStarted'
  BY <1>1, <1>4 DEF WindowInv, WindowTypes, LiveStarted, Window!Windows
<1>6. WindowFresh'
  BY <1>1 DEF WindowInv, WindowFresh, Window!Windows, Window!NoProbe
<1>7. CapturedHeld'
  <2> SUFFICES ASSUME NEW p \in captured
               PROVE  /\ p[1] \in Sessions /\ p[2] \in 1 .. turns'
                      /\ <<opened, p[1]>> \in candidates
                      /\ verdict[<<opened, p[1]>>] = "terminal" => live'[p[1]] # p[2]
    BY <1>1 DEF WindowInv, CapturedHeld
  <2>1. /\ p[1] \in Sessions /\ p[2] \in 1 .. turns
        /\ <<opened, p[1]>> \in candidates
        /\ verdict[<<opened, p[1]>>] = "terminal" => live[p[1]] # p[2]
    BY DEF WindowInv, CapturedHeld
  <2>2. p[2] \in 1 .. turns' /\ p[2] # 0 /\ p[2] # turns + 1
    BY <1>3, <1>4, <2>1
  <2> QED BY <1>4, <2>1, <2>2
<1> QED BY <1>5, <1>6, <1>7 DEF WindowInv

\* begin_maintenance_window: an open window keeps its number, a closed one gets the
\* next, which no verdict has.
LEMMA WindowBegin == ASSUME WindowInv, Window!Begin PROVE WindowInv'
<1> DEFINE at == IF frozen /\ opened # 0 THEN opened ELSE windows + 1
<1>1. /\ windows \in Nat /\ windows < MaxWindows /\ windows' = windows + 1 /\ MaxWindows \in Nat
      /\ probe = Window!NoProbe /\ frozen' = TRUE /\ opened' = at
      /\ candidates' = candidates \cup {<<at, s>> : s \in {t \in Sessions : cached[t] = "running"}}
      /\ captured' = IF frozen THEN captured
                     ELSE {<<s, live[s]>> : s \in {t \in Sessions : cached[t] = "running"
                                                                    /\ live[t] # 0}}
      /\ UNCHANGED <<live, turns, verdict, probe>>
  BY ServicesAssumption
     DEF WindowInv, WindowTypes, Window!Begin, Window!Freeze, Window!service, Window!operator
<1>2. opened \in Nat /\ (frozen => opened \in 1 .. windows) /\ frozen \in BOOLEAN
  BY DEF WindowInv, WindowTypes, WindowFresh
<1>3. at \in 1 .. windows' /\ at \in Nat /\ at \in Window!Windows
      /\ (frozen => at = opened) /\ (~frozen => at = windows + 1)
  BY <1>1, <1>2 DEF Window!Windows
<1> HIDE DEF at
<1>4. WindowTypes' /\ LiveStarted'
  BY <1>1, <1>3 DEF WindowInv, WindowTypes, LiveStarted, Window!Windows
<1>5. WindowFresh'
  <2>1. \A n \in Window!Windows, s \in Sessions : n > windows' => verdict'[<<n, s>>] = "none"
    <3> SUFFICES ASSUME NEW n \in Window!Windows, NEW s \in Sessions, n > windows'
                 PROVE  verdict[<<n, s>>] = "none"
      BY <1>1
    <3>1. n > windows
      BY <1>1 DEF Window!Windows
    <3> QED BY <3>1 DEF WindowInv, WindowFresh
  <2> QED BY <1>1, <1>3, <2>1 DEF WindowFresh, Window!Windows, Window!NoProbe
<1>6. CapturedHeld'
  <2> SUFFICES ASSUME NEW p \in captured'
               PROVE  /\ p[1] \in Sessions /\ p[2] \in 1 .. turns
                      /\ <<at, p[1]>> \in candidates'
                      /\ verdict[<<at, p[1]>>] = "terminal" => live[p[1]] # p[2]
    BY <1>1 DEF CapturedHeld
  <2>1. CASE frozen
    BY <1>1, <1>3, <2>1 DEF WindowInv, CapturedHeld
  <2>2. CASE ~frozen
    <3>1. PICK s \in Sessions : cached[s] = "running" /\ live[s] # 0 /\ p = <<s, live[s]>>
      BY <1>1, <2>2
    <3>2. live[s] \in 1 .. turns
      BY <3>1 DEF WindowInv, WindowTypes, LiveStarted
    <3>3. <<at, s>> \in candidates'
      BY <1>1, <3>1
    <3>4. verdict[<<at, s>>] = "none"
      <4>1. at > windows
        BY <1>1, <1>3, <2>2
      <4> QED BY <1>3, <4>1 DEF WindowInv, WindowFresh
    <3>5. p[1] = s /\ p[2] = live[s]
      BY <3>1
    <3> QED BY <3>2, <3>3, <3>4, <3>5
  <2> QED BY <1>2, <2>1, <2>2
<1> QED BY <1>4, <1>5, <1>6 DEF WindowInv

\* cancel_maintenance_window and the start of a probe.
LEMMA WindowOperator == ASSUME WindowInv, Window!Cancel \/ Window!StartProbe PROVE WindowInv'
<1>1. CASE Window!Cancel
  <2>1. /\ frozen' = FALSE /\ captured' = {} /\ probe = Window!NoProbe
        /\ UNCHANGED <<opened, windows, candidates, live, turns, verdict, probe>>
    BY <1>1 DEF Window!Cancel, Window!service, Window!operator
  <2>2. WindowTypes' /\ LiveStarted'
    BY <2>1 DEF WindowInv, WindowTypes, LiveStarted, Window!Windows
  <2>3. WindowFresh' /\ CapturedHeld'
    BY <2>1 DEF WindowInv, WindowFresh, CapturedHeld, Window!Windows, Window!NoProbe
  <2> QED BY <2>2, <2>3 DEF WindowInv
<1>2. CASE Window!StartProbe
  <2>1. /\ frozen /\ probe' = [todo |-> Window!ProbeTargets, at |-> opened]
        /\ UNCHANGED <<frozen, opened, windows, candidates, captured, live, turns, verdict>>
    BY <1>2 DEF Window!StartProbe, Window!service, Window!window
  <2>2. probe'.at = opened
    BY <2>1
  <2>3. WindowTypes' /\ LiveStarted'
    BY <2>1, <2>2 DEF WindowInv, WindowTypes, LiveStarted, Window!Windows
  <2>4. WindowFresh' /\ CapturedHeld'
    BY <2>1, <2>2 DEF WindowInv, WindowFresh, CapturedHeld, Window!Windows, Window!NoProbe
  <2> QED BY <2>3, <2>4 DEF WindowInv
<1> QED BY <1>1, <1>2

\* _record_native_turn_probes: terminal is recorded only for a session that runs no turn.
LEMMA WindowProbe ==
    ASSUME WindowInv, NEW s \in Sessions, NEW answers \in BOOLEAN,
           Window!ProbeSession(s, answers)
    PROVE  WindowInv'
<1> DEFINE v == Window!Verdict(s, answers)
<1>1. /\ s \in probe.todo
      /\ verdict' = [verdict EXCEPT ![<<probe.at, s>>] = v]
      /\ probe' = (IF probe.todo = {s} THEN Window!NoProbe
                                       ELSE [probe EXCEPT !.todo = @ \ {s}])
      /\ UNCHANGED <<frozen, opened, windows, candidates, captured, live, turns>>
  BY DEF Window!ProbeSession, Window!window, Window!service
<1>2. probe # Window!NoProbe
  BY <1>1 DEF Window!NoProbe
<1>3. /\ frozen /\ probe.at = opened /\ opened \in 1 .. windows /\ windows \in 0 .. MaxWindows
      /\ MaxWindows \in Nat
  BY <1>2, ServicesAssumption DEF WindowInv, WindowTypes, WindowFresh
<1>4. opened \in Window!Windows
  BY <1>3 DEF Window!Windows
<1>5. v \in {"none", "active", "terminal", "unknown"} /\ (v = "terminal" => live[s] = 0)
  BY DEF Window!Verdict
<1> HIDE DEF v
<1>6. /\ verdict' \in [Window!Windows \X Sessions -> {"none", "active", "terminal", "unknown"}]
      /\ \A n \in Window!Windows, t \in Sessions :
           verdict'[<<n, t>>] = IF n = opened /\ t = s THEN v ELSE verdict[<<n, t>>]
  BY <1>1, <1>3, <1>4, <1>5 DEF WindowInv, WindowTypes
<1>7. probe'.at \in Nat /\ (probe' # Window!NoProbe => probe'.at = opened)
  <2>1. CASE probe' = Window!NoProbe
    BY <2>1 DEF Window!NoProbe
  <2>2. CASE probe' = [probe EXCEPT !.todo = @ \ {s}]
    <3>1. probe'.at = probe.at
      BY <2>2
    <3> QED BY <1>3, <3>1
  <2> QED BY <1>1, <2>1, <2>2
<1>8. WindowTypes' /\ LiveStarted'
  BY <1>1, <1>6, <1>7 DEF WindowInv, WindowTypes, LiveStarted, Window!Windows
<1>9. WindowFresh'
  <2>1. \A n \in Window!Windows, t \in Sessions : n > windows' => verdict'[<<n, t>>] = "none"
    <3> SUFFICES ASSUME NEW n \in Window!Windows, NEW t \in Sessions, n > windows
                 PROVE  verdict'[<<n, t>>] = "none"
      BY <1>1
    <3>1. n # opened
      BY <1>3 DEF Window!Windows
    <3> QED BY <1>6, <3>1 DEF WindowInv, WindowFresh
  <2>2. (frozen => opened \in 1 .. windows)' /\ (probe' # Window!NoProbe => frozen' /\ probe'.at = opened')
    BY <1>1, <1>3, <1>7
  <2> QED BY <2>1, <2>2 DEF WindowFresh, Window!Windows, Window!NoProbe
<1>10. CapturedHeld'
  <2> SUFFICES ASSUME NEW p \in captured
               PROVE  /\ p[1] \in Sessions /\ p[2] \in 1 .. turns
                      /\ <<opened, p[1]>> \in candidates
                      /\ verdict'[<<opened, p[1]>>] = "terminal" => live[p[1]] # p[2]
    BY <1>1, <1>3 DEF CapturedHeld
  <2>1. /\ p[1] \in Sessions /\ p[2] \in 1 .. turns
        /\ <<opened, p[1]>> \in candidates
        /\ verdict[<<opened, p[1]>>] = "terminal" => live[p[1]] # p[2]
    BY DEF WindowInv, CapturedHeld
  <2>2. p[2] # 0
    BY <2>1 DEF WindowInv, WindowTypes
  <2>3. verdict'[<<opened, p[1]>>] = IF p[1] = s THEN v ELSE verdict[<<opened, p[1]>>]
    BY <1>4, <1>6, <2>1
  <2> QED BY <1>5, <2>1, <2>2, <2>3
<1> QED BY <1>8, <1>9, <1>10 DEF WindowInv

\* Every step of MaintenanceWindow keeps its inductive invariant.
LEMMA WindowStep == ASSUME WindowInv, [Window!Next]_(Window!vars) PROVE WindowInv'
<1>1. ASSUME NEW x \in Sessions \cup Writers,
             Window!Submit(x) \/ Window!Act(x) \/ Window!GiveUp(x)
      PROVE  WindowInv'
  BY <1>1, WindowService
<1>2. ASSUME NEW w \in Writers, Window!WriterEnds(w) PROVE WindowInv'
  BY <1>2, WindowService
<1>3. ASSUME NEW s \in Sessions, Window!TurnEnds(s) \/ Window!Heard(s) PROVE WindowInv'
  BY <1>3, WindowService
<1>4. CASE Window!Begin
  BY <1>4, WindowBegin
<1>5. CASE Window!Cancel \/ Window!StartProbe
  BY <1>5, WindowOperator
<1>6. ASSUME NEW s \in Sessions, NEW answers \in BOOLEAN, Window!ProbeSession(s, answers)
      PROVE  WindowInv'
  BY <1>6, WindowProbe
<1>7. CASE UNCHANGED Window!vars
  BY <1>7 DEF Window!vars, WindowInv, WindowTypes, WindowFresh, CapturedHeld, LiveStarted,
              Window!Windows, Window!NoProbe
<1> QED BY <1>1, <1>2, <1>3, <1>4, <1>5, <1>6, <1>7 DEF Window!Next

\* The invariant of the maintenance window, on every behaviour: a verdict is never
\* carried into a later window, and terminal is only recorded of an ended turn.
THEOREM WindowInvariant == Window!Spec => []WindowInv
<1>1. Window!Init => WindowInv
  <2> SUFFICES ASSUME Window!Init PROVE WindowInv
    OBVIOUS
  <2>1. verdict \in [Window!Windows \X Sessions -> {"none", "active", "terminal", "unknown"}]
    BY DEF Window!Init
  <2>2. probe.at = 0
    BY DEF Window!Init, Window!NoProbe
  <2>3. WindowTypes
    <3>1. frozen \in BOOLEAN
      BY DEF Window!Init
    <3>2. opened \in Nat /\ windows \in 0 .. MaxWindows /\ turns \in Nat
      BY ServicesAssumption DEF Window!Init
    <3>3. live \in [Sessions -> Nat]
      BY DEF Window!Init
    <3> QED BY <2>1, <2>2, <3>1, <3>2, <3>3 DEF WindowTypes
  <2>4. \A n \in Window!Windows, s \in Sessions : verdict[<<n, s>>] = "none"
    BY DEF Window!Init
  <2>5. WindowFresh /\ CapturedHeld /\ LiveStarted
    BY <2>4 DEF Window!Init, WindowFresh, CapturedHeld, LiveStarted
  <2> QED BY <2>3, <2>5 DEF WindowInv
<1> QED BY <1>1, WindowStep, PTL DEF Window!Spec

\* assert_maintenance_window_ready lets apply and compact run only when every native turn
\* captured at the freeze has ended at its provider, for every number of sessions,
\* windows, turns and unanswered reads.
THEOREM ReadyAlwaysMeansEnded == Window!Spec => []ReadyMeansEnded
<1> QED BY WindowInvariant, WindowReady, PTL
-----------------------------------------------------------------------------
\* The run of all services is, service by service, a behaviour of each: what is proved
\* of a service's specification holds of the run.
THEOREM ServicesAreTheComponents == PartsSpec => Live!Spec /\ Outbox!Spec /\ Window!Spec
<1>1. PartsInit => Live!Init /\ Outbox!Init /\ Window!Init
  BY DEF PartsInit
<1>2. [PartsNext]_allVars => [Live!Next]_(Live!vars)
  BY DEF PartsNext, allVars, liveVars, Live!vars
<1>3. [PartsNext]_allVars => [Outbox!Next]_(Outbox!vars)
  BY DEF PartsNext, allVars, outboxVars, Outbox!vars
<1>4. [PartsNext]_allVars => [Window!Next]_(Window!vars)
  BY DEF PartsNext, allVars, windowVars, Window!vars
<1> QED BY <1>1, <1>2, <1>3, <1>4, PTL
        DEF PartsSpec, PartsFairness, Live!Spec, Outbox!Spec, Window!Spec
=============================================================================
