------------------------------- MODULE LiveHub -------------------------------
(***************************************************************************)
(* The worker live stream: WorkerLiveStreamHub (hub.py) and the SSE handler *)
(* that serves it (_send_sse).  One worker's runtime events have the ids    *)
(* 1 .. stored; a client is one browser page, which reconnects with the id  *)
(* of the last event it saw.  publish runs synchronously after an event is  *)
(* committed; the handler is suspended at every write.                      *)
(***************************************************************************)
EXTENDS Naturals, Sequences

CONSTANTS Clients,        \* pages that watch the worker
          MaxEvents,      \* bound: events of the worker
          MaxConnects,    \* bound: connections a page opens
          SnapshotLimit,  \* snapshot(limit = 500)
          QueueSize       \* asyncio.Queue(maxsize = 200)

VARIABLES stored,    \* number of the worker's events in the store
          phase,     \* of each page's connection: off, snapshot, live
          todo,      \* snapshot events the handler has read and not yet written
          queue,     \* the subscriber queue, while live
          latest,    \* the handler's latest, sent back by the browser as its cursor
          seen,      \* ids the page has received, in order, over all its connections
          connects   \* connections opened by each page

vars == <<stored, phase, todo, queue, latest, seen, connects>>

Ids == 1 .. MaxEvents

TypeOK ==
  /\ stored \in 0 .. MaxEvents
  /\ phase \in [Clients -> {"off", "snapshot", "live"}]
  /\ todo \in [Clients -> Seq(Ids)] /\ \A c \in Clients : Len(todo[c]) <= SnapshotLimit
  /\ queue \in [Clients -> Seq(Ids)] /\ \A c \in Clients : Len(queue[c]) <= QueueSize
  /\ latest \in [Clients -> 0 .. MaxEvents]
  /\ seen \in [Clients -> Seq(Ids)]
  /\ connects \in [Clients -> 0 .. MaxConnects]

Init ==
  /\ stored = 0
  /\ phase = [c \in Clients |-> "off"]
  /\ todo = [c \in Clients |-> <<>>] /\ queue = [c \in Clients |-> <<>>]
  /\ latest = [c \in Clients |-> 0] /\ seen = [c \in Clients |-> <<>>]
  /\ connects = [c \in Clients |-> 0]

(* list_by_agent_run_after: the first events past the cursor *)
Snapshot(after) ==
  [i \in 1 .. (IF stored - after < SnapshotLimit THEN stored - after ELSE SnapshotLimit)
     |-> after + i]

(* mutation: a full queue discards the event that is offered *)
OfferedDropsNew(q, e) == IF Len(q) < QueueSize THEN Append(q, e) ELSE q

(* _offer: a full queue loses its oldest event *)
Offered(q, e) == IF Len(q) < QueueSize THEN Append(q, e) ELSE Append(Tail(q), e)

(* an event is stored and published to the worker's subscribers *)
Publish ==
  /\ stored < MaxEvents
  /\ stored' = stored + 1
  /\ queue' = [c \in Clients |->
                 IF phase[c] = "live" THEN Offered(queue[c], stored') ELSE queue[c]]
  /\ UNCHANGED <<phase, todo, latest, seen, connects>>

(* the handler reads the snapshot past the cursor; an empty one is followed by the  *)
(* subscription at once                                                             *)
ConnectAfter(c, after) ==
  /\ phase[c] = "off" /\ connects[c] < MaxConnects
  /\ connects' = [connects EXCEPT ![c] = @ + 1]
  /\ todo' = [todo EXCEPT ![c] = Snapshot(after)]
  /\ phase' = [phase EXCEPT ![c] = IF Snapshot(after) = <<>> THEN "live" ELSE "snapshot"]
  /\ UNCHANGED <<stored, queue, latest, seen>>

(* mutation: Last-Event-ID is not read *)
ConnectAtStart(c) == ConnectAfter(c, 0)

(* a page connects, or reconnects with Last-Event-ID *)
Connect(c) == ConnectAfter(c, latest[c])

(* one snapshot event is written; other tasks run while the write drains *)
WriteSnapshot(c) ==
  /\ phase[c] = "snapshot" /\ todo[c] # <<>>
  /\ latest' = [latest EXCEPT ![c] = Head(todo[c])]
  /\ seen' = [seen EXCEPT ![c] = Append(@, Head(todo[c]))]
  /\ todo' = [todo EXCEPT ![c] = Tail(@)]
  /\ UNCHANGED <<stored, phase, queue, connects>>

(* the last write has drained: only now is the queue registered *)
Subscribe(c) ==
  /\ phase[c] = "snapshot" /\ todo[c] = <<>>
  /\ phase' = [phase EXCEPT ![c] = "live"]
  /\ UNCHANGED <<stored, todo, queue, latest, seen, connects>>

(* queue.get, the id check and the write *)
Deliver(c) ==
  /\ phase[c] = "live" /\ queue[c] # <<>>
  /\ queue' = [queue EXCEPT ![c] = Tail(@)]
  /\ LET e == Head(queue[c])
         new == e > latest[c] IN
       /\ latest' = IF new THEN [latest EXCEPT ![c] = e] ELSE latest
       /\ seen' = IF new THEN [seen EXCEPT ![c] = Append(@, e)] ELSE seen
  /\ UNCHANGED <<stored, phase, todo, connects>>

(* the connection ends: unsubscribe, what is queued is gone *)
Disconnect(c) ==
  /\ phase[c] # "off"
  /\ phase' = [phase EXCEPT ![c] = "off"]
  /\ todo' = [todo EXCEPT ![c] = <<>>]
  /\ queue' = [queue EXCEPT ![c] = <<>>]
  /\ UNCHANGED <<stored, latest, seen, connects>>

Next ==
  \/ Publish
  \/ \E c \in Clients :
       Connect(c) \/ WriteSnapshot(c) \/ Subscribe(c) \/ Deliver(c) \/ Disconnect(c)

(* the handler's task goes on while its connection lives *)
Serve(c) == WriteSnapshot(c) \/ Subscribe(c) \/ Deliver(c)

Fairness == \A c \in Clients : WF_vars(Serve(c))

Spec == Init /\ [][Next]_vars /\ Fairness
-----------------------------------------------------------------------------
(* "Events are ordered by ascending runtime event id": over all its connections,   *)
(* whatever was cut off or dropped, a page receives no event twice and none out of *)
(* order (the cursor of the reconnect and the id check of the live loop).          *)
InOrder == \A c \in Clients : \A i, j \in DOMAIN seen[c] : i < j => seen[c][i] < seen[c][j]

(* A slow page falls behind but catches up: an event published while its queue is   *)
(* registered is followed on that connection by an event at least as new, however   *)
(* often the queue overflowed in between (_offer drops the oldest, never the newest).*)
CatchesUp ==
  \A c \in Clients, e \in Ids :
    (phase[c] = "live" /\ stored = e /\ queue[c] # <<>>) ~> (latest[c] >= e \/ phase[c] # "live")
=============================================================================
