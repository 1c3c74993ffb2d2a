------------------------- MODULE TaskApprovalProofs -------------------------
(***************************************************************************)
(* Proofs about TaskApproval for every number of tasks, requests, handlers, *)
(* connections and losses: the types, and, if request ids are not used      *)
(* again and no other task asks during a run's prompt, that the flow        *)
(* implements ApprovalPromise, that a decision reaches its request and that *)
(* a waiting task has something to decide.                                  *)
(***************************************************************************)
EXTENDS TaskApproval, FiniteSetTheorems, TLAPS

Decided == {"approved", "denied", "cancelled"}

\* The request ids that have been used.
AskedRids == {asked[i].rid : i \in 1 .. Len(asked)}

\* The types, in parts; rows, events and handlers speak of requests that were made.
TypeAsked ==
    /\ made \in 0 .. MaxClients /\ client \in 0 .. made /\ alive \in SUBSET (1 .. made)
    /\ asked \in Seq(Request) /\ Len(asked) <= MaxAsked
    /\ \A i \in 1 .. Len(asked) : asked[i].client <= made

TypeHeld ==
    /\ held \in [Clients -> [Rids -> 0 .. Len(asked)]]
    /\ sending \in SUBSET [q : 1 .. Len(asked), a : Answers]

TypeEvents ==
    /\ events \in Seq(Event)
    /\ \A i \in 1 .. Len(events) : events[i].type = "requested" => events[i].q <= Len(asked)

TypeRows ==
    /\ rows \in [Tasks \X Rids -> RowType]
    /\ \A t \in Tasks, r \in Rids : rows[<<t, r>>].st # "none" => r \in AskedRids

TypeTasks ==
    /\ count \in [Tasks -> Nat]
    /\ st \in [Tasks -> {"running", "waiting_approval", "paused", "ended"}]
    /\ orch \in SUBSET Tasks /\ prompts \in SUBSET orch

TypeClicks ==
    /\ clicks \in [Handlers -> Click]
    /\ \A h \in Handlers : clicks[h] # Idle => clicks[h].todo \subseteq AskedRids
    /\ \A h \in Handlers : clicks[h].at = "initialize" => clicks[h].c \in 1 .. made

TypeInv == TypeAsked /\ TypeHeld /\ TypeEvents /\ TypeRows /\ TypeTasks /\ TypeClicks

-----------------------------------------------------------------------------
(* Facts about the tables *)

\* A row is absent, or has all its fields.
LEMMA RowFacts ==
    ASSUME NEW x \in RowType
    PROVE  /\ x.st = "none" <=> x = NoRow
           /\ x.st \in {"none", "pending"} \cup Decided
           /\ x.card => x.st # "none"
           /\ x.st # "none" => /\ x = [st |-> x.st, q |-> x.q, kind |-> x.kind, card |-> x.card]
                               /\ x.q \in Asked /\ x.kind \in RowKinds /\ x.card \in BOOLEAN
<1>1. CASE x = NoRow
  <2>1. x = [st |-> "none", q |-> 0, kind |-> "", card |-> FALSE]
    BY <1>1 DEF NoRow
  <2>2. x.st = "none" /\ x.card = FALSE
    BY <2>1
  <2> QED BY <1>1, <2>2
<1>2. CASE x \in [st : {"pending", "approved", "denied", "cancelled"}, q : Asked, kind : RowKinds,
                  card : BOOLEAN]
  <2>1. /\ x = [st |-> x.st, q |-> x.q, kind |-> x.kind, card |-> x.card]
        /\ x.st \in {"pending", "approved", "denied", "cancelled"}
        /\ x.q \in Asked /\ x.kind \in RowKinds /\ x.card \in BOOLEAN
    BY <1>2
  <2>2. NoRow.st = "none"
    BY DEF NoRow
  <2> QED BY <2>1, <2>2 DEF Decided
<1> QED BY <1>1, <1>2 DEF RowType

\* The pending rows of P get the status v; nothing else changes.
Becomes(R, P, v, Q) ==
    /\ Q \in [Tasks \X Rids -> RowType]
    /\ \A p \in Tasks \X Rids :
         /\ Q[p].q = R[p].q /\ Q[p].kind = R[p].kind
         /\ p \in P /\ R[p].st = "pending" => Q[p].st = v
         /\ p \notin P \/ R[p].st # "pending" => Q[p] = R[p]

\* UPDATE ... WHERE status = 'pending'.
LEMMA ResolvedFacts ==
    ASSUME NEW R \in [Tasks \X Rids -> RowType], NEW P, NEW v \in Decided,
           NEW Q, Q = Resolved(R, P, v)
    PROVE  Becomes(R, P, v, Q)
<1>1. Q = [p \in Tasks \X Rids |-> IF p \in P /\ R[p].st = "pending"
                                   THEN [R[p] EXCEPT !.st = v] ELSE R[p]]
  BY DEF Resolved
<1>2. ASSUME NEW p \in Tasks \X Rids
      PROVE  /\ Q[p] \in RowType
             /\ Q[p].q = R[p].q /\ Q[p].kind = R[p].kind
             /\ p \in P /\ R[p].st = "pending" => Q[p].st = v
             /\ p \notin P \/ R[p].st # "pending" => Q[p] = R[p]
  <2>1. R[p] \in RowType
    OBVIOUS
  <2>2. CASE p \in P /\ R[p].st = "pending"
    <3>1. Q[p] = [R[p] EXCEPT !.st = v]
      BY <1>1, <2>2
    <3>2. /\ R[p] = [st |-> R[p].st, q |-> R[p].q, kind |-> R[p].kind, card |-> R[p].card]
          /\ R[p].q \in Asked /\ R[p].kind \in RowKinds /\ R[p].card \in BOOLEAN
      BY <2>1, <2>2, RowFacts
    <3>3. Q[p] = [st |-> v, q |-> R[p].q, kind |-> R[p].kind, card |-> R[p].card]
      BY <3>1, <3>2
    <3>4. Q[p] \in RowType
      BY <3>2, <3>3 DEF RowType, Decided
    <3> QED BY <2>2, <3>3, <3>4
  <2>3. CASE ~(p \in P /\ R[p].st = "pending")
    BY <1>1, <2>1, <2>3
  <2> QED BY <2>2, <2>3
<1>3. Q \in [Tasks \X Rids -> RowType]
  BY <1>1, <1>2
<1> QED BY <1>2, <1>3 DEF Becomes

\* The projector's update, which knows approved and denied only.
LEMMA ProjectedFacts ==
    ASSUME NEW R \in [Tasks \X Rids -> RowType], NEW P, NEW a, NEW v,
           v = (IF a = "approve" THEN "approved" ELSE "denied"),
           NEW Q, Q = Projected(R, P, a)
    PROVE  Becomes(R, P, v, Q)
<1>1. v \in Decided
  BY DEF Decided
<1>2. Q = Resolved(R, P, v)
  BY DEF Projected
<1> QED BY <1>1, <1>2, ResolvedFacts

\* The events of a batch form a sequence of its events.
LEMMA SetToSeqType ==
    ASSUME NEW S, IsFiniteSet(S)
    PROVE  SetToSeq(S) \in Seq(S)
<1> DEFINE n == Cardinality(S)
<1>1. n \in Nat /\ ExistsBijection(1 .. n, S)
  BY FS_CardinalityType
<1>2. PICK f \in Bijection(1 .. n, S) : TRUE
  BY <1>1 DEF ExistsBijection
<1>3. f \in [1 .. n -> S] /\ IsInjective(f)
  BY <1>2 DEF Bijection, Injection, Surjection, IsInjective
<1>4. SetToSeq(S) \in [1 .. n -> S]
  BY <1>3 DEF SetToSeq
<1> HIDE DEF n
<1> QED BY <1>1, <1>4

\* The ids of the requests made so far are finitely many.
LEMMA AskedFinite ==
    ASSUME TypeAsked
    PROVE  IsFiniteSet(AskedRids) /\ AskedRids \subseteq Rids
<1>1. asked \in Seq(Request) /\ Len(asked) \in Nat
  BY DEF TypeAsked
<1>2. IsFiniteSet(1 .. Len(asked))
  <2>1. 1 \in Int /\ Len(asked) \in Int
    BY <1>1
  <2> QED BY <2>1, FS_Interval
<1>3. IsFiniteSet(AskedRids)
  <2> DEFINE f == [i \in 1 .. Len(asked) |-> asked[i].rid]
  <2>1. f \in Surjection(1 .. Len(asked), AskedRids)
    BY DEF Surjection, AskedRids
  <2> QED BY <1>2, <2>1, FS_Surjection
<1>4. AskedRids \subseteq Rids
  <2>1. \A i \in 1 .. Len(asked) : asked[i] \in Request
    BY <1>1
  <2> QED BY <2>1 DEF AskedRids, Request
<1> QED BY <1>3, <1>4

\* The meaning of an answer, as ApprovalPromise states it.
Means(a, v) ==
    \/ a = "approve" /\ v = "approved"
    \/ a = "deny" /\ v \in {"denied", "cancelled", "void"}
    \/ a = "cancel" /\ v \in {"denied", "cancelled"}

\* What the projector records of an answer.
Recorded(a) == IF a = "approve" THEN "approved" ELSE "denied"

\* What a button sends for a row of this kind agrees with what resolve_callback and the
\* projector record on it.
LEMMA ButtonFacts ==
    ASSUME NEW act \in Buttons, NEW kind
    PROVE  /\ AnswerOf(act, kind) \in Answers /\ StatusOf(act) \in Decided
           /\ Recorded(AnswerOf(act, kind)) \in Decided
           /\ \A x : x.kind = kind /\ x.st \in {StatusOf(act), Recorded(AnswerOf(act, kind))} =>
                 Means(AnswerOf(act, kind), Ruling(x))
<1>1. act \in {"approve_once", "approve_session", "deny", "cancel"}
  BY ApprovalAssumption
<1>2. /\ AnswerOf(act, kind) \in Answers /\ StatusOf(act) \in Decided
      /\ Recorded(AnswerOf(act, kind)) \in Decided
  BY <1>1 DEF AnswerOf, StatusOf, Answers, Decided, Recorded
<1>3. ASSUME NEW x, x.kind = kind, x.st \in {StatusOf(act), Recorded(AnswerOf(act, kind))}
      PROVE  Means(AnswerOf(act, kind), Ruling(x))
  BY <1>1, <1>3 DEF AnswerOf, StatusOf, Recorded, Means, Ruling, Permission
<1> QED BY <1>2, <1>3

\* What the handler k sends.
AnswerBy(k) == AnswerOf(k.act, rows[<<k.t, k.rid>>].kind)

\* The pending rows of the ids of M, of the task or of a run in its prompt, are decided.
RowsSent(M, k) ==
    \A t \in Tasks, r \in Rids :
        \/ rows'[<<t, r>>] = rows[<<t, r>>]
        \/ /\ rows[<<t, r>>].st = "pending" /\ \E m \in M : m[2] = r
           /\ t = k.t \/ t \in prompts
           /\ rows'[<<t, r>>].st \in Decided
           /\ rows[<<t, r>>].kind = rows[<<k.t, k.rid>>].kind =>
                Means(AnswerBy(k), Ruling(rows'[<<t, r>>]))
           /\ rows'[<<t, r>>].q = rows[<<t, r>>].q
           /\ rows'[<<t, r>>].kind = rows[<<t, r>>].kind

\* The futures of M are held no longer.
HeldSent(M) ==
    /\ held' \in [Clients -> [Rids -> 0 .. Len(asked)]]
    /\ \A c \in Clients, r \in Rids : held'[c][r] = IF <<c, r>> \in M THEN 0 ELSE held[c][r]

\* Their replies are on their way.
SendingSent(M, k) ==
    /\ sending' \in SUBSET [q : 1 .. Len(asked), a : Answers]
    /\ sending \subseteq sending'
    /\ \A s \in sending' : s \in sending \/ \E m \in M :
         s = [q |-> held[m[1]][m[2]], a |-> AnswerBy(k)] /\ s.q # 0
    /\ \A m \in M : held[m[1]][m[2]] # 0 =>
         [q |-> held[m[1]][m[2]], a |-> AnswerBy(k)] \in sending'

\* Their resolutions are queued.
EventsSent(M) ==
    /\ events' \in Seq(Event) /\ Len(events') >= Len(events)
    /\ \A i \in 1 .. Len(events) : events'[i] = events[i]
    /\ \A i \in 1 .. Len(events') : i > Len(events) =>
         events'[i].type = "resolved" /\ \E m \in M : events'[i].rid = m[2]

\* backend.resolve_approval for a set of held requests: the futures are resolved, the
\* responses are on their way, and the pending rows of these ids are decided alike.
LEMMA SentFacts ==
    ASSUME TypeInv, NEW M, M \subseteq Clients \X AskedRids, NEW k, k.t \in Tasks, k.act \in Buttons,
           Sent(M, k)
    PROVE  /\ HeldSent(M) /\ SendingSent(M, k) /\ EventsSent(M)
           /\ rows' \in [Tasks \X Rids -> RowType] /\ RowsSent(M, k)
           /\ \A m \in M : rows'[<<k.t, m[2]>>].st # "pending"
<1> DEFINE a    == AnswerBy(k)
           ids  == {m[2] : m \in M}
           hits == {held[m[1]][m[2]] : m \in M} \ {0}
           new  == {[type |-> "resolved", rid |-> r, a |-> a] : r \in ids}
           emit == SetToSeq(new)
<1>t. /\ held \in [Clients -> [Rids -> 0 .. Len(asked)]] /\ Len(asked) \in Nat
      /\ sending \in SUBSET [q : 1 .. Len(asked), a : Answers]
      /\ events \in Seq(Event) /\ rows \in [Tasks \X Rids -> RowType]
      /\ prompts \subseteq Tasks /\ IsFiniteSet(AskedRids) /\ AskedRids \subseteq Rids
  BY AskedFinite DEF TypeInv, TypeAsked, TypeHeld, TypeEvents, TypeRows, TypeTasks
<1>m. \A m \in M : m[1] \in Clients /\ m[2] \in AskedRids /\ m[2] \in Rids /\ m = <<m[1], m[2]>>
  BY <1>t
<1>a. /\ a \in Answers /\ StatusOf(k.act) \in Decided /\ Recorded(a) \in Decided
      /\ \A x : x.kind = rows[<<k.t, k.rid>>].kind /\ x.st \in {StatusOf(k.act), Recorded(a)} =>
            Means(a, Ruling(x))
  BY ButtonFacts DEF AnswerBy
<1>0. /\ held' = [c \in Clients |-> [r \in Rids |-> IF <<c, r>> \in M THEN 0 ELSE held[c][r]]]
      /\ sending' = sending \cup {[q |-> q, a |-> a] : q \in hits}
      /\ events' = events \o emit
      /\ rows' = Resolved(Projected(rows, prompts \X ids, a), {k.t} \X ids, StatusOf(k.act))
  BY DEF Sent, AnswerBy
<1> HIDE DEF a
<1>1. /\ held' \in [Clients -> [Rids -> 0 .. Len(asked)]]
      /\ \A c \in Clients, r \in Rids : held'[c][r] = IF <<c, r>> \in M THEN 0 ELSE held[c][r]
  <2>1. \A c \in Clients, r \in Rids :
          (IF <<c, r>> \in M THEN 0 ELSE held[c][r]) \in 0 .. Len(asked)
    BY <1>t
  <2> QED BY <1>0, <2>1
<1>2. /\ sending' \in SUBSET [q : 1 .. Len(asked), a : Answers]
      /\ sending \subseteq sending'
      /\ \A s \in sending' : s \in sending \/ \E m \in M :
           s = [q |-> held[m[1]][m[2]], a |-> a] /\ s.q # 0
      /\ \A m \in M : held[m[1]][m[2]] # 0 => [q |-> held[m[1]][m[2]], a |-> a] \in sending'
  <2>1. \A q \in hits : q \in 1 .. Len(asked)
    <3>1. \A m \in M : held[m[1]][m[2]] \in 0 .. Len(asked)
      BY <1>t, <1>m
    <3> QED BY <1>t, <3>1
  <2>2. \A q \in hits : [q |-> q, a |-> a] \in [q : 1 .. Len(asked), a : Answers]
    BY <1>a, <2>1
  <2>3. sending' \in SUBSET [q : 1 .. Len(asked), a : Answers] /\ sending \subseteq sending'
    BY <1>t, <1>0, <2>2
  <2>4. ASSUME NEW s \in sending', s \notin sending
        PROVE  \E m \in M : s = [q |-> held[m[1]][m[2]], a |-> a] /\ s.q # 0
    <3>1. PICK q \in hits : s = [q |-> q, a |-> a]
      BY <1>0, <2>4
    <3>2. PICK m \in M : q = held[m[1]][m[2]]
      OBVIOUS
    <3> QED BY <3>1, <3>2
  <2>5. ASSUME NEW m \in M, held[m[1]][m[2]] # 0
        PROVE  [q |-> held[m[1]][m[2]], a |-> a] \in sending'
    <3>1. held[m[1]][m[2]] \in hits
      BY <2>5
    <3> QED BY <1>0, <3>1
  <2> QED BY <2>3, <2>4, <2>5
<1>3. emit \in Seq(new)
  <2>1. ids \subseteq AskedRids
    BY <1>m
  <2>2. IsFiniteSet(ids)
    BY <1>t, <2>1, FS_Subset
  <2>3. IsFiniteSet(new)
    <3> DEFINE f == [r \in ids |-> [type |-> "resolved", rid |-> r, a |-> a]]
    <3>1. f \in Surjection(ids, new)
      BY DEF Surjection
    <3> HIDE DEF f, new
    <3> QED BY <2>2, <3>1, FS_Surjection
  <2> HIDE DEF new
  <2> QED BY <2>3, SetToSeqType
<1>4. \A e \in new : e \in Event /\ e.type = "resolved" /\ \E m \in M : e.rid = m[2]
  <2> SUFFICES ASSUME NEW m \in M
               PROVE  [type |-> "resolved", rid |-> m[2], a |-> a] \in Event
    OBVIOUS
  <2>1. m[2] \in Rids
    BY <1>m
  <2> QED BY <1>a, <2>1 DEF Event
<1>5. /\ events' \in Seq(Event) /\ Len(events') >= Len(events)
      /\ \A i \in 1 .. Len(events) : events'[i] = events[i]
      /\ \A i \in 1 .. Len(events') : i > Len(events) =>
           events'[i].type = "resolved" /\ \E m \in M : events'[i].rid = m[2]
  <2> HIDE DEF emit, new
  <2>1. emit \in Seq(Event) /\ \A i \in 1 .. Len(emit) : emit[i] \in new
    BY <1>3, <1>4
  <2>2. /\ events' \in Seq(Event) /\ Len(events') = Len(events) + Len(emit)
        /\ \A i \in 1 .. Len(events) : events'[i] = events[i]
        /\ \A i \in 1 .. Len(events') : i > Len(events) => events'[i] = emit[i - Len(events)]
    BY <1>t, <1>0, <2>1
  <2>3. Len(events) \in Nat /\ Len(emit) \in Nat
    BY <1>t, <2>1
  <2>4. \A i \in 1 .. Len(events') : i > Len(events) => i - Len(events) \in 1 .. Len(emit)
    BY <2>2, <2>3
  <2>5. \A i \in 1 .. Len(events') : i > Len(events) => events'[i] \in new
    BY <2>1, <2>2, <2>4
  <2> QED BY <1>4, <2>2, <2>3, <2>5
<1>6. PICK mid : mid = Projected(rows, prompts \X ids, a)
  OBVIOUS
<1>7. /\ mid \in [Tasks \X Rids -> RowType]
      /\ \A p \in Tasks \X Rids :
           /\ mid[p].q = rows[p].q /\ mid[p].kind = rows[p].kind
           /\ p \in prompts \X ids /\ rows[p].st = "pending" => mid[p].st = Recorded(a)
           /\ p \notin prompts \X ids \/ rows[p].st # "pending" => mid[p] = rows[p]
  <2>1. PICK P, x : P = prompts \X ids /\ x = Recorded(a)
    OBVIOUS
  <2>2. mid = Projected(rows, P, a)
    BY <1>6, <2>1
  <2>3. Becomes(rows, P, x, mid)
    BY <1>t, <2>1, <2>2, ProjectedFacts DEF Recorded
  <2> HIDE DEF ids
  <2> QED BY <2>1, <2>3 DEF Becomes
<1>8. /\ rows' \in [Tasks \X Rids -> RowType]
      /\ \A p \in Tasks \X Rids :
           /\ rows'[p].q = mid[p].q /\ rows'[p].kind = mid[p].kind
           /\ p \in {k.t} \X ids /\ mid[p].st = "pending" => rows'[p].st = StatusOf(k.act)
           /\ p \notin {k.t} \X ids \/ mid[p].st # "pending" => rows'[p] = mid[p]
  <2>1. PICK P, x : P = {k.t} \X ids /\ x = StatusOf(k.act)
    OBVIOUS
  <2>2. rows' = Resolved(mid, P, x) /\ x \in Decided /\ mid \in [Tasks \X Rids -> RowType]
    BY <1>a, <1>0, <1>6, <1>7, <2>1
  <2>3. Becomes(mid, P, x, rows')
    BY <2>2, ResolvedFacts
  <2> HIDE DEF ids
  <2> QED BY <2>1, <2>3 DEF Becomes
<1>9. ASSUME NEW t \in Tasks, NEW r \in Rids
      PROVE  \/ rows'[<<t, r>>] = rows[<<t, r>>]
             \/ /\ rows[<<t, r>>].st = "pending" /\ r \in ids
                /\ t = k.t \/ t \in prompts
                /\ rows'[<<t, r>>].st \in Decided
                /\ rows[<<t, r>>].kind = rows[<<k.t, k.rid>>].kind => Means(a, Ruling(rows'[<<t, r>>]))
                /\ rows'[<<t, r>>].q = rows[<<t, r>>].q
                /\ rows'[<<t, r>>].kind = rows[<<t, r>>].kind
  <2> HIDE DEF ids
  <2>1. <<t, r>> \in Tasks \X Rids
    OBVIOUS
  <2>2. "pending" \notin Decided
    BY DEF Decided
  <2>3. CASE <<t, r>> \in prompts \X ids /\ rows[<<t, r>>].st = "pending"
    BY <1>a, <1>7, <1>8, <2>1, <2>2, <2>3
  <2>4. CASE ~(<<t, r>> \in prompts \X ids /\ rows[<<t, r>>].st = "pending")
    <3>1. mid[<<t, r>>] = rows[<<t, r>>]
      BY <1>7, <2>1, <2>4
    <3> QED BY <1>a, <1>8, <2>1, <3>1
  <2> QED BY <2>3, <2>4
<1>10. ASSUME NEW m \in M PROVE rows'[<<k.t, m[2]>>].st # "pending"
  <2>1. m[2] \in ids /\ <<k.t, m[2]>> \in Tasks \X Rids /\ <<k.t, m[2]>> \in {k.t} \X ids
    BY <1>m
  <2>2. StatusOf(k.act) # "pending"
    BY <1>a DEF Decided
  <2> HIDE DEF ids
  <2> QED BY <1>8, <2>1, <2>2
<1> QED
  <2>1. \A r \in ids : \E m \in M : m[2] = r
    OBVIOUS
  <2> HIDE DEF ids
  <2>2. a = AnswerBy(k)
    BY DEF a
  <2>3. RowsSent(M, k)
    BY <1>9, <2>1, <2>2 DEF RowsSent
  <2>4. HeldSent(M)
    BY <1>1 DEF HeldSent
  <2>5. SendingSent(M, k)
    BY <1>2, <2>2 DEF SendingSent
  <2>6. EventsSent(M)
    BY <1>5 DEF EventsSent
  <2> QED BY <1>8, <1>10, <2>3, <2>4, <2>5, <2>6

-----------------------------------------------------------------------------
(* Types *)

\* The row that INSERT OR IGNORE adds.
Fresh(q, kind) == [st |-> "pending", q |-> q, kind |-> kind, card |-> FALSE]

\* INSERT OR IGNORE: only the row of the task and the id, and only if there is none.
LEMMA CreatedFacts ==
    ASSUME TypeRows, NEW t \in Tasks, NEW q \in Asked, NEW r \in Rids, NEW kind \in RowKinds,
           asked'[q].rid = r
    PROVE  /\ Created(rows, t, q, kind) \in [Tasks \X Rids -> RowType]
           /\ rows[<<t, r>>].st # "none" => Created(rows, t, q, kind) = rows
           /\ rows[<<t, r>>].st = "none" => Created(rows, t, q, kind)[<<t, r>>] = Fresh(q, kind)
           /\ \A p \in Tasks \X Rids : p # <<t, r>> => Created(rows, t, q, kind)[p] = rows[p]
<1>1. rows \in [Tasks \X Rids -> RowType]
  BY DEF TypeRows
<1>2. Fresh(q, kind) \in RowType
  BY DEF Fresh, RowType
<1>4. Created(rows, t, q, kind) = IF rows[<<t, r>>].st # "none" THEN rows
                            ELSE [rows EXCEPT ![<<t, r>>] = Fresh(q, kind)]
  BY DEF Created, Fresh
<1>5. CASE rows[<<t, r>>].st # "none"
  BY <1>1, <1>4, <1>5
<1>6. CASE rows[<<t, r>>].st = "none"
  <2>1. Created(rows, t, q, kind) = [rows EXCEPT ![<<t, r>>] = Fresh(q, kind)]
    BY <1>4, <1>6
  <2>2. <<t, r>> \in Tasks \X Rids
    OBVIOUS
  <2> QED BY <1>1, <1>2, <1>6, <2>1, <2>2
<1> QED BY <1>5, <1>6

\* The parts of TypeInv whose variables stay.
LEMMA TypeSame ==
    ASSUME TypeInv
    PROVE  /\ UNCHANGED <<made, client, alive, asked>> => TypeAsked'
           /\ UNCHANGED <<held, sending, asked>> => TypeHeld'
           /\ UNCHANGED <<events, asked>> => TypeEvents'
           /\ UNCHANGED <<rows, asked>> => TypeRows'
           /\ UNCHANGED <<count, st, orch, prompts>> => TypeTasks'
           /\ UNCHANGED <<clicks, asked, made>> => TypeClicks'
<1>0. TypeAsked /\ TypeHeld /\ TypeEvents /\ TypeRows /\ TypeTasks /\ TypeClicks
  BY DEF TypeInv
<1>1. UNCHANGED <<made, client, alive, asked>> => TypeAsked'
  BY <1>0 DEF TypeAsked
<1>2. UNCHANGED <<held, sending, asked>> => TypeHeld'
  BY <1>0 DEF TypeHeld
<1>3. UNCHANGED <<events, asked>> => TypeEvents'
  BY <1>0 DEF TypeEvents
<1>4. UNCHANGED <<rows, asked>> => TypeRows'
  BY <1>0 DEF TypeRows, AskedRids
<1>5. UNCHANGED <<count, st, orch, prompts>> => TypeTasks'
  BY <1>0 DEF TypeTasks
<1>6. UNCHANGED <<clicks, asked, made>> => TypeClicks'
  BY <1>0 DEF TypeClicks, AskedRids
<1> QED BY <1>1, <1>2, <1>3, <1>4, <1>5, <1>6

\* The parts of the state after a step make up the whole.
LEMMA TypeJoin ==
    ASSUME TypeAsked', TypeHeld', TypeEvents', TypeRows', TypeTasks', TypeClicks'
    PROVE  TypeInv'
    BY DEF TypeInv

\* Requests are only added, and only their replies change.
AskedKept ==
    /\ asked' \in Seq(Request) /\ Len(asked) <= Len(asked')
    /\ \A i \in 1 .. Len(asked) :
         /\ asked'[i].rid = asked[i].rid /\ asked'[i].task = asked[i].task
         /\ asked'[i].client = asked[i].client /\ asked'[i].kind = asked[i].kind

\* What speaks of earlier requests is not disturbed by that.
LEMMA TypeKept ==
    ASSUME TypeInv, AskedKept
    PROVE  /\ AskedRids \subseteq AskedRids'
           /\ UNCHANGED events => TypeEvents'
           /\ UNCHANGED rows => TypeRows'
           /\ UNCHANGED <<clicks, made>> => TypeClicks'
<1>0. TypeAsked /\ TypeEvents /\ TypeRows /\ TypeClicks
  BY DEF TypeInv
<1>1. Len(asked) \in Nat /\ Len(asked') \in Nat
  BY <1>0 DEF TypeAsked, AskedKept
<1>2. AskedRids \subseteq AskedRids'
  <2> SUFFICES ASSUME NEW i \in 1 .. Len(asked)
               PROVE  \E j \in 1 .. Len(asked') : asked[i].rid = asked'[j].rid
    BY DEF AskedRids
  <2>1. i \in 1 .. Len(asked') /\ asked[i].rid = asked'[i].rid
    BY <1>1 DEF AskedKept
  <2> QED BY <2>1
<1>3. UNCHANGED events => TypeEvents'
  <2> SUFFICES ASSUME events' = events PROVE TypeEvents'
    OBVIOUS
  <2>1. events \in Seq(Event)
    BY <1>0 DEF TypeEvents
  <2>2. ASSUME NEW i \in 1 .. Len(events), events[i].type = "requested"
        PROVE  events[i].q <= Len(asked')
    <3>1. events[i] \in Event
      BY <2>1
    <3>2. events[i].q \in Asked
      BY <2>2, <3>1 DEF Event
    <3>3. events[i].q <= Len(asked)
      BY <1>0, <2>2 DEF TypeEvents
    <3>4. events[i].q \in Nat
      BY <3>2 DEF Asked
    <3> QED BY <1>1, <3>3, <3>4 DEF AskedKept
  <2> QED BY <2>1, <2>2 DEF TypeEvents
<1>4. UNCHANGED rows => TypeRows'
  BY <1>0, <1>2 DEF TypeRows
<1>5. UNCHANGED <<clicks, made>> => TypeClicks'
  BY <1>0, <1>2 DEF TypeClicks
<1> QED BY <1>2, <1>3, <1>4, <1>5

\* Initially.
LEMMA TypeStart == Init => TypeInv
<1> SUFFICES ASSUME Init PROVE TypeInv
  OBVIOUS
<1>1. TypeAsked /\ TypeEvents
  BY ApprovalAssumption DEF Init, TypeAsked, TypeEvents
<1>2. TypeHeld
  BY DEF Init, TypeHeld
<1>3. TypeRows
  <2>1. NoRow \in RowType /\ NoRow.st = "none"
    BY DEF RowType, NoRow
  <2> QED BY <2>1 DEF Init, TypeRows
<1>4. TypeTasks
  BY DEF Init, TypeTasks
<1>5. TypeClicks
  <2>1. Idle \in Click /\ Idle.at = "idle"
    BY DEF Idle, Click
  <2> QED BY <2>1 DEF Init, TypeClicks
<1> QED BY <1>1, <1>2, <1>3, <1>4, <1>5 DEF TypeInv

\* A handler at work has all its fields.
LEMMA ClickFacts ==
    ASSUME NEW k \in Click
    PROVE  /\ k = Idle <=> k.at = "idle"
           /\ k # Idle =>
                /\ k.at \in {"connect", "initialize", "interrupt"} /\ k.t \in Tasks /\ k.rid \in Rids
                /\ k.act \in Buttons /\ k.c \in 0 .. MaxClients /\ k.own \in BOOLEAN
                /\ k.todo \in SUBSET Rids
                /\ k = [at |-> k.at, t |-> k.t, rid |-> k.rid, act |-> k.act, c |-> k.c,
                        own |-> k.own, todo |-> k.todo]
<1>1. CASE k = Idle
  BY <1>1 DEF Idle
<1>2. CASE k \in [at : {"connect", "initialize", "interrupt"}, t : Tasks, rid : Rids, act : Buttons,
                  c : 0 .. MaxClients, own : BOOLEAN, todo : SUBSET Rids]
  <2>1. /\ k.at \in {"connect", "initialize", "interrupt"} /\ k.t \in Tasks /\ k.rid \in Rids
        /\ k.act \in Buttons /\ k.c \in 0 .. MaxClients /\ k.own \in BOOLEAN
        /\ k.todo \in SUBSET Rids
        /\ k = [at |-> k.at, t |-> k.t, rid |-> k.rid, act |-> k.act, c |-> k.c,
                own |-> k.own, todo |-> k.todo]
    BY <1>2
  <2>2. Idle.at = "idle"
    BY DEF Idle
  <2> QED BY <2>1, <2>2
<1> QED BY <1>1, <1>2 DEF Click

\* The other pending commands of the task.
LEMMA BatchFacts ==
    ASSUME TypeInv, NEW k, k.t \in Tasks
    PROVE  /\ Batch(k) \subseteq AskedRids
           /\ \A r \in Batch(k) : /\ r \in Rids /\ r # k.rid /\ rows[<<k.t, r>>].st = "pending"
                                  /\ rows[<<k.t, r>>].kind = rows[<<k.t, k.rid>>].kind
<1>1. \A r \in Batch(k) : /\ r \in Rids /\ r # k.rid /\ rows[<<k.t, r>>].st = "pending"
                         /\ rows[<<k.t, r>>].kind = rows[<<k.t, k.rid>>].kind
  BY DEF Batch, Pending
<1>2. \A r \in Rids : rows[<<k.t, r>>].st # "none" => r \in AskedRids
  BY DEF TypeInv, TypeRows
<1> QED BY <1>1, <1>2

\* What Resolve sends on which client.
Targets(c, r, now) == {<<c, r>>} \cup ({client} \X now)

LEMMA TargetsType ==
    ASSUME TypeInv, NEW c \in Clients, NEW r \in AskedRids, NEW rest \in SUBSET AskedRids, NEW now,
           now = (IF client = 0 THEN {} ELSE rest)
    PROVE  /\ Targets(c, r, now) \subseteq Clients \X AskedRids
           /\ \A m \in Targets(c, r, now) : m = <<c, r>> \/ (client # 0 /\ m[1] = client /\ m[2] \in rest)
           /\ 1 + Cardinality(now) \in Nat
<1>1. client \in 0 .. made /\ made \in 0 .. MaxClients /\ IsFiniteSet(AskedRids)
  BY AskedFinite DEF TypeInv, TypeAsked
<1>2. client # 0 => client \in Clients
  BY <1>1, ApprovalAssumption DEF Clients
<1>3. now \subseteq AskedRids
  OBVIOUS
<1>4. Cardinality(now) \in Nat
  BY <1>1, <1>3, FS_Subset, FS_CardinalityType
<1>5. 1 + Cardinality(now) \in Nat
  BY <1>4
<1>6. \A m \in Targets(c, r, now) : m = <<c, r>> \/ (client # 0 /\ m[1] = client /\ m[2] \in rest)
  <2> TAKE m \in Targets(c, r, now)
  <2>1. CASE m # <<c, r>>
    <3>1. m \in {client} \X now
      BY <2>1 DEF Targets
    <3>2. m[1] = client /\ m[2] \in now
      BY <3>1
    <3> QED BY <3>2
  <2> QED BY <2>1
<1>7. Targets(c, r, now) \subseteq Clients \X AskedRids
  <2>1. CASE client = 0
    BY <2>1 DEF Targets
  <2>2. CASE client # 0
    BY <1>2, <1>3, <2>2 DEF Targets
  <2> QED BY <2>1, <2>2
<1> QED BY <1>5, <1>6, <1>7

\* resolve_callback and the batch after it.
LEMMA ResolveType ==
    ASSUME TypeInv, NEW h \in Handlers, NEW k \in Click, k # Idle, k.todo \subseteq AskedRids,
           NEW c \in Clients, Resolve(h, k, c)
    PROVE  TypeInv'
<1>k. /\ k.t \in Tasks /\ k.rid \in Rids /\ k.act \in Buttons /\ k.c \in 0 .. MaxClients
      /\ k.own \in BOOLEAN /\ k.todo \in SUBSET Rids
      /\ k = [at |-> k.at, t |-> k.t, rid |-> k.rid, act |-> k.act, c |-> k.c,
              own |-> k.own, todo |-> k.todo]
  BY ClickFacts
<1>0. TypeAsked /\ TypeEvents /\ TypeRows /\ TypeTasks /\ TypeClicks
  BY DEF TypeInv
<1>1. PICK r, rest, now :
        /\ r \in k.todo
        /\ rest = (IF k.own THEN Batch(k) ELSE k.todo \ {r})
        /\ now = (IF client = 0 THEN {} ELSE rest)
        /\ Sent(Targets(c, r, now), k)
        /\ \/ /\ clicks' = [clicks EXCEPT ![h] = [k EXCEPT !.at = "interrupt", !.c = client]]
              /\ UNCHANGED <<count, st>>
           \/ /\ count' = Decremented(k.t, 1 + Cardinality(now))
              /\ IF rest = now
                 THEN clicks' = [clicks EXCEPT ![h] = Idle] /\ st' = Released(k.t, rows')
                 ELSE /\ clicks' = [clicks EXCEPT ![h] =
                                      [k EXCEPT !.at = "connect", !.own = FALSE, !.todo = rest]]
                      /\ UNCHANGED st
        /\ UNCHANGED <<client, alive, made, asked, orch, prompts>>
  BY DEF Resolve, Targets
<1>2. rest \subseteq AskedRids /\ r \in AskedRids
  BY <1>k, <1>1, BatchFacts
<1>3. /\ Targets(c, r, now) \subseteq Clients \X AskedRids
      /\ 1 + Cardinality(now) \in Nat
  BY <1>1, <1>2, TargetsType
<1>m. PICK M : M = Targets(c, r, now)
  OBVIOUS
<1>s. Sent(M, k) /\ M \subseteq Clients \X AskedRids
  BY <1>1, <1>3, <1>m
<1>4. TypeAsked'
  BY <1>0, <1>1 DEF TypeAsked
<1>5. TypeHeld'
  <2>1. asked' = asked
    BY <1>1
  <2>2. /\ held' \in [Clients -> [Rids -> 0 .. Len(asked)]]
        /\ sending' \in SUBSET [q : 1 .. Len(asked), a : Answers]
    BY <1>k, <1>s, SentFacts DEF HeldSent, SendingSent
  <2> QED BY <2>1, <2>2 DEF TypeHeld
<1>6. TypeEvents'
  <2>1. asked' = asked
    BY <1>1
  <2>2. /\ events' \in Seq(Event) /\ Len(events') >= Len(events)
        /\ \A i \in 1 .. Len(events) : events'[i] = events[i]
        /\ \A i \in 1 .. Len(events') : i > Len(events) => events'[i].type = "resolved"
    <3>1. EventsSent(M)
      BY <1>k, <1>s, SentFacts
    <3> QED BY <3>1 DEF EventsSent
  <2>3. events \in Seq(Event) /\ Len(events) \in Nat /\ Len(events') \in Nat
    BY <1>0, <2>2 DEF TypeEvents
  <2>4. ASSUME NEW i \in 1 .. Len(events'), events'[i].type = "requested"
        PROVE  events'[i].q <= Len(asked)
    <3>1. i \in 1 .. Len(events) /\ events'[i] = events[i]
      BY <2>2, <2>3, <2>4
    <3> QED BY <1>0, <2>4, <3>1 DEF TypeEvents
  <2> QED BY <2>1, <2>2, <2>4 DEF TypeEvents
<1>7. TypeRows'
  <2>1. AskedRids' = AskedRids
    BY <1>1 DEF AskedRids
  <2>2. rows' \in [Tasks \X Rids -> RowType]
    BY <1>k, <1>s, SentFacts
  <2>3. ASSUME NEW t \in Tasks, NEW x \in Rids, rows'[<<t, x>>].st # "none"
        PROVE  x \in AskedRids
    <3>0. RowsSent(M, k)
      BY <1>k, <1>s, SentFacts
    <3>1. rows'[<<t, x>>] = rows[<<t, x>>] \/ rows[<<t, x>>].st = "pending"
      BY <3>0 DEF RowsSent
    <3>2. rows[<<t, x>>].st # "none"
      BY <2>3, <3>1
    <3> QED BY <1>0, <3>2 DEF TypeRows
  <2> QED BY <2>1, <2>2, <2>3 DEF TypeRows
<1>8. TypeTasks'
  <2>1. /\ count \in [Tasks -> Nat] /\ orch \in SUBSET Tasks /\ prompts \in SUBSET orch
        /\ st \in [Tasks -> {"running", "waiting_approval", "paused", "ended"}]
    BY <1>0 DEF TypeTasks
  <2>2. Decremented(k.t, 1 + Cardinality(now)) \in [Tasks -> Nat]
    BY <1>k, <1>3, <2>1 DEF Decremented
  <2>3. Released(k.t, rows') \in [Tasks -> {"running", "waiting_approval", "paused", "ended"}]
    BY <1>k, <2>1 DEF Released
  <2>4. count' \in [Tasks -> Nat] /\ st' \in [Tasks -> {"running", "waiting_approval", "paused", "ended"}]
    BY <1>1, <2>1, <2>2, <2>3
  <2>5. orch' = orch /\ prompts' = prompts
    BY <1>1
  <2> QED BY <2>1, <2>4, <2>5 DEF TypeTasks
<1>9. TypeClicks'
  <2>1. AskedRids' = AskedRids /\ AskedRids \subseteq Rids
    BY <1>0, <1>1, AskedFinite DEF AskedRids
  <2>2. client \in 0 .. MaxClients
    BY <1>0, ApprovalAssumption DEF TypeAsked
  <2>3. PICK x : clicks' = [clicks EXCEPT ![h] = x] /\
                 \/ x = Idle
                 \/ x = [k EXCEPT !.at = "interrupt", !.c = client]
                 \/ x = [k EXCEPT !.at = "connect", !.own = FALSE, !.todo = rest]
    BY <1>1
  <2>4. x \in Click /\ (x # Idle => x.todo \subseteq AskedRids) /\ x.at # "initialize"
    <3>1. CASE x = Idle
      BY <3>1 DEF Click, Idle
    <3>2. CASE x = [k EXCEPT !.at = "interrupt", !.c = client]
      <4>1. x = [at |-> "interrupt", t |-> k.t, rid |-> k.rid, act |-> k.act, c |-> client,
                 own |-> k.own, todo |-> k.todo]
        BY <1>k, <3>2
      <4> QED BY <1>k, <2>2, <4>1 DEF Click
    <3>3. CASE x = [k EXCEPT !.at = "connect", !.own = FALSE, !.todo = rest]
      <4>1. x = [at |-> "connect", t |-> k.t, rid |-> k.rid, act |-> k.act, c |-> k.c,
                 own |-> FALSE, todo |-> rest]
        BY <1>k, <3>3
      <4>2. rest \in SUBSET Rids
        BY <1>2, <2>1
      <4> QED BY <1>k, <1>2, <4>1, <4>2 DEF Click
    <3> QED BY <2>3, <3>1, <3>2, <3>3
  <2>5. made' = made
    BY <1>1
  <2> QED BY <1>0, <2>1, <2>3, <2>4, <2>5 DEF TypeClicks
<1> QED BY <1>4, <1>5, <1>6, <1>7, <1>8, <1>9, TypeJoin

\* A server request arrives.
LEMMA AskKept ==
    ASSUME TypeInv, NEW c \in Clients, NEW t \in Tasks, NEW r \in Rids, NEW k \in Kinds, Ask(c, t, r, k)
    PROVE  /\ AskedKept /\ Len(asked') = Len(asked) + 1 /\ Len(asked') \in Asked
           /\ asked'[Len(asked')] = [client |-> c, rid |-> r, task |-> t, kind |-> k, reply |-> "open"]
           /\ \A i \in 1 .. Len(asked) : asked'[i] = asked[i]
<1>1. asked \in Seq(Request) /\ Len(asked) \in Nat
  BY DEF TypeInv, TypeAsked
<1>2. PICK x : x = [client |-> c, rid |-> r, task |-> t, kind |-> k, reply |-> "open"]
  OBVIOUS
<1>3. x \in Request
  BY <1>2 DEF Request
<1>4. asked' = Append(asked, x) /\ Len(asked) + 1 \in Asked
  BY <1>2 DEF Ask
<1>5. /\ asked' \in Seq(Request) /\ Len(asked') = Len(asked) + 1
      /\ asked'[Len(asked')] = x /\ \A i \in 1 .. Len(asked) : asked'[i] = asked[i]
  BY <1>1, <1>3, <1>4
<1> QED BY <1>1, <1>2, <1>4, <1>5 DEF AskedKept

\* What the projector keeps of a request's kind.
Recalled(k) == IF k = "permissions" THEN "bare" ELSE k

\* The rows of the new request that runs in their prompt record at once.
RowsAsked(r, k) ==
    \A u \in Tasks, x \in Rids :
        \/ rows'[<<u, x>>] = rows[<<u, x>>]
        \/ /\ u \in prompts /\ x = r /\ rows[<<u, x>>].st = "none"
           /\ rows'[<<u, x>>] = Fresh(Len(asked'), Recalled(k))

LEMMA AskRows ==
    ASSUME TypeInv, NEW c \in Clients, NEW t \in Tasks, NEW r \in Rids, NEW k \in Kinds, Ask(c, t, r, k)
    PROVE  rows' \in [Tasks \X Rids -> RowType] /\ RowsAsked(r, k)
<1>1. TypeRows /\ prompts \subseteq Tasks /\ rows \in [Tasks \X Rids -> RowType] /\ Len(asked) \in Nat
  BY DEF TypeInv, TypeAsked, TypeRows, TypeTasks
<1>2. PICK q : q = Len(asked) + 1
  OBVIOUS
<1>3. /\ q \in Asked /\ q = Len(asked') /\ asked'[q].rid = r
  <2>1. /\ Len(asked') = Len(asked) + 1 /\ Len(asked') \in Asked
        /\ asked'[Len(asked')] = [client |-> c, rid |-> r, task |-> t, kind |-> k, reply |-> "open"]
    BY AskKept
  <2> QED BY <1>2, <2>1
<1>4. rows' = [p \in Tasks \X Rids |->
                 IF p[1] \in prompts /\ p[2] = r THEN Created(rows, p[1], q, Recalled(k))[p] ELSE rows[p]]
  BY <1>1, <1>2 DEF Ask, Recalled
<1>k. Recalled(k) \in RowKinds
  BY DEF Recalled, RowKinds
<1>5. ASSUME NEW u \in Tasks, NEW x \in Rids
      PROVE  /\ rows'[<<u, x>>] \in RowType
             /\ \/ rows'[<<u, x>>] = rows[<<u, x>>]
                \/ /\ u \in prompts /\ x = r /\ rows[<<u, x>>].st = "none"
                   /\ rows'[<<u, x>>] = Fresh(q, Recalled(k))
  <2>1. PICK p : p = <<u, x>>
    OBVIOUS
  <2>2. p \in Tasks \X Rids /\ p[1] = u /\ p[2] = x
    BY <2>1
  <2>3. CASE u \in prompts /\ x = r
    <3>1. rows'[p] = Created(rows, u, q, Recalled(k))[p]
      BY <1>4, <2>2, <2>3
    <3>2. PICK C : C = Created(rows, u, q, Recalled(k))
      OBVIOUS
    <3>3. /\ C \in [Tasks \X Rids -> RowType]
          /\ rows[<<u, r>>].st # "none" => C = rows
          /\ rows[<<u, r>>].st = "none" => C[<<u, r>>] = Fresh(q, Recalled(k))
      BY <1>1, <1>3, <1>k, <3>2, CreatedFacts
    <3>4. C[p] \in RowType
      BY <2>2, <3>3
    <3> QED BY <2>1, <2>3, <3>1, <3>2, <3>3, <3>4
  <2>4. CASE ~(u \in prompts /\ x = r)
    <3>1. rows'[p] = rows[p]
      BY <1>4, <2>2, <2>4
    <3> QED BY <1>1, <2>1, <2>2, <3>1
  <2> QED BY <2>3, <2>4
<1>6. rows' \in [Tasks \X Rids -> RowType]
  <2>1. \A p \in Tasks \X Rids : rows'[p] \in RowType
    <3> TAKE p \in Tasks \X Rids
    <3>1. p[1] \in Tasks /\ p[2] \in Rids /\ p = <<p[1], p[2]>>
      OBVIOUS
    <3>2. rows'[<<p[1], p[2]>>] \in RowType
      BY <1>5, <3>1
    <3> QED BY <3>1, <3>2
  <2>2. rows' = [p \in Tasks \X Rids |-> rows'[p]]
    BY <1>4
  <2> QED BY <2>1, <2>2
<1> QED BY <1>3, <1>5, <1>6 DEF RowsAsked

LEMMA AskType ==
    ASSUME TypeInv, NEW c \in Clients, NEW t \in Tasks, NEW r \in Rids, NEW k \in Kinds, Ask(c, t, r, k)
    PROVE  TypeInv'
<1>0. TypeAsked /\ TypeHeld /\ TypeEvents /\ TypeRows /\ TypeTasks /\ TypeClicks
  BY DEF TypeInv
<1>1. /\ AskedKept /\ Len(asked') = Len(asked) + 1 /\ Len(asked') \in Asked
      /\ asked'[Len(asked')] = [client |-> c, rid |-> r, task |-> t, kind |-> k, reply |-> "open"]
      /\ \A i \in 1 .. Len(asked) : asked'[i] = asked[i]
  BY AskKept
<1>2. /\ UNCHANGED <<client, alive, made, sending, count, st, orch, prompts, clicks>>
      /\ c \in alive /\ held' = [held EXCEPT ![c][r] = Len(asked')]
      /\ events' = Append(events, [type |-> "requested", q |-> Len(asked')])
  BY <1>1 DEF Ask
<1>3. Len(asked) \in Nat
  BY <1>0 DEF TypeAsked
<1>4. TypeAsked'
  <2>1. /\ made \in 0 .. MaxClients /\ client \in 0 .. made /\ alive \in SUBSET (1 .. made)
        /\ \A i \in 1 .. Len(asked) : asked[i].client <= made
    BY <1>0 DEF TypeAsked
  <2>2. c \in 1 .. made
    BY <1>2, <2>1
  <2>3. Len(asked') <= MaxAsked
    BY <1>1, ApprovalAssumption DEF Asked
  <2>4. \A i \in 1 .. Len(asked') : i \in 1 .. Len(asked) \/ i = Len(asked')
    BY <1>1, <1>3
  <2>5. ASSUME NEW i \in 1 .. Len(asked') PROVE asked'[i].client <= made
    BY <1>1, <2>1, <2>2, <2>4
  <2> QED BY <1>1, <1>2, <2>1, <2>3, <2>5 DEF TypeAsked, AskedKept
<1>5. TypeHeld'
  <2>1. /\ held \in [Clients -> [Rids -> 0 .. Len(asked)]]
        /\ sending \in SUBSET [q : 1 .. Len(asked), a : Answers]
    BY <1>0 DEF TypeHeld
  <2>2. 0 .. Len(asked) \subseteq 0 .. Len(asked') /\ Len(asked') \in 0 .. Len(asked')
        /\ 1 .. Len(asked) \subseteq 1 .. Len(asked')
    BY <1>1, <1>3
  <2>3. held \in [Clients -> [Rids -> 0 .. Len(asked')]]
    BY <2>1, <2>2
  <2>4. held' \in [Clients -> [Rids -> 0 .. Len(asked')]]
    BY <1>2, <2>2, <2>3
  <2>5. sending' \in SUBSET [q : 1 .. Len(asked'), a : Answers]
    BY <1>2, <2>1, <2>2
  <2> QED BY <2>4, <2>5 DEF TypeHeld
<1>6. TypeEvents'
  <2>1. events \in Seq(Event)
    BY <1>0 DEF TypeEvents
  <2>2. PICK e : e = [type |-> "requested", q |-> Len(asked')]
    OBVIOUS
  <2>3. e \in Event /\ e.q <= Len(asked')
    BY <1>1, <1>3, <2>2 DEF Event
  <2>4. events' = Append(events, e)
    BY <1>2, <2>2
  <2>5. /\ events' \in Seq(Event) /\ Len(events') = Len(events) + 1 /\ Len(events) \in Nat
        /\ events'[Len(events')] = e /\ \A i \in 1 .. Len(events) : events'[i] = events[i]
    BY <2>1, <2>3, <2>4
  <2>6. ASSUME NEW i \in 1 .. Len(events'), events'[i].type = "requested"
        PROVE  events'[i].q <= Len(asked')
    <3>1. CASE i = Len(events')
      BY <2>3, <2>5, <3>1
    <3>2. CASE i # Len(events')
      <4>1. i \in 1 .. Len(events) /\ events'[i] = events[i]
        BY <2>5, <3>2
      <4>2. events[i] \in Event /\ events[i].q <= Len(asked)
        BY <1>0, <2>1, <2>6, <4>1 DEF TypeEvents
      <4>3. events[i].q \in Nat
        BY <2>6, <4>1, <4>2 DEF Event, Asked
      <4> QED BY <1>1, <1>3, <4>1, <4>2, <4>3
    <3> QED BY <3>1, <3>2
  <2> QED BY <2>5, <2>6 DEF TypeEvents
<1>7. TypeRows'
  <2>1. AskedRids \subseteq AskedRids'
    BY <1>1, TypeKept
  <2>2. r \in AskedRids'
    <3>1. Len(asked') \in 1 .. Len(asked') /\ asked'[Len(asked')].rid = r
      BY <1>1, <1>3
    <3> QED BY <3>1 DEF AskedRids
  <2>3. rows' \in [Tasks \X Rids -> RowType] /\ RowsAsked(r, k)
    BY AskRows
  <2>4. \A u \in Tasks, x \in Rids : rows'[<<u, x>>] = rows[<<u, x>>] \/ x = r
    BY <2>3 DEF RowsAsked
  <2> QED BY <1>0, <2>1, <2>2, <2>3, <2>4 DEF TypeRows
<1>8. TypeTasks' /\ TypeClicks'
  <2>1. UNCHANGED <<count, st, orch, prompts>> /\ UNCHANGED <<clicks, made>>
    BY <1>2
  <2> QED BY <1>1, <2>1, TypeSame, TypeKept
<1> QED BY <1>4, <1>5, <1>6, <1>7, <1>8, TypeJoin

\* The row of the request exists afterwards; if it existed, only its card changes.
RowsProcessed(t, r, q, kind) ==
    /\ rows' \in [Tasks \X Rids -> RowType]
    /\ \A p \in Tasks \X Rids : p # <<t, r>> => rows'[p] = rows[p]
    /\ rows[<<t, r>>].st = "none" =>
         rows'[<<t, r>>].st = "pending" /\ rows'[<<t, r>>].q = q /\ rows'[<<t, r>>].kind = kind
    /\ rows[<<t, r>>].st # "none" =>
         /\ rows'[<<t, r>>].st = rows[<<t, r>>].st /\ rows'[<<t, r>>].q = rows[<<t, r>>].q
         /\ rows'[<<t, r>>].kind = rows[<<t, r>>].kind

\* apply_backend_event with an approval_requested event.
RequestTaken(q, t, r, kind) ==
    /\ events # <<>> /\ events[1].type = "requested" /\ events[1].q = q
    /\ q \in 1 .. Len(asked) /\ t \in Tasks /\ r \in Rids /\ kind \in Kinds
    /\ asked[q].task = t /\ asked[q].rid = r /\ asked[q].kind = kind
    /\ RowsProcessed(t, r, q, kind)
    /\ events' = Tail(events)
    /\ count' = [count EXCEPT ![t] = IF rows[<<t, r>>].st = "none" THEN @ + 1 ELSE @]
    /\ st' = [st EXCEPT ![t] = IF @ \in {"paused", "ended"} THEN @ ELSE "waiting_approval"]
    /\ UNCHANGED <<client, alive, made, asked, held, sending, orch, prompts, clicks>>

LEMMA RequestFacts ==
    ASSUME TypeInv, RequestProcessed
    PROVE  \E q, t, r, kind : RequestTaken(q, t, r, kind)
<1>0. /\ events \in Seq(Event) /\ asked \in Seq(Request) /\ Len(asked) \in Nat /\ TypeRows
      /\ rows \in [Tasks \X Rids -> RowType] /\ Len(asked) <= MaxAsked
  BY DEF TypeInv, TypeEvents, TypeAsked, TypeRows
<1>1. events # <<>> /\ Head(events).type = "requested"
  BY DEF RequestProcessed
<1>2. Head(events) = events[1] /\ 1 \in 1 .. Len(events) /\ events[1] \in Event
  BY <1>0, <1>1
<1>3. PICK q, t, r, kind : q = events[1].q /\ t = asked[q].task /\ r = asked[q].rid /\ kind = asked[q].kind
  OBVIOUS
<1>4. q \in Asked
  BY <1>1, <1>2, <1>3 DEF Event
<1>5. q \in 1 .. Len(asked)
  <2>1. q <= Len(asked)
    BY <1>1, <1>2, <1>3 DEF TypeInv, TypeEvents
  <2> QED BY <1>0, <1>4, <2>1 DEF Asked
<1>6. t \in Tasks /\ r \in Rids /\ kind \in Kinds
  <2>1. asked[q] \in Request
    BY <1>0, <1>5
  <2> QED BY <1>3, <2>1 DEF Request
<1>7. PICK R : R = Created(rows, t, q, kind)
  OBVIOUS
<1>8. /\ asked' = asked /\ events' = Tail(events)
      /\ count' = [count EXCEPT ![t] = IF rows[<<t, r>>].st = "none" THEN @ + 1 ELSE @]
      /\ st' = [st EXCEPT ![t] = IF @ \in {"paused", "ended"} THEN @ ELSE "waiting_approval"]
      /\ rows' = [R EXCEPT ![<<t, r>>].card = st[t] # "ended" \/ @]
      /\ UNCHANGED <<client, alive, made, asked, held, sending, orch, prompts, clicks>>
  BY <1>2, <1>3, <1>7 DEF RequestProcessed
<1>9. /\ R \in [Tasks \X Rids -> RowType]
      /\ rows[<<t, r>>].st # "none" => R = rows
      /\ rows[<<t, r>>].st = "none" => R[<<t, r>>] = Fresh(q, kind)
      /\ \A p \in Tasks \X Rids : p # <<t, r>> => R[p] = rows[p]
  <2>1. asked'[q].rid = r /\ kind \in RowKinds
    BY <1>3, <1>6, <1>8 DEF RowKinds
  <2> QED BY <1>0, <1>4, <1>6, <1>7, <2>1, CreatedFacts
<1>10. R[<<t, r>>] \in RowType /\ R[<<t, r>>].st # "none"
  BY <1>6, <1>9 DEF Fresh
<1>11. PICK x : x = [R[<<t, r>>] EXCEPT !.card = st[t] # "ended" \/ @]
  OBVIOUS
<1>12. x.st = R[<<t, r>>].st /\ x.q = R[<<t, r>>].q /\ x.kind = R[<<t, r>>].kind /\ x \in RowType
  <2>1. PICK y : y = R[<<t, r>>]
    OBVIOUS
  <2>2. /\ y = [st |-> y.st, q |-> y.q, kind |-> y.kind, card |-> y.card]
        /\ y.q \in Asked /\ y.kind \in RowKinds /\ y.card \in BOOLEAN
        /\ y.st \in {"none", "pending"} \cup Decided /\ y.st # "none"
    BY <1>10, <2>1, RowFacts
  <2>3. PICK b \in BOOLEAN : b = (st[t] # "ended" \/ y.card)
    OBVIOUS
  <2>4. x = [y EXCEPT !.card = b]
    BY <1>11, <2>1, <2>3
  <2>5. x = [st |-> y.st, q |-> y.q, kind |-> y.kind, card |-> b]
    BY <2>2, <2>4
  <2>6. x \in RowType
    BY <2>2, <2>3, <2>5 DEF RowType, Decided
  <2> QED BY <2>1, <2>5, <2>6
<1>13. rows' = [R EXCEPT ![<<t, r>>] = x]
  BY <1>8, <1>11
<1>14. RowsProcessed(t, r, q, kind)
  <2>1. PICK p0 : p0 = <<t, r>>
    OBVIOUS
  <2>2. p0 \in Tasks \X Rids
    BY <1>6, <2>1
  <2>3. /\ rows' \in [Tasks \X Rids -> RowType] /\ rows'[p0] = x
        /\ \A p \in Tasks \X Rids : p # p0 => rows'[p] = R[p]
    BY <1>9, <1>12, <1>13, <2>1, <2>2
  <2>4. \A p \in Tasks \X Rids : p # <<t, r>> => rows'[p] = rows[p]
    BY <1>9, <2>1, <2>3
  <2>5. rows[<<t, r>>].st = "none" => x.st = "pending" /\ x.q = q /\ x.kind = kind
    BY <1>9, <1>12 DEF Fresh
  <2>6. rows[<<t, r>>].st # "none" =>
          /\ x.st = rows[<<t, r>>].st /\ x.q = rows[<<t, r>>].q /\ x.kind = rows[<<t, r>>].kind
    BY <1>9, <1>12
  <2> QED BY <2>1, <2>3, <2>4, <2>5, <2>6 DEF RowsProcessed
<1>15. events[1].type = "requested"
  BY <1>1, <1>2
<1> QED BY <1>1, <1>3, <1>5, <1>6, <1>8, <1>14, <1>15 DEF RequestTaken

\* The first event of the queue is taken.
LEMMA TailFacts ==
    ASSUME TypeEvents, events # <<>>, events' = Tail(events)
    PROVE  /\ events' \in Seq(Event) /\ Len(events') \in Nat
           /\ \A i \in 1 .. Len(events') : i + 1 \in 1 .. Len(events) /\ events'[i] = events[i + 1]
<1>1. events \in Seq(Event)
  BY DEF TypeEvents
<1> QED BY <1>1

LEMMA TailType ==
    ASSUME TypeInv, events # <<>>, events' = Tail(events), asked' = asked
    PROVE  TypeEvents'
<1>0. TypeEvents
  BY DEF TypeInv
<1>1. /\ events' \in Seq(Event)
      /\ \A i \in 1 .. Len(events') : i + 1 \in 1 .. Len(events) /\ events'[i] = events[i + 1]
  BY <1>0, TailFacts
<1> QED BY <1>0, <1>1 DEF TypeEvents

LEMMA RequestType ==
    ASSUME TypeInv, RequestProcessed
    PROVE  TypeInv'
<1>0. TypeRows /\ TypeTasks /\ TypeAsked
  BY DEF TypeInv
<1>1. PICK q, t, r, kind : RequestTaken(q, t, r, kind)
  BY RequestFacts
<1>2. UNCHANGED <<client, alive, made, asked, held, sending, orch, prompts, clicks>>
  BY <1>1 DEF RequestTaken
<1>3. TypeAsked' /\ TypeHeld' /\ TypeClicks'
  BY <1>2, TypeSame
<1>4. TypeEvents'
  BY <1>1, <1>2, TailType DEF RequestTaken
<1>5. TypeRows'
  <2>1. q \in 1 .. Len(asked) /\ asked[q].rid = r /\ t \in Tasks /\ r \in Rids
    BY <1>1 DEF RequestTaken
  <2>2. r \in AskedRids /\ AskedRids' = AskedRids
    BY <1>2, <2>1 DEF AskedRids
  <2>3. /\ rows' \in [Tasks \X Rids -> RowType]
        /\ \A p \in Tasks \X Rids : p # <<t, r>> => rows'[p] = rows[p]
    BY <1>1 DEF RequestTaken, RowsProcessed
  <2>4. ASSUME NEW u \in Tasks, NEW x \in Rids, rows'[<<u, x>>].st # "none" PROVE x \in AskedRids
    <3>1. CASE x = r
      BY <2>2, <3>1
    <3>2. CASE x # r
      <4>1. rows'[<<u, x>>] = rows[<<u, x>>]
        BY <2>3, <3>2
      <4> QED BY <1>0, <2>4, <4>1 DEF TypeRows
    <3> QED BY <3>1, <3>2
  <2> QED BY <2>2, <2>3, <2>4 DEF TypeRows
<1>6. TypeTasks'
  <2>1. /\ t \in Tasks
        /\ count' = [count EXCEPT ![t] = IF rows[<<t, r>>].st = "none" THEN @ + 1 ELSE @]
        /\ st' = [st EXCEPT ![t] = IF @ \in {"paused", "ended"} THEN @ ELSE "waiting_approval"]
    BY <1>1 DEF RequestTaken
  <2> QED BY <1>0, <1>2, <2>1 DEF TypeTasks
<1> QED BY <1>3, <1>4, <1>5, <1>6, TypeJoin

\* apply_backend_event with an approval_resolved event: at most one row is decided.
LEMMA ResolutionFacts ==
    ASSUME TypeInv, ResolutionProcessed
    PROVE  /\ rows' = rows \/ \E P, v : v \in Decided /\ Becomes(rows, P, v, rows')
           /\ events # <<>> /\ events' = Tail(events)
           /\ UNCHANGED <<client, alive, made, asked, held, sending, count, st, orch, prompts, clicks>>
<1> DEFINE ev  == Head(events)
           S   == {p \in Tasks \X {ev.rid} : rows[p].st # "none"}
           row == CHOOSE p \in S : \A o \in S : rows[o].q <= rows[p].q
<1>0. rows \in [Tasks \X Rids -> RowType]
  BY DEF TypeInv, TypeRows
<1>1. rows' = IF S = {} \/ row[1] \in orch THEN rows ELSE Projected(rows, {row}, ev.a)
  BY DEF ResolutionProcessed
<1>2. ASSUME rows' = Projected(rows, {row}, ev.a)
      PROVE  \E P, v : v \in Decided /\ Becomes(rows, P, v, rows')
  <2>1. PICK P, a, v : P = {row} /\ a = ev.a /\ v = (IF a = "approve" THEN "approved" ELSE "denied")
    OBVIOUS
  <2>2. rows' = Projected(rows, P, a)
    BY <1>2, <2>1
  <2>3. Becomes(rows, P, v, rows')
    BY <1>0, <2>1, <2>2, ProjectedFacts
  <2>4. v \in Decided
    BY <2>1 DEF Decided
  <2> QED BY <2>3, <2>4
<1>3. /\ events # <<>> /\ events' = Tail(events)
      /\ UNCHANGED <<client, alive, made, asked, held, sending, count, st, orch, prompts, clicks>>
  BY DEF ResolutionProcessed
<1> HIDE DEF row, S
<1> QED BY <1>1, <1>2, <1>3

\* Rows that only become decided are well typed.
LEMMA BecomesType ==
    ASSUME TypeInv, NEW P, NEW v \in Decided, Becomes(rows, P, v, rows'), asked' = asked
    PROVE  TypeRows'
<1>1. TypeRows /\ AskedRids' = AskedRids
  BY DEF TypeInv, AskedRids
<1>2. rows' \in [Tasks \X Rids -> RowType]
  BY DEF Becomes
<1>3. ASSUME NEW t \in Tasks, NEW r \in Rids, rows'[<<t, r>>].st # "none" PROVE r \in AskedRids
  <2>1. rows'[<<t, r>>] = rows[<<t, r>>] \/ rows[<<t, r>>].st = "pending"
    BY DEF Becomes
  <2> QED BY <1>1, <1>3, <2>1 DEF TypeRows
<1> QED BY <1>1, <1>2, <1>3 DEF TypeRows

LEMMA ResolutionType ==
    ASSUME TypeInv, ResolutionProcessed
    PROVE  TypeInv'
<1>1. /\ rows' = rows \/ \E P, v : v \in Decided /\ Becomes(rows, P, v, rows')
      /\ events # <<>> /\ events' = Tail(events)
      /\ UNCHANGED <<client, alive, made, asked, held, sending, count, st, orch, prompts, clicks>>
  BY ResolutionFacts
<1>2. TypeAsked' /\ TypeHeld' /\ TypeTasks' /\ TypeClicks'
  BY <1>1, TypeSame
<1>3. TypeEvents'
  BY <1>1, TailType
<1>4. TypeRows'
  <2>1. CASE rows' = rows
    BY <1>1, <2>1, TypeSame
  <2>2. CASE \E P, v : v \in Decided /\ Becomes(rows, P, v, rows')
    <3>1. PICK P, v : v \in Decided /\ Becomes(rows, P, v, rows')
      BY <2>2
    <3> QED BY <1>1, <3>1, BecomesType
  <2> QED BY <1>1, <2>1, <2>2
<1> QED BY <1>2, <1>3, <1>4, TypeJoin

\* A reply is sent: only that request changes.
LEMMA ReplyFacts ==
    ASSUME TypeInv, NEW s \in sending, SendReply(s)
    PROVE  /\ AskedKept /\ Len(asked') = Len(asked) /\ s.q \in 1 .. Len(asked) /\ s.a \in Answers
           /\ asked'[s.q].reply = s.a
           /\ \A i \in 1 .. Len(asked) : i # s.q => asked'[i] = asked[i]
<1>1. asked \in Seq(Request) /\ Len(asked) \in Nat /\ s.q \in 1 .. Len(asked) /\ s.a \in Answers
  BY DEF TypeInv, TypeAsked, TypeHeld
<1>2. asked' = [asked EXCEPT ![s.q].reply = s.a]
  BY DEF SendReply
<1>3. PICK x : x = [asked[s.q] EXCEPT !.reply = s.a]
  OBVIOUS
<1>4. asked[s.q] \in Request
  BY <1>1
<1>5. /\ x \in Request /\ x.reply = s.a
      /\ x.client = asked[s.q].client /\ x.rid = asked[s.q].rid /\ x.task = asked[s.q].task
      /\ x.kind = asked[s.q].kind
  BY <1>1, <1>3, <1>4 DEF Request
<1>6. asked' = [asked EXCEPT ![s.q] = x]
  BY <1>2, <1>3
<1>7. /\ asked' \in Seq(Request) /\ Len(asked') = Len(asked) /\ asked'[s.q] = x
      /\ \A i \in 1 .. Len(asked) : i # s.q => asked'[i] = asked[i]
  BY <1>1, <1>5, <1>6
<1> QED BY <1>1, <1>5, <1>7 DEF AskedKept

LEMMA ReplyType ==
    ASSUME TypeInv, NEW s \in sending, SendReply(s)
    PROVE  TypeInv'
<1>0. TypeAsked /\ TypeHeld
  BY DEF TypeInv
<1>1. /\ AskedKept /\ Len(asked') = Len(asked) /\ s.q \in 1 .. Len(asked)
      /\ \A i \in 1 .. Len(asked) : i # s.q => asked'[i] = asked[i]
  BY ReplyFacts
<1>2. /\ sending' = sending \ {s}
      /\ held' = [held EXCEPT ![asked[s.q].client][asked[s.q].rid] = 0]
      /\ UNCHANGED <<client, alive, made, events, rows, count, st, orch, prompts, clicks>>
  BY DEF SendReply
<1>3. TypeAsked'
  BY <1>0, <1>1, <1>2 DEF TypeAsked, AskedKept
<1>4. TypeHeld'
  <2>1. asked[s.q] \in Request /\ Len(asked) \in Nat
    BY <1>0, <1>1 DEF TypeAsked
  <2>2. asked[s.q].client \in Clients /\ asked[s.q].rid \in Rids
    BY <2>1 DEF Request
  <2>3. 0 \in 0 .. Len(asked)
    BY <2>1
  <2>4. held' \in [Clients -> [Rids -> 0 .. Len(asked)]]
    BY <1>0, <1>2, <2>2, <2>3 DEF TypeHeld
  <2>5. sending' \in SUBSET [q : 1 .. Len(asked), a : Answers]
    BY <1>0, <1>2 DEF TypeHeld
  <2> QED BY <1>1, <2>4, <2>5 DEF TypeHeld
<1>5. TypeEvents' /\ TypeRows' /\ TypeClicks'
  BY <1>1, <1>2, TypeKept
<1>6. TypeTasks'
  BY <1>2, TypeSame
<1> QED BY <1>3, <1>4, <1>5, <1>6, TypeJoin

\* A connection is lost: its open requests are.
LEMMA LostFacts ==
    ASSUME TypeInv, NEW c \in Clients, ConnectionLost(c)
    PROVE  /\ AskedKept /\ Len(asked') = Len(asked)
           /\ \A i \in 1 .. Len(asked) :
                IF asked[i].client = c /\ asked[i].reply = "open"
                THEN asked'[i].reply = "lost" ELSE asked'[i] = asked[i]
<1>1. asked \in Seq(Request) /\ Len(asked) \in Nat
  BY DEF TypeInv, TypeAsked
<1>2. asked' = [i \in 1 .. Len(asked) |-> IF asked[i].client = c /\ asked[i].reply = "open"
                                          THEN [asked[i] EXCEPT !.reply = "lost"] ELSE asked[i]]
  BY <1>1 DEF ConnectionLost
<1>3. ASSUME NEW i \in 1 .. Len(asked)
      PROVE  /\ asked'[i] \in Request
             /\ IF asked[i].client = c /\ asked[i].reply = "open"
                THEN asked'[i].reply = "lost" ELSE asked'[i] = asked[i]
             /\ asked'[i].rid = asked[i].rid /\ asked'[i].task = asked[i].task
             /\ asked'[i].client = asked[i].client /\ asked'[i].kind = asked[i].kind
  <2>1. PICK y : y = asked[i]
    OBVIOUS
  <2>2. y \in Request
    BY <1>1, <2>1
  <2>3. CASE y.client = c /\ y.reply = "open"
    <3>1. asked'[i] = [y EXCEPT !.reply = "lost"]
      BY <1>2, <2>1, <2>3
    <3>2. asked'[i] \in Request /\ asked'[i].reply = "lost"
          /\ asked'[i].rid = y.rid /\ asked'[i].task = y.task
          /\ asked'[i].client = y.client /\ asked'[i].kind = y.kind
      BY <2>2, <3>1 DEF Request
    <3> QED BY <2>1, <2>3, <3>2
  <2>4. CASE ~(y.client = c /\ y.reply = "open")
    <3>1. asked'[i] = y
      BY <1>2, <2>1, <2>4
    <3> QED BY <2>1, <2>2, <2>4, <3>1
  <2> QED BY <2>3, <2>4
<1>4. asked' \in Seq(Request) /\ Len(asked') = Len(asked)
  <2>1. \A i \in 1 .. Len(asked) : asked'[i] \in Request
    BY <1>3
  <2>2. asked' \in [1 .. Len(asked) -> Request]
    BY <1>2, <2>1
  <2> QED BY <1>1, <2>2
<1> QED BY <1>1, <1>3, <1>4 DEF AskedKept

LEMMA LostType ==
    ASSUME TypeInv, NEW c \in Clients, ConnectionLost(c)
    PROVE  TypeInv'
<1>0. TypeAsked /\ TypeHeld /\ TypeClicks
  BY DEF TypeInv
<1>1. AskedKept /\ Len(asked') = Len(asked)
  BY LostFacts
<1>2. /\ alive' = alive \ {c} /\ client' = 0
      /\ held' = [held EXCEPT ![c] = [r \in Rids |-> 0]]
      /\ sending' = {s \in sending : asked[s.q].client # c}
      /\ clicks' = [h \in Handlers |->
                     IF clicks[h].at \in {"initialize", "interrupt"} /\ clicks[h].c = c
                     THEN Idle ELSE clicks[h]]
      /\ UNCHANGED <<made, events, rows, count, st, orch, prompts>>
  BY DEF ConnectionLost
<1>3. TypeAsked'
  <2>0. made \in 0 .. MaxClients /\ alive \in SUBSET (1 .. made)
    BY <1>0 DEF TypeAsked
  <2>m. made' = made /\ alive' = alive \ {c} /\ client' = 0
    BY <1>2
  <2>a. alive' \in SUBSET (1 .. made')
    BY <2>0, <2>m
  <2>c. made' \in 0 .. MaxClients /\ 0 \in 0 .. made'
    BY <2>0, <2>m, ApprovalAssumption
  <2>1. /\ made' \in 0 .. MaxClients /\ client' \in 0 .. made' /\ alive' \in SUBSET (1 .. made')
    BY <2>m, <2>a, <2>c
  <2>2. /\ asked' \in Seq(Request) /\ Len(asked') <= MaxAsked
        /\ \A i \in 1 .. Len(asked') : asked'[i].client <= made'
    BY <1>0, <1>1, <1>2 DEF TypeAsked, AskedKept
  <2> QED BY <2>1, <2>2 DEF TypeAsked
<1>4. TypeHeld'
  <2>1. Len(asked) \in Nat
    BY <1>0 DEF TypeAsked
  <2>2. 0 \in 0 .. Len(asked)
    BY <2>1
  <2>3. held' \in [Clients -> [Rids -> 0 .. Len(asked)]]
    BY <1>0, <1>2, <2>2 DEF TypeHeld
  <2>4. sending' \in SUBSET [q : 1 .. Len(asked), a : Answers]
    BY <1>0, <1>2 DEF TypeHeld
  <2> QED BY <1>1, <2>3, <2>4 DEF TypeHeld
<1>5. TypeEvents' /\ TypeRows'
  BY <1>1, <1>2, TypeKept
<1>6. TypeTasks'
  BY <1>2, TypeSame
<1>7. TypeClicks'
  <2>1. AskedRids \subseteq AskedRids'
    BY <1>1, TypeKept
  <2>2. Idle \in Click /\ Idle.at = "idle"
    BY DEF Idle, Click
  <2>3. \A h \in Handlers : clicks'[h] = Idle \/ clicks'[h] = clicks[h]
    BY <1>2
  <2>4. clicks' \in [Handlers -> Click]
    BY <1>0, <1>2, <2>2 DEF TypeClicks
  <2> QED BY <1>0, <1>2, <2>1, <2>2, <2>3, <2>4 DEF TypeClicks
<1> QED BY <1>3, <1>4, <1>5, <1>6, <1>7, TypeJoin

\* The handler of a button that has just been pressed.
Pressed(t, r, act) == [at |-> "connect", t |-> t, rid |-> r, act |-> act, c |-> 0,
                       own |-> TRUE, todo |-> {r}]

LEMMA PressedType ==
    ASSUME TypeInv, NEW t \in Tasks, NEW r \in Rids, NEW act \in Buttons, rows[<<t, r>>].card
    PROVE  /\ Pressed(t, r, act) \in Click /\ Pressed(t, r, act) # Idle
           /\ Pressed(t, r, act).todo \subseteq AskedRids
           /\ rows[<<t, r>>].st # "none"
<1>1. rows[<<t, r>>] \in RowType
  BY DEF TypeInv, TypeRows
<1>2. rows[<<t, r>>].st # "none"
  BY <1>1, RowFacts
<1>3. r \in AskedRids
  BY <1>2 DEF TypeInv, TypeRows
<1>4. 0 \in 0 .. MaxClients
  BY ApprovalAssumption
<1>5. Pressed(t, r, act) \in Click
  BY <1>4 DEF Pressed, Click
<1>6. Pressed(t, r, act).at = "connect" /\ Idle.at = "idle"
  BY DEF Pressed, Idle
<1>7. Pressed(t, r, act).todo = {r}
  BY DEF Pressed
<1> QED BY <1>2, <1>3, <1>5, <1>6, <1>7

\* The three outcomes of a press.
PressOutcome(h, t, r, act) ==
    \/ /\ st[t] = "ended" /\ rows' = Resolved(rows, {<<t, r>>}, "cancelled")
       /\ count' = Decremented(t, 1)
       /\ UNCHANGED <<client, alive, made, asked, held, sending, events, st, orch, prompts, clicks>>
    \/ /\ rows[<<t, r>>].st = "pending" /\ client # 0
       /\ Resolve(h, Pressed(t, r, act), client)
    \/ /\ rows[<<t, r>>].st = "pending" /\ client = 0
       /\ clicks' = [clicks EXCEPT ![h] = Pressed(t, r, act)]
       /\ UNCHANGED <<client, alive, made, asked, held, sending, events, rows, count, st, orch, prompts>>

LEMMA PressFacts ==
    ASSUME NEW h, NEW t, NEW r, NEW act, Press(h, t, r, act)
    PROVE  clicks[h] = Idle /\ rows[<<t, r>>].card /\ PressOutcome(h, t, r, act)
    BY DEF Press, Pressed, PressOutcome

LEMMA PressType ==
    ASSUME TypeInv, NEW h \in Handlers, NEW t \in Tasks, NEW r \in Rids, NEW act \in Buttons,
           Press(h, t, r, act)
    PROVE  TypeInv'
<1>0. TypeAsked /\ TypeRows /\ TypeTasks /\ TypeClicks
  BY DEF TypeInv
<1>k. PICK k : k = Pressed(t, r, act)
  OBVIOUS
<1>1. k \in Click /\ k # Idle /\ k.todo \subseteq AskedRids
  BY <1>k, PressedType, PressFacts
<1>2. CASE /\ st[t] = "ended" /\ rows' = Resolved(rows, {<<t, r>>}, "cancelled")
           /\ count' = Decremented(t, 1)
           /\ UNCHANGED <<client, alive, made, asked, held, sending, events, st, orch, prompts,
                          clicks>>
  <2>1. PICK P, v : P = {<<t, r>>} /\ v = "cancelled"
    OBVIOUS
  <2>2. v \in Decided /\ rows \in [Tasks \X Rids -> RowType] /\ rows' = Resolved(rows, P, v)
    BY <1>0, <1>2, <2>1 DEF Decided, TypeRows
  <2>3. Becomes(rows, P, v, rows')
    BY <2>2, ResolvedFacts
  <2>4. TypeRows'
    BY <1>2, <2>2, <2>3, BecomesType
  <2>5. TypeTasks'
    BY <1>0, <1>2 DEF TypeTasks, Decremented
  <2>6. TypeAsked' /\ TypeHeld' /\ TypeEvents' /\ TypeClicks'
    BY <1>2, TypeSame
  <2> QED BY <2>4, <2>5, <2>6, TypeJoin
<1>3. CASE client # 0 /\ Resolve(h, Pressed(t, r, act), client)
  <2>1. client \in Clients
    BY <1>0, <1>3, ApprovalAssumption DEF TypeAsked, Clients
  <2>2. Resolve(h, k, client)
    BY <1>k, <1>3
  <2> QED BY <1>1, <2>1, <2>2, ResolveType
<1>4. CASE /\ clicks' = [clicks EXCEPT ![h] = Pressed(t, r, act)]
           /\ UNCHANGED <<client, alive, made, asked, held, sending, events, rows, count, st,
                          orch, prompts>>
  <2>1. TypeAsked' /\ TypeHeld' /\ TypeEvents' /\ TypeRows' /\ TypeTasks'
    BY <1>4, TypeSame
  <2>2. AskedRids' = AskedRids /\ made' = made
    BY <1>4 DEF AskedRids
  <2>3. k.at = "connect"
    BY <1>k DEF Pressed
  <2>4. clicks' = [clicks EXCEPT ![h] = k]
    BY <1>k, <1>4
  <2>5. TypeClicks'
    BY <1>0, <1>1, <2>2, <2>3, <2>4 DEF TypeClicks
  <2> QED BY <2>1, <2>5, TypeJoin
<1>5. PressOutcome(h, t, r, act)
  BY PressFacts
<1> QED BY <1>2, <1>3, <1>4, <1>5 DEF PressOutcome

LEMMA ConnectedFacts ==
    ASSUME TypeInv, NEW h \in Handlers, Connected(h)
    PROVE  LET k == clicks[h] IN
           /\ k.at = "connect"
           /\ clicks' = [clicks EXCEPT ![h] =
                           [at |-> "initialize", t |-> k.t, rid |-> k.rid, act |-> k.act,
                            c |-> made + 1, own |-> k.own, todo |-> k.todo]]
<1>1. PICK k : k = clicks[h]
  OBVIOUS
<1>2. clicks \in [Handlers -> Click] /\ k \in Click
  BY <1>1 DEF TypeInv, TypeClicks
<1>3. k.at = "connect"
  BY <1>1 DEF Connected
<1>4. k = [at |-> k.at, t |-> k.t, rid |-> k.rid, act |-> k.act, c |-> k.c,
           own |-> k.own, todo |-> k.todo]
  BY <1>2, <1>3, ClickFacts
<1>5. clicks' = [clicks EXCEPT ![h].at = "initialize", ![h].c = made + 1]
  BY DEF Connected
<1>6. clicks' = [clicks EXCEPT ![h] = [[k EXCEPT !.at = "initialize"] EXCEPT !.c = made + 1]]
  BY <1>1, <1>2, <1>5
<1>7. [[k EXCEPT !.at = "initialize"] EXCEPT !.c = made + 1]
        = [at |-> "initialize", t |-> k.t, rid |-> k.rid, act |-> k.act,
           c |-> made + 1, own |-> k.own, todo |-> k.todo]
  <2>1. PICK y : y = [k EXCEPT !.at = "initialize"]
    OBVIOUS
  <2>2. y = [at |-> "initialize", t |-> k.t, rid |-> k.rid, act |-> k.act, c |-> k.c,
             own |-> k.own, todo |-> k.todo]
    BY <1>4, <2>1
  <2>3. [y EXCEPT !.c = made + 1]
          = [at |-> "initialize", t |-> k.t, rid |-> k.rid, act |-> k.act,
             c |-> made + 1, own |-> k.own, todo |-> k.todo]
    BY <2>2
  <2> QED BY <2>1, <2>3
<1> QED BY <1>1, <1>3, <1>6, <1>7

LEMMA ConnectedType ==
    ASSUME TypeInv, NEW h \in Handlers, Connected(h)
    PROVE  TypeInv'
<1>0. TypeAsked /\ TypeClicks
  BY DEF TypeInv
<1>1. /\ made' = made + 1 /\ client' = made + 1 /\ alive' = alive \cup {made + 1} /\ made < MaxClients
      /\ UNCHANGED <<asked, held, sending, events, rows, count, st, orch, prompts>>
  BY DEF Connected
<1>n. made \in Nat /\ MaxClients \in Nat /\ made + 1 \in 0 .. MaxClients
  BY <1>0, <1>1, ApprovalAssumption DEF TypeAsked
<1>2. TypeAsked'
  <2>1. alive' \in SUBSET (1 .. made') /\ client' \in 0 .. made' /\ made' \in 0 .. MaxClients
    BY <1>0, <1>1, <1>n DEF TypeAsked
  <2>2. \A i \in 1 .. Len(asked) : asked[i].client <= made + 1
    <3> TAKE i \in 1 .. Len(asked)
    <3>1. asked[i] \in Request /\ asked[i].client <= made
      BY <1>0 DEF TypeAsked
    <3>2. asked[i].client \in Nat
      BY <3>1 DEF Request, Clients
    <3> QED BY <1>n, <3>1, <3>2
  <2> QED BY <1>0, <1>1, <2>1, <2>2 DEF TypeAsked
<1>3. TypeHeld' /\ TypeEvents' /\ TypeRows' /\ TypeTasks'
  BY <1>1, TypeSame
<1>4. TypeClicks'
  <2>1. PICK k, x : k = clicks[h] /\
          x = [at |-> "initialize", t |-> k.t, rid |-> k.rid, act |-> k.act,
               c |-> made + 1, own |-> k.own, todo |-> k.todo]
    OBVIOUS
  <2>2. clicks' = [clicks EXCEPT ![h] = x] /\ k.at = "connect"
    BY <2>1, ConnectedFacts
  <2>3. k \in Click /\ clicks \in [Handlers -> Click]
    BY <1>0, <2>1 DEF TypeClicks
  <2>4. /\ k.t \in Tasks /\ k.rid \in Rids /\ k.act \in Buttons /\ k.own \in BOOLEAN
        /\ k.todo \in SUBSET Rids /\ k # Idle
    BY <2>2, <2>3, ClickFacts
  <2>5. x \in Click
    BY <1>n, <2>1, <2>4 DEF Click
  <2>6. x.todo \subseteq AskedRids /\ x.c \in 1 .. made'
    <3>1. k.todo \subseteq AskedRids
      BY <1>0, <2>1, <2>4 DEF TypeClicks
    <3>2. made + 1 \in 1 .. made'
      BY <1>1, <1>n
    <3> QED BY <2>1, <3>1, <3>2
  <2>7. AskedRids' = AskedRids /\ 1 .. made \subseteq 1 .. made'
    BY <1>1, <1>n DEF AskedRids
  <2> QED BY <1>0, <2>2, <2>3, <2>5, <2>6, <2>7 DEF TypeClicks
<1> QED BY <1>2, <1>3, <1>4, TypeJoin

LEMMA InitializedType ==
    ASSUME TypeInv, NEW h \in Handlers, Initialized(h)
    PROVE  TypeInv'
<1>1. PICK k, c : k = clicks[h] /\ c = k.c
  OBVIOUS
<1>2. k.at = "initialize" /\ Resolve(h, k, c)
  BY <1>1 DEF Initialized
<1>3. k \in Click
  BY <1>1 DEF TypeInv, TypeClicks
<1>4. k # Idle
  BY <1>2, <1>3, ClickFacts
<1>5. k.todo \subseteq AskedRids /\ c \in 1 .. made
  BY <1>1, <1>2, <1>4 DEF TypeInv, TypeClicks
<1>6. c \in Clients
  BY <1>5, ApprovalAssumption DEF TypeInv, TypeAsked, Clients
<1> QED BY <1>2, <1>3, <1>4, <1>5, <1>6, ResolveType

\* Connecting fails, or interrupt_turn ends: only handlers, counts and statuses change.
LEMMA SendFailsType ==
    ASSUME TypeInv, NEW h \in Handlers, SendFails(h)
    PROVE  TypeInv'
<1>0. TypeTasks /\ TypeClicks
  BY DEF TypeInv
<1>1. UNCHANGED <<client, alive, made, asked, held, sending, events, rows, count, orch, prompts>>
  BY DEF SendFails
<1>2. TypeAsked' /\ TypeHeld' /\ TypeEvents' /\ TypeRows'
  BY <1>1, TypeSame
<1>3. PICK k : k = clicks[h]
  OBVIOUS
<1>4. k \in Click /\ k.at \in {"connect", "initialize"}
  BY <1>0, <1>3 DEF TypeClicks, SendFails
<1>5. /\ k.t \in Tasks /\ k.rid \in Rids /\ k.act \in Buttons /\ k.c \in 0 .. MaxClients
      /\ k.own \in BOOLEAN /\ k.todo \in SUBSET Rids /\ k # Idle
      /\ k = [at |-> k.at, t |-> k.t, rid |-> k.rid, act |-> k.act, c |-> k.c,
              own |-> k.own, todo |-> k.todo]
  BY <1>4, ClickFacts
<1>6. \/ clicks' = [clicks EXCEPT ![h] = Idle] /\ (st' = st \/ st' = Released(k.t, rows))
      \/ \E r : clicks' = [clicks EXCEPT ![h] = [k EXCEPT !.at = "connect", !.todo = @ \ {r}]] /\ st' = st
  BY <1>3 DEF SendFails
<1>7. TypeTasks'
  <2>1. st \in [Tasks -> {"running", "waiting_approval", "paused", "ended"}]
    BY <1>0 DEF TypeTasks
  <2>2. Released(k.t, rows) \in [Tasks -> {"running", "waiting_approval", "paused", "ended"}]
    BY <1>5, <2>1 DEF Released
  <2>3. st' \in [Tasks -> {"running", "waiting_approval", "paused", "ended"}]
    BY <1>6, <2>1, <2>2
  <2> QED BY <1>0, <1>1, <2>3 DEF TypeTasks
<1>8. TypeClicks'
  <2>1. PICK x : clicks' = [clicks EXCEPT ![h] = x] /\
                 (x = Idle \/ \E r : x = [k EXCEPT !.at = "connect", !.todo = @ \ {r}])
    BY <1>6
  <2>2. x \in Click /\ (x # Idle => x.todo \subseteq AskedRids) /\ x.at # "initialize"
    <3>1. CASE x = Idle
      BY <3>1 DEF Click, Idle
    <3>2. CASE \E r : x = [k EXCEPT !.at = "connect", !.todo = @ \ {r}]
      <4>1. PICK r : x = [k EXCEPT !.at = "connect", !.todo = @ \ {r}]
        BY <3>2
      <4>2. PICK y : y = k.todo \ {r}
        OBVIOUS
      <4>3. x = [k EXCEPT !.at = "connect", !.todo = y]
        BY <4>1, <4>2, <1>5
      <4>4. x = [at |-> "connect", t |-> k.t, rid |-> k.rid, act |-> k.act, c |-> k.c,
                 own |-> k.own, todo |-> y]
        BY <1>5, <4>3
      <4>5. k.todo \subseteq AskedRids
        BY <1>0, <1>3, <1>5 DEF TypeClicks
      <4>6. y \in SUBSET Rids /\ y \subseteq AskedRids
        BY <1>5, <4>2, <4>5
      <4> QED BY <1>5, <4>4, <4>6 DEF Click
    <3> QED BY <2>1, <3>1, <3>2
  <2>3. AskedRids' = AskedRids /\ made' = made
    BY <1>1 DEF AskedRids
  <2> QED BY <1>0, <2>1, <2>2, <2>3 DEF TypeClicks
<1> QED BY <1>2, <1>7, <1>8, TypeJoin

LEMMA InterruptedType ==
    ASSUME TypeInv, NEW h \in Handlers, Interrupted(h)
    PROVE  TypeInv'
<1>0. TypeTasks /\ TypeClicks
  BY DEF TypeInv
<1>1. UNCHANGED <<client, alive, made, asked, held, sending, events, rows, orch, prompts>>
  BY DEF Interrupted
<1>2. TypeAsked' /\ TypeHeld' /\ TypeEvents' /\ TypeRows'
  BY <1>1, TypeSame
<1>3. PICK k : k = clicks[h]
  OBVIOUS
<1>4. k \in Click /\ k.at = "interrupt"
  BY <1>0, <1>3 DEF TypeClicks, Interrupted
<1>5. k.t \in Tasks
  BY <1>4, ClickFacts
<1>6. /\ clicks' = [clicks EXCEPT ![h] = Idle]
      /\ count' = Decremented(k.t, 1) /\ st' = Released(k.t, rows)
  BY <1>3 DEF Interrupted
<1>7. TypeTasks'
  <2>1. count' \in [Tasks -> Nat]
    BY <1>0, <1>5, <1>6 DEF TypeTasks, Decremented
  <2>2. st' \in [Tasks -> {"running", "waiting_approval", "paused", "ended"}]
    BY <1>0, <1>5, <1>6 DEF TypeTasks, Released
  <2> QED BY <1>0, <1>1, <2>1, <2>2 DEF TypeTasks
<1>8. TypeClicks'
  <2>1. Idle \in Click /\ Idle.at = "idle"
    BY DEF Idle, Click
  <2>2. AskedRids' = AskedRids /\ made' = made
    BY <1>1 DEF AskedRids
  <2> QED BY <1>0, <1>6, <2>1, <2>2 DEF TypeClicks
<1> QED BY <1>2, <1>7, <1>8, TypeJoin

\* The tasks around them.
LEMMA TaskStep ==
    ASSUME TypeInv, Task
    PROVE  /\ TypeInv'
           /\ UNCHANGED <<client, alive, made, asked, held, sending, events, rows, count, orch, clicks>>
           /\ prompts' \subseteq orch
           /\ \A t \in Tasks : st'[t] = "waiting_approval" =>
                st[t] = "waiting_approval" \/ Pending(rows, t) # {}
<1>0. /\ count \in [Tasks -> Nat] /\ orch \in SUBSET Tasks /\ prompts \in SUBSET orch
      /\ st \in [Tasks -> {"running", "waiting_approval", "paused", "ended"}]
  BY DEF TypeInv, TypeTasks
<1>1. ASSUME UNCHANGED <<client, alive, made, asked, held, sending, events, rows, count, orch, clicks>>,
             prompts' \subseteq orch,
             st' \in [Tasks -> {"running", "waiting_approval", "paused", "ended"}]
      PROVE  TypeInv'
  <2>1. TypeAsked' /\ TypeHeld' /\ TypeEvents' /\ TypeRows' /\ TypeClicks'
    BY <1>1, TypeSame
  <2>2. TypeTasks'
    BY <1>0, <1>1 DEF TypeTasks
  <2> QED BY <2>1, <2>2, TypeJoin
<1>2. CASE \E t \in Tasks : TurnCompleted(t)
  <2>1. PICK t \in Tasks : TurnCompleted(t)
    BY <1>2
  <2>2. /\ UNCHANGED <<client, alive, made, asked, held, sending, events, rows, count, orch, clicks>>
        /\ prompts' = prompts
        /\ st' = [st EXCEPT ![t] = IF Pending(rows, t) # {}
                               THEN IF @ = "paused" THEN @ ELSE "waiting_approval"
                               ELSE IF t \in orch THEN "running" ELSE "ended"]
    BY <2>1 DEF TurnCompleted
  <2>3. /\ st' \in [Tasks -> {"running", "waiting_approval", "paused", "ended"}]
        /\ \A u \in Tasks : st'[u] = "waiting_approval" =>
             st[u] = "waiting_approval" \/ Pending(rows, u) # {}
    BY <1>0, <2>2
  <2> QED BY <1>0, <1>1, <2>2, <2>3
<1>3. CASE \E t \in Tasks, to \in {"running", "paused", "ended"} : TaskMoves(t, to)
  <2>1. PICK t \in Tasks, to \in {"running", "paused", "ended"} : TaskMoves(t, to)
    BY <1>3
  <2>2. /\ UNCHANGED <<client, alive, made, asked, held, sending, events, rows, count, orch, clicks>>
        /\ prompts' = prompts /\ st' = [st EXCEPT ![t] = to]
    BY <2>1 DEF TaskMoves
  <2>3. /\ st' \in [Tasks -> {"running", "waiting_approval", "paused", "ended"}]
        /\ \A u \in Tasks : st'[u] = "waiting_approval" => st[u] = "waiting_approval"
    BY <1>0, <2>2
  <2> QED BY <1>0, <1>1, <2>2, <2>3
<1>4. CASE \E t \in Tasks : PromptStarts(t) \/ PromptEnds(t)
  <2>1. /\ UNCHANGED <<client, alive, made, asked, held, sending, events, rows, count, orch, clicks>>
        /\ st' = st /\ prompts' \subseteq orch
    BY <1>0, <1>4 DEF PromptStarts, PromptEnds
  <2> QED BY <1>0, <1>1, <2>1
<1> QED BY <1>2, <1>3, <1>4 DEF Task

\* Every step keeps the types.
LEMMA TypeNext ==
    ASSUME TypeInv, [Next]_vars
    PROVE  TypeInv'
<1>1. CASE Server
  BY <1>1, AskType, ReplyType, LostType DEF Server
<1>2. CASE Bridge
  BY <1>2, RequestType, ResolutionType DEF Bridge
<1>3. CASE User
  BY <1>3, PressType DEF User
<1>4. CASE Handler
  BY <1>4, ConnectedType, InitializedType, SendFailsType, InterruptedType DEF Handler
<1>5. CASE Task
  BY <1>5, TaskStep
<1>6. CASE UNCHANGED vars
  <2>1. TypeAsked' /\ TypeHeld' /\ TypeEvents' /\ TypeRows' /\ TypeTasks' /\ TypeClicks'
    BY <1>6, TypeSame DEF vars
  <2> QED BY <2>1, TypeJoin
<1> QED BY <1>1, <1>2, <1>3, <1>4, <1>5, <1>6 DEF Next

\* Whatever tasks, requests, handlers and losses there are, the tables, the held
\* futures, the event queue and the waiting handlers of the approval flow are well
\* typed, and pending_approval_count never goes below zero.
THEOREM ApprovalTypes == Spec => []TypeOK
<1>1. TypeInv => TypeOK
  <2> SUFFICES ASSUME TypeInv PROVE TypeOK
    OBVIOUS
  <2>1. \A i \in DOMAIN events : events[i] \in Event
    BY DEF TypeInv, TypeEvents
  <2> QED BY <2>1 DEF TypeInv, TypeAsked, TypeHeld, TypeRows, TypeTasks, TypeClicks, TypeOK
<1> QED BY <1>1, TypeStart, TypeNext, PTL DEF Spec

-----------------------------------------------------------------------------
(* The flow of a request: what holds if ids are not used again (~ReuseIds)   *)
(* and no other task asks during a run's prompt (~Overlap).                  *)

\* An id names one request.
Unique == \A i, j \in 1 .. Len(asked) : asked[i].rid = asked[j].rid => i = j

\* A row is about a request of its task and its id.
RowOwn ==
    \A t \in Tasks, r \in Rids : rows[<<t, r>>].st # "none" =>
        /\ rows[<<t, r>>].q \in 1 .. Len(asked)
        /\ asked[rows[<<t, r>>].q].task = t /\ asked[rows[<<t, r>>].q].rid = r

\* A held future belongs to an open request of that client and id whose reply is not
\* on its way.
HeldOwn ==
    \A c \in Clients, r \in Rids : held[c][r] # 0 =>
        /\ asked[held[c][r]].client = c /\ asked[held[c][r]].rid = r
        /\ asked[held[c][r]].reply = "open" /\ \A s \in sending : s.q # held[c][r]

\* An open request is held, or its reply is on its way.
OpenHeld ==
    \A q \in 1 .. Len(asked) : asked[q].reply = "open" =>
        held[asked[q].client][asked[q].rid] = q \/ \E s \in sending : s.q = q

\* The row of request q has the decision that a means.
Agreed(q, a) ==
    /\ rows[<<asked[q].task, asked[q].rid>>].q = q
    /\ Means(a, Ruling(rows[<<asked[q].task, asked[q].rid>>]))

\* A reply on its way is the only one of its request, and is what was decided.
SendMeans ==
    /\ \A s \in sending : asked[s.q].reply = "open" /\ Agreed(s.q, s.a)
    /\ \A s, u \in sending : s.q = u.q => s = u

\* A request is answered with what was decided.
Answered ==
    \A q \in 1 .. Len(asked) : asked[q].reply \in Answers => Agreed(q, asked[q].reply)

\* A resolution in the queue is about a row that is decided; a request in the queue is
\* there once, and has no row yet unless its task has a run.
EventsOwn ==
    \A i \in 1 .. Len(events) :
        /\ events[i].type = "resolved" =>
             \E t \in Tasks : rows[<<t, events[i].rid>>].st \in Decided
        /\ events[i].type = "requested" =>
             /\ asked[events[i].q].task \notin orch =>
                  rows[<<asked[events[i].q].task, asked[events[i].q].rid>>].st = "none"
             /\ \A j \in 1 .. Len(events) :
                  j # i /\ events[j].type = "requested" => events[j].q # events[i].q

\* A handler that connects has requests of earlier clients only, all of the kind of the
\* one that was clicked.
StaleClick(k) ==
    k.at \in {"connect", "initialize"} =>
        /\ k.own => k.todo = {k.rid}
        /\ ~k.own => k.rid \notin k.todo /\ rows[<<k.t, k.rid>>].st # "none"
        /\ \A r \in k.todo :
             /\ rows[<<k.t, r>>].st # "none"
             /\ rows[<<k.t, r>>].kind = rows[<<k.t, k.rid>>].kind
             /\ asked[rows[<<k.t, r>>].q].client # client
             /\ k.at = "initialize" => asked[rows[<<k.t, r>>].q].client # k.c

Stale == \A h \in Handlers : StaleClick(clicks[h])

FlowInv ==
    /\ TypeInv /\ Unique /\ RowOwn /\ HeldOwn /\ OpenHeld /\ SendMeans
    /\ Answered /\ EventsOwn /\ Stale /\ DecisionReaches

\* The parts of the state after a step make up the whole.
LEMMA FlowJoin ==
    ASSUME TypeInv', Unique', RowOwn', HeldOwn', OpenHeld', SendMeans', Answered', EventsOwn',
           Stale', DecisionReaches'
    PROVE  FlowInv'
    BY DEF FlowInv

\* The parts whose variables stay.
LEMMA FlowSame ==
    ASSUME FlowInv
    PROVE  /\ UNCHANGED asked => Unique'
           /\ UNCHANGED <<asked, rows>> => RowOwn' /\ Answered'
           /\ UNCHANGED <<asked, held, sending>> => HeldOwn' /\ OpenHeld'
           /\ UNCHANGED <<asked, rows, sending>> => SendMeans'
           /\ UNCHANGED <<asked, rows, events, orch>> => EventsOwn'
           /\ UNCHANGED <<asked, rows, client, clicks>> => Stale'
           /\ UNCHANGED <<asked, rows, client, sending>> => DecisionReaches'
<1>0. /\ Unique /\ RowOwn /\ HeldOwn /\ OpenHeld /\ SendMeans
      /\ Answered /\ EventsOwn /\ Stale /\ DecisionReaches
  BY DEF FlowInv
<1>1. UNCHANGED asked => Unique'
  BY <1>0 DEF Unique
<1>2. UNCHANGED <<asked, rows>> => RowOwn' /\ Answered'
  BY <1>0 DEF RowOwn, Answered, Agreed
<1>3. UNCHANGED <<asked, held, sending>> => HeldOwn' /\ OpenHeld'
  BY <1>0 DEF HeldOwn, OpenHeld
<1>4. UNCHANGED <<asked, rows, sending>> => SendMeans'
  BY <1>0 DEF SendMeans, Agreed
<1>5. UNCHANGED <<asked, rows, events, orch>> => EventsOwn'
  BY <1>0 DEF EventsOwn
<1>6. UNCHANGED <<asked, rows, client, clicks>> => Stale'
  BY <1>0 DEF Stale, StaleClick
<1>7. UNCHANGED <<asked, rows, client, sending>> => DecisionReaches'
  BY <1>0 DEF DecisionReaches
<1> QED BY <1>1, <1>2, <1>3, <1>4, <1>5, <1>6, <1>7

\* A row never goes away, is never about another request, and is decided once.
RowsKept ==
    \A t \in Tasks, r \in Rids : rows[<<t, r>>].st # "none" =>
        /\ rows'[<<t, r>>].st # "none" /\ rows'[<<t, r>>].q = rows[<<t, r>>].q
        /\ rows'[<<t, r>>].kind = rows[<<t, r>>].kind
        /\ rows[<<t, r>>].st \in Decided => rows'[<<t, r>>].st = rows[<<t, r>>].st

\* An answer means a row that is decided.
LEMMA MeansDecided ==
    ASSUME NEW a, NEW x, x.st # "void", Means(a, Ruling(x))
    PROVE  x.st \in Decided
<1>1. CASE x.st = "approved"
  BY <1>1 DEF Decided
<1>2. CASE x.st # "approved"
  <2>1. Ruling(x) = x.st
    BY <1>2 DEF Ruling
  <2> QED BY <2>1 DEF Means, Decided
<1> QED BY <1>1, <1>2

\* So a reply that agrees with its row does so afterwards.
LEMMA AgreedKept ==
    ASSUME TypeInv, AskedKept, RowsKept, NEW q \in 1 .. Len(asked), NEW a, Agreed(q, a)
    PROVE  Agreed(q, a)'
<1>1. asked[q] \in Request
  BY DEF TypeInv, TypeAsked
<1>2. PICK t, r : t = asked[q].task /\ r = asked[q].rid
  OBVIOUS
<1>3. t \in Tasks /\ r \in Rids
  BY <1>1, <1>2 DEF Request
<1>4. t = asked'[q].task /\ r = asked'[q].rid
  BY <1>2 DEF AskedKept
<1>5. rows[<<t, r>>].q = q /\ Means(a, Ruling(rows[<<t, r>>]))
  BY <1>2 DEF Agreed
<1>6. rows[<<t, r>>].st \in Decided /\ rows[<<t, r>>].st # "none"
  <2>1. rows[<<t, r>>] \in RowType
    BY <1>3 DEF TypeInv, TypeRows
  <2>2. rows[<<t, r>>].st # "void"
    BY <2>1, RowFacts DEF Decided
  <2> QED BY <1>5, <2>2, MeansDecided DEF Decided
<1>7. rows'[<<t, r>>].q = q /\ Means(a, Ruling(rows'[<<t, r>>]))
  BY <1>3, <1>5, <1>6 DEF RowsKept, Ruling
<1> QED BY <1>4, <1>7 DEF Agreed

\* And a waiting handler still has requests of earlier clients, if the client stays,
\* is lost or is a new one.
LEMMA StaleKept ==
    ASSUME TypeInv, RowOwn, AskedKept, RowsKept,
           client' = client \/ client' = 0 \/ client' > made,
           NEW k \in Click, StaleClick(k)
    PROVE  StaleClick(k)'
<1> SUFFICES ASSUME k.at \in {"connect", "initialize"}
             PROVE  /\ k.own => k.todo = {k.rid}
                    /\ ~k.own => k.rid \notin k.todo /\ rows'[<<k.t, k.rid>>].st # "none"
                    /\ \A r \in k.todo :
                         /\ rows'[<<k.t, r>>].st # "none"
                         /\ rows'[<<k.t, r>>].kind = rows'[<<k.t, k.rid>>].kind
                         /\ asked'[rows'[<<k.t, r>>].q].client # client'
                         /\ k.at = "initialize" => asked'[rows'[<<k.t, r>>].q].client # k.c
  BY DEF StaleClick
<1>1. k.t \in Tasks /\ k.rid \in Rids /\ k.todo \in SUBSET Rids
  BY ClickFacts
<1>2. /\ k.own => k.todo = {k.rid}
      /\ ~k.own => k.rid \notin k.todo /\ rows[<<k.t, k.rid>>].st # "none"
      /\ \A r \in k.todo :
           /\ rows[<<k.t, r>>].st # "none"
           /\ rows[<<k.t, r>>].kind = rows[<<k.t, k.rid>>].kind
           /\ asked[rows[<<k.t, r>>].q].client # client
           /\ k.at = "initialize" => asked[rows[<<k.t, r>>].q].client # k.c
  BY DEF StaleClick
<1>3. ~k.own => rows'[<<k.t, k.rid>>].st # "none"
  BY <1>1, <1>2 DEF RowsKept
<1>5. ASSUME NEW r \in k.todo PROVE rows'[<<k.t, r>>].kind = rows'[<<k.t, k.rid>>].kind
  <2>1. CASE k.own
    BY <1>2, <2>1
  <2>2. CASE ~k.own
    <3>1. rows'[<<k.t, k.rid>>].kind = rows[<<k.t, k.rid>>].kind
      BY <1>1, <1>2, <2>2 DEF RowsKept
    <3>2. rows'[<<k.t, r>>].kind = rows[<<k.t, r>>].kind
      BY <1>1, <1>2, <1>5 DEF RowsKept
    <3> QED BY <1>2, <1>5, <3>1, <3>2
  <2> QED BY <2>1, <2>2
<1>4. ASSUME NEW r \in k.todo
      PROVE  /\ rows'[<<k.t, r>>].st # "none"
             /\ asked'[rows'[<<k.t, r>>].q].client # client'
             /\ k.at = "initialize" => asked'[rows'[<<k.t, r>>].q].client # k.c
  <2>1. PICK q : q = rows[<<k.t, r>>].q
    OBVIOUS
  <2>2. r \in Rids /\ rows[<<k.t, r>>].st # "none"
    BY <1>1, <1>2
  <2>3. q \in 1 .. Len(asked)
    BY <1>1, <2>1, <2>2 DEF RowOwn
  <2>4. rows'[<<k.t, r>>].st # "none" /\ rows'[<<k.t, r>>].q = q
    BY <1>1, <2>1, <2>2 DEF RowsKept
  <2>5. asked'[q].client = asked[q].client
    BY <2>3 DEF AskedKept
  <2>6. asked[q] \in Request /\ asked[q].client <= made /\ made \in Nat
    BY <2>3, ApprovalAssumption DEF TypeInv, TypeAsked
  <2>7. asked[q].client \in Nat \ {0}
    BY <2>6 DEF Request, Clients
  <2>8. asked[q].client # client'
    BY <1>2, <2>1, <2>6, <2>7
  <2> QED BY <1>2, <2>1, <2>4, <2>5, <2>8
<1> QED BY <1>2, <1>3, <1>4, <1>5

\* What the kept rows mean for replies on their way, answers and waiting handlers.
LEMMA FlowKept ==
    ASSUME FlowInv, AskedKept, RowsKept
    PROVE  /\ sending' \subseteq sending /\ (\A s \in sending' : asked'[s.q].reply = "open") => SendMeans'
           /\ (\A q \in 1 .. Len(asked') : asked'[q].reply \in Answers =>
                 q \in 1 .. Len(asked) /\ asked'[q].reply = asked[q].reply) => Answered'
           /\ /\ client' = client \/ client' = 0 \/ client' > made
              /\ \A h \in Handlers : clicks'[h] = clicks[h] \/ StaleClick(clicks[h])'
              => Stale'
<1>0. TypeInv /\ RowOwn /\ SendMeans /\ Answered /\ Stale
  BY DEF FlowInv
<1>1. ASSUME sending' \subseteq sending, \A s \in sending' : asked'[s.q].reply = "open"
      PROVE  SendMeans'
  <2>1. ASSUME NEW s \in sending' PROVE Agreed(s.q, s.a)'
    <3>1. PICK q, a : q = s.q /\ a = s.a
      OBVIOUS
    <3>2. s \in sending /\ q \in 1 .. Len(asked)
      BY <1>0, <1>1, <3>1 DEF TypeInv, TypeHeld
    <3>3. Agreed(q, a)
      BY <1>0, <3>1, <3>2 DEF SendMeans
    <3>4. Agreed(q, a)'
      BY <1>0, <3>2, <3>3, AgreedKept
    <3> QED BY <3>1, <3>4 DEF Agreed
  <2>2. \A s, u \in sending' : s.q = u.q => s = u
    BY <1>0, <1>1 DEF SendMeans
  <2> QED BY <1>1, <2>1, <2>2 DEF SendMeans
<1>2. ASSUME \A q \in 1 .. Len(asked') : asked'[q].reply \in Answers =>
               q \in 1 .. Len(asked) /\ asked'[q].reply = asked[q].reply
      PROVE  Answered'
  <2> SUFFICES ASSUME NEW q \in 1 .. Len(asked'), asked'[q].reply \in Answers
               PROVE  Agreed(q, asked[q].reply)'
    BY DEF Answered
  <2>1. PICK a : a = asked'[q].reply
    OBVIOUS
  <2>2. q \in 1 .. Len(asked) /\ asked[q].reply = a
    BY <1>2, <2>1
  <2>3. Agreed(q, a)
    BY <1>0, <2>1, <2>2 DEF Answered
  <2>4. Agreed(q, a)'
    BY <1>0, <2>2, <2>3, AgreedKept
  <2> QED BY <2>1, <2>4 DEF Agreed
<1>3. ASSUME client' = client \/ client' = 0 \/ client' > made,
             \A h \in Handlers : clicks'[h] = clicks[h] \/ StaleClick(clicks[h])'
      PROVE  Stale'
  <2> SUFFICES ASSUME NEW h \in Handlers PROVE StaleClick(clicks[h])'
    BY DEF Stale
  <2>1. CASE clicks'[h] = clicks[h]
    <3>1. PICK k : k = clicks[h]
      OBVIOUS
    <3>2. k \in Click /\ StaleClick(k)
      BY <1>0, <3>1 DEF TypeInv, TypeClicks, Stale
    <3>3. StaleClick(k)'
      BY <1>0, <1>3, <3>2, StaleKept
    <3> QED BY <2>1, <3>1, <3>3 DEF StaleClick
  <2> QED BY <1>3, <2>1
<1> QED BY <1>1, <1>2, <1>3

\* A new request: its id is fresh, and only a run of its own task records it at once.
LEMMA AskFlow ==
    ASSUME FlowInv, ~ReuseIds, ~Overlap,
           NEW c \in Clients, NEW t \in Tasks, NEW r \in Rids, NEW k \in Kinds, Ask(c, t, r, k)
    PROVE  FlowInv'
<1>0. /\ TypeInv /\ Unique /\ RowOwn /\ HeldOwn /\ OpenHeld /\ SendMeans
      /\ Answered /\ EventsOwn /\ Stale /\ DecisionReaches
  BY DEF FlowInv
<1>t. TypeInv'
  BY <1>0, AskType
<1>1. /\ AskedKept /\ Len(asked') = Len(asked) + 1
      /\ asked'[Len(asked')] = [client |-> c, rid |-> r, task |-> t, kind |-> k, reply |-> "open"]
      /\ \A i \in 1 .. Len(asked) : asked'[i] = asked[i]
  BY <1>0, AskKept
<1>q. PICK q : q = Len(asked')
  OBVIOUS
<1>2. /\ asked'[q].client = c /\ asked'[q].rid = r /\ asked'[q].task = t /\ asked'[q].reply = "open"
      /\ Len(asked) \in Nat /\ q = Len(asked) + 1 /\ Len(asked') = q /\ asked \in Seq(Request)
  BY <1>0, <1>1, <1>q DEF TypeInv, TypeAsked
<1>3. \A i \in 1 .. q : i \in 1 .. Len(asked) \/ i = q
  BY <1>2
<1>4. /\ \A i \in 1 .. Len(asked) : asked[i].rid # r
      /\ prompts \subseteq {t}
      /\ held' = [held EXCEPT ![c][r] = q]
      /\ events' = Append(events, [type |-> "requested", q |-> q])
      /\ UNCHANGED <<client, sending, orch, clicks>>
  <2>1. DOMAIN asked = 1 .. Len(asked)
    BY <1>2
  <2> QED BY <1>2, <2>1 DEF Ask
<1>5. r \notin AskedRids
  BY <1>4 DEF AskedRids
<1>6. /\ rows \in [Tasks \X Rids -> RowType] /\ \A u \in Tasks : rows[<<u, r>>].st = "none"
  BY <1>0, <1>5 DEF TypeInv, TypeRows
<1>7. RowsAsked(r, k)
  BY <1>0, AskRows
<1>8. \A u \in Tasks, x \in Rids :
        \/ rows'[<<u, x>>] = rows[<<u, x>>]
        \/ /\ u = t /\ u \in prompts /\ x = r /\ rows[<<u, x>>].st = "none"
           /\ rows'[<<u, x>>].st = "pending" /\ rows'[<<u, x>>].q = q
  <2>1. Fresh(q, Recalled(k)).st = "pending" /\ Fresh(q, Recalled(k)).q = q
    BY DEF Fresh
  <2> QED BY <1>4, <1>7, <1>q, <2>1 DEF RowsAsked
<1>9. RowsKept
  BY <1>8 DEF RowsKept
<1>10. Unique'
  <2> SUFFICES ASSUME NEW i \in 1 .. q, NEW j \in 1 .. q, asked'[i].rid = asked'[j].rid PROVE i = j
    BY <1>2 DEF Unique
  <2>1. CASE i = q /\ j # q
    BY <1>1, <1>2, <1>3, <1>4, <2>1
  <2>2. CASE i # q /\ j = q
    BY <1>1, <1>2, <1>3, <1>4, <2>2
  <2>3. CASE i # q /\ j # q
    BY <1>0, <1>1, <1>3, <2>3 DEF Unique
  <2> QED BY <2>1, <2>2, <2>3
<1>11. RowOwn'
  <2> SUFFICES ASSUME NEW u \in Tasks, NEW x \in Rids, rows'[<<u, x>>].st # "none"
               PROVE  /\ rows'[<<u, x>>].q \in 1 .. q
                      /\ asked'[rows'[<<u, x>>].q].task = u /\ asked'[rows'[<<u, x>>].q].rid = x
    BY <1>2 DEF RowOwn
  <2>1. CASE rows'[<<u, x>>] = rows[<<u, x>>]
    <3>1. PICK i : i = rows[<<u, x>>].q
      OBVIOUS
    <3>2. i \in 1 .. Len(asked) /\ asked[i].task = u /\ asked[i].rid = x
      BY <1>0, <2>1, <3>1 DEF RowOwn
    <3>3. i \in 1 .. q /\ asked'[i] = asked[i]
      BY <1>1, <1>2, <3>2
    <3> QED BY <2>1, <3>1, <3>2, <3>3
  <2>2. CASE u = t /\ x = r /\ rows'[<<u, x>>].q = q
    <3>1. q \in 1 .. q
      BY <1>2
    <3> QED BY <1>2, <2>2, <3>1
  <2> QED BY <1>8, <2>1, <2>2
<1>h. /\ held \in [Clients -> [Rids -> 0 .. Len(asked)]]
      /\ \A s \in sending : s.q \in 1 .. Len(asked)
  BY <1>0 DEF TypeInv, TypeHeld
<1>12. /\ held'[c][r] = q
       /\ \A d \in Clients, x \in Rids : d # c \/ x # r => held'[d][x] = held[d][x]
  BY <1>4, <1>h
<1>13. HeldOwn'
  <2> SUFFICES ASSUME NEW d \in Clients, NEW x \in Rids, held'[d][x] # 0
               PROVE  /\ asked'[held'[d][x]].client = d /\ asked'[held'[d][x]].rid = x
                      /\ asked'[held'[d][x]].reply = "open" /\ \A s \in sending : s.q # held'[d][x]
    BY <1>4 DEF HeldOwn
  <2>1. CASE d = c /\ x = r
    <3>1. \A s \in sending : s.q # q
      BY <1>2, <1>h
    <3> QED BY <1>2, <1>12, <2>1, <3>1
  <2>2. CASE d # c \/ x # r
    <3>1. PICK i : i = held[d][x]
      OBVIOUS
    <3>2. held'[d][x] = i /\ i \in 0 .. Len(asked) /\ i # 0
      BY <1>12, <1>h, <2>2, <3>1
    <3>3. i \in 1 .. Len(asked)
      BY <1>2, <3>2
    <3> QED BY <1>0, <1>1, <3>1, <3>2, <3>3 DEF HeldOwn
  <2> QED BY <2>1, <2>2
<1>14. OpenHeld'
  <2> SUFFICES ASSUME NEW i \in 1 .. q, asked'[i].reply = "open"
               PROVE  held'[asked'[i].client][asked'[i].rid] = i \/ \E s \in sending : s.q = i
    BY <1>2, <1>4 DEF OpenHeld
  <2>1. CASE i = q
    BY <1>2, <1>12, <2>1
  <2>2. CASE i # q
    <3>1. i \in 1 .. Len(asked) /\ asked'[i] = asked[i]
      BY <1>1, <1>3, <2>2
    <3>2. asked[i] \in Request
      BY <1>2, <3>1
    <3>3. asked[i].client \in Clients /\ asked[i].rid \in Rids /\ asked[i].rid # r
      BY <1>4, <3>1, <3>2 DEF Request
    <3>4. held'[asked[i].client][asked[i].rid] = held[asked[i].client][asked[i].rid]
      BY <1>12, <3>3
    <3> QED BY <1>0, <3>1, <3>4 DEF OpenHeld
  <2> QED BY <2>1, <2>2
<1>15. SendMeans' /\ Answered' /\ Stale'
  <2>1. sending' \subseteq sending /\ \A s \in sending' : asked'[s.q].reply = "open"
    BY <1>0, <1>1, <1>4, <1>h DEF SendMeans
  <2>2. \A i \in 1 .. Len(asked') : asked'[i].reply \in Answers =>
                 i \in 1 .. Len(asked) /\ asked'[i].reply = asked[i].reply
    BY <1>1, <1>2, <1>3 DEF Answers
  <2>3. client' = client /\ \A h \in Handlers : clicks'[h] = clicks[h]
    BY <1>4
  <2> QED BY <1>1, <1>9, <2>1, <2>2, <2>3, FlowKept
<1>16. EventsOwn'
  <2>1. events \in Seq(Event) /\ Len(events) \in Nat
    BY <1>0 DEF TypeInv, TypeEvents
  <2>2. PICK e, n : e = [type |-> "requested", q |-> q] /\ n = Len(events) + 1
    OBVIOUS
  <2>3. /\ Len(events') = n /\ events'[n] = e
        /\ \A i \in 1 .. Len(events) : events'[i] = events[i]
    BY <1>4, <2>1, <2>2
  <2>4. \A i \in 1 .. n : i \in 1 .. Len(events) \/ i = n
    BY <2>1, <2>2
  <2>5. e.type = "requested" /\ e.q = q
    BY <2>2
  <2>6. ASSUME NEW i \in 1 .. Len(events), events[i].type = "requested"
        PROVE  events[i].q \in 1 .. Len(asked) /\ events[i].q # q
    <3>1. events[i] \in Event /\ events[i].q <= Len(asked)
      BY <1>0, <2>1, <2>6 DEF TypeInv, TypeEvents
    <3>2. events[i].q \in Asked
      BY <2>6, <3>1 DEF Event
    <3> QED BY <1>2, <3>1, <3>2, ApprovalAssumption DEF Asked
  <2>7. ASSUME NEW i \in 1 .. n, events'[i].type = "resolved"
        PROVE  \E u \in Tasks : rows'[<<u, events'[i].rid>>].st \in Decided
    <3>1. i \in 1 .. Len(events) /\ events'[i] = events[i]
      BY <2>3, <2>4, <2>5, <2>7
    <3>2. PICK u \in Tasks : rows[<<u, events[i].rid>>].st \in Decided
      BY <1>0, <2>7, <3>1 DEF EventsOwn
    <3>3. events[i] \in Event
      BY <2>1, <3>1
    <3>4. events[i].rid \in Rids
      BY <2>7, <3>1, <3>3 DEF Event
    <3>5. rows'[<<u, events[i].rid>>].st = rows[<<u, events[i].rid>>].st
      BY <1>9, <3>2, <3>4 DEF RowsKept, Decided
    <3> QED BY <3>1, <3>2, <3>5
  <2>8. ASSUME NEW i \in 1 .. n, events'[i].type = "requested", asked'[events'[i].q].task \notin orch
        PROVE  rows'[<<asked'[events'[i].q].task, asked'[events'[i].q].rid>>].st = "none"
    <3>1. CASE i = n
      <4>1. t \notin prompts
        BY <1>0, <1>2, <2>3, <2>5, <2>8, <3>1 DEF TypeInv, TypeTasks
      <4>2. rows'[<<t, r>>] = rows[<<t, r>>]
        BY <1>8, <4>1
      <4> QED BY <1>2, <1>6, <2>3, <2>5, <3>1, <4>2
    <3>2. CASE i # n
      <4>1. i \in 1 .. Len(events) /\ events'[i] = events[i] /\ events[i].type = "requested"
        BY <2>3, <2>4, <2>8, <3>2
      <4>2. PICK j : j = events[i].q
        OBVIOUS
      <4>3. j \in 1 .. Len(asked) /\ asked'[j] = asked[j]
        BY <1>1, <2>6, <4>1, <4>2
      <4>4. asked[j] \in Request
        BY <1>2, <4>3
      <4>5. asked[j].task \in Tasks /\ asked[j].rid \in Rids /\ asked[j].rid # r
        BY <1>4, <4>3, <4>4 DEF Request
      <4>6. rows[<<asked[j].task, asked[j].rid>>].st = "none"
        BY <1>0, <2>8, <4>1, <4>2, <4>3 DEF EventsOwn
      <4>7. rows'[<<asked[j].task, asked[j].rid>>] = rows[<<asked[j].task, asked[j].rid>>]
        BY <1>8, <4>5
      <4> QED BY <4>1, <4>2, <4>3, <4>6, <4>7
    <3> QED BY <3>1, <3>2
  <2>9. ASSUME NEW i \in 1 .. n, events'[i].type = "requested",
               NEW j \in 1 .. n, j # i, events'[j].type = "requested"
        PROVE  events'[j].q # events'[i].q
    <3>1. CASE i = n
      BY <2>3, <2>4, <2>5, <2>6, <2>9, <3>1
    <3>2. CASE j = n
      BY <2>3, <2>4, <2>5, <2>6, <2>9, <3>2
    <3>3. CASE i # n /\ j # n
      BY <1>0, <2>3, <2>4, <2>9, <3>3 DEF EventsOwn
    <3> QED BY <3>1, <3>2, <3>3
  <2>10. orch' = orch /\ Len(events') = n
    BY <1>4, <2>3
  <2> QED BY <2>7, <2>8, <2>9, <2>10 DEF EventsOwn
<1>17. DecisionReaches'
  <2> SUFFICES ASSUME NEW u \in Tasks, NEW x \in Rids, rows'[<<u, x>>].st \in {"approved", "denied"},
                      asked'[rows'[<<u, x>>].q].task = u, asked'[rows'[<<u, x>>].q].client = client
               PROVE  asked'[rows'[<<u, x>>].q].reply # "open" \/ \E s \in sending : s.q = rows'[<<u, x>>].q
    BY <1>4 DEF DecisionReaches
  <2>1. rows'[<<u, x>>] = rows[<<u, x>>]
    BY <1>8
  <2>2. PICK i : i = rows[<<u, x>>].q
    OBVIOUS
  <2>3. i \in 1 .. Len(asked) /\ asked'[i] = asked[i]
    BY <1>0, <1>1, <2>1, <2>2 DEF RowOwn
  <2> QED BY <1>0, <2>1, <2>2, <2>3 DEF DecisionReaches
<1> QED BY <1>t, <1>10, <1>11, <1>13, <1>14, <1>15, <1>16, <1>17, FlowJoin

\* The types of the events that are queued.
LEMMA EventFacts ==
    ASSUME TypeInv, NEW i \in 1 .. Len(events)
    PROVE  /\ events[i].type = "requested" => events[i].q \in 1 .. Len(asked)
           /\ events[i].type = "resolved" => events[i].rid \in Rids /\ events[i].a \in Answers
<1>1. events[i] \in Event /\ Len(asked) \in Nat
  BY DEF TypeInv, TypeEvents, TypeAsked
<1>2. events[i].type = "resolved" => events[i].rid \in Rids /\ events[i].a \in Answers
  BY <1>1 DEF Event
<1>3. ASSUME events[i].type = "requested" PROVE events[i].q \in 1 .. Len(asked)
  <2>1. events[i].q \in Asked
    BY <1>1, <1>3 DEF Event
  <2>2. events[i].q <= Len(asked)
    BY <1>3 DEF TypeInv, TypeEvents
  <2> QED BY <1>1, <2>1, <2>2, ApprovalAssumption DEF Asked
<1> QED BY <1>2, <1>3

\* apply_backend_event adds the row of a request of its own task.
LEMMA RequestFlow ==
    ASSUME FlowInv, RequestProcessed
    PROVE  FlowInv' /\ RowsKept
<1>0. /\ TypeInv /\ Unique /\ RowOwn /\ HeldOwn /\ OpenHeld /\ SendMeans
      /\ Answered /\ EventsOwn /\ Stale /\ DecisionReaches
  BY DEF FlowInv
<1>t. TypeInv'
  BY <1>0, RequestType
<1>1. PICK q, t, r, kind : RequestTaken(q, t, r, kind)
  BY <1>0, RequestFacts
<1>2. /\ q \in 1 .. Len(asked) /\ t \in Tasks /\ r \in Rids /\ kind \in Kinds
      /\ asked[q].task = t /\ asked[q].rid = r /\ RowsProcessed(t, r, q, kind)
      /\ events # <<>> /\ events[1].type = "requested" /\ events[1].q = q /\ events' = Tail(events)
      /\ UNCHANGED <<client, asked, held, sending, orch, clicks>>
  BY <1>1 DEF RequestTaken
<1>3. /\ \A u \in Tasks, x \in Rids : u # t \/ x # r => rows'[<<u, x>>] = rows[<<u, x>>]
      /\ rows[<<t, r>>].st = "none" => rows'[<<t, r>>].st = "pending" /\ rows'[<<t, r>>].q = q
      /\ rows[<<t, r>>].st # "none" =>
           /\ rows'[<<t, r>>].st = rows[<<t, r>>].st /\ rows'[<<t, r>>].q = rows[<<t, r>>].q
           /\ rows'[<<t, r>>].kind = rows[<<t, r>>].kind
  BY <1>2 DEF RowsProcessed
<1>4. RowsKept
  BY <1>3 DEF RowsKept
<1>5. AskedKept
  BY <1>0, <1>2 DEF AskedKept, TypeInv, TypeAsked
<1>6. Unique' /\ HeldOwn' /\ OpenHeld'
  BY <1>2, FlowSame
<1>7. RowOwn'
  <2> SUFFICES ASSUME NEW u \in Tasks, NEW x \in Rids, rows'[<<u, x>>].st # "none"
               PROVE  /\ rows'[<<u, x>>].q \in 1 .. Len(asked)
                      /\ asked[rows'[<<u, x>>].q].task = u /\ asked[rows'[<<u, x>>].q].rid = x
    BY <1>2 DEF RowOwn
  <2>1. CASE rows[<<u, x>>].st = "none"
    BY <1>2, <1>3, <2>1
  <2>2. CASE rows[<<u, x>>].st # "none"
    BY <1>0, <1>4, <2>2 DEF RowOwn, RowsKept
  <2> QED BY <2>1, <2>2
<1>8. SendMeans' /\ Answered' /\ Stale'
  <2>1. sending' \subseteq sending /\ \A s \in sending' : asked'[s.q].reply = "open"
    BY <1>0, <1>2 DEF SendMeans
  <2>2. \A i \in 1 .. Len(asked') : asked'[i].reply \in Answers =>
                 i \in 1 .. Len(asked) /\ asked'[i].reply = asked[i].reply
    BY <1>2
  <2>3. client' = client /\ \A h \in Handlers : clicks'[h] = clicks[h]
    BY <1>2
  <2> QED BY <1>4, <1>5, <2>1, <2>2, <2>3, FlowKept
<1>9. EventsOwn'
  <2>1. /\ Len(events') \in Nat
        /\ \A i \in 1 .. Len(events') : i + 1 \in 1 .. Len(events) /\ events'[i] = events[i + 1]
    BY <1>0, <1>2, TailFacts DEF TypeInv
  <2>2. \A i \in 1 .. Len(events') : i + 1 # 1 /\ 1 \in 1 .. Len(events)
    BY <2>1
  <2>3. ASSUME NEW i \in 1 .. Len(events'), events'[i].type = "resolved"
        PROVE  \E u \in Tasks : rows'[<<u, events'[i].rid>>].st \in Decided
    <3>1. PICK n \in 1 .. Len(events) : n = i + 1
      BY <2>1
    <3>2. events'[i] = events[n]
      BY <2>1, <3>1
    <3>3. PICK u \in Tasks : rows[<<u, events[n].rid>>].st \in Decided
      BY <1>0, <2>3, <3>2 DEF EventsOwn
    <3>4. events[n].rid \in Rids
      BY <1>0, <2>3, <3>2, EventFacts
    <3>5. rows'[<<u, events[n].rid>>].st = rows[<<u, events[n].rid>>].st
      BY <1>4, <3>3, <3>4 DEF RowsKept, Decided
    <3> QED BY <3>2, <3>3, <3>5
  <2>4. ASSUME NEW i \in 1 .. Len(events'), events'[i].type = "requested",
               asked[events'[i].q].task \notin orch
        PROVE  rows'[<<asked[events'[i].q].task, asked[events'[i].q].rid>>].st = "none"
    <3>1. PICK n \in 1 .. Len(events) : n = i + 1 /\ n # 1
      BY <2>1, <2>2
    <3>2. events'[i] = events[n]
      BY <2>1, <3>1
    <3>3. PICK j : j = events[n].q
      OBVIOUS
    <3>4. j \in 1 .. Len(asked)
      BY <1>0, <2>4, <3>2, <3>3, EventFacts
    <3>5. j # q
      <4>1. 1 \in 1 .. Len(events)
        BY <2>2
      <4> QED BY <1>0, <1>2, <2>4, <3>1, <3>2, <3>3, <4>1 DEF EventsOwn
    <3>6. asked[j] \in Request
      BY <1>0, <3>4 DEF TypeInv, TypeAsked
    <3>7. asked[j].task \in Tasks /\ asked[j].rid \in Rids /\ asked[j].rid # r
      BY <1>0, <1>2, <3>4, <3>5, <3>6 DEF Unique, Request
    <3>8. rows[<<asked[j].task, asked[j].rid>>].st = "none"
      BY <1>0, <2>4, <3>2, <3>3 DEF EventsOwn
    <3> QED BY <1>3, <3>2, <3>3, <3>7, <3>8
  <2>5. ASSUME NEW i \in 1 .. Len(events'), events'[i].type = "requested",
               NEW j \in 1 .. Len(events'), j # i, events'[j].type = "requested"
        PROVE  events'[j].q # events'[i].q
    <3>1. PICK n \in 1 .. Len(events), o \in 1 .. Len(events) : n = i + 1 /\ o = j + 1
      BY <2>1
    <3>2. events'[i] = events[n] /\ events'[j] = events[o] /\ n # o
      BY <2>1, <2>5, <3>1
    <3> QED BY <1>0, <2>5, <3>2 DEF EventsOwn
  <2>6. orch' = orch /\ asked' = asked
    BY <1>2
  <2> QED BY <2>3, <2>4, <2>5, <2>6 DEF EventsOwn
<1>10. DecisionReaches'
  <2> SUFFICES ASSUME NEW u \in Tasks, NEW x \in Rids, rows'[<<u, x>>].st \in {"approved", "denied"},
                      asked[rows'[<<u, x>>].q].task = u, asked[rows'[<<u, x>>].q].client = client
               PROVE  asked[rows'[<<u, x>>].q].reply # "open" \/ \E s \in sending : s.q = rows'[<<u, x>>].q
    BY <1>2 DEF DecisionReaches
  <2>1. rows'[<<u, x>>].st = rows[<<u, x>>].st /\ rows'[<<u, x>>].q = rows[<<u, x>>].q
    BY <1>3
  <2> QED BY <1>0, <2>1 DEF DecisionReaches
<1> QED BY <1>4, <1>t, <1>6, <1>7, <1>8, <1>9, <1>10, FlowJoin

\* With one row for an id, the row that an approval_resolved event finds is decided
\* already: the event changes nothing.
LEMMA ResolutionRows ==
    ASSUME FlowInv, ResolutionProcessed
    PROVE  rows' = rows
<1>0. TypeInv /\ Unique /\ RowOwn /\ EventsOwn /\ events \in Seq(Event)
  BY DEF FlowInv, TypeInv, TypeEvents
<1>1. events # <<>> /\ Head(events).type = "resolved"
  BY DEF ResolutionProcessed
<1>2. 1 \in 1 .. Len(events) /\ Head(events) = events[1]
  BY <1>0, <1>1
<1>3. PICK x, a : x = events[1].rid /\ a = events[1].a
  OBVIOUS
<1>4. x \in Rids
  BY <1>0, <1>1, <1>2, <1>3, EventFacts
<1>5. PICK t \in Tasks : rows[<<t, x>>].st \in Decided
  BY <1>0, <1>1, <1>2, <1>3 DEF EventsOwn
<1>6. PICK S : S = {p \in Tasks \X {x} : rows[p].st # "none"}
  OBVIOUS
<1>7. \A p \in S : p = <<t, x>>
  <2> TAKE p \in S
  <2>1. p[1] \in Tasks /\ p = <<p[1], x>> /\ rows[p].st # "none"
    BY <1>6
  <2>2. rows[<<t, x>>].st # "none"
    BY <1>5 DEF Decided
  <2>3. PICK u : u = p[1]
    OBVIOUS
  <2>4. u \in Tasks /\ rows[<<u, x>>].st # "none"
    BY <2>1, <2>3
  <2>5. u = t
    <3>1. PICK i, j : i = rows[<<u, x>>].q /\ j = rows[<<t, x>>].q
      OBVIOUS
    <3>2. /\ i \in 1 .. Len(asked) /\ asked[i].task = u /\ asked[i].rid = x
          /\ j \in 1 .. Len(asked) /\ asked[j].task = t /\ asked[j].rid = x
      BY <1>0, <1>4, <2>2, <2>4, <3>1 DEF RowOwn
    <3>3. i = j
      BY <1>0, <3>2 DEF Unique
    <3> QED BY <3>2, <3>3
  <2> QED BY <2>1, <2>3, <2>5
<1>8. PICK p0 : p0 = <<t, x>>
  OBVIOUS
<1>9. S = {p0}
  <2>1. p0 \in Tasks \X {x} /\ rows[p0].st # "none"
    BY <1>5, <1>8 DEF Decided
  <2> QED BY <1>6, <1>7, <1>8, <2>1
<1>10. rows[p0].q <= rows[p0].q
  <2>1. rows[<<t, x>>].st # "none"
    BY <1>5 DEF Decided
  <2>2. rows[p0].q \in 1 .. Len(asked)
    BY <1>0, <1>4, <1>8, <2>1 DEF RowOwn
  <2>3. Len(asked) \in Nat
    BY <1>0 DEF TypeInv, TypeAsked
  <2> QED BY <2>2, <2>3
<1>11. PICK row : row = CHOOSE p \in S : \A o \in S : rows[o].q <= rows[p].q
  OBVIOUS
<1>12. row = p0
  BY <1>9, <1>10, <1>11
<1>13. rows' = rows \/ rows' = Projected(rows, {row}, a)
  BY <1>2, <1>3, <1>6, <1>11 DEF ResolutionProcessed
<1>14. ASSUME rows' = Projected(rows, {row}, a) PROVE rows' = rows
  <2>1. PICK P, v : P = {row} /\ v = (IF a = "approve" THEN "approved" ELSE "denied")
    OBVIOUS
  <2>2. rows \in [Tasks \X Rids -> RowType] /\ rows' = Projected(rows, P, a)
    BY <1>0, <1>14, <2>1 DEF TypeInv, TypeRows
  <2>3. Becomes(rows, P, v, rows')
    BY <2>1, <2>2, ProjectedFacts
  <2>4. rows[p0].st # "pending"
    BY <1>5, <1>8 DEF Decided
  <2>5. \A p \in Tasks \X Rids : p \notin P \/ rows[p].st # "pending"
    BY <1>12, <2>1, <2>4
  <2>6. rows' \in [Tasks \X Rids -> RowType] /\ \A p \in Tasks \X Rids : rows'[p] = rows[p]
    BY <2>3, <2>5 DEF Becomes
  <2> QED BY <2>2, <2>6
<1> QED BY <1>13, <1>14

LEMMA ResolutionFlow ==
    ASSUME FlowInv, ResolutionProcessed
    PROVE  FlowInv' /\ RowsKept
<1>0. TypeInv /\ EventsOwn
  BY DEF FlowInv
<1>1. rows' = rows
  BY ResolutionRows
<1>2. /\ events # <<>> /\ events' = Tail(events)
      /\ UNCHANGED <<client, asked, held, sending, orch, clicks>>
  BY DEF ResolutionProcessed
<1>3. TypeInv'
  BY <1>0, ResolutionType
<1>4. /\ Unique' /\ RowOwn' /\ HeldOwn' /\ OpenHeld' /\ SendMeans' /\ Answered' /\ Stale'
      /\ DecisionReaches'
  BY <1>1, <1>2, FlowSame
<1>5. EventsOwn'
  <2>1. /\ Len(events') \in Nat
        /\ \A i \in 1 .. Len(events') : i + 1 \in 1 .. Len(events) /\ events'[i] = events[i + 1]
    BY <1>0, <1>2, TailFacts DEF TypeInv
  <2>2. ASSUME NEW i \in 1 .. Len(events')
        PROVE  /\ events'[i].type = "resolved" =>
                    \E t \in Tasks : rows[<<t, events'[i].rid>>].st \in Decided
               /\ events'[i].type = "requested" /\ asked[events'[i].q].task \notin orch =>
                      rows[<<asked[events'[i].q].task, asked[events'[i].q].rid>>].st = "none"
    <3>1. PICK n \in 1 .. Len(events) : events'[i] = events[n]
      BY <2>1
    <3> QED BY <1>0, <3>1 DEF EventsOwn
  <2>3. ASSUME NEW i \in 1 .. Len(events'), events'[i].type = "requested",
               NEW j \in 1 .. Len(events'), j # i, events'[j].type = "requested"
        PROVE  events'[j].q # events'[i].q
    <3>1. PICK n \in 1 .. Len(events), o \in 1 .. Len(events) : n = i + 1 /\ o = j + 1
      BY <2>1
    <3>2. events'[i] = events[n] /\ events'[j] = events[o] /\ n # o
      BY <2>1, <2>3, <3>1
    <3> QED BY <1>0, <2>3, <3>2 DEF EventsOwn
  <2>4. orch' = orch /\ asked' = asked
    BY <1>2
  <2> QED BY <1>1, <2>2, <2>3, <2>4 DEF EventsOwn
<1>6. RowsKept
  BY <1>1 DEF RowsKept
<1> QED BY <1>3, <1>4, <1>5, <1>6, FlowJoin

\* The queued events, when no row is added.
LEMMA EventsKept ==
    ASSUME FlowInv, AskedKept, RowsKept, UNCHANGED <<events, orch>>,
           \A u \in Tasks, y \in Rids : rows[<<u, y>>].st = "none" => rows'[<<u, y>>].st = "none"
    PROVE  EventsOwn'
<1>0. TypeInv /\ EventsOwn
  BY DEF FlowInv
<1>1. ASSUME NEW i \in 1 .. Len(events), events[i].type = "resolved"
      PROVE  \E t \in Tasks : rows'[<<t, events[i].rid>>].st \in Decided
  <2>1. PICK t \in Tasks : rows[<<t, events[i].rid>>].st \in Decided
    BY <1>0, <1>1 DEF EventsOwn
  <2>2. events[i].rid \in Rids
    BY <1>0, <1>1, EventFacts
  <2>3. rows'[<<t, events[i].rid>>].st = rows[<<t, events[i].rid>>].st
    BY <2>1, <2>2 DEF RowsKept, Decided
  <2> QED BY <2>1, <2>3
<1>2. ASSUME NEW i \in 1 .. Len(events), events[i].type = "requested",
             asked'[events[i].q].task \notin orch
      PROVE  rows'[<<asked'[events[i].q].task, asked'[events[i].q].rid>>].st = "none"
  <2>1. PICK q, t, r : q = events[i].q /\ t = asked[q].task /\ r = asked[q].rid
    OBVIOUS
  <2>2. q \in 1 .. Len(asked)
    BY <1>0, <1>2, <2>1, EventFacts
  <2>3. asked[q] \in Request
    BY <1>0, <2>2 DEF TypeInv, TypeAsked
  <2>4. t \in Tasks /\ r \in Rids /\ asked'[q].task = t /\ asked'[q].rid = r
    BY <2>1, <2>2, <2>3 DEF Request, AskedKept
  <2>5. rows[<<t, r>>].st = "none"
    BY <1>0, <1>2, <2>1, <2>4 DEF EventsOwn
  <2>6. rows'[<<t, r>>].st = "none"
    BY <2>4, <2>5
  <2> QED BY <2>1, <2>4, <2>6
<1>3. ASSUME NEW i \in 1 .. Len(events), events[i].type = "requested",
             NEW j \in 1 .. Len(events), j # i, events[j].type = "requested"
      PROVE  events[j].q # events[i].q
  BY <1>0, <1>3 DEF EventsOwn
<1>4. events' = events /\ orch' = orch
  OBVIOUS
<1> QED BY <1>1, <1>2, <1>3, <1>4 DEF EventsOwn

\* A reply that is sent leaves no other of its request, and nothing held.
LEMMA ReplyFlow ==
    ASSUME FlowInv, NEW s \in sending, SendReply(s)
    PROVE  FlowInv'
<1>0. /\ TypeInv /\ Unique /\ RowOwn /\ HeldOwn /\ OpenHeld /\ SendMeans
      /\ Answered /\ EventsOwn /\ Stale /\ DecisionReaches
  BY DEF FlowInv
<1>t. TypeInv'
  BY <1>0, ReplyType
<1>1. /\ AskedKept /\ Len(asked') = Len(asked) /\ s.q \in 1 .. Len(asked) /\ s.a \in Answers
      /\ asked'[s.q].reply = s.a
      /\ \A i \in 1 .. Len(asked) : i # s.q => asked'[i] = asked[i]
  BY <1>0, ReplyFacts
<1>2. /\ sending' = sending \ {s}
      /\ held' = [held EXCEPT ![asked[s.q].client][asked[s.q].rid] = 0]
      /\ UNCHANGED <<client, events, rows, orch, clicks>>
  BY DEF SendReply
<1>3. PICK q, d, x : q = s.q /\ d = asked[q].client /\ x = asked[q].rid
  OBVIOUS
<1>4. d \in Clients /\ x \in Rids /\ q \in 1 .. Len(asked)
  <2>1. asked[q] \in Request /\ q \in 1 .. Len(asked)
    BY <1>0, <1>1, <1>3 DEF TypeInv, TypeAsked
  <2> QED BY <1>3, <2>1 DEF Request
<1>5. /\ \A i \in 1 .. Len(asked) : asked'[i].rid = asked[i].rid /\ asked'[i].task = asked[i].task
           /\ asked'[i].client = asked[i].client
  BY <1>1 DEF AskedKept
<1>h. /\ held \in [Clients -> [Rids -> 0 .. Len(asked)]] /\ Len(asked) \in Nat
      /\ \A u \in sending : u.q \in 1 .. Len(asked)
  BY <1>0 DEF TypeInv, TypeHeld, TypeAsked
<1>6. /\ held'[d][x] = 0
      /\ \A e \in Clients, y \in Rids : e # d \/ y # x => held'[e][y] = held[e][y]
  BY <1>2, <1>3, <1>4, <1>h
<1>7. RowsKept
  BY <1>2 DEF RowsKept
<1>8. Unique'
  BY <1>0, <1>1, <1>5 DEF Unique
<1>9. RowOwn'
  BY <1>0, <1>1, <1>2, <1>5 DEF RowOwn
<1>10. HeldOwn'
  <2> SUFFICES ASSUME NEW e \in Clients, NEW y \in Rids, held'[e][y] # 0
               PROVE  /\ asked'[held'[e][y]].client = e /\ asked'[held'[e][y]].rid = y
                      /\ asked'[held'[e][y]].reply = "open"
                      /\ \A u \in sending' : u.q # held'[e][y]
    BY DEF HeldOwn
  <2>1. PICK i : i = held[e][y]
    OBVIOUS
  <2>2. held'[e][y] = i /\ i # 0 /\ i \in 0 .. Len(asked)
    BY <1>6, <1>h, <2>1
  <2>3. i \in 1 .. Len(asked)
    BY <1>h, <2>2
  <2>4. /\ asked[i].client = e /\ asked[i].rid = y /\ asked[i].reply = "open"
        /\ \A u \in sending : u.q # i
    BY <1>0, <2>1, <2>2 DEF HeldOwn
  <2>5. asked'[i] = asked[i]
    BY <1>1, <2>3, <2>4
  <2> QED BY <1>2, <2>2, <2>4, <2>5
<1>11. OpenHeld'
  <2> SUFFICES ASSUME NEW i \in 1 .. Len(asked), asked'[i].reply = "open"
               PROVE  held'[asked'[i].client][asked'[i].rid] = i \/ \E u \in sending' : u.q = i
    BY <1>1 DEF OpenHeld
  <2>1. i # q
    BY <1>1, <1>3 DEF Answers
  <2>2. asked'[i] = asked[i]
    BY <1>1, <1>3, <2>1
  <2>3. CASE held[asked[i].client][asked[i].rid] = i
    <3>1. asked[i] \in Request
      BY <1>0 DEF TypeInv, TypeAsked
    <3>2. asked[i].client \in Clients /\ asked[i].rid \in Rids /\ asked[i].rid # x
      BY <1>0, <1>3, <1>4, <2>1, <3>1 DEF Request, Unique
    <3> QED BY <1>6, <2>2, <2>3, <3>2
  <2>4. CASE \E u \in sending : u.q = i
    BY <1>2, <1>3, <2>1, <2>4
  <2> QED BY <1>0, <2>2, <2>3, <2>4 DEF OpenHeld
<1>12. SendMeans' /\ Stale'
  <2>1. ASSUME NEW u \in sending' PROVE asked'[u.q].reply = "open"
    <3>1. u \in sending /\ u.q # s.q
      BY <1>0, <1>2 DEF SendMeans
    <3>2. u.q \in 1 .. Len(asked)
      BY <1>h, <3>1
    <3> QED BY <1>0, <1>1, <3>1, <3>2 DEF SendMeans
  <2>2. sending' \subseteq sending /\ client' = client /\ \A h \in Handlers : clicks'[h] = clicks[h]
    BY <1>2
  <2> QED BY <1>1, <1>7, <2>1, <2>2, FlowKept
<1>13. Answered'
  <2> SUFFICES ASSUME NEW i \in 1 .. Len(asked), asked'[i].reply \in Answers
               PROVE  Agreed(i, asked[i].reply)'
    BY <1>1 DEF Answered
  <2>1. PICK a : a = asked'[i].reply
    OBVIOUS
  <2>2. Agreed(i, a)
    <3>1. CASE i = s.q
      BY <1>0, <1>1, <2>1, <3>1 DEF SendMeans
    <3>2. CASE i # s.q
      BY <1>0, <1>1, <2>1, <3>2 DEF Answered
    <3> QED BY <3>1, <3>2
  <2>3. Agreed(i, a)'
    BY <1>0, <1>1, <1>7, <2>2, AgreedKept
  <2> QED BY <2>1, <2>3 DEF Agreed
<1>14. EventsOwn'
  <2>1. \A u \in Tasks, y \in Rids : rows[<<u, y>>].st = "none" => rows'[<<u, y>>].st = "none"
    BY <1>2
  <2> QED BY <1>1, <1>2, <1>7, <2>1, EventsKept
<1>15. DecisionReaches'
  <2> SUFFICES ASSUME NEW u \in Tasks, NEW y \in Rids, rows[<<u, y>>].st \in {"approved", "denied"},
                      asked'[rows[<<u, y>>].q].task = u, asked'[rows[<<u, y>>].q].client = client
               PROVE  asked'[rows[<<u, y>>].q].reply # "open" \/ \E z \in sending' : z.q = rows[<<u, y>>].q
    BY <1>2 DEF DecisionReaches
  <2>1. PICK i : i = rows[<<u, y>>].q
    OBVIOUS
  <2>2. i \in 1 .. Len(asked)
    BY <1>0, <2>1 DEF RowOwn
  <2>3. asked[i].reply # "open" \/ \E z \in sending : z.q = i
    BY <1>0, <1>5, <2>1, <2>2 DEF DecisionReaches
  <2>4. CASE i = s.q
    BY <1>1, <2>1, <2>4 DEF Answers
  <2>5. CASE i # s.q
    BY <1>1, <1>2, <2>1, <2>2, <2>3, <2>5
  <2> QED BY <2>4, <2>5
<1> QED BY <1>t, <1>8, <1>9, <1>10, <1>11, <1>12, <1>13, <1>14, <1>15, FlowJoin

\* close() answers nothing: the open requests of the connection are lost.
LEMMA LostFlow ==
    ASSUME FlowInv, NEW c \in Clients, ConnectionLost(c)
    PROVE  FlowInv'
<1>0. /\ TypeInv /\ Unique /\ RowOwn /\ HeldOwn /\ OpenHeld /\ SendMeans
      /\ Answered /\ EventsOwn /\ Stale /\ DecisionReaches
  BY DEF FlowInv
<1>t. TypeInv'
  BY <1>0, LostType
<1>1. /\ AskedKept /\ Len(asked') = Len(asked)
      /\ \A i \in 1 .. Len(asked) :
           /\ asked[i].client = c /\ asked[i].reply = "open" => asked'[i].reply = "lost"
           /\ asked[i].client # c \/ asked[i].reply # "open" => asked'[i] = asked[i]
  BY <1>0, LostFacts
<1>2. /\ client' = 0
      /\ held' = [held EXCEPT ![c] = [r \in Rids |-> 0]]
      /\ sending' = {s \in sending : asked[s.q].client # c}
      /\ clicks' = [h \in Handlers |->
                     IF clicks[h].at \in {"initialize", "interrupt"} /\ clicks[h].c = c
                     THEN Idle ELSE clicks[h]]
      /\ UNCHANGED <<events, rows, orch>>
  BY DEF ConnectionLost
<1>5. /\ \A i \in 1 .. Len(asked) : asked'[i].rid = asked[i].rid /\ asked'[i].task = asked[i].task
           /\ asked'[i].client = asked[i].client
  BY <1>1 DEF AskedKept
<1>h. /\ held \in [Clients -> [Rids -> 0 .. Len(asked)]] /\ Len(asked) \in Nat
      /\ \A u \in sending : u.q \in 1 .. Len(asked)
  BY <1>0 DEF TypeInv, TypeHeld, TypeAsked
<1>6. /\ \A y \in Rids : held'[c][y] = 0
      /\ \A e \in Clients, y \in Rids : e # c => held'[e][y] = held[e][y]
  BY <1>2, <1>h
<1>7. RowsKept
  BY <1>2 DEF RowsKept
<1>8. Unique'
  BY <1>0, <1>1, <1>5 DEF Unique
<1>9. RowOwn'
  BY <1>0, <1>1, <1>2, <1>5 DEF RowOwn
<1>10. HeldOwn'
  <2> SUFFICES ASSUME NEW e \in Clients, NEW y \in Rids, held'[e][y] # 0
               PROVE  /\ asked'[held'[e][y]].client = e /\ asked'[held'[e][y]].rid = y
                      /\ asked'[held'[e][y]].reply = "open"
                      /\ \A u \in sending' : u.q # held'[e][y]
    BY DEF HeldOwn
  <2>1. PICK i : i = held[e][y]
    OBVIOUS
  <2>2. held'[e][y] = i /\ i # 0 /\ i \in 0 .. Len(asked) /\ e # c
    BY <1>6, <1>h, <2>1
  <2>3. i \in 1 .. Len(asked)
    BY <1>h, <2>2
  <2>4. /\ asked[i].client = e /\ asked[i].rid = y /\ asked[i].reply = "open"
        /\ \A u \in sending : u.q # i
    BY <1>0, <2>1, <2>2 DEF HeldOwn
  <2>5. asked'[i] = asked[i]
    BY <1>1, <2>2, <2>3, <2>4
  <2> QED BY <1>2, <2>2, <2>4, <2>5
<1>11. OpenHeld'
  <2> SUFFICES ASSUME NEW i \in 1 .. Len(asked), asked'[i].reply = "open"
               PROVE  held'[asked'[i].client][asked'[i].rid] = i \/ \E u \in sending' : u.q = i
    BY <1>1 DEF OpenHeld
  <2>1. asked[i].client # c /\ asked'[i] = asked[i]
    BY <1>1
  <2>2. CASE held[asked[i].client][asked[i].rid] = i
    <3>1. asked[i] \in Request
      BY <1>0 DEF TypeInv, TypeAsked
    <3>2. asked[i].client \in Clients /\ asked[i].rid \in Rids
      BY <3>1 DEF Request
    <3> QED BY <1>6, <2>1, <2>2, <3>2
  <2>3. CASE \E u \in sending : u.q = i
    BY <1>2, <2>1, <2>3
  <2> QED BY <1>0, <2>1, <2>2, <2>3 DEF OpenHeld
<1>12. SendMeans' /\ Answered' /\ Stale'
  <2>1. ASSUME NEW u \in sending' PROVE asked'[u.q].reply = "open"
    <3>1. u \in sending /\ asked[u.q].client # c
      BY <1>2
    <3>2. u.q \in 1 .. Len(asked)
      BY <1>h, <3>1
    <3> QED BY <1>0, <1>1, <3>1, <3>2 DEF SendMeans
  <2>2. \A q \in 1 .. Len(asked') : asked'[q].reply \in Answers =>
          q \in 1 .. Len(asked) /\ asked'[q].reply = asked[q].reply
    BY <1>1 DEF Answers
  <2>3. ASSUME NEW h \in Handlers PROVE clicks'[h] = clicks[h] \/ StaleClick(clicks[h])'
    <3>1. CASE clicks'[h] = Idle
      BY <3>1 DEF StaleClick, Idle
    <3> QED BY <1>2, <3>1
  <2>4. sending' \subseteq sending /\ client' = 0
    BY <1>2
  <2> QED BY <1>1, <1>7, <2>1, <2>2, <2>3, <2>4, FlowKept
<1>14. EventsOwn'
  <2>1. \A u \in Tasks, y \in Rids : rows[<<u, y>>].st = "none" => rows'[<<u, y>>].st = "none"
    BY <1>2
  <2> QED BY <1>1, <1>2, <1>7, <2>1, EventsKept
<1>15. DecisionReaches'
  <2> SUFFICES ASSUME NEW u \in Tasks, NEW y \in Rids, rows[<<u, y>>].st \in {"approved", "denied"},
                      asked'[rows[<<u, y>>].q].client = 0
               PROVE  FALSE
    BY <1>2 DEF DecisionReaches
  <2>1. PICK i : i = rows[<<u, y>>].q
    OBVIOUS
  <2>2. i \in 1 .. Len(asked)
    BY <1>0, <2>1 DEF RowOwn
  <2>3. asked[i] \in Request
    BY <1>0, <2>2 DEF TypeInv, TypeAsked
  <2>4. asked[i].client \in Clients
    BY <2>3 DEF Request
  <2> QED BY <1>5, <2>1, <2>2, <2>4 DEF Clients
<1> QED BY <1>t, <1>8, <1>9, <1>10, <1>11, <1>12, <1>14, <1>15, FlowJoin

\* The first handler that connects gets a client that nobody has asked on.
LEMMA ConnectedFlow ==
    ASSUME FlowInv, NEW h \in Handlers, Connected(h)
    PROVE  FlowInv' /\ RowsKept
<1>0. TypeInv /\ RowOwn /\ Stale
  BY DEF FlowInv
<1>t. TypeInv'
  BY <1>0, ConnectedType
<1>1. /\ made' = made + 1 /\ client' = made + 1
      /\ UNCHANGED <<asked, held, sending, events, rows, orch>>
  BY DEF Connected
<1>2. /\ Unique' /\ RowOwn' /\ HeldOwn' /\ OpenHeld' /\ SendMeans' /\ Answered' /\ EventsOwn'
  BY <1>1, FlowSame
<1>3. AskedKept /\ RowsKept
  BY <1>0, <1>1 DEF AskedKept, RowsKept, TypeInv, TypeAsked
<1>n. made \in Nat /\ client' > made
  BY <1>0, <1>1, ApprovalAssumption DEF TypeInv, TypeAsked
<1>a. \A i \in 1 .. Len(asked) : asked[i].client # made + 1
  <2> TAKE i \in 1 .. Len(asked)
  <2>1. asked[i] \in Request /\ asked[i].client <= made
    BY <1>0 DEF TypeInv, TypeAsked
  <2>2. asked[i].client \in Nat
    BY <2>1 DEF Request, Clients
  <2> QED BY <1>n, <2>1, <2>2
<1>4. DecisionReaches'
  <2> SUFFICES ASSUME NEW u \in Tasks, NEW y \in Rids, rows[<<u, y>>].st \in {"approved", "denied"},
                      asked[rows[<<u, y>>].q].client = made + 1
               PROVE  FALSE
    BY <1>1 DEF DecisionReaches
  <2>1. rows[<<u, y>>].q \in 1 .. Len(asked)
    BY <1>0 DEF RowOwn
  <2> QED BY <1>a, <2>1
<1>5. Stale'
  <2>1. PICK k, x : k = clicks[h] /\
          x = [at |-> "initialize", t |-> k.t, rid |-> k.rid, act |-> k.act,
               c |-> made + 1, own |-> k.own, todo |-> k.todo]
    OBVIOUS
  <2>2. clicks' = [clicks EXCEPT ![h] = x] /\ k.at = "connect" /\ clicks \in [Handlers -> Click]
    BY <1>0, <2>1, ConnectedFacts DEF TypeInv, TypeClicks
  <2>3. k \in Click /\ StaleClick(k)
    BY <1>0, <2>1, <2>2 DEF Stale
  <2>4. StaleClick(k)'
    BY <1>0, <1>3, <1>n, <2>3, StaleKept
  <2>5. k.t \in Tasks /\ k.todo \in SUBSET Rids
    BY <2>2, <2>3, ClickFacts
  <2>6. ASSUME NEW r \in k.todo PROVE asked'[rows'[<<k.t, r>>].q].client # made + 1
    <3>1. rows[<<k.t, r>>].st # "none"
      BY <2>2, <2>3, <2>6 DEF StaleClick
    <3>2. rows[<<k.t, r>>].q \in 1 .. Len(asked)
      BY <1>0, <2>5, <3>1 DEF RowOwn
    <3> QED BY <1>1, <1>a, <3>2
  <2>7. StaleClick(x)'
    <3>1. /\ x.t = k.t /\ x.rid = k.rid /\ x.own = k.own /\ x.todo = k.todo /\ x.c = made + 1
      BY <2>1
    <3> QED BY <2>2, <2>4, <2>6, <3>1 DEF StaleClick
  <2>8. \A g \in Handlers : clicks'[g] = clicks[g] \/ clicks'[g] = x
    BY <2>2
  <2>9. ASSUME NEW g \in Handlers PROVE clicks'[g] = clicks[g] \/ StaleClick(clicks[g])'
    <3>1. CASE clicks'[g] = x
      BY <2>7, <3>1 DEF StaleClick
    <3> QED BY <2>8, <3>1
  <2> QED BY <1>3, <1>n, <2>9, FlowKept
<1> QED BY <1>t, <1>2, <1>3, <1>4, <1>5, FlowJoin

\* With one request for an id, what is held under the id of a row is its request.
LEMMA HeldOfRow ==
    ASSUME FlowInv, NEW t \in Tasks, NEW r \in Rids, NEW c \in Clients,
           rows[<<t, r>>].st # "none", held[c][r] # 0
    PROVE  /\ held[c][r] = rows[<<t, r>>].q /\ held[c][r] \in 1 .. Len(asked)
           /\ asked[held[c][r]].client = c /\ asked[held[c][r]].rid = r /\ asked[held[c][r]].task = t
<1>0. TypeInv /\ Unique /\ RowOwn /\ HeldOwn
  BY DEF FlowInv
<1>1. PICK i, q : i = held[c][r] /\ q = rows[<<t, r>>].q
  OBVIOUS
<1>2. i \in 0 .. Len(asked) /\ Len(asked) \in Nat
  BY <1>0, <1>1 DEF TypeInv, TypeHeld, TypeAsked
<1>3. i \in 1 .. Len(asked)
  BY <1>1, <1>2
<1>4. asked[i].client = c /\ asked[i].rid = r
  BY <1>0, <1>1 DEF HeldOwn
<1>5. q \in 1 .. Len(asked) /\ asked[q].task = t /\ asked[q].rid = r
  BY <1>0, <1>1 DEF RowOwn
<1>6. i = q
  BY <1>0, <1>3, <1>4, <1>5 DEF Unique
<1> QED BY <1>1, <1>3, <1>4, <1>5, <1>6

\* An id has rows of one task only.
LEMMA OneTask ==
    ASSUME FlowInv, NEW t \in Tasks, NEW u \in Tasks, NEW r \in Rids,
           rows[<<t, r>>].st # "none", rows[<<u, r>>].st # "none"
    PROVE  t = u
<1>0. Unique /\ RowOwn
  BY DEF FlowInv
<1>1. PICK i, j : i = rows[<<t, r>>].q /\ j = rows[<<u, r>>].q
  OBVIOUS
<1>2. /\ i \in 1 .. Len(asked) /\ asked[i].task = t /\ asked[i].rid = r
      /\ j \in 1 .. Len(asked) /\ asked[j].task = u /\ asked[j].rid = r
  BY <1>0, <1>1 DEF RowOwn
<1>3. i = j
  BY <1>0, <1>2 DEF Unique
<1> QED BY <1>2, <1>3

\* What a handler may send: rows that exist, of the kind that was clicked; a future that is held is that of a pending
\* row; a request of the current client is sent on the current client.
Sendable(m, k) ==
    /\ m[1] \in Clients /\ m[2] \in Rids /\ m = <<m[1], m[2]>>
    /\ rows[<<k.t, m[2]>>].st # "none"
    /\ rows[<<k.t, m[2]>>].kind = rows[<<k.t, k.rid>>].kind
    /\ held[m[1]][m[2]] # 0 => rows[<<k.t, m[2]>>].st = "pending"
    /\ m[1] = client \/ asked[rows[<<k.t, m[2]>>].q].client # client

\* The rows after resolve_approval.
LEMMA SentRows ==
    ASSUME FlowInv, NEW M, NEW k, k.t \in Tasks, RowsSent(M, k),
           rows' \in [Tasks \X Rids -> RowType], asked' = asked
    PROVE  /\ RowsKept /\ RowOwn' /\ AskedKept
           /\ \A u \in Tasks, y \in Rids : rows[<<u, y>>].st = "none" => rows'[<<u, y>>].st = "none"
<1>0. TypeInv /\ RowOwn
  BY DEF FlowInv
<1>1. \A u \in Tasks, y \in Rids :
        \/ rows'[<<u, y>>] = rows[<<u, y>>]
        \/ /\ rows[<<u, y>>].st = "pending" /\ rows'[<<u, y>>].st # "none"
           /\ rows'[<<u, y>>].q = rows[<<u, y>>].q /\ rows'[<<u, y>>].kind = rows[<<u, y>>].kind
  BY DEF RowsSent, Decided
<1>2. RowsKept
  BY <1>1 DEF RowsKept, Decided
<1>3. \A u \in Tasks, y \in Rids : rows[<<u, y>>].st = "none" => rows'[<<u, y>>].st = "none"
  BY <1>1
<1>4. RowOwn'
  BY <1>0, <1>2, <1>3 DEF RowOwn, RowsKept
<1>5. AskedKept
  BY <1>0 DEF AskedKept, TypeInv, TypeAsked
<1> QED BY <1>2, <1>3, <1>4, <1>5

\* backend.resolve_approval keeps the flow.
LEMMA SentFlow ==
    ASSUME FlowInv, NEW M, M \subseteq Clients \X AskedRids, NEW k, k.t \in Tasks, k.act \in Buttons,
           Sent(M, k), \A m \in M : Sendable(m, k), UNCHANGED <<client, asked, orch>>
    PROVE  Unique' /\ RowOwn' /\ HeldOwn' /\ OpenHeld' /\ SendMeans' /\ Answered' /\ EventsOwn'
           /\ DecisionReaches'
<1>0. /\ TypeInv /\ Unique /\ RowOwn /\ HeldOwn /\ OpenHeld /\ SendMeans
      /\ Answered /\ EventsOwn /\ DecisionReaches
  BY DEF FlowInv
<1>a. PICK a : a = AnswerBy(k)
  OBVIOUS
<1>1. /\ \A c \in Clients, r \in Rids :
           held'[c][r] = IF <<c, r>> \in M THEN 0 ELSE held[c][r]
      /\ sending \subseteq sending'
      /\ \A s \in sending' : s \in sending \/ \E m \in M :
           s = [q |-> held[m[1]][m[2]], a |-> a] /\ s.q # 0
      /\ \A m \in M : held[m[1]][m[2]] # 0 => [q |-> held[m[1]][m[2]], a |-> a] \in sending'
      /\ rows' \in [Tasks \X Rids -> RowType]
      /\ RowsSent(M, k)
      /\ \A m \in M : rows'[<<k.t, m[2]>>].st # "pending"
  <2>1. /\ HeldSent(M) /\ SendingSent(M, k) /\ rows' \in [Tasks \X Rids -> RowType] /\ RowsSent(M, k)
        /\ \A m \in M : rows'[<<k.t, m[2]>>].st # "pending"
    BY <1>0, SentFacts
  <2> QED BY <1>a, <2>1 DEF HeldSent, SendingSent
<1>2. /\ events' \in Seq(Event) /\ Len(events') >= Len(events)
      /\ \A i \in 1 .. Len(events) : events'[i] = events[i]
      /\ \A i \in 1 .. Len(events') : i > Len(events) =>
           events'[i].type = "resolved" /\ \E m \in M : events'[i].rid = m[2]
  <2>1. EventsSent(M)
    BY <1>0, SentFacts
  <2> QED BY <2>1 DEF EventsSent
<1>3. /\ RowsKept /\ RowOwn' /\ AskedKept
      /\ \A u \in Tasks, y \in Rids : rows[<<u, y>>].st = "none" => rows'[<<u, y>>].st = "none"
  BY <1>1, SentRows
<1>4. \A m \in M :
        /\ m[1] \in Clients /\ m[2] \in Rids /\ m = <<m[1], m[2]>>
        /\ rows[<<k.t, m[2]>>].st # "none"
        /\ rows[<<k.t, m[2]>>].kind = rows[<<k.t, k.rid>>].kind
        /\ held[m[1]][m[2]] # 0 => rows[<<k.t, m[2]>>].st = "pending"
        /\ m[1] = client \/ asked[rows[<<k.t, m[2]>>].q].client # client
  BY DEF Sendable
<1>5. Unique'
  BY FlowSame
<1>6. HeldOwn'
  <2> SUFFICES ASSUME NEW d \in Clients, NEW y \in Rids, held'[d][y] # 0
               PROVE  /\ asked[held'[d][y]].client = d /\ asked[held'[d][y]].rid = y
                      /\ asked[held'[d][y]].reply = "open"
                      /\ \A u \in sending' : u.q # held'[d][y]
    BY DEF HeldOwn
  <2>1. <<d, y>> \notin M /\ held'[d][y] = held[d][y]
    BY <1>1
  <2>2. PICK i : i = held[d][y]
    OBVIOUS
  <2>3. /\ asked[i].client = d /\ asked[i].rid = y /\ asked[i].reply = "open"
        /\ \A u \in sending : u.q # i
    BY <1>0, <2>1, <2>2 DEF HeldOwn
  <2>4. ASSUME NEW u \in sending', u \notin sending, u.q = i PROVE FALSE
    <3>1. PICK m \in M : u = [q |-> held[m[1]][m[2]], a |-> a] /\ u.q # 0
      BY <1>1, <2>4
    <3>2. held[m[1]][m[2]] = i /\ held[m[1]][m[2]] # 0
      BY <2>4, <3>1
    <3>3. m[1] \in Clients /\ m[2] \in Rids /\ m = <<m[1], m[2]>>
      BY <1>4
    <3>4. asked[i].client = m[1] /\ asked[i].rid = m[2]
      BY <1>0, <3>2, <3>3 DEF HeldOwn
    <3> QED BY <2>1, <2>3, <3>3, <3>4
  <2> QED BY <2>1, <2>2, <2>3, <2>4
<1>7. OpenHeld'
  <2> SUFFICES ASSUME NEW i \in 1 .. Len(asked), asked[i].reply = "open"
               PROVE  held'[asked[i].client][asked[i].rid] = i \/ \E u \in sending' : u.q = i
    BY DEF OpenHeld
  <2>1. PICK d, y : d = asked[i].client /\ y = asked[i].rid
    OBVIOUS
  <2>2. asked[i] \in Request
    BY <1>0 DEF TypeInv, TypeAsked
  <2>3. d \in Clients /\ y \in Rids
    BY <2>1, <2>2 DEF Request
  <2>4. CASE held[d][y] = i /\ <<d, y>> \in M
    <3>1. PICK m \in M : m = <<d, y>>
      BY <2>4
    <3>2. m[1] = d /\ m[2] = y
      BY <3>1
    <3>3. i # 0
      OBVIOUS
    <3>4. [q |-> i, a |-> a] \in sending'
      BY <1>1, <2>4, <3>2, <3>3
    <3> QED BY <3>4
  <2>5. CASE held[d][y] = i /\ <<d, y>> \notin M
    BY <1>1, <2>1, <2>3, <2>5
  <2>6. CASE \E u \in sending : u.q = i
    BY <1>1, <2>6
  <2> QED BY <1>0, <2>1, <2>4, <2>5, <2>6 DEF OpenHeld
<1>8. SendMeans'
  <2>1. ASSUME NEW s \in sending', s \notin sending
        PROVE  /\ asked[s.q].reply = "open" /\ Agreed(s.q, s.a)'
               /\ s = [q |-> s.q, a |-> a] /\ \A u \in sending : u.q # s.q
    <3>1. PICK m \in M : s = [q |-> held[m[1]][m[2]], a |-> a] /\ s.q # 0
      BY <1>1, <2>1
    <3>2. PICK i, c, r : i = held[m[1]][m[2]] /\ c = m[1] /\ r = m[2]
      OBVIOUS
    <3>3. s.q = i /\ s.a = a /\ i = held[c][r] /\ i # 0
      BY <3>1, <3>2
    <3>4. /\ c \in Clients /\ r \in Rids /\ rows[<<k.t, r>>].st = "pending"
          /\ rows[<<k.t, r>>].kind = rows[<<k.t, k.rid>>].kind
      BY <1>4, <3>2, <3>3
    <3>5. /\ i = rows[<<k.t, r>>].q /\ asked[i].rid = r /\ asked[i].task = k.t
      BY <3>3, <3>4, HeldOfRow
    <3>6. asked[i].reply = "open" /\ \A u \in sending : u.q # i
      BY <1>0, <3>3, <3>4 DEF HeldOwn
    <3>7. rows'[<<k.t, r>>].st # "pending"
      BY <1>1, <3>2
    <3>8. rows'[<<k.t, r>>].q = i /\ Means(a, Ruling(rows'[<<k.t, r>>]))
      BY <1>1, <1>a, <3>4, <3>5, <3>7 DEF RowsSent
    <3>9. Agreed(i, a)'
      BY <3>5, <3>8 DEF Agreed
    <3>10. Agreed(s.q, s.a)'
      BY <3>3, <3>9 DEF Agreed
    <3> QED BY <3>1, <3>3, <3>6, <3>10
  <2>2. ASSUME NEW s \in sending PROVE asked[s.q].reply = "open" /\ Agreed(s.q, s.a)'
    <3>1. PICK q, b : q = s.q /\ b = s.a
      OBVIOUS
    <3>2. q \in 1 .. Len(asked) /\ asked[q].reply = "open" /\ Agreed(q, b)
      BY <1>0, <3>1 DEF TypeInv, TypeHeld, SendMeans
    <3>3. Agreed(q, b)'
      BY <1>0, <1>3, <3>2, AgreedKept
    <3> QED BY <3>1, <3>2, <3>3 DEF Agreed
  <2>3. ASSUME NEW s \in sending', NEW u \in sending', s.q = u.q PROVE s = u
    <3>1. CASE s \in sending /\ u \in sending
      BY <1>0, <2>3, <3>1 DEF SendMeans
    <3>2. CASE s \notin sending /\ u \notin sending
      BY <2>1, <2>3, <3>2
    <3>3. CASE s \in sending /\ u \notin sending
      BY <2>1, <2>3, <3>3
    <3>4. CASE s \notin sending /\ u \in sending
      BY <2>1, <2>3, <3>4
    <3> QED BY <3>1, <3>2, <3>3, <3>4
  <2>4. \A s \in sending' : asked'[s.q].reply = "open" /\ Agreed(s.q, s.a)'
    BY <2>1, <2>2
  <2> QED BY <2>3, <2>4 DEF SendMeans
<1>9. Answered'
  <2>1. \A q \in 1 .. Len(asked') : asked'[q].reply \in Answers =>
          q \in 1 .. Len(asked) /\ asked'[q].reply = asked[q].reply
    OBVIOUS
  <2> QED BY <1>3, <2>1, FlowKept
<1>10. EventsOwn'
  <2>1. events \in Seq(Event) /\ Len(events) \in Nat /\ Len(events') \in Nat
    BY <1>0, <1>2 DEF TypeInv, TypeEvents
  <2>2. \A i \in 1 .. Len(events') : i \in 1 .. Len(events) \/ i > Len(events)
    BY <2>1
  <2>3. ASSUME NEW i \in 1 .. Len(events'), events'[i].type = "resolved"
        PROVE  \E u \in Tasks : rows'[<<u, events'[i].rid>>].st \in Decided
    <3>1. CASE i \in 1 .. Len(events)
      <4>1. events'[i] = events[i]
        BY <1>2, <3>1
      <4>2. PICK u \in Tasks : rows[<<u, events[i].rid>>].st \in Decided
        BY <1>0, <2>3, <3>1, <4>1 DEF EventsOwn
      <4>3. events[i].rid \in Rids
        BY <1>0, <2>3, <3>1, <4>1, EventFacts
      <4>4. rows'[<<u, events[i].rid>>].st = rows[<<u, events[i].rid>>].st
        BY <1>3, <4>2, <4>3 DEF RowsKept, Decided
      <4> QED BY <4>1, <4>2, <4>4
    <3>2. CASE i > Len(events)
      <4>1. PICK m \in M : events'[i].rid = m[2]
        BY <1>2, <3>2
      <4>2. PICK r : r = m[2]
        OBVIOUS
      <4>3. r \in Rids /\ rows[<<k.t, r>>].st # "none" /\ rows'[<<k.t, r>>].st # "pending"
        BY <1>1, <1>4, <4>2
      <4>4. rows'[<<k.t, r>>].st # "none" /\ rows'[<<k.t, r>>] \in RowType
        BY <1>1, <1>3, <4>3 DEF RowsKept
      <4>5. rows'[<<k.t, r>>].st \in Decided
        BY <4>3, <4>4, RowFacts
      <4> QED BY <4>1, <4>2, <4>5
    <3> QED BY <2>2, <3>1, <3>2
  <2>4. ASSUME NEW i \in 1 .. Len(events'), events'[i].type = "requested"
        PROVE  i \in 1 .. Len(events) /\ events'[i] = events[i]
    BY <1>2, <2>2, <2>4
  <2>5. ASSUME NEW i \in 1 .. Len(events'), events'[i].type = "requested",
               asked[events'[i].q].task \notin orch
        PROVE  rows'[<<asked[events'[i].q].task, asked[events'[i].q].rid>>].st = "none"
    <3>1. i \in 1 .. Len(events) /\ events'[i] = events[i]
      BY <2>4, <2>5
    <3>2. PICK q, t, r : q = events[i].q /\ t = asked[q].task /\ r = asked[q].rid
      OBVIOUS
    <3>3. q \in 1 .. Len(asked)
      BY <1>0, <2>5, <3>1, <3>2, EventFacts
    <3>4. asked[q] \in Request
      BY <1>0, <3>3 DEF TypeInv, TypeAsked
    <3>5. t \in Tasks /\ r \in Rids
      BY <3>2, <3>4 DEF Request
    <3>6. rows[<<t, r>>].st = "none"
      BY <1>0, <2>5, <3>1, <3>2 DEF EventsOwn
    <3> QED BY <1>3, <3>1, <3>2, <3>5, <3>6
  <2>6. ASSUME NEW i \in 1 .. Len(events'), events'[i].type = "requested",
               NEW j \in 1 .. Len(events'), j # i, events'[j].type = "requested"
        PROVE  events'[j].q # events'[i].q
    <3>1. i \in 1 .. Len(events) /\ events'[i] = events[i] /\ j \in 1 .. Len(events) /\ events'[j] = events[j]
      BY <2>4, <2>6
    <3> QED BY <1>0, <2>6, <3>1 DEF EventsOwn
  <2> QED BY <2>3, <2>5, <2>6 DEF EventsOwn
<1>11. DecisionReaches'
  <2> SUFFICES ASSUME NEW u \in Tasks, NEW y \in Rids, rows'[<<u, y>>].st \in {"approved", "denied"},
                      asked[rows'[<<u, y>>].q].task = u, asked[rows'[<<u, y>>].q].client = client,
                      asked[rows'[<<u, y>>].q].reply = "open"
               PROVE  \E s \in sending' : s.q = rows'[<<u, y>>].q
    BY DEF DecisionReaches
  <2>1. CASE rows'[<<u, y>>] = rows[<<u, y>>]
    BY <1>0, <1>1, <2>1 DEF DecisionReaches
  <2>2. CASE rows'[<<u, y>>] # rows[<<u, y>>]
    <3>1. /\ rows[<<u, y>>].st = "pending" /\ rows'[<<u, y>>].q = rows[<<u, y>>].q
          /\ \E m \in M : m[2] = y
      BY <1>1, <2>2 DEF RowsSent
    <3>2. PICK m \in M : m[2] = y
      BY <3>1
    <3>3. u = k.t
      <4>1. rows[<<k.t, y>>].st # "none" /\ rows[<<u, y>>].st # "none"
        BY <1>4, <3>1, <3>2
      <4> QED BY <4>1, OneTask
    <3>4. PICK q : q = rows[<<u, y>>].q
      OBVIOUS
    <3>5. q \in 1 .. Len(asked) /\ asked[q].rid = y /\ asked[q].client = client /\ asked[q].reply = "open"
      BY <1>0, <3>1, <3>4 DEF RowOwn
    <3>6. m[1] = client /\ m = <<client, y>>
      BY <1>4, <3>2, <3>3, <3>4, <3>5
    <3>7. CASE held[client][y] = q
      <4>1. q # 0
        BY <3>5
      <4>2. [q |-> q, a |-> a] \in sending'
        BY <1>1, <3>2, <3>6, <3>7, <4>1
      <4> QED BY <3>1, <3>4, <4>2
    <3>8. CASE \E s \in sending : s.q = q
      BY <1>1, <3>1, <3>4, <3>8
    <3> QED BY <1>0, <3>5, <3>7, <3>8 DEF OpenHeld
  <2> QED BY <2>1, <2>2
<1> QED BY <1>3, <1>5, <1>6, <1>7, <1>8, <1>9, <1>10, <1>11

\* What a handler that sends has in hand.
Ready(k, c) ==
    /\ k.own => k.todo = {k.rid}
    /\ ~k.own => k.rid \notin k.todo /\ rows[<<k.t, k.rid>>].st # "none"
    /\ \A r \in k.todo :
         /\ rows[<<k.t, r>>].st # "none"
         /\ rows[<<k.t, r>>].kind = rows[<<k.t, k.rid>>].kind
         /\ held[c][r] # 0 => rows[<<k.t, r>>].st = "pending"
         /\ c = client \/ asked[rows[<<k.t, r>>].q].client # client
         /\ ~k.own => asked[rows[<<k.t, r>>].q].client # client

\* One request is sent, the rest at once or after another handshake.
Resolves(h, k, c, r, rest, now) ==
    /\ r \in k.todo
    /\ rest = (IF k.own THEN Batch(k) ELSE k.todo \ {r})
    /\ now = (IF client = 0 THEN {} ELSE rest)
    /\ Sent(Targets(c, r, now), k)
    /\ \/ /\ k.act = "cancel" /\ rows[<<k.t, k.rid>>].kind \in Permission
          /\ clicks' = [clicks EXCEPT ![h] = [k EXCEPT !.at = "interrupt", !.c = client]]
          /\ UNCHANGED <<count, st>>
       \/ /\ count' = Decremented(k.t, 1 + Cardinality(now))
          /\ rest = now /\ clicks' = [clicks EXCEPT ![h] = Idle] /\ st' = Released(k.t, rows')
       \/ /\ rest # now
          /\ clicks' = [clicks EXCEPT ![h] = [k EXCEPT !.at = "connect", !.own = FALSE, !.todo = rest]]
          /\ UNCHANGED st
    /\ UNCHANGED <<client, alive, made, asked, orch, prompts>>

LEMMA ResolveFacts ==
    ASSUME NEW h, NEW k, NEW c, Resolve(h, k, c)
    PROVE  \E r, rest, now : Resolves(h, k, c, r, rest, now)
<1>1. PICK r, rest, now :
        /\ r \in k.todo
        /\ rest = (IF k.own THEN Batch(k) ELSE k.todo \ {r})
        /\ now = (IF client = 0 THEN {} ELSE rest)
        /\ Sent(Targets(c, r, now), k)
        /\ \/ /\ k.act = "cancel" /\ rows[<<k.t, k.rid>>].kind \in Permission
              /\ clicks' = [clicks EXCEPT ![h] = [k EXCEPT !.at = "interrupt", !.c = client]]
              /\ UNCHANGED <<count, st>>
           \/ /\ count' = Decremented(k.t, 1 + Cardinality(now))
              /\ IF rest = now
                 THEN clicks' = [clicks EXCEPT ![h] = Idle] /\ st' = Released(k.t, rows')
                 ELSE /\ clicks' = [clicks EXCEPT ![h] =
                                      [k EXCEPT !.at = "connect", !.own = FALSE, !.todo = rest]]
                      /\ UNCHANGED st
        /\ UNCHANGED <<client, alive, made, asked, orch, prompts>>
  BY DEF Resolve, Targets
<1>2. Resolves(h, k, c, r, rest, now)
  BY <1>1 DEF Resolves
<1> QED BY <1>2

\* Everything that Resolve sends may be sent.
LEMMA ReadySendable ==
    ASSUME FlowInv, NEW k \in Click, k # Idle, k.todo \subseteq AskedRids, NEW c \in Clients, Ready(k, c),
           NEW h, NEW r, NEW rest, NEW now, Resolves(h, k, c, r, rest, now)
    PROVE  /\ rest \subseteq AskedRids /\ r \in AskedRids
           /\ Targets(c, r, now) \subseteq Clients \X AskedRids
           /\ \A m \in Targets(c, r, now) : Sendable(m, k)
<1>0. TypeInv
  BY DEF FlowInv
<1>k. k.t \in Tasks /\ k.todo \in SUBSET Rids
  BY ClickFacts
<1>1. /\ r \in k.todo /\ rest = (IF k.own THEN Batch(k) ELSE k.todo \ {r})
      /\ now = (IF client = 0 THEN {} ELSE rest)
  BY DEF Resolves
<1>2. rest \subseteq AskedRids /\ r \in AskedRids
  BY <1>0, <1>k, <1>1, BatchFacts
<1>3. /\ Targets(c, r, now) \subseteq Clients \X AskedRids
      /\ \A m \in Targets(c, r, now) : m = <<c, r>> \/ (client # 0 /\ m[1] = client /\ m[2] \in rest)
  BY <1>0, <1>1, <1>2, TargetsType
<1>4. ASSUME NEW m \in Targets(c, r, now) PROVE Sendable(m, k)
  <2>1. m[1] \in Clients /\ m[2] \in Rids /\ m = <<m[1], m[2]>>
    BY <1>0, <1>3, AskedFinite DEF TypeInv
  <2>2. CASE m = <<c, r>>
    <3>1. m[1] = c /\ m[2] = r
      BY <2>2
    <3> QED BY <1>1, <2>1, <3>1 DEF Ready, Sendable
  <2>3. CASE client # 0 /\ m[1] = client /\ m[2] \in rest
    <3>1. PICK x : x = m[2]
      OBVIOUS
    <3>2. CASE k.own
      <4>1. rows[<<k.t, x>>].st = "pending" /\ rows[<<k.t, x>>].kind = rows[<<k.t, k.rid>>].kind
        BY <1>0, <1>k, <1>1, <2>3, <3>1, <3>2, BatchFacts
      <4> QED BY <2>1, <2>3, <3>1, <4>1 DEF Sendable
    <3>3. CASE ~k.own
      <4>1. x \in k.todo
        BY <1>1, <2>3, <3>1, <3>3
      <4>2. /\ rows[<<k.t, x>>].st # "none" /\ asked[rows[<<k.t, x>>].q].client # client
            /\ rows[<<k.t, x>>].kind = rows[<<k.t, k.rid>>].kind
        BY <3>3, <4>1 DEF Ready
      <4>3. ASSUME held[client][x] # 0 PROVE FALSE
        <5>1. PICK d \in Clients : d = client
          BY <2>1, <2>3
        <5>2. held[d][x] = rows[<<k.t, x>>].q /\ asked[held[d][x]].client = d
          BY <1>k, <2>1, <3>1, <4>2, <4>3, <5>1, HeldOfRow
        <5> QED BY <4>2, <5>1, <5>2
      <4> QED BY <2>1, <2>3, <3>1, <4>2, <4>3 DEF Sendable
    <3> QED BY <3>2, <3>3
  <2> QED BY <1>3, <2>2, <2>3
<1> QED BY <1>2, <1>3, <1>4

LEMMA ResolveFlow ==
    ASSUME FlowInv, NEW h \in Handlers, NEW k \in Click, k # Idle, k.todo \subseteq AskedRids,
           NEW c \in Clients, Ready(k, c), Resolve(h, k, c)
    PROVE  FlowInv' /\ RowsKept
<1>0. TypeInv /\ RowOwn
  BY DEF FlowInv
<1>t. TypeInv'
  BY <1>0, ResolveType
<1>k. /\ k.t \in Tasks /\ k.rid \in Rids /\ k.act \in Buttons /\ k.todo \in SUBSET Rids
      /\ k.own \in BOOLEAN
      /\ k = [at |-> k.at, t |-> k.t, rid |-> k.rid, act |-> k.act, c |-> k.c,
              own |-> k.own, todo |-> k.todo]
  BY ClickFacts
<1>1. PICK r, rest, now : Resolves(h, k, c, r, rest, now)
  BY ResolveFacts
<1>2. /\ rest \subseteq AskedRids
      /\ Targets(c, r, now) \subseteq Clients \X AskedRids
      /\ \A m \in Targets(c, r, now) : Sendable(m, k)
  BY <1>1, ReadySendable
<1>3. UNCHANGED <<client, asked, orch>> /\ Sent(Targets(c, r, now), k)
  BY <1>1 DEF Resolves
<1>m. PICK M : M = Targets(c, r, now)
  OBVIOUS
<1>n. M \subseteq Clients \X AskedRids /\ (\A m \in M : Sendable(m, k)) /\ Sent(M, k)
  BY <1>2, <1>3, <1>m
<1>4. /\ Unique' /\ RowOwn' /\ HeldOwn' /\ OpenHeld' /\ SendMeans' /\ Answered' /\ EventsOwn'
      /\ DecisionReaches'
  BY <1>k, <1>n, <1>3, SentFlow
<1>5. RowsSent(M, k) /\ rows' \in [Tasks \X Rids -> RowType]
  BY <1>0, <1>k, <1>n, SentFacts
<1>6. RowsKept /\ AskedKept
  BY <1>k, <1>3, <1>5, SentRows
<1>7. Stale'
  <2>1. clicks \in [Handlers -> Click]
    BY <1>0 DEF TypeInv, TypeClicks
  <2>2. PICK x : clicks' = [clicks EXCEPT ![h] = x] /\
                 \/ x = Idle
                 \/ x = [k EXCEPT !.at = "interrupt", !.c = client]
                 \/ x = [k EXCEPT !.at = "connect", !.own = FALSE, !.todo = rest] /\ rest # now
    BY <1>1 DEF Resolves
  <2>3. StaleClick(x)'
    <3>1. CASE x = Idle
      BY <3>1 DEF StaleClick, Idle
    <3>2. CASE x = [k EXCEPT !.at = "interrupt", !.c = client]
      <4>1. x.at = "interrupt"
        BY <1>k, <3>2
      <4> QED BY <4>1 DEF StaleClick
    <3>3. CASE x = [k EXCEPT !.at = "connect", !.own = FALSE, !.todo = rest] /\ rest # now
      <4>1. x = [at |-> "connect", t |-> k.t, rid |-> k.rid, act |-> k.act, c |-> k.c,
                 own |-> FALSE, todo |-> rest]
        BY <1>k, <3>3
      <4>2. /\ rest = (IF k.own THEN Batch(k) ELSE k.todo \ {r}) /\ client = 0
        BY <1>1, <3>3 DEF Resolves
      <4>3. rest \subseteq Rids
        BY <1>0, <1>2, AskedFinite DEF TypeInv
      <4>4. /\ k.rid \notin rest /\ rows[<<k.t, k.rid>>].st # "none"
            /\ \A y \in rest : /\ rows[<<k.t, y>>].st # "none"
                              /\ rows[<<k.t, y>>].kind = rows[<<k.t, k.rid>>].kind
        <5>1. CASE k.own
          <6>1. \A y \in rest : /\ y # k.rid /\ rows[<<k.t, y>>].st = "pending"
                               /\ rows[<<k.t, y>>].kind = rows[<<k.t, k.rid>>].kind
            BY <1>0, <1>k, <4>2, <5>1, BatchFacts
          <6>2. rows[<<k.t, k.rid>>].st # "none"
            BY <5>1 DEF Ready
          <6> QED BY <6>1, <6>2
        <5>2. CASE ~k.own
          BY <4>2, <5>2 DEF Ready
        <5> QED BY <5>1, <5>2
      <4>5. ASSUME NEW y \in rest
            PROVE  /\ rows'[<<k.t, y>>].st # "none" /\ asked'[rows'[<<k.t, y>>].q].client # client'
                   /\ rows'[<<k.t, y>>].kind = rows'[<<k.t, k.rid>>].kind
        <5>1. PICK q : q = rows[<<k.t, y>>].q
          OBVIOUS
        <5>2. y \in Rids /\ rows'[<<k.t, y>>].st # "none" /\ rows'[<<k.t, y>>].q = q
          BY <1>k, <1>6, <4>3, <4>4, <5>1 DEF RowsKept
        <5>3. q \in 1 .. Len(asked)
          BY <1>0, <1>k, <4>3, <4>4, <5>1 DEF RowOwn
        <5>4. asked[q] \in Request
          BY <1>0, <5>3 DEF TypeInv, TypeAsked
        <5>5. asked[q].client # 0
          BY <5>4 DEF Request, Clients
        <5>6. rows'[<<k.t, y>>].kind = rows'[<<k.t, k.rid>>].kind
          BY <1>k, <1>6, <4>4, <5>2 DEF RowsKept
        <5> QED BY <1>3, <4>2, <5>2, <5>5, <5>6
      <4>6. rows'[<<k.t, k.rid>>].st # "none"
        BY <1>k, <1>6, <4>4 DEF RowsKept
      <4>7. x.own = FALSE /\ x.todo = rest /\ x.rid = k.rid /\ x.t = k.t /\ x.at = "connect"
        BY <4>1
      <4> QED BY <4>4, <4>5, <4>6, <4>7 DEF StaleClick
    <3> QED BY <2>2, <3>1, <3>2, <3>3
  <2>4. \A g \in Handlers : clicks'[g] = clicks[g] \/ clicks'[g] = x
    BY <2>1, <2>2
  <2>5. ASSUME NEW g \in Handlers PROVE clicks'[g] = clicks[g] \/ StaleClick(clicks[g])'
    <3>1. CASE clicks'[g] = x
      BY <2>3, <3>1 DEF StaleClick
    <3> QED BY <2>4, <3>1
  <2>6. client' = client
    BY <1>3
  <2> QED BY <1>6, <2>5, <2>6, FlowKept
<1> QED BY <1>t, <1>4, <1>6, <1>7, FlowJoin

\* A button that is pressed: the row exists, and its id is sent on the current client.
LEMMA PressFlow ==
    ASSUME FlowInv, NEW h \in Handlers, NEW t \in Tasks, NEW r \in Rids, NEW act \in Buttons,
           Press(h, t, r, act)
    PROVE  FlowInv' /\ RowsKept
<1>0. TypeInv /\ RowOwn /\ DecisionReaches
  BY DEF FlowInv
<1>t. TypeInv'
  BY <1>0, PressType
<1>k. PICK k : k = Pressed(t, r, act)
  OBVIOUS
<1>1. k \in Click /\ k # Idle /\ k.todo \subseteq AskedRids /\ rows[<<t, r>>].st # "none"
  BY <1>0, <1>k, PressedType, PressFacts
<1>2. k.t = t /\ k.rid = r /\ k.own = TRUE /\ k.todo = {r} /\ k.at = "connect"
  BY <1>k DEF Pressed
<1>o. PressOutcome(h, t, r, act)
  BY PressFacts
<1>3. CASE /\ rows' = Resolved(rows, {<<t, r>>}, "cancelled")
           /\ UNCHANGED <<client, asked, held, sending, events, orch, clicks>>
  <2>1. PICK P, v : P = {<<t, r>>} /\ v = "cancelled"
    OBVIOUS
  <2>2. v \in Decided /\ rows \in [Tasks \X Rids -> RowType] /\ rows' = Resolved(rows, P, v)
    BY <1>0, <1>3, <2>1 DEF Decided, TypeInv, TypeRows
  <2>3. Becomes(rows, P, v, rows')
    BY <2>2, ResolvedFacts
  <2>4. \A u \in Tasks, y \in Rids :
          \/ rows'[<<u, y>>] = rows[<<u, y>>]
          \/ /\ rows[<<u, y>>].st = "pending" /\ rows'[<<u, y>>].st = "cancelled"
             /\ rows'[<<u, y>>].q = rows[<<u, y>>].q /\ rows'[<<u, y>>].kind = rows[<<u, y>>].kind
    BY <2>1, <2>3 DEF Becomes
  <2>5. /\ RowsKept
        /\ \A u \in Tasks, y \in Rids : rows[<<u, y>>].st = "none" => rows'[<<u, y>>].st = "none"
    BY <2>4 DEF RowsKept, Decided
  <2>6. AskedKept
    BY <1>0, <1>3 DEF AskedKept, TypeInv, TypeAsked
  <2>7. Unique' /\ HeldOwn' /\ OpenHeld'
    BY <1>3, FlowSame
  <2>8. RowOwn'
    <3> SUFFICES ASSUME NEW u \in Tasks, NEW y \in Rids, rows'[<<u, y>>].st # "none"
                 PROVE  /\ rows'[<<u, y>>].q \in 1 .. Len(asked)
                        /\ asked[rows'[<<u, y>>].q].task = u /\ asked[rows'[<<u, y>>].q].rid = y
      BY <1>3 DEF RowOwn
    <3>1. rows[<<u, y>>].st # "none" /\ rows'[<<u, y>>].q = rows[<<u, y>>].q
      BY <2>4
    <3> QED BY <1>0, <3>1 DEF RowOwn
  <2>9. SendMeans' /\ Answered' /\ Stale'
    <3>1. sending' \subseteq sending /\ \A s \in sending' : asked'[s.q].reply = "open"
      BY <1>3 DEF FlowInv, SendMeans
    <3>2. \A i \in 1 .. Len(asked') : asked'[i].reply \in Answers =>
                 i \in 1 .. Len(asked) /\ asked'[i].reply = asked[i].reply
      BY <1>3
    <3>3. client' = client /\ \A g \in Handlers : clicks'[g] = clicks[g]
      BY <1>3
    <3> QED BY <2>5, <2>6, <3>1, <3>2, <3>3, FlowKept
  <2>10. EventsOwn'
    BY <1>3, <2>5, <2>6, EventsKept
  <2>11. DecisionReaches'
    <3> SUFFICES ASSUME NEW u \in Tasks, NEW y \in Rids, rows'[<<u, y>>].st \in {"approved", "denied"},
                        asked[rows'[<<u, y>>].q].task = u, asked[rows'[<<u, y>>].q].client = client
                 PROVE  asked[rows'[<<u, y>>].q].reply # "open" \/ \E s \in sending : s.q = rows'[<<u, y>>].q
      BY <1>3 DEF DecisionReaches
    <3>1. rows'[<<u, y>>] = rows[<<u, y>>]
      BY <2>4
    <3> QED BY <1>0, <3>1 DEF DecisionReaches
  <2> QED BY <1>t, <2>5, <2>7, <2>8, <2>9, <2>10, <2>11, FlowJoin
<1>4. CASE /\ rows[<<t, r>>].st = "pending" /\ client # 0
           /\ Resolve(h, Pressed(t, r, act), client)
  <2>1. client \in Clients
    BY <1>0, <1>4, ApprovalAssumption DEF TypeInv, TypeAsked, Clients
  <2>2. PICK c \in Clients : c = client
    BY <2>1
  <2>3. Ready(k, c)
    BY <1>2, <1>4, <2>2 DEF Ready
  <2>4. Resolve(h, k, c)
    BY <1>k, <1>4, <2>2
  <2> QED BY <1>1, <2>3, <2>4, ResolveFlow
<1>5. CASE /\ client = 0 /\ clicks' = [clicks EXCEPT ![h] = Pressed(t, r, act)]
           /\ UNCHANGED <<client, asked, held, sending, events, rows, orch>>
  <2>1. /\ Unique' /\ RowOwn' /\ HeldOwn' /\ OpenHeld' /\ SendMeans' /\ Answered' /\ EventsOwn'
        /\ DecisionReaches'
    BY <1>5, FlowSame
  <2>2. AskedKept /\ RowsKept
    BY <1>0, <1>5 DEF AskedKept, RowsKept, TypeInv, TypeAsked
  <2>3. asked[rows[<<t, r>>].q].client # 0
    <3>1. rows[<<t, r>>].q \in 1 .. Len(asked)
      BY <1>0, <1>1 DEF RowOwn
    <3>2. asked[rows[<<t, r>>].q] \in Request
      BY <1>0, <3>1 DEF TypeInv, TypeAsked
    <3> QED BY <3>2 DEF Request, Clients
  <2>4. StaleClick(k)'
    BY <1>1, <1>2, <1>5, <2>3 DEF StaleClick
  <2>5. \A g \in Handlers : clicks'[g] = clicks[g] \/ clicks'[g] = k
    BY <1>0, <1>5, <1>k DEF TypeInv, TypeClicks
  <2>6. ASSUME NEW g \in Handlers PROVE clicks'[g] = clicks[g] \/ StaleClick(clicks[g])'
    <3>1. CASE clicks'[g] = k
      BY <2>4, <3>1 DEF StaleClick
    <3> QED BY <2>5, <3>1
  <2>7. client' = client
    BY <1>5
  <2>8. Stale'
    BY <2>2, <2>6, <2>7, FlowKept
  <2> QED BY <1>t, <2>1, <2>2, <2>8, FlowJoin
<1> QED BY <1>3, <1>4, <1>5, <1>o DEF PressOutcome

\* A handshake that ends: what is left to send was asked on clients that are gone.
LEMMA InitializedReady ==
    ASSUME FlowInv, NEW h \in Handlers, Initialized(h), NEW k, NEW c, k = clicks[h], c = k.c
    PROVE  /\ Resolve(h, k, c) /\ k \in Click /\ k # Idle /\ k.todo \subseteq AskedRids
           /\ c \in Clients /\ Ready(k, c)
<1>0. TypeInv /\ Stale
  BY DEF FlowInv
<1>2. k.at = "initialize" /\ Resolve(h, k, c)
  BY DEF Initialized
<1>3. k \in Click /\ StaleClick(k)
  BY <1>0 DEF TypeInv, TypeClicks, Stale
<1>4. k # Idle /\ k.t \in Tasks /\ k.todo \in SUBSET Rids
  BY <1>2, <1>3, ClickFacts
<1>5. k.todo \subseteq AskedRids /\ c \in 1 .. made
  BY <1>0, <1>2, <1>4 DEF TypeInv, TypeClicks
<1>6. c \in Clients
  BY <1>0, <1>5, ApprovalAssumption DEF TypeInv, TypeAsked, Clients
<1>7. ASSUME NEW r \in k.todo, held[c][r] # 0 PROVE FALSE
  <2>1. r \in Rids /\ rows[<<k.t, r>>].st # "none" /\ asked[rows[<<k.t, r>>].q].client # c
    BY <1>2, <1>3, <1>4 DEF StaleClick
  <2>2. held[c][r] = rows[<<k.t, r>>].q /\ asked[held[c][r]].client = c
    BY <1>4, <1>6, <1>7, <2>1, HeldOfRow
  <2> QED BY <2>1, <2>2
<1>8. Ready(k, c)
  BY <1>2, <1>3, <1>7 DEF Ready, StaleClick
<1> QED BY <1>2, <1>3, <1>4, <1>5, <1>6, <1>8

LEMMA InitializedFlow ==
    ASSUME FlowInv, NEW h \in Handlers, Initialized(h)
    PROVE  FlowInv' /\ RowsKept
<1>1. PICK k, c : k = clicks[h] /\ c = k.c
  OBVIOUS
<1>2. /\ Resolve(h, k, c) /\ k \in Click /\ k # Idle /\ k.todo \subseteq AskedRids
      /\ c \in Clients /\ Ready(k, c)
  BY <1>1, InitializedReady
<1> QED BY <1>2, ResolveFlow

\* Steps that change no table and no future.
LEMMA QuietFlow ==
    ASSUME FlowInv, TypeInv', UNCHANGED <<client, asked, held, sending, events, rows, orch>>,
           \A g \in Handlers : clicks'[g] = clicks[g] \/ StaleClick(clicks[g])'
    PROVE  FlowInv' /\ RowsKept
<1>0. TypeInv
  BY DEF FlowInv
<1>1. /\ Unique' /\ RowOwn' /\ HeldOwn' /\ OpenHeld' /\ SendMeans' /\ Answered' /\ EventsOwn'
      /\ DecisionReaches'
  BY FlowSame
<1>2. AskedKept /\ RowsKept /\ client' = client
  BY <1>0 DEF AskedKept, RowsKept, TypeInv, TypeAsked
<1>3. Stale'
  BY <1>2, FlowKept
<1> QED BY <1>1, <1>2, <1>3, FlowJoin

LEMMA SendFailsFlow ==
    ASSUME FlowInv, NEW h \in Handlers, SendFails(h)
    PROVE  FlowInv' /\ RowsKept
<1>0. TypeInv /\ Stale
  BY DEF FlowInv
<1>1. TypeInv' /\ UNCHANGED <<client, asked, held, sending, events, rows, orch>>
  BY <1>0, SendFailsType DEF SendFails
<1>3. PICK k : k = clicks[h]
  OBVIOUS
<1>4. k \in Click /\ k.at \in {"connect", "initialize"} /\ StaleClick(k) /\ clicks \in [Handlers -> Click]
  BY <1>0, <1>3 DEF TypeInv, TypeClicks, SendFails, Stale
<1>5. k = [at |-> k.at, t |-> k.t, rid |-> k.rid, act |-> k.act, c |-> k.c,
           own |-> k.own, todo |-> k.todo]
  BY <1>4, ClickFacts
<1>6. PICK x : /\ clicks' = [clicks EXCEPT ![h] = x]
               /\ x = Idle \/ \E r : ~k.own /\ x = [k EXCEPT !.at = "connect", !.todo = @ \ {r}]
  BY <1>3 DEF SendFails
<1>7. StaleClick(x)'
  <2>1. CASE x = Idle
    BY <2>1 DEF StaleClick, Idle
  <2>2. CASE \E r : ~k.own /\ x = [k EXCEPT !.at = "connect", !.todo = @ \ {r}]
    <3>1. PICK r : ~k.own /\ x = [k EXCEPT !.at = "connect", !.todo = @ \ {r}]
      BY <2>2
    <3>2. PICK y : y = k.todo \ {r}
      OBVIOUS
    <3>3. x = [k EXCEPT !.at = "connect", !.todo = y]
      BY <1>5, <3>1, <3>2
    <3>4. x = [at |-> "connect", t |-> k.t, rid |-> k.rid, act |-> k.act, c |-> k.c,
               own |-> k.own, todo |-> y]
      BY <1>5, <3>3
    <3>5. x.at = "connect" /\ x.t = k.t /\ x.rid = k.rid /\ x.own = k.own /\ x.todo = y
      BY <3>4
    <3>6. y \subseteq k.todo
      BY <3>2
    <3> QED BY <1>1, <1>4, <3>1, <3>5, <3>6 DEF StaleClick
  <2> QED BY <1>6, <2>1, <2>2
<1>8. \A g \in Handlers : clicks'[g] = clicks[g] \/ clicks'[g] = x
  BY <1>4, <1>6
<1>9. ASSUME NEW g \in Handlers PROVE clicks'[g] = clicks[g] \/ StaleClick(clicks[g])'
  <2>1. CASE clicks'[g] = x
    BY <1>7, <2>1 DEF StaleClick
  <2> QED BY <1>8, <2>1
<1> QED BY <1>1, <1>9, QuietFlow

LEMMA InterruptedFlow ==
    ASSUME FlowInv, NEW h \in Handlers, Interrupted(h)
    PROVE  FlowInv' /\ RowsKept
<1>0. TypeInv
  BY DEF FlowInv
<1>1. /\ TypeInv' /\ UNCHANGED <<client, asked, held, sending, events, rows, orch>>
      /\ clicks' = [clicks EXCEPT ![h] = Idle] /\ clicks \in [Handlers -> Click]
  BY <1>0, InterruptedType DEF Interrupted, TypeInv, TypeClicks
<1>2. ASSUME NEW g \in Handlers PROVE clicks'[g] = clicks[g] \/ StaleClick(clicks[g])'
  <2>1. CASE clicks'[g] = Idle
    BY <2>1 DEF StaleClick, Idle
  <2> QED BY <1>1, <2>1
<1> QED BY <1>1, <1>2, QuietFlow

LEMMA TaskFlow ==
    ASSUME FlowInv, Task
    PROVE  FlowInv' /\ RowsKept
<1>0. TypeInv
  BY DEF FlowInv
<1>1. /\ TypeInv'
      /\ UNCHANGED <<client, alive, made, asked, held, sending, events, rows, count, orch, clicks>>
  BY <1>0, TaskStep
<1> QED BY <1>1, QuietFlow

LEMMA FlowStart == Init => FlowInv
<1> SUFFICES ASSUME Init PROVE FlowInv
  OBVIOUS
<1>0. /\ asked = <<>> /\ Len(asked) = 0 /\ events = <<>> /\ Len(events) = 0 /\ sending = {}
      /\ held = [c \in Clients |-> [r \in Rids |-> 0]]
      /\ rows = [p \in Tasks \X Rids |-> NoRow] /\ clicks = [h \in Handlers |-> Idle]
  BY DEF Init
<1>1. TypeInv
  BY TypeStart
<1>2. \A t \in Tasks, r \in Rids : rows[<<t, r>>].st = "none"
  BY <1>0 DEF NoRow
<1>3. Unique /\ OpenHeld /\ SendMeans /\ Answered /\ EventsOwn
  BY <1>0 DEF Unique, OpenHeld, SendMeans, Answered, EventsOwn
<1>4. RowOwn /\ DecisionReaches
  BY <1>2 DEF RowOwn, DecisionReaches
<1>5. HeldOwn
  BY <1>0 DEF HeldOwn
<1>6. Stale
  <2>1. \A h \in Handlers : clicks[h].at = "idle"
    BY <1>0 DEF Idle
  <2> QED BY <2>1 DEF Stale, StaleClick
<1> QED BY <1>1, <1>3, <1>4, <1>5, <1>6 DEF FlowInv

\* Every step but a request, a reply and a loss leaves the requests alone and decides
\* rows once.
Deciding == UNCHANGED asked /\ RowsKept

LEMMA DecidingSteps ==
    ASSUME FlowInv, Bridge \/ User \/ Handler \/ Task \/ UNCHANGED vars
    PROVE  FlowInv' /\ Deciding
<1>0. TypeInv
  BY DEF FlowInv
<1>1. CASE Bridge
  <2>1. CASE RequestProcessed
    BY <2>1, RequestFlow DEF RequestProcessed, Deciding
  <2>2. CASE ResolutionProcessed
    BY <2>2, ResolutionFlow DEF ResolutionProcessed, Deciding
  <2> QED BY <1>1, <2>1, <2>2 DEF Bridge
<1>2. CASE User
  <2>1. PICK h \in Handlers, t \in Tasks, r \in Rids, act \in Buttons : Press(h, t, r, act)
    BY <1>2 DEF User
  <2>2. PressOutcome(h, t, r, act)
    BY <2>1, PressFacts
  <2>3. asked' = asked
    BY <2>2 DEF PressOutcome, Resolve
  <2>4. FlowInv' /\ RowsKept
    BY <2>1, PressFlow
  <2> QED BY <2>3, <2>4 DEF Deciding
<1>3. CASE Handler
  <2>1. PICK h \in Handlers : Connected(h) \/ Initialized(h) \/ SendFails(h) \/ Interrupted(h)
    BY <1>3 DEF Handler
  <2>2. asked' = asked
    BY <2>1 DEF Connected, Initialized, Resolve, SendFails, Interrupted
  <2>3. FlowInv' /\ RowsKept
    BY <2>1, ConnectedFlow, InitializedFlow, SendFailsFlow, InterruptedFlow
  <2> QED BY <2>2, <2>3 DEF Deciding
<1>4. CASE Task
  BY <1>0, <1>4, TaskFlow, TaskStep DEF Deciding
<1>5. CASE UNCHANGED vars
  <2>1. /\ UNCHANGED <<client, asked, held, sending, events, rows, orch>> /\ clicks' = clicks
        /\ UNCHANGED asked
    BY <1>5 DEF vars
  <2>2. TypeInv'
    BY <1>0, <1>5, TypeNext
  <2> QED BY <2>1, <2>2, QuietFlow DEF Deciding
<1> QED BY <1>1, <1>2, <1>3, <1>4, <1>5

LEMMA FlowNext ==
    ASSUME FlowInv, ~ReuseIds, ~Overlap, [Next]_vars
    PROVE  FlowInv'
<1>1. CASE Server
  BY <1>1, AskFlow, ReplyFlow, LostFlow DEF Server
<1>2. CASE Bridge \/ User \/ Handler \/ Task \/ UNCHANGED vars
  BY <1>2, DecidingSteps
<1> QED BY <1>1, <1>2 DEF Next

\* If the app-server does not use a request id again and no other task asks during a
\* run's prompt, the inductive invariant of the flow holds for any tasks, requests,
\* handlers, connections and losses: a row is about the request of its task and id, a
\* future is held until its reply is on its way, and a handler that reconnects holds
\* requests of earlier connections only.
THEOREM FlowInvariant == ASSUME ~ReuseIds, ~Overlap PROVE Spec => []FlowInv
<1>1. FlowInv /\ [Next]_vars => FlowInv'
  BY FlowNext
<1> QED BY <1>1, FlowStart, PTL DEF Spec

\* resolve_callback sends before it records: while the client that asked is the current
\* one, a recorded decision has been sent or is on its way.
THEOREM DecisionAlwaysReaches == ASSUME ~ReuseIds, ~Overlap PROVE Spec => []DecisionReaches
<1>1. FlowInv => DecisionReaches
  BY DEF FlowInv
<1> QED BY <1>1, FlowInvariant, PTL

\* The verdict that ApprovalPromise sees.
LEMMA VerdictFacts ==
    ASSUME TypeInv, NEW q \in 1 .. Len(asked)
    PROVE  /\ VerdictOf(q) \in {"none", "void"} \cup Decided
           /\ VerdictOf(q) # "none" =>
                /\ rows[<<asked[q].task, asked[q].rid>>].q = q
                /\ rows[<<asked[q].task, asked[q].rid>>].st \in Decided
                /\ Ruling(rows[<<asked[q].task, asked[q].rid>>]) = VerdictOf(q)
           /\ /\ rows[<<asked[q].task, asked[q].rid>>].q = q
              /\ rows[<<asked[q].task, asked[q].rid>>].st \in Decided
              => VerdictOf(q) = Ruling(rows[<<asked[q].task, asked[q].rid>>])
<1>1. q \in DOMAIN asked /\ asked[q] \in Request
  BY DEF TypeInv, TypeAsked
<1>2. PICK p : p = <<asked[q].task, asked[q].rid>>
  OBVIOUS
<1>3. p \in Tasks \X Rids
  BY <1>1, <1>2 DEF Request
<1>4. rows[p] \in RowType
  BY <1>3 DEF TypeInv, TypeRows
<1>5. rows[p].st \in {"none", "pending"} \cup Decided
  BY <1>4, RowFacts
<1>6. VerdictOf(q) = IF rows[p].q # q \/ rows[p].st \in {"none", "pending"} THEN "none" ELSE Ruling(rows[p])
  BY <1>1, <1>2 DEF VerdictOf
<1>7. "none" \notin Decided /\ "pending" \notin Decided
  BY DEF Decided
<1>8. Ruling(rows[p]) \in {"void", rows[p].st}
  BY DEF Ruling
<1> QED BY <1>2, <1>5, <1>6, <1>7, <1>8

-----------------------------------------------------------------------------
(* The flow implements ApprovalPromise *)

\* What the refinement mapping shows of the requests and of the ledger.
Replies  == [q \in Asked |-> ReplyTo(q)]
Rulings  == [q \in Asked |-> VerdictOf(q)]

LEMMA ReplyFactsOf ==
    ASSUME TypeInv, NEW q \in Asked
    PROVE  /\ q \in 1 .. Len(asked) => ReplyTo(q) = asked[q].reply
           /\ q \notin 1 .. Len(asked) => ReplyTo(q) = "none" /\ VerdictOf(q) = "none"
           /\ ReplyTo(q) \in {"none", "open", "lost"} \cup Answers
           /\ VerdictOf(q) \in {"none", "void"} \cup Decided
<1>1. asked \in Seq(Request) /\ DOMAIN asked = 1 .. Len(asked)
  BY DEF TypeInv, TypeAsked
<1>2. q \in 1 .. Len(asked) => asked[q] \in Request
  BY <1>1
<1>3. /\ q \in 1 .. Len(asked) => ReplyTo(q) = asked[q].reply
      /\ q \notin 1 .. Len(asked) => ReplyTo(q) = "none" /\ VerdictOf(q) = "none"
  BY <1>1 DEF ReplyTo, VerdictOf
<1>4. ReplyTo(q) \in {"none", "open", "lost"} \cup Answers
  BY <1>2, <1>3 DEF Request
<1>5. VerdictOf(q) \in {"none", "void"} \cup Decided
  BY <1>3, VerdictFacts
<1> QED BY <1>3, <1>4, <1>5

\* A verdict stays once it is given.
LEMMA RulingKept ==
    ASSUME TypeInv, TypeInv', AskedKept, RowsKept, NEW q \in Asked, VerdictOf(q) # "none"
    PROVE  VerdictOf(q)' = VerdictOf(q)
<1>1. q \in 1 .. Len(asked)
  BY ReplyFactsOf
<1>2. asked[q] \in Request /\ Len(asked) \in Nat
  BY <1>1 DEF TypeInv, TypeAsked
<1>3. PICK t, r : t = asked[q].task /\ r = asked[q].rid
  OBVIOUS
<1>4. t \in Tasks /\ r \in Rids /\ asked'[q].task = t /\ asked'[q].rid = r
  BY <1>1, <1>2, <1>3 DEF Request, AskedKept
<1>5. rows[<<t, r>>].q = q /\ Ruling(rows[<<t, r>>]) = VerdictOf(q) /\ rows[<<t, r>>].st \in Decided
  BY <1>1, <1>3, VerdictFacts
<1>6. /\ rows'[<<t, r>>].q = q /\ rows'[<<t, r>>].st = rows[<<t, r>>].st
      /\ rows'[<<t, r>>].kind = rows[<<t, r>>].kind
  BY <1>4, <1>5 DEF RowsKept, Decided
<1>7. q \in DOMAIN asked'
  <2>1. asked' \in Seq(Request) /\ Len(asked') \in Nat /\ Len(asked) <= Len(asked')
    BY DEF AskedKept
  <2> QED BY <1>1, <1>2, <2>1
<1>8. VerdictOf(q)' = Ruling(rows'[<<t, r>>])
  <2>1. rows'[<<t, r>>].st \notin {"none", "pending"}
    BY <1>5, <1>6 DEF Decided
  <2> QED BY <1>4, <1>6, <1>7, <2>1 DEF VerdictOf
<1> QED BY <1>5, <1>6, <1>8 DEF Ruling

\* Clicks, events, handlers and tasks only decide.
LEMMA DecideStep ==
    ASSUME FlowInv, FlowInv', Deciding
    PROVE  Promise!Decide
<1>0. TypeInv /\ TypeInv' /\ RowsKept /\ asked' = asked
  BY DEF FlowInv, Deciding
<1>1. AskedKept
  BY <1>0 DEF AskedKept, TypeInv, TypeAsked
<1>2. Replies' = Replies
  BY <1>0 DEF Replies, ReplyTo
<1>3. \A q \in Asked : VerdictOf(q)' \in {"none", "void"} \cup Decided
  <2> TAKE q \in Asked
  <2>1. CASE q \notin DOMAIN asked
    BY <1>0, <2>1 DEF VerdictOf
  <2>2. CASE q \in DOMAIN asked
    <3>1. asked[q] \in Request
      BY <1>0, <2>2 DEF TypeInv, TypeAsked
    <3>2. PICK p : p = <<asked[q].task, asked[q].rid>>
      OBVIOUS
    <3>3. p \in Tasks \X Rids
      BY <3>1, <3>2 DEF Request
    <3>4. rows'[p] \in RowType
      BY <1>0, <3>3 DEF TypeInv, TypeRows
    <3>5. rows'[p].st \in {"none", "pending"} \cup Decided
      BY <3>4, RowFacts
    <3>6. VerdictOf(q)' = IF rows'[p].q # q \/ rows'[p].st \in {"none", "pending"} THEN "none" ELSE Ruling(rows'[p])
      BY <1>0, <2>2, <3>2 DEF VerdictOf
    <3>7. Ruling(rows'[p]) \in {"void", rows'[p].st}
      BY DEF Ruling
    <3> QED BY <3>5, <3>6, <3>7
  <2> QED BY <2>1, <2>2
<1>4. \A q \in Asked : VerdictOf(q) # "none" => VerdictOf(q)' = VerdictOf(q)
  BY <1>0, <1>1, RulingKept
<1>5. Rulings' = [q \in Asked |-> VerdictOf(q)']
  BY DEF Rulings
<1>6. Rulings' \in [Asked -> {"none", "void"} \cup Decided]
  BY <1>3, <1>5
<1>7. \A q \in Asked : Rulings'[q] # Rulings[q] => Rulings[q] = "none"
  BY <1>4, <1>5 DEF Rulings
<1> QED BY <1>2, <1>6, <1>7 DEF Promise!Decide, Promise!Verdicts, Replies, Rulings, Decided

\* The verdicts stay when no row is decided and requests are only added.
LEMMA RulingSame ==
    ASSUME TypeInv, AskedKept,
           \A q \in 1 .. Len(asked) : rows'[<<asked[q].task, asked[q].rid>>] = rows[<<asked[q].task, asked[q].rid>>],
           \A q \in 1 .. Len(asked') : q \notin 1 .. Len(asked) =>
             rows'[<<asked'[q].task, asked'[q].rid>>].st \notin Decided,
           TypeInv'
    PROVE  Rulings' = Rulings
<1>1. /\ DOMAIN asked = 1 .. Len(asked) /\ DOMAIN asked' = 1 .. Len(asked') /\ Len(asked) \in Nat
      /\ Len(asked') \in Nat
  BY DEF TypeInv, TypeAsked
<1>2. ASSUME NEW q \in Asked PROVE VerdictOf(q)' = VerdictOf(q)
  <2>1. CASE q \in 1 .. Len(asked)
    <3>1. asked'[q].task = asked[q].task /\ asked'[q].rid = asked[q].rid /\ q \in 1 .. Len(asked')
      BY <1>1, <2>1 DEF AskedKept
    <3> QED BY <1>1, <2>1, <3>1 DEF VerdictOf
  <2>2. CASE q \notin 1 .. Len(asked) /\ q \notin 1 .. Len(asked')
    BY <1>1, <2>2 DEF VerdictOf
  <2>3. CASE q \notin 1 .. Len(asked) /\ q \in 1 .. Len(asked')
    <3>1. PICK p : p = <<asked'[q].task, asked'[q].rid>>
      OBVIOUS
    <3>2. asked'[q] \in Request
      BY <2>3 DEF TypeInv, TypeAsked
    <3>3. p \in Tasks \X Rids
      BY <3>1, <3>2 DEF Request
    <3>4. rows'[p] \in RowType
      BY <3>3 DEF TypeInv, TypeRows
    <3>5. rows'[p].st \in {"none", "pending"}
      BY <2>3, <3>1, <3>4, RowFacts
    <3>6. VerdictOf(q) = "none"
      BY <1>1, <2>3 DEF VerdictOf
    <3>7. VerdictOf(q)' = "none"
      BY <1>1, <2>3, <3>1, <3>5 DEF VerdictOf
    <3> QED BY <3>6, <3>7
  <2> QED BY <2>1, <2>2, <2>3
<1> QED BY <1>2 DEF Rulings

\* A server request is asked.
LEMMA AskStep ==
    ASSUME FlowInv, FlowInv', ~ReuseIds, ~Overlap,
           NEW c \in Clients, NEW t \in Tasks, NEW r \in Rids, NEW k \in Kinds, Ask(c, t, r, k)
    PROVE  \E q \in Asked : Promise!Ask(q)
<1>0. TypeInv /\ TypeInv' /\ RowOwn /\ asked \in Seq(Request) /\ Len(asked) \in Nat
  BY DEF FlowInv, TypeInv, TypeAsked
<1>1. /\ AskedKept /\ Len(asked') = Len(asked) + 1 /\ Len(asked') \in Asked
      /\ asked'[Len(asked')] = [client |-> c, rid |-> r, task |-> t, kind |-> k, reply |-> "open"]
      /\ \A i \in 1 .. Len(asked) : asked'[i] = asked[i]
  BY <1>0, AskKept
<1>2. PICK n : n = Len(asked')
  OBVIOUS
<1>3. /\ n \in Asked /\ n = Len(asked) + 1 /\ asked'[n].rid = r /\ asked'[n].task = t
      /\ asked'[n].reply = "open"
      /\ DOMAIN asked = 1 .. Len(asked) /\ DOMAIN asked' = 1 .. n
      /\ \A i \in 1 .. n : i \in 1 .. Len(asked) \/ i = n
  BY <1>0, <1>1, <1>2 DEF AskedKept
<1>4. \A i \in 1 .. Len(asked) : asked[i].rid # r
  BY <1>3 DEF Ask
<1>5. RowsAsked(r, k)
  BY <1>0, AskRows
<1>6. \A u \in Tasks : rows[<<u, r>>].st = "none"
  <2>1. r \notin AskedRids
    BY <1>4 DEF AskedRids
  <2> QED BY <1>0, <2>1 DEF TypeInv, TypeRows
<1>7. Rulings' = Rulings
  <2>1. ASSUME NEW q \in 1 .. Len(asked)
        PROVE  rows'[<<asked[q].task, asked[q].rid>>] = rows[<<asked[q].task, asked[q].rid>>]
    <3>1. asked[q] \in Request
      BY <1>0
    <3>2. asked[q].task \in Tasks /\ asked[q].rid \in Rids /\ asked[q].rid # r
      BY <1>4, <3>1 DEF Request
    <3> QED BY <1>5, <3>2 DEF RowsAsked
  <2>2. rows'[<<t, r>>].st \notin Decided
    <3>1. CASE rows'[<<t, r>>] = rows[<<t, r>>]
      BY <1>6, <3>1 DEF Decided
    <3>2. CASE rows'[<<t, r>>] = Fresh(Len(asked'), Recalled(k))
      <4>1. rows'[<<t, r>>].st = "pending"
        BY <3>2 DEF Fresh
      <4> QED BY <4>1 DEF Decided
    <3> QED BY <1>5, <3>1, <3>2 DEF RowsAsked
  <2>3. \A q \in 1 .. Len(asked') : q \notin 1 .. Len(asked) =>
             rows'[<<asked'[q].task, asked'[q].rid>>].st \notin Decided
    BY <1>2, <1>3, <2>2
  <2> QED BY <1>0, <1>1, <2>1, <2>3, RulingSame
<1>8. Replies[n] = "none" /\ Replies' = [Replies EXCEPT ![n] = "open"]
  <2>1. ReplyTo(n) = "none"
    BY <1>0, <1>3 DEF ReplyTo
  <2>2. ASSUME NEW q \in Asked PROVE ReplyTo(q)' = IF q = n THEN "open" ELSE ReplyTo(q)
    <3>1. CASE q = n
      <4>1. n \in 1 .. n
        BY <1>0, <1>3
      <4> QED BY <1>3, <3>1, <4>1 DEF ReplyTo
    <3>2. CASE q # n /\ q \in 1 .. Len(asked)
      <4>1. q \in 1 .. n
        BY <1>0, <1>3, <3>2
      <4> QED BY <1>1, <1>3, <3>2, <4>1 DEF ReplyTo
    <3>3. CASE q # n /\ q \notin 1 .. Len(asked)
      BY <1>3, <3>3 DEF ReplyTo
    <3> QED BY <3>1, <3>2, <3>3
  <2> QED BY <1>3, <2>1, <2>2 DEF Replies
<1> QED BY <1>3, <1>7, <1>8 DEF Promise!Ask, Replies, Rulings

\* A reply that is sent answers its request with its verdict.
LEMMA AnswerStep ==
    ASSUME FlowInv, FlowInv', NEW s \in sending, SendReply(s)
    PROVE  \E q \in Asked : \E a \in Answers : Promise!Answer(q, a)
<1>0. TypeInv /\ TypeInv' /\ SendMeans
  BY DEF FlowInv
<1>1. /\ AskedKept /\ Len(asked') = Len(asked) /\ s.q \in 1 .. Len(asked) /\ s.a \in Answers
      /\ asked'[s.q].reply = s.a
      /\ \A i \in 1 .. Len(asked) : i # s.q => asked'[i] = asked[i]
  BY <1>0, ReplyFacts
<1>2. PICK q, a : q = s.q /\ a = s.a
  OBVIOUS
<1>3. /\ q \in 1 .. Len(asked) /\ a \in Answers /\ asked[q].reply = "open" /\ Agreed(q, a)
  BY <1>0, <1>1, <1>2 DEF SendMeans
<1>4. /\ q \in Asked /\ DOMAIN asked = 1 .. Len(asked) /\ DOMAIN asked' = 1 .. Len(asked)
  <2>1. /\ Len(asked) <= MaxAsked /\ Len(asked) \in Nat /\ DOMAIN asked = 1 .. Len(asked)
        /\ asked' \in Seq(Request)
    BY <1>0 DEF TypeInv, TypeAsked
  <2> QED BY <1>1, <1>3, <2>1, ApprovalAssumption DEF Asked
<1>5. rows' = rows
  BY DEF SendReply
<1>6. Rulings' = Rulings
  <2>1. \A i \in 1 .. Len(asked') : i \in 1 .. Len(asked)
    BY <1>1
  <2> QED BY <1>0, <1>1, <1>5, <2>1, RulingSame
<1>7. Replies[q] = "open"
  BY <1>3, <1>4 DEF Replies, ReplyTo
<1>8. Replies' = [Replies EXCEPT ![q] = a]
  <2>1. ASSUME NEW i \in Asked PROVE ReplyTo(i)' = IF i = q THEN a ELSE ReplyTo(i)
    BY <1>1, <1>2, <1>3, <1>4 DEF ReplyTo
  <2> QED BY <1>4, <2>1 DEF Replies
<1>9. Promise!Means(a, Rulings[q])
  <2>1. /\ rows[<<asked[q].task, asked[q].rid>>].q = q
        /\ Means(a, Ruling(rows[<<asked[q].task, asked[q].rid>>]))
    BY <1>3 DEF Agreed
  <2>2. rows[<<asked[q].task, asked[q].rid>>].st \in Decided
    <3>1. asked[q] \in Request
      BY <1>0, <1>3 DEF TypeInv, TypeAsked
    <3>2. rows[<<asked[q].task, asked[q].rid>>] \in RowType
      BY <1>0, <3>1 DEF Request, TypeInv, TypeRows
    <3>3. rows[<<asked[q].task, asked[q].rid>>].st # "void"
      BY <3>2, RowFacts DEF Decided
    <3> QED BY <2>1, <3>3, MeansDecided
  <2>3. VerdictOf(q) = Ruling(rows[<<asked[q].task, asked[q].rid>>])
    BY <1>0, <1>3, <2>1, <2>2, VerdictFacts
  <2> QED BY <1>4, <2>1, <2>3 DEF Means, Promise!Means, Rulings
<1>10. Promise!Answer(q, a)
  BY <1>6, <1>7, <1>8, <1>9 DEF Promise!Answer, Replies, Rulings
<1> QED BY <1>3, <1>4, <1>10

\* A lost connection loses open requests only.
LEMMA LoseStep ==
    ASSUME FlowInv, FlowInv', NEW c \in Clients, ConnectionLost(c)
    PROVE  Promise!Lose
<1>0. TypeInv /\ TypeInv'
  BY DEF FlowInv
<1>1. /\ AskedKept /\ Len(asked') = Len(asked)
      /\ \A i \in 1 .. Len(asked) :
           /\ asked[i].client = c /\ asked[i].reply = "open" => asked'[i].reply = "lost"
           /\ asked[i].client # c \/ asked[i].reply # "open" => asked'[i] = asked[i]
  BY <1>0, LostFacts
<1>2. DOMAIN asked = 1 .. Len(asked) /\ DOMAIN asked' = 1 .. Len(asked)
  <2>1. DOMAIN asked = 1 .. Len(asked) /\ asked' \in Seq(Request)
    BY <1>0 DEF TypeInv, TypeAsked
  <2> QED BY <1>1, <2>1
<1>3. rows' = rows
  BY DEF ConnectionLost
<1>4. Rulings' = Rulings
  <2>1. \A i \in 1 .. Len(asked') : i \in 1 .. Len(asked)
    BY <1>1
  <2> QED BY <1>0, <1>1, <1>3, <2>1, RulingSame
<1>5. ASSUME NEW q \in Asked
      PROVE  /\ ReplyTo(q)' \in {"none", "open", "lost"} \cup Answers
             /\ ReplyTo(q)' # ReplyTo(q) => ReplyTo(q) = "open" /\ ReplyTo(q)' = "lost"
  <2>1. CASE q \in 1 .. Len(asked)
    <3>1. asked[q] \in Request
      BY <1>0, <2>1 DEF TypeInv, TypeAsked
    <3>2. asked[q].reply \in {"open", "lost"} \cup Answers
      BY <3>1 DEF Request
    <3>3. asked'[q].reply = asked[q].reply \/ (asked[q].reply = "open" /\ asked'[q].reply = "lost")
      BY <1>1, <2>1
    <3>4. ReplyTo(q) = asked[q].reply /\ ReplyTo(q)' = asked'[q].reply
      BY <1>2, <2>1 DEF ReplyTo
    <3> QED BY <3>2, <3>3, <3>4
  <2>2. CASE q \notin 1 .. Len(asked)
    BY <1>2, <2>2 DEF ReplyTo
  <2> QED BY <2>1, <2>2
<1>6. Replies' = [q \in Asked |-> ReplyTo(q)'] /\ Replies = [q \in Asked |-> ReplyTo(q)]
  BY DEF Replies
<1>7. /\ Replies' \in [Asked -> {"none", "open", "lost"} \cup Answers]
      /\ \A q \in Asked : Replies'[q] # Replies[q] => Replies[q] = "open" /\ Replies'[q] = "lost"
  BY <1>5, <1>6
<1> QED BY <1>4, <1>7 DEF Promise!Lose, Promise!Answers, Replies, Rulings, Answers

\* Every request that the app-server makes is answered at most once, with the one
\* decision that was recorded for it, or lost with its connection: for any tasks, ids,
\* handlers and losses the flow of held futures, rows, events, clicks and reconnections
\* implements ApprovalPromise, if ids are not used again and no other task asks during a
\* run's prompt.
THEOREM FlowKeepsPromise == ASSUME ~ReuseIds, ~Overlap PROVE Spec => KeepsPromise
<1>1. Init => Promise!Init
  <2> SUFFICES ASSUME Init PROVE Promise!Init
    OBVIOUS
  <2>1. asked = <<>>
    BY DEF Init
  <2>2. \A q \in Asked : ReplyTo(q) = "none" /\ VerdictOf(q) = "none"
    BY <2>1 DEF ReplyTo, VerdictOf, Asked
  <2> QED BY <2>2 DEF Promise!Init
<1>2. FlowInv /\ FlowInv' /\ [Next]_vars => [Promise!Next]_<<Replies, Rulings>>
  <2> SUFFICES ASSUME FlowInv, FlowInv', [Next]_vars PROVE Promise!Next
    OBVIOUS
  <2>1. CASE Server
    <3>1. CASE \E c \in Clients, t \in Tasks, r \in Rids, k \in Kinds : Ask(c, t, r, k)
      BY <3>1, AskStep DEF Promise!Next
    <3>2. CASE \E s \in sending : SendReply(s)
      <4>1. \E q \in Asked : \E a \in Answers : Promise!Answer(q, a)
        BY <3>2, AnswerStep
      <4>2. Promise!Answers = Answers
        BY DEF Promise!Answers, Answers
      <4> QED BY <4>1, <4>2 DEF Promise!Next
    <3>3. CASE \E c \in Clients : ConnectionLost(c)
      BY <3>3, LoseStep DEF Promise!Next
    <3> QED BY <2>1, <3>1, <3>2, <3>3 DEF Server
  <2>2. CASE Bridge \/ User \/ Handler \/ Task \/ UNCHANGED vars
    BY <2>2, DecidingSteps, DecideStep DEF Promise!Next
  <2> QED BY <2>1, <2>2 DEF Next
<1> QED BY <1>1, <1>2, FlowInvariant, PTL DEF Spec, KeepsPromise, Promise!Spec, Replies, Rulings

-----------------------------------------------------------------------------
(* A task that waits can be released *)

\* The tasks that WaitingHasPending speaks of: without a permission, and with at most
\* two requests.
Plain(t) ==
    /\ \A r \in Rids : rows[<<t, r>>].kind \notin Permission
    /\ \E r1, r2 \in Rids : \A r \in Rids : rows[<<t, r>>].st # "none" => r \in {r1, r2}

WaitInv == \A t \in Tasks \ orch : st[t] = "waiting_approval" /\ Plain(t) => Pending(rows, t) # {}

\* A task none of whose rows and whose status does not change.
LEMMA WaitSame ==
    ASSUME WaitInv, NEW t \in Tasks \ orch, \A r \in Rids : rows'[<<t, r>>] = rows[<<t, r>>],
           st'[t] = "waiting_approval" => st[t] = "waiting_approval" \/ Pending(rows, t) # {},
           st'[t] = "waiting_approval", Plain(t)'
    PROVE  Pending(rows', t) # {}
<1>1. Pending(rows', t) = Pending(rows, t)
  BY DEF Pending
<1>2. Plain(t)
  BY DEF Plain
<1> QED BY <1>1, <1>2 DEF WaitInv

\* resolve_callback looks at the status last, unless it has to connect again; then a
\* request of its batch is still pending.
LEMMA ResolveWait ==
    ASSUME FlowInv, WaitInv, NEW h \in Handlers, NEW k \in Click, k # Idle, k.todo \subseteq AskedRids,
           NEW c \in Clients, Ready(k, c), Resolve(h, k, c)
    PROVE  WaitInv'
<1>0. TypeInv /\ prompts \subseteq orch /\ st \in [Tasks -> {"running", "waiting_approval", "paused", "ended"}]
  BY DEF FlowInv, TypeInv, TypeTasks
<1>k. k.t \in Tasks /\ k.rid \in Rids /\ k.act \in Buttons /\ k.todo \in SUBSET Rids
  BY ClickFacts
<1>1. PICK r, rest, now : Resolves(h, k, c, r, rest, now)
  BY ResolveFacts
<1>2. /\ rest \subseteq AskedRids /\ r \in AskedRids
      /\ Targets(c, r, now) \subseteq Clients \X AskedRids
  BY <1>1, ReadySendable
<1>3. /\ r \in k.todo /\ rest = (IF k.own THEN Batch(k) ELSE k.todo \ {r})
      /\ now = (IF client = 0 THEN {} ELSE rest) /\ Sent(Targets(c, r, now), k)
      /\ UNCHANGED <<client, asked, orch>>
  BY <1>1 DEF Resolves
<1>m. PICK M : M = Targets(c, r, now)
  OBVIOUS
<1>4. RowsSent(M, k) /\ rows' \in [Tasks \X Rids -> RowType]
  BY <1>0, <1>k, <1>2, <1>3, <1>m, SentFacts
<1>5. RowsKept
  BY <1>k, <1>3, <1>4, SentRows
<1>6. rows[<<k.t, k.rid>>].st # "none"
  BY DEF Ready
<1> SUFFICES ASSUME NEW t \in Tasks \ orch, st'[t] = "waiting_approval", Plain(t)'
             PROVE  Pending(rows', t) # {}
  BY <1>3 DEF WaitInv
<1>7. CASE t # k.t
  <2>1. \A x \in Rids : rows'[<<t, x>>] = rows[<<t, x>>]
    BY <1>0, <1>4, <1>7 DEF RowsSent
  <2>2. st' = st \/ st' = Released(k.t, rows')
    BY <1>1 DEF Resolves
  <2>3. st'[t] = st[t]
    BY <1>0, <1>k, <1>7, <2>2 DEF Released
  <2> QED BY <2>1, <2>3, WaitSame
<1>8. CASE t = k.t
  <2>1. CASE rows[<<k.t, k.rid>>].kind \in Permission
    <3>1. rows'[<<k.t, k.rid>>].kind \in Permission
      BY <1>k, <1>5, <1>6, <2>1 DEF RowsKept
    <3> QED BY <1>k, <1>8, <3>1 DEF Plain
  <2>2. CASE st' = Released(k.t, rows')
    <3>1. st'[t] = IF st[t] = "waiting_approval" /\ Pending(rows', t) = {} THEN "running" ELSE st[t]
      BY <1>0, <1>8, <2>2 DEF Released
    <3> QED BY <3>1
  <2>3. CASE rest # now /\ st' = st
    <3>1. client = 0 /\ now = {} /\ rest # {}
      BY <1>3, <2>3
    <3>2. PICK y \in rest : TRUE
      BY <3>1
    <3>3. \A m \in M : m[2] = r
      BY <1>m, <3>1 DEF Targets
    <3>4. y \in Rids
      BY <1>0, <1>2, AskedFinite DEF TypeInv
    <3>5. CASE k.own
      <4>1. y # k.rid /\ rows[<<k.t, y>>].st = "pending" /\ r = k.rid
        BY <1>0, <1>k, <1>3, <3>5, BatchFacts DEF Ready
      <4>2. rows'[<<t, y>>] = rows[<<t, y>>]
        BY <1>4, <1>8, <3>3, <3>4, <4>1 DEF RowsSent
      <4>3. y \in Pending(rows', t)
        BY <1>8, <3>4, <4>1, <4>2 DEF Pending
      <4> QED BY <4>3
    <3>6. CASE ~k.own
      <4>1. y \in k.todo /\ y # r /\ y # k.rid /\ r # k.rid
        BY <1>3, <3>6 DEF Ready
      <4>2. rows[<<t, y>>].st # "none" /\ rows[<<t, r>>].st # "none" /\ rows[<<t, k.rid>>].st # "none"
        BY <1>3, <1>6, <1>8, <4>1 DEF Ready
      <4>3. rows'[<<t, y>>].st # "none" /\ rows'[<<t, r>>].st # "none" /\ rows'[<<t, k.rid>>].st # "none"
        BY <1>k, <1>3, <1>5, <3>4, <4>2 DEF RowsKept
      <4>4. r \in Rids
        BY <1>k, <1>3
      <4> QED BY <1>k, <3>4, <4>1, <4>3, <4>4 DEF Plain
    <3> QED BY <3>5, <3>6
  <2> QED BY <1>1, <2>1, <2>2, <2>3 DEF Resolves
<1> QED BY <1>7, <1>8

\* Steps that leave the rows alone.
LEMMA QuietWait ==
    ASSUME FlowInv, WaitInv, UNCHANGED <<rows, orch>>,
           \A t \in Tasks : st'[t] = "waiting_approval" => st[t] = "waiting_approval" \/ Pending(rows, t) # {}
    PROVE  WaitInv'
<1> SUFFICES ASSUME NEW t \in Tasks \ orch, st'[t] = "waiting_approval", Plain(t)'
             PROVE  Pending(rows', t) # {}
  BY DEF WaitInv
<1> QED BY WaitSame

LEMMA WaitNext ==
    ASSUME FlowInv, WaitInv, ~ReuseIds, ~Overlap, [Next]_vars
    PROVE  WaitInv'
<1>0. /\ TypeInv /\ EventsOwn /\ prompts \subseteq orch
      /\ st \in [Tasks -> {"running", "waiting_approval", "paused", "ended"}]
  BY DEF FlowInv, TypeInv, TypeTasks
<1>1. ASSUME NEW c \in Clients, NEW t \in Tasks, NEW r \in Rids, NEW k \in Kinds, Ask(c, t, r, k)
      PROVE  WaitInv'
  <2>1. RowsAsked(r, k)
    BY <1>0, <1>1, AskRows
  <2>2. st' = st /\ orch' = orch
    BY <1>1 DEF Ask
  <2> SUFFICES ASSUME NEW u \in Tasks \ orch, st'[u] = "waiting_approval", Plain(u)'
               PROVE  Pending(rows', u) # {}
    BY <2>2 DEF WaitInv
  <2>3. \A x \in Rids : rows'[<<u, x>>] = rows[<<u, x>>]
    BY <1>0, <2>1 DEF RowsAsked
  <2> QED BY <2>2, <2>3, WaitSame
<1>2. CASE \/ \E s \in sending : SendReply(s)
           \/ \E c \in Clients : ConnectionLost(c)
           \/ \E h \in Handlers : Connected(h)
           \/ UNCHANGED vars
  <2>1. UNCHANGED <<rows, orch>> /\ st' = st
    BY <1>2 DEF SendReply, ConnectionLost, Connected, vars
  <2> QED BY <2>1, QuietWait
<1>3. CASE RequestProcessed
  <2>1. PICK q, t, r, kind : RequestTaken(q, t, r, kind)
    BY <1>0, <1>3, RequestFacts
  <2>2. /\ t \in Tasks /\ r \in Rids /\ asked[q].task = t /\ asked[q].rid = r
        /\ RowsProcessed(t, r, q, kind) /\ orch' = orch
        /\ events # <<>> /\ events[1].type = "requested" /\ events[1].q = q
        /\ st' = [st EXCEPT ![t] = IF @ \in {"paused", "ended"} THEN @ ELSE "waiting_approval"]
    BY <2>1 DEF RequestTaken
  <2> SUFFICES ASSUME NEW u \in Tasks \ orch, st'[u] = "waiting_approval", Plain(u)'
               PROVE  Pending(rows', u) # {}
    BY <2>2 DEF WaitInv
  <2>3. CASE u = t
    <3>1. 1 \in 1 .. Len(events)
      BY <1>0, <2>2 DEF TypeInv, TypeEvents
    <3>2. rows[<<t, r>>].st = "none"
      BY <1>0, <2>2, <2>3, <3>1 DEF EventsOwn
    <3>3. rows'[<<t, r>>].st = "pending"
      BY <2>2, <3>2 DEF RowsProcessed
    <3> QED BY <2>2, <2>3, <3>3 DEF Pending
  <2>4. CASE u # t
    <3>1. \A x \in Rids : rows'[<<u, x>>] = rows[<<u, x>>]
      BY <2>2, <2>4 DEF RowsProcessed
    <3>2. st'[u] = st[u]
      BY <1>0, <2>2, <2>4
    <3> QED BY <3>1, <3>2, WaitSame
  <2> QED BY <2>3, <2>4
<1>4. CASE ResolutionProcessed
  <2>1. UNCHANGED <<rows, orch>> /\ st' = st
    BY <1>4, ResolutionRows DEF ResolutionProcessed
  <2> QED BY <2>1, QuietWait
<1>5. ASSUME NEW h \in Handlers, NEW t \in Tasks, NEW r \in Rids, NEW act \in Buttons,
             Press(h, t, r, act)
      PROVE  WaitInv'
  <2>k. PICK k : k = Pressed(t, r, act)
    OBVIOUS
  <2>1. k \in Click /\ k # Idle /\ k.todo \subseteq AskedRids /\ rows[<<t, r>>].st # "none"
    BY <1>0, <1>5, <2>k, PressedType, PressFacts
  <2>2. k.t = t /\ k.rid = r /\ k.own = TRUE /\ k.todo = {r}
    BY <2>k DEF Pressed
  <2>3. PressOutcome(h, t, r, act)
    BY <1>5, PressFacts
  <2>4. CASE /\ st[t] = "ended" /\ rows' = Resolved(rows, {<<t, r>>}, "cancelled")
             /\ UNCHANGED <<st, orch>>
    <3>1. PICK P, v : P = {<<t, r>>} /\ v = "cancelled"
      OBVIOUS
    <3>2. v \in Decided /\ rows \in [Tasks \X Rids -> RowType] /\ rows' = Resolved(rows, P, v)
      BY <1>0, <2>4, <3>1 DEF Decided, TypeInv, TypeRows
    <3>3. Becomes(rows, P, v, rows')
      BY <3>2, ResolvedFacts
    <3> SUFFICES ASSUME NEW u \in Tasks \ orch, st'[u] = "waiting_approval", Plain(u)'
                 PROVE  Pending(rows', u) # {}
      BY <2>4 DEF WaitInv
    <3>4. u # t /\ st'[u] = st[u]
      BY <2>4
    <3>5. \A x \in Rids : rows'[<<u, x>>] = rows[<<u, x>>]
      BY <3>1, <3>3, <3>4 DEF Becomes
    <3> QED BY <3>4, <3>5, WaitSame
  <2>5. CASE /\ rows[<<t, r>>].st = "pending" /\ client # 0
             /\ Resolve(h, Pressed(t, r, act), client)
    <3>1. client \in Clients
      BY <1>0, <2>5, ApprovalAssumption DEF TypeInv, TypeAsked, Clients
    <3>2. PICK c \in Clients : c = client
      BY <3>1
    <3>3. Ready(k, c)
      BY <2>2, <2>5, <3>2 DEF Ready
    <3>4. Resolve(h, k, c)
      BY <2>k, <2>5, <3>2
    <3> QED BY <2>1, <3>3, <3>4, ResolveWait
  <2>6. CASE UNCHANGED <<rows, st, orch>>
    BY <2>6, QuietWait
  <2> QED BY <2>3, <2>4, <2>5, <2>6 DEF PressOutcome
<1>6. ASSUME NEW h \in Handlers, Initialized(h) PROVE WaitInv'
  <2>1. PICK k, c : k = clicks[h] /\ c = k.c
    OBVIOUS
  <2>2. Resolve(h, k, c) /\ k \in Click /\ k # Idle /\ k.todo \subseteq AskedRids /\ c \in Clients /\ Ready(k, c)
    BY <1>6, <2>1, InitializedReady
  <2> QED BY <2>2, ResolveWait
<1>7. ASSUME NEW h \in Handlers, SendFails(h) \/ Interrupted(h) PROVE WaitInv'
  <2>1. /\ UNCHANGED <<rows, orch>> /\ clicks[h].at # "idle"
        /\ st' = st \/ st' = Released(clicks[h].t, rows)
    BY <1>7 DEF SendFails, Interrupted
  <2>2. clicks[h].t \in Tasks
    <3>1. clicks[h] \in Click
      BY <1>0 DEF TypeInv, TypeClicks
    <3> QED BY <2>1, <3>1, ClickFacts
  <2>3. \A t \in Tasks : st'[t] = "waiting_approval" => st[t] = "waiting_approval"
    BY <1>0, <2>1, <2>2 DEF Released
  <2> QED BY <2>1, <2>3, QuietWait
<1>8. CASE Task
  <2>1. /\ UNCHANGED <<rows, orch>>
        /\ \A t \in Tasks : st'[t] = "waiting_approval" => st[t] = "waiting_approval" \/ Pending(rows, t) # {}
    BY <1>0, <1>8, TaskStep
  <2> QED BY <2>1, QuietWait
<1> QED
  <2>1. CASE Server
    BY <1>1, <1>2, <2>1 DEF Server
  <2>2. CASE Bridge
    BY <1>3, <1>4, <2>2 DEF Bridge
  <2>3. CASE User
    BY <1>5, <2>3 DEF User
  <2>4. CASE Handler
    BY <1>2, <1>6, <1>7, <2>4 DEF Handler
  <2> QED BY <1>2, <1>8, <2>1, <2>2, <2>3, <2>4 DEF Next

\* A task without a run that waits for an approval has one to click on, whatever
\* handlers, reconnections, batches and completed turns do: if ids are not used again and
\* no other task asks during a run's prompt, and but for tasks with a permission or with
\* more than two requests.
THEOREM WaitingAlwaysHasPending == ASSUME ~ReuseIds, ~Overlap PROVE Spec => []WaitingHasPending
<1>1. Init => WaitInv
  BY DEF Init, WaitInv
<1>2. FlowInv /\ WaitInv /\ [Next]_vars => WaitInv'
  BY WaitNext
<1>3. WaitInv => WaitingHasPending
  BY DEF WaitInv, Plain, WaitingHasPending
<1> QED BY <1>1, <1>2, <1>3, FlowInvariant, PTL DEF Spec
=============================================================================
