------------------------- MODULE RelayDispatchProofs -------------------------
(***************************************************************************)
(* Proofs about RelayDispatch for every number of coroutines, rounds,      *)
(* attempts, turns and faults: type correctness, the accounting of         *)
(* dispatch claims, the sealing of superseded rounds and the agreement of  *)
(* the dispatch metadata and the attempts on a round's provider session.   *)
(***************************************************************************)
EXTENDS RelayDispatch, TLAPS

\* There is a current round, it is not superseded, and every round has a row.
CurrentOpen ==
    /\ Len(rounds) >= 1 /\ rounds[Len(rounds)] # "superseded"
    /\ \A r \in 1 .. Len(rounds) : Len(attempts[r]) >= 1

\* A coroutine that is under way works for a round that exists.
JobsPlaced == \A w \in Workers : job[w].pc # "idle" => job[w].round \in 1 .. Len(rounds)

\* The attempts of a round that is not the current one can no longer be claimed.
Closed(rows) == \A n \in 1 .. Len(rows) : rows[n].status \in {"passed", "superseded"}
OldRoundsClosed == \A r \in 1 .. Len(rounds) : r # Len(rounds) => Closed(attempts[r])

\* A queued row has a claim less than the resumes allow: the one it waits for.
Accounted(rows) ==
    \A n \in 1 .. Len(rows) :
        /\ rows[n].claims <= 1 + rows[n].reopened
        /\ rows[n].status = "queued" => rows[n].claims <= rows[n].reopened
AllAccounted == \A r \in 1 .. Len(rounds) : Accounted(attempts[r])

\* A coroutine reports a turn the provider began.
TurnsKnown == \A w \in Workers : job[w].turn <= Len(turns)

\* The row the service looks at: the latest attempt of a round.
LastRow(rows) == rows[Len(rows)]

\* The latest attempt waits for the answer of the session the metadata names.
SessionsAwaited ==
    \A r \in 1 .. Len(rounds) : session[r] # 0 => LastRow(attempts[r]).run = session[r]

\* The current round's latest attempt is not superseded, so that results reach it.
CurrentLive == LastRow(attempts[Len(rounds)]).status # "superseded"

\* The inductive invariant.
DispatchInv ==
    /\ TypeOK /\ CurrentOpen /\ JobsPlaced /\ OldRoundsClosed /\ AllAccounted
    /\ TurnsKnown /\ SessionsAwaited /\ CurrentLive

\* What the rows of the current round must be after a step, with the session that
\* the metadata then names.
RowsFor(rows, ses) ==
    /\ rows \in Seq(Attempt) /\ Len(rows) >= 1 /\ Accounted(rows)
    /\ LastRow(rows).status # "superseded"
    /\ ses # 0 => LastRow(rows).run = ses

-----------------------------------------------------------------------------
(* Facts about the operators *)

\* A function on 1 .. n is a sequence of length n.
LEMMA FunIsSeq ==
    ASSUME NEW S, NEW n \in Nat, NEW f \in [1 .. n -> S]
    PROVE  f \in Seq(S) /\ Len(f) = n
  OBVIOUS

\* update_attempt keeps a table of rows well typed, never shortens it, records the
\* given run and status unless the last row is superseded, and keeps the
\* accounting unless it puts the row back to queued.
LEMMA UpdatedFacts ==
    ASSUME NEW rows \in Seq(Attempt), Len(rows) >= 1, NEW status \in AttemptStatus,
           NEW run \in Nat
    PROVE  /\ Updated(rows, status, run) \in Seq(Attempt)
           /\ Len(Updated(rows, status, run)) >= Len(rows)
           /\ LastRow(rows).status # "superseded" =>
                 /\ LastRow(Updated(rows, status, run)).status = status
                 /\ LastRow(Updated(rows, status, run)).run = OrElse(run, LastRow(rows).run)
           /\ status # "queued" /\ Accounted(rows) => Accounted(Updated(rows, status, run))
<1> DEFINE n == Len(rows)
           last == rows[n]
           new == [Queued(OrElse(run, last.run)) EXCEPT !.status = status]
           app == Append(rows, new)
           exc == [rows EXCEPT ![n].status = status, ![n].run = OrElse(run, @)]
<1>1. n \in Nat /\ n \in 1 .. n /\ last \in Attempt /\ rows \in [1 .. n -> Attempt]
  OBVIOUS
<1>2. OrElse(run, last.run) \in Nat
  BY <1>1 DEF OrElse, Attempt
<1>3. CASE last.status = "superseded"
  BY <1>1, <1>3 DEF Updated, LastRow
<1>4. CASE last.status # "superseded" /\ Updated(rows, status, run) = app
  <2>1. new \in Attempt /\ new.run = OrElse(run, last.run) /\ new.status = status
        /\ new.claims = 0 /\ new.reopened = 0
    BY <1>2 DEF Queued, Attempt
  <2> HIDE DEF new
  <2>2. app \in Seq(Attempt) /\ Len(app) = n + 1 /\ app[n + 1] = new
        /\ \A i \in 1 .. n : app[i] = rows[i]
    BY <2>1
  <2> HIDE DEF app
  <2>3. LastRow(app).status = status /\ LastRow(app).run = OrElse(run, LastRow(rows).run)
    BY <2>1, <2>2 DEF LastRow
  <2>4. Accounted(rows) => Accounted(app)
    BY <1>1, <2>1, <2>2 DEF Accounted
  <2> QED BY <1>4, <2>2, <2>3, <2>4, <1>1
<1>5. CASE last.status # "superseded" /\ Updated(rows, status, run) = exc
  <2>1. exc \in [1 .. n -> Attempt] /\ \A i \in 1 .. n : i # n => exc[i] = rows[i]
    BY <1>1, <1>2 DEF Attempt
  <2>2. exc[n].run = OrElse(run, last.run) /\ exc[n].status = status
        /\ exc[n].claims = last.claims /\ exc[n].reopened = last.reopened
    BY <1>1 DEF Attempt
  <2> HIDE DEF exc
  <2>3. exc \in Seq(Attempt) /\ Len(exc) = n
    BY <1>1, <2>1, FunIsSeq
  <2>4. LastRow(exc).status = status /\ LastRow(exc).run = OrElse(run, LastRow(rows).run)
    BY <2>2, <2>3 DEF LastRow
  <2>5. status # "queued" /\ Accounted(rows) => Accounted(exc)
    BY <1>1, <2>1, <2>2, <2>3 DEF Accounted
  <2> QED BY <1>5, <2>3, <2>4, <2>5, <1>1
<1> QED BY <1>3, <1>4, <1>5 DEF Updated

\* A step that touches the rows of the current round only, and ends or continues
\* the coroutines' work.
LEMMA CurrentStep ==
    ASSUME DispatchInv,
           rounds' \in Seq(RoundStatus), Len(rounds') = Len(rounds),
           rounds'[Len(rounds)] # "superseded",
           attempts' \in Seq(Seq(Attempt)), Len(attempts') = Len(rounds),
           \A r \in 1 .. Len(rounds) : r # Len(rounds) => attempts'[r] = attempts[r],
           RowsFor(attempts'[Len(rounds)], session'[Len(rounds)]),
           error' \in Seq(Error), Len(error') = Len(rounds),
           session' \in Seq(Nat), Len(session') = Len(rounds),
           \A r \in 1 .. Len(rounds) : r # Len(rounds) => session'[r] = session[r],
           turns' = turns, faults' \in Nat,
           job' \in [Workers -> Job],
           \A w \in Workers : job'[w].turn \in {0, job[w].turn},
           \A w \in Workers : job'[w].pc # "idle" => job'[w].round \in 1 .. Len(rounds)
    PROVE  DispatchInv'
<1> DEFINE c == Len(rounds)
<1>1. TypeOK /\ c \in Nat /\ c \in 1 .. c
  BY DEF DispatchInv, TypeOK, CurrentOpen
<1>2. TypeOK'
  BY <1>1 DEF TypeOK
<1>3. CurrentOpen' /\ JobsPlaced' /\ OldRoundsClosed' /\ AllAccounted'
  <2>1. CurrentOpen'
    BY DEF DispatchInv, CurrentOpen, RowsFor
  <2>2. JobsPlaced'
    BY DEF JobsPlaced
  <2>3. OldRoundsClosed'
    BY DEF DispatchInv, OldRoundsClosed, Closed
  <2>4. AllAccounted'
    BY DEF DispatchInv, AllAccounted, Accounted, RowsFor
  <2> QED BY <2>1, <2>2, <2>3, <2>4
<1>4. TurnsKnown'
  <2>1. Len(turns) \in Nat /\ \A w \in Workers : job[w].turn <= Len(turns)
    BY <1>1 DEF DispatchInv, TurnsKnown, TypeOK
  <2>2. \A w \in Workers : job'[w].turn <= Len(turns)
    <3> SUFFICES ASSUME NEW w \in Workers PROVE job'[w].turn <= Len(turns)
      OBVIOUS
    <3>1. job'[w].turn = 0 \/ job'[w].turn = job[w].turn
      OBVIOUS
    <3> QED BY <2>1, <3>1
  <2> QED BY <2>2 DEF TurnsKnown
<1>5. SessionsAwaited'
  <2> SUFFICES ASSUME NEW r \in 1 .. c, session'[r] # 0
               PROVE  LastRow(attempts'[r]).run = session'[r]
    BY DEF SessionsAwaited, LastRow
  <2>1. CASE r = c
    BY <2>1 DEF RowsFor
  <2>2. CASE r # c
    BY <2>2 DEF DispatchInv, SessionsAwaited
  <2> QED BY <2>1, <2>2
<1>6. CurrentLive'
  BY DEF CurrentLive, RowsFor, LastRow
<1> QED BY <1>2, <1>3, <1>4, <1>5, <1>6 DEF DispatchInv

\* Replacing one element of a sequence.
LEMMA PutInSeq ==
    ASSUME NEW S, NEW s \in Seq(S), NEW i \in 1 .. Len(s), NEW e \in S
    PROVE  /\ [s EXCEPT ![i] = e] \in Seq(S)
           /\ Len([s EXCEPT ![i] = e]) = Len(s)
           /\ [s EXCEPT ![i] = e][i] = e
           /\ \A j \in 1 .. Len(s) : j # i => [s EXCEPT ![i] = e][j] = s[j]
<1> DEFINE t == [s EXCEPT ![i] = e]
<1>1. Len(s) \in Nat /\ s \in [1 .. Len(s) -> S]
  OBVIOUS
<1>2. t \in [1 .. Len(s) -> S] /\ t[i] = e /\ \A j \in 1 .. Len(s) : j # i => t[j] = s[j]
  BY <1>1
<1> HIDE DEF t
<1>3. t \in Seq(S) /\ Len(t) = Len(s)
  BY <1>1, <1>2, FunIsSeq
<1> QED BY <1>2, <1>3 DEF t

\* The current round and its rows.
LEMMA CurFacts ==
    ASSUME DispatchInv
    PROVE  /\ TypeOK /\ Cur = Len(rounds) /\ Cur \in Nat /\ Cur \in 1 .. Cur
           /\ Cur \in 1 .. Len(attempts) /\ Cur \in 1 .. Len(session) /\ Cur \in 1 .. Len(error)
           /\ rounds[Cur] \in RoundStatus /\ rounds[Cur] # "superseded"
           /\ attempts[Cur] \in Seq(Attempt) /\ Len(attempts[Cur]) >= 1
           /\ Accounted(attempts[Cur]) /\ Latest(Cur) \in Attempt
           /\ RowsFor(attempts[Cur], session[Cur])
<1>1. TypeOK /\ CurrentOpen /\ AllAccounted
  BY DEF DispatchInv
<1>2. Cur = Len(rounds) /\ Cur \in Nat /\ Cur \in 1 .. Cur /\ Len(attempts) = Cur
      /\ Len(session) = Cur /\ Len(error) = Cur
  BY <1>1 DEF Cur, TypeOK, CurrentOpen
<1>3. rounds[Cur] \in RoundStatus /\ rounds[Cur] # "superseded"
  BY <1>1, <1>2 DEF TypeOK, CurrentOpen
<1>4. attempts[Cur] \in Seq(Attempt) /\ Len(attempts[Cur]) >= 1 /\ Accounted(attempts[Cur])
  BY <1>1, <1>2 DEF TypeOK, CurrentOpen, AllAccounted
<1>5. Latest(Cur) \in Attempt
  BY <1>4 DEF Latest
<1>6. RowsFor(attempts[Cur], session[Cur])
  BY <1>2, <1>4 DEF RowsFor, DispatchInv, SessionsAwaited, CurrentLive
<1> QED BY <1>1, <1>2, <1>3, <1>4, <1>5, <1>6

\* A coroutine at rest.
LEMMA IdleType == Idle \in Job /\ Idle.pc = "idle" /\ Idle.turn = 0
  BY DEF Idle, Job, Pc, Calls

\* A step in which one coroutine changes its mind and no table changes.
LEMMA JobStep ==
    ASSUME DispatchInv, NEW w \in Workers, NEW j \in Job,
           UNCHANGED <<rounds, attempts, error, session, turns>>, faults' \in Nat,
           job' = [job EXCEPT ![w] = j],
           j.turn \in {0, job[w].turn}, j.pc # "idle" => j.round \in 1 .. Len(rounds)
    PROVE  DispatchInv'
<1>1. TypeOK /\ JobsPlaced
  BY DEF DispatchInv
<1>2. job' \in [Workers -> Job]
  BY <1>1 DEF TypeOK
<1>3. \A v \in Workers : job'[v] = IF v = w THEN j ELSE job[v]
  BY <1>1 DEF TypeOK
<1>4. /\ \A v \in Workers : job'[v].turn \in {0, job[v].turn}
      /\ \A v \in Workers : job'[v].pc # "idle" => job'[v].round \in 1 .. Len(rounds)
  BY <1>1, <1>3 DEF JobsPlaced
<1>5. /\ Len(rounds) = Cur /\ Len(attempts) = Cur /\ Len(error) = Cur /\ Len(session) = Cur
      /\ rounds \in Seq(RoundStatus) /\ attempts \in Seq(Seq(Attempt))
      /\ error \in Seq(Error) /\ session \in Seq(Nat)
  BY <1>1 DEF TypeOK, Cur
<1> QED BY <1>2, <1>4, <1>5, CurFacts, CurrentStep

-----------------------------------------------------------------------------
(* The actions *)

\* Scheduling dispatch_role touches only the coroutine that will run it.
LEMMA ScheduleInv == ASSUME DispatchInv, NEW w \in Workers, Schedule(w) PROVE DispatchInv'
<1> DEFINE j == [Idle EXCEPT !.pc = "dispatch", !.round = Cur, !.prefer = TRUE]
<1>1. j \in Job /\ j.pc = "dispatch" /\ j.round = Cur /\ j.turn = 0
  BY CurFacts DEF Idle, Job, Pc
<1>2. job' = [job EXCEPT ![w] = j]
  BY DEF Schedule, Goto
<1> HIDE DEF j
<1> QED BY <1>1, <1>2, CurFacts, JobStep DEF Schedule, TypeOK

\* dispatch_role reads the task and goes to its claim or returns.
LEMMA DispatchStepInv == ASSUME DispatchInv, NEW w \in Workers, Dispatch(w) PROVE DispatchInv'
<1> DEFINE b == IF job[w].prefer THEN session[Cur] ELSE 0
           j == [Idle EXCEPT !.pc = "claim", !.round = Cur, !.existing = b]
<1>0. b \in Nat
  BY CurFacts DEF TypeOK, Job
<1> HIDE DEF b
<1>1. j \in Job /\ j.pc = "claim" /\ j.round = Cur /\ j.turn = 0
  BY <1>0, CurFacts DEF Idle, Job, Pc
<1>2. job' = [job EXCEPT ![w] = j] \/ job' = [job EXCEPT ![w] = Idle]
  BY DEF Dispatch, GoIdle, b
<1> HIDE DEF j
<1>3. UNCHANGED <<rounds, attempts, error, session, turns>> /\ faults' \in Nat
  BY CurFacts DEF Dispatch, TypeOK
<1> QED BY <1>1, <1>2, <1>3, CurFacts, IdleType, JobStep

\* The resume route checks its gate before it awaits the request's body.
LEMMA ResumeGateInv == ASSUME DispatchInv, NEW w \in Workers, ResumeGate(w) PROVE DispatchInv'
<1> DEFINE j == [Idle EXCEPT !.pc = "resume", !.round = Cur, !.prefer = TRUE]
<1>1. j \in Job /\ j.pc = "resume" /\ j.round = Cur /\ j.turn = 0
  BY CurFacts DEF Idle, Job, Pc
<1>2. job' = [job EXCEPT ![w] = j]
  BY DEF ResumeGate, Goto
<1> HIDE DEF j
<1> QED BY <1>1, <1>2, CurFacts, JobStep DEF ResumeGate, TypeOK

\* A coroutine that dies leaves the tables as they are; its turn, if it had one,
\* is never reported.
LEMMA CrashInv == ASSUME DispatchInv, NEW w \in Workers, Crash(w) PROVE DispatchInv'
<1>1. job' = [job EXCEPT ![w] = Idle] /\ UNCHANGED <<rounds, attempts, error, session, turns>>
  BY DEF Crash, GoIdle
<1>2. faults' \in Nat
  BY CurFacts DEF Crash, TypeOK
<1> QED BY <1>1, <1>2, IdleType, JobStep

\* The tables that keep one entry per round stay so: unchanged, or with the entry
\* of the current round rewritten.
RoundTables ==
    /\ rounds' \in Seq(RoundStatus) /\ Len(rounds') = Cur /\ rounds'[Cur] # "superseded"
    /\ error' \in Seq(Error) /\ Len(error') = Cur
    /\ session' \in Seq(Nat) /\ Len(session') = Cur
    /\ \A r \in 1 .. Cur : r # Cur => session'[r] = session[r]

\* The typing of the rounds, errors and sessions before a step.
LEMMA TablesBefore ==
    ASSUME DispatchInv
    PROVE  /\ rounds \in Seq(RoundStatus) /\ Len(rounds) = Cur /\ rounds[Cur] # "superseded"
           /\ error \in Seq(Error) /\ Len(error) = Cur
           /\ session \in Seq(Nat) /\ Len(session) = Cur
           /\ Cur \in 1 .. Cur
  BY CurFacts DEF TypeOK

\* A step that rewrites the rows of the current round, and perhaps its status.
LEMMA RowsStep ==
    ASSUME DispatchInv, RoundTables, NEW u, RowsFor(u, session'[Cur]),
           attempts' = [attempts EXCEPT ![Cur] = u],
           turns' = turns, faults' \in Nat,
           job' \in [Workers -> Job],
           \A w \in Workers : job'[w].turn \in {0, job[w].turn},
           \A w \in Workers : job'[w].pc # "idle" => job'[w].round \in 1 .. Cur
    PROVE  DispatchInv'
<1>1. attempts \in Seq(Seq(Attempt)) /\ Len(attempts) = Cur /\ Cur = Len(rounds) /\ Cur \in 1 .. Cur
  BY CurFacts DEF TypeOK
<1>2. /\ attempts' \in Seq(Seq(Attempt)) /\ Len(attempts') = Cur /\ attempts'[Cur] = u
      /\ \A r \in 1 .. Cur : r # Cur => attempts'[r] = attempts[r]
  BY <1>1, PutInSeq DEF RowsFor
<1> QED BY <1>1, <1>2, CurrentStep DEF RoundTables

\* The same with one coroutine that moves on.
LEMMA RowsStepBy ==
    ASSUME DispatchInv, RoundTables, NEW u, RowsFor(u, session'[Cur]),
           attempts' = [attempts EXCEPT ![Cur] = u],
           turns' = turns, faults' = faults,
           NEW w \in Workers, NEW j \in Job, job' = [job EXCEPT ![w] = j],
           j.turn \in {0, job[w].turn}, j.pc # "idle" => j.round \in 1 .. Cur
    PROVE  DispatchInv'
<1>1. TypeOK /\ JobsPlaced /\ Cur = Len(rounds)
  BY CurFacts DEF DispatchInv
<1>2. job' \in [Workers -> Job] /\ faults' \in Nat
  BY <1>1 DEF TypeOK
<1>3. \A v \in Workers : job'[v] = IF v = w THEN j ELSE job[v]
  BY <1>1 DEF TypeOK
<1>4. /\ \A v \in Workers : job'[v].turn \in {0, job[v].turn}
      /\ \A v \in Workers : job'[v].pc # "idle" => job'[v].round \in 1 .. Cur
  BY <1>1, <1>3 DEF JobsPlaced
<1> QED BY <1>2, <1>4, RowsStep

\* claim_queued_attempt_dispatch takes a queued row, which only the current round
\* has, and uses up the claim that row had left.
LEMMA ClaimInv == ASSUME DispatchInv, NEW w \in Workers, Claim(w) PROVE DispatchInv'
<1> DEFINE r == job[w].round
           n == Len(attempts[r])
<1>1. TypeOK /\ r \in 1 .. Len(rounds) /\ OldRoundsClosed
  BY DEF Claim, DispatchInv, JobsPlaced
<1>2. CASE Latest(r).status = "queued"
  <2>1. r = Cur
    <3>1. Len(attempts[r]) >= 1 /\ attempts[r] \in Seq(Attempt)
      BY <1>1 DEF DispatchInv, CurrentOpen, TypeOK
    <3>2. n \in 1 .. Len(attempts[r])
      BY <3>1
    <3>3. ~Closed(attempts[r])
      BY <3>2, <1>2 DEF Closed, Latest
    <3> QED BY <3>3, <1>1 DEF OldRoundsClosed, Cur
  <2> DEFINE rows == attempts[Cur]
             u == [rows EXCEPT ![n].status = "dispatching", ![n].claims = @ + 1]
             j == [job[w] EXCEPT !.no = n, !.pc = IF job[w].existing # 0 THEN "continue" ELSE "start"]
  <2>2. attempts' = [attempts EXCEPT ![r][n].status = "dispatching", ![r][n].claims = @ + 1]
        /\ job' = [job EXCEPT ![w].no = n,
                              ![w].pc = IF job[w].existing # 0 THEN "continue" ELSE "start"]
    BY <1>2 DEF Claim
  <2>3. attempts' = [attempts EXCEPT ![Cur] = u]
    BY <2>1, <2>2, CurFacts DEF TypeOK
  <2>4. job' = [job EXCEPT ![w] = j]
    BY <2>2, <1>1 DEF TypeOK
  <2>5. n \in 1 .. n /\ n = Len(rows) /\ n \in Nat /\ rows \in [1 .. n -> Attempt]
    BY <2>1, CurFacts
  <2>7. u[n].run = rows[n].run /\ u[n].status = "dispatching"
        /\ u[n].claims = rows[n].claims + 1 /\ u[n].reopened = rows[n].reopened
        /\ rows[n].claims \in Nat /\ rows[n].reopened \in Nat
    BY <2>5 DEF Attempt
  <2>6. u \in [1 .. n -> Attempt] /\ (\A i \in 1 .. n : i # n => u[i] = rows[i])
    <3> DEFINE d == [rows[n] EXCEPT !.status = "dispatching"]
               e == [d EXCEPT !.claims = @ + 1]
    <3>0. d \in Attempt
      BY <2>5 DEF Attempt, AttemptStatus
    <3>1. e \in Attempt
      <4> HIDE DEF d
      <4>1. d.claims + 1 \in Nat
        BY <3>0 DEF Attempt
      <4> QED BY <3>0, <4>1 DEF Attempt
    <3>2. u = [rows EXCEPT ![n] = e]
      BY <2>5 DEF Attempt
    <3> HIDE DEF e, u
    <3> QED BY <2>5, <3>1, <3>2
  <2>8. j \in Job /\ j.turn = job[w].turn /\ j.round = job[w].round
    BY <1>1, <2>5 DEF TypeOK, Job, Pc, Calls
  <2> HIDE DEF u, j
  <2>9. u \in Seq(Attempt) /\ Len(u) = n
    BY <2>5, <2>6, FunIsSeq
  <2>10. Accounted(u)
    <3>1. Accounted(rows) /\ rows[n].status = "queued"
      BY <1>2, <2>1, CurFacts DEF Latest
    <3>2. rows[n].claims <= rows[n].reopened
      BY <3>1, <2>5 DEF Accounted
    <3>3. u[n].claims <= 1 + u[n].reopened /\ u[n].status # "queued"
      BY <3>2, <2>7
    <3> QED BY <3>1, <3>3, <2>5, <2>6, <2>9 DEF Accounted
  <2>11. RowsFor(u, session[Cur])
    <3>1. LastRow(u).status = "dispatching" /\ LastRow(u).run = LastRow(rows).run
      BY <2>5, <2>7, <2>9 DEF LastRow
    <3>2. RowsFor(rows, session[Cur])
      BY CurFacts
    <3> QED BY <3>1, <3>2, <2>5, <2>9, <2>10 DEF RowsFor
  <2>12. UNCHANGED <<rounds, error, session, turns, faults>>
    BY DEF Claim
  <2>13. RoundTables
    BY <2>12, TablesBefore DEF RoundTables
  <2> HIDE DEF rows
  <2>14. j.round \in 1 .. Cur
    BY <2>1, <2>8, CurFacts
  <2> QED BY <2>3, <2>4, <2>8, <2>11, <2>12, <2>13, <2>14, RowsStepBy
<1>3. CASE Latest(r).status # "queued"
  <2>1. UNCHANGED <<rounds, attempts, error, session, turns>> /\ job' = [job EXCEPT ![w] = Idle]
    BY <1>3 DEF Claim, GoIdle
  <2>2. faults' \in Nat
    BY <1>1 DEF Claim, TypeOK
  <2> QED BY <2>1, <2>2, IdleType, JobStep
<1> QED BY <1>2, <1>3

\* The verified result of a call goes onto the current round's rows and metadata.
LEMMA VerifiedInv == ASSUME DispatchInv, NEW w \in Workers, Verified(w) PROVE DispatchInv'
<1> DEFINE rows == attempts[Cur]
           k == turns[job[w].turn].run
           st == IF rounds[Cur] = "blocked" THEN "blocked"
                 ELSE IF Latest(Cur).status \in Terminal THEN Latest(Cur).status ELSE "streaming"
           v == Updated(rows, st, k)
           u == Updated(v, "streaming", k)
<1>0. k \in Nat
  <2>1. job[w].turn \in 1 .. Len(turns)
    BY CurFacts DEF Verified, DispatchInv, TurnsKnown, TypeOK, Job
  <2>2. turns \in Seq(Turn)
    BY CurFacts DEF TypeOK
  <2>3. turns[job[w].turn] \in Turn
    BY <2>1, <2>2
  <2> QED BY <2>3 DEF Turn
<1>1. /\ st \in AttemptStatus /\ st # "queued" /\ st # "superseded"
      /\ "streaming" \in AttemptStatus /\ "streaming" # "queued"
  BY CurFacts DEF Terminal, AttemptStatus, RowsFor, Latest, LastRow
<1>2. attempts' = [attempts EXCEPT ![Cur] = u]
  BY DEF Verified, Dispatched
<1>3. session' = [session EXCEPT ![Cur] = k] /\ job' = [job EXCEPT ![w] = Idle]
      /\ UNCHANGED <<rounds, error, turns, faults>>
  BY DEF Verified, GoIdle
<1> HIDE DEF st, k
<1>4. v \in Seq(Attempt) /\ Len(v) >= 1 /\ Accounted(v) /\ LastRow(v).status # "superseded"
  <2>1. /\ rows \in Seq(Attempt) /\ Len(rows) >= 1 /\ Accounted(rows) /\ Len(rows) \in Nat
        /\ LastRow(rows).status # "superseded"
    BY CurFacts DEF RowsFor
  <2> HIDE DEF rows
  <2>2. v \in Seq(Attempt) /\ Len(v) >= Len(rows) /\ LastRow(v).status = st
        /\ (st # "queued" /\ Accounted(rows) => Accounted(v))
    BY <1>0, <1>1, <2>1, UpdatedFacts
  <2> HIDE DEF v
  <2>3. Len(v) \in Nat
    BY <2>2
  <2> QED BY <1>1, <2>1, <2>2, <2>3
<1> HIDE DEF v
<1>5. u \in Seq(Attempt) /\ Len(u) >= Len(v) /\ Accounted(u) /\ LastRow(u).status = "streaming"
      /\ LastRow(u).run = OrElse(k, LastRow(v).run)
  BY <1>0, <1>1, <1>4, UpdatedFacts
<1> HIDE DEF u
<1>6. RowsFor(u, k)
  <2>1. Len(u) \in Nat /\ Len(v) \in Nat
    BY <1>4, <1>5
  <2> QED BY <2>1, <1>4, <1>5 DEF RowsFor, OrElse
<1>7. RoundTables /\ session'[Cur] = k
  <2>1. session' \in Seq(Nat) /\ Len(session') = Cur /\ session'[Cur] = k
        /\ \A r \in 1 .. Cur : r # Cur => session'[r] = session[r]
    BY <1>0, <1>3, TablesBefore, PutInSeq
  <2> QED BY <1>3, <2>1, TablesBefore DEF RoundTables
<1> QED BY <1>2, <1>3, <1>6, <1>7, IdleType, RowsStepBy

\* Updating the current round's rows without a run: the rows after it.
LEMMA UpdatedCurrent ==
    ASSUME DispatchInv, NEW st \in AttemptStatus, st # "queued", st # "superseded"
    PROVE  RowsFor(Updated(attempts[Cur], st, 0), session[Cur])
<1> DEFINE rows == attempts[Cur]
           u == Updated(rows, st, 0)
<1>1. RowsFor(rows, session[Cur])
  BY CurFacts
<1> HIDE DEF rows
<1>2. rows \in Seq(Attempt) /\ Len(rows) >= 1 /\ Len(rows) \in Nat
  BY <1>1 DEF RowsFor
<1>3. /\ u \in Seq(Attempt) /\ Len(u) >= Len(rows) /\ Accounted(u)
      /\ LastRow(u).status = st /\ LastRow(u).run = OrElse(0, LastRow(rows).run)
  BY <1>1, <1>2, UpdatedFacts DEF RowsFor
<1> HIDE DEF u
<1>4. Len(u) \in Nat
  BY <1>3
<1>5. RowsFor(u, session[Cur])
  BY <1>1, <1>2, <1>3, <1>4 DEF RowsFor, OrElse
<1> QED BY <1>5 DEF u, rows

\* A step of nobody's coroutine that sets the latest attempt's status.
LEMMA StatusStep ==
    ASSUME DispatchInv, NEW st \in AttemptStatus, st # "queued", st # "superseded",
           RoundTables, session' = session,
           attempts' = [attempts EXCEPT ![Cur] = Updated(attempts[Cur], st, 0)],
           turns' = turns, job' = job, faults' \in Nat
    PROVE  DispatchInv'
<1>1. RowsFor(Updated(attempts[Cur], st, 0), session'[Cur])
  BY UpdatedCurrent
<1>2. /\ job' \in [Workers -> Job]
      /\ \A w \in Workers : job'[w].turn \in {0, job[w].turn}
      /\ \A w \in Workers : job'[w].pc # "idle" => job'[w].round \in 1 .. Cur
  BY CurFacts DEF DispatchInv, JobsPlaced, TypeOK
<1> QED BY <1>1, <1>2, RowsStep

\* Blocking the role and its round.
LEMMA BlockTables ==
    ASSUME DispatchInv, NEW err \in Error, Block(err)
    PROVE  /\ rounds' \in Seq(RoundStatus) /\ Len(rounds') = Cur /\ rounds'[Cur] = "blocked"
           /\ error' \in Seq(Error) /\ Len(error') = Cur
<1>1. rounds' = [rounds EXCEPT ![Cur] = "blocked"] /\ "blocked" \in RoundStatus
  BY DEF Block, RoundStatus
<1>2. rounds' \in Seq(RoundStatus) /\ Len(rounds') = Cur /\ rounds'[Cur] = "blocked"
  BY <1>1, TablesBefore, PutInSeq
<1>3. error' = error \/ error' = [error EXCEPT ![Cur] = err]
  BY DEF Block
<1>4. error' \in Seq(Error) /\ Len(error') = Cur
  <2>1. CASE error' = error
    BY <2>1, TablesBefore
  <2>2. CASE error' = [error EXCEPT ![Cur] = err]
    BY <2>2, TablesBefore, PutInSeq
  <2> QED BY <1>3, <2>1, <2>2
<1> QED BY <1>2, <1>4

\* handle_runtime_event: a failed turn blocks the role.
LEMMA TurnFailsInv == ASSUME DispatchInv, TurnFails PROVE DispatchInv'
<1>1. "failure" \in Error /\ Block("failure") /\ UNCHANGED <<session, turns, job, faults>>
  BY DEF TurnFails, Error
<1>2. RoundTables
  BY <1>1, BlockTables, TablesBefore DEF RoundTables
<1>3. attempts' = [attempts EXCEPT ![Cur] = Updated(attempts[Cur], "blocked", 0)]
  BY <1>1 DEF Block
<1>4. "blocked" \in AttemptStatus /\ faults' \in Nat
  BY <1>1, CurFacts DEF AttemptStatus, TypeOK
<1> QED BY <1>1, <1>2, <1>3, <1>4, StatusStep

\* handle_runtime_event: a final summary completes the round.
LEMMA TurnCompletesInv == ASSUME DispatchInv, TurnCompletes PROVE DispatchInv'
<1>1. /\ rounds' = [rounds EXCEPT ![Cur] = "completed"] /\ "completed" \in RoundStatus
      /\ attempts' = [attempts EXCEPT ![Cur] = Updated(attempts[Cur], "passed", 0)]
      /\ UNCHANGED <<error, session, turns, job, faults>>
  BY DEF TurnCompletes, RoundStatus
<1>2. rounds' \in Seq(RoundStatus) /\ Len(rounds') = Cur /\ rounds'[Cur] = "completed"
  BY <1>1, TablesBefore, PutInSeq
<1>3. RoundTables
  BY <1>1, <1>2, TablesBefore DEF RoundTables
<1>4. "passed" \in AttemptStatus /\ faults' \in Nat
  BY <1>1, CurFacts DEF AttemptStatus, TypeOK
<1> QED BY <1>1, <1>3, <1>4, StatusStep

\* reconcile_task_lifecycle: a stale claim is quarantined and the role blocked.
LEMMA QuarantineInv == ASSUME DispatchInv, Quarantine PROVE DispatchInv'
<1>1. "indeterminate" \in Error /\ Block("indeterminate") /\ UNCHANGED <<session, turns, job>>
  BY DEF Quarantine, Error
<1>2. RoundTables
  BY <1>1, BlockTables, TablesBefore DEF RoundTables
<1>3. attempts' = [attempts EXCEPT ![Cur] = Updated(attempts[Cur], "blocked", 0)]
  BY <1>1 DEF Block
<1>4. "blocked" \in AttemptStatus /\ faults' \in Nat
  BY CurFacts DEF Quarantine, AttemptStatus, TypeOK
<1> QED BY <1>1, <1>2, <1>3, <1>4, StatusStep

\* A call that fails: the coroutine falls back, or blocks the role and stops.
LEMMA CallFailsInv == ASSUME DispatchInv, NEW w \in Workers, CallFails(w) PROVE DispatchInv'
<1>0. TypeOK /\ JobsPlaced /\ faults' = faults /\ turns' = turns /\ faults' \in Nat
  BY DEF DispatchInv, CallFails, TypeOK
<1>1. CASE job[w].pc = "continue"
  <2> DEFINE j == [job[w] EXCEPT !.pc = "start", !.turn = 0]
  <2>1. job' = [job EXCEPT ![w] = j] /\ UNCHANGED <<rounds, attempts, error, session>>
    BY <1>0, <1>1 DEF CallFails, TypeOK
  <2>2. j \in Job /\ j.turn = 0 /\ j.round = job[w].round
    BY <1>0 DEF TypeOK, Job, Pc, Calls
  <2>3. j.round \in 1 .. Len(rounds)
    BY <1>0, <1>1, <2>2 DEF JobsPlaced
  <2> HIDE DEF j
  <2> QED BY <1>0, <2>1, <2>2, <2>3, JobStep
<1>2. CASE job[w].pc = "message"
  <2> DEFINE j == [Idle EXCEPT !.pc = "dispatch", !.round = Cur, !.prefer = FALSE]
  <2>1. job' = [job EXCEPT ![w] = j] /\ UNCHANGED <<rounds, attempts, error, session>>
    BY <1>2 DEF CallFails, Goto
  <2>2. j \in Job /\ j.turn = 0 /\ j.round = Cur
    BY CurFacts DEF Idle, Job, Pc
  <2> HIDE DEF j
  <2> QED BY <1>0, <2>1, <2>2, CurFacts, JobStep
<1>3. CASE job[w].pc = "start"
  <2> DEFINE u == Updated(attempts[Cur], "blocked", 0)
  <2>1. /\ Block("none") /\ "none" \in Error /\ session' = [session EXCEPT ![Cur] = 0]
        /\ job' = [job EXCEPT ![w] = Idle]
        /\ attempts' = [attempts EXCEPT ![Cur] = u]
    BY <1>3 DEF CallFails, Error, GoIdle, Block
  <2>2. session' \in Seq(Nat) /\ Len(session') = Cur /\ session'[Cur] = 0
        /\ \A r \in 1 .. Cur : r # Cur => session'[r] = session[r]
    BY <2>1, TablesBefore, PutInSeq
  <2>3. RoundTables
    BY <2>1, <2>2, BlockTables DEF RoundTables
  <2>4. "blocked" \in AttemptStatus
    BY DEF AttemptStatus
  <2>5. RowsFor(u, session[Cur])
    BY <2>4, UpdatedCurrent
  <2> HIDE DEF u
  <2>6. RowsFor(u, session'[Cur])
    BY <2>2, <2>5 DEF RowsFor
  <2> QED BY <1>0, <2>1, <2>3, <2>6, IdleType, RowsStepBy
<1> QED BY <1>1, <1>2, <1>3 DEF CallFails

\* What resume_role makes of a table of rows: queued again in a new attempt, or in
\* place and counted as reopened.
Requeued(rows) ==
    LET new == Updated(rows, "queued", 0)
    IN  IF Len(new) > Len(rows) THEN new ELSE [new EXCEPT ![Len(rows)].reopened = @ + 1]

\* A row put back to queued has its claim again and keeps its run.
LEMMA RequeuedFacts ==
    ASSUME NEW rows, NEW ses, RowsFor(rows, ses)
    PROVE  RowsFor(Requeued(rows), ses)
<1> DEFINE n == Len(rows)
           last == rows[n]
           fresh == [Queued(OrElse(0, last.run)) EXCEPT !.status = "queued"]
           app == Append(rows, fresh)
           exc == [rows EXCEPT ![n].status = "queued", ![n].run = OrElse(0, @)]
<1>1. n \in Nat /\ n \in 1 .. n /\ last \in Attempt /\ rows \in [1 .. n -> Attempt]
      /\ Accounted(rows) /\ last.status # "superseded" /\ (ses # 0 => last.run = ses)
  BY DEF RowsFor, LastRow
<1>2. last.run \in Nat /\ last.claims \in Nat /\ last.reopened \in Nat
      /\ last.claims <= 1 + last.reopened /\ OrElse(0, last.run) = last.run
  BY <1>1 DEF OrElse, Attempt, Accounted
<1>3. CASE Updated(rows, "queued", 0) = app
  <2>1. fresh \in Attempt /\ fresh.run = last.run /\ fresh.claims = 0 /\ fresh.reopened = 0
        /\ fresh.status = "queued"
    BY <1>2 DEF Queued, Attempt, AttemptStatus
  <2> HIDE DEF fresh
  <2>2. app \in Seq(Attempt) /\ Len(app) = n + 1 /\ app[n + 1] = fresh
        /\ \A i \in 1 .. n : app[i] = rows[i]
    <3>1. rows \in Seq(Attempt)
      BY DEF RowsFor
    <3> QED BY <2>1, <3>1
  <2> HIDE DEF app
  <2>3. Requeued(rows) = app
    BY <1>1, <1>3, <2>2 DEF Requeued
  <2>4. Accounted(app)
    BY <1>1, <2>1, <2>2 DEF Accounted
  <2>5. LastRow(app) = fresh
    BY <2>2 DEF LastRow
  <2> QED BY <1>1, <2>1, <2>2, <2>3, <2>4, <2>5 DEF RowsFor
<1>4. ASSUME NEW s \in [1 .. n -> Attempt], Updated(rows, "queued", 0) = s,
             \A i \in 1 .. n : i # n => s[i] = rows[i],
             s[n].run = last.run, s[n].claims = last.claims, s[n].reopened = last.reopened,
             s[n].status = "queued"
      PROVE  RowsFor(Requeued(rows), ses)
  <2>1. Len(s) = n /\ s[n] \in Attempt
    BY <1>1, FunIsSeq
  <2> DEFINE e == [s[n] EXCEPT !.reopened = @ + 1]
             u == [s EXCEPT ![n] = e]
  <2>2. e \in Attempt /\ e.reopened = last.reopened + 1 /\ e.claims = last.claims
        /\ e.run = last.run /\ e.status = "queued"
    <3>1. s[n].reopened + 1 \in Nat
      BY <1>2, <1>4
    <3> QED BY <2>1, <3>1, <1>4 DEF Attempt
  <2>3. Requeued(rows) = u
    <3>1. Requeued(rows) = IF Len(s) > n THEN s ELSE [s EXCEPT ![n].reopened = @ + 1]
      BY <1>4 DEF Requeued
    <3>2. ~(Len(s) > n)
      BY <1>1, <2>1
    <3>3. [s EXCEPT ![n].reopened = @ + 1] = u
      OBVIOUS
    <3> QED BY <3>1, <3>2, <3>3
  <2> HIDE DEF e
  <2>4. u \in [1 .. n -> Attempt] /\ u[n] = e /\ \A i \in 1 .. n : i # n => u[i] = rows[i]
    BY <1>1, <1>4, <2>2
  <2> HIDE DEF u
  <2>5. u \in Seq(Attempt) /\ Len(u) = n
    BY <1>1, <2>4, FunIsSeq
  <2>6. u[n].claims <= u[n].reopened
    BY <1>2, <2>2, <2>4
  <2>7. Accounted(u)
    <3> SUFFICES ASSUME NEW i \in 1 .. n
                 PROVE  /\ u[i].claims <= 1 + u[i].reopened
                        /\ u[i].status = "queued" => u[i].claims <= u[i].reopened
      BY <2>5 DEF Accounted
    <3>1. CASE i # n
      BY <1>1, <3>1, <2>4 DEF Accounted
    <3>2. CASE i = n
      BY <3>2, <1>2, <2>2, <2>4
    <3> QED BY <3>1, <3>2
  <2>8. LastRow(u) = e
    BY <2>4, <2>5 DEF LastRow
  <2> QED BY <1>1, <2>2, <2>3, <2>5, <2>7, <2>8 DEF RowsFor
<1>6. CASE Updated(rows, "queued", 0) = exc
  <2>1. exc \in [1 .. n -> Attempt] /\ (\A i \in 1 .. n : i # n => exc[i] = rows[i])
    BY <1>1, <1>2 DEF Attempt, AttemptStatus
  <2>2. exc[n].run = last.run /\ exc[n].claims = last.claims /\ exc[n].reopened = last.reopened
        /\ exc[n].status = "queued"
    BY <1>1, <1>2 DEF Attempt
  <2> HIDE DEF exc
  <2> QED BY <2>1, <2>2, <1>4, <1>6
<1> QED BY <1>1, <1>3, <1>6 DEF Updated

\* resume_role: it gives up, or queues the role again and dispatches it.
LEMMA ResumeRoleInv ==
    ASSUME DispatchInv, NEW w \in Workers, NEW force \in BOOLEAN, NEW override \in BOOLEAN,
           ResumeRole(w, force, override)
    PROVE  DispatchInv'
<1>0. UNCHANGED <<error, session, turns, faults>> /\ faults' \in Nat
  BY CurFacts DEF ResumeRole, TypeOK
<1>1. CASE GoIdle(w) /\ UNCHANGED <<rounds, attempts>>
  BY <1>0, <1>1, IdleType, JobStep DEF GoIdle
<1>2. CASE /\ rounds' = [rounds EXCEPT ![Cur] = "running"]
           /\ attempts' = [attempts EXCEPT ![Cur] = Requeued(attempts[Cur])]
           /\ Goto(w, "dispatch", TRUE)
  <2> DEFINE j == [Idle EXCEPT !.pc = "dispatch", !.round = Cur, !.prefer = TRUE]
             u == Requeued(attempts[Cur])
  <2>1. job' = [job EXCEPT ![w] = j] /\ "running" \in RoundStatus
    BY <1>2 DEF Goto, RoundStatus
  <2>2. j \in Job /\ j.turn = 0 /\ j.round = Cur
    BY CurFacts DEF Idle, Job, Pc
  <2> HIDE DEF j
  <2>3. rounds' \in Seq(RoundStatus) /\ Len(rounds') = Cur /\ rounds'[Cur] = "running"
    BY <1>2, <2>1, TablesBefore, PutInSeq
  <2>4. RoundTables
    BY <1>0, <2>3, TablesBefore DEF RoundTables
  <2>5. RowsFor(u, session'[Cur])
    BY <1>0, CurFacts, RequeuedFacts
  <2> HIDE DEF u
  <2>6. attempts' = [attempts EXCEPT ![Cur] = u]
    BY <1>2 DEF u
  <2>8. j.round \in 1 .. Cur
    BY <2>2, CurFacts
  <2> QED BY <1>0, <2>1, <2>2, <2>4, <2>5, <2>6, <2>8, RowsStepBy
<1> QED BY <1>1, <1>2 DEF ResumeRole, Requeued

\* The provider accepts a call and a turn begins.
LEMMA ProviderAcceptsInv ==
    ASSUME DispatchInv, NEW w \in Workers, ProviderAccepts(w) PROVE DispatchInv'
<1> DEFINE k == Len(turns) + 1
           run == IF job[w].pc = "start" THEN Len(turns) + 1 ELSE job[w].existing
           turn == [round |-> job[w].round, no |-> job[w].no, run |-> run]
           j == [job[w] EXCEPT !.turn = k]
<1>1. TypeOK /\ JobsPlaced /\ TurnsKnown
  BY DEF DispatchInv
<1>2. UNCHANGED <<rounds, attempts, error, session, faults>> /\ job[w].pc \in Calls
  BY DEF ProviderAccepts
<1>3. Len(turns) \in Nat /\ k \in Nat
  BY <1>1 DEF TypeOK
<1>4. turns' \in Seq(Turn) /\ Len(turns') = k
  <2>1. turn \in Turn
    BY <1>1, <1>3 DEF TypeOK, Job, Turn
  <2>2. turns' = Append(turns, turn) /\ turns \in Seq(Turn)
    BY <1>1 DEF ProviderAccepts, TypeOK
  <2> QED BY <2>1, <2>2
<1>5. j \in Job /\ j.turn = k /\ j.pc = job[w].pc /\ j.round = job[w].round
  BY <1>1, <1>3 DEF TypeOK, Job
<1>6. job' = [job EXCEPT ![w] = j]
  BY <1>1 DEF ProviderAccepts, TypeOK
<1> HIDE DEF j
<1>7. job' \in [Workers -> Job] /\ \A v \in Workers : job'[v] = IF v = w THEN j ELSE job[v]
  BY <1>1, <1>5, <1>6 DEF TypeOK
<1>8. TypeOK'
  BY <1>1, <1>2, <1>4, <1>7 DEF TypeOK
<1>9. CurrentOpen' /\ OldRoundsClosed' /\ AllAccounted' /\ SessionsAwaited' /\ CurrentLive'
  BY <1>2 DEF DispatchInv, CurrentOpen, OldRoundsClosed, AllAccounted, SessionsAwaited, CurrentLive
<1>10. JobsPlaced'
  BY <1>1, <1>2, <1>5, <1>7 DEF JobsPlaced
<1>11. TurnsKnown'
  <2>1. \A v \in Workers : job[v].turn \in Nat /\ job[v].turn <= Len(turns)
    BY <1>1 DEF TypeOK, Job, TurnsKnown
  <2>2. \A v \in Workers : job'[v].turn <= k
    BY <1>3, <1>5, <1>7, <2>1
  <2> QED BY <1>4, <2>2 DEF TurnsKnown
<1> QED BY <1>8, <1>9, <1>10, <1>11 DEF DispatchInv

\* What start_followup_round makes of the rows of the round it closes.
Sealed(rows) ==
    [n \in DOMAIN rows |-> IF rows[n].status = "passed" THEN rows[n]
                           ELSE [rows[n] EXCEPT !.status = "superseded"]]

\* Closing a round's rows leaves their runs and their accounting alone.
LEMMA SealedFacts ==
    ASSUME NEW rows \in Seq(Attempt), Accounted(rows)
    PROVE  /\ Sealed(rows) \in Seq(Attempt) /\ Len(Sealed(rows)) = Len(rows)
           /\ Closed(Sealed(rows)) /\ Accounted(Sealed(rows))
           /\ \A i \in 1 .. Len(rows) : Sealed(rows)[i].run = rows[i].run
<1> DEFINE n == Len(rows)
           u == Sealed(rows)
<1>1. n \in Nat /\ DOMAIN rows = 1 .. n /\ rows \in [1 .. n -> Attempt]
  OBVIOUS
<1>2. ASSUME NEW i \in 1 .. n
      PROVE  /\ u[i] \in Attempt /\ u[i].status \in {"passed", "superseded"}
             /\ u[i].run = rows[i].run /\ u[i].claims = rows[i].claims
             /\ u[i].reopened = rows[i].reopened
  <2>1. u[i] = IF rows[i].status = "passed" THEN rows[i]
               ELSE [rows[i] EXCEPT !.status = "superseded"]
    BY <1>1 DEF Sealed
  <2>2. rows[i] \in Attempt
    BY <1>1
  <2> QED BY <2>1, <2>2 DEF Attempt, AttemptStatus
<1>3. u \in [1 .. n -> Attempt]
  BY <1>1, <1>2 DEF Sealed
<1>4. u \in Seq(Attempt) /\ Len(u) = n
  BY <1>1, <1>3, FunIsSeq
<1> HIDE DEF u
<1>5. Closed(u) /\ Accounted(u)
  BY <1>1, <1>2, <1>4 DEF Closed, Accounted
<1> QED BY <1>2, <1>4, <1>5 DEF u

\* add_user_message: the next round opens with a fresh queued row, and the rows
\* of the round before are closed.
LEMMA AddUserMessageInv ==
    ASSUME DispatchInv, NEW w \in Workers, AddUserMessage(w) PROVE DispatchInv'
<1> DEFINE c == Cur
           d == c + 1
           st == IF rounds[c] = "completed" THEN "completed" ELSE "superseded"
           j == [Idle EXCEPT !.round = d, !.no = IF session[c] # 0 THEN 1 ELSE 0,
                             !.existing = session[c],
                             !.pc = IF session[c] # 0 THEN "message" ELSE "dispatch"]
           u == Sealed(attempts[c])
           one == <<Queued(0)>>
           rs == [rounds EXCEPT ![c] = st]
           old == [attempts EXCEPT ![c] = u]
<1>1. /\ c \in Nat /\ d \in Nat /\ c \in 1 .. c /\ c >= 1 /\ c = Len(rounds)
      /\ rounds \in Seq(RoundStatus) /\ attempts \in Seq(Seq(Attempt))
      /\ error \in Seq(Error) /\ session \in Seq(Nat)
      /\ Len(attempts) = c /\ Len(error) = c /\ Len(session) = c
      /\ job \in [Workers -> Job] /\ turns \in Seq(Turn) /\ faults \in Nat
  BY CurFacts DEF TypeOK
<1>2. /\ rounds' = Append(rs, "running") /\ attempts' = Append(old, one)
      /\ error' = Append(error, "none") /\ session' = Append(session, 0)
      /\ job' = [job EXCEPT ![w] = j] /\ UNCHANGED <<turns, faults>>
  BY <1>1 DEF AddUserMessage, StartFollowupRound, Sealed
<1>3. /\ u \in Seq(Attempt) /\ Len(u) = Len(attempts[c]) /\ Closed(u) /\ Accounted(u)
      /\ LastRow(u).run = LastRow(attempts[c]).run /\ Len(u) >= 1
  BY CurFacts, SealedFacts DEF LastRow
<1>4. one \in Seq(Attempt) /\ Len(one) = 1 /\ Accounted(one) /\ LastRow(one).status = "queued"
  <2>1. Queued(0) \in Attempt /\ Queued(0).status = "queued"
        /\ Queued(0).claims = 0 /\ Queued(0).reopened = 0
    BY DEF Queued, Attempt, AttemptStatus
  <2>2. one \in Seq(Attempt) /\ Len(one) = 1 /\ one[1] = Queued(0)
    BY <2>1
  <2> HIDE DEF one
  <2> QED BY <2>1, <2>2 DEF Accounted, LastRow
<1>5. j \in Job /\ j.turn = 0 /\ j.round = d
  <2>1. session[c] \in Nat
    BY <1>1
  <2> QED BY <1>1, <2>1 DEF Idle, Job, Pc, Calls
<1> HIDE DEF j, u, one, st
<1>6. rs \in Seq(RoundStatus) /\ Len(rs) = c
  <2>1. st \in RoundStatus
    BY DEF st, RoundStatus
  <2> QED BY <1>1, <2>1, PutInSeq
<1>7. old \in Seq(Seq(Attempt)) /\ Len(old) = c /\ old[c] = u
      /\ \A r \in 1 .. c : r # c => old[r] = attempts[r]
  BY <1>1, <1>3, PutInSeq
<1> HIDE DEF rs, old
<1>8. /\ rounds' \in Seq(RoundStatus) /\ Len(rounds') = d /\ rounds'[d] = "running"
  BY <1>1, <1>2, <1>6 DEF RoundStatus
<1>9. /\ attempts' \in Seq(Seq(Attempt)) /\ Len(attempts') = d /\ attempts'[d] = one
      /\ attempts'[c] = u /\ \A r \in 1 .. c : r # c => attempts'[r] = attempts[r]
  <2>1. /\ attempts' \in Seq(Seq(Attempt)) /\ Len(attempts') = d /\ attempts'[d] = one
        /\ \A r \in 1 .. c : attempts'[r] = old[r]
    <3> HIDE DEF c
    <3>1. old \in Seq(Seq(Attempt)) /\ one \in Seq(Attempt) /\ Len(old) = c
      BY <1>4, <1>7
    <3>2. /\ Append(old, one) \in Seq(Seq(Attempt)) /\ Len(Append(old, one)) = Len(old) + 1
          /\ Append(old, one)[Len(old) + 1] = one
          /\ \A i \in 1 .. Len(old) : Append(old, one)[i] = old[i]
      BY <3>1
    <3>3. attempts' = Append(old, one) /\ Len(old) = c
      BY <1>2, <3>1
    <3> QED BY <3>2, <3>3
  <2> QED BY <1>1, <1>7, <2>1
<1>10. /\ error' \in Seq(Error) /\ Len(error') = d
       /\ session' \in Seq(Nat) /\ Len(session') = d /\ session'[d] = 0
       /\ \A r \in 1 .. c : session'[r] = session[r]
  BY <1>1, <1>2 DEF Error
<1>11. job' \in [Workers -> Job] /\ \A v \in Workers : job'[v] = IF v = w THEN j ELSE job[v]
  BY <1>1, <1>2, <1>5
<1>12. TypeOK'
  BY <1>1, <1>2, <1>8, <1>9, <1>10, <1>11 DEF TypeOK
<1>13. \A r \in 1 .. d : r = d \/ r = c \/ (r \in 1 .. c /\ r # c)
  BY <1>1
<1>14. CurrentOpen' /\ JobsPlaced' /\ OldRoundsClosed' /\ AllAccounted'
  <2>1. CurrentOpen'
    <3>1. \A r \in 1 .. d : Len(attempts'[r]) >= 1
      <4>1. \A r \in 1 .. c : Len(attempts[r]) >= 1
        BY <1>1 DEF DispatchInv, CurrentOpen
      <4>2. Len(attempts'[d]) >= 1 /\ Len(attempts'[c]) >= 1
        <5>1. attempts'[d] = one /\ attempts'[c] = u
          BY <1>9
        <5>2. Len(one) >= 1 /\ Len(u) >= 1
          BY <1>3, <1>4
        <5> QED BY <5>1, <5>2
      <4>3. \A r \in 1 .. c : r # c => Len(attempts'[r]) >= 1
        BY <4>1, <1>9
      <4> QED BY <4>2, <4>3, <1>13
    <3> QED BY <1>1, <1>8, <3>1 DEF CurrentOpen
  <2>2. JobsPlaced'
    <3>1. \A v \in Workers : job[v].pc # "idle" => job[v].round \in 1 .. c
      BY <1>1 DEF DispatchInv, JobsPlaced
    <3>2. d \in 1 .. d /\ \A i \in 1 .. c : i \in 1 .. d
      BY <1>1
    <3>3. \A v \in Workers : job'[v].pc # "idle" => job'[v].round \in 1 .. d
      <4> HIDE DEF c, d
      <4> QED BY <3>1, <3>2, <1>5, <1>11
    <3> QED BY <1>8, <3>3 DEF JobsPlaced
  <2>3. OldRoundsClosed'
    BY <1>1, <1>3, <1>8, <1>9, <1>13 DEF DispatchInv, OldRoundsClosed
  <2>4. AllAccounted'
    BY <1>1, <1>3, <1>4, <1>8, <1>9, <1>13 DEF DispatchInv, AllAccounted
  <2> QED BY <2>1, <2>2, <2>3, <2>4
<1>15. TurnsKnown'
  <2>1. Len(turns) \in Nat /\ \A v \in Workers : job[v].turn <= Len(turns)
    BY <1>1 DEF DispatchInv, TurnsKnown
  <2>2. \A v \in Workers : job'[v].turn \in {0, job[v].turn}
    BY <1>5, <1>11
  <2>3. \A v \in Workers : job'[v].turn <= Len(turns)
    BY <2>1, <2>2
  <2> QED BY <1>2, <2>3 DEF TurnsKnown
<1>16. SessionsAwaited'
  <2> SUFFICES ASSUME NEW r \in 1 .. d, session'[r] # 0
               PROVE  LastRow(attempts'[r]).run = session'[r]
    BY <1>8 DEF SessionsAwaited, LastRow
  <2>1. r \in 1 .. c /\ session'[r] = session[r]
    BY <1>1, <1>10, <1>13
  <2>2. LastRow(attempts[r]).run = session[r]
    BY <1>1, <2>1 DEF DispatchInv, SessionsAwaited
  <2> QED BY <1>3, <1>9, <2>1, <2>2
<1>17. CurrentLive'
  BY <1>4, <1>8, <1>9 DEF CurrentLive, LastRow
<1> QED BY <1>12, <1>14, <1>15, <1>16, <1>17 DEF DispatchInv

-----------------------------------------------------------------------------
(* The theorems *)

\* Every step of every coroutine, of the provider, of a user and of the
\* reconciler keeps the inductive invariant.
THEOREM DispatchInvariant == Spec => []DispatchInv
<1>1. Init => DispatchInv
  <2> SUFFICES ASSUME Init PROVE DispatchInv
    OBVIOUS
  <2>1. Queued(0) \in Attempt /\ Queued(0).status = "queued"
        /\ Queued(0).claims = 0 /\ Queued(0).reopened = 0
    BY DEF Queued, Attempt, AttemptStatus
  <2>2. /\ rounds \in Seq(RoundStatus) /\ Len(rounds) = 1 /\ rounds[1] = "running"
        /\ error \in Seq(Error) /\ Len(error) = 1
        /\ session \in Seq(Nat) /\ Len(session) = 1 /\ session[1] = 0
        /\ turns \in Seq(Turn) /\ Len(turns) = 0 /\ faults \in Nat
    BY DEF Init, RoundStatus, Error
  <2> DEFINE one == <<Queued(0)>>
  <2>3. one \in Seq(Attempt) /\ Len(one) = 1 /\ one[1] = Queued(0)
    BY <2>1
  <2>4. attempts = <<one>>
    BY DEF Init
  <2> HIDE DEF one
  <2>5. attempts \in Seq(Seq(Attempt)) /\ Len(attempts) = 1 /\ attempts[1] = one
    BY <2>3, <2>4
  <2>6. LastRow(one).status = "queued" /\ Accounted(one)
    BY <2>1, <2>3 DEF LastRow, Accounted
  <2>7. job \in [Workers -> Job] /\ \A w \in Workers : job[w].pc = "idle" /\ job[w].turn = 0
    BY IdleType DEF Init
  <2>8. TypeOK
    BY <2>2, <2>5, <2>7 DEF TypeOK
  <2>9. CurrentOpen /\ JobsPlaced /\ OldRoundsClosed /\ AllAccounted
    BY <2>2, <2>3, <2>5, <2>6, <2>7
       DEF CurrentOpen, JobsPlaced, OldRoundsClosed, AllAccounted
  <2>10. TurnsKnown /\ SessionsAwaited /\ CurrentLive
    BY <2>2, <2>5, <2>6, <2>7 DEF TurnsKnown, SessionsAwaited, CurrentLive
  <2> QED BY <2>8, <2>9, <2>10 DEF DispatchInv
<1>2. DispatchInv /\ [Next]_vars => DispatchInv'
  <2> SUFFICES ASSUME DispatchInv, [Next]_vars PROVE DispatchInv'
    OBVIOUS
  <2>1. CASE UNCHANGED vars
    BY <2>1 DEF vars, DispatchInv, TypeOK, CurrentOpen, JobsPlaced, OldRoundsClosed,
                AllAccounted, TurnsKnown, SessionsAwaited, CurrentLive
  <2>2. ASSUME NEW w \in Workers, WorkerStep(w) PROVE DispatchInv'
    BY <2>2, DispatchStepInv, ClaimInv, VerifiedInv, CallFailsInv, ResumeRoleInv DEF WorkerStep
  <2> QED BY <2>1, <2>2, ScheduleInv, ProviderAcceptsInv, AddUserMessageInv, ResumeGateInv,
             CrashInv, TurnFailsInv, TurnCompletesInv, QuarantineInv DEF Next
<1> QED BY <1>1, <1>2, PTL DEF Spec

\* Type correctness of the dispatch tables.
THEOREM DispatchTypes == Spec => []TypeOK
<1>1. DispatchInv => TypeOK
  BY DEF DispatchInv
<1> QED BY <1>1, DispatchInvariant, PTL

\* However many coroutines race for an attempt, it is claimed once, and once more
\* for each time a resume put it back to queued: the compare-and-set of
\* claim_queued_attempt_dispatch is enough.
THEOREM ClaimsAlwaysAccounted == Spec => []ClaimsAccounted
<1>1. DispatchInv => ClaimsAccounted
  <2> SUFFICES ASSUME DispatchInv, NEW r \in DOMAIN attempts, NEW n \in DOMAIN attempts[r]
               PROVE  attempts[r][n].claims <= 1 + attempts[r][n].reopened
    BY DEF ClaimsAccounted
  <2>1. r \in 1 .. Len(rounds) /\ attempts[r] \in Seq(Attempt)
    BY DEF DispatchInv, TypeOK
  <2>2. Accounted(attempts[r]) /\ n \in 1 .. Len(attempts[r])
    BY <2>1 DEF DispatchInv, AllAccounted
  <2> QED BY <2>2 DEF Accounted
<1> QED BY <1>1, DispatchInvariant, PTL

\* The dispatch metadata and the latest attempt of a round name the same session,
\* although results are written to whatever round is current when they arrive and
\* a message continues the session of an earlier round.
THEOREM SessionAlwaysAwaited == Spec => []SessionIsAwaited
<1>1. DispatchInv => SessionIsAwaited
  <2>1. TypeOK => DOMAIN rounds = 1 .. Len(rounds)
    BY DEF TypeOK
  <2> QED BY <2>1 DEF DispatchInv, SessionsAwaited, SessionIsAwaited, Latest, LastRow
<1> QED BY <1>1, DispatchInvariant, PTL

\* A step leaves every round but the current one, and its rows, as they are.
OldKept == \A r \in 1 .. Len(rounds) : r # Len(rounds) =>
               rounds'[r] = rounds[r] /\ attempts'[r] = attempts[r]

\* The shapes a step's effect on the rounds and their rows can have.
LEMMA OldKeptFacts ==
    ASSUME DispatchInv, NEW x, NEW u, NEW y, NEW z,
           \/ rounds' = rounds
           \/ rounds' = [rounds EXCEPT ![Cur] = x]
           \/ rounds' = Append([rounds EXCEPT ![Cur] = x], y),
           \/ attempts' = attempts
           \/ attempts' = [attempts EXCEPT ![Cur] = u]
           \/ attempts' = Append([attempts EXCEPT ![Cur] = u], z)
    PROVE  OldKept
<1> DEFINE c == Len(rounds)
<1>1. c \in Nat /\ Cur = c
  BY CurFacts
<1>3. rounds \in Seq(RoundStatus) /\ attempts \in Seq(Seq(Attempt)) /\ Len(attempts) = c
  BY CurFacts DEF TypeOK
<1>4. \A r \in 1 .. c : r # c => rounds'[r] = rounds[r]
  <2> DEFINE e == [rounds EXCEPT ![Cur] = x]
             T == RoundStatus \cup {x} \cup {y}
  <2>1. rounds \in [1 .. c -> RoundStatus]
    BY <1>1, <1>3
  <2>2. (\A r \in 1 .. c : r # c => e[r] = rounds[r]) /\ e \in [1 .. c -> T] /\ y \in T
    BY <1>1, <2>1
  <2>3. rounds' = rounds \/ rounds' = e \/ rounds' = Append(e, y)
    OBVIOUS
  <2> HIDE DEF e, T
  <2>4. e \in Seq(T) /\ Len(e) = c
    BY <1>1, <2>2, FunIsSeq
  <2>5. \A r \in 1 .. c : Append(e, y)[r] = e[r]
    BY <1>1, <2>2, <2>4
  <2> QED BY <2>2, <2>3, <2>5
<1>5. \A r \in 1 .. c : r # c => attempts'[r] = attempts[r]
  <2> DEFINE e == [attempts EXCEPT ![Cur] = u]
             T == Seq(Attempt) \cup {u} \cup {z}
  <2>1. attempts \in [1 .. c -> Seq(Attempt)]
    BY <1>1, <1>3
  <2>2. (\A r \in 1 .. c : r # c => e[r] = attempts[r]) /\ e \in [1 .. c -> T] /\ z \in T
    BY <1>1, <2>1
  <2>3. attempts' = attempts \/ attempts' = e \/ attempts' = Append(e, z)
    OBVIOUS
  <2> HIDE DEF e, T
  <2>4. e \in Seq(T) /\ Len(e) = c
    BY <1>1, <2>2, FunIsSeq
  <2>5. \A r \in 1 .. c : Append(e, z)[r] = e[r]
    BY <1>1, <2>2, <2>4
  <2> QED BY <2>2, <2>3, <2>5
<1> QED BY <1>4, <1>5 DEF OldKept

\* Every action keeps the rounds before the current one: the results, fallbacks
\* and quarantines go to the current round, and a late claim on an older round
\* finds no queued row there.
LEMMA StepKeepsOld == ASSUME DispatchInv, [Next]_vars PROVE OldKept
<1>1. ASSUME UNCHANGED <<rounds, attempts>> PROVE OldKept
  BY <1>1 DEF OldKept
<1>2. ASSUME NEW err, Block(err) PROVE OldKept
  BY <1>2, OldKeptFacts DEF Block
<1>3. ASSUME NEW w \in Workers, Claim(w) PROVE OldKept
  <2> DEFINE r == job[w].round
             n == Len(attempts[r])
  <2>1. CASE Latest(r).status # "queued"
    BY <1>1, <1>3, <2>1 DEF Claim
  <2>2. CASE Latest(r).status = "queued"
    <3>1. r \in 1 .. Len(rounds) /\ TypeOK /\ OldRoundsClosed
      BY <1>3 DEF Claim, DispatchInv, JobsPlaced
    <3>2. attempts[r] \in Seq(Attempt) /\ Len(attempts[r]) >= 1
      BY <3>1 DEF TypeOK, DispatchInv, CurrentOpen
    <3>3. n \in 1 .. Len(attempts[r])
      BY <3>2
    <3>4. ~Closed(attempts[r])
      BY <3>3, <2>2 DEF Closed, Latest
    <3>5. r = Cur
      BY <3>1, <3>4 DEF OldRoundsClosed, Cur
    <3>6. PICK u : attempts' = [attempts EXCEPT ![Cur] = u]
      BY <1>3, <2>2, <3>5 DEF Claim
    <3> QED BY <1>3, <3>6, OldKeptFacts DEF Claim
  <2> QED BY <2>1, <2>2
<1>4. ASSUME NEW w \in Workers, Verified(w) PROVE OldKept
  BY <1>4, OldKeptFacts DEF Verified
<1>5. ASSUME NEW w \in Workers, CallFails(w) PROVE OldKept
  BY <1>1, <1>2, <1>5 DEF CallFails
<1>6. ASSUME NEW w \in Workers, NEW force \in BOOLEAN, NEW override \in BOOLEAN,
             ResumeRole(w, force, override)
      PROVE  OldKept
  <2>1. CASE UNCHANGED <<rounds, attempts>>
    BY <1>1, <2>1
  <2>2. CASE /\ rounds' = [rounds EXCEPT ![Cur] = "running"]
             /\ attempts' = [attempts EXCEPT ![Cur] = Requeued(attempts[Cur])]
    BY <2>2, OldKeptFacts
  <2> QED BY <1>6, <2>1, <2>2 DEF ResumeRole, Requeued
<1>7. ASSUME NEW w \in Workers, AddUserMessage(w) PROVE OldKept
  <2>1. PICK x : rounds' = Append([rounds EXCEPT ![Cur] = x], "running")
    BY <1>7 DEF AddUserMessage, StartFollowupRound
  <2>2. PICK u, z : attempts' = Append([attempts EXCEPT ![Cur] = u], z)
    BY <1>7 DEF AddUserMessage, StartFollowupRound
  <2> QED BY <2>1, <2>2, OldKeptFacts
<1>8. ASSUME TurnCompletes PROVE OldKept
  BY <1>8, OldKeptFacts DEF TurnCompletes
<1>9. CASE UNCHANGED vars
  BY <1>1, <1>9 DEF vars
<1>10. ASSUME NEW w \in Workers, WorkerStep(w) PROVE OldKept
  BY <1>1, <1>3, <1>4, <1>5, <1>6, <1>10 DEF WorkerStep, Dispatch
<1>11. ASSUME NEW w \in Workers,
              ProviderAccepts(w) \/ Schedule(w) \/ ResumeGate(w) \/ Crash(w)
       PROVE  OldKept
  BY <1>1, <1>11 DEF ProviderAccepts, Schedule, ResumeGate, Crash
<1>12. ASSUME TurnFails \/ Quarantine PROVE OldKept
  BY <1>2, <1>12 DEF TurnFails, Quarantine
<1> QED BY <1>7, <1>8, <1>9, <1>10, <1>11, <1>12 DEF Next

\* A superseded round is closed for good: whatever a coroutine of that round
\* still does, its status and its attempts stay as they are.
THEOREM SupersededAlwaysSealed == Spec => SupersededSealed
<1>1. DispatchInv /\ [Next]_vars =>
        [\A r \in DOMAIN rounds :
           rounds[r] = "superseded" =>
               rounds'[r] = "superseded" /\ attempts'[r] = attempts[r]]_vars
  <2> SUFFICES ASSUME DispatchInv, [Next]_vars, NEW r \in DOMAIN rounds, rounds[r] = "superseded"
               PROVE  rounds'[r] = "superseded" /\ attempts'[r] = attempts[r]
    OBVIOUS
  <2>1. r \in 1 .. Len(rounds) /\ r # Len(rounds)
    BY DEF DispatchInv, TypeOK, CurrentOpen
  <2> QED BY <2>1, StepKeepsOld DEF OldKept
<1> QED BY <1>1, DispatchInvariant, PTL DEF Spec, SupersededSealed

=============================================================================
