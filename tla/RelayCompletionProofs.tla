------------------------ MODULE RelayCompletionProofs ------------------------
(***************************************************************************)
(* Proofs about RelayCompletion for every number of coroutines, rounds,    *)
(* runs and crashes: an answer is handed off at most once and only in its  *)
(* own round, provided no message opens a round while it is being applied. *)
(***************************************************************************)
EXTENDS RelayCompletion, SequenceTheorems, WellFoundedInduction, TLAPS

\* Statements a coroutine reaches without giving up the event loop, and those at
\* which it may still write to the role's attempt.
SyncPc == {"decide", "save", "handoff", "block", "retry", "finish"}
WorkPc == {"save", "test", "handoff", "retry", "ask", "block"}
AtWork(w) == job[w].pc \notin {"idle", "read"}

\* A coroutine past its claim owns the claim of its run alone.
Claims ==
  \A w \in Workers :
    /\ job[w].pc # "idle" => job[w].run \in Runs
    /\ AtWork(w) => /\ claim[job[w].run] = "claimed" /\ job[w].run \notin old
                    /\ \A v \in Workers : v # w /\ AtWork(v) => job[v].run # job[w].run

Loops == \A w \in Workers : job[w].pc \in SyncPc => loop = w

\* An attempt carries a run of its own round; the current round has no
\* superseded attempt.
Rows ==
  \A r \in 1 .. Len(attempts) : \A i \in 1 .. Len(attempts[r]) :
    /\ attempts[r][i].run \in 1 .. used /\ born[attempts[r][i].run] = r
    /\ r = Len(rounds) => attempts[r][i].status # "superseded"

HandedRuns == {handed[k].run : k \in 1 .. Len(handed)}

\* A coroutine that may write works on the newest attempt of the current round,
\* whose run nobody has handed off.
Works ==
  \A w \in Workers : job[w].pc \in WorkPc =>
    /\ attempts[Len(rounds)] # <<>> /\ Latest.run = job[w].run
    /\ job[w].run \notin HandedRuns
    /\ job[w].pc = "handoff" => Latest.status = "passed"

\* A run that was handed off is the last of its round, and passed.
HandedRows ==
  \A k \in 1 .. Len(handed) :
    LET r == handed[k].round IN
    /\ r \in 1 .. Len(rounds) /\ born[handed[k].run] = r
    /\ attempts[r] # <<>>
    /\ attempts[r][Len(attempts[r])].run = handed[k].run
    /\ attempts[r][Len(attempts[r])].status = "passed"

CompInv == TypeOK /\ Claims /\ Loops /\ Rows /\ Works /\ HandedRows /\ HandedOnce

-----------------------------------------------------------------------------
(* Facts about attempts *)

\* The rows of each round form a sequence, one for each round.
LEMMA AttemptsType ==
  ASSUME TypeOK, NEW n, n = Len(rounds)
  PROVE  /\ n \in Nat /\ n \in 1 .. MaxRounds /\ n \in 1 .. n /\ Len(attempts) = n
         /\ DOMAIN attempts = 1 .. n
         /\ \A r \in 1 .. n : attempts[r] \in Seq(Attempt)
<1>1. rounds \in Seq(RoundStatus) /\ n \in 1 .. MaxRounds
      /\ attempts \in Seq(Seq(Attempt)) /\ Len(attempts) = n
  BY DEF TypeOK
<1>2. n \in Nat /\ n \in 1 .. n
  BY <1>1, CompletionAssumption
<1> QED BY <1>1, <1>2

\* The newest attempt of a sequence that has one.
LEMMA LatestRow ==
  ASSUME TypeOK, NEW n, n = Len(rounds), NEW s, s = attempts[n]
  PROVE  /\ s \in Seq(Attempt) /\ Len(s) \in Nat
         /\ s = <<>> => Latest = NoAttempt
         /\ s # <<>> => /\ Len(s) >= 1 /\ Len(s) \in 1 .. Len(s)
                        /\ Latest = s[Len(s)] /\ Latest \in Attempt
<1>1. s \in Seq(Attempt) /\ Len(s) \in Nat
  BY AttemptsType
<1>2. Latest = IF s = <<>> THEN NoAttempt ELSE s[Len(s)]
  BY DEF Latest, LatestOf, Cur, Last
<1>3. ASSUME s # <<>> PROVE Len(s) >= 1 /\ Len(s) \in 1 .. Len(s) /\ s[Len(s)] \in Attempt
  <2>1. Len(s) # 0
    BY <1>1, <1>3
  <2>2. Len(s) >= 1 /\ Len(s) \in 1 .. Len(s)
    BY <1>1, <2>1
  <2> QED BY <1>1, <2>2
<1> QED BY <1>1, <1>2, <1>3

\* Replacing the rows of one round.
LEMMA ReplaceRound ==
  ASSUME TypeOK, NEW n, n = Len(rounds), NEW s \in Seq(Attempt)
  PROVE  /\ [attempts EXCEPT ![n] = s] \in Seq(Seq(Attempt))
         /\ Len([attempts EXCEPT ![n] = s]) = n
         /\ [attempts EXCEPT ![n] = s][n] = s
         /\ \A r \in 1 .. n : r # n => [attempts EXCEPT ![n] = s][r] = attempts[r]
<1> DEFINE at == [attempts EXCEPT ![n] = s]
<1>1. n \in Nat /\ n \in 1 .. n /\ DOMAIN attempts = 1 .. n
      /\ \A r \in 1 .. n : attempts[r] \in Seq(Attempt)
  BY AttemptsType
<1>2. at \in [1 .. n -> Seq(Attempt)]
  BY <1>1
<1>3. at[n] = s /\ \A r \in 1 .. n : r # n => at[r] = attempts[r]
  BY <1>1
<1> HIDE DEF at
<1>4. at \in Seq(Seq(Attempt)) /\ Len(at) = n
  <2> DEFINE S == Seq(Attempt)
  <2>1. at \in [1 .. n -> S]
    BY <1>2
  <2> HIDE DEF S
  <2>2. n \in Nat
    BY <1>1
  <2>3. at \in Seq(S)
    BY <2>1, <2>2
  <2>4. Len(at) = n
    BY <2>1, <2>2, <2>3
  <2> QED BY <2>3, <2>4 DEF S
<1> QED BY <1>3, <1>4 DEF at

\* update_attempt: the newest row of the current round gets the status, keeps its
\* run unless a new one is given, and the rows before it stay.
LEMMA PutRow ==
  ASSUME TypeOK, Rows, NEW st \in Status, NEW run \in 0 .. MaxRuns, NEW done \in BOOLEAN,
         NEW n, n = Len(rounds), NEW at, at = Put(st, run, done)
  PROVE  /\ at \in Seq(Seq(Attempt)) /\ Len(at) = n
         /\ \A r \in 1 .. n : r # n => at[r] = attempts[r]
         /\ at[n] \in Seq(Attempt) /\ at[n] # <<>>
         /\ at[n][Len(at[n])].status = st
         /\ at[n][Len(at[n])].run = IF run # 0 THEN run ELSE Latest.run
         /\ \A i \in 1 .. Len(at[n]) : i # Len(at[n]) =>
              i \in 1 .. Len(attempts[n]) /\ at[n][i] = attempts[n][i]
<1> DEFINE s == attempts[n]
           a == [status |-> st, run |-> IF run # 0 THEN run ELSE Latest.run, done |-> done]
           b == [a EXCEPT !.done = @ \/ Latest.done]
<1>0. /\ s \in Seq(Attempt) /\ Len(s) \in Nat
      /\ s = <<>> => Latest = NoAttempt
      /\ s # <<>> => /\ Len(s) >= 1 /\ Len(s) \in 1 .. Len(s)
                     /\ Latest = s[Len(s)] /\ Latest \in Attempt
  BY LatestRow
<1>1. Latest.run \in 0 .. MaxRuns /\ Latest.done \in BOOLEAN
  <2>1. CASE s = <<>>
    <3>1. Latest = [status |-> "superseded", run |-> 0, done |-> FALSE]
      BY <1>0, <2>1 DEF NoAttempt
    <3>2. Latest.run = 0 /\ Latest.done = FALSE
      BY <3>1
    <3>3. 0 \in 0 .. MaxRuns
      BY CompletionAssumption
    <3> QED BY <3>2, <3>3
  <2>2. CASE s # <<>>
    <3>1. Latest \in Attempt
      BY <1>0, <2>2
    <3> QED BY <3>1 DEF Attempt
  <2> QED BY <2>1, <2>2
<1>2. a \in Attempt /\ a.status = st /\ a.run = IF run # 0 THEN run ELSE Latest.run
  BY <1>1 DEF Attempt
<1>3. b \in Attempt /\ b.status = st /\ b.run = IF run # 0 THEN run ELSE Latest.run
  <2>1. (a.done \/ Latest.done) \in BOOLEAN
    BY Zenon
  <2>2. b = [status |-> st, run |-> IF run # 0 THEN run ELSE Latest.run,
             done |-> (a.done \/ Latest.done)]
    BY DEF Attempt
  <2> DEFINE d == (a.done \/ Latest.done)
  <2>3. d \in BOOLEAN
    BY <2>1
  <2> HIDE DEF d
  <2> QED BY <1>1, <2>2, <2>3 DEF Attempt, d
<1>4. n \in 1 .. n
  BY AttemptsType
<1>5. s # <<>> => Latest.status # "superseded"
  BY <1>0, <1>4, AttemptsType DEF Rows
<1>6. \/ s = <<>> /\ at = [attempts EXCEPT ![n] = <<a>>]
      \/ s # <<>> /\ at = [attempts EXCEPT ![n] = Append(s, a)]
      \/ s # <<>> /\ at = [attempts EXCEPT ![n] = Append(Front(s), b)]
  BY <1>5 DEF Put, Cur
<1> DEFINE Good(u) == /\ u \in Seq(Attempt) /\ u # <<>>
                      /\ u[Len(u)].status = st
                      /\ u[Len(u)].run = IF run # 0 THEN run ELSE Latest.run
                      /\ \A i \in 1 .. Len(u) : i # Len(u) =>
                           i \in 1 .. Len(s) /\ u[i] = s[i]
<1>7. \E u : Good(u) /\ at = [attempts EXCEPT ![n] = u]
  <2>1. CASE s = <<>> /\ at = [attempts EXCEPT ![n] = <<a>>]
    <3> HIDE DEF a
    <3>1. <<a>> \in Seq(Attempt) /\ Len(<<a>>) = 1 /\ <<a>>[1] = a
      BY <1>2
    <3>2. Good(<<a>>)
      BY <1>2, <3>1
    <3> QED BY <2>1, <3>2
  <2>2. CASE s # <<>> /\ at = [attempts EXCEPT ![n] = Append(s, a)]
    <3> HIDE DEF a, s
    <3>1. /\ Append(s, a) \in Seq(Attempt) /\ Len(Append(s, a)) = Len(s) + 1
          /\ Append(s, a)[Len(s) + 1] = a
          /\ \A i \in 1 .. Len(s) : Append(s, a)[i] = s[i]
      BY <1>0, <1>2
    <3>2. \A i \in 1 .. Len(s) + 1 : i # Len(s) + 1 => i \in 1 .. Len(s)
      BY <1>0
    <3>3. Good(Append(s, a))
      BY <1>0, <1>2, <3>1, <3>2
    <3> QED BY <2>2, <3>3
  <2>3. CASE s # <<>> /\ at = [attempts EXCEPT ![n] = Append(Front(s), b)]
    <3> DEFINE f == Front(s)
    <3>1. f \in Seq(Attempt) /\ Len(f) = Len(s) - 1 /\ \A i \in 1 .. Len(s) - 1 : f[i] = s[i]
      <4> HIDE DEF s
      <4>1. Len(s) - 1 \in 0 .. Len(s) /\ 1 \in 1 .. Len(s) + 1
        BY <1>0, <2>3
      <4>2. f = SubSeq(s, 1, Len(s) - 1)
        BY DEF Front
      <4>3. /\ f \in Seq(Attempt)
            /\ Len(f) = IF 1 <= Len(s) - 1 THEN (Len(s) - 1) - 1 + 1 ELSE 0
            /\ \A i \in 1 .. (Len(s) - 1) - 1 + 1 : f[i] = s[1 + i - 1]
        BY <1>0, <4>1, <4>2, SubSeqProperties
      <4> HIDE DEF f
      <4>4. Len(f) = Len(s) - 1
        <5>1. PICK k : k = Len(s)
          OBVIOUS
        <5>2. k \in Nat /\ k >= 1 /\ Len(f) = IF 1 <= k - 1 THEN (k - 1) - 1 + 1 ELSE 0
          BY <1>0, <2>3, <4>3, <5>1
        <5>3. Len(f) = k - 1
          BY <5>2
        <5> QED BY <5>1, <5>3
      <4>5. \A i \in 1 .. Len(s) - 1 : i \in 1 .. (Len(s) - 1) - 1 + 1 /\ 1 + i - 1 = i
        BY <1>0, <2>3
      <4> QED BY <4>3, <4>4, <4>5
    <3> HIDE DEF b, s, f
    <3>2. /\ Append(f, b) \in Seq(Attempt) /\ Len(Append(f, b)) = Len(s)
          /\ Append(f, b)[Len(s)] = b
          /\ \A i \in 1 .. Len(s) - 1 : Append(f, b)[i] = s[i]
      BY <1>0, <1>3, <2>3, <3>1
    <3>3. \A i \in 1 .. Len(s) : i # Len(s) => i \in 1 .. Len(s) - 1
      BY <1>0
    <3>4. Good(Append(f, b))
      BY <1>0, <1>3, <2>3, <3>2, <3>3
    <3> QED BY <2>3, <3>4 DEF f
  <2> QED BY <1>6, <2>1, <2>2, <2>3
<1>8. PICK u : Good(u) /\ at = [attempts EXCEPT ![n] = u]
  BY <1>7
<1>9. /\ at \in Seq(Seq(Attempt)) /\ Len(at) = n /\ at[n] = u
      /\ \A r \in 1 .. n : r # n => at[r] = attempts[r]
  BY <1>8, ReplaceRound
<1> QED BY <1>8, <1>9

\* A status written to the current round: by whoever works on its newest run, or
\* with a run that is new.
LEMMA PutStep ==
  ASSUME CompInv, NEW n, n = Len(rounds), Len(rounds') = n, UNCHANGED handed,
         NEW st \in Status \ {"superseded"}, NEW run \in 0 .. MaxRuns, NEW done \in BOOLEAN,
         attempts' = Put(st, run, done),
         attempts[n] # <<>> => Latest.run \notin HandedRuns,
         \/ run = 0 /\ attempts[n] # <<>> /\ UNCHANGED <<used, born>>
         \/ /\ run = used + 1 /\ used' = used + 1
            /\ born' = [born EXCEPT ![used + 1] = n]
  PROVE  /\ attempts' \in Seq(Seq(Attempt)) /\ Len(attempts') = n
         /\ used' \in 0 .. MaxRuns /\ born' \in [Runs -> 0 .. MaxRounds]
         /\ Rows' /\ HandedRows' /\ HandedOnce'
         /\ attempts'[n] # <<>> /\ Latest'.status = st
         /\ Latest'.run = IF run # 0 THEN run ELSE Latest.run
<1>c. TypeOK /\ Rows /\ HandedRows /\ HandedOnce
  BY DEF CompInv
<1>0. /\ n \in Nat /\ n \in 1 .. MaxRounds /\ n \in 1 .. n /\ Len(attempts) = n
      /\ \A r \in 1 .. n : attempts[r] \in Seq(Attempt)
  BY <1>c, AttemptsType
<1>1. /\ attempts' \in Seq(Seq(Attempt)) /\ Len(attempts') = n
      /\ \A r \in 1 .. n : r # n => attempts'[r] = attempts[r]
      /\ attempts'[n] \in Seq(Attempt) /\ attempts'[n] # <<>>
      /\ attempts'[n][Len(attempts'[n])].status = st
      /\ attempts'[n][Len(attempts'[n])].run = IF run # 0 THEN run ELSE Latest.run
      /\ \A i \in 1 .. Len(attempts'[n]) : i # Len(attempts'[n]) =>
           i \in 1 .. Len(attempts[n]) /\ attempts'[n][i] = attempts[n][i]
  BY <1>c, PutRow
<1>2. Latest' = attempts'[n][Len(attempts'[n])]
  BY <1>1 DEF Latest, LatestOf, Cur, Last
<1>3. /\ used \in 0 .. MaxRuns /\ used' \in 0 .. MaxRuns /\ used <= used'
      /\ born' \in [Runs -> 0 .. MaxRounds] /\ \A x \in 1 .. used : born'[x] = born[x]
  <2>0. used \in 0 .. MaxRuns /\ born \in [Runs -> 0 .. MaxRounds] /\ MaxRuns \in Nat
        /\ n \in 0 .. MaxRounds
    BY <1>0, <1>c, CompletionAssumption DEF TypeOK
  <2>1. CASE UNCHANGED <<used, born>>
    BY <2>0, <2>1
  <2>2. CASE run = used + 1 /\ used' = used + 1 /\ born' = [born EXCEPT ![used + 1] = n]
    <3>1. used + 1 \in Runs /\ used \in Nat
      BY <2>0, <2>2 DEF Runs
    <3>2. \A x \in 1 .. used : x # used + 1
      BY <3>1
    <3>3. born' \in [Runs -> 0 .. MaxRounds] /\ \A x \in 1 .. used : born'[x] = born[x]
      BY <2>0, <2>2, <3>1, <3>2
    <3> QED BY <2>0, <2>2, <3>1, <3>3
  <2> QED BY <2>1, <2>2
<1>4. \A x \in 1 .. used : x \in 1 .. used'
  BY <1>3
<1>5. Rows'
  <2> SUFFICES ASSUME NEW r \in 1 .. n, NEW i \in 1 .. Len(attempts'[r])
               PROVE  /\ attempts'[r][i].run \in 1 .. used' /\ born'[attempts'[r][i].run] = r
                      /\ r = n => attempts'[r][i].status # "superseded"
    BY <1>1 DEF Rows
  <2>1. CASE r # n
    <3>1. attempts'[r] = attempts[r] /\ i \in 1 .. Len(attempts[r])
      BY <1>1, <2>1
    <3>2. attempts[r][i].run \in 1 .. used /\ born[attempts[r][i].run] = r
      BY <1>c, <1>0, <3>1 DEF Rows
    <3> QED BY <2>1, <1>3, <1>4, <3>1, <3>2
  <2>2. CASE r = n /\ i # Len(attempts'[n])
    <3>1. i \in 1 .. Len(attempts[n]) /\ attempts'[n][i] = attempts[n][i]
      BY <1>1, <2>2
    <3>2. /\ attempts[n][i].run \in 1 .. used /\ born[attempts[n][i].run] = n
          /\ attempts[n][i].status # "superseded"
      BY <1>c, <1>0, <3>1 DEF Rows
    <3> QED BY <2>2, <1>3, <1>4, <3>1, <3>2
  <2>3. CASE r = n /\ i = Len(attempts'[n])
    <3>1. CASE run = 0 /\ attempts[n] # <<>> /\ UNCHANGED <<used, born>>
      <4>1. Latest = attempts[n][Len(attempts[n])] /\ Len(attempts[n]) \in 1 .. Len(attempts[n])
        BY <1>c, <3>1, LatestRow
      <4>2. Latest.run \in 1 .. used /\ born[Latest.run] = n
        BY <1>c, <1>0, <4>1 DEF Rows
      <4> QED BY <2>3, <3>1, <4>2, <1>1
    <3>2. CASE run = used + 1 /\ used' = used + 1 /\ born' = [born EXCEPT ![used + 1] = n]
      <4>1. run # 0 /\ run \in Runs /\ run \in 1 .. used'
        BY <1>3, <3>2, CompletionAssumption DEF Runs
      <4>2. born'[run] = n
        BY <1>c, <3>2, <4>1 DEF TypeOK
      <4> QED BY <2>3, <4>1, <4>2, <1>1
    <3> QED BY <3>1, <3>2
  <2> QED BY <2>1, <2>2, <2>3
<1>6. HandedRows'
  <2> SUFFICES ASSUME NEW k \in 1 .. Len(handed), NEW r, r = handed[k].round
               PROVE  /\ r \in 1 .. n /\ born'[handed[k].run] = r
                      /\ attempts'[r] # <<>>
                      /\ attempts'[r][Len(attempts'[r])].run = handed[k].run
                      /\ attempts'[r][Len(attempts'[r])].status = "passed"
    BY DEF HandedRows
  <2>1. /\ r \in 1 .. n /\ born[handed[k].run] = r
        /\ attempts[r] # <<>>
        /\ attempts[r][Len(attempts[r])].run = handed[k].run
        /\ attempts[r][Len(attempts[r])].status = "passed"
    BY <1>c DEF HandedRows
  <2>2. Len(attempts[r]) \in 1 .. Len(attempts[r])
    <3>1. attempts[r] \in Seq(Attempt) /\ attempts[r] # <<>>
      BY <1>0, <2>1
    <3> QED BY <3>1
  <2>3. handed[k].run \in 1 .. used
    BY <1>c, <1>0, <2>1, <2>2 DEF Rows
  <2>4. r # n
    <3> SUFFICES ASSUME r = n PROVE FALSE
      OBVIOUS
    <3>1. Latest = attempts[n][Len(attempts[n])]
      BY <1>c, <2>1, LatestRow
    <3>2. Latest.run \in HandedRuns
      BY <2>1, <3>1 DEF HandedRuns
    <3> QED BY <2>1, <3>2
  <2> QED BY <1>1, <1>3, <2>1, <2>3, <2>4
<1>7. HandedOnce'
  BY <1>c DEF HandedOnce
<1> QED BY <1>1, <1>2, <1>3, <1>5, <1>6, <1>7

\* The rows stay.
LEMMA RowsSame ==
  ASSUME CompInv, Len(rounds') = Len(rounds), UNCHANGED <<attempts, used, born, handed>>
  PROVE  Rows' /\ HandedRows' /\ HandedOnce' /\ Latest' = Latest
  BY DEF CompInv, Rows, HandedRows, HandedOnce, Latest, LatestOf, Cur, Last

-----------------------------------------------------------------------------
(* Facts about coroutines *)

\* The type of a coroutine's local state.
JobType == [pc : Pc, run : 0 .. MaxRuns, event : Events, recovered : BOOLEAN]

\* Going on to another statement changes nothing else of the job.
LEMMA GoJob ==
  ASSUME TypeOK, NEW w \in Workers, NEW pc \in Pc, Go(w, pc)
  PROVE  /\ job' \in [Workers -> JobType]
         /\ job'[w].pc = pc /\ job'[w].run = job[w].run
         /\ \A v \in Workers : v # w => job'[v] = job[v]
<1>1. job \in [Workers -> JobType]
  BY DEF TypeOK, JobType
<1> DEFINE jb == [job[w] EXCEPT !.pc = pc]
<1>2. job[w] \in JobType
  BY <1>1
<1>3. jb \in JobType /\ jb.pc = pc /\ jb.run = job[w].run
  BY <1>2 DEF JobType
<1>4. job' = [job EXCEPT ![w] = jb]
  BY DEF Go
<1> HIDE DEF jb
<1> QED BY <1>1, <1>3, <1>4

\* A coroutine that ends.
LEMMA IdleJob ==
  ASSUME TypeOK, NEW w \in Workers, job' = [job EXCEPT ![w] = Idle]
  PROVE  /\ job' \in [Workers -> JobType] /\ job'[w].pc = "idle"
         /\ \A v \in Workers : v # w => job'[v] = job[v]
<1>1. job \in [Workers -> JobType]
  BY DEF TypeOK, JobType
<1>2. Idle \in JobType /\ Idle.pc = "idle"
  BY CompletionAssumption DEF Idle, JobType, Pc, Session, Events
<1> QED BY <1>1, <1>2

\* Only one coroutine may write to the attempts of the current round.
LEMMA WorkAlone ==
  ASSUME CompInv, NEW w \in Workers, NEW v \in Workers, v # w,
         job[w].pc \in WorkPc, job[v].pc \in WorkPc
  PROVE  FALSE
<1>1. Latest.run = job[w].run /\ Latest.run = job[v].run
  BY DEF CompInv, Works
<1>2. AtWork(w) /\ AtWork(v)
  BY DEF AtWork, WorkPc
<1> QED BY <1>1, <1>2 DEF CompInv, Claims

\* A coroutine that owns its claim and takes, or has, the event loop goes on.
LEMMA OwnStep ==
  ASSUME CompInv, NEW w \in Workers, AtWork(w), job'[w].run = job[w].run,
         job'[w].pc \notin {"idle", "read"}, \A v \in Workers : v # w => job'[v] = job[v],
         UNCHANGED <<claim, old>>, loop \in {w, Free},
         job'[w].pc \in SyncPc => loop' = w
  PROVE  Claims' /\ Loops'
<1>1. \A v \in Workers : v # w => job[v].pc \notin SyncPc
  BY CompletionAssumption DEF CompInv, Loops
<1>2. \A v \in Workers : AtWork(v)' <=> AtWork(v)
  BY DEF AtWork
<1>3. \A v \in Workers : job'[v].run = job[v].run
  OBVIOUS
<1>4. Claims'
  BY <1>2, <1>3 DEF CompInv, Claims, AtWork
<1>5. Loops'
  BY <1>1 DEF Loops
<1> QED BY <1>4, <1>5

\* A coroutine ends, and with it its claim of the run.
LEMMA EndStep ==
  ASSUME CompInv, NEW w \in Workers, job'[w].pc = "idle",
         \A v \in Workers : v # w => job'[v] = job[v],
         loop \in {w, Free}, loop' = Free, old' \subseteq old,
         \/ UNCHANGED claim
         \/ AtWork(w) /\ \A r \in Runs : r # job[w].run => claim'[r] = claim[r]
  PROVE  Claims' /\ Loops'
<1>1. \A v \in Workers : v # w => job[v].pc \notin SyncPc
  BY CompletionAssumption DEF CompInv, Loops
<1>2. ~AtWork(w)' /\ \A v \in Workers : v # w => (AtWork(v)' <=> AtWork(v))
  BY DEF AtWork
<1>3. ASSUME NEW v \in Workers, v # w, AtWork(v)
      PROVE  claim'[job[v].run] = "claimed" /\ job[v].run \notin old'
  BY <1>3 DEF CompInv, Claims, AtWork
<1>4. Claims'
  BY <1>2, <1>3 DEF CompInv, Claims
<1>5. Loops'
  BY <1>1 DEF Loops, SyncPc
<1> QED BY <1>4, <1>5

-----------------------------------------------------------------------------
(* CompInv is inductive *)

\* At first there is one round without attempts, and nobody at work.
LEMMA InitComp == Init => CompInv
<1> SUFFICES ASSUME Init PROVE CompInv
  OBVIOUS
<1> USE CompletionAssumption DEF Init
<1>1. /\ rounds \in Seq(RoundStatus) /\ Len(rounds) = 1
      /\ Len(attempts) = 1 /\ attempts[1] = <<>>
  BY DEF RoundStatus
<1>2. attempts \in Seq(Seq(Attempt))
  <2>1. <<>> \in Seq(Attempt)
    OBVIOUS
  <2> DEFINE S == Seq(Attempt)
  <2>2. <<>> \in S
    BY <2>1
  <2> HIDE DEF S
  <2>3. <<<<>>>> \in Seq(S)
    BY <2>2
  <2> QED BY <2>3 DEF S
<1>3. job \in [Workers -> JobType]
  BY DEF Idle, JobType, Pc, Session, Events
<1>4. Len(rounds) \in 1 .. MaxRounds
  BY <1>1
<1>5. TypeOK
  BY <1>1, <1>2, <1>3, <1>4 DEF TypeOK, JobType, Said, Runs, Free
<1>6. Claims /\ Loops /\ Works
  BY DEF Claims, Loops, Works, AtWork, Idle, SyncPc, WorkPc
<1>7. Rows
  BY <1>1 DEF Rows
<1>8. HandedRows /\ HandedOnce
  BY DEF HandedRows, HandedOnce
<1> QED BY <1>5, <1>6, <1>7, <1>8 DEF CompInv

\* TypeOK in parts: the tables of rounds and attempts, and the rest.
TypeRows ==
  /\ rounds \in Seq(RoundStatus) /\ Len(rounds) \in 1 .. MaxRounds
  /\ attempts \in Seq(Seq(Attempt)) /\ Len(attempts) = Len(rounds)
  /\ routed \subseteq 1 .. Len(rounds) /\ retried \subseteq 1 .. Len(rounds)
TypeRuns ==
  /\ used \in 0 .. MaxRuns /\ born \in [Runs -> 0 .. MaxRounds] /\ said \in [Runs -> Said]
  /\ again \subseteq Runs
TypeClaims ==
  /\ claim \in [Runs -> {"none", "claimed", "applied", "ignored_stale"}]
  /\ old \subseteq {r \in Runs : claim[r] = "claimed"}
TypeResults ==
  /\ saved \subseteq Runs \X Events
  /\ handed \in Seq([run : Runs, round : 1 .. MaxRounds])
TypeLoop ==
  /\ loop \in Workers \cup {Free}
  /\ handled \subseteq Runs \X Events /\ crashes \in 0 .. MaxCrashes

\* The parts make up TypeOK.
LEMMA TypeParts ==
  TypeOK <=> /\ TypeRows /\ TypeRuns /\ TypeClaims /\ TypeResults /\ TypeLoop
             /\ job \in [Workers -> JobType]
  BY DEF TypeOK, TypeRows, TypeRuns, TypeClaims, TypeResults, TypeLoop, JobType

\* The same of the state after a step.
LEMMA TypeJoin ==
  ASSUME TypeRows', TypeRuns', TypeClaims', TypeResults', TypeLoop',
         (job \in [Workers -> JobType])'
  PROVE  TypeOK'
  BY DEF TypeOK, TypeRows, TypeRuns, TypeClaims, TypeResults, TypeLoop, JobType

\* Parts whose variables stay.
LEMMA TypeSame ==
  ASSUME TypeOK
  PROVE  /\ UNCHANGED <<rounds, attempts, routed, retried>> => TypeRows'
         /\ UNCHANGED <<used, born, said, again>> => TypeRuns'
         /\ UNCHANGED <<claim, old>> => TypeClaims'
         /\ UNCHANGED <<saved, handed>> => TypeResults'
         /\ UNCHANGED <<loop, handled, crashes>> => TypeLoop'
         /\ UNCHANGED job => (job \in [Workers -> JobType])'
<1>1. /\ TypeRows /\ TypeRuns /\ TypeClaims /\ TypeResults /\ TypeLoop
      /\ job \in [Workers -> JobType]
  BY TypeParts
<1> QED BY <1>1 DEF TypeRows, TypeRuns, TypeClaims, TypeResults, TypeLoop

\* The status of the current round changes.
LEMMA RoundPut ==
  ASSUME TypeOK, NEW st \in RoundStatus, rounds' = [rounds EXCEPT ![Len(rounds)] = st]
  PROVE  rounds' \in Seq(RoundStatus) /\ Len(rounds') = Len(rounds)
<1> DEFINE n == Len(rounds)
<1>1. rounds \in Seq(RoundStatus) /\ n \in Nat
  BY AttemptsType DEF TypeOK
<1>2. rounds' \in [1 .. n -> RoundStatus]
  <2>1. rounds \in [1 .. n -> RoundStatus]
    BY <1>1
  <2> QED BY <2>1
<1> HIDE DEF n
<1>3. rounds' \in Seq(RoundStatus)
  BY <1>1, <1>2
<1>4. Len(rounds') = n
  BY <1>1, <1>2, <1>3
<1> QED BY <1>3, <1>4 DEF n

\* Steps that only read what the invariant is about.
LEMMA QuietStep ==
  ASSUME CompInv, Route \/ (\E r \in Runs : \/ LeaseExpires(r)
                                            \/ \E a \in Said \ {"nothing"} : RunAnswers(r, a))
                  \/ Crash
                  \/ \E w \in Workers, r \in Runs, e \in Events : Deliver(w, r, e)
  PROVE  CompInv'
<1>c. TypeOK /\ Claims /\ Loops /\ Works
  BY DEF CompInv
<1>f. ASSUME UNCHANGED <<rounds, attempts, used, born, handed>>
      PROVE  /\ Rows' /\ HandedRows' /\ HandedOnce' /\ Latest' = Latest
             /\ HandedRuns' = HandedRuns
  BY <1>f, RowsSame DEF HandedRuns
<1>1. CASE Route
  <2>1. TypeRows'
    BY <1>c, <1>1, AttemptsType DEF Route, TypeOK, TypeRows, Cur
  <2>2. TypeOK'
    BY <1>c, <1>1, <2>1, TypeSame, TypeJoin DEF Route, runs
  <2>3. UNCHANGED <<rounds, attempts, used, born, handed, job, claim, old, loop>>
    BY <1>1 DEF Route, runs
  <2>4. Claims' /\ Loops' /\ Works'
    BY <1>c, <1>f, <2>3 DEF Claims, Loops, Works, AtWork
  <2> QED BY <1>f, <2>2, <2>3, <2>4 DEF CompInv
<1>2. ASSUME NEW r \in Runs, LeaseExpires(r) PROVE CompInv'
  <2>1. UNCHANGED <<task, runs, saved, handed, job, loop, handled, crashes, claim>>
        /\ old' = old \cup {r} /\ claim[r] = "claimed"
        /\ \A w \in Workers : job[w].run = r => job[w].pc = "read"
    BY <1>2 DEF LeaseExpires
  <2>2. TypeClaims'
    BY <1>c, <2>1 DEF TypeClaims, TypeOK
  <2>3. TypeOK'
    BY <1>c, <2>1, <2>2, TypeSame, TypeJoin DEF runs, task
  <2>4. Claims' /\ Loops' /\ Works'
    BY <1>c, <1>f, <2>1 DEF Claims, Loops, Works, AtWork, runs, task
  <2> QED BY <1>f, <2>1, <2>3, <2>4 DEF CompInv, runs, task
<1>3. ASSUME NEW r \in Runs, NEW a \in Said \ {"nothing"}, RunAnswers(r, a) PROVE CompInv'
  <2>1. UNCHANGED <<task, used, born, again, claim, old, saved, handed, job, loop, handled, crashes>>
    BY <1>3 DEF RunAnswers
  <2>2. TypeRuns'
    BY <1>c, <1>3 DEF RunAnswers, TypeRuns, TypeOK
  <2>3. TypeOK'
    BY <1>c, <2>1, <2>2, TypeSame, TypeJoin DEF task
  <2>4. Claims' /\ Loops' /\ Works'
    BY <1>c, <1>f, <2>1 DEF Claims, Loops, Works, AtWork, task
  <2> QED BY <1>f, <2>1, <2>3, <2>4 DEF CompInv, task
<1>4. CASE Crash
  <2>1. UNCHANGED <<task, runs, claim, old, saved, handed>>
        /\ job' = [w \in Workers |-> Idle] /\ loop' = Free /\ handled' = {}
    BY <1>4 DEF Crash
  <2>2. job' \in [Workers -> JobType] /\ \A w \in Workers : job'[w].pc = "idle"
    BY <2>1, CompletionAssumption DEF Idle, JobType, Pc, Session, Events
  <2>3. TypeLoop'
    BY <1>c, <1>4, <2>1, CompletionAssumption DEF Crash, TypeLoop, TypeOK
  <2>4. TypeOK'
    BY <1>c, <2>1, <2>2, <2>3, TypeSame, TypeJoin DEF runs, task
  <2>5. Claims' /\ Loops' /\ Works'
    BY <2>2 DEF Claims, Loops, Works, AtWork, SyncPc, WorkPc
  <2> QED BY <1>f, <2>1, <2>4, <2>5 DEF CompInv, runs, task
<1>5. ASSUME NEW w \in Workers, NEW r \in Runs, NEW e \in Events,
             Deliver(w, r, e)
      PROVE  CompInv'
  <2> DEFINE jb == [pc |-> "read", run |-> r, event |-> e, recovered |-> FALSE]
  <2>1. UNCHANGED <<task, runs, claim, old, saved, handed, loop, handled, crashes>>
        /\ job' = [job EXCEPT ![w] = jb] /\ job[w] = Idle
    BY <1>5 DEF Deliver
  <2>2. jb \in JobType /\ jb.pc = "read" /\ jb.run = r
    BY CompletionAssumption DEF JobType, Pc, Runs
  <2> HIDE DEF jb
  <2>3. /\ job' \in [Workers -> JobType] /\ job'[w].pc = "read" /\ job'[w].run = r
        /\ \A v \in Workers : v # w => job'[v] = job[v]
    BY <1>c, <2>1, <2>2, TypeParts
  <2>4. TypeOK'
    BY <1>c, <2>1, <2>3, TypeSame, TypeJoin DEF runs, task
  <2>5. Claims' /\ Loops' /\ Works'
    <3>1. Claims'
      BY <1>c, <2>1, <2>3 DEF Claims, AtWork
    <3>2. Loops'
      BY <1>c, <2>1, <2>3 DEF Loops, SyncPc
    <3>3. Works'
      BY <1>c, <1>f, <2>1, <2>3 DEF Works, WorkPc, runs, task
    <3> QED BY <3>1, <3>2, <3>3
  <2> QED BY <1>f, <2>1, <2>4, <2>5 DEF CompInv, runs, task
<1> QED BY <1>1, <1>2, <1>3, <1>4, <1>5

\* The newest run of the current round, if it was handed off, has passed.
LEMMA LatestHanded ==
  ASSUME CompInv, NEW n, n = Len(rounds), attempts[n] # <<>>, Latest.run \in HandedRuns
  PROVE  Latest.status = "passed"
<1>c. TypeOK /\ Rows /\ HandedRows
  BY DEF CompInv
<1>1. n \in 1 .. n /\ Len(attempts) = n
  BY <1>c, AttemptsType
<1>2. Latest = attempts[n][Len(attempts[n])] /\ Len(attempts[n]) \in 1 .. Len(attempts[n])
  BY <1>c, LatestRow
<1>3. born[Latest.run] = n
  BY <1>c, <1>1, <1>2 DEF Rows
<1>4. PICK k \in 1 .. Len(handed) : handed[k].run = Latest.run
  BY DEF HandedRuns
<1>5. handed[k].round = n
  BY <1>c, <1>3, <1>4 DEF HandedRows
<1> QED BY <1>c, <1>2, <1>4, <1>5 DEF HandedRows

\* The dispatch of the role, and the role's failure, write one attempt.
LEMMA RoleStep ==
  ASSUME CompInv, DispatchRole \/ NoAnswer
  PROVE  CompInv'
<1>c. TypeOK /\ Claims /\ Loops /\ Works
  BY DEF CompInv
<1>n. PICK n : n = Len(rounds)
  OBVIOUS
<1>t. /\ n \in Nat /\ n \in 1 .. MaxRounds /\ n \in 1 .. n /\ Len(attempts) = n
      /\ \A r \in 1 .. n : attempts[r] \in Seq(Attempt)
  BY <1>c, <1>n, AttemptsType
<1>l. UNCHANGED <<handed, job, claim, old, loop, routed, retried, said, again, saved, handled, crashes>>
      /\ loop = Free
  BY DEF DispatchRole, NoAnswer, runs
<1>h. \A w \in Workers : job[w].pc # "handoff"
  BY <1>c, <1>l, CompletionAssumption DEF Loops, SyncPc
<1>1. CASE DispatchRole
  <2>1. /\ attempts[n] = <<>> /\ used < MaxRuns /\ used' = used + 1
        /\ born' = [born EXCEPT ![used + 1] = n] /\ attempts' = Put("streaming", used + 1, FALSE)
        /\ rounds' = rounds
    BY <1>1, <1>n DEF DispatchRole, Cur
  <2>2. used + 1 \in 0 .. MaxRuns
    BY <1>c, <2>1, CompletionAssumption DEF TypeOK
  <2>3. /\ attempts' \in Seq(Seq(Attempt)) /\ Len(attempts') = n
        /\ used' \in 0 .. MaxRuns /\ born' \in [Runs -> 0 .. MaxRounds]
        /\ Rows' /\ HandedRows' /\ HandedOnce'
    BY <1>n, <1>l, <2>1, <2>2, PutStep DEF Status
  <2>4. TypeRows' /\ TypeRuns'
    BY <1>c, <1>n, <1>l, <2>1, <2>3 DEF TypeRows, TypeRuns, TypeOK
  <2>5. TypeOK'
    BY <1>c, <1>l, <2>4, TypeSame, TypeJoin
  <2>6. \A w \in Workers : job[w].pc \notin WorkPc
    BY <1>c, <1>n, <2>1 DEF Works
  <2>7. Claims' /\ Loops' /\ Works'
    BY <1>c, <1>l, <2>6 DEF Claims, Loops, Works, AtWork
  <2> QED BY <2>3, <2>5, <2>7 DEF CompInv
<1>2. CASE NoAnswer
  <2>1. /\ JobStatus = "streaming" /\ attempts' = Put("blocked", 0, FALSE)
        /\ rounds' = [rounds EXCEPT ![Len(rounds)] = "blocked"] /\ UNCHANGED <<used, born>>
    BY <1>2 DEF NoAnswer, Cur, runs
  <2>2. Latest.status = "streaming"
    BY <2>1 DEF JobStatus
  <2>3. attempts[n] # <<>>
    BY <1>c, <1>n, <2>2, LatestRow DEF NoAttempt
  <2>4. Latest.run \notin HandedRuns
    BY <1>n, <2>2, <2>3, LatestHanded
  <2>5. rounds' \in Seq(RoundStatus) /\ Len(rounds') = n
    BY <1>c, <1>n, <2>1, RoundPut DEF RoundStatus
  <2>6. /\ attempts' \in Seq(Seq(Attempt)) /\ Len(attempts') = n
        /\ used' \in 0 .. MaxRuns /\ born' \in [Runs -> 0 .. MaxRounds]
        /\ Rows' /\ HandedRows' /\ HandedOnce'
        /\ attempts'[n] # <<>> /\ Latest'.run = Latest.run
    <3>1. 0 \in 0 .. MaxRuns
      BY CompletionAssumption
    <3> QED BY <1>n, <1>l, <2>1, <2>3, <2>4, <2>5, <3>1, PutStep DEF Status
  <2>7. TypeRows' /\ TypeRuns'
    BY <1>c, <1>n, <1>t, <1>l, <2>1, <2>5, <2>6 DEF TypeRows, TypeRuns, TypeOK
  <2>8. TypeOK'
    BY <1>c, <1>l, <2>7, TypeSame, TypeJoin
  <2>9. Claims' /\ Loops' /\ Works'
    BY <1>c, <1>h, <1>l, <1>n, <2>5, <2>6 DEF Claims, Loops, Works, AtWork, HandedRuns
  <2> QED BY <2>6, <2>8, <2>9 DEF CompInv
<1> QED BY <1>1, <1>2

\* A message opens the next round while nobody is applying an answer.
LEMMA MessageStep ==
  ASSUME CompInv, ~Overtake, UserMessage
  PROVE  CompInv'
<1>c. TypeOK /\ Claims /\ Loops /\ Works /\ Rows /\ HandedRows /\ HandedOnce
  BY DEF CompInv
<1>n. PICK n : n = Len(rounds)
  OBVIOUS
<1>t. /\ n \in Nat /\ n \in 1 .. MaxRounds /\ n \in 1 .. n /\ Len(attempts) = n
      /\ \A r \in 1 .. n : attempts[r] \in Seq(Attempt)
  BY <1>c, <1>n, AttemptsType
<1> DEFINE s == attempts[n]
           m == [i \in DOMAIN s |-> IF s[i].status = "passed" THEN s[i]
                                    ELSE [s[i] EXCEPT !.status = "superseded"]]
           at == [attempts EXCEPT ![n] = m]
<1>1. /\ n < MaxRounds /\ \A w \in Workers : job[w].pc \in {"idle", "read"}
      /\ rounds' = Append([rounds EXCEPT ![n] = "superseded"], "running")
      /\ attempts' = Append(at, <<>>)
      /\ UNCHANGED <<routed, retried, used, born, said, again, claim, old, saved, handed, job, loop,
                     handled, crashes>>
  BY <1>n DEF UserMessage, Cur, runs
<1>2. s \in [1 .. Len(s) -> Attempt] /\ Len(s) \in Nat /\ DOMAIN s = 1 .. Len(s)
  BY <1>t
<1>3. /\ m \in [1 .. Len(s) -> Attempt]
      /\ \A i \in 1 .. Len(s) : /\ m[i].run = s[i].run
                                /\ s[i].status = "passed" => m[i] = s[i]
  BY <1>2 DEF Attempt, Status
<1> HIDE DEF m
<1>4. m \in Seq(Attempt) /\ Len(m) = Len(s)
  BY <1>2, <1>3
<1>5. /\ at \in Seq(Seq(Attempt)) /\ Len(at) = n /\ at[n] = m
      /\ \A r \in 1 .. n : r # n => at[r] = attempts[r]
  BY <1>c, <1>n, <1>4, ReplaceRound
<1> HIDE DEF at
<1>6. /\ attempts' \in Seq(Seq(Attempt)) /\ Len(attempts') = n + 1 /\ attempts'[n + 1] = <<>>
      /\ \A r \in 1 .. n : attempts'[r] = at[r]
  <2>1. <<>> \in Seq(Attempt)
    OBVIOUS
  <2> QED BY <1>1, <1>5, <2>1, AppendProperties
<1>7. rounds' \in Seq(RoundStatus) /\ Len(rounds') = n + 1
  <2> DEFINE u == [rounds EXCEPT ![n] = "superseded"]
  <2>1. rounds \in [1 .. n -> RoundStatus]
    BY <1>c, <1>n DEF TypeOK
  <2>2. u \in [1 .. n -> RoundStatus]
    BY <2>1 DEF RoundStatus
  <2> HIDE DEF u
  <2>3. u \in Seq(RoundStatus) /\ Len(u) = n
    BY <1>t, <2>2
  <2>4. rounds' = Append(u, "running") /\ "running" \in RoundStatus
    BY <1>1 DEF u, RoundStatus
  <2> QED BY <2>3, <2>4, AppendProperties
<1>8. n + 1 \in 1 .. MaxRounds /\ 1 .. n \subseteq 1 .. n + 1
  BY <1>1, <1>t, CompletionAssumption
<1>9. TypeOK'
  <2>1. TypeRows'
    BY <1>c, <1>1, <1>n, <1>6, <1>7, <1>8 DEF TypeOK, TypeRows
  <2> QED BY <1>c, <1>1, <2>1, TypeSame, TypeJoin
<1>10. \A r \in 1 .. n : /\ Len(attempts'[r]) = Len(attempts[r])
                         /\ \A i \in 1 .. Len(attempts[r]) :
                              /\ attempts'[r][i].run = attempts[r][i].run
                              /\ attempts[r][i].status = "passed" =>
                                   attempts'[r][i] = attempts[r][i]
  <2> TAKE r \in 1 .. n
  <2>1. CASE r = n
    BY <1>3, <1>4, <1>5, <1>6, <2>1
  <2>2. CASE r # n
    BY <1>5, <1>6, <2>2
  <2> QED BY <2>1, <2>2
<1>11. Rows'
  <2> SUFFICES ASSUME NEW r \in 1 .. n + 1, NEW i \in 1 .. Len(attempts'[r])
               PROVE  /\ attempts'[r][i].run \in 1 .. used /\ born[attempts'[r][i].run] = r
                      /\ r = n + 1 => attempts'[r][i].status # "superseded"
    BY <1>1, <1>6, <1>7 DEF Rows
  <2>1. CASE r = n + 1
    <3>1. Len(attempts'[r]) = 0
      BY <1>6, <2>1
    <3> QED BY <3>1
  <2>2. CASE r # n + 1
    <3>1. r \in 1 .. n
      BY <1>t, <2>2
    <3>2. i \in 1 .. Len(attempts[r]) /\ attempts'[r][i].run = attempts[r][i].run
      BY <1>10, <3>1
    <3> QED BY <1>c, <1>t, <2>2, <3>1, <3>2 DEF Rows
  <2> QED BY <2>1, <2>2
<1>12. HandedRows'
  <2> SUFFICES ASSUME NEW k \in 1 .. Len(handed), NEW r, r = handed[k].round
               PROVE  /\ r \in 1 .. n + 1 /\ born[handed[k].run] = r
                      /\ attempts'[r] # <<>>
                      /\ attempts'[r][Len(attempts'[r])].run = handed[k].run
                      /\ attempts'[r][Len(attempts'[r])].status = "passed"
    <3>1. handed' = handed /\ born' = born /\ Len(rounds') = n + 1
      BY <1>1, <1>7
    <3> QED BY <3>1 DEF HandedRows
  <2>1. /\ r \in 1 .. n /\ born[handed[k].run] = r
        /\ attempts[r] # <<>>
        /\ attempts[r][Len(attempts[r])].run = handed[k].run
        /\ attempts[r][Len(attempts[r])].status = "passed"
    BY <1>c, <1>n DEF HandedRows
  <2>2. Len(attempts[r]) \in 1 .. Len(attempts[r]) /\ Len(attempts[r]) # 0
    <3>1. attempts[r] \in Seq(Attempt) /\ attempts[r] # <<>>
      BY <1>t, <2>1
    <3> QED BY <3>1
  <2>3. Len(attempts'[r]) = Len(attempts[r])
        /\ attempts'[r][Len(attempts[r])] = attempts[r][Len(attempts[r])]
    BY <1>10, <2>1, <2>2
  <2>4. attempts'[r] # <<>>
    BY <2>2, <2>3
  <2> QED BY <1>8, <2>1, <2>3, <2>4
<1>13. HandedOnce' /\ Claims' /\ Loops'
  BY <1>c, <1>1 DEF HandedOnce, Claims, Loops, AtWork
<1>14. Works'
  BY <1>1 DEF Works, WorkPc
<1> QED BY <1>9, <1>11, <1>12, <1>13, <1>14 DEF CompInv

-----------------------------------------------------------------------------
(* The steps of a coroutine *)

\* Taking a claim, or finding it taken.
LEMMA ClaimStep ==
  ASSUME CompInv, NEW w \in Workers, Claim(w)
  PROVE  CompInv'
<1>c. TypeOK /\ Claims /\ Loops /\ Works
  BY DEF CompInv
<1>0. /\ loop = Free /\ job[w].pc = "read" /\ job[w].run \in Runs
      /\ UNCHANGED <<rounds, routed, attempts, retried, used, born, said, again, saved, handed,
                     handled, crashes>>
  BY <1>c DEF Claim, task, runs, Claims
<1>1. Rows' /\ HandedRows' /\ HandedOnce' /\ Latest' = Latest /\ HandedRuns' = HandedRuns
  BY <1>0, RowsSame DEF HandedRuns
<1>2. \A v \in Workers : job[v].pc \notin SyncPc
  BY <1>c, <1>0, CompletionAssumption DEF Loops
<1>3. CASE job' = [job EXCEPT ![w] = Idle] /\ UNCHANGED <<claim, old, loop>>
  <2>1. /\ job' \in [Workers -> JobType] /\ job'[w].pc = "idle"
        /\ \A v \in Workers : v # w => job'[v] = job[v]
    BY <1>c, <1>3, IdleJob
  <2>2. TypeOK'
    BY <1>c, <1>0, <1>3, <2>1, TypeSame, TypeJoin
  <2>3. Claims' /\ Loops'
    BY <1>0, <1>3, <2>1, EndStep
  <2>4. Works'
    BY <1>c, <1>0, <1>1, <2>1 DEF Works, WorkPc
  <2> QED BY <1>1, <2>2, <2>3, <2>4 DEF CompInv
<1>4. CASE /\ Claimable(job[w].run)
           /\ claim' = [claim EXCEPT ![job[w].run] = "claimed"]
           /\ old' = old \ {job[w].run}
           /\ job' = [job EXCEPT ![w].pc = "decide", ![w].recovered = claim[job[w].run] = "claimed"]
           /\ loop' = w
  <2> DEFINE rc == (claim[job[w].run] = "claimed")
             jb == [job[w] EXCEPT !.pc = "decide", !.recovered = rc]
  <2>0. job \in [Workers -> JobType] /\ job[w] \in JobType /\ rc \in BOOLEAN
    BY <1>c DEF TypeOK, JobType
  <2>1. job' = [job EXCEPT ![w] = jb]
    BY <1>4
  <2> HIDE DEF rc
  <2>2. jb \in JobType /\ jb.pc = "decide" /\ jb.run = job[w].run
    BY <2>0 DEF JobType, Pc
  <2> HIDE DEF jb
  <2>3. /\ job' \in [Workers -> JobType] /\ job'[w].pc = "decide" /\ job'[w].run = job[w].run
        /\ \A v \in Workers : v # w => job'[v] = job[v]
    BY <2>0, <2>1, <2>2
  <2>4. TypeClaims'
    BY <1>c, <1>0, <1>4 DEF TypeClaims, TypeOK
  <2>5. TypeLoop'
    BY <1>c, <1>0, <1>4 DEF TypeLoop, TypeOK
  <2>6. TypeOK'
    BY <1>c, <1>0, <2>3, <2>4, <2>5, TypeSame, TypeJoin
  <2>7. \A v \in Workers : v # w /\ AtWork(v) => job[v].run # job[w].run
    BY <1>c, <1>4 DEF Claims, Claimable
  <2>8. Claims'
    <3>1. AtWork(w)' /\ \A v \in Workers : v # w => (AtWork(v)' <=> AtWork(v))
      BY <2>3 DEF AtWork
    <3>2. claim'[job[w].run] = "claimed" /\ job[w].run \notin old'
          /\ \A r \in Runs : r # job[w].run => claim'[r] = claim[r] /\ (r \in old' <=> r \in old)
      BY <1>c, <1>0, <1>4 DEF TypeOK
    <3>3. ASSUME NEW v \in Workers, v # w
          PROVE  /\ job'[v].pc # "idle" => job'[v].run \in Runs
                 /\ AtWork(v)' => /\ claim'[job'[v].run] = "claimed" /\ job'[v].run \notin old'
                                  /\ \A x \in Workers : x # v /\ AtWork(x)' => job'[x].run # job'[v].run
      <4>1. job'[v] = job[v] /\ (job[v].pc # "idle" => job[v].run \in Runs)
        BY <1>c, <2>3, <3>3 DEF Claims
      <4>2. ASSUME AtWork(v)
            PROVE  /\ claim'[job[v].run] = "claimed" /\ job[v].run \notin old'
                   /\ \A x \in Workers : x # v /\ AtWork(x)' => job'[x].run # job[v].run
        <5>1. job[v].run \in Runs /\ job[v].run # job[w].run
          BY <2>7, <3>3, <4>1, <4>2 DEF AtWork
        <5>2. claim[job[v].run] = "claimed" /\ job[v].run \notin old
              /\ \A x \in Workers : x # v /\ AtWork(x) => job[x].run # job[v].run
          BY <1>c, <4>2 DEF Claims
        <5>3. ASSUME NEW x \in Workers, x # v, AtWork(x)' PROVE job'[x].run # job[v].run
          BY <2>3, <3>1, <5>1, <5>2, <5>3
        <5> QED BY <3>2, <5>1, <5>2, <5>3
      <4> QED BY <3>1, <3>3, <4>1, <4>2
    <3>4. /\ job'[w].pc # "idle" => job'[w].run \in Runs
          /\ claim'[job'[w].run] = "claimed" /\ job'[w].run \notin old'
          /\ \A x \in Workers : x # w /\ AtWork(x)' => job'[x].run # job'[w].run
      BY <1>0, <2>3, <2>7, <3>1, <3>2
    <3> QED BY <3>3, <3>4 DEF Claims
  <2>9. Loops'
    BY <1>2, <1>4, <2>3 DEF Loops
  <2>10. Works'
    BY <1>c, <1>0, <1>1, <2>3 DEF Works, WorkPc
  <2> QED BY <1>1, <2>6, <2>8, <2>9, <2>10 DEF CompInv
<1> QED BY <1>3, <1>4 DEF Claim

\* A non-empty set of positions has a greatest element, so Max is one of them.
LEMMA MaxInSet ==
    ASSUME NEW n \in Nat, NEW S, S \subseteq 1 .. n, S # {}
    PROVE  Max(S) \in S /\ Max(S) \in Nat
<1> DEFINE T == {n - x : x \in S}
           R == OpToRel(<, Nat)
<1>0. \A x \in S : x \in 1 .. n
  OBVIOUS
<1>1. T \subseteq Nat /\ T # {}
  <2>1. \A x \in S : n - x \in Nat
    BY <1>0
  <2> QED BY <2>1
<1>2. PICK m \in T : \A y \in T : ~(<<y, m>> \in R)
  BY <1>1, WFMin, NatLessThanWellFounded
<1>3. \A y \in T : ~(y < m)
  BY <1>1, <1>2 DEF OpToRel
<1>4. PICK x \in S : m = n - x
  BY <1>2
<1>5. \A y \in S : x >= y
  <2> TAKE y \in S
  <2>1. n - y \in T
    OBVIOUS
  <2>2. ~(n - y < n - x)
    BY <2>1, <1>3, <1>4
  <2>3. x \in 1 .. n /\ y \in 1 .. n
    BY <1>0
  <2>4. x \in Int /\ y \in Int /\ n \in Int
    BY <2>3
  <2> HIDE DEF T, R
  <2> QED BY <2>2, <2>4
<1>6. \E z \in S : \A y \in S : z >= y
  BY <1>5
<1>7. Max(S) \in S
  BY <1>6 DEF Max
<1>8. Max(S) \in 1 .. n
  BY <1>0, <1>7
<1> QED BY <1>7, <1>8

\* OriginIsCurrent: the run is the newest of the current round and not passed.
LEMMA OriginFacts ==
  ASSUME CompInv, NEW n, n = Len(rounds), NEW run \in Runs, OriginIsCurrent(run)
  PROVE  attempts[n] # <<>> /\ Latest.run = run /\ Latest.status # "passed"
<1>c. TypeOK /\ Rows
  BY DEF CompInv
<1>t. /\ n \in Nat /\ n \in 1 .. MaxRounds /\ n \in 1 .. n /\ Len(attempts) = n
      /\ \A r \in 1 .. n : attempts[r] \in Seq(Attempt)
  BY <1>c, AttemptsType
<1>1. /\ n \in RoundsOf(run) /\ Origin(run).status \notin {"superseded", "passed"}
      /\ OriginIn(run, n) = Len(attempts[n])
  BY DEF OriginIsCurrent, Cur
<1>2. RoundsOf(run) = {n}
  <2> SUFFICES ASSUME NEW r \in RoundsOf(run) PROVE r = n
    BY <1>1
  <2>1. \A q \in RoundsOf(run) : q \in 1 .. n /\ \E i \in 1 .. Len(attempts[q]) : attempts[q][i].run = run
    <3> SUFFICES ASSUME NEW q \in RoundsOf(run)
                 PROVE  q \in 1 .. n /\ \E i \in 1 .. Len(attempts[q]) : attempts[q][i].run = run
      OBVIOUS
    <3>1. q \in 1 .. n /\ \E i \in DOMAIN attempts[q] : attempts[q][i].run = run
      BY DEF RoundsOf, Cur
    <3>2. attempts[q] \in Seq(Attempt)
      BY <1>t, <3>1
    <3> QED BY <3>1, <3>2
  <2>2. \A q \in RoundsOf(run) : born[run] = q
    <3> TAKE q \in RoundsOf(run)
    <3>1. PICK i \in 1 .. Len(attempts[q]) : attempts[q][i].run = run
      BY <2>1
    <3>2. q \in 1 .. Len(attempts)
      BY <1>t, <2>1
    <3> QED BY <1>c, <3>1, <3>2 DEF Rows
  <2> QED BY <1>1, <2>2
<1>3. Max(RoundsOf(run)) = n
  <2>1. n >= n
    BY <1>t
  <2> QED BY <1>2, <2>1 DEF Max
<1>4. PICK i \in 1 .. Len(attempts[n]) : attempts[n][i].run = run
  <2>1. \E i \in DOMAIN attempts[n] : attempts[n][i].run = run
    BY <1>1 DEF RoundsOf
  <2>2. attempts[n] \in Seq(Attempt)
    BY <1>t
  <2> QED BY <2>1, <2>2
<1>5. attempts[n] # <<>> /\ Latest = attempts[n][Len(attempts[n])]
  <2>1. attempts[n] # <<>>
    BY <1>4
  <2> QED BY <1>c, <2>1, LatestRow
<1>6. Origin(run) = attempts[n][Len(attempts[n])]
  BY <1>1, <1>3 DEF Origin
<1>7. attempts[n][Len(attempts[n])].run = run
  <2> DEFINE I == {k \in 1 .. Len(attempts[n]) : attempts[n][k].run = run}
  <2>1. OriginIn(run, n) = IF I # {} THEN Max(I) ELSE 0
    BY DEF OriginIn, SelectLastInSeq
  <2>2. I # {} /\ I \subseteq 1 .. Len(attempts[n]) /\ Len(attempts[n]) \in Nat
    BY <1>4, <1>t
  <2>3. Max(I) \in I
    <3> HIDE DEF I
    <3> QED BY <2>2, MaxInSet
  <2> QED BY <1>1, <2>1, <2>2, <2>3
<1> QED BY <1>1, <1>5, <1>6, <1>7

\* The claimed answer is applied, only finished, or retired.
LEMMA DecideStep ==
  ASSUME CompInv, NEW w \in Workers, Decide(w)
  PROVE  CompInv'
<1>c. TypeOK /\ Claims /\ Loops /\ Works
  BY DEF CompInv
<1>0. /\ loop = w /\ job[w].pc = "decide" /\ AtWork(w) /\ job[w].run \in Runs
      /\ UNCHANGED <<rounds, routed, attempts, retried, used, born, said, again, old, saved, handed,
                     handled, crashes>>
  BY <1>c DEF Decide, task, runs, Claims, AtWork
<1>1. Rows' /\ HandedRows' /\ HandedOnce' /\ Latest' = Latest /\ HandedRuns' = HandedRuns
  BY <1>0, RowsSame DEF HandedRuns
<1>2. CASE Go(w, "finish") /\ UNCHANGED <<claim, loop>>
  <2>1. /\ job' \in [Workers -> JobType] /\ job'[w].pc = "finish" /\ job'[w].run = job[w].run
        /\ \A v \in Workers : v # w => job'[v] = job[v]
    BY <1>c, <1>2, GoJob DEF Pc
  <2>2. TypeOK'
    BY <1>c, <1>0, <1>2, <2>1, TypeSame, TypeJoin
  <2>3. Claims' /\ Loops'
    BY <1>0, <1>2, <2>1, OwnStep
  <2>4. Works'
    BY <1>c, <1>0, <1>1, <2>1 DEF Works, WorkPc
  <2> QED BY <1>1, <2>2, <2>3, <2>4 DEF CompInv
<1>3. CASE OriginIsCurrent(job[w].run) /\ Go(w, "save") /\ UNCHANGED <<claim, loop>>
  <2>1. /\ job' \in [Workers -> JobType] /\ job'[w].pc = "save" /\ job'[w].run = job[w].run
        /\ \A v \in Workers : v # w => job'[v] = job[v]
    BY <1>c, <1>3, GoJob DEF Pc
  <2>2. TypeOK'
    BY <1>c, <1>0, <1>3, <2>1, TypeSame, TypeJoin
  <2>3. Claims' /\ Loops'
    BY <1>0, <1>3, <2>1, OwnStep
  <2>4. attempts[Len(rounds)] # <<>> /\ Latest.run = job[w].run /\ Latest.status # "passed"
    BY <1>0, <1>3, OriginFacts
  <2>5. job[w].run \notin HandedRuns
    BY <2>4, LatestHanded
  <2>6. Works'
    BY <1>c, <1>0, <1>1, <2>1, <2>4, <2>5 DEF Works, WorkPc
  <2> QED BY <1>1, <2>2, <2>3, <2>6 DEF CompInv
<1>4. CASE /\ claim' = [claim EXCEPT ![job[w].run] = "ignored_stale"]
           /\ job' = [job EXCEPT ![w] = Idle] /\ loop' = Free
  <2>1. /\ job' \in [Workers -> JobType] /\ job'[w].pc = "idle"
        /\ \A v \in Workers : v # w => job'[v] = job[v]
    BY <1>c, <1>4, IdleJob
  <2>2. TypeClaims'
    <3>1. job[w].run \notin old
      BY <1>c, <1>0 DEF Claims
    <3> QED BY <1>c, <1>0, <1>4, <3>1 DEF TypeClaims, TypeOK
  <2>3. TypeLoop'
    BY <1>c, <1>0, <1>4 DEF TypeLoop, TypeOK
  <2>4. TypeOK'
    BY <1>c, <1>0, <2>1, <2>2, <2>3, TypeSame, TypeJoin
  <2>5. \A r \in Runs : r # job[w].run => claim'[r] = claim[r]
    BY <1>c, <1>4 DEF TypeOK
  <2>6. Claims' /\ Loops'
    BY <1>0, <1>4, <2>1, <2>5, EndStep
  <2>7. Works'
    BY <1>c, <1>0, <1>1, <2>1 DEF Works, WorkPc
  <2> QED BY <1>1, <2>4, <2>6, <2>7 DEF CompInv
<1> QED BY <1>2, <1>3, <1>4 DEF Decide

\* The projection is over.
LEMMA FinishStep ==
  ASSUME CompInv, NEW w \in Workers, Finish(w)
  PROVE  CompInv'
<1>c. TypeOK /\ Claims /\ Loops /\ Works
  BY DEF CompInv
<1>0. /\ loop = w /\ job[w].pc = "finish" /\ AtWork(w) /\ job[w].run \in Runs
      /\ claim' = [claim EXCEPT ![job[w].run] = "applied"]
      /\ old' = old \ {job[w].run}
      /\ job' = [job EXCEPT ![w] = Idle] /\ loop' = Free
      /\ UNCHANGED <<rounds, routed, attempts, retried, used, born, said, again, saved, handed, crashes>>
  BY <1>c DEF Finish, task, runs, Claims, AtWork
<1>1. Rows' /\ HandedRows' /\ HandedOnce' /\ Latest' = Latest /\ HandedRuns' = HandedRuns
  BY <1>0, RowsSame DEF HandedRuns
<1>2. /\ job' \in [Workers -> JobType] /\ job'[w].pc = "idle"
      /\ \A v \in Workers : v # w => job'[v] = job[v]
  BY <1>c, <1>0, IdleJob
<1>3. TypeClaims'
  BY <1>c, <1>0 DEF TypeClaims, TypeOK
<1>4. handled' \subseteq Runs \X Events
  <2>1. job[w].event \in Events /\ handled \subseteq Runs \X Events
    BY <1>c DEF TypeOK
  <2>2. handled' = handled \cup ({<<job[w].run, job[w].event>>} \ {<<job[w].run, Session>>})
    BY DEF Finish
  <2>3. CASE job[w].event = Session
    BY <2>1, <2>2, <2>3
  <2>4. CASE job[w].event # Session
    <3>1. <<job[w].run, job[w].event>> \in Runs \X Events
      BY <1>0, <2>1, <2>4
    <3> QED BY <2>1, <2>2, <3>1
  <2> QED BY <2>3, <2>4
<1>5. TypeLoop'
  BY <1>c, <1>0, <1>4 DEF TypeLoop, TypeOK
<1>6. TypeOK'
  BY <1>c, <1>0, <1>2, <1>3, <1>5, TypeSame, TypeJoin
<1>7. \A r \in Runs : r # job[w].run => claim'[r] = claim[r]
  BY <1>c, <1>0 DEF TypeOK
<1>8. Claims' /\ Loops'
  BY <1>0, <1>2, <1>7, EndStep
<1>9. Works'
  BY <1>c, <1>0, <1>1, <1>2 DEF Works, WorkPc
<1> QED BY <1>1, <1>6, <1>8, <1>9 DEF CompInv

\* The next role's dispatch has returned.
LEMMA DispatchedStep ==
  ASSUME CompInv, NEW w \in Workers, Dispatched(w)
  PROVE  CompInv'
<1>c. TypeOK /\ Claims /\ Loops /\ Works
  BY DEF CompInv
<1>0. /\ loop = Free /\ loop' = w /\ job[w].pc = "dispatch" /\ AtWork(w) /\ Go(w, "finish")
      /\ UNCHANGED <<rounds, routed, attempts, retried, used, born, said, again, claim, old, saved,
                     handed, handled, crashes>>
  BY DEF Dispatched, task, runs, AtWork
<1>1. Rows' /\ HandedRows' /\ HandedOnce' /\ Latest' = Latest /\ HandedRuns' = HandedRuns
  BY <1>0, RowsSame DEF HandedRuns
<1>2. /\ job' \in [Workers -> JobType] /\ job'[w].pc = "finish" /\ job'[w].run = job[w].run
      /\ \A v \in Workers : v # w => job'[v] = job[v]
  BY <1>c, <1>0, GoJob DEF Pc
<1>3. TypeLoop'
  BY <1>c, <1>0 DEF TypeLoop, TypeOK
<1>4. TypeOK'
  BY <1>c, <1>0, <1>2, <1>3, TypeSame, TypeJoin
<1>5. Claims' /\ Loops'
  BY <1>0, <1>2, OwnStep
<1>6. Works'
  BY <1>c, <1>0, <1>1, <1>2 DEF Works, WorkPc
<1> QED BY <1>1, <1>4, <1>5, <1>6 DEF CompInv

\* What a coroutine that may write knows.
LEMMA WorkFacts ==
  ASSUME CompInv, NEW w \in Workers, job[w].pc \in WorkPc
  PROVE  /\ AtWork(w) /\ job[w].run \in Runs
         /\ attempts[Len(rounds)] # <<>> /\ Latest.run = job[w].run
         /\ job[w].run \notin HandedRuns
         /\ \A v \in Workers : v # w => job[v].pc \notin WorkPc
<1>1. AtWork(w) /\ job[w].pc # "idle"
  BY DEF AtWork, WorkPc
<1>2. \A v \in Workers : v # w => job[v].pc \notin WorkPc
  BY WorkAlone
<1> QED BY <1>1, <1>2 DEF CompInv, Claims, Works

\* A coroutine writes a status to the attempt of its run and goes on.
LEMMA WorkPut ==
  ASSUME CompInv, NEW w \in Workers, job[w].pc \in WorkPc, loop \in {w, Free},
         NEW pc \in Pc \ {"idle", "read"}, Go(w, pc),
         pc \in SyncPc => loop' = w, loop' \in {w, Free},
         NEW st \in Status \ {"superseded"}, NEW done \in BOOLEAN,
         attempts' = Put(st, 0, done), pc = "handoff" => st = "passed",
         rounds' \in Seq(RoundStatus), Len(rounds') = Len(rounds),
         retried' \subseteq 1 .. Len(rounds), saved' \subseteq Runs \X Events,
         UNCHANGED <<routed, used, born, said, again, claim, old, handed, handled, crashes>>
  PROVE  CompInv'
<1>c. TypeOK /\ Claims /\ Loops /\ Works
  BY DEF CompInv
<1>n. PICK n : n = Len(rounds)
  OBVIOUS
<1>0. /\ AtWork(w) /\ attempts[n] # <<>> /\ Latest.run = job[w].run
      /\ job[w].run \notin HandedRuns
      /\ \A v \in Workers : v # w => job[v].pc \notin WorkPc
  BY <1>n, WorkFacts
<1>1. /\ attempts' \in Seq(Seq(Attempt)) /\ Len(attempts') = n
      /\ used' \in 0 .. MaxRuns /\ born' \in [Runs -> 0 .. MaxRounds]
      /\ Rows' /\ HandedRows' /\ HandedOnce'
      /\ attempts'[n] # <<>> /\ Latest'.status = st /\ Latest'.run = Latest.run
  <2>1. 0 \in 0 .. MaxRuns
    BY CompletionAssumption
  <2> QED BY <1>n, <1>0, <2>1, PutStep
<1>2. /\ job' \in [Workers -> JobType] /\ job'[w].pc = pc /\ job'[w].run = job[w].run
      /\ \A v \in Workers : v # w => job'[v] = job[v]
  BY <1>c, GoJob
<1>3. TypeRows'
  BY <1>c, <1>n, <1>1 DEF TypeOK, TypeRows
<1>4. TypeResults'
  BY <1>c DEF TypeOK, TypeResults
<1>5. TypeLoop'
  BY <1>c DEF TypeOK, TypeLoop
<1>6. TypeOK'
  BY <1>c, <1>2, <1>3, <1>4, <1>5, TypeSame, TypeJoin
<1>7. Claims' /\ Loops'
  BY <1>0, <1>2, OwnStep
<1>8. HandedRuns' = HandedRuns
  BY DEF HandedRuns
<1>9. Works'
  <2> SUFFICES ASSUME NEW v \in Workers, job'[v].pc \in WorkPc
               PROVE  /\ attempts'[Len(rounds')] # <<>> /\ Latest'.run = job'[v].run
                      /\ job'[v].run \notin HandedRuns'
                      /\ job'[v].pc = "handoff" => Latest'.status = "passed"
    BY DEF Works
  <2>1. v = w
    BY <1>0, <1>2
  <2> QED BY <1>n, <1>0, <1>1, <1>2, <1>8, <2>1
<1> QED BY <1>1, <1>6, <1>7, <1>9 DEF CompInv

\* A coroutine goes on without writing to the attempt.
LEMMA WorkGo ==
  ASSUME CompInv, NEW w \in Workers, job[w].pc \in WorkPc, loop \in {w, Free},
         Go(w, "block"), loop' = w,
         UNCHANGED <<rounds, routed, attempts, retried, used, born, said, again, claim, old, saved,
                     handed, handled, crashes>>
  PROVE  CompInv'
<1>c. TypeOK /\ Claims /\ Loops /\ Works
  BY DEF CompInv
<1>0. /\ AtWork(w) /\ attempts[Len(rounds)] # <<>> /\ Latest.run = job[w].run
      /\ job[w].run \notin HandedRuns
      /\ \A v \in Workers : v # w => job[v].pc \notin WorkPc
  BY WorkFacts
<1>1. Rows' /\ HandedRows' /\ HandedOnce' /\ Latest' = Latest /\ HandedRuns' = HandedRuns
  BY RowsSame DEF HandedRuns
<1>2. /\ job' \in [Workers -> JobType] /\ job'[w].pc = "block" /\ job'[w].run = job[w].run
      /\ \A v \in Workers : v # w => job'[v] = job[v]
  BY <1>c, GoJob DEF Pc
<1>3. TypeLoop'
  BY <1>c DEF TypeOK, TypeLoop
<1>4. TypeOK'
  BY <1>c, <1>2, <1>3, TypeSame, TypeJoin
<1>5. Claims' /\ Loops'
  BY <1>0, <1>2, OwnStep
<1>6. Works'
  BY <1>0, <1>1, <1>2 DEF Works
<1> QED BY <1>1, <1>4, <1>5, <1>6 DEF CompInv

\* Saving the artifact, blocking the role and the end of the controlled test.
LEMMA WriteStep ==
  ASSUME CompInv, NEW w \in Workers,
         Save(w) \/ Block(w) \/ (\E ok \in BOOLEAN : TestEnds(w, ok)) \/ Retry(w)
  PROVE  CompInv'
<1>c. TypeOK /\ Claims /\ Loops /\ Works
  BY DEF CompInv
<1>t. /\ rounds \in Seq(RoundStatus) /\ retried \subseteq 1 .. Len(rounds)
      /\ saved \subseteq Runs \X Events
      /\ Len(rounds) \in 1 .. Len(rounds)
  BY <1>c, AttemptsType DEF TypeOK
<1>1. CASE Save(w)
  <2> DEFINE answer == said[job[w].run]
             st == CASE answer = "pass" -> "passed" [] answer = "block" -> "blocked"
                     [] OTHER -> "waiting"
             pc == CASE answer = "pass" -> "test" [] answer = "block" -> "block"
                     [] OTHER -> "retry"
  <2>1. /\ loop = w /\ job[w].pc = "save" /\ attempts' = Put(st, 0, TRUE) /\ Go(w, pc)
        /\ loop' = (IF answer = "pass" THEN Free ELSE w)
        /\ saved' = saved \cup {<<job[w].run, job[w].event>>}
        /\ UNCHANGED <<rounds, routed, retried, used, born, said, again, claim, old, handed, handled,
                       crashes>>
    BY <1>1 DEF Save, runs
  <2>2. st \in Status \ {"superseded"} /\ pc \in Pc \ {"idle", "read"} /\ pc # "handoff"
    BY DEF Status, Pc
  <2>3. (pc \in SyncPc => loop' = w) /\ loop' \in {w, Free}
    BY <2>1 DEF SyncPc
  <2>4. job[w].pc \in WorkPc /\ loop \in {w, Free}
    BY <2>1 DEF WorkPc
  <2>5. saved' \subseteq Runs \X Events
    <3>1. job[w].run \in Runs /\ job[w].event \in Events
      BY <1>c, <2>4, WorkFacts DEF TypeOK
    <3> QED BY <1>t, <2>1, <3>1
  <2> HIDE DEF st, pc, answer
  <2>6. PICK s, p : s = st /\ p = pc
    OBVIOUS
  <2>7. rounds' \in Seq(RoundStatus) /\ Len(rounds') = Len(rounds) /\ retried' \subseteq 1 .. Len(rounds)
    BY <1>t, <2>1
  <2> QED BY <2>1, <2>2, <2>3, <2>4, <2>5, <2>6, <2>7, WorkPut
<1>2. CASE Block(w)
  <2>1. /\ loop = w /\ job[w].pc = "block" /\ attempts' = Put("blocked", 0, FALSE)
        /\ rounds' = [rounds EXCEPT ![Len(rounds)] = "blocked"] /\ Go(w, "finish") /\ loop' = w
        /\ UNCHANGED <<routed, retried, used, born, said, again, claim, old, saved, handed, handled,
                       crashes>>
    BY <1>2 DEF Block, runs, Cur
  <2>2. rounds' \in Seq(RoundStatus) /\ Len(rounds') = Len(rounds)
    BY <1>c, <2>1, RoundPut DEF RoundStatus
  <2>3. "blocked" \in Status \ {"superseded"} /\ "finish" \in Pc \ {"idle", "read"}
        /\ job[w].pc \in WorkPc
    BY <2>1 DEF Status, Pc, WorkPc
  <2> QED BY <1>t, <2>1, <2>2, <2>3, WorkPut
<1>3. ASSUME NEW ok \in BOOLEAN, TestEnds(w, ok) PROVE CompInv'
  <2>1. /\ loop = Free /\ job[w].pc = "test" /\ loop' = w
        /\ UNCHANGED <<rounds, routed, retried, used, born, said, again, claim, old, saved, handed,
                       handled, crashes>>
    BY <1>3 DEF TestEnds, runs
  <2>2. job[w].pc \in WorkPc
    BY <2>1 DEF WorkPc
  <2>3. CASE ok
    <3>1. attempts' = Put("passed", 0, FALSE) /\ Go(w, "handoff")
      BY <1>3, <2>3 DEF TestEnds
    <3>2. "passed" \in Status \ {"superseded"} /\ "handoff" \in Pc \ {"idle", "read"}
      BY DEF Status, Pc
    <3> QED BY <1>t, <2>1, <2>2, <3>1, <3>2, WorkPut
  <2>4. CASE ~ok
    <3>1. attempts' = attempts /\ Go(w, "block")
      BY <1>3, <2>4 DEF TestEnds
    <3> QED BY <2>1, <2>2, <3>1, WorkGo
  <2> QED BY <2>3, <2>4
<1>4. CASE Retry(w)
  <2>1. /\ loop = w /\ job[w].pc = "retry"
        /\ UNCHANGED <<used, born, said, again, claim, old, saved, handed, handled, crashes>>
    BY <1>4 DEF Retry, runs
  <2>2. job[w].pc \in WorkPc
    BY <2>1 DEF WorkPc
  <2>3. CASE Go(w, "block") /\ UNCHANGED <<task, loop>>
    BY <2>1, <2>2, <2>3, WorkGo DEF task
  <2>4. CASE /\ retried' = retried \cup {Cur}
             /\ rounds' = [rounds EXCEPT ![Cur] = "running"]
             /\ attempts' = Put("queued", 0, FALSE)
             /\ Go(w, "ask") /\ loop' = Free /\ UNCHANGED routed
    <3>1. rounds' \in Seq(RoundStatus) /\ Len(rounds') = Len(rounds)
      BY <1>c, <2>4, RoundPut DEF RoundStatus, Cur
    <3>2. retried' \subseteq 1 .. Len(rounds)
      BY <1>t, <2>4 DEF Cur
    <3>3. "queued" \in Status \ {"superseded"} /\ "ask" \in Pc \ {"idle", "read"}
          /\ "ask" \notin SyncPc
      BY DEF Status, Pc, SyncPc
    <3> QED BY <1>t, <2>1, <2>2, <2>4, <3>1, <3>2, <3>3, WorkPut
  <2> QED BY <1>4, <2>3, <2>4 DEF Retry
<1> QED BY <1>1, <1>2, <1>3, <1>4

\* The handoff in the round of the run: it is the first of the run, and the newest
\* attempt of that round has passed.
LEMMA HandoffStep ==
  ASSUME CompInv, NEW w \in Workers, Handoff(w)
  PROVE  CompInv'
<1>c. TypeOK /\ Claims /\ Loops /\ Works /\ Rows /\ HandedRows /\ HandedOnce
  BY DEF CompInv
<1>n. PICK n : n = Len(rounds)
  OBVIOUS
<1>0. /\ loop = w /\ job[w].pc = "handoff" /\ job[w].pc \in WorkPc
      /\ UNCHANGED <<routed, attempts, retried, used, born, said, again, claim, old, saved, handled,
                     crashes>>
  BY DEF Handoff, runs, WorkPc
<1>1. /\ AtWork(w) /\ job[w].run \in Runs /\ attempts[n] # <<>> /\ Latest.run = job[w].run
      /\ job[w].run \notin HandedRuns
      /\ \A v \in Workers : v # w => job[v].pc \notin WorkPc
  BY <1>n, <1>0, WorkFacts
<1>2. CASE Go(w, "block") /\ UNCHANGED <<handed, rounds, loop>>
  BY <1>0, <1>2, WorkGo
<1>3. CASE /\ handed' = Append(handed, [run |-> job[w].run, round |-> Cur])
           /\ rounds' = [rounds EXCEPT ![Cur] = "running"]
           /\ Go(w, "dispatch") /\ loop' = Free
  <2>t. /\ n \in Nat /\ n \in 1 .. MaxRounds /\ n \in 1 .. n /\ Len(attempts) = n
        /\ handed \in Seq([run : Runs, round : 1 .. MaxRounds])
    BY <1>c, <1>n, AttemptsType DEF TypeOK
  <2>1. rounds' \in Seq(RoundStatus) /\ Len(rounds') = n
    BY <1>c, <1>n, <1>3, RoundPut DEF RoundStatus, Cur
  <2>2. /\ job' \in [Workers -> JobType] /\ job'[w].pc = "dispatch" /\ job'[w].run = job[w].run
        /\ \A v \in Workers : v # w => job'[v] = job[v]
    BY <1>c, <1>3, GoJob DEF Pc
  <2> DEFINE h == [run |-> job[w].run, round |-> n]
  <2>3. h \in [run : Runs, round : 1 .. MaxRounds] /\ h.run = job[w].run /\ h.round = n
    BY <1>1, <2>t
  <2>4. /\ handed' \in Seq([run : Runs, round : 1 .. MaxRounds])
        /\ Len(handed') = Len(handed) + 1 /\ Len(handed) \in Nat
        /\ handed'[Len(handed) + 1] = h
        /\ \A k \in 1 .. Len(handed) : handed'[k] = handed[k]
    <3> HIDE DEF h
    <3>1. handed' = Append(handed, h)
      BY <1>n, <1>3 DEF Cur, h
    <3> QED BY <2>t, <2>3, <3>1
  <2>5. \A k \in 1 .. Len(handed') : k \in 1 .. Len(handed) \/ k = Len(handed) + 1
    BY <2>4
  <2>6. TypeRows'
    BY <1>c, <1>n, <1>0, <2>1 DEF TypeOK, TypeRows
  <2>7. TypeResults'
    BY <1>c, <1>0, <2>4 DEF TypeOK, TypeResults
  <2>8. TypeLoop'
    BY <1>c, <1>0, <1>3 DEF TypeOK, TypeLoop
  <2>9. TypeOK'
    BY <1>c, <1>0, <2>2, <2>6, <2>7, <2>8, TypeSame, TypeJoin
  <2>10. Claims' /\ Loops'
    <3>1. "dispatch" \notin SyncPc
      BY DEF SyncPc
    <3> QED BY <1>0, <1>1, <2>2, <3>1, OwnStep
  <2>11. Rows'
    BY <1>c, <1>n, <1>0, <2>1 DEF Rows
  <2>12. Works'
    <3>1. \A v \in Workers : job'[v].pc \notin WorkPc
      BY <1>1, <2>2 DEF WorkPc
    <3> QED BY <3>1 DEF Works
  <2>13. /\ Latest = attempts[n][Len(attempts[n])] /\ Len(attempts[n]) \in 1 .. Len(attempts[n])
         /\ Latest.status = "passed"
    BY <1>c, <1>n, <1>0, <1>1, LatestRow DEF Works
  <2>14. born[job[w].run] = n
    BY <1>c, <1>1, <2>t, <2>13 DEF Rows
  <2>15. HandedRows'
    <3> SUFFICES ASSUME NEW k \in 1 .. Len(handed'), NEW r, r = handed'[k].round
                 PROVE  /\ r \in 1 .. n /\ born[handed'[k].run] = r
                        /\ attempts[r] # <<>>
                        /\ attempts[r][Len(attempts[r])].run = handed'[k].run
                        /\ attempts[r][Len(attempts[r])].status = "passed"
      BY <1>0, <2>1 DEF HandedRows
    <3>1. CASE k \in 1 .. Len(handed)
      BY <1>c, <1>n, <2>4, <3>1 DEF HandedRows
    <3>2. CASE k = Len(handed) + 1
      <4>1. r = n /\ handed'[k].run = job[w].run
        BY <2>3, <2>4, <3>2
      <4> QED BY <1>1, <2>t, <2>13, <2>14, <4>1
    <3> QED BY <2>5, <3>1, <3>2
  <2>16. HandedOnce'
    <3>0. DOMAIN handed = 1 .. Len(handed) /\ DOMAIN handed' = 1 .. Len(handed')
      BY <2>t, <2>4
    <3> SUFFICES ASSUME NEW i \in 1 .. Len(handed'), NEW j \in 1 .. Len(handed'),
                        handed'[i].run = handed'[j].run
                 PROVE  i = j
      BY <3>0 DEF HandedOnce
    <3>1. \A k \in 1 .. Len(handed) : handed'[k].run # job[w].run
      BY <1>1, <2>4 DEF HandedRuns
    <3>2. handed'[Len(handed) + 1].run = job[w].run
      BY <2>3, <2>4
    <3>3. CASE i \in 1 .. Len(handed) /\ j \in 1 .. Len(handed)
      BY <1>c, <2>4, <3>0, <3>3 DEF HandedOnce
    <3>4. CASE i = Len(handed) + 1 \/ j = Len(handed) + 1
      BY <2>5, <3>1, <3>2, <3>4
    <3> QED BY <2>5, <3>3, <3>4
  <2> QED BY <2>9, <2>10, <2>11, <2>12, <2>15, <2>16 DEF CompInv
<1> QED BY <1>2, <1>3 DEF Handoff

\* The session is asked once more: a second turn of the run the role already has.
LEMMA AskedStep ==
  ASSUME CompInv, NEW w \in Workers, NEW ok \in BOOLEAN, Asked(w, ok)
  PROVE  CompInv'
<1>c. TypeOK /\ Claims /\ Loops /\ Works /\ Rows
  BY DEF CompInv
<1>n. PICK n : n = Len(rounds)
  OBVIOUS
<1>0. /\ loop = Free /\ loop' = w /\ job[w].pc = "ask" /\ job[w].pc \in WorkPc
      /\ UNCHANGED <<rounds, routed, retried, used, born, claim, old, saved, handed, handled, crashes>>
  BY DEF Asked, WorkPc
<1>1. /\ AtWork(w) /\ job[w].run \in Runs /\ attempts[n] # <<>> /\ Latest.run = job[w].run
      /\ job[w].run \notin HandedRuns
      /\ \A v \in Workers : v # w => job[v].pc \notin WorkPc
  BY <1>n, <1>0, WorkFacts
<1>2. CASE ~ok
  <2>1. Go(w, "block") /\ UNCHANGED <<again, said, attempts>>
    BY <1>2 DEF Asked
  <2> QED BY <1>0, <2>1, WorkGo
<1>3. CASE ok
  <2>t. n \in Nat /\ n \in 1 .. n /\ Len(attempts) = n
    BY <1>c, <1>n, AttemptsType
  <2>1. /\ again' = again \cup {job[w].run} /\ said' = [said EXCEPT ![job[w].run] = "nothing"]
        /\ attempts' = Put("streaming", job[w].run, FALSE) /\ Go(w, "finish")
    BY <1>3 DEF Asked
  <2>2. attempts' = Put("streaming", 0, FALSE)
    <3>1. job[w].run # 0
      BY <1>1, CompletionAssumption DEF Runs
    <3> QED BY <1>1, <2>1, <3>1 DEF Put
  <2>4. /\ attempts' \in Seq(Seq(Attempt)) /\ Len(attempts') = n
        /\ used' \in 0 .. MaxRuns /\ born' \in [Runs -> 0 .. MaxRounds]
        /\ Rows' /\ HandedRows' /\ HandedOnce'
    <3>1. 0 \in 0 .. MaxRuns /\ "streaming" \in Status \ {"superseded"}
      BY CompletionAssumption DEF Status
    <3>2. Len(rounds') = n /\ Latest.run \notin HandedRuns
      BY <1>n, <1>0, <1>1
    <3> QED BY <1>n, <1>0, <1>1, <2>2, <3>1, <3>2, PutStep
  <2>5. /\ job' \in [Workers -> JobType] /\ job'[w].pc = "finish" /\ job'[w].run = job[w].run
        /\ \A v \in Workers : v # w => job'[v] = job[v]
    BY <1>c, <2>1, GoJob DEF Pc
  <2>6. TypeRows'
    BY <1>c, <1>n, <1>0, <2>4 DEF TypeOK, TypeRows
  <2>7. TypeRuns'
    <3>1. "nothing" \in Said
      BY DEF Said
    <3> QED BY <1>c, <1>0, <1>1, <2>1, <3>1 DEF TypeOK, TypeRuns
  <2>8. TypeLoop'
    BY <1>c, <1>0 DEF TypeOK, TypeLoop
  <2>9. TypeOK'
    BY <1>c, <1>0, <2>5, <2>6, <2>7, <2>8, TypeSame, TypeJoin
  <2>10. Claims' /\ Loops'
    BY <1>0, <1>1, <2>5, OwnStep
  <2>11. Works'
    <3>1. \A v \in Workers : job'[v].pc \notin WorkPc
      BY <1>1, <2>5 DEF WorkPc
    <3> QED BY <3>1 DEF Works
  <2> QED BY <2>4, <2>9, <2>10, <2>11 DEF CompInv
<1> QED BY <1>2, <1>3

\* The invariant is inductive while no message overtakes an answer.
LEMMA NextComp ==
  ASSUME ~Overtake, CompInv, [Next]_vars
  PROVE  CompInv'
<1>1. CASE UNCHANGED vars
  <2>1. UNCHANGED <<rounds, routed, attempts, retried, used, born, said, again, claim, old, saved,
                    handed, job, loop, handled, crashes>>
    BY <1>1 DEF vars
  <2>2. TypeOK'
    BY <2>1, TypeSame, TypeJoin DEF CompInv
  <2>3. Rows' /\ HandedRows' /\ HandedOnce' /\ Latest' = Latest /\ HandedRuns' = HandedRuns
    BY <2>1, RowsSame DEF HandedRuns
  <2>4. Claims' /\ Loops' /\ Works'
    BY <2>1, <2>3 DEF CompInv, Claims, Loops, Works, AtWork
  <2> QED BY <2>2, <2>3, <2>4 DEF CompInv
<1>2. ASSUME NEW w \in Workers, Step(w) PROVE CompInv'
  <2>1. CASE Claim(w)
    BY <2>1, ClaimStep
  <2>2. CASE Decide(w)
    BY <2>2, DecideStep
  <2>3. CASE Finish(w)
    BY <2>3, FinishStep
  <2>4. CASE Save(w) \/ Block(w) \/ (\E ok \in BOOLEAN : TestEnds(w, ok)) \/ Retry(w)
    BY <2>4, WriteStep
  <2>5. CASE Handoff(w)
    BY <2>5, HandoffStep
  <2>6. CASE Dispatched(w)
    BY <2>6, DispatchedStep
  <2>7. CASE \E ok \in BOOLEAN : Asked(w, ok)
    BY <2>7, AskedStep
  <2> QED BY <1>2, <2>1, <2>2, <2>3, <2>4, <2>5, <2>6, <2>7 DEF Step
<1>3. CASE \/ Route \/ (\E r \in Runs : \/ LeaseExpires(r)
                                        \/ \E a \in Said \ {"nothing"} : RunAnswers(r, a))
           \/ Crash
           \/ \E w \in Workers, r \in Runs, e \in Events : Deliver(w, r, e)
  BY <1>3, QuietStep
<1>4. CASE DispatchRole \/ NoAnswer
  BY <1>4, RoleStep
<1>5. CASE UserMessage
  BY <1>5, MessageStep
<1> QED BY <1>1, <1>2, <1>3, <1>4, <1>5 DEF Next

-----------------------------------------------------------------------------
(* The theorems *)

\* The inductive invariant of the completion projection: claims owned alone, one
\* coroutine at the newest attempt, rows of their own round.
THEOREM CompletionInvariant ==
  ASSUME ~Overtake
  PROVE  Spec => []CompInv
<1>1. Init => CompInv
  BY InitComp
<1>2. CompInv /\ [Next]_vars => CompInv'
  BY NextComp
<1> QED BY <1>1, <1>2, PTL DEF Spec

\* However often and by however many coroutines the answer of a run is delivered,
\* and wherever the process crashes, handle_role_output hands it off at most once.
THEOREM AlwaysHandedOnce ==
  ASSUME ~Overtake
  PROVE  Spec => []HandedOnce
<1>1. CompInv => HandedOnce
  BY DEF CompInv
<1> QED BY <1>1, CompletionInvariant, PTL

\* An answer passes, blocks or retries the role, and hands the task off, only in
\* the round its run was started for.
THEOREM ResultAlwaysOfOwnRound ==
  ASSUME ~Overtake
  PROVE  Spec => []ResultOfOwnRound
<1>1. CompInv => ResultOfOwnRound
  <2> SUFFICES ASSUME CompInv PROVE ResultOfOwnRound
    OBVIOUS
  <2>0. TypeOK /\ Rows /\ HandedRows
    BY DEF CompInv
  <2>1. DOMAIN handed = 1 .. Len(handed)
    BY <2>0 DEF TypeOK
  <2>2. \A i \in DOMAIN handed : handed[i].round = born[handed[i].run]
    BY <2>0, <2>1 DEF HandedRows
  <2>3. ASSUME NEW r \in DOMAIN attempts, NEW i \in DOMAIN attempts[r]
        PROVE  attempts[r][i].run # 0 /\ born[attempts[r][i].run] = r
    <3>1. r \in 1 .. Len(attempts) /\ attempts[r] \in Seq(Attempt)
      BY <2>0, AttemptsType
    <3>2. i \in 1 .. Len(attempts[r])
      BY <3>1
    <3> QED BY <2>0, <3>1, <3>2 DEF Rows
  <2> QED BY <2>2, <2>3 DEF ResultOfOwnRound
<1> QED BY <1>1, CompletionInvariant, PTL
=============================================================================
