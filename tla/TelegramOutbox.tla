---------------------------- MODULE TelegramOutbox ----------------------------
(***************************************************************************)
(* TelegramOutbox: one in-memory queue of sends, edits and callback         *)
(* answers, drained by one task, one request at a time, with retries.       *)
(*                                                                          *)
(* TelegramTransport.send and edit enqueue a request whose function is the  *)
(* handlers' send_telegram or edit_telegram, and those enqueue the request  *)
(* that calls the Bot API: such an entry passes through the queue twice.    *)
(* A request is named by the number of its text.  Sends, edits and callback *)
(* answers differ only in the answer "message is not modified" and in who   *)
(* waits for them.                                                          *)
(***************************************************************************)
EXTENDS Naturals, Sequences

CONSTANTS MaxTexts,     \* bound: texts the program sends
          MaxRetries    \* MAX_RETRIES, at least 1

Kinds == {"send", "edit", "answer", "waited", "wrapped"}
Nobody == [text |-> 0, raw |-> TRUE]

VARIABLES
  entered,   \* how each text was handed in, in order
  queue,     \* _queue
  current,   \* the request _deliver works on
  attempt,   \* its attempt; 0 before the first
  chat,      \* what Telegram has applied, in order
  outcome,   \* per text the delivery events recorded: none, sent, failed, skipped
  waiter     \* per text the caller of enqueue_send_wait: none, waiting, id, minus_one

vars == <<entered, queue, current, attempt, chat, outcome, waiter>>

Texts == 1 .. MaxTexts
Deliveries == [text : Texts, raw : BOOLEAN]

TypeOK ==
  /\ entered \in Seq(Kinds) /\ Len(entered) <= MaxTexts
  /\ queue \in Seq(Deliveries)
  /\ current \in Deliveries \cup {Nobody}
  /\ attempt \in 0 .. MaxRetries
  /\ chat \in Seq(Texts)
  /\ outcome \in [Texts -> {"none", "sent", "failed", "skipped"}]
  /\ waiter \in [Texts -> {"none", "waiting", "id", "minus_one"}]

Init ==
  /\ entered = <<>> /\ queue = <<>> /\ current = Nobody /\ attempt = 0 /\ chat = <<>>
  /\ outcome = [t \in Texts |-> "none"] /\ waiter = [t \in Texts |-> "none"]

(* enqueue_send, enqueue_edit, enqueue_answer_callback and enqueue_send_wait, whose  *)
(* future is registered before anything else can run                                 *)
Enqueue(kind) ==
  /\ Len(entered) < MaxTexts
  /\ LET t == Len(entered) + 1 IN
       /\ entered' = Append(entered, kind)
       /\ queue' = Append(queue, [text |-> t, raw |-> kind # "wrapped"])
       /\ waiter' = IF kind = "waited" THEN [waiter EXCEPT ![t] = "waiting"] ELSE waiter
  /\ UNCHANGED <<current, attempt, chat, outcome>>

(* mutation: the queue is drained from its end *)
PickNewest ==
  /\ current = Nobody /\ queue # <<>>
  /\ current' = queue[Len(queue)]
  /\ queue' = SubSeq(queue, 1, Len(queue) - 1)
  /\ attempt' = 1
  /\ UNCHANGED <<entered, chat, outcome, waiter>>

(* process_all: _processing keeps a second drain out *)
Pick ==
  /\ current = Nobody /\ queue # <<>>
  /\ current' = Head(queue)
  /\ queue' = Tail(queue)
  /\ attempt' = 1
  /\ UNCHANGED <<entered, chat, outcome, waiter>>

(* mutation: the waiter gets an id whatever happened *)
OverWithId(how, answer) ==
  /\ outcome' = [outcome EXCEPT ![current.text] = how]
  /\ waiter' = IF waiter[current.text] = "waiting"
                 THEN [waiter EXCEPT ![current.text] = "id"] ELSE waiter
  /\ current' = Nobody /\ attempt' = 0

(* the request is over: its event is recorded and its waiter answered, if it waits *)
Over(how, answer) ==
  /\ outcome' = [outcome EXCEPT ![current.text] = how]
  /\ waiter' = IF waiter[current.text] = "waiting"
                 THEN [waiter EXCEPT ![current.text] = answer] ELSE waiter
  /\ current' = Nobody /\ attempt' = 0

(* _execute succeeded: Telegram applied it and the answer came back *)
Delivered ==
  /\ current # Nobody /\ current.raw
  /\ chat' = Append(chat, current.text)
  /\ Over("sent", "id")
  /\ UNCHANGED <<entered, queue>>

(* _execute of a wrapped request only puts the Bot API request into the queue, yet   *)
(* counts as sent                                                                    *)
Rewrapped ==
  /\ current # Nobody /\ ~current.raw
  /\ queue' = Append(queue, [current EXCEPT !.raw = TRUE])
  /\ Over("sent", "id")
  /\ UNCHANGED <<entered, chat>>

(* an edit that changes nothing is not a failure; after a lost answer it is the retry *)
NotModified ==
  /\ current # Nobody /\ entered[current.text] = "edit"
  /\ Over("skipped", "minus_one")
  /\ UNCHANGED <<entered, queue, chat>>

(* mutation: the attempt counter starts over instead of ending the request *)
FailedForever(applied, retryable) ==
  /\ current # Nobody /\ current.raw
  /\ applied => retryable
  /\ IF retryable
       THEN attempt' = (IF attempt < MaxRetries THEN attempt + 1 ELSE 1)
            /\ UNCHANGED <<current, outcome, waiter>>
       ELSE Over("failed", "minus_one")
  /\ UNCHANGED <<entered, queue, chat>>

(* an attempt raised: a timeout may hide that Telegram applied it; a retryable error  *)
(* is tried again after the backoff until the attempts are used up                    *)
Failed(applied, retryable) ==
  /\ current # Nobody /\ current.raw
  /\ applied => retryable
  /\ chat' = IF applied THEN Append(chat, current.text) ELSE chat
  /\ IF retryable /\ attempt < MaxRetries
       THEN attempt' = attempt + 1 /\ UNCHANGED <<current, outcome, waiter>>
       ELSE Over("failed", "minus_one")
  /\ UNCHANGED <<entered, queue>>

(* asyncio.wait_for of enqueue_send_wait gives up; the request stays queued *)
WaitTimesOut(t) ==
  /\ waiter[t] = "waiting"
  /\ waiter' = [waiter EXCEPT ![t] = "minus_one"]
  /\ UNCHANGED <<entered, queue, current, attempt, chat, outcome>>

Next ==
  \/ \E kind \in Kinds : Enqueue(kind)
  \/ Pick \/ Delivered \/ Rewrapped \/ NotModified
  \/ \E applied, retryable \in BOOLEAN : Failed(applied, retryable)
  \/ \E t \in Texts : WaitTimesOut(t)

Attempt == Delivered \/ Rewrapped \/ NotModified \/ \E a, r \in BOOLEAN : Failed(a, r)

(* the drain task runs every half second and a Bot API call returns or times out *)
Fairness == WF_vars(Pick) /\ WF_vars(Attempt)

Spec == Init /\ [][Next]_vars /\ Fairness
-----------------------------------------------------------------------------
Shown(t) == \E i \in DOMAIN chat : chat[i] = t
Direct(t) == entered[t] # "wrapped"

(* What the user reads is in the order it was written: however often a request was    *)
(* retried or hidden by a timeout, no later direct text is applied before an earlier   *)
(* one, so an old edit never overwrites a newer one (process_all, _deliver).           *)
AppliedInOrder ==
  \A i, j \in DOMAIN chat : i < j /\ Direct(chat[i]) /\ Direct(chat[j]) => chat[i] <= chat[j]

(* A caller of enqueue_send_wait that gets a message id has a message to edit: the id   *)
(* is of a text Telegram applied, also when its own timeout raced the delivery.         *)
IdMeansShown == \A t \in Texts : waiter[t] = "id" => Shown(t)

(* "isolates network failures": a request nobody can deliver does not hold up the       *)
(* others: every text handed in gets an outcome and the Bot API request of it leaves    *)
(* the queue (MAX_RETRIES bounds the attempts).                                          *)
EveryTextEnds ==
  \A t \in Texts :
    (t \in DOMAIN entered) ~> (outcome[t] # "none" /\ current.text # t
                               /\ \A i \in DOMAIN queue : queue[i].text # t)
=============================================================================
