------------------------------ MODULE PromoCode ------------------------------
(***************************************************************************)
(* promo-code-service: handlers (the Kafka consumer, the gRPC and REST     *)
(* servers) turn generation requests into codes, at most one per           *)
(* correlation id; for a request from Kafka the transaction that creates   *)
(* the code also writes an outbox row, whose publication is the reply.     *)
(* A synchronous caller holds its connection open instead.                 *)
(***************************************************************************)
EXTENDS Naturals

CONSTANTS
  Correlation,         \* correlation ids
  Code,                \* the codes a recipe can generate
  Handler,             \* requests the service works on at a time
  Caller,              \* synchronous callers
  MaxRetryAttempts,    \* GENERATION_MAX_RETRY_ATTEMPTS
  MaxPublishAttempts,  \* OUTBOX_MAX_ATTEMPTS
  None                 \* no code, no caller

VARIABLES
  issued,    \* [Correlation -> Code \cup {None}]: promo_code
  outbox,    \* [Correlation -> OutboxRow]: promo_code_outbox
  requests,  \* [Correlation -> Nat]: unacknowledged generate.requested messages
  results,   \* set of Message: generate.result messages nobody has consumed
  job        \* [Handler -> Job]

promoVars == <<issued, outbox, requests, results, job>>

OutboxRow == [status: {"absent", "PENDING", "PUBLISHED", "FAILED"}, attempts: Nat]
Message == [corr: Correlation, code: Code]
\* CONFIG_NOT_BOUND stands for every refusal that a retry would not change.
Error == {"CONFIG_NOT_BOUND", "GENERATION_EXHAUSTED"}
Job == [corr: Correlation \cup {None}, transport: {"KAFKA", "SYNC"}, caller: Caller \cup {None},
        step: {"idle", "check", "insert", "answer"}, attempt: Nat, answer: Code \cup Error \cup {None}]
NoJob == [corr |-> None, transport |-> "SYNC", caller |-> None, step |-> "idle", attempt |-> 0, answer |-> None]

Init ==
  /\ issued = [c \in Correlation |-> None]
  /\ outbox = [c \in Correlation |-> [status |-> "absent", attempts |-> 0]]
  /\ requests = [c \in Correlation |-> 0]
  /\ results = {}
  /\ job = [h \in Handler |-> NoJob]

\* The caller's producer appends a request to generate.requested.
Request(c) ==
  /\ requests' = [requests EXCEPT ![c] = @ + 1]
  /\ UNCHANGED <<issued, outbox, results, job>>

Start(h, c, transport, caller) ==
  /\ job[h].step = "idle"
  /\ job' = [job EXCEPT ![h] =
       [corr |-> c, transport |-> transport, caller |-> caller, step |-> "check", attempt |-> 0,
        answer |-> None]]

\* A synchronous request arrives.
Serve(h, c, caller) ==
  /\ Start(h, c, "SYNC", caller)
  /\ UNCHANGED <<issued, outbox, requests, results>>

\* The consumer is handed a request. Its offset moves on only when it is acknowledged; a
\* rebalance can hand it to two consumers.
Consume(h, c) ==
  /\ requests[c] > 0
  /\ Start(h, c, "KAFKA", None)
  /\ UNCHANGED <<issued, outbox, requests, results>>

Working(h, at) == job[h].step = at
Answered(j, answer) == [j EXCEPT !.step = "answer", !.answer = answer]
Answer(h, answer) == job' = [job EXCEPT ![h] = Answered(job[h], answer)]
Attempting(j, n) == [j EXCEPT !.step = "insert", !.attempt = n]
Attempt(h, n) == job' = [job EXCEPT ![h] = Attempting(job[h], n)]

\* generateCode: findByCorrelationId, then the binding and its version, which an
\* administrator may activate or retire at any time.
Check(h) ==
  LET c == job[h].corr IN
  /\ Working(h, "check")
  /\ \/ issued[c] # None /\ Answer(h, issued[c])
     \/ issued[c] = None /\ Answer(h, "CONFIG_NOT_BOUND")
     \/ issued[c] = None /\ Attempt(h, 1)
  /\ UNCHANGED <<issued, outbox, requests, results>>

Taken(code) == \E c \in Correlation : issued[c] = code

\* uc_promo_code_code: generate another candidate, up to the ceiling.
Collide(h) ==
  IF job[h].attempt < MaxRetryAttempts
  THEN Attempt(h, job[h].attempt + 1)
  ELSE Answer(h, "GENERATION_EXHAUSTED")

Create(h, code) ==
  LET c == job[h].corr IN
  /\ issued' = [issued EXCEPT ![c] = code]
  /\ outbox' = IF job[h].transport = "KAFKA"
               THEN [outbox EXCEPT ![c] = [status |-> "PENDING", attempts |-> 0]]
               ELSE outbox
  /\ Answer(h, code)

Insert_NoUniqueCorrelation(h, code) ==
  /\ Working(h, "insert")
  /\ \/ Taken(code) /\ Collide(h) /\ UNCHANGED <<issued, outbox>>
     \/ ~Taken(code) /\ Create(h, code)
  /\ UNCHANGED <<requests, results>>
\* generateWithRetry, one round: the transaction, or the unique index that rejects it. A
\* request that lost the race for its correlation id reads back the winner's code.
Insert(h, code) ==
  LET c == job[h].corr IN
  /\ Working(h, "insert")
  /\ \/ Taken(code) /\ Collide(h) /\ UNCHANGED <<issued, outbox>>
     \/ ~Taken(code) /\ issued[c] # None /\ Answer(h, issued[c]) /\ UNCHANGED <<issued, outbox>>
     \/ ~Taken(code) /\ issued[c] = None /\ Create(h, code)
  /\ UNCHANGED <<requests, results>>

\* processMessage acknowledges whatever generateCode decided, and sends nothing itself.
Acknowledge(h) ==
  LET c == job[h].corr IN
  /\ Working(h, "answer")
  /\ job[h].transport = "KAFKA"
  /\ requests' = [requests EXCEPT ![c] = IF @ > 0 THEN @ - 1 ELSE 0]
  /\ job' = [job EXCEPT ![h] = NoJob]
  /\ UNCHANGED <<issued, outbox, results>>

\* generateCode threw on every attempt of processMessage: the request goes to the dead-letter
\* topic, and is acknowledged. (One attempt that throws is Die, then Consume again.)
DeadLetter(h) ==
  LET c == job[h].corr IN
  /\ job[h].step \in {"check", "insert"}
  /\ job[h].transport = "KAFKA"
  /\ requests' = [requests EXCEPT ![c] = IF @ > 0 THEN @ - 1 ELSE 0]
  /\ job' = [job EXCEPT ![h] = NoJob]
  /\ UNCHANGED <<issued, outbox, results>>

\* The answer of a synchronous request goes out.
Respond(h) ==
  /\ Working(h, "answer")
  /\ job[h].transport = "SYNC"
  /\ job' = [job EXCEPT ![h] = NoJob]
  /\ UNCHANGED <<issued, outbox, requests, results>>

\* The handler throws or dies: an unacknowledged message is delivered again.
Die(h) ==
  /\ ~Working(h, "idle")
  /\ job' = [job EXCEPT ![h] = NoJob]
  /\ UNCHANGED <<issued, outbox, requests, results>>

\* The caller has hung up; the handler goes on without it.
HungUp(caller) ==
  [h \in Handler |-> IF job[h].caller = caller THEN [job[h] EXCEPT !.caller = None] ELSE job[h]]

\* OutboxPublisherWorker.processRow: publish, then markPublished in the same try block. The
\* worker may also die between the two.
Send(c) == results' = results \cup {[corr |-> c, code |-> issued[c]]}
SetOutbox(c, status) == outbox' = [outbox EXCEPT ![c] = [status |-> status, attempts |-> @.attempts + 1]]
Publish(c) ==
  /\ outbox[c].status = "PENDING"
  /\ \/ Send(c) /\ SetOutbox(c, "PUBLISHED")
     \/ Send(c) /\ UNCHANGED outbox
     \/ /\ Send(c) \/ UNCHANGED results
        /\ SetOutbox(c, IF outbox[c].attempts + 1 >= MaxPublishAttempts THEN "FAILED" ELSE "PENDING")
  /\ UNCHANGED <<issued, requests, job>>
==============================================================================
