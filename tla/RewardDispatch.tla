--------------------------- MODULE RewardDispatch ---------------------------
(***************************************************************************)
(* Delivery of committed reward_entry rows from                            *)
(* realtime-activity-processing-service to reward-redemption-service:      *)
(* outbox publishers (tier 1 the row's primary channel, tier 2 its         *)
(* fallback) and retry workers (tier 3, Kafka then gRPC) poll tables, keep *)
(* the rows they read in memory and write back one autocommitted statement *)
(* at a time, so that a fault can fall between any two of them.            *)
(*                                                                         *)
(* Which of KAFKA, REST and GRPC a tier resolves to is left out: a send is *)
(* accepted, refused, or accepted with the answer lost.                    *)
(***************************************************************************)
EXTENDS Naturals, Sequences, FiniteSets

CONSTANTS
  Reward,       \* reward_entry rows, each with its reward_entry_outbox row
  Publisher,    \* OutboxPublisherService instances
  RetryWorker,  \* RewardDispatchRetryWorker instances
  createdAt,    \* [Reward -> Nat]: the outbox rows' created_at
  Unreadable,   \* rewards whose payload does not decrypt, or whose channel does not resolve
  BatchSize,    \* rows one poll reads from the outbox
  MaxAttempts,  \* reward_dispatch_max_retry_attempts
  MayTimeOut,   \* can a send be accepted and still be reported as failed?
  MaxFaults     \* bound: failed statements and crashes in a run

ASSUME DispatchAssumption ==
  /\ createdAt \in [Reward -> Nat]
  /\ \A q, r \in Reward : createdAt[q] = createdAt[r] => q = r
  /\ Unreadable \subseteq Reward
  /\ BatchSize \in Nat \ {0}
  /\ MaxAttempts \in Nat \ {0}
  /\ MayTimeOut \in BOOLEAN
  /\ MaxFaults \in Nat

VARIABLES
  entryStatus,  \* [Reward -> EntryStatus]: reward_entry.dispatch_status
  outbox,       \* [Reward -> OutboxRow]
  retries,      \* Seq(RetryRow): reward_dispatch_retry, by id
  delivered,    \* [Reward -> Nat]: times reward-redemption-service accepted it
  batch,        \* [Publisher -> SUBSET OutboxRead]: the rows still to process
  step,         \* [Publisher -> PublisherStep]: the statement it executes next
  due,          \* [RetryWorker -> SUBSET RetryRead]
  wstep,        \* [RetryWorker -> WorkerStep]
  faults,       \* what MaxFaults counts
  mishaps       \* [Reward -> SUBSET Mishap]: history, what has befallen a reward; no guard reads it

pubVars == <<batch, step>>
workVars == <<due, wstep>>
vars == <<entryStatus, outbox, retries, delivered, pubVars, workVars, faults, mishaps>>

EntryStatus == {"absent", "pending", "dispatched", "failed"}
OutboxRow == [status: {"absent", "PENDING", "PUBLISHED", "FAILED"}, attempts: Nat]
RetryRow == [reward: Reward, status: {"pending", "resolved", "exhausted"}, attempts: Nat, due: BOOLEAN]
OutboxRead == [reward: Reward, attempts: Nat]
RetryRead == [row: Nat, attempts: Nat]
PublisherStep == {"idle", "send", "markPublished", "markDispatched", "incrementAttempts",
                  "recordFailure", "markFailed", "markDispatchFailed", "createRetry"}
WorkerStep == {"idle", "kafka", "grpc", "markResolved", "markDispatched", "recordFailure"}
\* Read while another instance held it; accepted with the answer lost; a statement on it
\* failed, or its instance died, with the reward's tables half written.
Mishap == {"shared", "lostAnswer", "fault"}

Init ==
  /\ entryStatus = [r \in Reward |-> "absent"]
  /\ outbox = [r \in Reward |-> [status |-> "absent", attempts |-> 0]]
  /\ retries = <<>>
  /\ delivered = [r \in Reward |-> 0]
  /\ batch = [p \in Publisher |-> {}]
  /\ step = [p \in Publisher |-> "idle"]
  /\ due = [w \in RetryWorker |-> {}]
  /\ wstep = [w \in RetryWorker |-> "idle"]
  /\ faults = 0
  /\ mishaps = [r \in Reward |-> {}]

RewardOf(x) == retries[x.row].reward
\* Some instance has read a row of the reward and is not done with it.
InHand(r) ==
  \/ \E p \in Publisher : \E x \in batch[p] : x.reward = r
  \/ \E w \in RetryWorker : \E x \in due[w] : RewardOf(x) = r
Befalls(R, what) == mishaps' = [r \in Reward |-> IF r \in R THEN mishaps[r] \cup {what} ELSE mishaps[r]]

\* The domain transaction that grants the reward commits both rows (ActivityProcessing!Commit).
Earn(r) ==
  /\ entryStatus[r] = "absent"
  /\ entryStatus' = [entryStatus EXCEPT ![r] = "pending"]
  /\ outbox' = [outbox EXCEPT ![r].status = "PENDING"]
  /\ UNCHANGED <<retries, delivered, pubVars, workVars, faults, mishaps>>

----------------------------------------------------------------------------
\* Outbox publisher: tiers 1 and 2.

Pending == {r \in Reward : outbox[r].status = "PENDING"}
Older(r) == {q \in Pending : createdAt[q] < createdAt[r]}
PendingBatch == {r \in Pending : Cardinality(Older(r)) < BatchSize}

\* findPendingBatch: a plain SELECT; another instance may read the same rows.
FetchPending(p) ==
  /\ step[p] = "idle"
  /\ Pending # {}
  /\ batch' = [batch EXCEPT ![p] = {[reward |-> r, attempts |-> outbox[r].attempts] : r \in PendingBatch}]
  /\ step' = [step EXCEPT ![p] = "send"]
  /\ Befalls({r \in PendingBatch : InHand(r)}, "shared")
  /\ UNCHANGED <<entryStatus, outbox, retries, delivered, workVars, faults>>

IsHead(p, x) == x \in batch[p] /\ \A y \in batch[p] : createdAt[x.reward] <= createdAt[y.reward]

Attempted(row) == [row EXCEPT !.attempts = @ + 1]

\* The next statement on the row in hand.
GoTo(p, next) == step' = [step EXCEPT ![p] = next] /\ UNCHANGED batch
\* The row is done with: on to the next one of the batch.
NextInBatch(p, x) ==
  /\ batch' = [batch EXCEPT ![p] = @ \ {x}]
  /\ step' = [step EXCEPT ![p] = IF batch[p] = {x} THEN "idle" ELSE "send"]

IsPrimary_OneTooFew(x) == x.attempts < MaxAttempts - 1
\* The tier is chosen from the attempts the row had when it was read.
IsPrimary(x) == x.attempts < MaxAttempts

\* The first statement of attemptChannel's catch block.
OnError(x) == IF IsPrimary(x) THEN "incrementAttempts" ELSE "markFailed"

Accepted(r) == delivered' = [delivered EXCEPT ![r] = @ + 1]
AnswerLost(r) == MayTimeOut /\ Accepted(r) /\ Befalls({r}, "lostAnswer")

Send_RefusalIgnored(p, x) ==
  /\ step[p] = "send"
  /\ IsHead(p, x)
  /\ x.reward \notin Unreadable
  /\ \/ Accepted(x.reward) /\ GoTo(p, "markPublished")
     \/ UNCHANGED delivered /\ GoTo(p, "markPublished")
  /\ UNCHANGED <<entryStatus, outbox, retries, workVars, faults, mishaps>>

\* processRow and dispatchViaChannel.
Send(p, x) ==
  /\ step[p] = "send"
  /\ IsHead(p, x)
  /\ x.reward \notin Unreadable
  /\ \/ Accepted(x.reward) /\ GoTo(p, "markPublished") /\ UNCHANGED mishaps
     \/ UNCHANGED <<delivered, mishaps>> /\ GoTo(p, OnError(x))
     \/ AnswerLost(x.reward) /\ GoTo(p, OnError(x))
  /\ UNCHANGED <<entryStatus, outbox, retries, workVars, faults>>

\* processRow throws ahead of its try block: the poll cycle ends here.
CannotRead(p, x) ==
  /\ step[p] = "send"
  /\ IsHead(p, x)
  /\ x.reward \in Unreadable
  /\ batch' = [batch EXCEPT ![p] = {}]
  /\ step' = [step EXCEPT ![p] = "idle"]
  /\ UNCHANGED <<entryStatus, outbox, retries, delivered, workVars, faults, mishaps>>

SetOutbox(r, status) ==
  outbox' = [outbox EXCEPT ![r] = [status |-> status, attempts |-> outbox[r].attempts + 1]]

MarkPublished_LeftPending(p, x) ==
  /\ step[p] = "markPublished" /\ IsHead(p, x)
  /\ SetOutbox(x.reward, "PENDING")
  /\ GoTo(p, "markDispatched")
  /\ UNCHANGED <<entryStatus, retries, delivered, workVars, faults, mishaps>>
MarkPublished(p, x) ==
  /\ step[p] = "markPublished" /\ IsHead(p, x)
  /\ SetOutbox(x.reward, "PUBLISHED")
  /\ GoTo(p, "markDispatched")
  /\ UNCHANGED <<entryStatus, retries, delivered, workVars, faults, mishaps>>

MarkDispatched(p, x) ==
  /\ step[p] = "markDispatched" /\ IsHead(p, x)
  /\ entryStatus' = [entryStatus EXCEPT ![x.reward] = "dispatched"]
  /\ NextInBatch(p, x)
  /\ UNCHANGED <<outbox, retries, delivered, workVars, faults, mishaps>>

IncrementAttempts(p, x) ==
  /\ step[p] = "incrementAttempts" /\ IsHead(p, x)
  /\ outbox' = [outbox EXCEPT ![x.reward] = Attempted(@)]
  /\ GoTo(p, "recordFailure")
  /\ UNCHANGED <<entryStatus, retries, delivered, workVars, faults, mishaps>>

\* recordDispatchAttemptFailure writes counters and texts only.
RecordFailure(p, x) ==
  /\ step[p] = "recordFailure" /\ IsHead(p, x)
  /\ NextInBatch(p, x)
  /\ UNCHANGED <<entryStatus, outbox, retries, delivered, workVars, faults, mishaps>>

MarkFailed_LeftPending(p, x) ==
  /\ step[p] = "markFailed" /\ IsHead(p, x)
  /\ SetOutbox(x.reward, "PENDING")
  /\ GoTo(p, "markDispatchFailed")
  /\ UNCHANGED <<entryStatus, retries, delivered, workVars, faults, mishaps>>
MarkFailed(p, x) ==
  /\ step[p] = "markFailed" /\ IsHead(p, x)
  /\ SetOutbox(x.reward, "FAILED")
  /\ GoTo(p, "markDispatchFailed")
  /\ UNCHANGED <<entryStatus, retries, delivered, workVars, faults, mishaps>>

MarkDispatchFailed(p, x) ==
  /\ step[p] = "markDispatchFailed" /\ IsHead(p, x)
  /\ entryStatus' = [entryStatus EXCEPT ![x.reward] = "failed"]
  /\ GoTo(p, "createRetry")
  /\ UNCHANGED <<outbox, retries, delivered, workVars, faults, mishaps>>

CreateRetry_Forgotten(p, x) ==
  /\ step[p] = "createRetry" /\ IsHead(p, x)
  /\ NextInBatch(p, x)
  /\ UNCHANGED <<entryStatus, outbox, retries, delivered, workVars, faults, mishaps>>
\* create: nothing makes reward_entry_id unique in reward_dispatch_retry.
CreateRetry(p, x) ==
  /\ step[p] = "createRetry" /\ IsHead(p, x)
  /\ retries' = Append(retries, [reward |-> x.reward, status |-> "pending", attempts |-> 0, due |-> TRUE])
  /\ NextInBatch(p, x)
  /\ UNCHANGED <<entryStatus, outbox, delivered, workVars, faults, mishaps>>

\* A statement of the try block fails although the channel had accepted the reward: it did
\* nothing, or it took effect and only its answer was lost.
MarkingFails(p, x) ==
  /\ IsHead(p, x)
  /\ faults < MaxFaults
  /\ faults' = faults + 1
  /\ \/ /\ step[p] = "markPublished"
        /\ SetOutbox(x.reward, "PUBLISHED") \/ UNCHANGED outbox
        /\ UNCHANGED entryStatus
     \/ /\ step[p] = "markDispatched"
        /\ entryStatus' \in {entryStatus, [entryStatus EXCEPT ![x.reward] = "dispatched"]}
        /\ UNCHANGED outbox
  /\ GoTo(p, OnError(x))
  /\ Befalls({x.reward}, "fault")
  /\ UNCHANGED <<retries, delivered, workVars>>

\* The steps at which what has happened to the row in hand is not written yet.
HalfWritten == {"markPublished", "markDispatched", "markDispatchFailed", "createRetry"}

\* A statement outside the try block fails, or the instance dies: the cycle ends here. A
\* failed statement that took effect is the statement, then this.
AbandonBatch(p) ==
  /\ step[p] # "idle"
  /\ faults < MaxFaults
  /\ faults' = faults + 1
  /\ Befalls({x.reward : x \in {y \in batch[p] : IsHead(p, y) /\ step[p] \in HalfWritten}}, "fault")
  /\ batch' = [batch EXCEPT ![p] = {}]
  /\ step' = [step EXCEPT ![p] = "idle"]
  /\ UNCHANGED <<entryStatus, outbox, retries, delivered, workVars>>

Publish(p, x) ==
  \/ Send(p, x) \/ CannotRead(p, x)
  \/ MarkPublished(p, x) \/ MarkDispatched(p, x)
  \/ IncrementAttempts(p, x) \/ RecordFailure(p, x)
  \/ MarkFailed(p, x) \/ MarkDispatchFailed(p, x) \/ CreateRetry(p, x)

----------------------------------------------------------------------------
\* Retry worker: tier 3.

DueRows == {i \in DOMAIN retries : retries[i].status = "pending" /\ retries[i].due}

\* findDueBatch. Its limit is above the number of rows a model has.
FetchDue(w) ==
  /\ wstep[w] = "idle"
  /\ DueRows # {}
  /\ due' = [due EXCEPT ![w] = {[row |-> i, attempts |-> retries[i].attempts] : i \in DueRows}]
  /\ wstep' = [wstep EXCEPT ![w] = "kafka"]
  /\ Befalls({r \in Reward : InHand(r) /\ \E i \in DueRows : retries[i].reward = r}, "shared")
  /\ UNCHANGED <<entryStatus, outbox, retries, delivered, pubVars, faults>>

\* next_retry_at passes. Any length of backoff is as good as another.
BackoffElapses(i) ==
  /\ i \in DOMAIN retries
  /\ ~retries[i].due
  /\ retries' = [retries EXCEPT ![i] = [@ EXCEPT !.due = TRUE]]
  /\ UNCHANGED <<entryStatus, outbox, delivered, pubVars, workVars, faults, mishaps>>

IsDueHead(w, x) == x \in due[w] /\ \A y \in due[w] : x.row <= y.row

WGoTo(w, next) == wstep' = [wstep EXCEPT ![w] = next] /\ UNCHANGED due
NextDue(w, x) ==
  /\ due' = [due EXCEPT ![w] = @ \ {x}]
  /\ wstep' = [wstep EXCEPT ![w] = IF due[w] = {x} THEN "idle" ELSE "kafka"]

\* tryKafka, then tryGrpc if that failed.
Try(w, x, channel, onError) ==
  /\ wstep[w] = channel /\ IsDueHead(w, x)
  /\ \/ Accepted(RewardOf(x)) /\ WGoTo(w, "markResolved") /\ UNCHANGED mishaps
     \/ UNCHANGED <<delivered, mishaps>> /\ WGoTo(w, onError)
     \/ AnswerLost(RewardOf(x)) /\ WGoTo(w, onError)
  /\ UNCHANGED <<entryStatus, outbox, retries, pubVars, faults>>

BackedOff(row) == [Attempted(row) EXCEPT !.due = FALSE]
SetRetry(i, status) == retries' = [retries EXCEPT ![i] = [@ EXCEPT !.status = status]]

MarkResolved(w, x) ==
  /\ wstep[w] = "markResolved" /\ IsDueHead(w, x)
  /\ SetRetry(x.row, "resolved")
  /\ WGoTo(w, "markDispatched")
  /\ UNCHANGED <<entryStatus, outbox, delivered, pubVars, faults, mishaps>>

RetryDispatched(w, x) ==
  /\ wstep[w] = "markDispatched" /\ IsDueHead(w, x)
  /\ entryStatus' = [entryStatus EXCEPT ![RewardOf(x)] = "dispatched"]
  /\ NextDue(w, x)
  /\ UNCHANGED <<outbox, retries, delivered, pubVars, faults, mishaps>>

IsLastAttempt(x) == x.attempts + 1 >= MaxAttempts

\* recordFailureAndMaybeExhaust.
RetryFailed(w, x) ==
  /\ wstep[w] = "recordFailure" /\ IsDueHead(w, x)
  /\ \/ IsLastAttempt(x) /\ SetRetry(x.row, "exhausted")
     \/ /\ ~IsLastAttempt(x)
        /\ retries' = [retries EXCEPT ![x.row] = BackedOff(@)]
  /\ NextDue(w, x)
  /\ UNCHANGED <<entryStatus, outbox, delivered, pubVars, faults, mishaps>>

\* No statement of the worker is guarded: a failing one ends the cycle, as a crash does.
AbandonDue(w) ==
  /\ wstep[w] # "idle"
  /\ faults < MaxFaults
  /\ faults' = faults + 1
  /\ Befalls({RewardOf(x) : x \in {y \in due[w] : IsDueHead(w, y) /\ wstep[w] \in {"markResolved", "markDispatched"}}},
             "fault")
  /\ due' = [due EXCEPT ![w] = {}]
  /\ wstep' = [wstep EXCEPT ![w] = "idle"]
  /\ UNCHANGED <<entryStatus, outbox, retries, delivered, pubVars>>

Retry(w, x) ==
  \/ Try(w, x, "kafka", "grpc") \/ Try(w, x, "grpc", "recordFailure")
  \/ MarkResolved(w, x) \/ RetryDispatched(w, x) \/ RetryFailed(w, x)

----------------------------------------------------------------------------
PublisherRuns(p) == FetchPending(p) \/ \E x \in batch[p] : Publish(p, x)
WorkerRuns(w) == FetchDue(w) \/ \E x \in due[w] : Retry(w, x)

Next ==
  \/ \E r \in Reward : Earn(r)
  \/ \E p \in Publisher : PublisherRuns(p)
  \/ \E p \in Publisher : \E x \in batch[p] : MarkingFails(p, x)
  \/ \E p \in Publisher : AbandonBatch(p)
  \/ \E w \in RetryWorker : WorkerRuns(w)
  \/ \E i \in DOMAIN retries : BackoffElapses(i)
  \/ \E w \in RetryWorker : AbandonDue(w)

Spec == Init /\ [][Next]_vars

\* Both pollers run on an interval for ever, and the clock moves on.
Fairness ==
  /\ \A p \in Publisher : WF_vars(PublisherRuns(p))
  /\ \A w \in RetryWorker : WF_vars(WorkerRuns(w))
  /\ WF_vars(\E i \in DOMAIN retries : BackoffElapses(i))

FairSpec == Spec /\ Fairness
=============================================================================
