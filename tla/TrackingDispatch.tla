--------------------------- MODULE TrackingDispatch ---------------------------
(***************************************************************************)
(* How reward-redemption-service announces its completed redemptions to    *)
(* reward tracking: a transactional outbox, a publisher that tries the     *)
(* primary channel and then the fallback, and a retry table with a worker  *)
(* of its own. Tracking itself is TrackedRewards, which RewardTracking     *)
(* implements. Every database write of the publisher is a statement of its *)
(* own. It may fail, and a statement that failed may still have taken      *)
(* effect: the connection dropped after the server had committed.          *)
(***************************************************************************)
EXTENDS TrackedRewards, Sequences

CONSTANTS
  Announced,    \* the entries in the order their outbox rows are created
  Channels,     \* the dispatch_channel_config rows that may apply
  Unreadable,   \* the entries whose customerIdEncrypted cannot be decrypted
  BatchSize,    \* OUTBOX_BATCH_SIZE
  Budget,       \* dispatch.kafka.attemptsBeforeFallback
  MaxUnsent,    \* dispatch.outbox.maxPreDispatchFailures
  RetryMax,     \* dispatch.retry.maxAttempts
  MaxFaults     \* bound: failed database statements and crashes

Channel == {"KAFKA", "REST", "GRPC"}
Resolved == [primary : Channel, fallback : Channel, enabled : SUBSET Channel]

ASSUME DispatchAssumption ==
  /\ Announced \in Seq(Entry) /\ Channels \subseteq Resolved /\ Channels # {}
  /\ Unreadable \subseteq Entry
  /\ {BatchSize, Budget, MaxUnsent, RetryMax} \subseteq Nat \ {0} /\ MaxFaults \in Nat

VARIABLES
  outbox,   \* Seq of [entry, status, attempts]: reward_tracking_dispatch_outbox by created_at
  retries,  \* Seq of [entry, status, attempts]: reward_tracking_dispatch_retry, "gone" once deleted
  topic,    \* the entries on reward.redemption.completed.v1 and not consumed
  late,     \* the entries of calls given up on that tracking may still be handling
  pub,      \* OutboxPublisherService's cycle
  worker,   \* RewardTrackingDispatchRetryWorker's cycle
  throws,   \* history: how often in a row each outbox row threw before any attempt to send it
  faults

rest == <<outbox, retries, throws>>
wire == <<topic, late>>
vars == <<tracked, rest, wire, pub, worker, faults>>

Row == [entry : Entry, status : {"PENDING", "PUBLISHED", "FAILED", "POISONED"}, attempts : Nat]
RetryRow == [entry : Entry, status : {"pending", "exhausted", "gone"}, attempts : Nat]
NoConfig == [primary |-> "KAFKA", fallback |-> "KAFKA", enabled |-> {}]
Fetched == [row : Nat, attempts : Nat]
PubStage == {"row", "primary", "fallback", "published", "increment", "escalate", "failed", "record"}
Pub == [at : PubStage \cup {"idle"}, current : Fetched, batch : SUBSET Fetched,
        config : Channels \cup {NoConfig}, way : Channel, sent : BOOLEAN]
Asleep == [at |-> "idle", current |-> [row |-> 0, attempts |-> 0], batch |-> {},
           config |-> NoConfig, way |-> "KAFKA", sent |-> FALSE]
AsleepWorker == [at |-> "idle", row |-> 0, ways |-> <<>>]

DispatchInit ==
  /\ Untracked
  /\ outbox = <<>> /\ retries = <<>>
  /\ topic = {} /\ late = {}
  /\ pub = Asleep /\ worker = AsleepWorker
  /\ throws = [e \in Entry |-> 0] /\ faults = 0

\* enqueue, in the transaction that completes the redemption.
Enqueue ==
  /\ Len(outbox) < Len(Announced)
  /\ outbox' = Append(outbox,
       [entry |-> Announced[Len(outbox) + 1], status |-> "PENDING", attempts |-> 0])
  /\ UNCHANGED <<tracked, retries, wire, pub, worker, throws, faults>>

------------------------------------------------------------------------------
\* The channels. An answered call or an acknowledged publication was handed over; a failed one may
\* have been too: its request or its message is still on the way.
Handed(c, e) ==
  IF c = "KAFKA" THEN topic' = topic \cup {e} /\ UNCHANGED <<tracked, late>>
                 ELSE Track(e) /\ UNCHANGED wire
GivenUp(c, e) ==
  \/ UNCHANGED <<tracked, wire>>
  \/ IF c = "KAFKA" THEN topic' = topic \cup {e} /\ UNCHANGED <<tracked, late>>
                    ELSE late' = late \cup {e} /\ UNCHANGED <<tracked, topic>>

\* Tracking consumes a message, or ends a call nobody waits for any more, or loses that call.
ConsumeMessage(e) ==
  /\ e \in topic /\ Track(e) /\ topic' = topic \ {e}
  /\ UNCHANGED <<rest, late, pub, worker, faults>>
EndCall(e) ==
  /\ e \in late /\ late' = late \ {e}
  /\ Track(e) \/ UNCHANGED tracked
  /\ UNCHANGED <<rest, topic, pub, worker, faults>>

------------------------------------------------------------------------------
\* The publisher.
\* Mutant: failed rows are polled too.
PendingOrFailed == {i \in DOMAIN outbox : outbox[i].status \in {"PENDING", "FAILED"}}
Pending == {i \in DOMAIN outbox : outbox[i].status = "PENDING"}
Older(i) == {j \in Pending : j < i}
Batch == {[row |-> i, attempts |-> outbox[i].attempts] :
            i \in {j \in Pending : Cardinality(Older(j)) < BatchSize}}
\* The loop over the batch: the oldest row it has left, if any.
Begin(batch) ==
  \/ batch = {} /\ pub' = Asleep
  \/ \E b \in batch :
       /\ \A x \in batch : b.row <= x.row
       /\ pub' = [at |-> "row", current |-> b, batch |-> batch \ {b},
                  config |-> NoConfig, way |-> "KAFKA", sent |-> FALSE]

\* findPendingBatch: the oldest pending rows, with the attempts they had then.
Poll ==
  /\ pub.at = "idle" /\ Pending # {}
  /\ Begin(Batch)
  /\ UNCHANGED <<tracked, rest, wire, worker, faults>>

Current == pub.current
Sending == outbox[Current.row].entry
Tries(at, config, way, sent) ==
  pub' = [at |-> at, current |-> pub.current, batch |-> pub.batch,
          config |-> config, way |-> way, sent |-> sent]
Moves(at) == Tries(at, pub.config, pub.way, pub.sent)
NextRow == Begin(pub.batch)
Fault == faults < MaxFaults /\ faults' = faults + 1

\* processRow: the configuration is looked up and the customer decrypted before anything is sent.
Resolve ==
  /\ pub.at = "row" /\ Sending \notin Unreadable
  /\ \E c \in Channels :
       IF c.primary \in c.enabled THEN Tries("primary", c, c.primary, FALSE)
                                ELSE Tries("fallback", c, c.fallback, FALSE)
  /\ UNCHANGED <<tracked, rest, wire, worker, faults>>
ResolveThrows ==
  /\ pub.at = "row"
  /\ Moves("record")
  /\ IF Sending \in Unreadable THEN UNCHANGED faults ELSE Fault
  /\ UNCHANGED <<tracked, rest, wire, worker>>

\* attemptChannel(primaryChannel): delivered, rejected, or the transport is unreachable.
Reached == throws' = [throws EXCEPT ![Sending] = 0]
PrimaryDelivers ==
  /\ pub.at = "primary" /\ Handed(pub.way, Sending)
  /\ Tries("published", pub.config, pub.way, TRUE)
  /\ Reached /\ UNCHANGED <<outbox, retries, worker, faults>>
PrimaryFails(unreachable) ==
  /\ pub.at = "primary" /\ (unreachable => pub.way # "REST")
  /\ GivenUp(pub.way, Sending)
  /\ IF ~unreachable /\ Current.attempts + 1 < Budget
     THEN Tries("increment", pub.config, pub.way, TRUE)
     ELSE Tries("fallback", pub.config,
                IF unreachable /\ pub.way = "KAFKA" THEN "REST" ELSE pub.config.fallback, TRUE)
  /\ Reached /\ UNCHANGED <<outbox, retries, worker, faults>>

\* attemptFallbackOrEscalate.
FallbackDelivers ==
  /\ pub.at = "fallback" /\ pub.way \in pub.config.enabled
  /\ Handed(pub.way, Sending)
  /\ Tries("published", pub.config, pub.way, TRUE)
  /\ Reached /\ UNCHANGED <<outbox, retries, worker, faults>>
FallbackFails ==
  /\ pub.at = "fallback"
  /\ IF pub.way \in pub.config.enabled
     THEN GivenUp(pub.way, Sending) /\ Reached ELSE UNCHANGED <<tracked, wire, throws>>
  /\ Moves("escalate")
  /\ UNCHANGED <<outbox, retries, worker, faults>>

\* markPublished, incrementAttempts, markFailed: updates by id, whatever the status.
Counts(status) ==
  outbox' = [outbox EXCEPT ![Current.row] =
              [entry |-> Sending, status |-> status, attempts |-> outbox[Current.row].attempts + 1]]
MarkPublished ==
  /\ pub.at = "published" /\ Counts("PUBLISHED") /\ NextRow
  /\ UNCHANGED <<tracked, retries, wire, worker, throws, faults>>
IncrementAttempts ==
  /\ pub.at = "increment" /\ Counts(outbox[Current.row].status) /\ NextRow
  /\ UNCHANGED <<tracked, retries, wire, worker, throws, faults>>
\* escalateToRetryTable: two statements, the retry row first.
NewRetry ==
  retries' = Append(retries, [entry |-> Sending, status |-> "pending", attempts |-> 0])
\* Mutant: the outbox row is marked before the retry row is written.
MarkBeforeRetry ==
  /\ pub.at = "escalate" /\ Counts("FAILED") /\ Moves("failed")
  /\ UNCHANGED <<tracked, retries, wire, worker, throws, faults>>
CreateRetry ==
  /\ pub.at = "escalate" /\ NewRetry /\ Moves("failed")
  /\ UNCHANGED <<tracked, outbox, wire, worker, throws, faults>>
MarkFailed ==
  /\ pub.at = "failed" /\ Counts("FAILED") /\ NextRow
  /\ UNCHANGED <<tracked, retries, wire, worker, throws, faults>>

\* Any of these statements may fail, and have been committed all the same: it lands in
\* processRowSafely's catch, as a throw before any attempt does.
Written ==
  \/ pub.at = "published" /\ Counts("PUBLISHED") /\ UNCHANGED retries
  \/ pub.at = "increment" /\ Counts(outbox[Current.row].status) /\ UNCHANGED retries
  \/ pub.at = "escalate" /\ NewRetry /\ UNCHANGED outbox
  \/ pub.at = "failed" /\ Counts("FAILED") /\ UNCHANGED retries
StatementFails ==
  /\ pub.at \in {"published", "increment", "escalate", "failed"} /\ Fault
  /\ Written \/ UNCHANGED <<outbox, retries>>
  /\ Moves("record")
  /\ UNCHANGED <<tracked, throws, wire, worker>>
\* recordPreDispatchFailure: an update by id too, of a row that may be settled by now.
Poisons(row) == row.attempts + 1 >= MaxUnsent
Recorded ==
  /\ Counts(IF Poisons(outbox[Current.row]) THEN "POISONED" ELSE outbox[Current.row].status)
  /\ throws' = IF pub.sent THEN throws ELSE [throws EXCEPT ![Sending] = @ + 1]
\* Mutant: the row is left as it was, as before T-INT-051.
LeavePending ==
  /\ pub.at = "record" /\ NextRow
  /\ UNCHANGED <<tracked, rest, wire, worker, faults>>
RecordFailure ==
  /\ pub.at = "record" /\ Recorded /\ NextRow
  /\ UNCHANGED <<tracked, retries, wire, worker, faults>>
\* That update may fail as well, and the cycle is over.
RecordFails ==
  /\ pub.at = "record" /\ Fault
  /\ Recorded \/ UNCHANGED <<outbox, throws>>
  /\ pub' = Asleep
  /\ UNCHANGED <<tracked, retries, wire, worker>>

------------------------------------------------------------------------------
\* The retry worker. A row is due once its backoff is over: any pending row may be next, and one
\* the batch read before another is handled as if it were read when its turn comes.
Due == {i \in DOMAIN retries : retries[i].status = "pending"}
Retrying == retries[worker.row]
Records(status, attempts) ==
  retries' = [retries EXCEPT ![worker.row] =
               [entry |-> Retrying.entry, status |-> status, attempts |-> attempts]]

\* processRow: the channels enabled now, the primary before the fallback.
Offered(c, way) == IF way \in c.enabled THEN <<way>> ELSE <<>>
WaysOf(c) ==
  Offered(c, c.primary) \o (IF c.fallback = c.primary THEN <<>> ELSE Offered(c, c.fallback))
TakeDue(i) ==
  /\ worker.at = "idle" /\ i \in Due /\ retries[i].entry \notin Unreadable
  /\ \E c \in Channels : worker' = [at |-> "sending", row |-> i, ways |-> WaysOf(c)]
  /\ UNCHANGED <<tracked, rest, wire, pub, faults>>
RetryDelivers ==
  /\ worker.at = "sending" /\ worker.ways # <<>>
  /\ Handed(Head(worker.ways), Retrying.entry)
  /\ worker' = [at |-> "delivered", row |-> worker.row, ways |-> <<>>]
  /\ UNCHANGED <<rest, pub, faults>>
RetryFails ==
  /\ worker.at = "sending" /\ worker.ways # <<>>
  /\ GivenUp(Head(worker.ways), Retrying.entry)
  /\ worker' = [at |-> "sending", row |-> worker.row, ways |-> Tail(worker.ways)]
  /\ UNCHANGED <<rest, pub, faults>>
\* markDelivered deletes the row.
Deleted == worker.at = "delivered" /\ Records("gone", Retrying.attempts)
DeleteRetry ==
  /\ Deleted /\ worker' = AsleepWorker
  /\ UNCHANGED <<tracked, outbox, wire, pub, throws, faults>>
\* recordFailureAndMaybeExhaust.
Missed ==
  /\ worker.at = "sending" /\ worker.ways = <<>>
  /\ IF Retrying.attempts + 1 >= RetryMax THEN Records("exhausted", Retrying.attempts)
                                         ELSE Records("pending", Retrying.attempts + 1)
RecordRetry ==
  /\ Missed /\ worker' = AsleepWorker
  /\ UNCHANGED <<tracked, outbox, wire, pub, throws, faults>>
\* Nothing catches a throw here: the cycle is over, and the row as it was unless the statement that
\* failed had taken effect.
WorkerThrows ==
  /\ worker.at # "idle" /\ Fault /\ worker' = AsleepWorker
  /\ Deleted \/ Missed \/ UNCHANGED retries
  /\ UNCHANGED <<tracked, outbox, throws, wire, pub>>

\* The process dies and starts again.
Crash ==
  /\ Fault /\ pub' = Asleep /\ worker' = AsleepWorker
  /\ UNCHANGED <<tracked, rest, wire>>

------------------------------------------------------------------------------
Publisher ==
  \/ Poll \/ Resolve \/ ResolveThrows
  \/ PrimaryDelivers \/ (\E u \in BOOLEAN : PrimaryFails(u))
  \/ FallbackDelivers \/ FallbackFails
  \/ MarkPublished \/ IncrementAttempts \/ CreateRetry \/ MarkFailed
  \/ StatementFails \/ RecordFailure \/ RecordFails
RetryWorker ==
  \/ \E i \in DOMAIN retries : TakeDue(i)
  \/ RetryDelivers \/ RetryFails \/ DeleteRetry \/ RecordRetry \/ WorkerThrows
Next ==
  \/ Enqueue
  \/ Publisher \/ RetryWorker \/ Crash
  \/ \E e \in Entry : ConsumeMessage(e) \/ EndCall(e)

Spec == DispatchInit /\ [][Next]_vars

\* Both pollers run on interval timers, every await ends, and tracking consumes its topic.
FairSpec ==
  /\ Spec
  /\ WF_vars(Publisher) /\ WF_vars(RetryWorker)
  /\ \A e \in Entry : WF_vars(ConsumeMessage(e))
=============================================================================
