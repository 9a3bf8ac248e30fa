---------------------------- MODULE RewardTracking ----------------------------
(***************************************************************************)
(* reward-tracking-service. Every channel hands an announced reward to     *)
(* applyRewardTrackingEvent, one database transaction of four writes that  *)
(* the unique index on inbound_event_log makes idempotent; the transactions*)
(* of the gRPC and REST handlers and of the Kafka consumer interleave. A   *)
(* transaction's writes are staged here and take effect when it commits;   *)
(* an uncommitted key or row blocks whoever writes the same one. The wallet*)
(* view, customer_reward_balance, is filled by the requests that read it.  *)
(***************************************************************************)
EXTENDS TrackedRewards, Sequences

CONSTANTS
  Handler,      \* the gRPC and REST calls handled at once
  Consumer,     \* the Kafka consumer of the partition
  Reader,       \* the GET expiring requests of one customer served at once
  Typed,        \* the grains whose reward_kind, unit_type and unit_code are all given
  Expiring,     \* the entries with an expires_at
  NoEntry,
  Malformed,    \* the entries whose message no channel's validation accepts
  MaxMessages,  \* bound: messages published to the topic
  MaxFaults     \* bound: failed statements, lost connections and crashes

ASSUME TrackingAssumption ==
  /\ Consumer \notin Handler /\ NoEntry \notin Entry
  /\ Typed \subseteq Grain /\ Expiring \subseteq Entry /\ Malformed \subseteq Entry
  /\ MaxMessages \in Nat /\ MaxFaults \in Nat

VARIABLES
  log,        \* the entries with an inbound_event_log row
  rows,       \* [Grain -> Nat]: customer_reward_ledger rows
  tx,         \* [Worker -> Tx]: the event each is handling
  topic,      \* reward.redemption.completed.v1, the partition's messages
  committed,  \* the consumer group's committed offset
  dlq,        \* the entries published to the dead-letter topic
  balance,    \* [Entry -> Nat]: customer_reward_balance rows of the fact
  reading,    \* [Reader -> request]
  answered,   \* history: the entries a caller was told are applied or duplicate
  faults

inbox == <<topic, committed, dlq>>
wallet == <<balance, reading>>
vars == <<tracked, log, rows, tx, inbox, wallet, answered, faults>>

Worker == Handler \cup {Consumer}
Stage == {"idle", "begin", "logged", "ledger", "shard", "duplicate", "dead", "answer"}
Tx == [at : Stage, entry : Entry \cup {NoEntry}, total : Nat, count : Nat]
Working(at, e) == [at |-> at, entry |-> e, total |-> 0, count |-> 0]
Idle == Working("idle", NoEntry)
Handling(w, at) == tx[w].at = at
Goes(w, to) == tx' = [tx EXCEPT ![w] = to]
MovesTo(w, at) == Goes(w, Working(at, tx[w].entry))
Request == [at : {"idle", "filling", "reading"}, missing : SUBSET Entry, due : SUBSET Entry]
NoRequest == [at |-> "idle", missing |-> {}, due |-> {}]

TrackingInit ==
  /\ Untracked
  /\ log = {} /\ rows = [g \in Grain |-> 0]
  /\ tx = [w \in Worker |-> Idle]
  /\ topic = <<>> /\ committed = 0 /\ dlq = {}
  /\ balance = [e \in Entry |-> 0]
  /\ reading = [r \in Reader |-> NoRequest]
  /\ answered = {} /\ faults = 0

\* reward-redemption-service publishes an entry, again after an answer it did not get.
Publish(e) ==
  /\ Len(topic) < MaxMessages
  /\ topic' = Append(topic, e)
  /\ UNCHANGED <<tracked, log, rows, tx, committed, dlq, wallet, answered, faults>>

\* A gRPC or REST call. A malformed body is refused before anything is written.
Receive(h, e) ==
  /\ Handling(h, "idle") /\ e \notin Malformed
  /\ Goes(h, Working("begin", e))
  /\ UNCHANGED <<tracked, log, rows, inbox, wallet, answered, faults>>

\* eachMessage: the next message after the committed offset; one that fails its three validations
\* goes to the dead-letter topic.
Consume ==
  /\ Handling(Consumer, "idle") /\ committed < Len(topic)
  /\ LET e == topic[committed + 1]
     IN Goes(Consumer, Working(IF e \in Malformed THEN "dead" ELSE "begin", e))
  /\ UNCHANGED <<tracked, log, rows, inbox, wallet, answered, faults>>

BuryMessage ==
  /\ Handling(Consumer, "dead")
  /\ dlq' = dlq \cup {tx[Consumer].entry}
  /\ MovesTo(Consumer, "answer")
  /\ UNCHANGED <<tracked, log, rows, topic, committed, wallet, answered, faults>>

\* The others with an open transaction at one of the stages.
Others(w, stages) == {k \in Worker \ {w} : tx[k].at \in stages}

\* insertIfNew: ON CONFLICT DO NOTHING waits for the transaction that inserted the same key.
LogFree(w) ==
  \A k \in Others(w, {"logged", "ledger", "shard"}) : tx[k].entry # tx[w].entry
\* Mutant: no conflict clause.
InsertLogAlways(w) ==
  /\ Handling(w, "begin") /\ LogFree(w)
  /\ MovesTo(w, "logged")
  /\ UNCHANGED <<tracked, log, rows, inbox, wallet, answered, faults>>
InsertLog(w) ==
  /\ Handling(w, "begin") /\ LogFree(w)
  /\ MovesTo(w, IF tx[w].entry \in log THEN "duplicate" ELSE "logged")
  /\ UNCHANGED <<tracked, log, rows, inbox, wallet, answered, faults>>

\* The fact, which no one else writes, and the ledger upsert: DO UPDATE waits for the row and adds
\* to what was committed; a NULL in the key conflicts with nothing and waits for no one.
LedgerFree(w) ==
  LET g == grainOf[tx[w].entry]
  IN g \in Typed => \A k \in Others(w, {"ledger", "shard"}) : grainOf[tx[k].entry] # g
UpsertLedger(w) ==
  /\ Handling(w, "logged") /\ LedgerFree(w)
  /\ LET e == tx[w].entry
     IN Goes(w, [at |-> "ledger", entry |-> e, total |-> ledger[grainOf[e]], count |-> 0])
  /\ UNCHANGED <<tracked, log, rows, inbox, wallet, answered, faults>>

\* The shard upsert: NULLs are written as a sentinel, so this row always conflicts.
\* Mutant: the shard is read and written back instead of added to.
ShardNeverWaits(w) == TRUE
ShardFree(w) == \A k \in Others(w, {"shard"}) : shardOf[tx[k].entry] # shardOf[tx[w].entry]
UpsertShard(w) ==
  /\ Handling(w, "ledger") /\ ShardFree(w)
  /\ LET e == tx[w].entry
     IN Goes(w, [at |-> "shard", entry |-> e, total |-> tx[w].total, count |-> counter[shardOf[e]]])
  /\ UNCHANGED <<tracked, log, rows, inbox, wallet, answered, faults>>

\* The rows a committed upsert leaves: one for a typed grain, one more for any other.
RowsAfter(g) == IF g \in Typed THEN 1 ELSE rows[g] + 1
TotalAfter(g, read) == IF g \in Typed THEN read + 1 ELSE ledger[g] + 1

\* markApplied and COMMIT.
Commit(w) ==
  /\ Handling(w, "shard")
  /\ LET e == tx[w].entry
         g == grainOf[e]
     IN /\ log' = log \cup {e} /\ facts' = facts \cup {e}
        /\ ledger' = [ledger EXCEPT ![g] = TotalAfter(g, tx[w].total)]
        /\ rows' = [rows EXCEPT ![g] = RowsAfter(g)]
        /\ counter' = [counter EXCEPT ![shardOf[e]] = tx[w].count + 1]
  /\ MovesTo(w, "answer")
  /\ UNCHANGED <<inbox, wallet, answered, faults>>

\* A duplicate is answered with the fact; not to find it would be an error.
FindFact(w) ==
  /\ Handling(w, "duplicate") /\ tx[w].entry \in facts
  /\ MovesTo(w, "answer")
  /\ UNCHANGED <<tracked, log, rows, inbox, wallet, answered, faults>>

\* The caller is answered.
\* Mutant: the caller is answered while its transaction is still open.
AnswerEarly(h) ==
  /\ h \in Handler /\ tx[h].at \in {"logged", "answer"}
  /\ answered' = answered \cup {tx[h].entry}
  /\ Goes(h, IF Handling(h, "answer") THEN Idle ELSE tx[h])
  /\ UNCHANGED <<tracked, log, rows, inbox, wallet, faults>>
Answer(h) ==
  /\ h \in Handler /\ Handling(h, "answer")
  /\ answered' = answered \cup {tx[h].entry}
  /\ Goes(h, Idle)
  /\ UNCHANGED <<tracked, log, rows, inbox, wallet, faults>>

\* commitOffsets, only after processMessage returned.
CommitOffset ==
  /\ Handling(Consumer, "answer")
  /\ committed' = committed + 1
  /\ Goes(Consumer, Idle)
  /\ UNCHANGED <<tracked, log, rows, topic, dlq, wallet, answered, faults>>

\* A statement fails, the connection or the process is lost: the transaction is rolled back, its
\* caller gets an error or nothing, and the consumer resumes at its committed offset.
\* Mutant: the consumer swallows the error and goes on.
AbortSkips(w) ==
  /\ ~Handling(w, "idle") /\ faults < MaxFaults
  /\ Goes(w, Idle)
  /\ faults' = faults + 1
  /\ committed' = IF w = Consumer THEN committed + 1 ELSE committed
  /\ UNCHANGED <<tracked, log, rows, topic, dlq, wallet, answered>>
Abort(w) ==
  /\ ~Handling(w, "idle") /\ faults < MaxFaults
  /\ Goes(w, Idle)
  /\ faults' = faults + 1
  /\ UNCHANGED <<tracked, log, rows, inbox, wallet, answered>>

\* GET expiring: populateMissing's INSERT ... SELECT ... WHERE NOT EXISTS takes its snapshot,
\* Mutant: the insert is not awaited.
StartFillUnawaited(r) ==
  /\ reading[r].at = "idle"
  /\ reading' = [reading EXCEPT ![r] =
       [at |-> "reading", missing |-> {e \in facts \cap Expiring : balance[e] = 0},
        due |-> answered \cap Expiring]]
  /\ UNCHANGED <<tracked, log, rows, tx, inbox, balance, answered, faults>>
StartFill(r) ==
  /\ reading[r].at = "idle"
  /\ reading' = [reading EXCEPT ![r] =
       [at |-> "filling", missing |-> {e \in facts \cap Expiring : balance[e] = 0},
        due |-> answered \cap Expiring]]
  /\ UNCHANGED <<tracked, log, rows, tx, inbox, balance, answered, faults>>
\* inserts a row for each fact it found missing and commits;
FinishFill(r) ==
  /\ reading[r].at = "filling"
  /\ balance' = [e \in Entry |-> IF e \in reading[r].missing THEN balance[e] + 1 ELSE balance[e]]
  /\ reading' = [reading EXCEPT ![r] =
       [at |-> "reading", missing |-> reading[r].missing, due |-> reading[r].due]]
  /\ UNCHANGED <<tracked, log, rows, tx, inbox, answered, faults>>
\* findExpiring reads the rows and the response is sent.
Respond(r) ==
  /\ reading[r].at = "reading"
  /\ reading' = [reading EXCEPT ![r] = NoRequest]
  /\ UNCHANGED <<tracked, log, rows, tx, inbox, balance, answered, faults>>

Handle(w) ==
  \/ InsertLog(w) \/ UpsertLedger(w) \/ UpsertShard(w) \/ Commit(w) \/ FindFact(w)
Process(h) == Handle(h) \/ Answer(h)
ConsumeStep == Consume \/ BuryMessage \/ Handle(Consumer) \/ CommitOffset
Read(r) == StartFill(r) \/ FinishFill(r) \/ Respond(r)

Next ==
  \/ \E e \in Entry : Publish(e)
  \/ \E h \in Handler, e \in Entry : Receive(h, e)
  \/ \E h \in Handler : Process(h)
  \/ ConsumeStep
  \/ \E w \in Worker : Abort(w)
  \/ \E r \in Reader : Read(r)

Spec == TrackingInit /\ [][Next]_vars

\* A handler runs to its end and the consumer keeps polling. Postgres grants a released row or key.
FairSpec ==
  /\ Spec
  /\ \A h \in Handler : WF_vars(Process(h))
  /\ WF_vars(ConsumeStep)
=============================================================================
