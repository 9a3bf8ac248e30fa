------------------------ MODULE TrackingDispatchProofs ------------------------
(***************************************************************************)
(* Announcing redemptions to tracking, for any channels, limits and faults.*)
(* The rows a cycle has yet to handle are pending and distinct, and so is  *)
(* the one it is handling until a statement about it has failed; whoever   *)
(* takes an announcement out of the outbox or the retry table has seen it  *)
(* handed over or written to the other first.                              *)
(***************************************************************************)
EXTENDS TrackingDispatchProps, TLAPS

USE TrackedAssumption, DispatchAssumption DEF TrackedAssumption, DispatchAssumption

----------------------------------------------------------------------------
\* The wire: what is tracked or on the topic stays one or the other.

WireTyped ==
  /\ facts \subseteq Entry /\ ledger \in [Grain -> Nat] /\ counter \in [Shard -> Nat]
  /\ topic \subseteq Entry /\ late \subseteq Entry
SafeKept == facts \cup topic \subseteq facts' \cup topic'

LEMMA TrackEffect ==
  ASSUME WireTyped, NEW e \in Entry, Track(e)
  PROVE /\ facts' \subseteq Entry /\ ledger' \in [Grain -> Nat] /\ counter' \in [Shard -> Nat]
        /\ facts \subseteq facts' /\ e \in facts'
<1>1. CASE TrackNew(e)
  <2>1. grainOf[e] \in Grain /\ shardOf[e] \in Shard
    OBVIOUS
  <2> QED
    BY <1>1, <2>1 DEF WireTyped, TrackNew
<1>2. CASE e \in facts /\ UNCHANGED tracked
  BY <1>2 DEF WireTyped, tracked
<1> QED
  BY <1>1, <1>2 DEF Track

LEMMA HandedEffect ==
  ASSUME WireTyped, NEW c, NEW e \in Entry, Handed(c, e)
  PROVE WireTyped' /\ SafeKept /\ e \in facts' \cup topic'
<1>1. CASE c = "KAFKA"
  BY <1>1 DEF Handed, WireTyped, SafeKept, tracked
<1>2. CASE c # "KAFKA"
  BY <1>2, TrackEffect DEF Handed, WireTyped, SafeKept, wire
<1> QED
  BY <1>1, <1>2

LEMMA GivenUpEffect ==
  ASSUME WireTyped, NEW c, NEW e \in Entry, GivenUp(c, e)
  PROVE WireTyped' /\ SafeKept
<1>1. CASE UNCHANGED <<tracked, wire>>
  BY <1>1 DEF WireTyped, SafeKept, tracked, wire
<1>2. CASE topic' = topic \cup {e} /\ UNCHANGED <<tracked, late>>
  BY <1>2 DEF WireTyped, SafeKept, tracked
<1>3. CASE late' = late \cup {e} /\ UNCHANGED <<tracked, topic>>
  BY <1>3 DEF WireTyped, SafeKept, tracked
<1> QED
  BY <1>1, <1>2, <1>3 DEF GivenUp

----------------------------------------------------------------------------
\* What the two pollers have in hand.

\* Rows the publisher read in this cycle: pending, and each once.
PendingRows(rows, S) ==
  /\ \A b \in S : b.row \in DOMAIN rows /\ rows[b.row].status = "PENDING"
  /\ \A b, c \in S : b.row = c.row => b = c
InHand ==
  IF pub.at = "idle" THEN pub.batch = {}
  ELSE /\ PendingRows(outbox, pub.batch)
       /\ pub.current.row \in DOMAIN outbox
       /\ \A b \in pub.batch : b.row # pub.current.row
       /\ pub.at # "record" => outbox[pub.current.row].status = "PENDING"
WorkerRow == worker.at # "idle" => worker.row \in DOMAIN retries
BaseInv == TypeOK /\ InHand /\ WorkerRow

LEMMA TypesOfWire == TypeOK => WireTyped
BY DEF TypeOK, WireTyped

LEMMA SendingIsKnown ==
  ASSUME BaseInv, pub.at # "idle"
  PROVE /\ pub.current.row \in DOMAIN outbox /\ outbox[pub.current.row] \in Row
        /\ Sending \in Entry
        /\ pub.at # "record" => outbox[pub.current.row].status = "PENDING"
        /\ outbox[pub.current.row].status \in {"PENDING", "PUBLISHED", "FAILED", "POISONED"}
<1>1. /\ pub.current.row \in DOMAIN outbox
      /\ pub.at # "record" => outbox[pub.current.row].status = "PENDING"
  BY DEF BaseInv, InHand
<1>2. outbox \in Seq(Row)
  BY DEF BaseInv, TypeOK
<1>3. outbox[pub.current.row] \in Row
  BY <1>1, <1>2
<1> QED
  BY <1>1, <1>3 DEF Sending, Current, Row

LEMMA RetryingIsKnown ==
  ASSUME BaseInv, worker.at # "idle"
  PROVE worker.row \in DOMAIN retries /\ Retrying \in RetryRow /\ Retrying.entry \in Entry
<1>1. worker.row \in DOMAIN retries /\ retries \in Seq(RetryRow)
  BY DEF BaseInv, TypeOK, WorkerRow
<1>2. Retrying \in RetryRow
  BY <1>1 DEF Retrying
<1> QED
  BY <1>1, <1>2 DEF RetryRow

LEMMA WireStep ==
  ASSUME BaseInv, [Next]_vars
  PROVE WireTyped' /\ SafeKept
<1>1. WireTyped
  BY TypesOfWire DEF BaseInv
<1>2. ASSUME UNCHANGED <<tracked, wire>> PROVE WireTyped' /\ SafeKept
  BY <1>1, <1>2 DEF WireTyped, SafeKept, tracked, wire
<1>3. ASSUME PrimaryDelivers \/ FallbackDelivers PROVE WireTyped' /\ SafeKept
  BY <1>1, <1>3, SendingIsKnown, HandedEffect DEF PrimaryDelivers, FallbackDelivers
<1>4. ASSUME NEW u \in BOOLEAN, PrimaryFails(u) PROVE WireTyped' /\ SafeKept
  BY <1>1, <1>4, SendingIsKnown, GivenUpEffect DEF PrimaryFails
<1>5. ASSUME FallbackFails PROVE WireTyped' /\ SafeKept
  BY <1>1, <1>2, <1>5, SendingIsKnown, GivenUpEffect DEF FallbackFails
<1>6. ASSUME RetryDelivers PROVE WireTyped' /\ SafeKept
  BY <1>1, <1>6, RetryingIsKnown, HandedEffect DEF RetryDelivers
<1>7. ASSUME RetryFails PROVE WireTyped' /\ SafeKept
  BY <1>1, <1>7, RetryingIsKnown, GivenUpEffect DEF RetryFails
<1>8. ASSUME NEW e \in Entry, ConsumeMessage(e) PROVE WireTyped' /\ SafeKept
  BY <1>1, <1>8, TrackEffect DEF ConsumeMessage, WireTyped, SafeKept
<1>9. ASSUME NEW e \in Entry, EndCall(e) PROVE WireTyped' /\ SafeKept
  <2>1. CASE Track(e)
    BY <1>1, <1>9, <2>1, TrackEffect DEF EndCall, WireTyped, SafeKept
  <2>2. CASE UNCHANGED tracked
    BY <1>1, <1>9, <2>2 DEF EndCall, WireTyped, SafeKept, tracked
  <2> QED
    BY <1>9, <2>1, <2>2 DEF EndCall
<1>10. ASSUME Poll \/ Resolve \/ ResolveThrows \/ MarkPublished \/ IncrementAttempts \/ CreateRetry
              \/ MarkFailed \/ StatementFails \/ RecordFailure \/ RecordFails
       PROVE UNCHANGED <<tracked, wire>>
  BY <1>10 DEF Poll, Resolve, ResolveThrows, MarkPublished, IncrementAttempts, CreateRetry,
    MarkFailed, StatementFails, RecordFailure, RecordFails
<1>11. ASSUME NEW i \in DOMAIN retries, TakeDue(i) PROVE UNCHANGED <<tracked, wire>>
  BY <1>11 DEF TakeDue
<1>12. ASSUME DeleteRetry \/ RecordRetry \/ WorkerThrows \/ Crash \/ Enqueue
       PROVE UNCHANGED <<tracked, wire>>
  BY <1>12 DEF DeleteRetry, RecordRetry, WorkerThrows, Crash, Enqueue
<1>13. ASSUME UNCHANGED vars PROVE UNCHANGED <<tracked, wire>>
  BY <1>13 DEF vars
<1>14. Publisher => WireTyped' /\ SafeKept
  BY <1>2, <1>3, <1>4, <1>5, <1>10 DEF Publisher
<1>15. RetryWorker => WireTyped' /\ SafeKept
  BY <1>2, <1>6, <1>7, <1>11, <1>12 DEF RetryWorker
<1>16. Next => WireTyped' /\ SafeKept
  BY <1>2, <1>8, <1>9, <1>12, <1>14, <1>15 DEF Next
<1> QED
  BY <1>2, <1>13, <1>16

----------------------------------------------------------------------------
\* The publisher's steps, by what they do to the outbox and to the rows in hand.

\* A row goes on, with nothing written to it; it ends with a status, and the next one begins or
\* the cycle is over; or the statement that failed has given it that status.
GoesOn == /\ pub.at \notin {"idle", "record"} /\ pub' \in Pub /\ pub'.at # "idle"
          /\ pub'.current = pub.current /\ pub'.batch = pub.batch
          /\ outbox' = outbox
RowEnds(status) ==
  pub.at # "idle" /\ Counts(status) /\ (NextRow \/ pub' = Asleep)
Slips(status) ==
  pub.at \notin {"idle", "record"} /\ Counts(status) /\ Moves("record")
PubStays == pub' = pub /\ outbox' = outbox
PubSleeps == pub' = Asleep /\ outbox' = outbox
PubPolls == pub.at = "idle" /\ Begin(Batch) /\ outbox' = outbox

LEMMA TriesEffect ==
  ASSUME BaseInv, NEW at \in PubStage, NEW c \in Channels \cup {NoConfig}, NEW w \in Channel,
         NEW b \in BOOLEAN, Tries(at, c, w, b), pub.at \notin {"idle", "record"}, outbox' = outbox
  PROVE GoesOn /\ pub'.at = at
<1>1. pub \in Pub
  BY DEF BaseInv, TypeOK
<1>2. at # "idle"
  BY DEF PubStage
<1>3. [at |-> at, current |-> pub.current, batch |-> pub.batch, config |-> c, way |-> w, sent |-> b] \in Pub
  BY <1>1 DEF Pub
<1> QED
  BY <1>2, <1>3 DEF Tries, GoesOn

LEMMA MovesEffect ==
  ASSUME BaseInv, NEW at \in PubStage, Moves(at), pub.at \notin {"idle", "record"}, outbox' = outbox
  PROVE GoesOn /\ pub'.at = at
<1>1. pub.config \in Channels \cup {NoConfig} /\ pub.way \in Channel /\ pub.sent \in BOOLEAN
  BY DEF BaseInv, TypeOK, Pub
<1> QED
  BY <1>1, TriesEffect DEF Moves

LEMMA ConfigIsResolved ==
  ASSUME BaseInv
  PROVE /\ \A c \in Channels : c \in Resolved /\ c.primary \in Channel /\ c.fallback \in Channel
        /\ pub.config \in Channels \cup {NoConfig} /\ pub.way \in Channel
        /\ pub.config.fallback \in Channel
<1>1. \A c \in Channels : c \in Resolved /\ c.primary \in Channel /\ c.fallback \in Channel
  BY DEF Resolved
<1>2. NoConfig.fallback \in Channel
  BY DEF NoConfig, Channel
<1>3. pub.config \in Channels \cup {NoConfig} /\ pub.way \in Channel
  BY DEF BaseInv, TypeOK, Pub
<1> QED
  BY <1>1, <1>2, <1>3

\* What a step that goes on leads to: only a channel that answered leads to "published", only a
\* retry row that was written leads to "failed".
OnlyWhen ==
  /\ pub'.at = "published" => Sending \in facts' \cup topic'
  /\ pub'.at = "failed" => retries' = Append(retries, [entry |-> Sending, status |-> "pending", attempts |-> 0])
\* A row is counted as published or failed from there only; a failure that is recorded leaves its
\* status or poisons it.
EndsAs(status) ==
  /\ status \in {"PENDING", "PUBLISHED", "FAILED", "POISONED"}
  /\ pub.at # "record" /\ status = "PUBLISHED" => pub.at = "published"
  /\ pub.at # "record" /\ status = "FAILED" => pub.at = "failed"
  /\ pub.at = "record" => status \in {outbox[pub.current.row].status, "POISONED"}

LEMMA PublisherCases ==
  ASSUME BaseInv, Publisher
  PROVE \/ PubPolls
        \/ GoesOn /\ OnlyWhen
        \/ \E status : EndsAs(status) /\ (RowEnds(status) \/ Slips(status))
        \/ PubSleeps
<1>0. {"record", "escalate", "failed", "published", "increment", "fallback", "primary"} \subseteq PubStage
  BY DEF PubStage
<1>1. CASE Poll
  BY <1>1 DEF Poll, PubPolls, rest
<1>2. CASE Resolve
  <2>1. pub.at \notin {"idle", "record"} /\ outbox' = outbox
    BY <1>2 DEF Resolve, rest
  <2>2. PICK c \in Channels : Tries("primary", c, c.primary, FALSE) \/ Tries("fallback", c, c.fallback, FALSE)
    BY <1>2 DEF Resolve
  <2>3. GoesOn /\ pub'.at \in {"primary", "fallback"}
    BY <1>0, <2>1, <2>2, ConfigIsResolved, TriesEffect
  <2> QED
    BY <2>3 DEF OnlyWhen
<1>3. ASSUME ResolveThrows \/ StatementFails, outbox' = outbox PROVE GoesOn /\ OnlyWhen
  <2>1. pub.at \notin {"idle", "record"} /\ Moves("record")
    BY <1>3 DEF ResolveThrows, StatementFails
  <2>2. GoesOn /\ pub'.at = "record"
    BY <1>0, <1>3, <2>1, MovesEffect
  <2> QED
    BY <2>2 DEF OnlyWhen
<1>13. CASE ResolveThrows
  BY <1>3, <1>13 DEF ResolveThrows, rest
<1>14. CASE StatementFails
  <2>1. /\ Moves("record") /\ pub.at \in {"published", "increment", "escalate", "failed"}
        /\ Written \/ UNCHANGED <<outbox, retries>>
    BY <1>14 DEF StatementFails
  <2>2. CASE outbox' = outbox
    BY <1>3, <1>14, <2>2
  <2>3. CASE pub.at = "published" /\ Counts("PUBLISHED")
    BY <2>1, <2>3 DEF Slips, EndsAs
  <2>4. CASE pub.at = "failed" /\ Counts("FAILED")
    BY <2>1, <2>4 DEF Slips, EndsAs
  <2>5. CASE pub.at = "increment" /\ Counts(outbox[Current.row].status)
    <3>1. outbox[Current.row].status = "PENDING"
      BY <2>5, SendingIsKnown DEF Current
    <3> QED
      BY <2>1, <2>5, <3>1 DEF Slips, EndsAs
  <2> QED
    BY <2>1, <2>2, <2>3, <2>4, <2>5 DEF Written
<1>4. CASE PrimaryDelivers \/ FallbackDelivers
  <2>1. /\ pub.at \notin {"idle", "record"} /\ outbox' = outbox /\ Handed(pub.way, Sending)
        /\ Tries("published", pub.config, pub.way, TRUE)
    BY <1>4 DEF PrimaryDelivers, FallbackDelivers
  <2>2. GoesOn /\ pub'.at = "published"
    BY <1>0, <2>1, ConfigIsResolved, TriesEffect
  <2>3. Sending \in facts' \cup topic'
    BY <2>1, SendingIsKnown, TypesOfWire, HandedEffect DEF BaseInv
  <2> QED
    BY <2>2, <2>3 DEF OnlyWhen
<1>5. ASSUME NEW u \in BOOLEAN, PrimaryFails(u) PROVE GoesOn /\ OnlyWhen
  <2> DEFINE way == IF u /\ pub.way = "KAFKA" THEN "REST" ELSE pub.config.fallback
  <2>1. /\ pub.at \notin {"idle", "record"} /\ outbox' = outbox
        /\ Tries("increment", pub.config, pub.way, TRUE) \/ Tries("fallback", pub.config, way, TRUE)
    BY <1>5 DEF PrimaryFails
  <2>2. way \in Channel
    BY ConfigIsResolved DEF Channel
  <2>3. GoesOn /\ pub'.at \in {"increment", "fallback"}
    BY <1>0, <2>1, <2>2, ConfigIsResolved, TriesEffect
  <2> QED
    BY <2>3 DEF OnlyWhen
<1>6. CASE FallbackFails
  <2>1. pub.at \notin {"idle", "record"} /\ outbox' = outbox /\ Moves("escalate")
    BY <1>6 DEF FallbackFails
  <2>2. GoesOn /\ pub'.at = "escalate"
    BY <1>0, <2>1, MovesEffect
  <2> QED
    BY <2>2 DEF OnlyWhen
<1>7. CASE CreateRetry
  <2>1. pub.at \notin {"idle", "record"} /\ outbox' = outbox /\ Moves("failed")
    BY <1>7 DEF CreateRetry
  <2>2. GoesOn /\ pub'.at = "failed"
    BY <1>0, <2>1, MovesEffect
  <2> QED
    BY <1>7, <2>2 DEF OnlyWhen, CreateRetry, NewRetry
<1>8. CASE MarkPublished
  BY <1>8 DEF MarkPublished, RowEnds, EndsAs
<1>9. CASE MarkFailed
  BY <1>9 DEF MarkFailed, RowEnds, EndsAs
<1>10. CASE IncrementAttempts
  <2>1. pub.at = "increment" /\ Counts(outbox[Current.row].status) /\ NextRow
    BY <1>10 DEF IncrementAttempts
  <2>2. outbox[Current.row].status = "PENDING"
    BY <2>1, SendingIsKnown DEF Current
  <2> QED
    BY <2>1, <2>2 DEF RowEnds, EndsAs
<1>11. CASE RecordFailure \/ (RecordFails /\ Recorded)
  <2>1. /\ pub.at = "record" /\ (NextRow \/ pub' = Asleep)
        /\ Counts(IF Poisons(outbox[Current.row]) THEN "POISONED" ELSE outbox[Current.row].status)
    BY <1>11 DEF RecordFailure, RecordFails, Recorded
  <2>2. outbox[Current.row].status \in {"PENDING", "PUBLISHED", "FAILED", "POISONED"}
    BY <2>1, SendingIsKnown DEF Current
  <2>3. \E status \in {outbox[Current.row].status, "POISONED"} : Counts(status)
    BY <2>1
  <2> QED
    BY <2>1, <2>2, <2>3 DEF RowEnds, EndsAs, Current
<1>12. CASE RecordFails /\ outbox' = outbox
  BY <1>12 DEF RecordFails, PubSleeps
<1>15. RecordFails => Recorded \/ outbox' = outbox
  BY DEF RecordFails
<1> DEFINE Goal == \/ PubPolls
                   \/ GoesOn /\ OnlyWhen
                   \/ \E status : EndsAs(status) /\ (RowEnds(status) \/ Slips(status))
                   \/ PubSleeps
<1>16. ASSUME RecordFails PROVE Goal
  BY <1>11, <1>12, <1>15, <1>16
<1>17. ASSUME \E u \in BOOLEAN : PrimaryFails(u) PROVE Goal
  BY <1>5, <1>17
<1>18. (Poll => Goal) /\ (Resolve => Goal) /\ (ResolveThrows => Goal) /\ (StatementFails => Goal)
  BY <1>1, <1>2, <1>13, <1>14
<1>19. (PrimaryDelivers => Goal) /\ (FallbackDelivers => Goal) /\ (FallbackFails => Goal)
  BY <1>4, <1>6
<1>20. /\ (CreateRetry => Goal) /\ (MarkPublished => Goal) /\ (MarkFailed => Goal)
       /\ (IncrementAttempts => Goal) /\ (RecordFailure => Goal)
  BY <1>7, <1>8, <1>9, <1>10, <1>11
<1> HIDE DEF Goal
<1>21. Goal
  BY <1>16, <1>17, <1>18, <1>19, <1>20 DEF Publisher
<1> QED
  BY <1>21 DEF Goal

LEMMA BeginEffect ==
  ASSUME NEW S \in SUBSET Fetched, Begin(S), PendingRows(outbox', S)
  PROVE pub' \in Pub /\ pub'.at \in {"idle", "row"} /\ InHand'
<1>1. CASE S = {} /\ pub' = Asleep
  <2>1. Asleep \in Pub
    BY DEF Asleep, Pub, Fetched, PubStage, Channel
  <2> QED
    BY <1>1, <2>1 DEF Asleep, InHand
<1>2. ASSUME NEW b \in S,
        pub' = [at |-> "row", current |-> b, batch |-> S \ {b},
                config |-> NoConfig, way |-> "KAFKA", sent |-> FALSE]
      PROVE pub' \in Pub /\ pub'.at \in {"idle", "row"} /\ InHand'
  <2>1. pub' \in Pub
    BY <1>2 DEF Pub, PubStage, Channel
  <2>2. pub'.at = "row" /\ pub'.current = b /\ pub'.batch = S \ {b}
    BY <1>2
  <2>3. InHand'
    BY <1>2, <2>2 DEF InHand, PendingRows
  <2> QED
    BY <2>1, <2>2, <2>3
<1> QED
  BY <1>1, <1>2 DEF Begin

LEMMA BatchIsPending ==
  ASSUME BaseInv
  PROVE Batch \in SUBSET Fetched /\ PendingRows(outbox, Batch)
<1>1. outbox \in Seq(Row)
  BY DEF BaseInv, TypeOK
<1>2. ASSUME NEW i \in DOMAIN outbox PROVE i \in Nat /\ outbox[i].attempts \in Nat
  <2>1. i \in Nat /\ outbox[i] \in Row
    BY <1>1
  <2> QED
    BY <2>1 DEF Row
<1>3. \A b \in Batch : \E i \in Pending : b = [row |-> i, attempts |-> outbox[i].attempts]
  BY DEF Batch
<1>4. \A i \in Pending : i \in DOMAIN outbox /\ outbox[i].status = "PENDING"
  BY DEF Pending
<1> QED
  BY <1>2, <1>3, <1>4 DEF PendingRows, Fetched

LEMMA CountsEffect ==
  ASSUME BaseInv, pub.at # "idle",
         NEW status \in {"PENDING", "PUBLISHED", "FAILED", "POISONED"}, Counts(status)
  PROVE /\ outbox' \in Seq(Row) /\ DOMAIN outbox' = DOMAIN outbox
        /\ outbox'[pub.current.row].entry = Sending /\ outbox'[pub.current.row].status = status
        /\ \A i \in DOMAIN outbox : i # pub.current.row => outbox'[i] = outbox[i]
        /\ PendingRows(outbox', pub.batch) /\ pub.batch \in SUBSET Fetched
<1> DEFINE r == pub.current.row
<1>1. r \in DOMAIN outbox /\ outbox[r] \in Row /\ Sending \in Entry /\ outbox \in Seq(Row) /\ pub \in Pub
  BY SendingIsKnown DEF BaseInv, TypeOK
<1>2. outbox' = [outbox EXCEPT ![r] = [entry |-> Sending, status |-> status, attempts |-> outbox[r].attempts + 1]]
  BY DEF Counts, Current
<1>3. [entry |-> Sending, status |-> status, attempts |-> outbox[r].attempts + 1] \in Row
  BY <1>1 DEF Row
<1>4. outbox' \in Seq(Row) /\ DOMAIN outbox' = DOMAIN outbox
  BY <1>1, <1>2, <1>3
<1>5. /\ outbox'[r].entry = Sending /\ outbox'[r].status = status
      /\ \A i \in DOMAIN outbox : i # r => outbox'[i] = outbox[i]
  BY <1>1, <1>2
<1>6. PendingRows(outbox, pub.batch) /\ \A b \in pub.batch : b.row # r
  BY DEF BaseInv, InHand
<1>7. PendingRows(outbox', pub.batch)
  BY <1>4, <1>5, <1>6 DEF PendingRows
<1>8. pub.batch \in SUBSET Fetched
  BY <1>1 DEF Pub
<1> QED
  BY <1>4, <1>5, <1>7, <1>8

LEMMA AsleepEffect == ASSUME pub' = Asleep PROVE pub' \in Pub /\ pub'.at = "idle" /\ InHand'
BY DEF Asleep, Pub, Fetched, PubStage, Channel, InHand

LEMMA RowEndsEffect ==
  ASSUME BaseInv, NEW status \in {"PENDING", "PUBLISHED", "FAILED", "POISONED"}, RowEnds(status)
  PROVE pub' \in Pub /\ pub'.at \in {"idle", "row"} /\ InHand'
<1>1. pub.at # "idle" /\ Counts(status)
  BY DEF RowEnds
<1>2. PendingRows(outbox', pub.batch) /\ pub.batch \in SUBSET Fetched
  BY <1>1, CountsEffect
<1>3. CASE Begin(pub.batch)
  BY <1>2, <1>3, BeginEffect
<1>4. CASE pub' = Asleep
  BY <1>4, AsleepEffect
<1> QED
  BY <1>3, <1>4 DEF RowEnds, NextRow

LEMMA SlipsEffect ==
  ASSUME BaseInv, NEW status \in {"PENDING", "PUBLISHED", "FAILED", "POISONED"}, Slips(status)
  PROVE pub' \in Pub /\ pub'.at = "record" /\ pub'.current = pub.current /\ InHand'
<1>1. pub.at \notin {"idle", "record"} /\ Counts(status) /\ pub \in Pub
  BY DEF Slips, BaseInv, TypeOK
<1>2. PendingRows(outbox', pub.batch) /\ DOMAIN outbox' = DOMAIN outbox
  BY <1>1, CountsEffect
<1>3. /\ pub'.at = "record" /\ pub'.current = pub.current /\ pub'.batch = pub.batch
      /\ pub' = [at |-> "record", current |-> pub.current, batch |-> pub.batch,
                 config |-> pub.config, way |-> pub.way, sent |-> pub.sent]
  BY DEF Slips, Moves, Tries
<1>4. pub' \in Pub
  BY <1>1, <1>3 DEF Pub, PubStage
<1>5. pub.current.row \in DOMAIN outbox /\ \A b \in pub.batch : b.row # pub.current.row
  BY <1>1 DEF BaseInv, InHand
<1> QED
  BY <1>2, <1>3, <1>4, <1>5 DEF InHand

\* The outbox grows, or the row in hand ends, or it is as it was.
LEMMA OutboxCases ==
  ASSUME BaseInv, [Next]_vars
  PROVE \/ Enqueue
        \/ PubStays \/ PubSleeps \/ PubPolls
        \/ GoesOn /\ OnlyWhen
        \/ \E status : EndsAs(status) /\ (RowEnds(status) \/ Slips(status))
<1>1. ASSUME RetryWorker PROVE PubStays
  BY <1>1 DEF RetryWorker, TakeDue, RetryDelivers, RetryFails, DeleteRetry, RecordRetry, WorkerThrows,
    PubStays, rest
<1>2. ASSUME Crash PROVE PubSleeps
  BY <1>2 DEF Crash, PubSleeps, rest
<1>3. ASSUME NEW e \in Entry, ConsumeMessage(e) \/ EndCall(e) PROVE PubStays
  BY <1>3 DEF ConsumeMessage, EndCall, PubStays, rest
<1>4. ASSUME UNCHANGED vars PROVE PubStays
  BY <1>4 DEF vars, rest, PubStays
<1>5. ASSUME Next PROVE Enqueue \/ Publisher \/ PubStays \/ PubSleeps
  BY <1>1, <1>2, <1>3, <1>5 DEF Next
<1> QED
  BY <1>4, <1>5, PublisherCases

LEMMA EnqueueEffect ==
  ASSUME BaseInv, Enqueue
  PROVE /\ outbox' \in Seq(Row) /\ pub' = pub /\ worker' = worker /\ retries' = retries
        /\ DOMAIN outbox' = 1..(Len(outbox) + 1) /\ DOMAIN outbox = 1..Len(outbox)
        /\ outbox'[Len(outbox) + 1].status = "PENDING"
        /\ \A i \in DOMAIN outbox : outbox'[i] = outbox[i]
<1>1. outbox \in Seq(Row) /\ Announced[Len(outbox) + 1] \in Entry
  BY DEF BaseInv, TypeOK, Enqueue
<1> DEFINE row == [entry |-> Announced[Len(outbox) + 1], status |-> "PENDING", attempts |-> 0]
<1>2. row \in Row /\ row.status = "PENDING"
  BY <1>1 DEF Row
<1>3. outbox' = Append(outbox, row) /\ pub' = pub /\ worker' = worker /\ retries' = retries
  BY DEF Enqueue
<1> HIDE DEF row
<1> QED
  BY <1>1, <1>2, <1>3

LEMMA OutboxStep ==
  ASSUME BaseInv, [Next]_vars
  PROVE outbox' \in Seq(Row) /\ pub' \in Pub /\ InHand'
<1>1. outbox \in Seq(Row) /\ pub \in Pub /\ InHand
  BY DEF BaseInv, TypeOK
<1>2. CASE Enqueue
  <2>1. PendingRows(outbox, pub.batch) => PendingRows(outbox', pub.batch)
    BY <1>2, EnqueueEffect DEF PendingRows
  <2>2. pub' = pub /\ \A i \in DOMAIN outbox : i \in DOMAIN outbox' /\ outbox'[i] = outbox[i]
    BY <1>2, EnqueueEffect
  <2>3. InHand'
    BY <1>1, <2>1, <2>2 DEF InHand
  <2> QED
    BY <1>1, <1>2, <2>3, EnqueueEffect
<1>3. CASE PubStays
  BY <1>1, <1>3 DEF PubStays, InHand
<1>4. CASE PubSleeps
  BY <1>1, <1>4, AsleepEffect DEF PubSleeps
<1>5. CASE PubPolls
  BY <1>1, <1>5, BatchIsPending, BeginEffect DEF PubPolls
<1>6. CASE GoesOn
  BY <1>1, <1>6 DEF GoesOn, InHand
<1>7. ASSUME NEW status, EndsAs(status), RowEnds(status) \/ Slips(status)
      PROVE outbox' \in Seq(Row) /\ pub' \in Pub /\ InHand'
  <2>1. pub.at # "idle" /\ Counts(status) /\ status \in {"PENDING", "PUBLISHED", "FAILED", "POISONED"}
    BY <1>7 DEF EndsAs, RowEnds, Slips
  <2> QED
    BY <1>1, <1>7, <2>1, CountsEffect, RowEndsEffect, SlipsEffect
<1> QED
  BY <1>2, <1>3, <1>4, <1>5, <1>6, <1>7, OutboxCases

----------------------------------------------------------------------------
\* The retry worker's steps, by what they do to the retry table.

WorkerState == [at : {"idle", "sending", "delivered"}, row : Nat, ways : Seq(Channel)]
RetriesStay == retries' = retries /\ worker' = worker
RetryWritten ==
  /\ retries' = Append(retries, [entry |-> Sending, status |-> "pending", attempts |-> 0])
  /\ pub.at # "idle" /\ worker' = worker
\* It takes or keeps a row; only a channel that answered makes it delivered.
WorkerHolds ==
  /\ retries' = retries /\ worker' \in WorkerState /\ worker'.row \in DOMAIN retries
  /\ worker'.at = "delivered" => retries[worker'.row].entry \in facts' \cup topic'
WorkerSleeps == retries' = retries /\ worker' = AsleepWorker
RetryEnds(status, attempts) ==
  /\ worker.at # "idle" /\ worker' = AsleepWorker /\ Records(status, attempts)
  /\ status = "gone" => worker.at = "delivered"
RetryStatus == {"pending", "exhausted", "gone"}

LEMMA WaysAreChannels == ASSUME NEW c \in Channels PROVE WaysOf(c) \in Seq(Channel)
<1>1. c.primary \in Channel /\ c.fallback \in Channel
  BY DEF Resolved
<1>2. Offered(c, c.primary) \in Seq(Channel) /\ Offered(c, c.fallback) \in Seq(Channel)
  BY <1>1 DEF Offered
<1>3. <<>> \in Seq(Channel)
  OBVIOUS
<1> QED
  BY <1>2, <1>3 DEF WaysOf

LEMMA WorkerCases ==
  ASSUME BaseInv, RetryWorker
  PROVE \/ WorkerHolds \/ WorkerSleeps
        \/ \E status \in RetryStatus, n \in Nat : RetryEnds(status, n)
<1>0. worker \in WorkerState /\ retries \in Seq(RetryRow) /\ (worker.at # "idle" => worker.row \in DOMAIN retries)
  BY DEF BaseInv, TypeOK, WorkerRow, WorkerState
<1>1. ASSUME NEW i \in DOMAIN retries, TakeDue(i) PROVE WorkerHolds
  <2>1. PICK c \in Channels : worker' = [at |-> "sending", row |-> i, ways |-> WaysOf(c)]
    BY <1>1 DEF TakeDue
  <2>2. WaysOf(c) \in Seq(Channel) /\ i \in Nat /\ retries' = retries
    BY <1>0, <1>1, WaysAreChannels DEF TakeDue, rest
  <2> QED
    BY <2>1, <2>2 DEF WorkerHolds, WorkerState
<1>2. CASE RetryDelivers
  <2>1. /\ worker.at # "idle" /\ retries' = retries /\ Handed(Head(worker.ways), Retrying.entry)
        /\ worker' = [at |-> "delivered", row |-> worker.row, ways |-> <<>>]
    BY <1>2 DEF RetryDelivers, rest
  <2>2. Retrying.entry \in facts' \cup topic'
    BY <2>1, RetryingIsKnown, TypesOfWire, HandedEffect DEF BaseInv
  <2>3. <<>> \in Seq(Channel) /\ worker.row \in Nat
    BY <1>0 DEF WorkerState
  <2> QED
    BY <1>0, <2>1, <2>2, <2>3 DEF WorkerHolds, WorkerState, Retrying
<1>3. CASE RetryFails
  <2>1. /\ worker.at # "idle" /\ retries' = retries /\ worker.ways # <<>>
        /\ worker' = [at |-> "sending", row |-> worker.row, ways |-> Tail(worker.ways)]
    BY <1>3 DEF RetryFails, rest
  <2>2. worker.ways \in Seq(Channel) /\ worker.row \in Nat
    BY <1>0 DEF WorkerState
  <2>3. Tail(worker.ways) \in Seq(Channel)
    BY <2>1, <2>2
  <2> QED
    BY <1>0, <2>1, <2>2, <2>3 DEF WorkerHolds, WorkerState
<1>4. CASE DeleteRetry \/ (WorkerThrows /\ Deleted)
  <2>1. worker.at = "delivered" /\ worker' = AsleepWorker /\ Records("gone", Retrying.attempts)
    BY <1>4 DEF DeleteRetry, WorkerThrows, Deleted
  <2>2. Retrying.attempts \in Nat
    BY <2>1, RetryingIsKnown DEF RetryRow
  <2> QED
    BY <2>1, <2>2 DEF RetryEnds, RetryStatus
<1>5. CASE RecordRetry \/ (WorkerThrows /\ Missed)
  <2>1. worker.at # "idle" /\ worker' = AsleepWorker
        /\ \/ Records("exhausted", Retrying.attempts)
           \/ Records("pending", Retrying.attempts + 1)
    BY <1>5 DEF RecordRetry, WorkerThrows, Missed
  <2>2. Retrying.attempts \in Nat /\ Retrying.attempts + 1 \in Nat
    BY <2>1, RetryingIsKnown DEF RetryRow
  <2> QED
    BY <2>1, <2>2 DEF RetryEnds, RetryStatus
<1>6. CASE WorkerThrows /\ UNCHANGED retries
  BY <1>6 DEF WorkerThrows, WorkerSleeps
<1>7. WorkerThrows => Deleted \/ Missed \/ UNCHANGED retries
  BY DEF WorkerThrows
<1> DEFINE Goal == \/ WorkerHolds \/ WorkerSleeps
                   \/ \E status \in RetryStatus, n \in Nat : RetryEnds(status, n)
<1>8. /\ (\E i \in DOMAIN retries : TakeDue(i)) => Goal
      /\ (RetryDelivers => Goal) /\ (RetryFails => Goal)
  BY <1>1, <1>2, <1>3
<1>9. (DeleteRetry => Goal) /\ (RecordRetry => Goal)
  BY <1>4, <1>5
<1>10. ASSUME WorkerThrows PROVE Goal
  BY <1>4, <1>5, <1>6, <1>7, <1>10
<1> HIDE DEF Goal
<1>11. Goal
  BY <1>8, <1>9, <1>10 DEF RetryWorker
<1> QED
  BY <1>11 DEF Goal

LEMMA RetryCases ==
  ASSUME BaseInv, [Next]_vars
  PROVE \/ RetriesStay \/ RetryWritten \/ WorkerHolds \/ WorkerSleeps
        \/ \E status \in RetryStatus, n \in Nat : RetryEnds(status, n)
<1>1. ASSUME Publisher PROVE RetriesStay \/ RetryWritten
  BY <1>1 DEF Publisher, Poll, Resolve, ResolveThrows, PrimaryDelivers, PrimaryFails, FallbackDelivers,
    FallbackFails, MarkPublished, IncrementAttempts, CreateRetry, MarkFailed, StatementFails,
    RecordFailure, RecordFails, Written, NewRetry, RetriesStay, RetryWritten, rest
<1>2. ASSUME Crash PROVE WorkerSleeps
  BY <1>2 DEF Crash, WorkerSleeps, rest
<1>3. ASSUME NEW e \in Entry, ConsumeMessage(e) \/ EndCall(e) PROVE RetriesStay
  BY <1>3 DEF ConsumeMessage, EndCall, RetriesStay, rest
<1>4. ASSUME UNCHANGED vars PROVE RetriesStay
  BY <1>4 DEF vars, rest, RetriesStay
<1>5. ASSUME Enqueue PROVE RetriesStay
  BY <1>5 DEF Enqueue, RetriesStay
<1>6. ASSUME Next PROVE RetriesStay \/ RetryWritten \/ WorkerSleeps \/ RetryWorker
  BY <1>1, <1>2, <1>3, <1>5, <1>6 DEF Next
<1> QED
  BY <1>4, <1>6, WorkerCases

\* A retry row keeps its entry; it leaves the table only from "delivered".
LEMMA RetriesStep ==
  ASSUME BaseInv, [Next]_vars
  PROVE /\ retries' \in Seq(RetryRow) /\ worker' \in WorkerState /\ WorkerRow'
        /\ DOMAIN retries \subseteq DOMAIN retries'
        /\ \A i \in DOMAIN retries :
             /\ retries'[i].entry = retries[i].entry
             /\ \/ retries'[i].status = retries[i].status
                \/ retries'[i].status \in {"pending", "exhausted"}
                \/ worker.at = "delivered" /\ i = worker.row
        /\ \A i \in DOMAIN retries' : i \notin DOMAIN retries => retries'[i].status = "pending"
<1> DEFINE Effect ==
        /\ retries' \in Seq(RetryRow) /\ worker' \in WorkerState /\ WorkerRow'
        /\ DOMAIN retries \subseteq DOMAIN retries'
        /\ \A i \in DOMAIN retries :
             /\ retries'[i].entry = retries[i].entry
             /\ \/ retries'[i].status = retries[i].status
                \/ retries'[i].status \in {"pending", "exhausted"}
                \/ worker.at = "delivered" /\ i = worker.row
        /\ \A i \in DOMAIN retries' : i \notin DOMAIN retries => retries'[i].status = "pending"
<1>0. worker \in WorkerState /\ retries \in Seq(RetryRow) /\ (worker.at # "idle" => worker.row \in DOMAIN retries)
  BY DEF BaseInv, TypeOK, WorkerRow, WorkerState
<1>1. AsleepWorker \in WorkerState /\ AsleepWorker.at = "idle"
  BY DEF AsleepWorker, WorkerState
<1>2. CASE RetriesStay
  BY <1>0, <1>2 DEF RetriesStay, WorkerRow
<1>3. CASE RetryWritten
  <2> DEFINE row == [entry |-> Sending, status |-> "pending", attempts |-> 0]
  <2>1. row \in RetryRow /\ row.status = "pending"
    BY <1>3, SendingIsKnown DEF RetryWritten, RetryRow
  <2>2. retries' = Append(retries, row) /\ worker' = worker
    BY <1>3 DEF RetryWritten
  <2> HIDE DEF row
  <2>3. /\ retries' \in Seq(RetryRow) /\ DOMAIN retries' = 1..(Len(retries) + 1)
        /\ DOMAIN retries = 1..Len(retries) /\ Len(retries) \in Nat
        /\ retries'[Len(retries) + 1] = row
        /\ \A i \in DOMAIN retries : retries'[i] = retries[i]
    BY <1>0, <2>1, <2>2
  <2> QED
    BY <1>0, <2>1, <2>2, <2>3 DEF WorkerRow
<1>4. CASE WorkerHolds
  BY <1>0, <1>4 DEF WorkerHolds, WorkerRow
<1>5. CASE WorkerSleeps
  BY <1>0, <1>1, <1>5 DEF WorkerSleeps, WorkerRow
<1>6. ASSUME NEW status \in RetryStatus, NEW n \in Nat, RetryEnds(status, n) PROVE Effect
  <2> DEFINE row == [entry |-> Retrying.entry, status |-> status, attempts |-> n]
  <2>1. /\ worker.at # "idle" /\ worker.row \in DOMAIN retries /\ worker' = AsleepWorker
        /\ retries' = [retries EXCEPT ![worker.row] = row]
        /\ status = "gone" => worker.at = "delivered"
    BY <1>0, <1>6 DEF RetryEnds, Records
  <2>2. row \in RetryRow /\ row.entry = retries[worker.row].entry /\ row.status = status
    BY <2>1, RetryingIsKnown DEF RetryRow, RetryStatus, Retrying
  <2> HIDE DEF row
  <2>3. /\ retries' \in Seq(RetryRow) /\ DOMAIN retries' = DOMAIN retries
        /\ retries'[worker.row] = row
        /\ \A i \in DOMAIN retries : i # worker.row => retries'[i] = retries[i]
    BY <1>0, <2>1, <2>2
  <2> QED
    BY <1>1, <2>1, <2>2, <2>3 DEF WorkerRow, RetryStatus
<1> QED
  BY <1>2, <1>3, <1>4, <1>5, <1>6, RetryCases

LEMMA BaseStep == BaseInv /\ [Next]_vars => BaseInv'
<1> SUFFICES ASSUME BaseInv, [Next]_vars PROVE BaseInv'
  OBVIOUS
<1>1. throws \in [Entry -> Nat] /\ faults \in 0..MaxFaults
  BY DEF BaseInv, TypeOK
<1>2. faults' \in 0..MaxFaults
  <2>1. faults' = faults \/ (faults < MaxFaults /\ faults' = faults + 1)
    BY DEF Next, vars, Enqueue, Publisher, RetryWorker, Crash, ConsumeMessage, EndCall, Poll, Resolve,
      ResolveThrows, PrimaryDelivers, PrimaryFails, FallbackDelivers, FallbackFails, MarkPublished,
      IncrementAttempts, CreateRetry, MarkFailed, StatementFails, RecordFailure, RecordFails, TakeDue,
      RetryDelivers, RetryFails, DeleteRetry, RecordRetry, WorkerThrows, Fault
  <2> QED
    BY <1>1, <2>1
<1>3. throws' \in [Entry -> Nat]
  <2>1. \/ throws' = throws
        \/ throws' = [throws EXCEPT ![Sending] = 0]
        \/ throws' = [throws EXCEPT ![Sending] = @ + 1]
    BY DEF Next, vars, rest, Enqueue, Publisher, RetryWorker, Crash, ConsumeMessage, EndCall, Poll, Resolve,
      ResolveThrows, PrimaryDelivers, PrimaryFails, FallbackDelivers, FallbackFails, MarkPublished,
      IncrementAttempts, CreateRetry, MarkFailed, StatementFails, RecordFailure, RecordFails, TakeDue,
      RetryDelivers, RetryFails, DeleteRetry, RecordRetry, WorkerThrows, Reached, Recorded
  <2> QED
    BY <1>1, <2>1
<1> QED
  BY <1>2, <1>3, WireStep, OutboxStep, RetriesStep DEF BaseInv, TypeOK, WireTyped, WorkerState

LEMMA BaseInit == DispatchInit => BaseInv
<1> SUFFICES ASSUME DispatchInit PROVE BaseInv
  OBVIOUS
<1>1. Asleep \in Pub /\ Asleep.at = "idle" /\ Asleep.batch = {}
  BY DEF Asleep, Pub, Fetched, PubStage, Channel
<1>2. AsleepWorker \in WorkerState /\ AsleepWorker.at = "idle"
  BY DEF AsleepWorker, WorkerState
<1>3. /\ facts = {} /\ ledger \in [Grain -> Nat] /\ counter \in [Shard -> Nat]
      /\ outbox = <<>> /\ retries = <<>> /\ topic = {} /\ late = {}
      /\ pub = Asleep /\ worker = AsleepWorker /\ throws \in [Entry -> Nat] /\ faults = 0
  BY DEF DispatchInit, Untracked
<1>4. <<>> \in Seq(Row) /\ <<>> \in Seq(RetryRow)
  OBVIOUS
<1> QED
  BY <1>1, <1>2, <1>3, <1>4 DEF BaseInv, TypeOK, InHand, WorkerRow, WorkerState

\* The outbox, the retry table and what the pollers hold stay of their types.
THEOREM TypeCorrect == Spec => []TypeOK
<1>1. BaseInv => TypeOK
  BY DEF BaseInv
<1> QED
  BY <1>1, BaseInit, BaseStep, PTL DEF Spec

----------------------------------------------------------------------------
\* Nothing is forgotten: an announcement is accounted for before its row ends.

Accounted(e) ==
  Safe(e) \/ \E i \in DOMAIN retries : retries[i].entry = e /\ retries[i].status # "gone"
AtPublished == \A e \in Entry : pub.at = "published" /\ Sending = e => Safe(e)
AtFailed == \A e \in Entry : pub.at = "failed" /\ Sending = e => Accounted(e)
AtDelivered == \A e \in Entry : worker.at = "delivered" /\ Retrying.entry = e => Safe(e)
RowsAccounted ==
  \A i \in DOMAIN outbox, e \in Entry :
    outbox[i].entry = e => outbox[i].status \in {"PENDING", "POISONED"} \/ Accounted(e)
GoneIsSafe ==
  \A i \in DOMAIN retries, e \in Entry :
    retries[i].entry = e /\ retries[i].status = "gone" => Safe(e)
KeepInv == BaseInv /\ AtPublished /\ AtFailed /\ AtDelivered /\ RowsAccounted /\ GoneIsSafe

LEMMA SafeStays == ASSUME BaseInv, [Next]_vars, NEW e \in Entry, Safe(e) PROVE Safe(e)'
BY WireStep DEF SafeKept, Safe

LEMMA AccountedStays ==
  ASSUME KeepInv, [Next]_vars, NEW e \in Entry, Accounted(e)
  PROVE Accounted(e)'
<1>0. BaseInv /\ AtDelivered
  BY DEF KeepInv
<1>1. CASE Safe(e)
  BY <1>0, <1>1, SafeStays DEF Accounted
<1>2. ASSUME NEW i \in DOMAIN retries, retries[i].entry = e, retries[i].status # "gone"
      PROVE Accounted(e)'
  <2>1. /\ i \in DOMAIN retries' /\ retries'[i].entry = e
        /\ \/ retries'[i].status # "gone"
           \/ worker.at = "delivered" /\ i = worker.row
    BY <1>0, <1>2, RetriesStep
  <2>2. CASE retries'[i].status # "gone"
    BY <2>1, <2>2 DEF Accounted
  <2>3. CASE worker.at = "delivered" /\ i = worker.row
    <3>1. Safe(e)
      BY <1>0, <1>2, <2>3 DEF AtDelivered, Retrying
    <3> QED
      BY <1>0, <3>1, SafeStays DEF Accounted
  <2> QED
    BY <2>1, <2>2, <2>3
<1> QED
  BY <1>1, <1>2 DEF Accounted

LEMMA DeliveredStep ==
  ASSUME KeepInv, [Next]_vars
  PROVE AtDelivered' /\ GoneIsSafe'
<1>0. BaseInv /\ AtDelivered /\ GoneIsSafe /\ (worker.at # "idle" => worker.row \in DOMAIN retries)
  BY DEF KeepInv, BaseInv, WorkerRow
<1>1. ASSUME NEW i \in DOMAIN retries', NEW e \in Entry,
             retries'[i].entry = e, retries'[i].status = "gone"
      PROVE Safe(e)'
  <2>1. i \in DOMAIN retries
    BY <1>0, <1>1, RetriesStep
  <2>2. /\ retries[i].entry = e
        /\ \/ retries[i].status = "gone"
           \/ worker.at = "delivered" /\ i = worker.row
    BY <1>0, <1>1, <2>1, RetriesStep
  <2>3. Safe(e)
    BY <1>0, <2>1, <2>2 DEF AtDelivered, GoneIsSafe, Retrying
  <2> QED
    BY <1>0, <2>3, SafeStays
<1>2. ASSUME NEW e \in Entry, worker'.at = "delivered", retries'[worker'.row].entry = e
      PROVE Safe(e)'
  <2>1. CASE WorkerHolds
    BY <1>2, <2>1 DEF WorkerHolds, Safe
  <2>2. CASE worker' = worker
    <3>1. worker.at = "delivered" /\ worker.row \in DOMAIN retries
      BY <1>0, <1>2, <2>2
    <3>2. retries[worker.row].entry = e
      BY <1>0, <1>2, <2>2, <3>1, RetriesStep
    <3> QED
      BY <1>0, <3>1, <3>2, SafeStays DEF AtDelivered, Retrying
  <2>3. worker' # AsleepWorker
    BY <1>2 DEF AsleepWorker
  <2> QED
    BY <1>0, <2>1, <2>2, <2>3, RetryCases DEF RetriesStay, RetryWritten, WorkerSleeps, RetryEnds
<1>3. AtDelivered'
  BY <1>2 DEF AtDelivered, Retrying
<1>4. GoneIsSafe'
  BY <1>1 DEF GoneIsSafe
<1> QED
  BY <1>3, <1>4

\* The row in hand keeps its entry for as long as it is in hand.
LEMMA PublisherStep ==
  ASSUME KeepInv, [Next]_vars
  PROVE AtPublished' /\ AtFailed' /\ RowsAccounted'
<1>0. BaseInv /\ outbox \in Seq(Row) /\ AtPublished /\ AtFailed /\ RowsAccounted
  BY DEF KeepInv, BaseInv, TypeOK
<1>1. ASSUME NEW i \in DOMAIN outbox, outbox'[i] = outbox[i], NEW e \in Entry, outbox'[i].entry = e
      PROVE outbox'[i].status \in {"PENDING", "POISONED"} \/ Accounted(e)'
  BY <1>0, <1>1, AccountedStays DEF RowsAccounted
<1>2. ASSUME outbox' = outbox PROVE RowsAccounted'
  BY <1>1, <1>2 DEF RowsAccounted
<1>3. ASSUME pub'.at \in {"idle", "row", "record"} PROVE AtPublished' /\ AtFailed'
  BY <1>3 DEF AtPublished, AtFailed
<1>4. ASSUME pub' = pub, pub.at # "idle" => outbox'[pub.current.row] = outbox[pub.current.row]
      PROVE AtPublished' /\ AtFailed'
  <2>1. ASSUME NEW e \in Entry, pub'.at = "published", Sending' = e PROVE Safe(e)'
    <3>1. pub.at = "published" /\ Sending = e
      BY <1>4, <2>1 DEF Sending, Current
    <3> QED
      BY <1>0, <3>1, SafeStays DEF AtPublished
  <2>2. ASSUME NEW e \in Entry, pub'.at = "failed", Sending' = e PROVE Accounted(e)'
    <3>1. pub.at = "failed" /\ Sending = e
      BY <1>4, <2>2 DEF Sending, Current
    <3> QED
      BY <1>0, <3>1, AccountedStays DEF AtFailed
  <2> QED
    BY <2>1, <2>2 DEF AtPublished, AtFailed
<1>5. CASE Enqueue
  <2>1. /\ pub' = pub /\ DOMAIN outbox' = 1..(Len(outbox) + 1) /\ DOMAIN outbox = 1..Len(outbox)
        /\ outbox'[Len(outbox) + 1].status = "PENDING"
        /\ \A i \in DOMAIN outbox : outbox'[i] = outbox[i]
    BY <1>0, <1>5, EnqueueEffect
  <2>2. AtPublished' /\ AtFailed'
    BY <1>0, <1>4, <2>1, SendingIsKnown
  <2>3. ASSUME NEW i \in DOMAIN outbox', NEW e \in Entry, outbox'[i].entry = e
        PROVE outbox'[i].status \in {"PENDING", "POISONED"} \/ Accounted(e)'
    <3>1. CASE i = Len(outbox) + 1
      BY <2>1, <3>1
    <3>2. CASE i \in DOMAIN outbox
      BY <1>1, <2>1, <2>3, <3>2
    <3>3. i = Len(outbox) + 1 \/ i \in DOMAIN outbox
      <4>1. Len(outbox) \in Nat
        BY <1>0
      <4> QED
        BY <2>1, <2>3, <4>1
    <3> QED
      BY <3>1, <3>2, <3>3
  <2>4. RowsAccounted'
    BY <2>3 DEF RowsAccounted
  <2> QED
    BY <2>2, <2>4
<1>6. CASE PubStays
  BY <1>2, <1>4, <1>6 DEF PubStays
<1>7. CASE PubSleeps
  BY <1>2, <1>3, <1>7 DEF PubSleeps, Asleep
<1>8. CASE PubPolls
  <2>1. pub'.at \in {"idle", "row"}
    BY <1>0, <1>8, BatchIsPending, BeginEffect DEF PubPolls
  <2> QED
    BY <1>2, <1>3, <1>8, <2>1 DEF PubPolls
<1>9. CASE GoesOn /\ OnlyWhen
  <2>1. outbox' = outbox /\ Sending' = Sending
    BY <1>9 DEF GoesOn, Sending, Current
  <2>2. AtPublished'
    BY <1>9, <2>1 DEF OnlyWhen, AtPublished, Safe
  <2>3. ASSUME NEW e \in Entry, pub'.at = "failed", Sending' = e PROVE Accounted(e)'
    <3> DEFINE row == [entry |-> Sending, status |-> "pending", attempts |-> 0]
    <3>1. retries' = Append(retries, row) /\ retries \in Seq(RetryRow)
      BY <1>0, <1>9, <2>3 DEF OnlyWhen, BaseInv, TypeOK
    <3>2. row.entry = e /\ row.status = "pending"
      BY <2>1, <2>3
    <3> HIDE DEF row
    <3>3. Len(retries) + 1 \in DOMAIN retries' /\ retries'[Len(retries) + 1] = row
      BY <3>1
    <3> QED
      BY <3>2, <3>3 DEF Accounted
  <2>4. AtFailed'
    BY <2>3 DEF AtFailed
  <2> QED
    BY <1>2, <2>1, <2>2, <2>4
<1>10. ASSUME NEW status, EndsAs(status), RowEnds(status) \/ Slips(status)
       PROVE AtPublished' /\ AtFailed' /\ RowsAccounted'
  <2>0. /\ pub.at # "idle" /\ Counts(status)
        /\ status \in {"PENDING", "PUBLISHED", "FAILED", "POISONED"}
    BY <1>10 DEF EndsAs, RowEnds, Slips
  <2>1. /\ DOMAIN outbox' = DOMAIN outbox
        /\ outbox'[pub.current.row].entry = Sending /\ outbox'[pub.current.row].status = status
        /\ \A i \in DOMAIN outbox : i # pub.current.row => outbox'[i] = outbox[i]
    BY <1>0, <2>0, CountsEffect
  <2>5. pub'.at \in {"idle", "row", "record"}
    BY <1>0, <1>10, <2>0, RowEndsEffect, SlipsEffect
  <2>2. Sending \in Entry /\ (status \in {"PENDING", "POISONED"} \/ Accounted(Sending))
    <3>1. Sending \in Entry /\ pub.current.row \in DOMAIN outbox
      BY <1>0, <2>0, SendingIsKnown
    <3>2. CASE pub.at = "record"
      <4>1. status = "POISONED" \/ status = outbox[pub.current.row].status
        BY <1>10, <3>2 DEF EndsAs
      <4> QED
        BY <1>0, <3>1, <4>1 DEF RowsAccounted, Sending, Current
    <3>3. CASE pub.at # "record"
      BY <1>0, <1>10, <3>1, <3>3 DEF EndsAs, Accounted, AtPublished, AtFailed
    <3> QED
      BY <3>1, <3>2, <3>3
  <2>3. ASSUME NEW i \in DOMAIN outbox', NEW e \in Entry, outbox'[i].entry = e
        PROVE outbox'[i].status \in {"PENDING", "POISONED"} \/ Accounted(e)'
    <3>1. CASE i = pub.current.row
      <4>1. e = Sending /\ outbox'[i].status = status
        BY <2>1, <2>3, <3>1
      <4> QED
        BY <2>2, <4>1, AccountedStays
    <3>2. CASE i # pub.current.row
      BY <1>1, <2>1, <2>3, <3>2
    <3> QED
      BY <3>1, <3>2
  <2>4. RowsAccounted'
    BY <2>3 DEF RowsAccounted
  <2> QED
    BY <1>3, <2>4, <2>5
<1> QED
  BY <1>0, <1>5, <1>6, <1>7, <1>8, <1>9, <1>10, OutboxCases

LEMMA KeepStep == KeepInv /\ [Next]_vars => KeepInv'
BY BaseStep, DeliveredStep, PublisherStep DEF KeepInv

LEMMA KeepInit == DispatchInit => KeepInv
BY BaseInit DEF KeepInv, AtPublished, AtFailed, AtDelivered, RowsAccounted, GoneIsSafe, DispatchInit,
  Asleep, AsleepWorker

\* No announcement is forgotten, for any limits, channels and number of faults.
THEOREM NothingIsForgotten == Spec => []NothingForgotten
<1>1. ASSUME KeepInv PROVE NothingForgotten
  <2>1. retries \in Seq(RetryRow) /\ outbox \in Seq(Row)
    BY <1>1 DEF KeepInv, BaseInv, TypeOK
  <2>2. ASSUME NEW i \in DOMAIN retries PROVE retries[i].status \in {"pending", "exhausted", "gone"}
    <3>1. retries[i] \in RetryRow
      BY <2>1
    <3> QED
      BY <3>1 DEF RetryRow
  <2>3. ASSUME NEW e \in Entry, Accounted(e)
        PROVE Safe(e) \/ \E s \in {"pending", "exhausted"} : Retries(e, s) # {}
    BY <2>2, <2>3 DEF Accounted, Retries
  <2>4. ASSUME NEW e \in Entry, Retries(e, "gone") # {} PROVE Safe(e)
    BY <1>1, <2>4 DEF KeepInv, GoneIsSafe, Retries
  <2>5. ASSUME NEW i \in DOMAIN outbox PROVE outbox[i].entry \in Entry
    <3>1. outbox[i] \in Row
      BY <2>1
    <3> QED
      BY <3>1 DEF Row
  <2>6. ASSUME NEW i \in DOMAIN outbox
        PROVE outbox[i].status \in {"PENDING", "POISONED"} \/ Accounted(outbox[i].entry)
    BY <1>1, <2>5 DEF KeepInv, RowsAccounted
  <2> QED
    BY <2>3, <2>4, <2>5, <2>6 DEF NothingForgotten
<1> QED
  BY <1>1, KeepInit, KeepStep, PTL DEF Spec

\* A settled outbox row is never taken up again, whatever fails: what the publisher begins is
\* pending, and the one row it may have settled by a failed statement is only counted or poisoned.
THEOREM SettledRowsStay == Spec => SettledStays
<1> DEFINE Kept(i) == outbox'[i].status \in {outbox[i].status, "POISONED"}
<1>1. ASSUME BaseInv, [Next]_vars, NEW i \in DOMAIN outbox, outbox[i].status # "PENDING"
      PROVE Kept(i)
  <2>1. CASE Enqueue
    BY <1>1, <2>1, EnqueueEffect
  <2>2. CASE PubStays \/ PubSleeps \/ PubPolls \/ GoesOn
    BY <2>2 DEF PubStays, PubSleeps, PubPolls, GoesOn
  <2>3. ASSUME NEW status, EndsAs(status), RowEnds(status) \/ Slips(status)
        PROVE Kept(i)
    <3>1. /\ pub.at # "idle" /\ Counts(status)
          /\ status \in {"PENDING", "PUBLISHED", "FAILED", "POISONED"}
      BY <2>3 DEF EndsAs, RowEnds, Slips
    <3>2. CASE i = pub.current.row
      <4>1. pub.at = "record"
        BY <1>1, <3>1, <3>2, SendingIsKnown
      <4> QED
        BY <1>1, <2>3, <3>1, <3>2, <4>1, CountsEffect DEF EndsAs
    <3>3. CASE i # pub.current.row
      BY <1>1, <3>1, <3>3, CountsEffect
    <3> QED
      BY <3>2, <3>3
  <2> QED
    BY <1>1, <2>1, <2>2, <2>3, OutboxCases
<1>2. ASSUME BaseInv, [Next]_vars, NEW i \in DOMAIN outbox, outbox[i].status # "PENDING"
      PROVE ~(pub'.at = "row" /\ pub'.current.row = i)
  <2>1. Kept(i) /\ InHand'
    BY <1>1, <1>2, OutboxStep
  <2> QED
    BY <1>2, <2>1 DEF InHand
<1> DEFINE Stays == \A i \in DOMAIN outbox :
                      outbox[i].status # "PENDING" =>
                        /\ outbox'[i].status \in {outbox[i].status, "POISONED"}
                        /\ ~(pub'.at = "row" /\ pub'.current.row = i)
<1>3. BaseInv /\ [Next]_vars => Stays
  BY <1>1, <1>2
<1>4. Spec => [][Stays]_vars
  <2> HIDE DEF Stays
  <2> QED
    BY <1>3, BaseInit, BaseStep, PTL DEF Spec
<1> QED
  BY <1>4 DEF SettledStays
=============================================================================
