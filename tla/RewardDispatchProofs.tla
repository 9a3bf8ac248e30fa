------------------------ MODULE RewardDispatchProofs ------------------------
(* What holds of reward delivery for any number of rewards, publishers, retry *)
(* workers, attempts, faults and lost answers: types, marked means delivered, *)
(* the retry table as last resort, and the two promises that only the named   *)
(* mishaps of a reward excuse: it is accepted once, and its tables agree.     *)
EXTENDS RewardDispatchProps, SequenceTheorems, TLAPS

----------------------------------------------------------------------------
\* Types.

LEMMA TypeInit == Init => TypeOK
BY DEF Init, TypeOK, EntryStatus, OutboxRow, PublisherStep, WorkerStep

\* What befalls a reward is added to its history.
LEMMA BefallsType ==
  ASSUME TypeOK, NEW R, NEW what \in Mishap, Befalls(R, what)
  PROVE  mishaps' \in [Reward -> SUBSET Mishap]
BY DEF TypeOK, Befalls

LEMMA RowTypes ==
  ASSUME retries \in Seq(RetryRow)
  PROVE  /\ DOMAIN retries \subseteq Nat
         /\ \A i \in DOMAIN retries : retries[i] \in RetryRow
OBVIOUS

\* Writing one row of the table leaves a table.
LEMMA RowWritten ==
  ASSUME retries \in Seq(RetryRow), NEW i \in DOMAIN retries, NEW row \in RetryRow
  PROVE  [retries EXCEPT ![i] = row] \in Seq(RetryRow)
OBVIOUS

\* So does counting one more attempt on a row.
LEMMA AttemptedType == ASSUME NEW row \in OutboxRow PROVE Attempted(row) \in OutboxRow
BY DEF Attempted, OutboxRow

LEMMA BackedOffType ==
  ASSUME NEW row \in RetryRow
  PROVE  /\ BackedOff(row) \in RetryRow
         /\ BackedOff(row).reward = row.reward /\ BackedOff(row).status = row.status
<1>1. /\ Attempted(row) \in RetryRow
      /\ Attempted(row).reward = row.reward /\ Attempted(row).status = row.status
  BY DEF Attempted, RetryRow
<1> QED BY <1>1 DEF BackedOff, RetryRow

LEMMA PublisherTypes ==
  ASSUME TypeOK, NEW p \in Publisher, NEW x \in batch[p], Publish(p, x)
  PROVE  TypeOK'
<1> USE DEF TypeOK, EntryStatus, OutboxRow, OutboxRead, PublisherStep, GoTo, NextInBatch, workVars
<1>1. x \in OutboxRead
  OBVIOUS
<1>2. CASE Send(p, x)
  <2>1. step' \in [Publisher -> PublisherStep] /\ batch' = batch
    BY <1>2 DEF Send, OnError
  <2>2. delivered' \in [Reward -> Nat]
    BY <1>1, <1>2 DEF Send, Accepted, AnswerLost
  <2>3. mishaps' \in [Reward -> SUBSET Mishap]
    BY <1>2, BefallsType DEF Send, AnswerLost, Mishap
  <2> QED BY <1>2, <2>1, <2>2, <2>3 DEF Send
<1>3. CASE CannotRead(p, x)
  BY <1>3 DEF CannotRead
<1>4. CASE MarkPublished(p, x)
  BY <1>1, <1>4 DEF MarkPublished, SetOutbox
<1>5. CASE MarkDispatched(p, x)
  BY <1>1, <1>5 DEF MarkDispatched
<1>6. CASE IncrementAttempts(p, x)
  <2>1. Attempted(outbox[x.reward]) \in OutboxRow
    BY <1>1, AttemptedType
  <2> QED BY <1>1, <1>6, <2>1 DEF IncrementAttempts
<1>7. CASE RecordFailure(p, x)
  BY <1>7 DEF RecordFailure
<1>8. CASE MarkFailed(p, x)
  BY <1>1, <1>8 DEF MarkFailed, SetOutbox
<1>9. CASE MarkDispatchFailed(p, x)
  BY <1>1, <1>9 DEF MarkDispatchFailed
<1>10. CASE CreateRetry(p, x)
  <2>1. [reward |-> x.reward, status |-> "pending", attempts |-> 0, due |-> TRUE] \in RetryRow
    BY <1>1 DEF RetryRow
  <2>2. retries' \in Seq(RetryRow)
    BY <1>10, <2>1, AppendProperties DEF CreateRetry
  <2> QED BY <1>10, <2>2 DEF CreateRetry
<1> QED BY <1>2, <1>3, <1>4, <1>5, <1>6, <1>7, <1>8, <1>9, <1>10 DEF Publish

\* The rows a worker has read are rows of the table: none is ever deleted.
RowsExist == \A w \in RetryWorker : \A x \in due[w] : x.row \in DOMAIN retries

LEMMA WorkerTypes ==
  ASSUME TypeOK, RowsExist, NEW w \in RetryWorker, NEW x \in due[w], Retry(w, x)
  PROVE  TypeOK'
<1> USE DEF TypeOK, RetryRow, RetryRead, WorkerStep, WGoTo, NextDue, pubVars
<1>1. x \in RetryRead /\ x.row \in DOMAIN retries /\ RewardOf(x) \in Reward
  BY RowTypes DEF RowsExist, RewardOf
<1>2. ASSUME NEW channel, NEW onError \in WorkerStep, Try(w, x, channel, onError) PROVE TypeOK'
  <2>1. wstep' \in [RetryWorker -> WorkerStep] /\ due' = due
    BY <1>2 DEF Try
  <2>2. delivered' \in [Reward -> Nat]
    BY <1>1, <1>2 DEF Try, Accepted, AnswerLost
  <2>3. mishaps' \in [Reward -> SUBSET Mishap]
    BY <1>2, BefallsType DEF Try, AnswerLost, Mishap
  <2> QED BY <1>2, <2>1, <2>2, <2>3 DEF Try
<1>3. CASE MarkResolved(w, x)
  <2>1. [retries[x.row] EXCEPT !.status = "resolved"] \in RetryRow
    BY <1>1, RowTypes
  <2>2. retries' \in Seq(RetryRow)
    BY <1>1, <1>3, <2>1, RowWritten DEF MarkResolved, SetRetry
  <2> QED BY <1>3, <2>2 DEF MarkResolved
<1>4. CASE RetryDispatched(w, x)
  BY <1>1, <1>4 DEF RetryDispatched, EntryStatus
<1>5. CASE RetryFailed(w, x)
  <2>1. retries[x.row] \in RetryRow
    BY <1>1, RowTypes
  <2>2. CASE SetRetry(x.row, "exhausted")
    <3>1. [retries[x.row] EXCEPT !.status = "exhausted"] \in RetryRow
      BY <2>1
    <3> QED BY <1>1, <1>5, <2>2, <3>1, RowWritten DEF RetryFailed, SetRetry
  <2>3. CASE retries' = [retries EXCEPT ![x.row] = BackedOff(@)]
    <3>1. BackedOff(retries[x.row]) \in RetryRow
      BY <2>1, BackedOffType
    <3>2. retries' \in Seq(RetryRow)
      BY <1>1, <2>3, <3>1, RowWritten
    <3> QED BY <1>5, <3>2 DEF RetryFailed
  <2> QED BY <1>5, <2>2, <2>3 DEF RetryFailed
<1> QED BY <1>2, <1>3, <1>4, <1>5 DEF Retry

LEMMA RowsExistInit == Init => RowsExist
BY DEF Init, RowsExist

LEMMA RowsExistStep == TypeOK /\ RowsExist /\ [Next]_vars => RowsExist'
<1> SUFFICES ASSUME TypeOK, RowsExist, [Next]_vars PROVE RowsExist'
  OBVIOUS
<1> USE DEF RowsExist, TypeOK
<1>1. CASE UNCHANGED <<retries, due>>
  BY <1>1
<1>2. ASSUME NEW p \in Publisher, NEW x \in batch[p], CreateRetry(p, x) PROVE RowsExist'
  BY <1>2 DEF CreateRetry, workVars
<1>3. ASSUME NEW w \in RetryWorker, FetchDue(w) PROVE RowsExist'
  BY <1>3 DEF FetchDue, DueRows
<1>4. ASSUME NEW i \in DOMAIN retries, BackoffElapses(i) PROVE RowsExist'
  BY <1>4 DEF BackoffElapses, workVars
<1>5. ASSUME NEW w \in RetryWorker, NEW x \in due[w], Retry(w, x) PROVE RowsExist'
  BY <1>5 DEF Retry, Try, MarkResolved, RetryDispatched, RetryFailed, SetRetry, WGoTo, NextDue
<1>6. ASSUME NEW w \in RetryWorker, AbandonDue(w) PROVE RowsExist'
  BY <1>6 DEF AbandonDue
<1> QED BY <1>1, <1>2, <1>3, <1>4, <1>5, <1>6
        DEF Next, vars, workVars, Earn, PublisherRuns, FetchPending, Publish, Send, CannotRead,
            MarkPublished, MarkDispatched, IncrementAttempts, RecordFailure, MarkFailed,
            MarkDispatchFailed, MarkingFails, AbandonBatch, WorkerRuns

LEMMA TypeStep == TypeOK /\ RowsExist /\ [Next]_vars => TypeOK'
<1> SUFFICES ASSUME TypeOK, RowsExist, [Next]_vars PROVE TypeOK'
  OBVIOUS
<1>1. ASSUME NEW r \in Reward, Earn(r) PROVE TypeOK'
  BY <1>1 DEF Earn, TypeOK, EntryStatus, OutboxRow, pubVars, workVars
<1>2. ASSUME NEW p \in Publisher, FetchPending(p) PROVE TypeOK'
  <2>1. mishaps' \in [Reward -> SUBSET Mishap]
    BY <1>2, BefallsType DEF FetchPending, Mishap
  <2> QED BY <1>2, <2>1
          DEF FetchPending, TypeOK, OutboxRow, OutboxRead, PublisherStep, PendingBatch, Pending, workVars
<1>3. ASSUME NEW p \in Publisher, NEW x \in batch[p], MarkingFails(p, x) PROVE TypeOK'
  <2>1. mishaps' \in [Reward -> SUBSET Mishap]
    BY <1>3, BefallsType DEF MarkingFails, Mishap
  <2>2. outbox' \in [Reward -> OutboxRow] /\ entryStatus' \in [Reward -> EntryStatus]
    <3>1. x.reward \in Reward /\ outbox[x.reward].attempts \in Nat
      BY DEF TypeOK, OutboxRow, OutboxRead
    <3>2. [status |-> "PUBLISHED", attempts |-> outbox[x.reward].attempts + 1] \in OutboxRow
      BY <3>1 DEF OutboxRow
    <3>3. outbox' \in [Reward -> OutboxRow]
      BY <1>3, <3>1, <3>2 DEF MarkingFails, SetOutbox, TypeOK
    <3>4. entryStatus' \in [Reward -> EntryStatus]
      BY <1>3, <3>1 DEF MarkingFails, TypeOK, EntryStatus
    <3> QED BY <3>3, <3>4
  <2> QED BY <1>3, <2>1, <2>2 DEF MarkingFails, TypeOK, PublisherStep, GoTo, OnError, workVars
<1>4. ASSUME NEW p \in Publisher, AbandonBatch(p) PROVE TypeOK'
  <2>1. mishaps' \in [Reward -> SUBSET Mishap]
    BY <1>4, BefallsType DEF AbandonBatch, Mishap
  <2> QED BY <1>4, <2>1 DEF AbandonBatch, TypeOK, PublisherStep, workVars
<1>5. ASSUME NEW w \in RetryWorker, FetchDue(w) PROVE TypeOK'
  <2>1. \A i \in DueRows : [row |-> i, attempts |-> retries[i].attempts] \in RetryRead
    BY RowTypes DEF DueRows, TypeOK, RetryRow, RetryRead
  <2>2. mishaps' \in [Reward -> SUBSET Mishap]
    BY <1>5, BefallsType DEF FetchDue, Mishap
  <2> QED BY <1>5, <2>1, <2>2 DEF FetchDue, TypeOK, WorkerStep, pubVars
<1>6. ASSUME NEW i \in DOMAIN retries, BackoffElapses(i) PROVE TypeOK'
  <2>1. [retries[i] EXCEPT !.due = TRUE] \in RetryRow
    BY RowTypes DEF TypeOK, RetryRow
  <2>2. retries' \in Seq(RetryRow)
    BY <1>6, <2>1, RowWritten DEF BackoffElapses, TypeOK
  <2> QED BY <1>6, <2>2 DEF BackoffElapses, TypeOK, pubVars, workVars
<1>7. ASSUME NEW w \in RetryWorker, AbandonDue(w) PROVE TypeOK'
  <2>1. mishaps' \in [Reward -> SUBSET Mishap]
    BY <1>7, BefallsType DEF AbandonDue, Mishap
  <2> QED BY <1>7, <2>1 DEF AbandonDue, TypeOK, WorkerStep, pubVars
<1>8. CASE UNCHANGED vars
  BY <1>8 DEF vars, pubVars, workVars, TypeOK
<1> QED BY <1>1, <1>2, <1>3, <1>4, <1>5, <1>6, <1>7, <1>8, PublisherTypes, WorkerTypes
        DEF Next, PublisherRuns, WorkerRuns

TypeInv == TypeOK /\ RowsExist

LEMMA TypeInvariance == Spec => []TypeInv
<1>1. Init => TypeInv
  BY TypeInit, RowsExistInit DEF TypeInv
<1>2. TypeInv /\ [Next]_vars => TypeInv'
  BY TypeStep, RowsExistStep DEF TypeInv
<1> QED BY <1>1, <1>2, PTL DEF Spec

\* Every variable of reward delivery keeps its type.
THEOREM TypeCorrect == Spec => []TypeOK
BY TypeInvariance, PTL DEF TypeInv

----------------------------------------------------------------------------
\* What is marked delivered was delivered. A publisher or worker whose next statement
\* records a success has had one for the row in its hand; nothing takes it back.

PublisherKnows ==
  \A p \in Publisher : step[p] \in {"markPublished", "markDispatched"} =>
    \A x \in batch[p] : IsHead(p, x) => delivered[x.reward] > 0

WorkerKnows ==
  \A w \in RetryWorker : wstep[w] \in {"markResolved", "markDispatched"} =>
    \A x \in due[w] : IsDueHead(w, x) => delivered[RewardOf(x)] > 0

MarkInv == TypeInv /\ MarkedMeansDelivered /\ PublisherKnows /\ WorkerKnows

LEMMA OneHead ==
  ASSUME TypeOK, NEW p \in Publisher, NEW x \in batch[p], NEW y \in batch[p],
         IsHead(p, x), IsHead(p, y)
  PROVE  x.reward = y.reward
BY DispatchAssumption DEF TypeOK, IsHead, OutboxRead

LEMMA OneDueHead ==
  ASSUME TypeOK, NEW w \in RetryWorker, NEW x \in due[w], NEW y \in due[w],
         IsDueHead(w, x), IsDueHead(w, y)
  PROVE  x.row = y.row
BY DEF TypeOK, IsDueHead, RetryRead

LEMMA AcceptedGrows ==
  ASSUME TypeOK, NEW r \in Reward, Accepted(r)
  PROVE  delivered'[r] > 0 /\ \A q \in Reward : delivered[q] > 0 => delivered'[q] > 0
BY DEF TypeOK, Accepted

LEMMA NeverTakenBack ==
  ASSUME TypeInv, [Next]_vars, NEW q \in Reward, delivered[q] > 0
  PROVE  delivered'[q] > 0
<1> USE DEF TypeInv
<1>1. CASE UNCHANGED delivered
  BY <1>1
<1>2. ASSUME NEW p \in Publisher, NEW x \in batch[p], Send(p, x) PROVE delivered'[q] > 0
  <2>1. x.reward \in Reward
    BY DEF TypeOK, OutboxRead
  <2> QED BY <1>2, <2>1, AcceptedGrows DEF Send, AnswerLost
<1>3. ASSUME NEW w \in RetryWorker, NEW x \in due[w], NEW channel, NEW onError,
             Try(w, x, channel, onError)
      PROVE  delivered'[q] > 0
  <2>1. RewardOf(x) \in Reward
    BY RowTypes DEF TypeOK, RowsExist, RewardOf, RetryRow
  <2> QED BY <1>3, <2>1, AcceptedGrows DEF Try, AnswerLost
<1> QED BY <1>1, <1>2, <1>3
        DEF Next, vars, Earn, PublisherRuns, FetchPending, Publish, CannotRead, MarkPublished,
            MarkDispatched, IncrementAttempts, RecordFailure, MarkFailed, MarkDispatchFailed,
            CreateRetry, MarkingFails, AbandonBatch, WorkerRuns, FetchDue, Retry, MarkResolved,
            RetryDispatched, RetryFailed, BackoffElapses, AbandonDue

LEMMA RewardsStay ==
  ASSUME TypeInv, [Next]_vars, NEW i \in DOMAIN retries
  PROVE  i \in DOMAIN retries' /\ retries'[i].reward = retries[i].reward
<1> USE DEF TypeInv
<1>1. CASE UNCHANGED retries
  BY <1>1
<1>2. ASSUME NEW p \in Publisher, NEW x \in batch[p], CreateRetry(p, x)
      PROVE  i \in DOMAIN retries' /\ retries'[i].reward = retries[i].reward
  BY <1>2 DEF CreateRetry, TypeOK
<1>3. ASSUME NEW w \in RetryWorker, NEW x \in due[w], MarkResolved(w, x) \/ RetryFailed(w, x)
      PROVE  i \in DOMAIN retries' /\ retries'[i].reward = retries[i].reward
  <2>1. ASSUME NEW status, SetRetry(x.row, status)
        PROVE  i \in DOMAIN retries' /\ retries'[i].reward = retries[i].reward
    BY <2>1, RowTypes DEF SetRetry, TypeOK, RetryRow
  <2>2. CASE retries' = [retries EXCEPT ![x.row] = BackedOff(@)]
    BY <2>2, RowTypes, BackedOffType DEF TypeOK
  <2> QED BY <1>3, <2>1, <2>2 DEF MarkResolved, RetryFailed
<1>4. ASSUME NEW j \in DOMAIN retries, BackoffElapses(j)
      PROVE  i \in DOMAIN retries' /\ retries'[i].reward = retries[i].reward
  BY <1>4, RowTypes DEF BackoffElapses, TypeOK, RetryRow
<1> QED BY <1>1, <1>2, <1>3, <1>4
        DEF Next, vars, Earn, PublisherRuns, FetchPending, Publish, Send, CannotRead,
            MarkPublished, MarkDispatched, IncrementAttempts, RecordFailure, MarkFailed,
            MarkDispatchFailed, MarkingFails, AbandonBatch, WorkerRuns, FetchDue, Retry, Try,
            RetryDispatched, AbandonDue

Marked(r) == entryStatus[r] = "dispatched" \/ outbox[r].status = "PUBLISHED" \/ Resolved(r)

\* Marks other than the four that record a success are never added.
LEMMA MarksAreEarned ==
  ASSUME MarkInv, [Next]_vars, NEW r \in Reward, Marked(r)', ~Marked(r)
  PROVE  delivered[r] > 0
<1> USE DEF MarkInv, TypeInv
<1>1. ASSUME NEW p \in Publisher, NEW x \in batch[p], MarkPublished(p, x) PROVE delivered[r] > 0
  <2>1. delivered[x.reward] > 0
    BY <1>1 DEF MarkPublished, PublisherKnows
  <2>2. r = x.reward
    BY <1>1 DEF MarkPublished, SetOutbox, Marked, Resolved, RetriesOf, TypeOK
  <2> QED BY <2>1, <2>2
<1>2. ASSUME NEW p \in Publisher, NEW x \in batch[p], MarkDispatched(p, x) PROVE delivered[r] > 0
  <2>1. delivered[x.reward] > 0
    BY <1>2 DEF MarkDispatched, PublisherKnows
  <2>2. r = x.reward
    BY <1>2 DEF MarkDispatched, Marked, Resolved, RetriesOf, TypeOK
  <2> QED BY <2>1, <2>2
<1>3. ASSUME NEW w \in RetryWorker, NEW x \in due[w], MarkResolved(w, x) PROVE delivered[r] > 0
  <2>1. delivered[RewardOf(x)] > 0
    BY <1>3 DEF MarkResolved, WorkerKnows
  <2>2. ASSUME NEW i \in DOMAIN retries, i # x.row PROVE retries'[i] = retries[i]
    BY <1>3, <2>2 DEF MarkResolved, SetRetry, TypeOK
  <2>3. DOMAIN retries' = DOMAIN retries
    BY <1>3 DEF MarkResolved, SetRetry, TypeOK
  <2>4. retries'[x.row].reward = RewardOf(x)
    BY RewardsStay DEF RewardOf, RowsExist
  <2>5. r = RewardOf(x)
    BY <1>3, <2>2, <2>3, <2>4 DEF MarkResolved, Marked, Resolved, RetriesOf
  <2> QED BY <2>1, <2>5
<1>4. ASSUME NEW w \in RetryWorker, NEW x \in due[w], RetryDispatched(w, x) PROVE delivered[r] > 0
  <2>1. delivered[RewardOf(x)] > 0
    BY <1>4 DEF RetryDispatched, WorkerKnows
  <2>2. r = RewardOf(x)
    BY <1>4 DEF RetryDispatched, Marked, Resolved, RetriesOf, TypeOK
  <2> QED BY <2>1, <2>2
<1>5. CASE UNCHANGED <<entryStatus, outbox, retries>>
  BY <1>5 DEF Marked, Resolved, RetriesOf
<1>6. ASSUME NEW q \in Reward, Earn(q) PROVE FALSE
  BY <1>6 DEF Earn, Marked, Resolved, RetriesOf, TypeOK, OutboxRow
<1>7. ASSUME NEW p \in Publisher, NEW x \in batch[p], IncrementAttempts(p, x) PROVE FALSE
  <2>1. \A q \in Reward : outbox'[q].status = outbox[q].status
    BY <1>7 DEF IncrementAttempts, Attempted, TypeOK, OutboxRow
  <2> QED BY <1>7, <2>1 DEF IncrementAttempts, Marked, Resolved, RetriesOf
<1>8. ASSUME NEW p \in Publisher, NEW x \in batch[p], MarkFailed(p, x) PROVE FALSE
  BY <1>8 DEF MarkFailed, SetOutbox, Marked, Resolved, RetriesOf, TypeOK
<1>9. ASSUME NEW p \in Publisher, NEW x \in batch[p], MarkDispatchFailed(p, x) PROVE FALSE
  BY <1>9 DEF MarkDispatchFailed, Marked, Resolved, RetriesOf, TypeOK
<1>10. ASSUME NEW p \in Publisher, NEW x \in batch[p], CreateRetry(p, x) PROVE FALSE
  BY <1>10 DEF CreateRetry, Marked, Resolved, RetriesOf, TypeOK
<1>11. ASSUME NEW w \in RetryWorker, NEW x \in due[w], RetryFailed(w, x) PROVE FALSE
  <2>1. ASSUME NEW i \in DOMAIN retries', retries'[i].status = "resolved"
        PROVE  i \in DOMAIN retries /\ retries[i].status = "resolved"
    <3>1. CASE SetRetry(x.row, "exhausted")
      BY <2>1, <3>1, RowTypes DEF SetRetry, TypeOK, RetryRow
    <3>2. CASE retries' = [retries EXCEPT ![x.row] = BackedOff(@)]
      BY <2>1, <3>2, RowTypes, BackedOffType DEF TypeOK
    <3> QED BY <1>11, <3>1, <3>2 DEF RetryFailed
  <2> QED BY <1>11, <2>1, RewardsStay DEF RetryFailed, Marked, Resolved, RetriesOf
<1>12. ASSUME NEW i \in DOMAIN retries, BackoffElapses(i) PROVE FALSE
  <2>1. ASSUME NEW j \in DOMAIN retries', retries'[j].status = "resolved"
        PROVE  j \in DOMAIN retries /\ retries[j].status = "resolved"
    BY <1>12, <2>1, RowTypes DEF BackoffElapses, TypeOK, RetryRow
  <2> QED BY <1>12, <2>1, RewardsStay DEF BackoffElapses, Marked, Resolved, RetriesOf
<1>13. ASSUME NEW p \in Publisher, NEW x \in batch[p], MarkingFails(p, x) PROVE delivered[r] > 0
  <2>1. delivered[x.reward] > 0
    BY <1>13 DEF MarkingFails, PublisherKnows
  <2>2. r = x.reward
    BY <1>13 DEF MarkingFails, SetOutbox, Marked, Resolved, RetriesOf, TypeOK
  <2> QED BY <2>1, <2>2
<1> QED BY <1>1, <1>2, <1>3, <1>4, <1>5, <1>6, <1>7, <1>8, <1>9, <1>10, <1>11, <1>12, <1>13
        DEF Next, vars, PublisherRuns, FetchPending, Publish, Send, CannotRead, RecordFailure,
            AbandonBatch, WorkerRuns, FetchDue, Retry, Try, AbandonDue

PKnows(p) ==
  step[p] \in {"markPublished", "markDispatched"} =>
    \A x \in batch[p] : IsHead(p, x) => delivered[x.reward] > 0

LEMMA PublisherKnowsStep == MarkInv /\ [Next]_vars => PublisherKnows'
<1> SUFFICES ASSUME MarkInv, [Next]_vars, NEW p \in Publisher PROVE PKnows(p)'
  BY DEF PublisherKnows, PKnows, IsHead
<1> USE DEF MarkInv, TypeInv
<1>1. PKnows(p) /\ \A x \in batch[p] : x.reward \in Reward
  BY DEF PublisherKnows, PKnows, TypeOK, OutboxRead
<1>2. CASE step'[p] = step[p] /\ batch'[p] = batch[p]
  BY <1>1, <1>2, NeverTakenBack DEF PKnows, IsHead
<1>3. CASE step'[p] \notin {"markPublished", "markDispatched"}
  BY <1>3 DEF PKnows
<1>4. ASSUME NEW x \in batch[p], Publish(p, x) PROVE PKnows(p)'
  <2>1. CASE Send(p, x)
    <3>1. batch'[p] = batch[p] /\ step'[p] \in {"markPublished", OnError(x)}
      BY <2>1 DEF Send, GoTo, TypeOK
    <3>2. OnError(x) \notin {"markPublished", "markDispatched"}
      BY DEF OnError
    <3>3. CASE step'[p] = "markPublished"
      <4>1. Accepted(x.reward)
        BY <2>1, <3>2, <3>3 DEF Send, GoTo, TypeOK
      <4>2. delivered'[x.reward] > 0
        BY <1>1, <4>1, AcceptedGrows
      <4>3. \A y \in batch[p] : IsHead(p, y) => y.reward = x.reward
        BY <2>1, OneHead DEF Send
      <4> QED BY <3>1, <4>2, <4>3 DEF PKnows, IsHead
    <3> QED BY <1>3, <3>1, <3>2, <3>3
  <2>2. CASE MarkPublished(p, x)
    <3>1. batch'[p] = batch[p] /\ delivered' = delivered /\ step[p] = "markPublished"
      BY <2>2 DEF MarkPublished, GoTo
    <3> QED BY <1>1, <3>1 DEF PKnows, IsHead
  <2>3. CASE MarkDispatched(p, x) \/ RecordFailure(p, x) \/ CreateRetry(p, x)
    <3>1. step'[p] \in {"idle", "send"}
      BY <2>3 DEF MarkDispatched, RecordFailure, CreateRetry, NextInBatch, TypeOK
    <3> QED BY <1>3, <3>1
  <2>4. CASE IncrementAttempts(p, x) \/ MarkFailed(p, x) \/ MarkDispatchFailed(p, x) \/ CannotRead(p, x)
    <3>1. step'[p] \in {"recordFailure", "markDispatchFailed", "createRetry", "idle"}
      BY <2>4 DEF IncrementAttempts, MarkFailed, MarkDispatchFailed, CannotRead, GoTo, TypeOK
    <3> QED BY <1>3, <3>1
  <2> QED BY <1>4, <2>1, <2>2, <2>3, <2>4 DEF Publish
<1>5. ASSUME NEW q \in Publisher, q # p, NEW x \in batch[q], Publish(q, x) PROVE PKnows(p)'
  <2>1. step'[p] = step[p] /\ batch'[p] = batch[p]
    BY <1>5 DEF Publish, Send, CannotRead, MarkPublished, MarkDispatched, IncrementAttempts,
                RecordFailure, MarkFailed, MarkDispatchFailed, CreateRetry, GoTo, NextInBatch, TypeOK
  <2> QED BY <1>2, <2>1
<1>6. ASSUME NEW q \in Publisher, FetchPending(q) PROVE PKnows(p)'
  BY <1>2, <1>3, <1>6 DEF FetchPending, TypeOK
<1>7. ASSUME NEW q \in Publisher, NEW x \in batch[q], MarkingFails(q, x) PROVE PKnows(p)'
  BY <1>2, <1>3, <1>7 DEF MarkingFails, GoTo, OnError, TypeOK
<1>8. ASSUME NEW q \in Publisher, AbandonBatch(q) PROVE PKnows(p)'
  BY <1>2, <1>3, <1>8 DEF AbandonBatch, TypeOK
<1>9. CASE UNCHANGED pubVars
  BY <1>2, <1>9 DEF pubVars
<1> QED BY <1>4, <1>5, <1>6, <1>7, <1>8, <1>9
        DEF Next, vars, pubVars, Earn, PublisherRuns, WorkerRuns, FetchDue, Retry, Try,
            MarkResolved, RetryDispatched, RetryFailed, BackoffElapses, AbandonDue

WKnows(w) ==
  wstep[w] \in {"markResolved", "markDispatched"} =>
    \A x \in due[w] : IsDueHead(w, x) => delivered[RewardOf(x)] > 0

LEMMA WorkerKnowsStep == MarkInv /\ [Next]_vars => WorkerKnows'
<1> SUFFICES ASSUME MarkInv, [Next]_vars, NEW w \in RetryWorker PROVE WKnows(w)'
  BY DEF WorkerKnows, WKnows, IsDueHead, RewardOf
<1> USE DEF MarkInv, TypeInv
<1>1. WKnows(w) /\ \A x \in due[w] : RewardOf(x) \in Reward /\ RewardOf(x)' = RewardOf(x)
  BY RowTypes, RewardsStay DEF WorkerKnows, WKnows, TypeOK, RetryRow, RowsExist, RewardOf
<1>2. CASE wstep'[w] = wstep[w] /\ due'[w] = due[w]
  BY <1>1, <1>2, NeverTakenBack DEF WKnows, IsDueHead
<1>3. CASE wstep'[w] \notin {"markResolved", "markDispatched"}
  BY <1>3 DEF WKnows
<1>4. ASSUME NEW x \in due[w], Retry(w, x) PROVE WKnows(w)'
  <2>1. ASSUME NEW channel, NEW onError \in {"grpc", "recordFailure"}, Try(w, x, channel, onError)
        PROVE  WKnows(w)'
    <3>1. due'[w] = due[w] /\ wstep'[w] \in {"markResolved", onError}
      BY <2>1 DEF Try, WGoTo, TypeOK
    <3>2. CASE wstep'[w] = "markResolved"
      <4>1. Accepted(RewardOf(x))
        BY <2>1, <3>2 DEF Try, WGoTo, TypeOK
      <4>2. delivered'[RewardOf(x)] > 0
        BY <1>1, <4>1, AcceptedGrows
      <4>3. \A y \in due[w] : IsDueHead(w, y) => RewardOf(y) = RewardOf(x)
        BY <2>1, OneDueHead DEF Try, RewardOf
      <4> QED BY <1>1, <3>1, <4>2, <4>3 DEF WKnows, IsDueHead
    <3> QED BY <1>3, <2>1, <3>1, <3>2
  <2>2. CASE MarkResolved(w, x)
    <3>1. due'[w] = due[w] /\ delivered' = delivered /\ wstep[w] = "markResolved"
      BY <2>2 DEF MarkResolved, WGoTo
    <3> QED BY <1>1, <3>1 DEF WKnows, IsDueHead
  <2>3. CASE RetryDispatched(w, x) \/ RetryFailed(w, x)
    <3>1. wstep'[w] \in {"idle", "kafka"}
      BY <2>3 DEF RetryDispatched, RetryFailed, NextDue, TypeOK
    <3> QED BY <1>3, <3>1
  <2> QED BY <1>4, <2>1, <2>2, <2>3 DEF Retry
<1>5. ASSUME NEW v \in RetryWorker, v # w, NEW x \in due[v], Retry(v, x) PROVE WKnows(w)'
  <2>1. wstep'[w] = wstep[w] /\ due'[w] = due[w]
    BY <1>5 DEF Retry, Try, MarkResolved, RetryDispatched, RetryFailed, WGoTo, NextDue, TypeOK
  <2> QED BY <1>2, <2>1
<1>6. ASSUME NEW v \in RetryWorker, FetchDue(v) PROVE WKnows(w)'
  BY <1>2, <1>3, <1>6 DEF FetchDue, TypeOK
<1>7. ASSUME NEW v \in RetryWorker, AbandonDue(v) PROVE WKnows(w)'
  BY <1>2, <1>3, <1>7 DEF AbandonDue, TypeOK
<1>8. CASE UNCHANGED workVars
  BY <1>2, <1>8 DEF workVars
<1> QED BY <1>4, <1>5, <1>6, <1>7, <1>8
        DEF Next, vars, workVars, Earn, PublisherRuns, FetchPending, Publish, Send, CannotRead,
            MarkPublished, MarkDispatched, IncrementAttempts, RecordFailure, MarkFailed,
            MarkDispatchFailed, CreateRetry, MarkingFails, AbandonBatch, WorkerRuns, BackoffElapses

LEMMA MarkInvInit == Init => MarkInv
BY TypeInit, RowsExistInit
   DEF Init, MarkInv, TypeInv, MarkedMeansDelivered, Resolved, RetriesOf, PublisherKnows, WorkerKnows

LEMMA MarkInvStep == MarkInv /\ [Next]_vars => MarkInv'
<1> SUFFICES ASSUME MarkInv, [Next]_vars PROVE MarkInv'
  OBVIOUS
<1>1. TypeInv'
  BY TypeStep, RowsExistStep DEF MarkInv, TypeInv
<1>2. ASSUME NEW r \in Reward, Marked(r)' PROVE delivered'[r] > 0
  <2>1. CASE Marked(r)
    BY <2>1, NeverTakenBack DEF MarkInv, MarkedMeansDelivered, Marked
  <2>2. CASE ~Marked(r)
    BY <1>2, <2>2, MarksAreEarned, NeverTakenBack DEF MarkInv
  <2> QED BY <2>1, <2>2
<1>3. MarkedMeansDelivered'
  BY <1>2 DEF MarkedMeansDelivered, Marked, Resolved, RetriesOf
<1> QED BY <1>1, <1>3, PublisherKnowsStep, WorkerKnowsStep DEF MarkInv

\* No row claims a delivery that did not happen, for any number of instances and any
\* faults: what each poller still has to record in its hand has been accepted.
THEOREM MarkedIsDelivered == Spec => []MarkedMeansDelivered
<1>1. Init => MarkInv
  BY MarkInvInit
<1>2. MarkInv /\ [Next]_vars => MarkInv'
  BY MarkInvStep
<1>3. MarkInv => MarkedMeansDelivered
  BY DEF MarkInv
<1> QED BY <1>1, <1>2, <1>3, PTL DEF Spec

----------------------------------------------------------------------------
\* Tier 3 is the last resort. What an instance read of a row is at most what the row holds
\* now, because the attempts of a row only grow; so an instance that decides from a stale
\* read errs on the side of trying the primary channel again.

ReadsAreOld ==
  \A p \in Publisher :
    /\ \A x, y \in batch[p] : x.reward = y.reward => x = y
    /\ \A x \in batch[p] : x.attempts <= outbox[x.reward].attempts

PUsedUp(p) ==
  \A x \in batch[p] : IsHead(p, x) =>
    /\ step[p] = "markFailed" => x.attempts >= MaxAttempts
    /\ step[p] \in {"markDispatchFailed", "createRetry"} => outbox[x.reward].attempts > MaxAttempts

TiersUsedUp == \A p \in Publisher : PUsedUp(p)

TierInv == TypeInv /\ RetryOnlyAfterBothTiers /\ ReadsAreOld /\ TiersUsedUp

LEMMA AttemptsGrow ==
  ASSUME TypeInv, [Next]_vars, NEW q \in Reward
  PROVE  /\ outbox[q].attempts \in Nat /\ outbox'[q].attempts \in Nat
         /\ outbox'[q].attempts >= outbox[q].attempts
<1>1. outbox[q].attempts \in Nat /\ outbox'[q].attempts \in Nat
  BY TypeStep DEF TypeInv, TypeOK, OutboxRow
<1> DEFINE Grows == outbox'[q].attempts >= outbox[q].attempts
<1>2. ASSUME UNCHANGED outbox PROVE Grows
  BY <1>1, <1>2
<1>3. ASSUME NEW r \in Reward, Earn(r) PROVE Grows
  <2>1. outbox'[q].attempts = outbox[q].attempts
    BY <1>3 DEF Earn, TypeInv, TypeOK, OutboxRow
  <2> QED BY <1>1, <2>1
<1>4. ASSUME NEW r \in Reward, NEW status, SetOutbox(r, status) PROVE Grows
  <2>1. outbox'[q].attempts = IF q = r THEN outbox[q].attempts + 1 ELSE outbox[q].attempts
    BY <1>4 DEF SetOutbox, TypeInv, TypeOK
  <2> QED BY <1>1, <2>1
<1>5. ASSUME NEW p \in Publisher, NEW x \in batch[p], IncrementAttempts(p, x)
      PROVE  Grows
  <2>1. x.reward \in Reward /\ outbox' = [outbox EXCEPT ![x.reward] = Attempted(outbox[x.reward])]
    BY <1>5 DEF IncrementAttempts, TypeInv, TypeOK, OutboxRead
  <2>2. Attempted(outbox[x.reward]).attempts = outbox[x.reward].attempts + 1
    BY <2>1 DEF Attempted, TypeInv, TypeOK, OutboxRow
  <2> QED BY <1>1, <2>1, <2>2 DEF TypeInv, TypeOK
<1>6. \A p \in Publisher : \A x \in batch[p] : x.reward \in Reward
  BY DEF TypeInv, TypeOK, OutboxRead
<1> HIDE DEF Grows
<1>7. ASSUME NEW p \in Publisher, NEW x \in batch[p], Publish(p, x) PROVE Grows
  BY <1>2, <1>4, <1>5, <1>6, <1>7
     DEF Publish, Send, CannotRead, MarkPublished, MarkDispatched, RecordFailure, MarkFailed,
         MarkDispatchFailed, CreateRetry
<1>9. ASSUME NEW p \in Publisher, NEW x \in batch[p], MarkingFails(p, x) PROVE Grows
  BY <1>2, <1>4, <1>6, <1>9 DEF MarkingFails
<1>8. Grows
  BY <1>2, <1>3, <1>7, <1>9
     DEF Next, vars, PublisherRuns, FetchPending, AbandonBatch, WorkerRuns, FetchDue, Retry, Try, MarkResolved,
         RetryDispatched, RetryFailed, BackoffElapses, AbandonDue
<1> QED BY <1>1, <1>8 DEF Grows

\* What can happen to the batch of one publisher in a step: nothing, the next statement
\* of its own, a fresh read, or the end of its cycle.
LEMMA BatchCases ==
  ASSUME TypeInv, [Next]_vars, NEW p \in Publisher
  PROVE  \/ batch'[p] = batch[p] /\ step'[p] = step[p]
         \/ \E x \in batch[p] : Publish(p, x) \/ MarkingFails(p, x)
         \/ FetchPending(p) /\ outbox' = outbox /\ step'[p] = "send"
            /\ batch'[p] = {[reward |-> r, attempts |-> outbox[r].attempts] : r \in PendingBatch}
         \/ batch'[p] = {} /\ step'[p] = "idle"
<1> USE DEF TypeInv, TypeOK
<1>1. CASE UNCHANGED pubVars
  BY <1>1 DEF pubVars
<1>2. ASSUME NEW q \in Publisher, NEW x \in batch[q], Publish(q, x) \/ MarkingFails(q, x), q # p
      PROVE  batch'[p] = batch[p] /\ step'[p] = step[p]
  BY <1>2 DEF Publish, Send, CannotRead, MarkPublished, MarkDispatched, IncrementAttempts,
              RecordFailure, MarkFailed, MarkDispatchFailed, CreateRetry, MarkingFails, GoTo, NextInBatch
<1>3. ASSUME NEW q \in Publisher, FetchPending(q), q # p
      PROVE  batch'[p] = batch[p] /\ step'[p] = step[p]
  BY <1>3 DEF FetchPending
<1>4. CASE FetchPending(p)
  BY <1>4 DEF FetchPending
<1>5. ASSUME NEW q \in Publisher, AbandonBatch(q)
      PROVE  \/ batch'[p] = batch[p] /\ step'[p] = step[p]
             \/ batch'[p] = {} /\ step'[p] = "idle"
  BY <1>5 DEF AbandonBatch
<1> QED BY <1>1, <1>2, <1>3, <1>4, <1>5
        DEF Next, vars, pubVars, Earn, PublisherRuns, WorkerRuns, FetchDue, Retry, Try,
            MarkResolved, RetryDispatched, RetryFailed, BackoffElapses, AbandonDue

LEMMA PublishShrinks ==
  ASSUME TypeInv, NEW p \in Publisher, NEW x \in batch[p], Publish(p, x) \/ MarkingFails(p, x)
  PROVE  batch'[p] \subseteq batch[p]
BY DEF TypeInv, TypeOK, Publish, Send, CannotRead, MarkPublished, MarkDispatched,
       IncrementAttempts, RecordFailure, MarkFailed, MarkDispatchFailed, CreateRetry, MarkingFails,
       GoTo, NextInBatch

LEMMA ReadsAreOldStep == TypeInv /\ ReadsAreOld /\ [Next]_vars => ReadsAreOld'
<1> SUFFICES ASSUME TypeInv, ReadsAreOld, [Next]_vars, NEW p \in Publisher
             PROVE  /\ \A x, y \in batch'[p] : x.reward = y.reward => x = y
                    /\ \A x \in batch'[p] : x.attempts <= outbox'[x.reward].attempts
  BY DEF ReadsAreOld
<1>1. CASE batch'[p] \subseteq batch[p]
  <2>1. \A x, y \in batch'[p] : x.reward = y.reward => x = y
    BY <1>1 DEF ReadsAreOld
  <2>2. ASSUME NEW x \in batch'[p] PROVE x.attempts <= outbox'[x.reward].attempts
    <3>1. x \in OutboxRead /\ x.attempts <= outbox[x.reward].attempts
      BY <1>1 DEF TypeInv, TypeOK, ReadsAreOld
    <3>2. x.attempts \in Nat /\ x.reward \in Reward
      BY <3>1 DEF OutboxRead
    <3> QED BY <3>1, <3>2, AttemptsGrow
  <2> QED BY <2>1, <2>2
<1>2. CASE /\ outbox' = outbox
           /\ batch'[p] = {[reward |-> r, attempts |-> outbox[r].attempts] : r \in PendingBatch}
  <2>1. \A r \in PendingBatch : outbox[r].attempts \in Nat
    BY DEF PendingBatch, Pending, TypeInv, TypeOK, OutboxRow
  <2> QED BY <1>2, <2>1
<1> QED BY <1>1, <1>2, BatchCases, PublishShrinks

LEMMA TiersUsedUpStep == TypeInv /\ ReadsAreOld /\ TiersUsedUp /\ [Next]_vars => TiersUsedUp'
<1> SUFFICES ASSUME TypeInv, ReadsAreOld, TiersUsedUp, [Next]_vars, NEW p \in Publisher
             PROVE  PUsedUp(p)'
  BY DEF TiersUsedUp, PUsedUp, IsHead
<1>1. /\ PUsedUp(p)
      /\ \A x \in batch[p] : x.reward \in Reward /\ x.attempts \in Nat
                             /\ x.attempts <= outbox[x.reward].attempts
  BY DEF TiersUsedUp, ReadsAreOld, TypeInv, TypeOK, OutboxRead
<1>2. CASE step'[p] \notin {"markFailed", "markDispatchFailed", "createRetry"}
  BY <1>2 DEF PUsedUp
<1>3. CASE batch'[p] = batch[p] /\ step'[p] = step[p]
  <2>1. ASSUME NEW x \in batch[p], outbox[x.reward].attempts > MaxAttempts
        PROVE  outbox'[x.reward].attempts > MaxAttempts
    BY <1>1, <2>1, AttemptsGrow, DispatchAssumption
  <2> QED BY <1>1, <1>3, <2>1 DEF PUsedUp, IsHead
<1>4. ASSUME NEW x \in batch[p], Publish(p, x) \/ MarkingFails(p, x) PROVE PUsedUp(p)'
  <2>1. ASSUME IsHead(p, x), batch'[p] = batch[p]
        PROVE  \A y \in batch'[p] : IsHead(p, y)' => y = x
    BY <2>1, OneHead DEF IsHead, ReadsAreOld, TypeInv
  <2>2. CASE (Send(p, x) \/ MarkingFails(p, x)) /\ step'[p] = "markFailed"
    <3>1. IsHead(p, x) /\ batch'[p] = batch[p] /\ step'[p] = OnError(x)
      BY <2>2 DEF Send, MarkingFails, GoTo, TypeInv, TypeOK
    <3>2. x.attempts >= MaxAttempts
      BY <1>1, <2>2, <3>1, DispatchAssumption DEF OnError, IsPrimary
    <3> QED BY <2>1, <2>2, <3>1, <3>2 DEF PUsedUp
  <2>3. CASE Send(p, x) \/ MarkingFails(p, x)
    BY <1>2, <2>2, <2>3 DEF Send, MarkingFails, GoTo, OnError, TypeInv, TypeOK
  <2>4. CASE MarkFailed(p, x)
    <3>1. IsHead(p, x) /\ batch'[p] = batch[p] /\ step[p] = "markFailed" /\ step'[p] = "markDispatchFailed"
      BY <2>4 DEF MarkFailed, GoTo, TypeInv, TypeOK
    <3>2. outbox'[x.reward].attempts = outbox[x.reward].attempts + 1
      BY <1>1, <2>4 DEF MarkFailed, SetOutbox, TypeInv, TypeOK
    <3>3. outbox'[x.reward].attempts > MaxAttempts
      BY <1>1, <3>1, <3>2, AttemptsGrow, DispatchAssumption DEF PUsedUp
    <3> QED BY <2>1, <3>1, <3>3 DEF PUsedUp
  <2>5. CASE MarkDispatchFailed(p, x)
    <3>1. /\ IsHead(p, x) /\ batch'[p] = batch[p] /\ outbox' = outbox
          /\ step[p] = "markDispatchFailed" /\ step'[p] = "createRetry"
      BY <2>5 DEF MarkDispatchFailed, GoTo, TypeInv, TypeOK
    <3> QED BY <1>1, <2>1, <3>1 DEF PUsedUp
  <2>6. CASE \/ CannotRead(p, x) \/ MarkPublished(p, x) \/ MarkDispatched(p, x)
             \/ IncrementAttempts(p, x) \/ RecordFailure(p, x) \/ CreateRetry(p, x)
    BY <1>2, <2>6 DEF CannotRead, MarkPublished, MarkDispatched, IncrementAttempts, RecordFailure,
                      CreateRetry, GoTo, NextInBatch, TypeInv, TypeOK
  <2> QED BY <1>4, <2>3, <2>4, <2>5, <2>6 DEF Publish
<1> QED BY <1>2, <1>3, <1>4, BatchCases

\* A step adds at most the retry row of the reward in a publisher's hand.
LEMMA NewRetryRow ==
  ASSUME TypeInv, [Next]_vars, NEW i \in DOMAIN retries', i \notin DOMAIN retries
  PROVE  /\ outbox' = outbox
         /\ \E p \in Publisher : \E x \in batch[p] :
              /\ step[p] = "createRetry" /\ IsHead(p, x) /\ CreateRetry(p, x)
              /\ retries'[i].reward = x.reward
<1> USE DEF TypeInv, TypeOK
<1>1. ASSUME NEW p \in Publisher, NEW x \in batch[p], CreateRetry(p, x)
      PROVE  /\ outbox' = outbox
             /\ step[p] = "createRetry" /\ IsHead(p, x) /\ retries'[i].reward = x.reward
  BY <1>1 DEF CreateRetry
<1>2. CASE DOMAIN retries' = DOMAIN retries
  BY <1>2
<1>3. ASSUME NEW w \in RetryWorker, NEW x \in due[w], Retry(w, x) PROVE DOMAIN retries' = DOMAIN retries
  BY <1>3 DEF Retry, Try, MarkResolved, RetryDispatched, RetryFailed, SetRetry
<1>4. ASSUME NEW j \in DOMAIN retries, BackoffElapses(j) PROVE DOMAIN retries' = DOMAIN retries
  BY <1>4 DEF BackoffElapses
<1> QED BY <1>1, <1>2, <1>3, <1>4
        DEF Next, vars, Earn, PublisherRuns, FetchPending, Publish, Send, CannotRead,
            MarkPublished, MarkDispatched, IncrementAttempts, RecordFailure, MarkFailed,
            MarkDispatchFailed, MarkingFails, AbandonBatch, WorkerRuns, FetchDue, AbandonDue

LEMMA TierInvInit == Init => TierInv
BY TypeInit, RowsExistInit
   DEF Init, TierInv, TypeInv, RetryOnlyAfterBothTiers, ReadsAreOld, TiersUsedUp, PUsedUp

LEMMA TierInvStep == TierInv /\ [Next]_vars => TierInv'
<1> SUFFICES ASSUME TierInv, [Next]_vars PROVE TierInv'
  OBVIOUS
<1> USE DEF TierInv
<1>1. TypeInv'
  BY TypeStep, RowsExistStep DEF TypeInv
<1>2. ASSUME NEW i \in DOMAIN retries' PROVE outbox'[retries'[i].reward].attempts > MaxAttempts
  <2>1. CASE i \in DOMAIN retries
    <3>1. retries'[i].reward = retries[i].reward /\ retries[i].reward \in Reward
      BY <2>1, RewardsStay, RowTypes DEF TypeInv, TypeOK, RetryRow
    <3>2. outbox[retries[i].reward].attempts > MaxAttempts
      BY <2>1 DEF RetryOnlyAfterBothTiers
    <3> QED BY <3>1, <3>2, AttemptsGrow, DispatchAssumption
  <2>2. CASE i \notin DOMAIN retries
    <3>1. PICK p \in Publisher : \E x \in batch[p] :
            /\ step[p] = "createRetry" /\ IsHead(p, x) /\ retries'[i].reward = x.reward
      BY <1>2, <2>2, NewRetryRow
    <3>2. outbox' = outbox
      BY <1>2, <2>2, NewRetryRow
    <3> QED BY <3>1, <3>2 DEF TiersUsedUp, PUsedUp
  <2> QED BY <2>1, <2>2
<1> QED BY <1>1, <1>2, ReadsAreOldStep, TiersUsedUpStep DEF RetryOnlyAfterBothTiers

\* A retry row exists only for a reward whose outbox row has used up its primary attempts
\* and one fallback attempt, however many instances publish from however old a read and
\* wherever their statements fail.
THEOREM RetryIsLastResort == Spec => []RetryOnlyAfterBothTiers
<1>1. Init => TierInv
  BY TierInvInit
<1>2. TierInv /\ [Next]_vars => TierInv'
  BY TierInvStep
<1>3. TierInv => RetryOnlyAfterBothTiers
  BY DEF TierInv
<1> QED BY <1>1, <1>2, <1>3, PTL DEF Spec

----------------------------------------------------------------------------
\* One reward's story. As long as no two instances held it at once and no fault struck it
\* half-way, a reward is in one place at a time: at rest, in one batch, or in one retry row
\* that one worker may be trying; and the tables hold what that place says. Nothing is
\* assumed of the other rewards, of how many instances there are or of where they fail.

Undisturbed(r) == mishaps[r] \subseteq {"lostAnswer"}
\* The times it was accepted, known for as long as every answer has arrived.
Counted(r, n) == mishaps[r] = {} => delivered[r] = n
HasNoRetry(r) == RetriesOf(r) = {}

\* What the tables hold of a reward in a batch whose publisher executes s next on it.
AtStep(s, r) ==
  /\ HasNoRetry(r)
  /\ Counted(r, IF s \in {"markPublished", "markDispatched"} THEN 1 ELSE 0)
  /\ outbox[r].status = IF s = "markDispatched" THEN "PUBLISHED"
                        ELSE IF s \in {"markDispatchFailed", "createRetry"} THEN "FAILED"
                        ELSE "PENDING"
  /\ entryStatus[r] = IF s = "createRetry" THEN "failed" ELSE "pending"

NextOn(p, x) == IF IsHead(p, x) THEN step[p] ELSE "send"

\* What they hold of the reward of a retry row that its worker has read.
RowAtStep(s, i, r) ==
  /\ entryStatus[r] = "failed"
  /\ retries[i].status = IF s = "markDispatched" THEN "resolved" ELSE "pending"
  /\ Counted(r, IF s \in {"markResolved", "markDispatched"} THEN 1 ELSE 0)

NextOnRow(w, x) == IF IsDueHead(w, x) THEN wstep[w] ELSE "kafka"

\* What they hold of a row no worker has read, and of a reward in no batch that has no row.
RowAtRest(i, r) ==
  IF retries[i].status = "resolved" THEN entryStatus[r] = "dispatched" /\ Counted(r, 1)
                                    ELSE entryStatus[r] = "failed" /\ Counted(r, 0)

AtRest(r) ==
  \/ outbox[r].status = "absent" /\ entryStatus[r] = "absent" /\ Counted(r, 0)
  \/ outbox[r].status = "PENDING" /\ entryStatus[r] = "pending" /\ Counted(r, 0)
  \/ outbox[r].status = "PUBLISHED" /\ entryStatus[r] = "dispatched" /\ Counted(r, 1)

InBatch(r) == \E p \in Publisher : \E x \in batch[p] : x.reward = r
IsRead(i) == \E w \in RetryWorker : \E x \in due[w] : x.row = i

OnePublisher(r) == \A p, q \in Publisher :
  (\E x \in batch[p] : x.reward = r) /\ (\E x \in batch[q] : x.reward = r) => p = q
OneWorker(r) == \A v, w \in RetryWorker :
  (\E x \in due[v] : RewardOf(x) = r) /\ (\E x \in due[w] : RewardOf(x) = r) => v = w
OneRow(r) == \A i, j \in RetriesOf(r) : i = j
BatchStory(r) == \A p \in Publisher : \A x \in batch[p] : x.reward = r => AtStep(NextOn(p, x), r)
RestStory(r) == HasNoRetry(r) /\ ~InBatch(r) => AtRest(r)
DueStory(r) == \A w \in RetryWorker : \A x \in due[w] : RewardOf(x) = r => RowAtStep(NextOnRow(w, x), x.row, r)
RowStory(r) == \A i \in RetriesOf(r) : outbox[r].status = "FAILED" /\ (~IsRead(i) => RowAtRest(i, r))

PublisherSide(r) == OnePublisher(r) /\ BatchStory(r) /\ RestStory(r)
WorkerSide(r) == OneWorker(r) /\ OneRow(r) /\ DueStory(r) /\ RowStory(r)
Story(r) == PublisherSide(r) /\ WorkerSide(r)

\* A worker reads a row once.
ReadOnce == \A w \in RetryWorker : \A x, y \in due[w] : x.row = y.row => x = y

StoryInv == TierInv /\ ReadOnce /\ \A r \in Reward : Undisturbed(r) => Story(r)

LEMMA StoryInit == Init => StoryInv
<1> SUFFICES ASSUME Init PROVE StoryInv
  OBVIOUS
<1>1. TierInv /\ ReadOnce
  BY TierInvInit DEF Init, ReadOnce
<1>2. ASSUME NEW r \in Reward PROVE Story(r)
  BY DEF Init, Story, PublisherSide, WorkerSide, OnePublisher, OneWorker, OneRow, BatchStory, RestStory,
         DueStory, RowStory, AtRest, RetriesOf, Counted
<1> QED BY <1>1, <1>2 DEF StoryInv

LEMMA ReadOnceStep == ReadOnce /\ TypeOK /\ [Next]_vars => ReadOnce'
<1> SUFFICES ASSUME ReadOnce, TypeOK, [Next]_vars, NEW w \in RetryWorker
             PROVE  \A x, y \in due'[w] : x.row = y.row => x = y
  BY DEF ReadOnce
<1>1. CASE due'[w] \subseteq due[w]
  BY <1>1 DEF ReadOnce
<1>2. CASE due'[w] = {[row |-> i, attempts |-> retries[i].attempts] : i \in DueRows}
  BY <1>2
<1>3. ASSUME NEW v \in RetryWorker, FetchDue(v) PROVE \A x, y \in due'[w] : x.row = y.row => x = y
  BY <1>1, <1>2, <1>3 DEF FetchDue, TypeOK
<1>4. ASSUME NEW v \in RetryWorker, NEW x \in due[v], Retry(v, x) PROVE due'[w] \subseteq due[w]
  BY <1>4 DEF Retry, Try, MarkResolved, RetryDispatched, RetryFailed, WGoTo, NextDue, TypeOK
<1>5. ASSUME NEW v \in RetryWorker, AbandonDue(v) PROVE due'[w] \subseteq due[w]
  BY <1>5 DEF AbandonDue, TypeOK
<1>6. CASE UNCHANGED workVars
  BY <1>1, <1>6 DEF workVars
<1> QED BY <1>1, <1>2, <1>3, <1>4, <1>5, <1>6
        DEF Next, vars, workVars, Earn, PublisherRuns, FetchPending, Publish, Send, CannotRead,
            MarkPublished, MarkDispatched, IncrementAttempts, RecordFailure, MarkFailed,
            MarkDispatchFailed, CreateRetry, MarkingFails, AbandonBatch, WorkerRuns, BackoffElapses

\* Nothing is struck from a reward's history.
LEMMA HistoryGrows ==
  ASSUME TypeOK, [Next]_vars, NEW r \in Reward
  PROVE  mishaps[r] \subseteq mishaps'[r]
<1>1. ASSUME NEW R, NEW what, Befalls(R, what) PROVE mishaps[r] \subseteq mishaps'[r]
  BY <1>1 DEF Befalls, TypeOK
<1>2. CASE UNCHANGED mishaps
  BY <1>2
<1> QED BY <1>1, <1>2
        DEF Next, vars, Earn, PublisherRuns, FetchPending, Publish, Send, AnswerLost, CannotRead, MarkPublished,
            MarkDispatched, IncrementAttempts, RecordFailure, MarkFailed, MarkDispatchFailed,
            CreateRetry, MarkingFails, AbandonBatch, WorkerRuns, FetchDue, Retry, Try, MarkResolved,
            RetryDispatched, RetryFailed, BackoffElapses, AbandonDue

----------------------------------------------------------------------------
\* The two halves of a story change one at a time.

SameTables(r) ==
  outbox'[r].status = outbox[r].status /\ entryStatus'[r] = entryStatus[r] /\ delivered'[r] = delivered[r]
SameRows(r) ==
  /\ RetriesOf(r)' = RetriesOf(r)
  /\ \A i \in RetriesOf(r) : retries'[i].status = retries[i].status
SameBatches(r) ==
  \A p \in Publisher :
    /\ \A x \in batch'[p] : x.reward = r => x \in batch[p]
    /\ \A x \in batch[p] : x.reward = r => x \in batch'[p] /\ NextOn(p, x)' = NextOn(p, x)
SameReads(r) ==
  \A w \in RetryWorker :
    /\ \A x \in due'[w] : RewardOf(x)' = r => x \in due[w] /\ RewardOf(x) = r
    /\ \A x \in due[w] : RewardOf(x) = r => /\ x \in due'[w] /\ RewardOf(x)' = r
                                            /\ NextOnRow(w, x)' = NextOnRow(w, x)

\* A step that touches neither a reward's tables nor its place leaves its story true.
LEMMA Frame ==
  ASSUME TypeInv, TypeInv', NEW r \in Reward, Story(r), mishaps[r] \subseteq mishaps'[r],
         SameTables(r), SameRows(r), SameBatches(r), SameReads(r)
  PROVE  Story(r)'
<1>1. \A n \in {0, 1} : Counted(r, n) => Counted(r, n)'
  BY DEF Counted, SameTables
<1>2. OnePublisher(r)' /\ (InBatch(r) => InBatch(r)')
  BY DEF Story, PublisherSide, OnePublisher, SameBatches, InBatch
<1>3. ASSUME NEW p \in Publisher, NEW x \in batch'[p], x.reward = r PROVE AtStep(NextOn(p, x), r)'
  <2>1. x \in batch[p] /\ NextOn(p, x)' = NextOn(p, x)
    BY <1>3 DEF SameBatches
  <2>2. AtStep(NextOn(p, x), r)
    BY <1>3, <2>1 DEF Story, PublisherSide, BatchStory
  <2> QED BY <1>1, <2>1, <2>2 DEF AtStep, HasNoRetry, SameRows, SameTables
<1>4. RestStory(r)'
  BY <1>1, <1>2 DEF Story, PublisherSide, RestStory, HasNoRetry, SameRows, AtRest, SameTables
<1>5. OneWorker(r)' /\ OneRow(r)'
  BY DEF Story, WorkerSide, OneWorker, OneRow, SameReads, SameRows
<1>6. ASSUME NEW w \in RetryWorker, NEW x \in due'[w], RewardOf(x)' = r
      PROVE  RowAtStep(NextOnRow(w, x), x.row, r)'
  <2>1. x \in due[w] /\ RewardOf(x) = r /\ NextOnRow(w, x)' = NextOnRow(w, x)
    BY <1>6 DEF SameReads
  <2>2. x.row \in RetriesOf(r)
    BY <2>1 DEF RetriesOf, RewardOf, TypeInv, RowsExist
  <2>3. RowAtStep(NextOnRow(w, x), x.row, r)
    BY <2>1 DEF Story, WorkerSide, DueStory
  <2> QED BY <1>1, <2>1, <2>2, <2>3 DEF RowAtStep, SameRows, SameTables
<1>7. ASSUME NEW i \in RetriesOf(r)' PROVE outbox'[r].status = "FAILED" /\ (~IsRead(i)' => RowAtRest(i, r)')
  <2>1. i \in RetriesOf(r) /\ retries'[i].status = retries[i].status
    BY <1>7 DEF SameRows
  <2>2. outbox[r].status = "FAILED" /\ (~IsRead(i) => RowAtRest(i, r))
    BY <2>1 DEF Story, WorkerSide, RowStory
  <2>3. IsRead(i) => IsRead(i)'
    BY <2>1 DEF IsRead, SameReads, RewardOf, RetriesOf
  <2> QED BY <1>1, <2>1, <2>2, <2>3 DEF RowAtRest, SameTables
<1>8. BatchStory(r)' /\ DueStory(r)' /\ RowStory(r)'
  BY <1>3, <1>6, <1>7 DEF BatchStory, DueStory, RowStory
<1> QED BY <1>2, <1>4, <1>5, <1>8 DEF Story, PublisherSide, WorkerSide

\* A publisher that holds a reward: it has no retry row, so no worker knows it ...
LEMMA HeldByPublisher ==
  ASSUME StoryInv, NEW r \in Reward, Undisturbed(r), NEW p \in Publisher, NEW x \in batch[p], x.reward = r
  PROVE  /\ AtStep(NextOn(p, x), r)
         /\ \A q \in Publisher : \A y \in batch[q] : y.reward = r => q = p /\ y = x
         /\ retries' = retries /\ due' = due => WorkerSide(r)'
<1>1. Story(r) /\ TypeInv /\ ReadsAreOld
  BY DEF StoryInv, TierInv
<1>2. AtStep(NextOn(p, x), r)
  BY <1>1 DEF Story, PublisherSide, BatchStory
<1>3. \A q \in Publisher : \A y \in batch[q] : y.reward = r => q = p /\ y = x
  BY <1>1 DEF Story, PublisherSide, OnePublisher, ReadsAreOld
<1>4. RetriesOf(r) = {}
  BY <1>2 DEF AtStep, HasNoRetry
<1>5. ASSUME retries' = retries, due' = due PROVE WorkerSide(r)'
  <2>1. RetriesOf(r)' = {}
    BY <1>4, <1>5 DEF RetriesOf
  <2>2. \A w \in RetryWorker : \A y \in due'[w] : RewardOf(y)' # r
    BY <1>1, <1>4, <1>5 DEF RetriesOf, RewardOf, TypeInv, RowsExist
  <2> QED BY <2>1, <2>2 DEF WorkerSide, OneWorker, OneRow, DueStory, RowStory
<1> QED BY <1>2, <1>3, <1>5

\* ... its next statement on the reward leaves it in its hand ...
LEMMA PublisherWrites ==
  ASSUME StoryInv, NEW r \in Reward, Undisturbed(r), NEW p \in Publisher, NEW x \in batch[p], x.reward = r,
         IsHead(p, x), retries' = retries, due' = due, batch' = batch,
         NEW s, step'[p] = s, AtStep(s, r)'
  PROVE  Story(r)'
<1>1. /\ \A q \in Publisher : \A y \in batch[q] : y.reward = r => q = p /\ y = x
      /\ WorkerSide(r)'
  BY HeldByPublisher
<1>2. OnePublisher(r)' /\ InBatch(r)'
  BY <1>1 DEF OnePublisher, InBatch
<1>3. ASSUME NEW q \in Publisher, NEW y \in batch'[q], y.reward = r PROVE AtStep(NextOn(q, y), r)'
  <2>1. q = p /\ y = x
    BY <1>1, <1>3
  <2>2. NextOn(p, x)' = s
    BY DEF NextOn, IsHead
  <2> QED BY <2>1, <2>2 DEF AtStep
<1> QED BY <1>1, <1>2, <1>3 DEF Story, PublisherSide, BatchStory, RestStory

\* ... and its last one lets it go.
LEMMA PublisherLetsGo ==
  ASSUME StoryInv, NEW r \in Reward, Undisturbed(r), NEW p \in Publisher, NEW x \in batch[p], x.reward = r,
         retries' = retries, due' = due, \A q \in Publisher : q # p => batch'[q] = batch[q],
         \A y \in batch'[p] : y.reward # r, AtRest(r)'
  PROVE  Story(r)'
<1>1. /\ \A q \in Publisher : \A y \in batch[q] : y.reward = r => q = p
      /\ WorkerSide(r)'
  BY HeldByPublisher
<1>2. \A q \in Publisher : \A y \in batch'[q] : y.reward # r
  BY <1>1
<1> QED BY <1>1, <1>2 DEF Story, PublisherSide, OnePublisher, BatchStory, RestStory

\* A worker that tries a row of a reward: the row is the only one, and no publisher knows
\* the reward ...
LEMMA HeldByWorker ==
  ASSUME StoryInv, NEW r \in Reward, Undisturbed(r), NEW w \in RetryWorker, NEW x \in due[w], RewardOf(x) = r
  PROVE  /\ x.row \in RetriesOf(r) /\ outbox[r].status = "FAILED"
         /\ RowAtStep(NextOnRow(w, x), x.row, r)
         /\ \A i \in RetriesOf(r) : i = x.row
         /\ \A v \in RetryWorker : \A y \in due[v] : RewardOf(y) = r => v = w /\ y = x
         /\ RetriesOf(r)' = RetriesOf(r) /\ batch' = batch => PublisherSide(r)'
<1>1. Story(r) /\ TypeInv /\ ReadOnce
  BY DEF StoryInv, TierInv
<1>2. x.row \in RetriesOf(r) /\ outbox[r].status = "FAILED" /\ RowAtStep(NextOnRow(w, x), x.row, r)
  BY <1>1 DEF RetriesOf, RewardOf, TypeInv, RowsExist, Story, WorkerSide, DueStory, RowStory
<1>3. \A i \in RetriesOf(r) : i = x.row
  BY <1>1, <1>2 DEF Story, WorkerSide, OneRow
<1>4. ASSUME NEW v \in RetryWorker, NEW y \in due[v], RewardOf(y) = r PROVE v = w /\ y = x
  <2>1. v = w
    BY <1>1, <1>4 DEF Story, WorkerSide, OneWorker
  <2>2. y.row \in RetriesOf(r)
    BY <1>1, <1>4 DEF RetriesOf, RewardOf, TypeInv, RowsExist
  <2>3. y.row = x.row
    BY <1>3, <2>2
  <2> QED BY <1>1, <2>1, <2>3 DEF ReadOnce
<1>5. ASSUME RetriesOf(r)' = RetriesOf(r), batch' = batch PROVE PublisherSide(r)'
  <2>1. \A p \in Publisher : \A y \in batch[p] : y.reward # r
    BY <1>1, <1>2 DEF Story, PublisherSide, BatchStory, AtStep, HasNoRetry
  <2> QED BY <1>2, <1>5, <2>1 DEF PublisherSide, OnePublisher, BatchStory, RestStory, HasNoRetry
<1> QED BY <1>2, <1>3, <1>4, <1>5

\* A statement of a worker writes the reward and the status of one row at most.
KeepsRewards ==
  /\ DOMAIN retries' = DOMAIN retries
  /\ \A j \in DOMAIN retries : retries'[j].reward = retries[j].reward

LEMMA WorkerWrites ==
  ASSUME StoryInv, NEW r \in Reward, Undisturbed(r), NEW w \in RetryWorker, NEW x \in due[w], RewardOf(x) = r,
         IsDueHead(w, x), KeepsRewards, outbox' = outbox, batch' = batch, due' = due,
         NEW s, wstep'[w] = s, RowAtStep(s, x.row, r)'
  PROVE  Story(r)'
<1>1. /\ x.row \in RetriesOf(r) /\ outbox[r].status = "FAILED"
      /\ \A i \in RetriesOf(r) : i = x.row
      /\ \A v \in RetryWorker : \A y \in due[v] : RewardOf(y) = r => v = w /\ y = x
      /\ RetriesOf(r)' = RetriesOf(r) /\ batch' = batch => PublisherSide(r)'
  BY HeldByWorker
<1>2. RetriesOf(r)' = RetriesOf(r) /\ \A v \in RetryWorker : \A y \in due[v] : RewardOf(y)' = RewardOf(y)
  BY DEF KeepsRewards, RetriesOf, RewardOf, StoryInv, TierInv, TypeInv, RowsExist
<1>3. PublisherSide(r)' /\ OneWorker(r)' /\ OneRow(r)'
  BY <1>1, <1>2 DEF OneWorker, OneRow
<1>4. ASSUME NEW v \in RetryWorker, NEW y \in due'[v], RewardOf(y)' = r
      PROVE  RowAtStep(NextOnRow(v, y), y.row, r)'
  <2>1. v = w /\ y = x
    BY <1>1, <1>2, <1>4
  <2>2. NextOnRow(w, x)' = s
    BY DEF NextOnRow, IsDueHead
  <2> QED BY <2>1, <2>2 DEF RowAtStep
<1>5. \A i \in RetriesOf(r)' : IsRead(i)'
  BY <1>1, <1>2 DEF IsRead
<1> QED BY <1>1, <1>2, <1>3, <1>4, <1>5 DEF Story, WorkerSide, DueStory, RowStory

LEMMA WorkerLetsGo ==
  ASSUME StoryInv, NEW r \in Reward, Undisturbed(r), NEW w \in RetryWorker, NEW x \in due[w], RewardOf(x) = r,
         KeepsRewards, outbox' = outbox, batch' = batch, \A v \in RetryWorker : v # w => due'[v] = due[v],
         \A y \in due'[w] : RewardOf(y)' # r, RowAtRest(x.row, r)', TypeInv'
  PROVE  Story(r)'
<1>1. /\ x.row \in RetriesOf(r) /\ outbox[r].status = "FAILED"
      /\ \A i \in RetriesOf(r) : i = x.row
      /\ \A v \in RetryWorker : \A y \in due[v] : RewardOf(y) = r => v = w /\ y = x
      /\ RetriesOf(r)' = RetriesOf(r) /\ batch' = batch => PublisherSide(r)'
  BY HeldByWorker
<1>2. RetriesOf(r)' = RetriesOf(r) /\ \A v \in RetryWorker : \A y \in due[v] : RewardOf(y)' = RewardOf(y)
  BY DEF KeepsRewards, RetriesOf, RewardOf, StoryInv, TierInv, TypeInv, RowsExist
<1>3. PublisherSide(r)' /\ OneRow(r)'
  BY <1>1, <1>2 DEF OneRow
<1>4. \A v \in RetryWorker : \A y \in due'[v] : RewardOf(y)' # r
  BY <1>1, <1>2
<1>5. \A i \in RetriesOf(r)' : i = x.row /\ outbox'[r].status = "FAILED"
  BY <1>1, <1>2
<1> QED BY <1>3, <1>4, <1>5 DEF Story, WorkerSide, OneWorker, DueStory, RowStory

----------------------------------------------------------------------------
\* A poll or the end of a cycle drops what the instance held and had not begun to write.

LEMMA BatchDropped ==
  ASSUME StoryInv, TypeInv', NEW r \in Reward, Undisturbed(r), mishaps[r] \subseteq mishaps'[r], SameTables(r),
         NEW p \in Publisher, \A y \in batch'[p] : y.reward # r,
         \A q \in Publisher : q # p => batch'[q] = batch[q] /\ step'[q] = step[q],
         retries' = retries, due' = due, wstep' = wstep,
         \A x \in batch[p] : x.reward = r => NextOn(p, x) \notin HalfWritten
  PROVE  Story(r)'
<1>1. ASSUME NEW x \in batch[p], x.reward = r PROVE Story(r)'
  <2>1. AtStep(NextOn(p, x), r) /\ NextOn(p, x) \notin HalfWritten
    BY <1>1, HeldByPublisher
  <2>2. AtRest(r)'
    BY <2>1 DEF AtStep, AtRest, HalfWritten, Counted, SameTables
  <2> QED BY <1>1, <2>2, PublisherLetsGo
<1>2. CASE \A x \in batch[p] : x.reward # r
  <2>1. SameRows(r) /\ SameReads(r)
    BY DEF SameRows, RetriesOf, SameReads, RewardOf, NextOnRow, IsDueHead
  <2>2. SameBatches(r)
    BY <1>2 DEF SameBatches, NextOn, IsHead
  <2> QED BY <2>1, <2>2, Frame DEF StoryInv, TierInv
<1> QED BY <1>1, <1>2

LEMMA ReadsDropped ==
  ASSUME StoryInv, TypeInv', NEW r \in Reward, Undisturbed(r), mishaps[r] \subseteq mishaps'[r], SameTables(r),
         NEW w \in RetryWorker, \A y \in due'[w] : RewardOf(y) # r,
         \A v \in RetryWorker : v # w => due'[v] = due[v] /\ wstep'[v] = wstep[v],
         retries' = retries, outbox' = outbox, batch' = batch, step' = step,
         \A x \in due[w] : RewardOf(x) = r => NextOnRow(w, x) \notin {"markResolved", "markDispatched"}
  PROVE  Story(r)'
<1>1. ASSUME NEW x \in due[w], RewardOf(x) = r PROVE Story(r)'
  <2>1. RowAtStep(NextOnRow(w, x), x.row, r) /\ NextOnRow(w, x) \notin {"markResolved", "markDispatched"}
    BY <1>1, HeldByWorker
  <2>2. RowAtRest(x.row, r)'
    BY <2>1 DEF RowAtStep, RowAtRest, Counted, SameTables
  <2>3. KeepsRewards /\ \A y \in due'[w] : RewardOf(y)' # r
    BY DEF KeepsRewards, RewardOf
  <2> QED BY <1>1, <2>2, <2>3, WorkerLetsGo
<1>2. CASE \A x \in due[w] : RewardOf(x) # r
  <2>1. SameRows(r) /\ SameBatches(r)
    BY DEF SameRows, RetriesOf, SameBatches, NextOn, IsHead
  <2>2. SameReads(r)
    BY <1>2 DEF SameReads, NextOnRow, IsDueHead, RewardOf
  <2> QED BY <2>1, <2>2, Frame DEF StoryInv, TierInv
<1> QED BY <1>1, <1>2

----------------------------------------------------------------------------
\* A statement on another reward.

LEMMA OtherPublished ==
  ASSUME StoryInv, TypeInv', NEW r \in Reward, Undisturbed(r), mishaps[r] \subseteq mishaps'[r],
         NEW p \in Publisher, NEW x \in batch[p], x.reward # r,
         Publish(p, x) \/ MarkingFails(p, x), ~CannotRead(p, x)
  PROVE  Story(r)'
<1>0. TypeInv /\ TypeOK /\ ReadsAreOld /\ x.reward \in Reward /\ outbox[x.reward] \in OutboxRow
  BY DEF StoryInv, TierInv, TypeInv, TypeOK, OutboxRead
<1>1. SameTables(r)
  BY <1>0 DEF Publish, Send, Accepted, AnswerLost, CannotRead, MarkPublished, MarkDispatched, IncrementAttempts,
              RecordFailure, MarkFailed, MarkDispatchFailed, CreateRetry, MarkingFails, SetOutbox,
              SameTables, TypeOK
<1>2. SameRows(r) /\ \A i \in DOMAIN retries : i \in DOMAIN retries' /\ retries'[i] = retries[i]
  <2>1. CASE CreateRetry(p, x)
    <3>1. /\ \A i \in DOMAIN retries : i \in DOMAIN retries' /\ retries'[i] = retries[i]
          /\ \A i \in DOMAIN retries' : i \in DOMAIN retries \/ retries'[i].reward = x.reward
      BY <1>0, <2>1 DEF CreateRetry, TypeOK
    <3> QED BY <3>1 DEF SameRows, RetriesOf
  <2>2. CASE ~CreateRetry(p, x)
    <3>1. retries' = retries
      BY <2>2 DEF Publish, Send, CannotRead, MarkPublished, MarkDispatched, IncrementAttempts,
                  RecordFailure, MarkFailed, MarkDispatchFailed, MarkingFails
    <3> QED BY <3>1 DEF SameRows, RetriesOf
  <2> QED BY <2>1, <2>2
<1>3. due' = due /\ wstep' = wstep
  BY DEF Publish, Send, CannotRead, MarkPublished, MarkDispatched, IncrementAttempts, RecordFailure,
         MarkFailed, MarkDispatchFailed, CreateRetry, MarkingFails, workVars
<1>4. SameReads(r)
  BY <1>0, <1>2, <1>3 DEF SameReads, RewardOf, NextOnRow, IsDueHead, TypeInv, RowsExist
<1>5. /\ IsHead(p, x)
      /\ (\E s \in PublisherStep : GoTo(p, s)) \/ NextInBatch(p, x)
  BY DEF Publish, Send, CannotRead, MarkPublished, MarkDispatched, IncrementAttempts, RecordFailure,
         MarkFailed, MarkDispatchFailed, CreateRetry, MarkingFails, OnError, PublisherStep
<1>6. SameBatches(r)
  <2>1. \A q \in Publisher : q # p => batch'[q] = batch[q] /\ step'[q] = step[q]
    BY <1>0, <1>5 DEF GoTo, NextInBatch, TypeOK
  <2>2. ASSUME NEW y \in batch[p], y.reward = r PROVE ~IsHead(p, y) /\ y # x
    BY <1>0, <1>5, <2>2, OneHead
  <2>3. CASE \E s \in PublisherStep : GoTo(p, s)
    BY <2>1, <2>2, <2>3 DEF GoTo, SameBatches, NextOn, IsHead
  <2>4. CASE NextInBatch(p, x)
    <3>1. batch'[p] = batch[p] \ {x} /\ (batch[p] # {x} => step'[p] = "send")
      BY <1>0, <2>4 DEF NextInBatch, TypeOK
    <3>2. \A y \in batch[p] : y.reward = r => y \in batch'[p] /\ NextOn(p, y)' = "send" /\ NextOn(p, y) = "send"
      BY <2>2, <3>1 DEF NextOn
    <3> QED BY <2>1, <3>1, <3>2 DEF SameBatches, NextOn, IsHead
  <2> QED BY <1>5, <2>3, <2>4
<1> QED BY <1>0, <1>1, <1>2, <1>4, <1>6, Frame DEF StoryInv

LEMMA OtherRetried ==
  ASSUME StoryInv, TypeInv', NEW r \in Reward, Undisturbed(r), mishaps[r] \subseteq mishaps'[r],
         NEW w \in RetryWorker, NEW x \in due[w], RewardOf(x) # r, Retry(w, x), KeepsRewards,
         \A i \in DOMAIN retries : i # x.row => retries'[i].status = retries[i].status
  PROVE  Story(r)'
<1>0. TypeInv /\ TypeOK /\ RewardOf(x) \in Reward
  BY RowTypes DEF StoryInv, TierInv, TypeInv, TypeOK, RowsExist, RewardOf, RetryRow
<1>1. SameTables(r)
  BY <1>0 DEF Retry, Try, Accepted, AnswerLost, MarkResolved, RetryDispatched, RetryFailed, SameTables, TypeOK
<1>2. SameRows(r)
  BY DEF KeepsRewards, SameRows, RetriesOf, RewardOf
<1>3. batch' = batch /\ step' = step
  BY DEF Retry, Try, MarkResolved, RetryDispatched, RetryFailed, pubVars
<1>4. SameBatches(r)
  BY <1>3 DEF SameBatches, NextOn, IsHead
<1>5. IsDueHead(w, x) /\ ((\E s \in WorkerStep : WGoTo(w, s)) \/ NextDue(w, x))
  BY DEF Retry, Try, MarkResolved, RetryDispatched, RetryFailed, WorkerStep
<1>6. SameReads(r)
  <2>0. \A v \in RetryWorker : \A y \in due[v] : RewardOf(y)' = RewardOf(y)
    BY <1>0 DEF KeepsRewards, RewardOf, TypeInv, RowsExist
  <2>1. \A v \in RetryWorker : v # w => due'[v] = due[v] /\ wstep'[v] = wstep[v]
    BY <1>0, <1>5 DEF WGoTo, NextDue, TypeOK
  <2>2. ASSUME NEW y \in due[w], RewardOf(y) = r PROVE ~IsDueHead(w, y) /\ y # x
    BY <1>0, <1>5, <2>2, OneDueHead DEF RewardOf
  <2>3. CASE \E s \in WorkerStep : WGoTo(w, s)
    BY <2>0, <2>1, <2>2, <2>3 DEF WGoTo, SameReads, NextOnRow, IsDueHead
  <2>4. CASE NextDue(w, x)
    <3>1. due'[w] = due[w] \ {x} /\ (due[w] # {x} => wstep'[w] = "kafka")
      BY <1>0, <2>4 DEF NextDue, TypeOK
    <3>2. \A y \in due[w] : RewardOf(y) = r => /\ y \in due'[w] /\ NextOnRow(w, y)' = "kafka"
                                               /\ NextOnRow(w, y) = "kafka"
      BY <2>2, <3>1 DEF NextOnRow
    <3> QED BY <2>0, <2>1, <3>1, <3>2 DEF SameReads, NextOnRow, IsDueHead
  <2> QED BY <1>5, <2>3, <2>4
<1> QED BY <1>0, <1>1, <1>2, <1>4, <1>6, Frame DEF StoryInv

----------------------------------------------------------------------------
\* The statements, one by one, as one reward r sees them.

LEMMA EarnTells ==
  ASSUME StoryInv, TypeInv', NEW r \in Reward, Undisturbed(r), NEW q \in Reward, Earn(q)
  PROVE  Story(r)'
<1>0. /\ UNCHANGED <<retries, batch, step, due, wstep, mishaps, delivered>> /\ TypeInv /\ TypeOK
      /\ SameBatches(r) /\ SameReads(r) /\ SameRows(r)
  BY DEF Earn, pubVars, workVars, StoryInv, TierInv, TypeInv, SameBatches, NextOn, IsHead, SameReads,
         RewardOf, NextOnRow, IsDueHead, SameRows, RetriesOf
<1>1. CASE q # r
  <2>1. SameTables(r)
    BY <1>0, <1>1 DEF Earn, SameTables, TypeOK
  <2> QED BY <1>0, <2>1, Frame DEF StoryInv
<1>2. CASE q = r
  <2>0. /\ entryStatus[r] = "absent" /\ entryStatus'[r] = "pending"
        /\ outbox'[r].status = "PENDING" /\ delivered' = delivered
    BY <1>0, <1>2 DEF Earn, TypeOK, OutboxRow
  <2>1. \A p \in Publisher : \A x \in batch[p] : x.reward # r
    BY <2>0, HeldByPublisher DEF AtStep
  <2>2. \A w \in RetryWorker : \A x \in due[w] : RewardOf(x) # r
    BY <2>0, HeldByWorker DEF RowAtStep
  <2>3. RetriesOf(r) = {}
    <3> SUFFICES ASSUME NEW i \in RetriesOf(r) PROVE FALSE
      OBVIOUS
    <3>1. ~IsRead(i)
      BY <2>2 DEF IsRead, RewardOf, RetriesOf
    <3>2. RowAtRest(i, r)
      BY <3>1 DEF StoryInv, Story, WorkerSide, RowStory
    <3> QED BY <2>0, <3>2 DEF RowAtRest
  <2>4. AtRest(r)
    BY <2>1, <2>3 DEF StoryInv, Story, PublisherSide, RestStory, HasNoRetry, InBatch
  <2>5. AtRest(r)'
    BY <1>0, <2>0, <2>4 DEF AtRest, Counted
  <2>6. PublisherSide(r)'
    BY <1>0, <2>1, <2>5 DEF PublisherSide, OnePublisher, BatchStory, RestStory
  <2>7. RetriesOf(r)' = {} /\ \A w \in RetryWorker : \A x \in due'[w] : RewardOf(x)' # r
    BY <1>0, <2>2, <2>3 DEF RetriesOf, RewardOf
  <2>8. WorkerSide(r)'
    BY <2>7 DEF WorkerSide, OneWorker, OneRow, DueStory, RowStory
  <2> QED BY <2>6, <2>8 DEF Story
<1> QED BY <1>1, <1>2

LEMMA FetchPendingTells ==
  ASSUME StoryInv, TypeInv', NEW r \in Reward, Undisturbed(r), Undisturbed(r)', mishaps[r] \subseteq mishaps'[r],
         NEW p \in Publisher, FetchPending(p)
  PROVE  Story(r)'
<1>0. /\ UNCHANGED <<entryStatus, outbox, retries, delivered, due, wstep>> /\ step[p] = "idle"
      /\ step'[p] = "send" /\ TypeInv /\ TypeOK
      /\ batch'[p] = {[reward |-> q, attempts |-> outbox[q].attempts] : q \in PendingBatch}
      /\ \A q \in Publisher : q # p => batch'[q] = batch[q] /\ step'[q] = step[q]
  BY DEF FetchPending, workVars, StoryInv, TierInv, TypeInv, TypeOK
<1>1. CASE r \notin PendingBatch
  <2>1. \A y \in batch'[p] : y.reward # r
    BY <1>0, <1>1
  <2>2. \A x \in batch[p] : NextOn(p, x) \notin HalfWritten
    BY <1>0 DEF NextOn, HalfWritten
  <2> QED BY <1>0, <2>1, <2>2, BatchDropped DEF SameTables
<1>2. CASE r \in PendingBatch
  <2>1. ~InHand(r)
    <3>1. InHand(r) => "shared" \in mishaps'[r]
      BY <1>2 DEF FetchPending, Befalls
    <3> QED BY <3>1 DEF Undisturbed
  <2>2. outbox[r].status = "PENDING"
    BY <1>2 DEF PendingBatch, Pending
  <2>3. RetriesOf(r) = {}
    BY <2>2 DEF StoryInv, Story, WorkerSide, RowStory
  <2>4. AtRest(r)
    BY <2>1, <2>3 DEF StoryInv, Story, PublisherSide, RestStory, HasNoRetry, InBatch, InHand
  <2>5. AtStep("send", r)
    BY <2>2, <2>3, <2>4 DEF AtRest, AtStep, HasNoRetry
  <2>6. RetriesOf(r)' = {} /\ \A w \in RetryWorker : \A x \in due'[w] : RewardOf(x)' # r
    BY <1>0, <2>1, <2>3 DEF RetriesOf, RewardOf, InHand
  <2>7. WorkerSide(r)'
    BY <2>6 DEF WorkerSide, OneWorker, OneRow, DueStory, RowStory
  <2>8. \A q \in Publisher : \A y \in batch'[q] : y.reward = r => q = p
    BY <1>0, <2>1 DEF InHand
  <2>9. AtStep("send", r)'
    BY <1>0, <2>5, <2>6 DEF AtStep, HasNoRetry, Counted
  <2>10. \A y \in batch'[p] : AtStep(NextOn(p, y), r)'
    BY <1>0, <2>9 DEF NextOn, AtStep
  <2>11. InBatch(r)'
    <3>1. [reward |-> r, attempts |-> outbox[r].attempts] \in batch'[p]
      BY <1>0, <1>2
    <3> QED BY <3>1 DEF InBatch
  <2>12. OnePublisher(r)' /\ BatchStory(r)' /\ RestStory(r)'
    BY <2>8, <2>10, <2>11 DEF OnePublisher, BatchStory, RestStory
  <2> QED BY <2>7, <2>12 DEF Story, PublisherSide
<1> QED BY <1>1, <1>2

LEMMA PublishTells ==
  ASSUME StoryInv, TypeInv', NEW r \in Reward, Undisturbed(r), mishaps[r] \subseteq mishaps'[r],
         NEW p \in Publisher, NEW x \in batch[p], x.reward = r, Publish(p, x), ~CannotRead(p, x)
  PROVE  Story(r)'
<1>0. /\ TypeInv /\ TypeOK /\ x \in OutboxRead /\ outbox[r] \in OutboxRow /\ delivered[r] \in Nat
      /\ AtStep(NextOn(p, x), r)
  BY HeldByPublisher DEF StoryInv, TierInv, TypeInv, TypeOK
<1>h. ASSUME IsHead(p, x) PROVE AtStep(step[p], r)
  BY <1>0, <1>h DEF NextOn
<1>g. ASSUME NEW s, GoTo(p, s) PROVE batch' = batch /\ step'[p] = s
  BY <1>0, <1>g DEF GoTo, TypeOK
<1>l. ASSUME NextInBatch(p, x)
      PROVE  (\A q \in Publisher : q # p => batch'[q] = batch[q]) /\ \A y \in batch'[p] : y.reward # r
  <2>1. batch'[p] = batch[p] \ {x} /\ \A q \in Publisher : q # p => batch'[q] = batch[q]
    BY <1>0, <1>l DEF NextInBatch, TypeOK
  <2> QED BY <2>1, HeldByPublisher
<1>w. due' = due
  BY DEF Publish, Send, CannotRead, MarkPublished, MarkDispatched, IncrementAttempts, RecordFailure,
         MarkFailed, MarkDispatchFailed, CreateRetry, workVars
<1>1. ASSUME Send(p, x) PROVE Story(r)'
  <2>1. IsHead(p, x) /\ AtStep("send", r) /\ UNCHANGED <<entryStatus, outbox, retries>>
    BY <1>1, <1>h DEF Send
  <2>2. CASE Accepted(r) /\ GoTo(p, "markPublished") /\ UNCHANGED mishaps
    <3>1. delivered'[r] = delivered[r] + 1
      BY <1>0, <2>2 DEF Accepted, TypeOK
    <3>2. AtStep("markPublished", r)'
      BY <1>0, <2>1, <2>2, <3>1 DEF AtStep, HasNoRetry, RetriesOf, Counted
    <3>3. batch' = batch /\ step'[p] = "markPublished"
      BY <1>g, <2>2
    <3> QED BY <1>w, <2>1, <3>2, <3>3, PublisherWrites
  <2>3. ASSUME GoTo(p, OnError(x)), Counted(r, 0)' PROVE Story(r)'
    <3>1. PICK s : s = OnError(x)
      OBVIOUS
    <3>2. s \in {"incrementAttempts", "markFailed"}
      BY <3>1 DEF OnError
    <3>3. AtStep(s, r)'
      BY <2>1, <2>3, <3>2 DEF AtStep, HasNoRetry, RetriesOf, Counted
    <3>4. batch' = batch /\ step'[p] = s
      BY <1>g, <2>3, <3>1
    <3> QED BY <1>w, <2>1, <3>3, <3>4, PublisherWrites
  <2>4. CASE UNCHANGED <<delivered, mishaps>> /\ GoTo(p, OnError(x))
    BY <2>1, <2>3, <2>4 DEF AtStep, Counted
  <2>5. CASE AnswerLost(r) /\ GoTo(p, OnError(x))
    <3>1. mishaps'[r] # {}
      BY <1>0, <2>5 DEF AnswerLost, Befalls
    <3> QED BY <2>3, <2>5, <3>1 DEF Counted
  <2> QED BY <1>1, <2>2, <2>4, <2>5 DEF Send
<1>2. ASSUME NEW before, NEW after, NEW status, step[p] = before, IsHead(p, x), GoTo(p, after),
             SetOutbox(r, status), UNCHANGED <<entryStatus, retries, delivered, mishaps>>,
             \/ before = "markPublished" /\ status = "PUBLISHED" /\ after = "markDispatched"
             \/ before = "markFailed" /\ status = "FAILED" /\ after = "markDispatchFailed"
      PROVE  Story(r)'
  <2>1. outbox'[r].status = status
    BY <1>0, <1>2 DEF SetOutbox, TypeOK
  <2>2. AtStep(before, r)
    BY <1>h, <1>2
  <2>3. AtStep(after, r)'
    BY <1>2, <2>1, <2>2 DEF AtStep, HasNoRetry, RetriesOf, Counted
  <2>4. batch' = batch /\ step'[p] = after
    BY <1>g, <1>2
  <2> QED BY <1>2, <1>w, <2>3, <2>4, PublisherWrites
<1>3. ASSUME MarkPublished(p, x) \/ MarkFailed(p, x) PROVE Story(r)'
  BY <1>2, <1>3 DEF MarkPublished, MarkFailed
<1>4. ASSUME MarkDispatched(p, x) PROVE Story(r)'
  <2>1. AtStep("markDispatched", r) /\ entryStatus'[r] = "dispatched"
    BY <1>0, <1>4, <1>h DEF MarkDispatched, TypeOK
  <2>2. AtRest(r)'
    BY <1>4, <2>1 DEF MarkDispatched, AtStep, AtRest, Counted
  <2> QED BY <1>4, <1>l, <1>w, <2>2, PublisherLetsGo DEF MarkDispatched
<1>5. ASSUME IncrementAttempts(p, x) PROVE Story(r)'
  <2>1. AtStep("incrementAttempts", r) /\ UNCHANGED <<entryStatus, retries, delivered, mishaps>>
    BY <1>5, <1>h DEF IncrementAttempts
  <2>2. outbox'[r].status = outbox[r].status
    BY <1>0, <1>5 DEF IncrementAttempts, Attempted, OutboxRow, TypeOK
  <2>3. AtStep("recordFailure", r)'
    BY <2>1, <2>2 DEF AtStep, HasNoRetry, RetriesOf, Counted
  <2>4. batch' = batch /\ step'[p] = "recordFailure"
    BY <1>5, <1>g DEF IncrementAttempts
  <2> QED BY <1>5, <1>w, <2>1, <2>3, <2>4, PublisherWrites DEF IncrementAttempts
<1>6. ASSUME RecordFailure(p, x) PROVE Story(r)'
  <2>1. AtStep("recordFailure", r)
    BY <1>6, <1>h DEF RecordFailure
  <2>2. AtRest(r)'
    BY <1>6, <2>1 DEF RecordFailure, AtStep, AtRest, Counted
  <2> QED BY <1>6, <1>l, <1>w, <2>2, PublisherLetsGo DEF RecordFailure
<1>7. ASSUME MarkDispatchFailed(p, x) PROVE Story(r)'
  <2>1. AtStep("markDispatchFailed", r) /\ entryStatus'[r] = "failed" /\ UNCHANGED <<outbox, retries, delivered, mishaps>>
    BY <1>0, <1>7, <1>h DEF MarkDispatchFailed, TypeOK
  <2>2. AtStep("createRetry", r)'
    BY <2>1 DEF AtStep, HasNoRetry, RetriesOf, Counted
  <2>3. batch' = batch /\ step'[p] = "createRetry"
    BY <1>7, <1>g DEF MarkDispatchFailed
  <2> QED BY <1>7, <1>w, <2>1, <2>2, <2>3, PublisherWrites DEF MarkDispatchFailed
<1>8. ASSUME CreateRetry(p, x) PROVE Story(r)'
  <2>0. PICK n : n = Len(retries) + 1
    OBVIOUS
  <2>1. AtStep("createRetry", r) /\ UNCHANGED <<entryStatus, outbox, delivered, mishaps>> /\ NextInBatch(p, x)
    BY <1>8, <1>h DEF CreateRetry
  <2>2. /\ DOMAIN retries' = DOMAIN retries \cup {n} /\ n \notin DOMAIN retries
        /\ \A i \in DOMAIN retries : retries'[i] = retries[i]
        /\ retries'[n].reward = r /\ retries'[n].status = "pending"
    BY <1>0, <1>8, <2>0 DEF CreateRetry, TypeOK
  <2>3. RetriesOf(r)' = {n}
    BY <2>1, <2>2 DEF RetriesOf, AtStep, HasNoRetry
  <2>4. \A w \in RetryWorker : \A y \in due'[w] : y.row \in DOMAIN retries /\ RewardOf(y)' # r
    BY <1>0, <1>w, <2>1, <2>2 DEF RewardOf, TypeInv, RowsExist, AtStep, HasNoRetry, RetriesOf
  <2>5. ~IsRead(n)'
    BY <2>2, <2>4 DEF IsRead
  <2>6. outbox'[r].status = "FAILED" /\ RowAtRest(n, r)'
    BY <2>1, <2>2 DEF AtStep, RowAtRest, Counted
  <2>7. WorkerSide(r)'
    BY <2>3, <2>4, <2>5, <2>6 DEF WorkerSide, OneWorker, OneRow, DueStory, RowStory
  <2>8. \A q \in Publisher : \A y \in batch'[q] : y.reward # r
    BY <1>l, <2>1, HeldByPublisher
  <2>9. PublisherSide(r)'
    BY <2>3, <2>8 DEF PublisherSide, OnePublisher, BatchStory, RestStory, HasNoRetry
  <2> QED BY <2>7, <2>9 DEF Story
<1> HIDE DEF Story
<1> QED BY <1>1, <1>3, <1>4, <1>5, <1>6, <1>7, <1>8 DEF Publish

LEMMA CannotReadTells ==
  ASSUME StoryInv, TypeInv', NEW r \in Reward, Undisturbed(r), mishaps[r] \subseteq mishaps'[r],
         NEW p \in Publisher, NEW x \in batch[p], CannotRead(p, x)
  PROVE  Story(r)'
<1>1. /\ UNCHANGED <<entryStatus, outbox, retries, delivered, due, wstep>> /\ step[p] = "send"
      /\ batch'[p] = {} /\ \A q \in Publisher : q # p => batch'[q] = batch[q] /\ step'[q] = step[q]
  BY DEF CannotRead, workVars, StoryInv, TierInv, TypeInv, TypeOK
<1>2. \A y \in batch[p] : NextOn(p, y) \notin HalfWritten
  BY <1>1 DEF NextOn, HalfWritten
<1> QED BY <1>1, <1>2, BatchDropped DEF SameTables

LEMMA AbandonBatchTells ==
  ASSUME StoryInv, TypeInv', NEW r \in Reward, Undisturbed(r), Undisturbed(r)', mishaps[r] \subseteq mishaps'[r],
         NEW p \in Publisher, AbandonBatch(p)
  PROVE  Story(r)'
<1>1. /\ UNCHANGED <<entryStatus, outbox, retries, delivered, due, wstep>>
      /\ batch'[p] = {} /\ \A q \in Publisher : q # p => batch'[q] = batch[q] /\ step'[q] = step[q]
  BY DEF AbandonBatch, workVars, StoryInv, TierInv, TypeInv, TypeOK
<1>2. ASSUME NEW y \in batch[p], y.reward = r PROVE NextOn(p, y) \notin HalfWritten
  <2>1. CASE IsHead(p, y) /\ step[p] \in HalfWritten
    <3>1. "fault" \in mishaps'[r]
      BY <1>2, <2>1 DEF AbandonBatch, Befalls
    <3> QED BY <3>1 DEF Undisturbed
  <2> QED BY <2>1 DEF NextOn, HalfWritten
<1> QED BY <1>1, <1>2, BatchDropped DEF SameTables

LEMMA FetchDueTells ==
  ASSUME StoryInv, TypeInv', NEW r \in Reward, Undisturbed(r), Undisturbed(r)', mishaps[r] \subseteq mishaps'[r],
         NEW w \in RetryWorker, FetchDue(w)
  PROVE  Story(r)'
<1>0. /\ UNCHANGED <<entryStatus, outbox, retries, delivered, batch, step>> /\ wstep[w] = "idle"
      /\ wstep'[w] = "kafka" /\ TypeInv /\ TypeOK
      /\ due'[w] = {[row |-> i, attempts |-> retries[i].attempts] : i \in DueRows}
      /\ \A v \in RetryWorker : v # w => due'[v] = due[v] /\ wstep'[v] = wstep[v]
  BY DEF FetchDue, pubVars, StoryInv, TierInv, TypeInv, TypeOK
<1>1. CASE \A i \in DueRows : retries[i].reward # r
  <2>1. \A y \in due'[w] : RewardOf(y) # r
    BY <1>0, <1>1 DEF RewardOf
  <2>2. \A x \in due[w] : NextOnRow(w, x) \notin {"markResolved", "markDispatched"}
    BY <1>0 DEF NextOnRow
  <2> QED BY <1>0, <2>1, <2>2, ReadsDropped DEF SameTables
<1>2. ASSUME NEW i \in DueRows, retries[i].reward = r PROVE Story(r)'
  <2>1. ~InHand(r)
    <3>1. InHand(r) => "shared" \in mishaps'[r]
      BY <1>2 DEF FetchDue, Befalls
    <3> QED BY <3>1 DEF Undisturbed
  <2>2. i \in RetriesOf(r) /\ retries[i].status = "pending" /\ ~IsRead(i)
    BY <1>2, <2>1 DEF DueRows, RetriesOf, IsRead, InHand, RewardOf
  <2>3. /\ \A j \in RetriesOf(r) : j = i
        /\ outbox[r].status = "FAILED" /\ RowAtRest(i, r)
    BY <2>2 DEF StoryInv, Story, WorkerSide, OneRow, RowStory
  <2>4. RetriesOf(r)' = RetriesOf(r) /\ RowAtStep("kafka", i, r)'
    BY <1>0, <2>2, <2>3 DEF RetriesOf, RowAtRest, RowAtStep, Counted
  <2>5. ASSUME NEW v \in RetryWorker, NEW y \in due'[v], RewardOf(y)' = r PROVE v = w /\ y.row = i
    <3>1. RewardOf(y) = r
      BY <1>0, <2>5 DEF RewardOf
    <3>2. v = w
      BY <1>0, <2>1, <3>1 DEF InHand
    <3>3. y.row \in DueRows
      BY <1>0, <3>2
    <3> QED BY <2>3, <3>1, <3>2, <3>3 DEF DueRows, RetriesOf, RewardOf
  <2>6. OneWorker(r)' /\ OneRow(r)'
    BY <2>3, <2>4, <2>5 DEF OneWorker, OneRow
  <2>7. DueStory(r)'
    <3> SUFFICES ASSUME NEW v \in RetryWorker, NEW y \in due'[v], RewardOf(y)' = r
                 PROVE  RowAtStep(NextOnRow(v, y), y.row, r)'
      BY DEF DueStory
    <3>1. v = w /\ y.row = i
      BY <2>5
    <3> QED BY <1>0, <2>4, <3>1 DEF NextOnRow, RowAtStep
  <2>8. RowStory(r)'
    <3>1. [row |-> i, attempts |-> retries[i].attempts] \in due'[w]
      BY <1>0, <1>2
    <3>2. IsRead(i)'
      BY <3>1 DEF IsRead
    <3> QED BY <1>0, <2>3, <2>4, <3>2 DEF RowStory
  <2>9. PublisherSide(r)'
    <3>1. \A p \in Publisher : \A y \in batch'[p] : y.reward # r
      BY <1>0, <2>1 DEF InHand
    <3> QED BY <2>2, <2>4, <3>1 DEF PublisherSide, OnePublisher, BatchStory, RestStory, HasNoRetry
  <2> QED BY <2>6, <2>7, <2>8, <2>9 DEF Story, WorkerSide
<1> QED BY <1>1, <1>2

\* A worker's statement writes the row of its head.
LEMMA RetryRows ==
  ASSUME TypeInv, NEW w \in RetryWorker, NEW x \in due[w], Retry(w, x)
  PROVE  /\ KeepsRewards
         /\ \A i \in DOMAIN retries : i # x.row => retries'[i].status = retries[i].status
         /\ \/ retries' = retries
            \/ MarkResolved(w, x) /\ retries'[x.row].status = "resolved"
            \/ RetryFailed(w, x) /\ retries'[x.row].status \in {"exhausted", retries[x.row].status}
<1>0. TypeOK /\ x.row \in DOMAIN retries /\ retries[x.row] \in RetryRow
  BY RowTypes DEF TypeInv, RowsExist, TypeOK
<1>1. CASE retries' = retries
  BY <1>1 DEF KeepsRewards
<1>2. ASSUME NEW status, SetRetry(x.row, status)
      PROVE  /\ KeepsRewards /\ retries'[x.row].status = status
             /\ \A i \in DOMAIN retries : i # x.row => retries'[i].status = retries[i].status
  BY <1>0, <1>2 DEF SetRetry, KeepsRewards, TypeOK, RetryRow
<1>3. ASSUME retries' = [retries EXCEPT ![x.row] = BackedOff(@)]
      PROVE  /\ KeepsRewards /\ retries'[x.row].status = retries[x.row].status
             /\ \A i \in DOMAIN retries : i # x.row => retries'[i].status = retries[i].status
  BY <1>0, <1>3, BackedOffType DEF KeepsRewards, TypeOK
<1>4. CASE MarkResolved(w, x)
  BY <1>2, <1>4 DEF MarkResolved
<1>5. CASE RetryFailed(w, x)
  BY <1>2, <1>3, <1>5 DEF RetryFailed
<1> QED BY <1>1, <1>4, <1>5 DEF Retry, Try, RetryDispatched

LEMMA RetryTells ==
  ASSUME StoryInv, TypeInv', NEW r \in Reward, Undisturbed(r), mishaps[r] \subseteq mishaps'[r],
         NEW w \in RetryWorker, NEW x \in due[w], RewardOf(x) = r, Retry(w, x)
  PROVE  Story(r)'
<1>0. /\ TypeInv /\ TypeOK /\ x.row \in DOMAIN retries /\ delivered[r] \in Nat /\ KeepsRewards
      /\ RowAtStep(NextOnRow(w, x), x.row, r)
  BY HeldByWorker, RetryRows DEF StoryInv, TierInv, TypeInv, TypeOK, RowsExist
<1>h. ASSUME IsDueHead(w, x) PROVE RowAtStep(wstep[w], x.row, r)
  BY <1>0, <1>h DEF NextOnRow
<1>g. ASSUME NEW s, WGoTo(w, s) PROVE due' = due /\ wstep'[w] = s
  BY <1>0, <1>g DEF WGoTo, TypeOK
<1>l. ASSUME NextDue(w, x)
      PROVE  (\A v \in RetryWorker : v # w => due'[v] = due[v]) /\ \A y \in due'[w] : RewardOf(y)' # r
  <2>1. due'[w] = due[w] \ {x} /\ \A v \in RetryWorker : v # w => due'[v] = due[v]
    BY <1>0, <1>l DEF NextDue, TypeOK
  <2>2. \A y \in due[w] : RewardOf(y)' = RewardOf(y)
    BY <1>0 DEF KeepsRewards, RewardOf, TypeInv, RowsExist
  <2> QED BY <2>1, <2>2, HeldByWorker
<1>w. batch' = batch /\ (~RetryDispatched(w, x) => entryStatus' = entryStatus) /\ outbox' = outbox
  BY DEF Retry, Try, MarkResolved, RetryDispatched, RetryFailed, pubVars
<1>1. ASSUME NEW channel \in {"kafka", "grpc"}, NEW onError \in {"grpc", "recordFailure"},
             Try(w, x, channel, onError)
      PROVE  Story(r)'
  <2>1. IsDueHead(w, x) /\ UNCHANGED <<entryStatus, retries>> /\ RowAtStep(channel, x.row, r)
    BY <1>1, <1>h DEF Try
  <2>2. CASE Accepted(r) /\ WGoTo(w, "markResolved") /\ UNCHANGED mishaps
    <3>1. delivered'[r] = delivered[r] + 1
      BY <1>0, <2>2 DEF Accepted, TypeOK
    <3>2. RowAtStep("markResolved", x.row, r)'
      BY <1>0, <2>1, <2>2, <3>1 DEF RowAtStep, Counted
    <3>3. due' = due /\ wstep'[w] = "markResolved"
      BY <1>g, <2>2
    <3> QED BY <1>0, <1>w, <2>1, <3>2, <3>3, WorkerWrites
  <2>3. ASSUME WGoTo(w, onError), Counted(r, 0)' PROVE Story(r)'
    <3>1. RowAtStep(onError, x.row, r)'
      BY <2>1, <2>3 DEF RowAtStep, Counted
    <3>2. due' = due /\ wstep'[w] = onError
      BY <1>g, <2>3
    <3> QED BY <1>0, <1>w, <2>1, <3>1, <3>2, WorkerWrites
  <2>4. CASE UNCHANGED <<delivered, mishaps>> /\ WGoTo(w, onError)
    BY <2>1, <2>3, <2>4 DEF RowAtStep, Counted
  <2>5. CASE AnswerLost(r) /\ WGoTo(w, onError)
    <3>1. mishaps'[r] # {}
      BY <1>0, <2>5 DEF AnswerLost, Befalls, TypeOK
    <3> QED BY <2>3, <2>5, <3>1 DEF Counted
  <2> QED BY <1>1, <2>2, <2>4, <2>5 DEF Try
<1>2. ASSUME MarkResolved(w, x) PROVE Story(r)'
  <2>1. IsDueHead(w, x) /\ RowAtStep("markResolved", x.row, r) /\ UNCHANGED <<entryStatus, delivered, mishaps>>
    BY <1>2, <1>h DEF MarkResolved
  <2>2. retries'[x.row].status = "resolved"
    BY <1>0, <1>2, RowTypes DEF MarkResolved, SetRetry, TypeOK, RetryRow
  <2>3. RowAtStep("markDispatched", x.row, r)'
    BY <2>1, <2>2 DEF RowAtStep, Counted
  <2>4. due' = due /\ wstep'[w] = "markDispatched"
    BY <1>2, <1>g DEF MarkResolved
  <2> QED BY <1>0, <1>w, <2>1, <2>3, <2>4, WorkerWrites
<1>3. ASSUME RetryDispatched(w, x) PROVE Story(r)'
  <2>1. RowAtStep("markDispatched", x.row, r) /\ entryStatus'[r] = "dispatched" /\ UNCHANGED <<retries, delivered, mishaps>>
    BY <1>0, <1>3, <1>h DEF RetryDispatched, TypeOK
  <2>2. RowAtRest(x.row, r)'
    BY <2>1 DEF RowAtStep, RowAtRest, Counted
  <2> QED BY <1>0, <1>3, <1>l, <1>w, <2>2, WorkerLetsGo DEF RetryDispatched
<1>4. ASSUME RetryFailed(w, x) PROVE Story(r)'
  <2>1. RowAtStep("recordFailure", x.row, r) /\ UNCHANGED <<entryStatus, delivered, mishaps>>
    BY <1>4, <1>h DEF RetryFailed
  <2>2. retries'[x.row].status # "resolved"
    <3>1. ~MarkResolved(w, x)
      BY <1>4 DEF MarkResolved, RetryFailed
    <3> QED BY <1>0, <2>1, <3>1, RetryRows DEF RowAtStep
  <2>3. RowAtRest(x.row, r)'
    BY <2>1, <2>2 DEF RowAtStep, RowAtRest, Counted
  <2> QED BY <1>0, <1>4, <1>l, <1>w, <2>3, WorkerLetsGo DEF RetryFailed
<1> HIDE DEF Story
<1> QED BY <1>1, <1>2, <1>3, <1>4 DEF Retry

LEMMA AbandonDueTells ==
  ASSUME StoryInv, TypeInv', NEW r \in Reward, Undisturbed(r), Undisturbed(r)', mishaps[r] \subseteq mishaps'[r],
         NEW w \in RetryWorker, AbandonDue(w)
  PROVE  Story(r)'
<1>1. /\ UNCHANGED <<entryStatus, outbox, retries, delivered, batch, step>>
      /\ due'[w] = {} /\ \A v \in RetryWorker : v # w => due'[v] = due[v] /\ wstep'[v] = wstep[v]
  BY DEF AbandonDue, pubVars, StoryInv, TierInv, TypeInv, TypeOK
<1>2. ASSUME NEW y \in due[w], RewardOf(y) = r PROVE NextOnRow(w, y) \notin {"markResolved", "markDispatched"}
  <2>1. CASE IsDueHead(w, y) /\ wstep[w] \in {"markResolved", "markDispatched"}
    <3>1. "fault" \in mishaps'[r]
      BY <1>2, <2>1 DEF AbandonDue, Befalls
    <3> QED BY <3>1 DEF Undisturbed
  <2> QED BY <2>1 DEF NextOnRow
<1> QED BY <1>1, <1>2, ReadsDropped DEF SameTables

LEMMA BackoffTells ==
  ASSUME StoryInv, TypeInv', NEW r \in Reward, Undisturbed(r), mishaps[r] \subseteq mishaps'[r],
         NEW i \in DOMAIN retries, BackoffElapses(i)
  PROVE  Story(r)'
<1>0. UNCHANGED <<entryStatus, outbox, delivered, batch, step, due, wstep>> /\ TypeInv /\ TypeOK
  BY DEF BackoffElapses, pubVars, workVars, StoryInv, TierInv, TypeInv
<1>1. /\ DOMAIN retries' = DOMAIN retries
      /\ \A j \in DOMAIN retries : retries'[j].reward = retries[j].reward /\ retries'[j].status = retries[j].status
  BY <1>0, RowTypes DEF BackoffElapses, TypeOK, RetryRow
<1>2. SameTables(r) /\ SameRows(r) /\ SameBatches(r)
  BY <1>0, <1>1 DEF SameTables, SameRows, RetriesOf, SameBatches, NextOn, IsHead
<1>3. SameReads(r)
  BY <1>0, <1>1 DEF SameReads, RewardOf, NextOnRow, IsDueHead, TypeInv, RowsExist
<1> QED BY <1>0, <1>2, <1>3, Frame DEF StoryInv

LEMMA StoryStep == StoryInv /\ [Next]_vars => StoryInv'
<1> SUFFICES ASSUME StoryInv, [Next]_vars PROVE StoryInv'
  OBVIOUS
<1>1. TierInv' /\ ReadOnce' /\ TypeInv'
  BY TierInvStep, ReadOnceStep DEF StoryInv, TierInv, TypeInv
<1>2. ASSUME NEW r \in Reward, Undisturbed(r)' PROVE Story(r)'
  <2>0. mishaps[r] \subseteq mishaps'[r] /\ Undisturbed(r)
    BY <1>2, HistoryGrows DEF Undisturbed, StoryInv, TierInv, TypeInv
  <2>1. CASE UNCHANGED vars
    <3>1. SameTables(r) /\ SameRows(r) /\ SameBatches(r) /\ SameReads(r)
      BY <2>1 DEF vars, pubVars, workVars, SameTables, SameRows, RetriesOf, SameBatches, NextOn, IsHead,
                  SameReads, RewardOf, NextOnRow, IsDueHead
    <3> QED BY <1>1, <2>0, <3>1, Frame DEF StoryInv, TierInv
  <2>2. ASSUME NEW p \in Publisher, NEW x \in batch[p], MarkingFails(p, x) PROVE Story(r)'
    <3>1. CASE x.reward = r
      <4>1. "fault" \in mishaps'[r]
        BY <2>2, <3>1 DEF MarkingFails, Befalls
      <4> QED BY <1>2, <4>1 DEF Undisturbed
    <3>2. CASE x.reward # r
      <4>1. ~CannotRead(p, x)
        BY <2>2 DEF MarkingFails, CannotRead
      <4> QED BY <1>1, <2>0, <2>2, <3>2, <4>1, OtherPublished
    <3> QED BY <3>1, <3>2
  <2>3. ASSUME NEW p \in Publisher, NEW x \in batch[p], Publish(p, x) PROVE Story(r)'
    BY <1>1, <2>0, <2>3, CannotReadTells, OtherPublished, PublishTells
  <2>4. ASSUME NEW w \in RetryWorker, NEW x \in due[w], Retry(w, x) PROVE Story(r)'
    <3>1. KeepsRewards /\ \A i \in DOMAIN retries : i # x.row => retries'[i].status = retries[i].status
      BY <2>4, RetryRows DEF StoryInv, TierInv
    <3> QED BY <1>1, <2>0, <2>4, <3>1, OtherRetried, RetryTells
  <2>5. CASE \E q \in Reward : Earn(q)
    BY <1>1, <2>0, <2>5, EarnTells
  <2>6. ASSUME NEW p \in Publisher, FetchPending(p) \/ AbandonBatch(p) PROVE Story(r)'
    BY <1>1, <1>2, <2>0, <2>6, FetchPendingTells, AbandonBatchTells
  <2>7. ASSUME NEW w \in RetryWorker, FetchDue(w) \/ AbandonDue(w) PROVE Story(r)'
    BY <1>1, <1>2, <2>0, <2>7, FetchDueTells, AbandonDueTells
  <2>8. CASE \E i \in DOMAIN retries : BackoffElapses(i)
    BY <1>1, <2>0, <2>8, BackoffTells
  <2> HIDE DEF Story
  <2> QED BY <2>1, <2>2, <2>3, <2>4, <2>5, <2>6, <2>7, <2>8 DEF Next, PublisherRuns, WorkerRuns
<1> QED BY <1>1, <1>2 DEF StoryInv

LEMMA StoryInvariance == Spec => []StoryInv
<1>1. StoryInv /\ [Next]_vars => StoryInv'
  BY StoryStep
<1> QED BY <1>1, StoryInit, PTL DEF Spec

\* Whatever instances, faults and lost answers there are, a reward is accepted a second time
\* only after an answer about it was lost, two instances held it at once or a fault struck
\* it half-way: in every other history the tier that delivers it takes it from the others.
THEOREM DeliveredOnce == Spec => []NeverDeliveredTwice
<1>1. StoryInv => NeverDeliveredTwice
  <2> SUFFICES ASSUME StoryInv, NEW r \in Reward, mishaps[r] = {} PROVE delivered[r] <= 1
    BY DEF NeverDeliveredTwice
  <2>0. Undisturbed(r) /\ Story(r)
    BY DEF Undisturbed, StoryInv
  <2>1. CASE InBatch(r)
    <3>1. ASSUME NEW p \in Publisher, NEW x \in batch[p], x.reward = r PROVE delivered[r] <= 1
      BY <2>0, <3>1, HeldByPublisher DEF AtStep, Counted
    <3> QED BY <2>1, <3>1 DEF InBatch
  <2>2. ASSUME NEW i \in RetriesOf(r) PROVE delivered[r] <= 1
    <3>1. ASSUME NEW w \in RetryWorker, NEW x \in due[w], x.row = i PROVE delivered[r] <= 1
      <4>1. RewardOf(x) = r
        BY <2>2, <3>1 DEF RewardOf, RetriesOf
      <4> QED BY <2>0, <4>1, HeldByWorker DEF RowAtStep, Counted
    <3>2. CASE ~IsRead(i)
      BY <2>0, <3>2 DEF Story, WorkerSide, RowStory, RowAtRest, Counted
    <3> QED BY <3>1, <3>2 DEF IsRead
  <2>3. CASE RetriesOf(r) = {} /\ ~InBatch(r)
    BY <2>0, <2>3 DEF Story, PublisherSide, RestStory, HasNoRetry, AtRest, Counted
  <2> QED BY <2>1, <2>2, <2>3
<1> QED BY <1>1, StoryInvariance, PTL

\* And its three tables agree whenever nobody is working on it, unless two instances held it
\* at once or a fault struck it half-way.
THEOREM TablesAgree == Spec => []StatusesAgree
<1>1. StoryInv => StatusesAgree
  <2> SUFFICES ASSUME StoryInv, NEW r \in Reward, ~InHand(r), Undisturbed(r)
               PROVE  /\ entryStatus[r] = "dispatched" <=> (outbox[r].status = "PUBLISHED" \/ Resolved(r))
                      /\ entryStatus[r] = "failed" <=> (outbox[r].status = "FAILED" /\ ~Resolved(r))
                      /\ outbox[r].status = "FAILED" => RetriesOf(r) # {}
    BY DEF StatusesAgree, Undisturbed
  <2>0. Story(r)
    BY DEF StoryInv
  <2>1. ~InBatch(r) /\ \A i \in RetriesOf(r) : ~IsRead(i)
    BY DEF InHand, InBatch, IsRead, RewardOf, RetriesOf
  <2>2. CASE RetriesOf(r) = {}
    <3>1. AtRest(r) /\ ~Resolved(r)
      BY <2>0, <2>1, <2>2 DEF Story, PublisherSide, RestStory, HasNoRetry, Resolved
    <3> QED BY <3>1 DEF AtRest
  <2>3. ASSUME NEW i \in RetriesOf(r)
        PROVE  /\ outbox[r].status = "FAILED" /\ RowAtRest(i, r)
               /\ Resolved(r) <=> retries[i].status = "resolved"
    BY <2>0, <2>1, <2>3 DEF Story, WorkerSide, RowStory, OneRow, Resolved
  <2> QED BY <2>2, <2>3 DEF RowAtRest
<1> QED BY <1>1, StoryInvariance, PTL
=============================================================================
