------------------------- MODULE ActivityProcessing -------------------------
(***************************************************************************)
(* The core of realtime-activity-processing-service: activity_logs rows    *)
(* are fanned out by ingestion, claimed one at a time by worker lanes, and *)
(* handled in one database transaction each - advisory lock, sibling       *)
(* gating, progress, tracker status, cap reservation, reward_entry and its *)
(* outbox row, final row status. A handler that throws, or a lane that     *)
(* dies, rolls back and leaves the row "processing" for the stale sweep.   *)
(*                                                                         *)
(* Transactions run at READ COMMITTED: a lane reads committed state, keeps *)
(* its writes in txn[l] until Commit, and holds the customer's advisory    *)
(* lock and every counter row it selected FOR UPDATE until it ends.        *)
(*                                                                         *)
(* An operator named X_Something is X with one plausible bug. Nothing uses *)
(* it; it is there to show that the properties would notice.               *)
(***************************************************************************)
EXTENDS RewardRules

CONSTANTS
  Lane,         \* claim lanes, of one instance or of several
  NoLane,       \* "nobody holds this lock"
  NoRow,        \* "this lane has claimed nothing"
  MayOvertake,  \* may a handler run longer than the stale timeout?
  MaxFaults,    \* bound: handler failures and lane crashes in a run
  MaxSweeps     \* bound: rows the stale sweep takes from a live handler in a run

Row == {r \in Submission \X Component : boundTo[r[2]] = performed[r[1]]}
RowStatus == {"absent", "pending", "processing", "processed", "error"}
Settled == {"processed", "error"}

CustomerOfRow(r) == customerOf[r[1]]
TrackerOfRow(r) == trackerOf[r[2]]

ASSUME LaneAssumption ==
  /\ NoLane \notin Lane
  /\ NoRow \notin Row
  /\ MayOvertake \in BOOLEAN
  /\ MaxFaults \in Nat
  /\ MaxSweeps \in Nat
  /\ \A t \in Tracker : IsFiniteSet(Members(t))
  /\ IsFiniteSet(Submission)

VARIABLES
  rowStatus,     \* [Row -> RowStatus]: activity_logs.status
  reachedAt,     \* [Submission -> Nat]: activity_reached_date, 0 before ingestion
  progress,      \* [Customer -> [Component -> Seq(Cycle)]]
  tracker,       \* [Customer -> [Tracker -> TrackerStatus]]
  used,          \* [CounterKey -> Usage]: committed cap consumption
  entries,       \* set of Entry: reward_entry rows, each with its outbox row
  day,           \* the current calendar period
  pc,            \* [Lane -> {"idle", "claimed", "reserving"}]
  job,           \* [Lane -> Row \cup {NoRow}]: the claimed row
  txn,           \* [Lane -> Txn]: the uncommitted part of a lane's transaction
  advisoryLock,  \* [Customer -> Lane \cup {NoLane}]
  counterLock,   \* [CounterKey -> Lane \cup {NoLane}]: row locks on counters
  advances,      \* [Row -> Nat], history: commits in which the row advanced progress
  faults, sweeps \* what the bounds count

dbVars == <<progress, tracker, used, entries>>
laneVars == <<pc, job, txn, advisoryLock, counterLock>>
boundVars == <<faults, sweeps>>
vars == <<rowStatus, reachedAt, day, advances, dbVars, laneVars, boundVars>>

Entry == [customer: Customer, component: Component, cycle: Nat, code: STRING,
          reward: RewardIx, day: 0..LastDay]

Txn == [cycles: Seq(Cycle), status: TrackerStatus, day: 0..LastDay,
        due: SUBSET RewardIx, granted: SUBSET RewardIx, denied: BOOLEAN,
        checked: SUBSET CapIx, spent: [CounterKey -> Usage]]

NoSpend == [k \in CounterKey |-> NoUsage]
NoTxn == [cycles |-> <<>>, status |-> NoStatus, day |-> 0, due |-> {}, granted |-> {},
          denied |-> FALSE, checked |-> {}, spent |-> NoSpend]

Init ==
  /\ rowStatus = [r \in Row |-> "absent"]
  /\ reachedAt = [s \in Submission |-> 0]
  /\ progress = [u \in Customer |-> [c \in Component |-> <<>>]]
  /\ tracker = [u \in Customer |-> [t \in Tracker |-> NoStatus]]
  /\ used = [k \in CounterKey |-> NoUsage]
  /\ entries = {}
  /\ day = 0
  /\ pc = [l \in Lane |-> "idle"]
  /\ job = [l \in Lane |-> NoRow]
  /\ txn = [l \in Lane |-> NoTxn]
  /\ advisoryLock = [u \in Customer |-> NoLane]
  /\ counterLock = [k \in CounterKey |-> NoLane]
  /\ advances = [r \in Row |-> 0]
  /\ faults = 0
  /\ sweeps = 0

----------------------------------------------------------------------------
\* Ingestion, claiming, and the stale sweep.

\* ingest: one multi-row INSERT ... ON CONFLICT DO NOTHING. Delivering the same
\* submission again adds the rows that are missing, none in this configuration.
Ingest(s) ==
  /\ rowStatus' = [r \in Row |->
       IF r[1] = s /\ rowStatus[r] = "absent" THEN "pending" ELSE rowStatus[r]]
  /\ reachedAt' = IF reachedAt[s] # 0 THEN reachedAt
                  ELSE [reachedAt EXCEPT ![s] = 1 + Cardinality({q \in Submission : reachedAt[q] # 0})]
  /\ UNCHANGED <<day, advances, dbVars, laneVars, boundVars>>

\* claimNextPendingRow: a committed statement of its own, oldest row first;
\* rows of one submission share activity_reached_date.
Claim(l, r) ==
  /\ pc[l] = "idle"
  /\ rowStatus[r] = "pending"
  /\ \A q \in Row : rowStatus[q] = "pending" => reachedAt[r[1]] <= reachedAt[q[1]]
  /\ rowStatus' = [rowStatus EXCEPT ![r] = "processing"]
  /\ pc' = [pc EXCEPT ![l] = "claimed"]
  /\ job' = [job EXCEPT ![l] = r]
  /\ UNCHANGED <<reachedAt, day, advances, dbVars, txn, advisoryLock, counterLock, boundVars>>

Abandoned(r) == \A l \in Lane : job[l] # r

\* sweepStaleProcessingRows. The row is stale because its lane failed or died,
\* or (MayOvertake) because a live handler is slower than the timeout.
SweepStale(r) ==
  /\ rowStatus[r] = "processing"
  /\ \/ Abandoned(r) /\ UNCHANGED sweeps
     \/ ~Abandoned(r) /\ MayOvertake /\ sweeps < MaxSweeps /\ sweeps' = sweeps + 1
  /\ rowStatus' = [rowStatus EXCEPT ![r] = "pending"]
  /\ UNCHANGED <<reachedAt, day, advances, dbVars, laneVars, faults>>

NextDay ==
  /\ day < LastDay
  /\ day' = day + 1
  /\ UNCHANGED <<rowStatus, reachedAt, advances, dbVars, laneVars, boundVars>>

----------------------------------------------------------------------------
\* The handler's transaction.

EndTxn_KeepsAdvisoryLock(l) ==
  /\ pc' = [pc EXCEPT ![l] = "idle"]
  /\ job' = [job EXCEPT ![l] = NoRow]
  /\ txn' = [txn EXCEPT ![l] = NoTxn]
  /\ advisoryLock' = advisoryLock
  /\ counterLock' = [k \in CounterKey |-> IF counterLock[k] = l THEN NoLane ELSE counterLock[k]]

\* The lane's transaction ends: locks released, nothing left in flight.
EndTxn(l) ==
  /\ pc' = [pc EXCEPT ![l] = "idle"]
  /\ job' = [job EXCEPT ![l] = NoRow]
  /\ txn' = [txn EXCEPT ![l] = NoTxn]
  /\ advisoryLock' = [u \in Customer |-> IF advisoryLock[u] = l THEN NoLane ELSE advisoryLock[u]]
  /\ counterLock' = [k \in CounterKey |-> IF counterLock[k] = l THEN NoLane ELSE counterLock[k]]

CanLock_Unlocked(l) == pc[l] = "claimed"
\* acquireCustomerCampaignAdvisoryLock, the first statement of the transaction.
CanLock(l) == pc[l] = "claimed" /\ advisoryLock[CustomerOfRow(job[l])] = NoLane

IsTarget(r) == r[2] \in SiblingTargets(r[1], r[2], progress[CustomerOfRow(r)])
NotTarget(r) == SiblingTargets(r[1], r[2], progress[CustomerOfRow(r)]) # {r[2]}

CyclesAfter(r) == AfterPass(progress[CustomerOfRow(r)][r[2]], requiredCount[r[2]], r[1])
JustCompleted(r) == LatestComplete(CyclesAfter(r))

StatusBefore(r) == tracker[CustomerOfRow(r)][TrackerOfRow(r)]
StatusAfter(r) ==
  IF JustCompleted(r)
  THEN AfterCompletion(StatusBefore(r), TrackerOfRow(r), Cardinality(Members(TrackerOfRow(r))))
  ELSE StatusBefore(r)
DueAfter(r) ==
  IF JustCompleted(r) THEN DueRewards(r[2], TrackerOfRow(r), StatusAfter(r).complete) ELSE {}

\* markProcessed updates by id alone: whatever the row's status is by now.
MarkRow(r, status) == rowStatus' = [rowStatus EXCEPT ![r] = status]

\* handle, ending early: another sibling is the target, or a rule fails.
SkipRow(l) ==
  /\ CanLock(l)
  /\ NotTarget(job[l]) \/ (IsTarget(job[l]) /\ job[l] \notin Passing)
  /\ MarkRow(job[l], "processed")
  /\ EndTxn(l)
  /\ UNCHANGED <<reachedAt, day, advances, dbVars, boundVars>>

Advance(r, cycles, status) ==
  /\ progress' = [progress EXCEPT ![CustomerOfRow(r)][r[2]] = cycles]
  /\ tracker' = [tracker EXCEPT ![CustomerOfRow(r)][TrackerOfRow(r)] = status]
  /\ advances' = [advances EXCEPT ![r] = @ + 1]

MayAdvance(l) ==
  /\ CanLock(l)
  /\ IsTarget(job[l])
  /\ job[l] \in Passing
  /\ JustCompleted(job[l]) => Supported(TrackerOfRow(job[l]))

\* handle, with no reward falling due: begins and commits with no other wait.
AdvanceRow(l) ==
  /\ MayAdvance(l)
  /\ DueAfter(job[l]) = {}
  /\ Advance(job[l], CyclesAfter(job[l]), StatusAfter(job[l]))
  /\ MarkRow(job[l], "processed")
  /\ EndTxn(l)
  /\ UNCHANGED <<reachedAt, day, used, entries, boundVars>>

Opened(r) ==
  [NoTxn EXCEPT !.cycles = CyclesAfter(r), !.status = StatusAfter(r), !.day = day,
                !.due = DueAfter(r)]

\* handle, up to enforceForCompletion: rewardEntryDate is read here, once.
OpenReservation(l) ==
  /\ MayAdvance(l)
  /\ DueAfter(job[l]) # {}
  /\ advisoryLock' = [advisoryLock EXCEPT ![CustomerOfRow(job[l])] = l]
  /\ pc' = [pc EXCEPT ![l] = "reserving"]
  /\ txn' = [txn EXCEPT ![l] = Opened(job[l])]
  /\ UNCHANGED <<rowStatus, reachedAt, day, advances, dbVars, job, counterLock, boundVars>>

\* Assignments are enforced one by one in config order, their caps likewise.
IsNextReward(l, i) == i \in txn[l].due /\ \A j \in txn[l].due : i <= j
UncheckedCaps(l, i) == MatchedCaps(i, TrackerOfRow(job[l])) \ txn[l].checked
IsNextCap(l, i, k) == k \in UncheckedCaps(l, i) /\ \A m \in UncheckedCaps(l, i) : k <= m

TxnKey(l, k) == KeyOf(k, CustomerOfRow(job[l]), txn[l].day)
\* What a SELECT inside the transaction sees: committed plus its own writes.
Seen(l, key) == AddUsage(used[key], txn[l].spent[key])

\* The three ways enforcing the next reward changes the transaction.
WithChecked(x, k) == [x EXCEPT !.checked = @ \cup {k}]
WithDenied(x, i) == [x EXCEPT !.denied = TRUE, !.due = @ \ {i}, !.checked = {}]
WithGranted(x, i, spent) ==
  [x EXCEPT !.granted = @ \cup {i}, !.due = @ \ {i}, !.checked = {}, !.spent = spent]

Lockable_NoForUpdate(key, l) == TRUE
\* SELECT ... FOR UPDATE waits for a counter row another transaction has locked.
Lockable(key, l) == counterLock[key] \in {NoLane, l}

Needs(l, i, k) == pc[l] = "reserving" /\ IsNextReward(l, i) /\ IsNextCap(l, i, k)

\* lockOrCreate and checkCeiling on the next matched cap, with headroom left.
CheckCap(l, i, k) ==
  LET key == TxnKey(l, k) IN
  /\ Needs(l, i, k)
  /\ Lockable(key, l)
  /\ ~Breaches(k, Seen(l, key), i, TrackerOfRow(job[l]))
  /\ counterLock' = [counterLock EXCEPT ![key] = l]
  /\ txn' = [txn EXCEPT ![l] = WithChecked(@, k)]
  /\ UNCHANGED <<rowStatus, reachedAt, day, advances, dbVars, pc, job, advisoryLock, boundVars>>

DenyReward_PartialReservation(l, i, k) ==
  LET key == TxnKey(l, k)
      kept == {TxnKey(l, m) : m \in txn[l].checked}
      one == [amount |-> 0, count |-> 1]
  IN
  /\ Needs(l, i, k)
  /\ Lockable(key, l)
  /\ Breaches(k, Seen(l, key), i, TrackerOfRow(job[l]))
  /\ counterLock' = [counterLock EXCEPT ![key] = l]
  /\ txn' = [txn EXCEPT ![l] = WithDenied([@ EXCEPT !.spent =
                [x \in CounterKey |-> IF x \in kept THEN AddUsage(txn[l].spent[x], one)
                                      ELSE txn[l].spent[x]]], i)]
  /\ UNCHANGED <<rowStatus, reachedAt, day, advances, dbVars, pc, job, advisoryLock, boundVars>>

\* The same, in breach: this assignment is denied, none of its caps incremented,
\* and the counter rows it locked stay locked.
DenyReward(l, i, k) ==
  LET key == TxnKey(l, k) IN
  /\ Needs(l, i, k)
  /\ Lockable(key, l)
  /\ Breaches(k, Seen(l, key), i, TrackerOfRow(job[l]))
  /\ counterLock' = [counterLock EXCEPT ![key] = l]
  /\ txn' = [txn EXCEPT ![l] = WithDenied(@, i)]
  /\ UNCHANGED <<rowStatus, reachedAt, day, advances, dbVars, pc, job, advisoryLock, boundVars>>

SpendOn(l, i) ==
  LET keys == {TxnKey(l, k) : k \in MatchedCaps(i, TrackerOfRow(job[l]))}
      delta == [amount |-> RecordedValue(i, TrackerOfRow(job[l])), count |-> 1]
  IN  [key \in CounterKey |-> IF key \in keys THEN AddUsage(txn[l].spent[key], delta)
                              ELSE txn[l].spent[key]]

\* Every matched cap has headroom: increment them all, the assignment is granted.
GrantReward(l, i) ==
  /\ pc[l] = "reserving"
  /\ IsNextReward(l, i)
  /\ UncheckedCaps(l, i) = {}
  /\ txn' = [txn EXCEPT ![l] = WithGranted(@, i, SpendOn(l, i))]
  /\ UNCHANGED <<rowStatus, reachedAt, day, advances, dbVars, pc, job, advisoryLock, counterLock, boundVars>>

\* insertForGrantedAssignment: ON CONFLICT (customer, component, cycle, code) DO NOTHING.
EntryFor(l, i) ==
  [customer |-> CustomerOfRow(job[l]), component |-> job[l][2], cycle |-> Len(txn[l].cycles),
   code |-> Rewards[i].code, reward |-> i, day |-> txn[l].day]
SameReward_AnyCycle(e, f) ==
  e.customer = f.customer /\ e.component = f.component /\ e.code = f.code
SameReward(e, f) ==
  e.customer = f.customer /\ e.component = f.component /\ e.cycle = f.cycle /\ e.code = f.code
Inserted(l) ==
  {EntryFor(l, i) : i \in {g \in txn[l].granted :
     /\ \A e \in entries : ~SameReward(e, EntryFor(l, g))
     /\ \A h \in txn[l].granted : h < g => ~SameReward(EntryFor(l, h), EntryFor(l, g))}}

\* The entries and outbox rows are inserted, the row is marked, and all commits.
Commit(l) ==
  /\ pc[l] = "reserving"
  /\ txn[l].due = {}
  /\ Advance(job[l], txn[l].cycles, txn[l].status)
  /\ used' = [k \in CounterKey |-> AddUsage(used[k], txn[l].spent[k])]
  /\ entries' = entries \cup Inserted(l)
  /\ MarkRow(job[l], IF txn[l].denied THEN "error" ELSE "processed")
  /\ EndTxn(l)
  /\ UNCHANGED <<reachedAt, day, boundVars>>

----------------------------------------------------------------------------
\* Transactions that do not commit.

\* A throw (lost connection, lock_timeout, unreadable config) or the death of the
\* lane: claimAndHandleOne leaves the row "processing".
HandlerFails(l) ==
  /\ pc[l] # "idle"
  /\ faults < MaxFaults
  /\ faults' = faults + 1
  /\ EndTxn(l)
  /\ UNCHANGED <<rowStatus, reachedAt, day, advances, dbVars, sweeps>>

\* The tracker evaluator throws for "sequence": every attempt rolls back.
RejectConfig(l) ==
  /\ CanLock(l)
  /\ IsTarget(job[l])
  /\ job[l] \in Passing
  /\ JustCompleted(job[l])
  /\ ~Supported(TrackerOfRow(job[l]))
  /\ EndTxn(l)
  /\ UNCHANGED <<rowStatus, reachedAt, day, advances, dbVars, boundVars>>

\* The lane whose counter lock keeps lane l waiting.
Blocks(m, l) ==
  \E i \in RewardIx, k \in CapIx : Needs(l, i, k) /\ m # l /\ counterLock[TxnKey(l, k)] = m

\* A set of lanes each waiting for exactly one other of the set.
Deadlocked(lanes) ==
  /\ \A l \in lanes : \E m \in lanes : Blocks(m, l)
  /\ \A m \in lanes : \E l \in lanes : Blocks(m, l)

\* Postgres finds the cycle and aborts one of the transactions in it.
DeadlockAbort(l) ==
  /\ \E lanes \in SUBSET Lane : l \in lanes /\ Deadlocked(lanes)
  /\ EndTxn(l)
  /\ UNCHANGED <<rowStatus, reachedAt, day, advances, dbVars, boundVars>>

----------------------------------------------------------------------------
Proceed(l) ==
  \/ SkipRow(l)
  \/ AdvanceRow(l)
  \/ RejectConfig(l)
  \/ OpenReservation(l)
  \/ \E i \in RewardIx : GrantReward(l, i)
  \/ \E i \in RewardIx, k \in CapIx : CheckCap(l, i, k) \/ DenyReward(l, i, k)
  \/ Commit(l)

Next ==
  \/ \E s \in Submission : Ingest(s)
  \/ \E l \in Lane, r \in Row : Claim(l, r)
  \/ \E r \in Row : SweepStale(r)
  \/ \E l \in Lane : Proceed(l)
  \/ \E l \in Lane : DeadlockAbort(l)
  \/ \E l \in Lane : HandlerFails(l)
  \/ NextDay

Spec == Init /\ [][Next]_vars

\* Lanes reschedule themselves and the sweep runs on an interval for ever. Postgres
\* finds every deadlock, and hands a released row lock to the statement waiting for
\* it before the aborted transaction's retry can take it: each cap statement that
\* becomes possible again and again is executed (strong fairness).
Fairness ==
  /\ \A l \in Lane : WF_vars(\E r \in Row : Claim(l, r))
  /\ \A l \in Lane : WF_vars(Proceed(l))
  /\ \A l \in Lane, k \in CapIx :
       SF_vars(\E i \in RewardIx : CheckCap(l, i, k) \/ DenyReward(l, i, k))
  /\ WF_vars(\E l \in Lane : DeadlockAbort(l))
  /\ \A r \in Row : WF_vars(SweepStale(r))

FairSpec == Spec /\ Fairness
=============================================================================
