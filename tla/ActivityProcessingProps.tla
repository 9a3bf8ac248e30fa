----------------------- MODULE ActivityProcessingProps -----------------------
(***************************************************************************)
(* What ActivityProcessing must and must not do. The invariants relate     *)
(* committed tables to each other: the state a second lane, a retry or an  *)
(* auditor reads. ~MayOvertake marks those that assume no handler outlives *)
(* the stale-processing timeout.                                           *)
(***************************************************************************)
EXTENDS ActivityProcessing

\* Every variable has its type: rows only carry the four statuses of the schema,
\* every committed counter is a natural, and a lane's transaction is well formed.
TypeOK ==
  /\ rowStatus \in [Row -> RowStatus]
  /\ reachedAt \in [Submission -> Nat]
  /\ progress \in [Customer -> [Component -> Seq(Cycle)]]
  /\ tracker \in [Customer -> [Tracker -> TrackerStatus]]
  /\ used \in [CounterKey -> Usage]
  /\ entries \subseteq Entry
  /\ day \in 0..LastDay
  /\ pc \in [Lane -> {"idle", "claimed", "reserving"}]
  /\ job \in [Lane -> Row \cup {NoRow}]
  /\ txn \in [Lane -> Txn]
  /\ advisoryLock \in [Customer -> Lane \cup {NoLane}]
  /\ counterLock \in [CounterKey -> Lane \cup {NoLane}]
  /\ advances \in [Row -> Nat]
  /\ faults \in 0..MaxFaults
  /\ sweeps \in 0..MaxSweeps

----------------------------------------------------------------------------
\* Caps and rewards.

\* No committed budget or limit counter is beyond its configured ceiling, whatever
\* lanes, customers and assignments raced for it (checkCeiling under lockOrCreate).
CeilingsRespected ==
  \A key \in CounterKey :
    LET cap == Caps[key.cap] IN
    /\ cap.maxAmount # 0 => used[key].amount <= cap.maxAmount
    /\ cap.maxCount # 0 => used[key].count <= cap.maxCount

DistinctCodes == \A i, j \in RewardIx : Rewards[i].code = Rewards[j].code => i = j

ChargedTo(key) ==
  {e \in entries : /\ key.cap \in MatchedCaps(e.reward, trackerOf[e.component])
                   /\ key = KeyOf(key.cap, e.customer, e.day)}

\* Every counter is exactly the sum of the reward entries it governs in its period:
\* a denied assignment leaves no partial reservation, a rolled back one leaves nothing.
CountersMatchEntries ==
  DistinctCodes =>
    \A key \in CounterKey :
      LET charged == ChargedTo(key)
          value == [e \in charged |-> RecordedValue(e.reward, trackerOf[e.component])]
      IN  /\ used[key].count = Cardinality(charged)
          /\ used[key].amount = Total(value, charged)

Cycles(u, c) == DOMAIN progress[u][c]
HasEntry(u, c, n, i) ==
  \E e \in entries : e.customer = u /\ e.component = c /\ e.cycle = n /\ e.reward = i

\* A completed component cycle has a reward entry for each reward bound to that
\* component, unless the row that completed it was settled as a breach; and an entry
\* exists for no cycle that is still open.
RewardOrBreach ==
  /\ DistinctCodes /\ ~MayOvertake =>
       \A u \in Customer, c \in Component : \A n \in Cycles(u, c), i \in RewardIx :
         (progress[u][c][n].complete /\ Rewards[i].level = "component" /\ Rewards[i].ref = c)
           => HasEntry(u, c, n, i) \/ rowStatus[<<progress[u][c][n].last, c>>] = "error"
  /\ \A e \in entries : progress[e.customer][e.component][e.cycle].complete

----------------------------------------------------------------------------
\* Progress and completion.

CompletedCycles(u, c) == Cardinality({n \in Cycles(u, c) : progress[u][c][n].complete})
Max1(n) == IF n = 0 THEN 1 ELSE n

\* No advance is lost or double counted: the counts in the progress rows add up to the
\* advances committed, because the advisory lock keeps a customer's handlers apart.
ProgressAccountsForRows ==
  \A u \in Customer, c \in Component :
    Total([n \in Cycles(u, c) |-> progress[u][c][n].count], Cycles(u, c))
      = Total(advances, {r \in Row : CustomerOfRow(r) = u /\ r[2] = c})

\* The tracker rows account for every component completion: earlier cycles hold a full
\* tally each, the latest the rest, and no completion is counted in two cycles.
TallyMatchesCompletions ==
  \A u \in Customer : \A t \in {x \in Tracker : Supported(x)} :
    LET st == tracker[u][t]
        full == Max1(CompletesAt(t, Cardinality(Members(t))))
    IN  Total([c \in Members(t) |-> CompletedCycles(u, c)], Members(t))
          = IF st.cycle = 0 THEN 0 ELSE (st.cycle - 1) * full + st.tally

\* One real-world activity counts once: among the sibling components it fans out to one at most
\* advances, in one committed transaction, in whichever order and by whichever lanes its rows are
\* handled and through every fault, deadlock abort, sweep and second claim.
OneSiblingPerSubmission ==
  ~MayOvertake => \A s \in Submission, c \in Component :
    Total(advances, {s} \X {d \in Siblings(c) : <<s, d>> \in Row}) <= 1

\* Of the siblings an activity fans out to one at most has it on record as its last, so the
\* lookup (findSiblingAdvancedByDedupKey, LIMIT 1) never has two rows to choose from: a sibling
\* never advances for an activity that another still remembers, for any required count and also
\* where the sweep overtakes a handler.
OneSiblingRemembers ==
  \A s \in Submission, c \in Component :
    \A d, e \in AdvancedBy(s, c, progress[customerOf[s]]) : d = e

----------------------------------------------------------------------------
\* Rows.

\* Every ingested row is settled in the end, whatever fails on the way (finitely often),
\* although handlers deadlock on counters. Not so for a tracker with an unsupported logic:
\* its row throws each time, is swept back to pending, and is claimed again first.
EveryRowSettles ==
  \A r \in Row :
    Supported(TrackerOfRow(r)) => (rowStatus[r] = "pending" ~> rowStatus[r] \in Settled)

\* Claims, lanes, locks and retries are invisible: handling a row is one atomic step.
Atomic == INSTANCE AtomicProcessing WITH
  outcome <- [r \in Row |-> IF rowStatus[r] \in {"pending", "processing"} THEN "open"
                            ELSE rowStatus[r]]

\* The lane-level system implements the atomic one: locks, faults and retries change
\* when a row is handled, never what handling it does.
ImplementsAtomic == Atomic!Spec

----------------------------------------------------------------------------
\* What the repository says of this code and the code does not do.

\* tracker-completion-evaluator: "all" - every component under the tracker must be complete.
AllMeansEveryComponent ==
  \A u \in Customer, t \in Tracker :
    completionLogic[t] = "all" /\ tracker[u][t].complete =>
      \A c \in Members(t) : CompletedCycles(u, c) > 0
=============================================================================
