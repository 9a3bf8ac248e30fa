---------------------- MODULE ActivityProcessingProofs ----------------------
(***************************************************************************)
(* For every campaign, set of lanes and bound that satisfies the           *)
(* assumptions:                                                            *)
(*  - the types are right, and no cap counter is ever committed beyond its *)
(*    ceiling (what a lane has added or checked it holds the row lock on,  *)
(*    and what it would commit fits);                                      *)
(*  - progress rows account for the advances committed, tracker rows for   *)
(*    the completions, counters for the reward entries, and a completed    *)
(*    cycle is rewarded or its row is settled as a breach (what a lane     *)
(*    computed from its customer's rows stays right while it waits);       *)
(*  - a row advances once, and so does an activity bound to siblings;      *)
(*  - each row is handled as if in one step: the refinement of             *)
(*    AtomicProcessing.                                                    *)
(***************************************************************************)
EXTENDS ActivityProcessingProps, FiniteSetTheorems, SequenceTheorems, TLAPS

USE ConfigAssumption, LaneAssumption DEF RewardIx, CapIx

----------------------------------------------------------------------------
\* Types of the operators the actions are built from.

LEMMA RowType == \A r \in Row : r[1] \in Submission /\ r[2] \in Component
                             /\ CustomerOfRow(r) \in Customer /\ TrackerOfRow(r) \in Tracker
  BY DEF Row, CustomerOfRow, TrackerOfRow

LEMMA AfterPassType ==
  ASSUME NEW cycles \in Seq(Cycle), NEW required \in Nat, NEW s \in Submission
  PROVE  AfterPass(cycles, required, s) \in Seq(Cycle)
<1>1. CASE cycles = <<>> \/ LatestComplete(cycles)
  <2>1. [count |-> 1, complete |-> 1 >= required, last |-> s] \in Cycle
    BY DEF Cycle
  <2>2. Append(cycles, [count |-> 1, complete |-> 1 >= required, last |-> s]) \in Seq(Cycle)
    BY <2>1, AppendProperties
  <2> QED BY <1>1, <2>2 DEF AfterPass
<1>2. CASE ~(cycles = <<>> \/ LatestComplete(cycles))
  <2> DEFINE last == cycles[Len(cycles)]
             bumped == [count |-> last.count + 1, complete |-> last.count + 1 >= required, last |-> s]
  <2>1. Len(cycles) \in 1..Len(cycles) /\ last \in Cycle
    BY <1>2, EmptySeq, LenProperties, ElementOfSeq
  <2>2. bumped \in Cycle
    BY <2>1 DEF Cycle
  <2>3. [cycles EXCEPT ![Len(cycles)] = bumped] \in Seq(Cycle)
    BY <2>1, <2>2, ExceptSeq
  <2> QED BY <1>2, <2>3 DEF AfterPass
<1> QED BY <1>1, <1>2

LEMMA AfterCompletionType ==
  ASSUME NEW t \in Tracker, Supported(t), NEW st \in TrackerStatus
  PROVE  AfterCompletion(st, t, Cardinality(Members(t))) \in TrackerStatus
<1>1. Cardinality(Members(t)) \in Nat
  BY FS_CardinalityType
<1>2. CompletesAt(t, Cardinality(Members(t))) \in Nat
  BY <1>1 DEF CompletesAt, Supported
<1> QED BY <1>2 DEF AfterCompletion, TrackerStatus

LEMMA KeyOfType ==
  ASSUME NEW k \in CapIx, NEW u \in Customer, NEW d \in 0..LastDay
  PROVE  KeyOf(k, u, d) \in CounterKey /\ KeyOf(k, u, d).cap = k
BY DEF KeyOf, CounterKey

LEMMA RewardsType == \A i \in RewardIx : Rewards[i] \in RewardBinding
BY ElementOfSeq, LenProperties

LEMMA CapsType == \A k \in CapIx : Caps[k] \in CampaignCap
BY ElementOfSeq, LenProperties

LEMMA RecordedValueType ==
  ASSUME NEW i \in RewardIx, NEW t \in Tracker
  PROVE  RecordedValue(i, t) \in Nat
BY RewardsType DEF RecordedValue, RewardBinding

LEMMA AddUsageType == \A u, v \in Usage : AddUsage(u, v) \in Usage
BY DEF AddUsage, Usage

LEMMA AddUsageAssoc ==
  \A u, v, w \in Usage : AddUsage(u, AddUsage(v, w)) = AddUsage(AddUsage(u, v), w)
BY DEF AddUsage, Usage

LEMMA NoUsageNeutral == NoUsage \in Usage /\ \A u \in Usage : AddUsage(u, NoUsage) = u
BY DEF AddUsage, Usage, NoUsage

LEMMA CyclesAfterType ==
  ASSUME TypeOK, NEW r \in Row
  PROVE  CyclesAfter(r) \in Seq(Cycle)
<1>1. progress[CustomerOfRow(r)][r[2]] \in Seq(Cycle) /\ requiredCount[r[2]] \in Nat
  BY RowType DEF TypeOK
<1> QED BY <1>1, RowType, AfterPassType DEF CyclesAfter

LEMMA StatusAfterType ==
  ASSUME TypeOK, NEW r \in Row, JustCompleted(r) => Supported(TrackerOfRow(r))
  PROVE  StatusAfter(r) \in TrackerStatus
<1>1. TrackerOfRow(r) \in Tracker /\ StatusBefore(r) \in TrackerStatus
  BY RowType DEF TypeOK, StatusBefore
<1> QED BY <1>1, AfterCompletionType DEF StatusAfter

LEMMA DueAfterType == \A r : DueAfter(r) \subseteq RewardIx
BY DEF DueAfter, DueRewards

LEMMA NoTxnType == NoTxn \in Txn
BY NoUsageNeutral, EmptySeq DEF NoTxn, Txn, NoSpend, TrackerStatus, NoStatus

----------------------------------------------------------------------------
\* Type correctness.

\* A lane holds a row exactly while it is busy.
BusyLanesHoldRows == \A l \in Lane : pc[l] # "idle" <=> job[l] # NoRow

TypeInv == TypeOK /\ BusyLanesHoldRows

LEMMA BusyRow == TypeInv => \A l \in Lane : pc[l] # "idle" => job[l] \in Row
BY DEF TypeInv, TypeOK, BusyLanesHoldRows

LEMMA TypeInit == Init => TypeInv
<1> SUFFICES ASSUME Init PROVE TypeInv OBVIOUS
<1> USE DEF Init
<1>1. progress \in [Customer -> [Component -> Seq(Cycle)]]
  BY EmptySeq
<1>2. tracker \in [Customer -> [Tracker -> TrackerStatus]]
  BY DEF TrackerStatus, NoStatus
<1>3. used \in [CounterKey -> Usage]
  BY NoUsageNeutral
<1>4. txn \in [Lane -> Txn]
  BY NoTxnType
<1> QED BY <1>1, <1>2, <1>3, <1>4 DEF TypeInv, TypeOK, BusyLanesHoldRows, RowStatus

\* Ending a lane's transaction keeps the lanes' variables well typed.
LEMMA EndTxnType ==
  ASSUME TypeInv, NEW l \in Lane, EndTxn(l)
  PROVE  /\ pc' \in [Lane -> {"idle", "claimed", "reserving"}]
         /\ job' \in [Lane -> Row \cup {NoRow}]
         /\ txn' \in [Lane -> Txn]
         /\ advisoryLock' \in [Customer -> Lane \cup {NoLane}]
         /\ counterLock' \in [CounterKey -> Lane \cup {NoLane}]
         /\ BusyLanesHoldRows'
BY NoTxnType DEF TypeInv, TypeOK, BusyLanesHoldRows, EndTxn

LEMMA AdvanceType ==
  ASSUME TypeInv, NEW r \in Row, NEW cycles \in Seq(Cycle), NEW status \in TrackerStatus,
         Advance(r, cycles, status)
  PROVE  /\ progress' \in [Customer -> [Component -> Seq(Cycle)]]
         /\ tracker' \in [Customer -> [Tracker -> TrackerStatus]]
         /\ advances' \in [Row -> Nat]
BY RowType DEF TypeInv, TypeOK, Advance

LEMMA TxnKeyType ==
  ASSUME TypeInv, NEW l \in Lane, pc[l] # "idle", NEW k \in CapIx
  PROVE  TxnKey(l, k) \in CounterKey /\ TxnKey(l, k).cap = k
<1>1. txn[l].day \in 0..LastDay /\ CustomerOfRow(job[l]) \in Customer
  BY BusyRow, RowType DEF TypeInv, TypeOK, Txn
<1> QED BY <1>1, KeyOfType DEF TxnKey

LEMMA SpendOnType ==
  ASSUME TypeInv, NEW l \in Lane, pc[l] # "idle", NEW i \in RewardIx
  PROVE  SpendOn(l, i) \in [CounterKey -> Usage]
<1> DEFINE delta == [amount |-> RecordedValue(i, TrackerOfRow(job[l])), count |-> 1]
<1>1. delta \in Usage
  BY BusyRow, RowType, RecordedValueType DEF Usage
<1>2. txn[l].spent \in [CounterKey -> Usage]
  BY DEF TypeInv, TypeOK, Txn
<1> HIDE DEF delta
<1>3. \A key \in CounterKey : AddUsage(txn[l].spent[key], delta) \in Usage
  BY <1>1, <1>2, AddUsageType
<1> QED BY <1>2, <1>3 DEF SpendOn, delta

LEMMA InsertedType ==
  ASSUME TypeInv, NEW l \in Lane, pc[l] = "reserving"
  PROVE  Inserted(l) \subseteq Entry
<1>1. /\ txn[l].day \in 0..LastDay /\ Len(txn[l].cycles) \in Nat
      /\ txn[l].granted \subseteq RewardIx
  BY LenProperties DEF TypeInv, TypeOK, Txn
<1>2. CustomerOfRow(job[l]) \in Customer /\ job[l][2] \in Component
  BY BusyRow, RowType
<1>3. \A i \in txn[l].granted : EntryFor(l, i) \in Entry
  BY <1>1, <1>2, RewardsType DEF EntryFor, Entry, RewardBinding
<1> QED BY <1>3 DEF Inserted
LEMMA OpenedType ==
  ASSUME TypeInv, NEW r \in Row, CyclesAfter(r) \in Seq(Cycle), StatusAfter(r) \in TrackerStatus
  PROVE  Opened(r) \in Txn
BY NoTxnType, DueAfterType DEF Opened, Txn, TypeInv, TypeOK

LEMMA WithType ==
  ASSUME NEW x \in Txn
  PROVE  /\ \A k \in CapIx : WithChecked(x, k) \in Txn
         /\ \A i \in RewardIx : WithDenied(x, i) \in Txn
         /\ \A i \in RewardIx, spent \in [CounterKey -> Usage] : WithGranted(x, i, spent) \in Txn
BY DEF Txn, WithChecked, WithDenied, WithGranted

LEMMA TypeStep == TypeInv /\ [Next]_vars => TypeInv'
<1> SUFFICES ASSUME TypeInv, [Next]_vars PROVE TypeInv'
  OBVIOUS
<1> USE DEF dbVars, laneVars, boundVars
<1>1. ASSUME NEW s \in Submission, Ingest(s) PROVE TypeInv'
  <2>1. rowStatus' \in [Row -> RowStatus]
    BY <1>1 DEF Ingest, TypeInv, TypeOK, RowStatus
  <2>2. reachedAt' \in [Submission -> Nat]
    <3>1. CASE reachedAt[s] # 0
      BY <1>1, <3>1 DEF Ingest, TypeInv, TypeOK
    <3>2. CASE reachedAt[s] = 0
      <4>1. Cardinality({q \in Submission : reachedAt[q] # 0}) \in Nat
        BY FS_Subset, FS_CardinalityType
      <4> QED BY <1>1, <3>2, <4>1 DEF Ingest, TypeInv, TypeOK
    <3> QED BY <3>1, <3>2
  <2> QED BY <1>1, <2>1, <2>2 DEF Ingest, TypeInv, TypeOK, BusyLanesHoldRows
<1>2. ASSUME NEW l \in Lane, NEW r \in Row, Claim(l, r) PROVE TypeInv'
  BY <1>2 DEF Claim, TypeInv, TypeOK, BusyLanesHoldRows, RowStatus
<1>3. ASSUME NEW r \in Row, SweepStale(r) PROVE TypeInv'
  BY <1>3 DEF SweepStale, TypeInv, TypeOK, BusyLanesHoldRows, RowStatus
<1>4. ASSUME NEW l \in Lane, SkipRow(l) PROVE TypeInv'
  <2>1. job[l] \in Row
    BY <1>4, BusyRow DEF SkipRow, CanLock
  <2> QED BY <1>4, <2>1, EndTxnType DEF SkipRow, MarkRow, TypeInv, TypeOK, RowStatus
<1>5. ASSUME NEW l \in Lane, AdvanceRow(l) PROVE TypeInv'
  <2>1. job[l] \in Row /\ CyclesAfter(job[l]) \in Seq(Cycle) /\ StatusAfter(job[l]) \in TrackerStatus
    BY <1>5, BusyRow, CyclesAfterType, StatusAfterType DEF AdvanceRow, MayAdvance, CanLock, TypeInv
  <2> QED BY <1>5, <2>1, EndTxnType, AdvanceType DEF AdvanceRow, MarkRow, TypeInv, TypeOK, RowStatus
<1>6. ASSUME NEW l \in Lane, RejectConfig(l) PROVE TypeInv'
  BY <1>6, EndTxnType DEF RejectConfig, TypeInv, TypeOK
<1>7. ASSUME NEW l \in Lane, OpenReservation(l) PROVE TypeInv'
  <2>1. job[l] \in Row /\ CyclesAfter(job[l]) \in Seq(Cycle) /\ StatusAfter(job[l]) \in TrackerStatus
    BY <1>7, BusyRow, CyclesAfterType, StatusAfterType DEF OpenReservation, MayAdvance, CanLock, TypeInv
  <2>2. txn' \in [Lane -> Txn]
    BY <1>7, <2>1, OpenedType DEF OpenReservation, TypeInv, TypeOK
  <2> QED BY <1>7, <2>1, <2>2, RowType
          DEF OpenReservation, MayAdvance, CanLock, TypeInv, TypeOK, BusyLanesHoldRows
<1>8. ASSUME NEW l \in Lane, NEW i \in RewardIx, GrantReward(l, i) PROVE TypeInv'
  <2>1. SpendOn(l, i) \in [CounterKey -> Usage]
    BY <1>8, SpendOnType DEF GrantReward
  <2>2. txn' \in [Lane -> Txn]
    BY <1>8, <2>1, WithType DEF GrantReward, TypeInv, TypeOK
  <2> QED BY <1>8, <2>2 DEF GrantReward, TypeInv, TypeOK, BusyLanesHoldRows
<1>9. ASSUME NEW l \in Lane, NEW i \in RewardIx, NEW k \in CapIx, CheckCap(l, i, k) PROVE TypeInv'
  <2>1. TxnKey(l, k) \in CounterKey
    BY <1>9, TxnKeyType DEF CheckCap, Needs
  <2>2. txn' \in [Lane -> Txn]
    BY <1>9, WithType DEF CheckCap, TypeInv, TypeOK
  <2> QED BY <1>9, <2>1, <2>2 DEF CheckCap, TypeInv, TypeOK, BusyLanesHoldRows
<1>10. ASSUME NEW l \in Lane, NEW i \in RewardIx, NEW k \in CapIx, DenyReward(l, i, k) PROVE TypeInv'
  <2>1. TxnKey(l, k) \in CounterKey
    BY <1>10, TxnKeyType DEF DenyReward, Needs
  <2>2. txn' \in [Lane -> Txn]
    BY <1>10, WithType DEF DenyReward, TypeInv, TypeOK
  <2> QED BY <1>10, <2>1, <2>2 DEF DenyReward, TypeInv, TypeOK, BusyLanesHoldRows
<1>11. ASSUME NEW l \in Lane, Commit(l) PROVE TypeInv'
  <2>1. job[l] \in Row /\ pc[l] = "reserving"
    BY <1>11, BusyRow DEF Commit
  <2>2. /\ txn[l].cycles \in Seq(Cycle) /\ txn[l].status \in TrackerStatus
        /\ txn[l].spent \in [CounterKey -> Usage]
    BY DEF TypeInv, TypeOK, Txn
  <2>3. used' \in [CounterKey -> Usage]
    BY <1>11, <2>2, AddUsageType DEF Commit, TypeInv, TypeOK
  <2>4. entries' \subseteq Entry
    BY <1>11, <2>1, InsertedType DEF Commit, TypeInv, TypeOK
  <2>5. rowStatus' \in [Row -> RowStatus]
    BY <1>11, <2>1 DEF Commit, MarkRow, TypeInv, TypeOK, RowStatus
  <2> QED BY <1>11, <2>1, <2>2, <2>3, <2>4, <2>5, EndTxnType, AdvanceType DEF Commit, TypeInv, TypeOK
<1>12. ASSUME NEW l \in Lane, DeadlockAbort(l) PROVE TypeInv'
  BY <1>12, EndTxnType DEF DeadlockAbort, TypeInv, TypeOK
<1>13. ASSUME NEW l \in Lane, HandlerFails(l) PROVE TypeInv'
  BY <1>13, EndTxnType DEF HandlerFails, TypeInv, TypeOK
<1>14. CASE NextDay
  BY <1>14 DEF NextDay, TypeInv, TypeOK, BusyLanesHoldRows
<1>15. CASE UNCHANGED vars
  BY <1>15 DEF vars, TypeInv, TypeOK, BusyLanesHoldRows
<1> QED
  BY <1>1, <1>2, <1>3, <1>4, <1>5, <1>6, <1>7, <1>8, <1>9, <1>10, <1>11, <1>12, <1>13, <1>14, <1>15
  DEF Next, Proceed

\* Every reachable state is well typed: in particular no row leaves the statuses of
\* its CHECK constraint and no committed counter stops being a natural number.
THEOREM TypeCorrect == Spec => []TypeOK
<1>1. Spec => []TypeInv
  BY TypeInit, TypeStep, PTL DEF Spec
<1>2. TypeInv => TypeOK
  BY DEF TypeInv
<1> QED BY <1>1, <1>2, PTL

----------------------------------------------------------------------------
\* Ceilings.

Fits(key, u) ==
  /\ Caps[key.cap].maxAmount # 0 => u.amount <= Caps[key.cap].maxAmount
  /\ Caps[key.cap].maxCount # 0 => u.count <= Caps[key.cap].maxCount

\* What is committed fits under every ceiling ...
UsedFits == \A key \in CounterKey : Fits(key, used[key])

\* ... and so would what lane l is about to commit.
SeenFits(l) == \A key \in CounterKey : Fits(key, Seen(l, key))

\* Lane l has the row lock of every counter it has added to.
SpentIsLocked(l) == \A key \in CounterKey : txn[l].spent[key] # NoUsage => counterLock[key] = l

\* The caps checked for its next reward are locked, and still have headroom for it.
CheckedIsLocked(l) ==
  \A i \in RewardIx, k \in CapIx :
    (pc[l] = "reserving" /\ IsNextReward(l, i) /\ k \in txn[l].checked)
      => /\ counterLock[TxnKey(l, k)] = l
         /\ ~Breaches(k, Seen(l, TxnKey(l, k)), i, TrackerOfRow(job[l]))

\* Outside its transaction it has nothing in flight.
EmptyOutside(l) == pc[l] # "reserving" => txn[l] = NoTxn

LaneInv(l) == SeenFits(l) /\ SpentIsLocked(l) /\ CheckedIsLocked(l) /\ EmptyOutside(l)

CapInv == TypeInv /\ UsedFits /\ \A l \in Lane : LaneInv(l)

LEMMA SpentType ==
  ASSUME TypeInv, NEW l \in Lane, NEW key \in CounterKey
  PROVE  /\ used[key] \in Usage /\ txn[l].spent[key] \in Usage
         /\ Seen(l, key) \in Usage
BY AddUsageType DEF TypeInv, TypeOK, Txn, Seen

LEMMA CapInit == Init => CapInv
<1> SUFFICES ASSUME Init PROVE CapInv
  OBVIOUS
<1>1. TypeInv
  BY TypeInit
<1>2. ASSUME NEW key \in CounterKey PROVE Fits(key, NoUsage)
  <2>1. Caps[key.cap] \in CampaignCap
    BY CapsType DEF CounterKey
  <2> QED BY <2>1 DEF Fits, NoUsage, CampaignCap
<1>3. UsedFits
  BY <1>2 DEF UsedFits, Init
<1>4. ASSUME NEW l \in Lane PROVE LaneInv(l)
  <2>1. \A key \in CounterKey : txn[l].spent[key] = NoUsage /\ Seen(l, key) = NoUsage
    BY NoUsageNeutral DEF Init, NoTxn, NoSpend, Seen
  <2> QED BY <1>2, <2>1 DEF Init, LaneInv, SeenFits, SpentIsLocked, CheckedIsLocked, EmptyOutside
<1> QED BY <1>1, <1>3, <1>4 DEF CapInv

\* A lane keeps its part of the invariant through a step that leaves its own state
\* and the counters it has locked alone.
LEMMA OtherLane ==
  ASSUME CapInv, TypeInv', UsedFits', NEW m \in Lane,
         pc'[m] = pc[m], job'[m] = job[m], txn'[m] = txn[m],
         \A key \in CounterKey :
           counterLock[key] = m => counterLock'[key] = m /\ used'[key] = used[key]
  PROVE  LaneInv(m)'
<1>1. LaneInv(m)
  BY DEF CapInv
<1>2. SpentIsLocked(m)'
  BY <1>1 DEF LaneInv, SpentIsLocked
<1>3. ASSUME NEW key \in CounterKey, counterLock[key] = m PROVE Seen(m, key)' = Seen(m, key)
  BY <1>3 DEF Seen
<1>4. SeenFits(m)'
  <2> SUFFICES ASSUME NEW key \in CounterKey PROVE Fits(key, Seen(m, key)')
    BY DEF SeenFits, Fits
  <2>1. CASE txn[m].spent[key] = NoUsage
    <3>1. used'[key] \in Usage
      BY DEF TypeInv, TypeOK
    <3>2. Seen(m, key)' = used'[key]
      BY <2>1, <3>1, NoUsageNeutral DEF Seen
    <3> QED BY <3>2 DEF UsedFits, Fits
  <2>2. CASE txn[m].spent[key] # NoUsage
    <3>1. Seen(m, key)' = Seen(m, key)
      BY <1>1, <1>3, <2>2 DEF LaneInv, SpentIsLocked
    <3> QED BY <1>1, <3>1 DEF LaneInv, SeenFits
  <2> QED BY <2>1, <2>2
<1>5. CheckedIsLocked(m)'
  <2> SUFFICES ASSUME NEW i \in RewardIx, NEW k \in CapIx, pc[m] = "reserving",
                      IsNextReward(m, i), k \in txn[m].checked
               PROVE  /\ counterLock'[TxnKey(m, k)] = m
                      /\ ~Breaches(k, Seen(m, TxnKey(m, k))', i, TrackerOfRow(job[m]))
    BY DEF CheckedIsLocked, IsNextReward, TxnKey, Breaches, TrackerOfRow, Seen
  <2>1. TxnKey(m, k) \in CounterKey
    BY TxnKeyType DEF CapInv
  <2>2. /\ counterLock[TxnKey(m, k)] = m
        /\ ~Breaches(k, Seen(m, TxnKey(m, k)), i, TrackerOfRow(job[m]))
    BY <1>1 DEF LaneInv, CheckedIsLocked
  <2>3. TxnKey(m, k)' = TxnKey(m, k)
    BY DEF TxnKey
  <2>4. Seen(m, TxnKey(m, k))' = Seen(m, TxnKey(m, k))
    BY <1>3, <2>1, <2>2, <2>3 DEF Seen
  <2> QED BY <2>1, <2>2, <2>4
<1>6. EmptyOutside(m)'
  BY <1>1 DEF LaneInv, EmptyOutside
<1> QED BY <1>2, <1>4, <1>5, <1>6 DEF LaneInv

\* A lane that ends its transaction starts the next one with nothing in flight, and
\* what the others hold is untouched.
LEMMA EndTxnCaps ==
  ASSUME CapInv, TypeInv', UsedFits', NEW l \in Lane, EndTxn(l),
         \A key \in CounterKey : counterLock[key] # l => used'[key] = used[key]
  PROVE  CapInv'
<1>1. ASSUME NEW m \in Lane, m # l PROVE LaneInv(m)'
  <2>1. pc'[m] = pc[m] /\ job'[m] = job[m] /\ txn'[m] = txn[m]
    BY <1>1 DEF EndTxn, CapInv, TypeInv, TypeOK
  <2>2. \A key \in CounterKey :
          counterLock[key] = m => counterLock'[key] = m /\ used'[key] = used[key]
    BY <1>1 DEF EndTxn, CapInv, TypeInv, TypeOK
  <2> QED BY <2>1, <2>2, OtherLane
<1>2. LaneInv(l)'
  <2>1. pc'[l] = "idle" /\ txn'[l] = NoTxn
    BY DEF EndTxn, CapInv, TypeInv, TypeOK
  <2>2. \A key \in CounterKey : txn'[l].spent[key] = NoUsage /\ Seen(l, key)' = used'[key]
    BY <2>1, NoUsageNeutral DEF NoTxn, NoSpend, Seen, TypeInv, TypeOK
  <2>3. SeenFits(l)'
    BY <2>2 DEF SeenFits, UsedFits, Fits
  <2> QED BY <2>1, <2>2, <2>3 DEF LaneInv, SpentIsLocked, CheckedIsLocked, EmptyOutside
<1> QED BY <1>1, <1>2 DEF CapInv

\* A granted assignment fits: each of its caps is checked and locked.
LEMMA GrantFits ==
  ASSUME CapInv, NEW l \in Lane, NEW i \in RewardIx, GrantReward(l, i)
  PROVE  \A key \in CounterKey :
           /\ Fits(key, AddUsage(used[key], SpendOn(l, i)[key]))
           /\ SpendOn(l, i)[key] # NoUsage => counterLock[key] = l
<1> DEFINE t == TrackerOfRow(job[l])
           delta == [amount |-> RecordedValue(i, t), count |-> 1]
<1> TAKE key \in CounterKey
<1>1. LaneInv(l) /\ TypeInv
  BY DEF CapInv
<1>2. t \in Tracker /\ pc[l] = "reserving"
  BY <1>1, BusyRow, RowType DEF GrantReward
<1>3. CASE \E k \in MatchedCaps(i, t) : key = TxnKey(l, k)
  <2>1. PICK k \in MatchedCaps(i, t) : key = TxnKey(l, k)
    BY <1>3
  <2>2. k \in CapIx /\ k \in txn[l].checked
    BY DEF GrantReward, UncheckedCaps, MatchedCaps
  <2>3. counterLock[key] = l /\ ~Breaches(k, Seen(l, key), i, t)
    BY <1>1, <1>2, <2>1, <2>2 DEF GrantReward, LaneInv, CheckedIsLocked
  <2>4. key.cap = k /\ Caps[k] \in CampaignCap
    BY <1>1, <1>2, <2>1, <2>2, TxnKeyType, CapsType
  <2>5. SpendOn(l, i)[key] = AddUsage(txn[l].spent[key], delta)
    BY <2>1 DEF SpendOn
  <2>6. used[key] \in Usage /\ txn[l].spent[key] \in Usage /\ Seen(l, key) \in Usage
    BY <1>1, SpentType
  <2>7. AddUsage(used[key], SpendOn(l, i)[key]) = AddUsage(Seen(l, key), delta)
    <3>1. delta \in Usage
      BY <1>2, RecordedValueType DEF Usage
    <3> HIDE DEF delta
    <3> QED BY <2>5, <2>6, <3>1, AddUsageAssoc DEF Seen
  <2>8. Fits(key, Seen(l, key))
    BY <1>1 DEF LaneInv, SeenFits
  <2>9. Fits(key, AddUsage(Seen(l, key), delta))
    <3>1. RecordedValue(i, t) \in Nat /\ Rewards[i].value \in Nat
      BY <1>2, RecordedValueType, RewardsType DEF RewardBinding
    <3>2. Caps[k].maxAmount # 0 => Seen(l, key).amount + RecordedValue(i, t) <= Caps[k].maxAmount
      <4>1. CASE ValueKnown(i, t)
        BY <2>3, <2>4, <2>6, <3>1, <4>1 DEF Breaches, RecordedValue, CampaignCap, Usage
      <4>2. CASE ~ValueKnown(i, t)
        BY <2>4, <2>6, <2>8, <4>2 DEF Fits, RecordedValue, CampaignCap, Usage
      <4> QED BY <4>1, <4>2
    <3>3. Caps[k].maxCount # 0 => Seen(l, key).count + 1 <= Caps[k].maxCount
      BY <2>3, <2>4, <2>6 DEF Breaches, CampaignCap, Usage
    <3> QED BY <2>4, <3>2, <3>3 DEF Fits, AddUsage
  <2> QED BY <2>3, <2>7, <2>9
<1>4. CASE ~\E k \in MatchedCaps(i, t) : key = TxnKey(l, k)
  <2>1. SpendOn(l, i)[key] = txn[l].spent[key]
    BY <1>4 DEF SpendOn
  <2> QED BY <1>1, <2>1 DEF LaneInv, SeenFits, SpentIsLocked, Seen
<1> QED BY <1>3, <1>4

LEMMA CapStep == CapInv /\ [Next]_vars => CapInv'
<1> SUFFICES ASSUME CapInv, [Next]_vars PROVE CapInv'
  OBVIOUS
<1>0. TypeInv /\ TypeInv'
  BY TypeStep DEF CapInv
<1>u. used' = used => UsedFits'
  BY DEF CapInv, UsedFits, Fits
\* A step that touches no transaction, lock or counter.
<1>f. ASSUME used' = used, UNCHANGED <<pc, job, txn, counterLock>> PROVE CapInv'
  BY <1>0, <1>u, <1>f, OtherLane DEF CapInv
<1> USE DEF dbVars, laneVars, boundVars
<1>1. ASSUME NEW s \in Submission, Ingest(s) PROVE CapInv'
  BY <1>f, <1>1 DEF Ingest
<1>2. ASSUME NEW l \in Lane, NEW r \in Row, Claim(l, r) PROVE CapInv'
  <2>1. ASSUME NEW m \in Lane, m # l PROVE LaneInv(m)'
    BY <1>0, <1>u, <1>2, <2>1, OtherLane DEF Claim, TypeInv, TypeOK
  <2>2. LaneInv(l)'
    <3>1. LaneInv(l) /\ pc[l] = "idle" /\ pc'[l] = "claimed" /\ txn' = txn
      BY <1>0, <1>2 DEF Claim, CapInv, TypeInv, TypeOK
    <3> QED BY <1>2, <3>1 DEF Claim, LaneInv, SeenFits, SpentIsLocked, CheckedIsLocked,
                              EmptyOutside, Seen, Fits
  <2> QED BY <1>0, <1>u, <1>2, <2>1, <2>2 DEF Claim, CapInv
<1>3. ASSUME NEW r \in Row, SweepStale(r) PROVE CapInv'
  BY <1>f, <1>3 DEF SweepStale
<1>4. ASSUME NEW l \in Lane, SkipRow(l) PROVE CapInv'
  BY <1>0, <1>u, <1>4, EndTxnCaps DEF SkipRow
<1>5. ASSUME NEW l \in Lane, AdvanceRow(l) PROVE CapInv'
  BY <1>0, <1>u, <1>5, EndTxnCaps DEF AdvanceRow
<1>6. ASSUME NEW l \in Lane, RejectConfig(l) PROVE CapInv'
  BY <1>0, <1>u, <1>6, EndTxnCaps DEF RejectConfig
<1>7. ASSUME NEW l \in Lane, OpenReservation(l) PROVE CapInv'
  <2>1. ASSUME NEW m \in Lane, m # l PROVE LaneInv(m)'
    BY <1>0, <1>u, <1>7, <2>1, OtherLane DEF OpenReservation, TypeInv, TypeOK
  <2>2. LaneInv(l)'
    <3>1. txn'[l] = Opened(job[l]) /\ pc'[l] = "reserving"
      BY <1>0, <1>7 DEF OpenReservation, TypeInv, TypeOK
    <3>2. txn'[l].spent = NoSpend /\ txn'[l].checked = {}
      BY <3>1 DEF Opened, NoTxn
    <3>3. \A key \in CounterKey : Seen(l, key)' = used[key]
      BY <1>0, <1>7, <3>2, NoUsageNeutral DEF OpenReservation, Seen, NoSpend, TypeInv, TypeOK
    <3> QED BY <3>1, <3>2, <3>3 DEF LaneInv, SeenFits, SpentIsLocked, CheckedIsLocked,
                                    EmptyOutside, NoSpend, CapInv, UsedFits, Fits
  <2> QED BY <1>0, <1>u, <1>7, <2>1, <2>2 DEF OpenReservation, CapInv
<1>8. ASSUME NEW l \in Lane, NEW i \in RewardIx, GrantReward(l, i) PROVE CapInv'
  <2>1. ASSUME NEW m \in Lane, m # l PROVE LaneInv(m)'
    BY <1>0, <1>u, <1>8, <2>1, OtherLane DEF GrantReward, TypeInv, TypeOK
  <2>2. LaneInv(l)'
    <3>1. txn'[l] = WithGranted(txn[l], i, SpendOn(l, i)) /\ txn[l] \in Txn /\ pc'[l] = "reserving"
      BY <1>0, <1>8 DEF GrantReward, TypeInv, TypeOK
    <3>2. txn'[l].spent = SpendOn(l, i) /\ txn'[l].checked = {}
      BY <3>1 DEF WithGranted, Txn
    <3>3. \A key \in CounterKey : Seen(l, key)' = AddUsage(used[key], SpendOn(l, i)[key])
      BY <1>8, <3>2 DEF GrantReward, Seen
    <3>a. PICK spent : spent = SpendOn(l, i)
      OBVIOUS
    <3>b. \A key \in CounterKey : Fits(key, AddUsage(used[key], spent[key]))
      BY <1>0, <1>8, <3>a, GrantFits
    <3>c. \A key \in CounterKey : spent[key] # NoUsage => counterLock[key] = l
      BY <1>0, <1>8, <3>a, GrantFits
    <3>4. SeenFits(l)'
      BY <1>8, <3>a, <3>b, <3>2 DEF GrantReward, SeenFits, Seen, Fits, AddUsage
    <3>d. SpentIsLocked(l)'
      BY <1>8, <3>a, <3>c, <3>2 DEF GrantReward, SpentIsLocked, NoUsage
    <3>5. CheckedIsLocked(l)'
      BY <3>2 DEF CheckedIsLocked
    <3>6. EmptyOutside(l)'
      BY <3>1 DEF EmptyOutside
    <3> QED BY <3>4, <3>d, <3>5, <3>6 DEF LaneInv
  <2> QED BY <1>0, <1>u, <1>8, <2>1, <2>2 DEF GrantReward, CapInv
<1>9. ASSUME NEW l \in Lane, NEW i \in RewardIx, NEW k \in CapIx, CheckCap(l, i, k) PROVE CapInv'
  <2> DEFINE lockedKey == TxnKey(l, k)
  <2>0. /\ lockedKey \in CounterKey /\ counterLock[lockedKey] \in {NoLane, l}
        /\ counterLock' = [counterLock EXCEPT ![lockedKey] = l]
        /\ txn'[l] = WithChecked(txn[l], k) /\ txn[l] \in Txn
    BY <1>0, <1>9, TxnKeyType DEF CheckCap, Needs, Lockable, TypeInv, TypeOK
  <2>1. ASSUME NEW m \in Lane, m # l PROVE LaneInv(m)'
    <3>1. pc'[m] = pc[m] /\ job'[m] = job[m] /\ txn'[m] = txn[m] /\ used' = used
      BY <1>0, <1>9, <2>1 DEF CheckCap, TypeInv, TypeOK
    <3>2. \A key \in CounterKey : counterLock[key] = m => counterLock'[key] = m
      BY <1>0, <2>0, <2>1 DEF TypeInv, TypeOK
    <3> QED BY <1>0, <1>u, <3>1, <3>2, OtherLane
  <2>2. LaneInv(l)'
    <3>1. /\ txn'[l].spent = txn[l].spent /\ txn'[l].due = txn[l].due /\ txn'[l].day = txn[l].day
          /\ txn'[l].checked = txn[l].checked \cup {k}
      BY <2>0 DEF WithChecked, Txn
    <3>2. LaneInv(l) /\ pc[l] = "reserving"
      BY <1>9 DEF CheckCap, Needs, CapInv
    <3>3. UNCHANGED <<used, pc, job>>
      BY <1>9 DEF CheckCap
    <3>4. \A key : Seen(l, key)' = Seen(l, key)
      BY <3>1, <3>3 DEF Seen
    <3>5. SeenFits(l)'
      BY <3>2, <3>4 DEF LaneInv, SeenFits, Fits
    <3>6. SpentIsLocked(l)'
      BY <1>0, <2>0, <3>1, <3>2 DEF LaneInv, SpentIsLocked, TypeInv, TypeOK
    <3>7. CheckedIsLocked(l)'
      <4> SUFFICES ASSUME NEW j \in RewardIx, NEW c \in CapIx, IsNextReward(l, j)',
                          c \in txn'[l].checked
                   PROVE  /\ counterLock'[TxnKey(l, c)] = l
                          /\ ~Breaches(c, Seen(l, TxnKey(l, c)), j, TrackerOfRow(job[l]))
        BY <3>1, <3>3 DEF CheckedIsLocked, TxnKey, Seen, Breaches, TrackerOfRow
      <4>1. IsNextReward(l, j) /\ TxnKey(l, c) \in CounterKey
        BY <1>0, <3>1, <3>2, TxnKeyType DEF IsNextReward
      <4>2. CASE c \in txn[l].checked
        <5>1. /\ counterLock[TxnKey(l, c)] = l
              /\ ~Breaches(c, Seen(l, TxnKey(l, c)), j, TrackerOfRow(job[l]))
          BY <3>2, <4>1, <4>2 DEF LaneInv, CheckedIsLocked
        <5> QED BY <1>0, <2>0, <4>1, <5>1 DEF TypeInv, TypeOK
      <4>3. CASE c = k
        <5>1. i = j
          BY <1>9, <4>1 DEF CheckCap, Needs, IsNextReward
        <5>2. counterLock'[TxnKey(l, c)] = l
          BY <1>0, <2>0, <4>3 DEF TypeInv, TypeOK
        <5>3. ~Breaches(k, Seen(l, TxnKey(l, k)), i, TrackerOfRow(job[l]))
          BY <1>9 DEF CheckCap
        <5> QED BY <4>3, <5>1, <5>2, <5>3
      <4> QED BY <3>1, <4>2, <4>3
    <3> QED BY <3>2, <3>3, <3>5, <3>6, <3>7 DEF LaneInv, EmptyOutside
  <2> QED BY <1>0, <1>u, <1>9, <2>1, <2>2 DEF CheckCap, CapInv
<1>10. ASSUME NEW l \in Lane, NEW i \in RewardIx, NEW k \in CapIx, DenyReward(l, i, k) PROVE CapInv'
  <2> DEFINE lockedKey == TxnKey(l, k)
  <2>0. /\ lockedKey \in CounterKey /\ counterLock[lockedKey] \in {NoLane, l}
        /\ counterLock' = [counterLock EXCEPT ![lockedKey] = l]
        /\ txn'[l] = WithDenied(txn[l], i) /\ txn[l] \in Txn
    BY <1>0, <1>10, TxnKeyType DEF DenyReward, Needs, Lockable, TypeInv, TypeOK
  <2>1. ASSUME NEW m \in Lane, m # l PROVE LaneInv(m)'
    <3>1. pc'[m] = pc[m] /\ job'[m] = job[m] /\ txn'[m] = txn[m] /\ used' = used
      BY <1>0, <1>10, <2>1 DEF DenyReward, TypeInv, TypeOK
    <3>2. \A key \in CounterKey : counterLock[key] = m => counterLock'[key] = m
      BY <1>0, <2>0, <2>1 DEF TypeInv, TypeOK
    <3> QED BY <1>0, <1>u, <3>1, <3>2, OtherLane
  <2>2. LaneInv(l)'
    <3>1. txn'[l].spent = txn[l].spent /\ txn'[l].checked = {}
      BY <2>0 DEF WithDenied, Txn
    <3>2. LaneInv(l) /\ UNCHANGED <<used, pc>> /\ pc[l] = "reserving"
      BY <1>10 DEF DenyReward, Needs, CapInv
    <3>3. \A key : Seen(l, key)' = Seen(l, key)
      BY <3>1, <3>2 DEF Seen
    <3>4. SpentIsLocked(l)'
      BY <1>0, <2>0, <3>1, <3>2 DEF LaneInv, SpentIsLocked, TypeInv, TypeOK
    <3> QED BY <3>1, <3>2, <3>3, <3>4
            DEF LaneInv, SeenFits, Fits, CheckedIsLocked, EmptyOutside
  <2> QED BY <1>0, <1>u, <1>10, <2>1, <2>2 DEF DenyReward, CapInv
<1>11. ASSUME NEW l \in Lane, Commit(l) PROVE CapInv'
  <2>1. LaneInv(l) /\ EndTxn(l)
    BY <1>11 DEF Commit, CapInv
  <2>2. \A key \in CounterKey : used'[key] = Seen(l, key)
    BY <1>11 DEF Commit, Seen
  <2>3. UsedFits'
    BY <2>1, <2>2 DEF LaneInv, SeenFits, UsedFits, Fits
  <2>4. \A key \in CounterKey : counterLock[key] # l => used'[key] = used[key]
    BY <1>0, <2>1, <2>2, SpentType, NoUsageNeutral DEF LaneInv, SpentIsLocked, Seen
  <2> QED BY <1>0, <2>1, <2>3, <2>4, EndTxnCaps
<1>12. ASSUME NEW l \in Lane, DeadlockAbort(l) PROVE CapInv'
  BY <1>0, <1>u, <1>12, EndTxnCaps DEF DeadlockAbort
<1>13. ASSUME NEW l \in Lane, HandlerFails(l) PROVE CapInv'
  BY <1>0, <1>u, <1>13, EndTxnCaps DEF HandlerFails
<1>14. CASE NextDay
  BY <1>f, <1>14 DEF NextDay
<1>15. CASE UNCHANGED vars
  BY <1>f, <1>15 DEF vars
<1> QED
  BY <1>1, <1>2, <1>3, <1>4, <1>5, <1>6, <1>7, <1>8, <1>9, <1>10, <1>11, <1>12, <1>13, <1>14, <1>15
  DEF Next, Proceed

\* No committed counter is ever beyond its ceiling, for any campaign and any number of
\* lanes, faults, deadlocks, sweeps and days: the row locks alone guarantee it.
THEOREM CeilingsHold == Spec => []CeilingsRespected
<1>1. Spec => []CapInv
  BY CapInit, CapStep, PTL DEF Spec
<1>2. CapInv => CeilingsRespected
  BY DEF CapInv, UsedFits, Fits, CeilingsRespected
<1> QED BY <1>1, <1>2, PTL

----------------------------------------------------------------------------
\* Totals. Total(v, S) counts the pairs <<x, i>> with x \in S and 1 <= i <= v[x], so
\* what a sum does when its set or one of its terms changes is a fact on cardinalities.

\* The pairs Total counts, without the union.
LEMMA UnitsOf ==
  \A S, v, p : p \in Units(v, S) <=> \E x \in S : \E i \in 1..v[x] : p = <<x, i>>
BY DEF Units

LEMMA UpTo == \A n \in Nat : IsFiniteSet(1..n) /\ Cardinality(1..n) = n
<1> TAKE n \in Nat
<1>1. /\ IsFiniteSet(1..n)
      /\ Cardinality(1..n) = IF 1 > n THEN 0 ELSE n - 1 + 1
  BY FS_Interval
<1> QED BY <1>1

LEMMA OneElement == \A x : IsFiniteSet({x}) /\ Cardinality({x}) = 1
BY FS_Singleton, Zenon

LEMMA UnitsFinite ==
  ASSUME NEW S, IsFiniteSet(S), NEW v, \A x \in S : v[x] \in Nat
  PROVE  IsFiniteSet(Units(v, S)) /\ Total(v, S) \in Nat
<1> DEFINE columns == {{x} \X (1..v[x]) : x \in S}
           column == [x \in S |-> {x} \X (1..v[x])]
<1>1. IsFiniteSet(columns)
  <2>1. column \in Surjection(S, columns)
    BY DEF Surjection
  <2> QED BY <2>1, FS_Surjection
<1>2. ASSUME NEW x \in S PROVE IsFiniteSet({x} \X (1..v[x]))
  <2>1. IsFiniteSet(1..v[x]) /\ IsFiniteSet({x})
    BY UpTo, OneElement
  <2> QED BY <2>1, FS_Product
<1>3. \A T \in columns : IsFiniteSet(T)
  BY <1>2
<1> HIDE DEF columns
<1>4. IsFiniteSet(UNION columns)
  BY <1>1, <1>3, FS_UNION
<1> QED BY <1>4, FS_CardinalityType DEF Units, Total, columns

\* A sum over two disjoint sets is the sum of the sums.
LEMMA TotalJoin ==
  ASSUME NEW S, IsFiniteSet(S), NEW T, IsFiniteSet(T), S \cap T = {},
         NEW v, \A x \in S \cup T : v[x] \in Nat
  PROVE  Total(v, S \cup T) = Total(v, S) + Total(v, T)
<1>1. IsFiniteSet(Units(v, S)) /\ IsFiniteSet(Units(v, T))
  BY UnitsFinite
<1>2. Units(v, S \cup T) = Units(v, S) \cup Units(v, T)
  <2>1. ASSUME NEW p \in Units(v, S \cup T) PROVE p \in Units(v, S) \cup Units(v, T)
    <3>1. PICK x \in S \cup T : \E i \in 1..v[x] : p = <<x, i>>
      BY UnitsOf
    <3>2. CASE x \in S
      BY <3>1, <3>2, UnitsOf
    <3>3. CASE x \in T
      BY <3>1, <3>3, UnitsOf
    <3> QED BY <3>2, <3>3
  <2>2. Units(v, S) \subseteq Units(v, S \cup T) /\ Units(v, T) \subseteq Units(v, S \cup T)
    BY DEF Units
  <2> QED BY <2>1, <2>2
<1>3. Units(v, S) \cap Units(v, T) = {}
  <2>1. ASSUME NEW p, p \in Units(v, S), p \in Units(v, T) PROVE FALSE
    <3>1. PICK x \in S : \E i \in 1..v[x] : p = <<x, i>>
      BY <2>1, UnitsOf
    <3>2. PICK y \in T : \E i \in 1..v[y] : p = <<y, i>>
      BY <2>1, UnitsOf
    <3> QED BY <3>1, <3>2
  <2> QED BY <2>1
<1>4. Total(v, S) \in Nat /\ Total(v, T) \in Nat
  BY UnitsFinite
<1>5. Cardinality(Units(v, S) \cup Units(v, T))
        = Cardinality(Units(v, S)) + Cardinality(Units(v, T))
            - Cardinality(Units(v, S) \cap Units(v, T))
  BY <1>1, FS_Union
<1>6. Cardinality(Units(v, S) \cap Units(v, T)) = 0
  BY <1>3, FS_EmptySet
<1>7. Total(v, S \cup T) = Cardinality(Units(v, S) \cup Units(v, T))
  BY <1>2 DEF Total
<1>8. Total(v, S \cup T) = Total(v, S) + Total(v, T) - 0
  BY <1>5, <1>6, <1>7 DEF Total
<1> QED BY <1>4, <1>8

LEMMA TotalOne ==
  ASSUME NEW x, NEW v, v[x] \in Nat
  PROVE  Total(v, {x}) = v[x]
<1>1. Units(v, {x}) = {x} \X (1..v[x])
  BY DEF Units
<1>2. IsFiniteSet(1..v[x]) /\ Cardinality(1..v[x]) = v[x]
  BY UpTo
<1>3. Cardinality({x} \X (1..v[x])) = Cardinality({x}) * Cardinality(1..v[x])
  BY <1>2, OneElement, FS_Product
<1>4. Cardinality({x} \X (1..v[x])) = v[x]
  <2>1. \A n \in Nat : 1 * n = n
    OBVIOUS
  <2> QED BY <1>2, <1>3, <2>1, OneElement
<1> QED BY <1>1, <1>4 DEF Total

LEMMA TotalNone == \A v : Total(v, {}) = 0
<1> TAKE v
<1>1. Units(v, {}) = {}
  BY DEF Units
<1> QED BY <1>1, FS_EmptySet DEF Total

\* A sum depends on its terms only.
LEMMA TotalAgree ==
  ASSUME NEW S, NEW v, NEW w, \A x \in S : v[x] = w[x]
  PROVE  Total(v, S) = Total(w, S)
<1>1. \A p : p \in Units(v, S) <=> p \in Units(w, S)
  BY DEF Units
<1>2. Units(v, S) = Units(w, S)
  BY <1>1
<1> QED BY <1>2 DEF Total

\* One term more.
LEMMA TotalAdd ==
  ASSUME NEW S, IsFiniteSet(S), NEW x, x \notin S, NEW v, \A y \in S \cup {x} : v[y] \in Nat
  PROVE  Total(v, S \cup {x}) = Total(v, S) + v[x]
<1>1. IsFiniteSet({x}) /\ S \cap {x} = {}
  BY OneElement
<1>2. Total(v, S \cup {x}) = Total(v, S) + Total(v, {x})
  BY <1>1, TotalJoin
<1> QED BY <1>2, TotalOne

\* One term changed.
OnlyTermChanged(v, w, S, x) ==
  /\ IsFiniteSet(S) /\ x \in S
  /\ \A y \in S : v[y] \in Nat /\ w[y] \in Nat
  /\ \A y \in S : y # x => w[y] = v[y]

LEMMA TotalChange ==
  ASSUME NEW v, NEW w, NEW S, NEW x, OnlyTermChanged(v, w, S, x)
  PROVE  Total(w, S) = Total(v, S) - v[x] + w[x]
<1> USE DEF OnlyTermChanged
<1> DEFINE rest == S \ {x}
<1>1. IsFiniteSet(rest) /\ x \notin rest /\ S = rest \cup {x}
  BY FS_RemoveElement
<1>2. Total(v, rest) = Total(w, rest)
  BY TotalAgree
<1> HIDE DEF rest
<1>3. Total(v, S) = Total(v, rest) + v[x] /\ Total(w, S) = Total(w, rest) + w[x]
  BY <1>1, TotalAdd
<1>4. Total(v, rest) \in Nat
  BY <1>1, UnitsFinite
<1> QED BY <1>2, <1>3, <1>4

\* No term, no sum.
LEMMA TotalZero ==
  ASSUME NEW S, NEW v, \A x \in S : v[x] = 0
  PROVE  Total(v, S) = 0
<1>1. \A p : p \notin Units(v, S)
  <2> SUFFICES ASSUME NEW p, p \in Units(v, S) PROVE FALSE
    OBVIOUS
  <2>1. PICK x \in S : \E i \in 1..v[x] : p = <<x, i>>
    BY UnitsOf
  <2>2. v[x] = 0
    OBVIOUS
  <2> QED BY <2>1, <2>2
<1> QED BY <1>1, FS_EmptySet DEF Total

\* If one term at most is not zero, the sum is that term.
LEMMA TotalSingle ==
  ASSUME NEW S, IsFiniteSet(S), NEW x \in S, NEW v, v[x] \in Nat,
         \A y \in S : y # x => v[y] = 0
  PROVE  Total(v, S) = v[x]
<1>1. Units(v, {x}) \subseteq Units(v, S)
  BY DEF Units
<1>2. ASSUME NEW p \in Units(v, S) PROVE p \in Units(v, {x})
  <2>1. PICK y \in S : \E i \in 1..v[y] : p = <<y, i>>
    BY UnitsOf
  <2>2. y = x
    BY <2>1
  <2> QED BY <2>1, <2>2, UnitsOf
<1>3. Units(v, S) = Units(v, {x})
  BY <1>1, <1>2
<1> QED BY <1>3, TotalOne DEF Total

----------------------------------------------------------------------------
\* What an open transaction knows. A lane reads its customer's progress and status once,
\* before it waits for counters; the advisory lock keeps both as it read them.

Held(l) ==
  pc[l] = "reserving" =>
    /\ advisoryLock[CustomerOfRow(job[l])] = l
    /\ IsTarget(job[l]) /\ job[l] \in Passing
    /\ JustCompleted(job[l]) /\ Supported(TrackerOfRow(job[l]))
    /\ txn[l].cycles = CyclesAfter(job[l])
    /\ txn[l].status = StatusAfter(job[l])
    /\ txn[l].due \cup txn[l].granted \subseteq DueAfter(job[l])
    /\ txn[l].due \cap txn[l].granted = {}
    /\ ~txn[l].denied => DueAfter(job[l]) \subseteq txn[l].due \cup txn[l].granted

LockInv == TypeInv /\ \A l \in Lane : Held(l)

LEMMA LockInit == Init => LockInv
BY TypeInit DEF Init, LockInv, Held

\* What the handler decides from depends on one customer's rows only.
LEMMA SameCustomer ==
  ASSUME NEW r \in Row,
         progress'[CustomerOfRow(r)] = progress[CustomerOfRow(r)],
         tracker'[CustomerOfRow(r)] = tracker[CustomerOfRow(r)]
  PROVE  /\ CyclesAfter(r)' = CyclesAfter(r) /\ JustCompleted(r)' = JustCompleted(r)
         /\ StatusAfter(r)' = StatusAfter(r) /\ DueAfter(r)' = DueAfter(r)
         /\ IsTarget(r)' = IsTarget(r)
<1>1. CyclesAfter(r)' = CyclesAfter(r)
  BY DEF CyclesAfter, CustomerOfRow
<1>2. JustCompleted(r)' = JustCompleted(r)
  BY <1>1 DEF JustCompleted
<1>3. StatusBefore(r)' = StatusBefore(r)
  BY DEF StatusBefore, CustomerOfRow, TrackerOfRow
<1>4. StatusAfter(r)' = StatusAfter(r)
  BY <1>2, <1>3 DEF StatusAfter, TrackerOfRow
<1>5. DueAfter(r)' = DueAfter(r)
  BY <1>2, <1>4 DEF DueAfter, TrackerOfRow
<1>6. IsTarget(r)' = IsTarget(r)
  BY DEF IsTarget, CustomerOfRow
<1> QED BY <1>1, <1>2, <1>4, <1>5, <1>6

\* A lane keeps what it knows when neither it nor its customer's rows change.
LEMMA OtherHolds ==
  ASSUME LockInv, NEW m \in Lane, pc'[m] = pc[m], job'[m] = job[m], txn'[m] = txn[m],
         pc[m] = "reserving" =>
           /\ advisoryLock'[CustomerOfRow(job[m])] = m
           /\ progress'[CustomerOfRow(job[m])] = progress[CustomerOfRow(job[m])]
           /\ tracker'[CustomerOfRow(job[m])] = tracker[CustomerOfRow(job[m])]
  PROVE  Held(m)'
<1>1. CASE pc[m] = "reserving"
  <2>1. PICK r \in Row : r = job[m]
    BY <1>1, BusyRow DEF LockInv
  <2>2. Held(m)
    BY DEF LockInv
  <2>3. /\ CyclesAfter(r)' = CyclesAfter(r) /\ JustCompleted(r)' = JustCompleted(r)
        /\ StatusAfter(r)' = StatusAfter(r) /\ DueAfter(r)' = DueAfter(r)
        /\ IsTarget(r)' = IsTarget(r)
    BY <1>1, <2>1, SameCustomer
  <2>4. /\ advisoryLock[CustomerOfRow(r)] = m /\ IsTarget(r) /\ r \in Passing
        /\ JustCompleted(r) /\ Supported(TrackerOfRow(r))
        /\ txn[m].cycles = CyclesAfter(r) /\ txn[m].status = StatusAfter(r)
        /\ txn[m].due \cup txn[m].granted \subseteq DueAfter(r)
        /\ txn[m].due \cap txn[m].granted = {}
        /\ ~txn[m].denied => DueAfter(r) \subseteq txn[m].due \cup txn[m].granted
    BY <1>1, <2>1, <2>2 DEF Held
  <2>5. job'[m] = r /\ advisoryLock'[CustomerOfRow(r)] = m
    BY <1>1, <2>1
  <2>6. CustomerOfRow(r)' = CustomerOfRow(r) /\ TrackerOfRow(r)' = TrackerOfRow(r)
    BY DEF CustomerOfRow, TrackerOfRow
  <2>7. /\ advisoryLock'[CustomerOfRow(r)] = m /\ IsTarget(r)' /\ r \in Passing
        /\ JustCompleted(r)' /\ Supported(TrackerOfRow(r))
        /\ txn'[m].cycles = CyclesAfter(r)' /\ txn'[m].status = StatusAfter(r)'
        /\ txn'[m].due \cup txn'[m].granted \subseteq DueAfter(r)'
        /\ txn'[m].due \cap txn'[m].granted = {}
        /\ ~txn'[m].denied => DueAfter(r)' \subseteq txn'[m].due \cup txn'[m].granted
    BY <2>3, <2>4, <2>5
  <2> QED BY <2>5, <2>7
          DEF Held, IsTarget, JustCompleted, CyclesAfter, StatusAfter, DueAfter, StatusBefore,
              CustomerOfRow, TrackerOfRow
<1>2. CASE pc[m] # "reserving"
  BY <1>2 DEF Held
<1> QED BY <1>1, <1>2

\* The steps that write progress and tracker rows.
Advancing(l) == AdvanceRow(l) \/ Commit(l)

\* They write what the handler computes from the rows as they are at that moment, while
\* no other lane has an open transaction for the customer.
LEMMA AdvancingIs ==
  ASSUME LockInv, NEW l \in Lane, Advancing(l)
  PROVE  /\ job[l] \in Row /\ pc[l] # "idle"
         /\ IsTarget(job[l]) /\ job[l] \in Passing
         /\ JustCompleted(job[l]) => Supported(TrackerOfRow(job[l]))
         /\ Advance(job[l], CyclesAfter(job[l]), StatusAfter(job[l]))
         /\ CyclesAfter(job[l]) \in Seq(Cycle) /\ StatusAfter(job[l]) \in TrackerStatus
         /\ \A m \in Lane : m # l /\ pc[m] = "reserving" => CustomerOfRow(job[m]) # CustomerOfRow(job[l])
         /\ EndTxn(l)
<1>1. job[l] \in Row /\ pc[l] # "idle" /\ Held(l) /\ TypeOK
  BY BusyRow DEF LockInv, TypeInv, Advancing, AdvanceRow, MayAdvance, CanLock, Commit
<1>2. EndTxn(l)
  BY DEF Advancing, AdvanceRow, Commit
<1>3. /\ IsTarget(job[l]) /\ job[l] \in Passing
      /\ JustCompleted(job[l]) => Supported(TrackerOfRow(job[l]))
  BY <1>1 DEF Advancing, AdvanceRow, MayAdvance, Commit, Held
<1>4. Advance(job[l], CyclesAfter(job[l]), StatusAfter(job[l]))
  <2>1. CASE AdvanceRow(l)
    BY <2>1 DEF AdvanceRow
  <2>2. CASE Commit(l)
    <3>1. txn[l].cycles = CyclesAfter(job[l]) /\ txn[l].status = StatusAfter(job[l])
      BY <1>1, <2>2 DEF Commit, Held
    <3> QED BY <2>2, <3>1 DEF Commit
  <2> QED BY <2>1, <2>2 DEF Advancing
<1>5. advisoryLock[CustomerOfRow(job[l])] \in {NoLane, l}
  BY <1>1 DEF Advancing, AdvanceRow, MayAdvance, CanLock, Commit, Held
<1>6. \A m \in Lane : m # l /\ pc[m] = "reserving" => CustomerOfRow(job[m]) # CustomerOfRow(job[l])
  BY <1>5 DEF LockInv, Held
<1>7. CyclesAfter(job[l]) \in Seq(Cycle) /\ StatusAfter(job[l]) \in TrackerStatus
  BY <1>1, <1>3, CyclesAfterType, StatusAfterType
<1> QED BY <1>1, <1>2, <1>3, <1>4, <1>6, <1>7

\* What they leave alone.
LEMMA AdvanceElsewhere ==
  ASSUME TypeOK, NEW r \in Row, NEW cycles, NEW status, Advance(r, cycles, status)
  PROVE  /\ \A u \in Customer, c \in Component :
              u # CustomerOfRow(r) \/ c # r[2] => progress'[u][c] = progress[u][c]
         /\ \A u \in Customer, t \in Tracker :
              u # CustomerOfRow(r) \/ t # TrackerOfRow(r) => tracker'[u][t] = tracker[u][t]
         /\ \A u \in Customer : u # CustomerOfRow(r) => progress'[u] = progress[u] /\ tracker'[u] = tracker[u]
         /\ \A q \in Row : q # r => advances'[q] = advances[q]
         /\ progress'[CustomerOfRow(r)][r[2]] = cycles
         /\ tracker'[CustomerOfRow(r)][TrackerOfRow(r)] = status
         /\ advances'[r] = advances[r] + 1
BY RowType DEF Advance, TypeOK

LEMMA EndTxnElsewhere ==
  ASSUME TypeOK, NEW l \in Lane, EndTxn(l)
  PROVE  /\ \A m \in Lane : m # l => pc'[m] = pc[m] /\ job'[m] = job[m] /\ txn'[m] = txn[m]
         /\ \A m \in Lane, u \in Customer : m # l /\ advisoryLock[u] = m => advisoryLock'[u] = m
         /\ pc'[l] = "idle" /\ job'[l] = NoRow /\ txn'[l] = NoTxn
BY DEF EndTxn, TypeOK

LEMMA LockStep == LockInv /\ [Next]_vars => LockInv'
<1> SUFFICES ASSUME LockInv, [Next]_vars PROVE LockInv'
  OBVIOUS
<1>0. TypeInv /\ TypeInv' /\ TypeOK /\ TypeOK'
  BY TypeStep DEF LockInv, TypeInv
<1>h. \A m \in Lane : pc[m] = "reserving" =>
        CustomerOfRow(job[m]) \in Customer /\ advisoryLock[CustomerOfRow(job[m])] = m
  BY <1>0, BusyRow, RowType DEF LockInv, Held
\* A step that touches no transaction and no customer's rows.
<1>f. ASSUME UNCHANGED <<pc, job, txn, advisoryLock, progress, tracker>> PROVE LockInv'
  BY <1>0, <1>h, <1>f, OtherHolds DEF LockInv
\* A transaction that ends without a trace.
<1>e. ASSUME NEW l \in Lane, EndTxn(l), UNCHANGED <<progress, tracker>> PROVE LockInv'
  <2>1. ASSUME NEW m \in Lane, m # l PROVE Held(m)'
    <3>1. pc'[m] = pc[m] /\ job'[m] = job[m] /\ txn'[m] = txn[m]
      BY <1>0, <1>e, <2>1, EndTxnElsewhere
    <3>2. pc[m] = "reserving" => advisoryLock'[CustomerOfRow(job[m])] = m
      BY <1>0, <1>e, <1>h, <2>1, EndTxnElsewhere
    <3> QED BY <1>e, <3>1, <3>2, OtherHolds
  <2>2. Held(l)'
    BY <1>0, <1>e, EndTxnElsewhere DEF Held
  <2> QED BY <1>0, <2>1, <2>2 DEF LockInv
\* A transaction that writes.
<1>a. ASSUME NEW l \in Lane, Advancing(l) PROVE LockInv'
  <2>0. PICK r \in Row : r = job[l]
    BY <1>a, AdvancingIs
  <2>1. /\ Advance(r, CyclesAfter(r), StatusAfter(r)) /\ EndTxn(l)
        /\ \A m \in Lane : m # l /\ pc[m] = "reserving" => CustomerOfRow(job[m]) # CustomerOfRow(r)
    BY <1>a, <2>0, AdvancingIs
  <2>2. ASSUME NEW m \in Lane, m # l PROVE Held(m)'
    <3>1. pc'[m] = pc[m] /\ job'[m] = job[m] /\ txn'[m] = txn[m]
      BY <1>0, <2>1, <2>2, EndTxnElsewhere
    <3>2. pc[m] = "reserving" => advisoryLock'[CustomerOfRow(job[m])] = m
      BY <1>0, <1>h, <2>1, <2>2, EndTxnElsewhere
    <3>3. pc[m] = "reserving" =>
            /\ progress'[CustomerOfRow(job[m])] = progress[CustomerOfRow(job[m])]
            /\ tracker'[CustomerOfRow(job[m])] = tracker[CustomerOfRow(job[m])]
      BY <1>0, <1>h, <2>1, <2>2, AdvanceElsewhere
    <3> QED BY <3>1, <3>2, <3>3, OtherHolds
  <2>3. Held(l)'
    BY <1>0, <2>1, EndTxnElsewhere DEF Held
  <2> QED BY <1>0, <2>2, <2>3 DEF LockInv
\* A lane that gets on with its own transaction.
<1>w. ASSUME NEW l \in Lane, pc[l] = "reserving", NEW x \in Txn, txn' = [txn EXCEPT ![l] = x],
             UNCHANGED <<pc, job, advisoryLock, progress, tracker>>,
             x.cycles = txn[l].cycles, x.status = txn[l].status,
             x.due \cup x.granted \subseteq txn[l].due \cup txn[l].granted,
             x.due \cap x.granted = {},
             ~x.denied => ~txn[l].denied /\ txn[l].due \cup txn[l].granted \subseteq x.due \cup x.granted
      PROVE  LockInv'
  <2>1. ASSUME NEW m \in Lane, m # l PROVE Held(m)'
    BY <1>0, <1>h, <1>w, <2>1, OtherHolds DEF TypeOK
  <2>2. Held(l)'
    <3>1. Held(l) /\ txn'[l] = x
      BY <1>0, <1>w DEF LockInv, TypeOK
    <3>2. PICK r \in Row : r = job[l] /\ r = job'[l]
      BY <1>0, <1>w, BusyRow
    <3>3. /\ CyclesAfter(r)' = CyclesAfter(r) /\ JustCompleted(r)' = JustCompleted(r)
          /\ StatusAfter(r)' = StatusAfter(r) /\ DueAfter(r)' = DueAfter(r)
          /\ IsTarget(r)' = IsTarget(r)
      BY <1>w, SameCustomer
    <3>4. /\ advisoryLock[CustomerOfRow(r)] = l /\ IsTarget(r) /\ r \in Passing
          /\ JustCompleted(r) /\ Supported(TrackerOfRow(r))
          /\ txn[l].cycles = CyclesAfter(r) /\ txn[l].status = StatusAfter(r)
          /\ txn[l].due \cup txn[l].granted \subseteq DueAfter(r)
          /\ ~txn[l].denied => DueAfter(r) \subseteq txn[l].due \cup txn[l].granted
      BY <1>w, <3>1, <3>2 DEF Held
    <3>5. /\ advisoryLock'[CustomerOfRow(r)] = l /\ IsTarget(r)' /\ r \in Passing
          /\ JustCompleted(r)' /\ Supported(TrackerOfRow(r))
          /\ x.cycles = CyclesAfter(r)' /\ x.status = StatusAfter(r)'
          /\ x.due \cup x.granted \subseteq DueAfter(r)'
          /\ x.due \cap x.granted = {}
          /\ ~x.denied => DueAfter(r)' \subseteq x.due \cup x.granted
      BY <1>w, <3>3, <3>4
    <3>6. /\ job'[l] = r
          /\ txn'[l].cycles = CyclesAfter(r)' /\ txn'[l].status = StatusAfter(r)'
          /\ txn'[l].due \cup txn'[l].granted \subseteq DueAfter(r)'
          /\ txn'[l].due \cap txn'[l].granted = {}
          /\ ~txn'[l].denied => DueAfter(r)' \subseteq txn'[l].due \cup txn'[l].granted
      BY <3>1, <3>2, <3>5
    <3> QED BY <3>5, <3>6
            DEF Held, IsTarget, JustCompleted, CyclesAfter, StatusAfter, DueAfter, StatusBefore,
                CustomerOfRow, TrackerOfRow
  <2> QED BY <1>0, <2>1, <2>2 DEF LockInv
<1> USE DEF dbVars, laneVars, boundVars
<1>1. ASSUME NEW s \in Submission, Ingest(s) PROVE LockInv'
  BY <1>f, <1>1 DEF Ingest
<1>2. ASSUME NEW l \in Lane, NEW r \in Row, Claim(l, r) PROVE LockInv'
  <2>1. ASSUME NEW m \in Lane, m # l PROVE Held(m)'
    BY <1>0, <1>h, <1>2, <2>1, OtherHolds DEF Claim, TypeOK
  <2>2. Held(l)'
    BY <1>0, <1>2 DEF Claim, Held, TypeOK
  <2> QED BY <1>0, <2>1, <2>2 DEF LockInv
<1>3. ASSUME NEW r \in Row, SweepStale(r) PROVE LockInv'
  BY <1>f, <1>3 DEF SweepStale
<1>4. ASSUME NEW l \in Lane, SkipRow(l) PROVE LockInv'
  BY <1>e, <1>4 DEF SkipRow
<1>5. ASSUME NEW l \in Lane, AdvanceRow(l) PROVE LockInv'
  BY <1>a, <1>5 DEF Advancing
<1>6. ASSUME NEW l \in Lane, RejectConfig(l) PROVE LockInv'
  BY <1>e, <1>6 DEF RejectConfig
<1>7. ASSUME NEW l \in Lane, OpenReservation(l) PROVE LockInv'
  <2>0. PICK r \in Row : r = job[l] /\ CustomerOfRow(r) \in Customer
    BY <1>0, <1>7, BusyRow, RowType DEF OpenReservation, MayAdvance, CanLock
  <2>1. ASSUME NEW m \in Lane, m # l PROVE Held(m)'
    BY <1>0, <1>h, <1>7, <2>1, OtherHolds DEF OpenReservation, MayAdvance, CanLock, TypeOK
  <2>2. Held(l)'
    <3>1. /\ pc'[l] = "reserving" /\ txn'[l] = Opened(r) /\ job'[l] = r
          /\ advisoryLock'[CustomerOfRow(r)] = l
          /\ UNCHANGED <<progress, tracker>>
      BY <1>0, <1>7, <2>0 DEF OpenReservation, TypeOK
    <3>2. /\ txn'[l].cycles = CyclesAfter(r) /\ txn'[l].status = StatusAfter(r)
          /\ txn'[l].due = DueAfter(r) /\ txn'[l].granted = {}
      BY <3>1 DEF Opened, NoTxn
    <3>3. DueAfter(r) # {} => JustCompleted(r)
      BY DEF DueAfter
    <3>4. IsTarget(r) /\ r \in Passing /\ JustCompleted(r) /\ Supported(TrackerOfRow(r))
      BY <1>7, <2>0, <3>3 DEF OpenReservation, MayAdvance
    <3> QED BY <3>1, <3>2, <3>4
            DEF Held, IsTarget, JustCompleted, CyclesAfter, StatusAfter, DueAfter, StatusBefore,
                CustomerOfRow, TrackerOfRow
  <2> QED BY <1>0, <2>1, <2>2 DEF LockInv
<1>8. ASSUME NEW l \in Lane, NEW i \in RewardIx, GrantReward(l, i) PROVE LockInv'
  <2>1. PICK x \in Txn : x = WithGranted(txn[l], i, SpendOn(l, i))
    BY <1>0, <1>8, SpendOnType, WithType DEF GrantReward, TypeOK
  <2>2. /\ x.cycles = txn[l].cycles /\ x.status = txn[l].status /\ x.denied = txn[l].denied
        /\ x.due = txn[l].due \ {i} /\ x.granted = txn[l].granted \cup {i}
    BY <1>0, <2>1 DEF WithGranted, Txn, TypeOK
  <2>3. i \in txn[l].due /\ txn[l].due \cap txn[l].granted = {}
    BY <1>8 DEF GrantReward, IsNextReward, LockInv, Held
  <2> QED BY <1>w, <1>8, <2>1, <2>2, <2>3 DEF GrantReward
<1>9. ASSUME NEW l \in Lane, NEW i \in RewardIx, NEW k \in CapIx, CheckCap(l, i, k) PROVE LockInv'
  <2>1. PICK x \in Txn : x = WithChecked(txn[l], k)
    BY <1>0, <1>9, WithType DEF CheckCap, TypeOK
  <2>2. /\ x.cycles = txn[l].cycles /\ x.status = txn[l].status /\ x.denied = txn[l].denied
        /\ x.due = txn[l].due /\ x.granted = txn[l].granted
    BY <1>0, <2>1 DEF WithChecked, Txn, TypeOK
  <2>3. txn[l].due \cap txn[l].granted = {}
    BY <1>9 DEF CheckCap, Needs, LockInv, Held
  <2> QED BY <1>w, <1>9, <2>1, <2>2, <2>3 DEF CheckCap, Needs
<1>10. ASSUME NEW l \in Lane, NEW i \in RewardIx, NEW k \in CapIx, DenyReward(l, i, k) PROVE LockInv'
  <2>1. PICK x \in Txn : x = WithDenied(txn[l], i)
    BY <1>0, <1>10, WithType DEF DenyReward, TypeOK
  <2>2. /\ x.cycles = txn[l].cycles /\ x.status = txn[l].status /\ x.denied = TRUE
        /\ x.due = txn[l].due \ {i} /\ x.granted = txn[l].granted
    BY <1>0, <2>1 DEF WithDenied, Txn, TypeOK
  <2>3. txn[l].due \cap txn[l].granted = {}
    BY <1>10 DEF DenyReward, Needs, LockInv, Held
  <2> QED BY <1>w, <1>10, <2>1, <2>2, <2>3 DEF DenyReward, Needs
<1>11. ASSUME NEW l \in Lane, Commit(l) PROVE LockInv'
  BY <1>a, <1>11 DEF Advancing
<1>12. ASSUME NEW l \in Lane, DeadlockAbort(l) PROVE LockInv'
  BY <1>e, <1>12 DEF DeadlockAbort
<1>13. ASSUME NEW l \in Lane, HandlerFails(l) PROVE LockInv'
  BY <1>e, <1>13 DEF HandlerFails
<1>14. CASE NextDay
  BY <1>f, <1>14 DEF NextDay
<1>15. CASE UNCHANGED vars
  BY <1>f, <1>15 DEF vars
<1> HIDE DEF LockInv
<1> QED
  BY <1>1, <1>2, <1>3, <1>4, <1>5, <1>6, <1>7, <1>8, <1>9, <1>10, <1>11, <1>12, <1>13, <1>14, <1>15
  DEF Next, Proceed

\* Every other step leaves the committed tables alone.
LEMMA OnlyAdvancingWrites ==
  ASSUME [Next]_vars
  PROVE  \/ UNCHANGED <<progress, tracker, advances, used, entries>>
         \/ \E l \in Lane : Advancing(l)
<1> DEFINE Idle == UNCHANGED <<progress, tracker, advances, used, entries>>
<1> USE DEF dbVars
<1>1. \A s \in Submission : Ingest(s) => Idle
  BY DEF Ingest
<1>2. \A l \in Lane, r \in Row : Claim(l, r) => Idle
  BY DEF Claim
<1>3. \A r \in Row : SweepStale(r) => Idle
  BY DEF SweepStale
<1>4. \A l \in Lane : SkipRow(l) \/ RejectConfig(l) \/ OpenReservation(l) => Idle
  BY DEF SkipRow, RejectConfig, OpenReservation
<1>5. \A l \in Lane, i \in RewardIx : GrantReward(l, i) => Idle
  BY DEF GrantReward
<1>6. \A l \in Lane, i \in RewardIx, k \in CapIx : CheckCap(l, i, k) \/ DenyReward(l, i, k) => Idle
  BY DEF CheckCap, DenyReward
<1>7. \A l \in Lane : DeadlockAbort(l) \/ HandlerFails(l) => Idle
  BY DEF DeadlockAbort, HandlerFails
<1>8. NextDay \/ UNCHANGED vars => Idle
  BY DEF NextDay, vars
<1> HIDE DEF Idle
<1>9. \A l \in Lane : Proceed(l) => Idle \/ Advancing(l)
  BY <1>4, <1>5, <1>6 DEF Proceed, Advancing
<1>10. Idle \/ \E l \in Lane : Advancing(l)
  BY <1>1, <1>2, <1>3, <1>7, <1>8, <1>9 DEF Next
<1> QED BY <1>10 DEF Idle

----------------------------------------------------------------------------
\* Progress accounts for the advances.

\* The activities a component's progress rows have counted.
Counted(cycles) == Total([n \in DOMAIN cycles |-> cycles[n].count], DOMAIN cycles)

\* A passing activity opens a cycle of its own after a completed one ...
LEMMA AfterPassOpens ==
  ASSUME NEW cycles \in Seq(Cycle), NEW required \in Nat, NEW s \in Submission,
         cycles = <<>> \/ LatestComplete(cycles),
         NEW after, after = AfterPass(cycles, required, s)
  PROVE  /\ after \in Seq(Cycle) /\ Len(after) = Len(cycles) + 1
         /\ after[Len(cycles) + 1].count = 1
         /\ after[Len(cycles) + 1].complete = (1 >= required)
         /\ after[Len(cycles) + 1].last = s
         /\ \A n \in 1..Len(cycles) : after[n] = cycles[n]
<1> DEFINE new == [count |-> 1, complete |-> 1 >= required, last |-> s]
<1>1. AfterPass(cycles, required, s) = Append(cycles, new)
  BY DEF AfterPass
<1>2. new \in Cycle
  BY DEF Cycle
<1> HIDE DEF new
<1>3. /\ Append(cycles, new) \in Seq(Cycle) /\ Len(Append(cycles, new)) = Len(cycles) + 1
      /\ Append(cycles, new)[Len(cycles) + 1] = new
      /\ \A n \in 1..Len(cycles) : Append(cycles, new)[n] = cycles[n]
  BY <1>2, AppendProperties
<1>4. new.count = 1 /\ new.complete = (1 >= required) /\ new.last = s
  BY DEF new
<1> QED BY <1>1, <1>3, <1>4

\* ... and is added to an open one in place.
LEMMA AfterPassCountsOn ==
  ASSUME NEW cycles \in Seq(Cycle), NEW required \in Nat, NEW s \in Submission,
         ~(cycles = <<>> \/ LatestComplete(cycles)),
         NEW after, after = AfterPass(cycles, required, s)
  PROVE  /\ after \in Seq(Cycle) /\ Len(after) = Len(cycles) /\ Len(cycles) \in 1..Len(cycles)
         /\ ~cycles[Len(cycles)].complete
         /\ after[Len(cycles)].count = cycles[Len(cycles)].count + 1
         /\ after[Len(cycles)].complete = (cycles[Len(cycles)].count + 1 >= required)
         /\ after[Len(cycles)].last = s
         /\ \A n \in 1..Len(cycles) : n # Len(cycles) => after[n] = cycles[n]
<1> DEFINE open == cycles[Len(cycles)]
           new == [count |-> open.count + 1, complete |-> open.count + 1 >= required, last |-> s]
<1>1. AfterPass(cycles, required, s) = [cycles EXCEPT ![Len(cycles)] = new]
  BY DEF AfterPass
<1>2. Len(cycles) \in 1..Len(cycles) /\ open \in Cycle /\ ~open.complete
  BY EmptySeq, LenProperties, ElementOfSeq DEF LatestComplete
<1>3. new \in Cycle
  BY <1>2 DEF Cycle
<1> HIDE DEF new
<1>4. /\ [cycles EXCEPT ![Len(cycles)] = new] \in Seq(Cycle)
      /\ Len([cycles EXCEPT ![Len(cycles)] = new]) = Len(cycles)
      /\ [cycles EXCEPT ![Len(cycles)] = new][Len(cycles)] = new
      /\ \A n \in 1..Len(cycles) : n # Len(cycles) => [cycles EXCEPT ![Len(cycles)] = new][n] = cycles[n]
  BY <1>2, <1>3, ExceptSeq, LenProperties
<1>5. new.count = open.count + 1 /\ new.complete = (open.count + 1 >= required) /\ new.last = s
  BY DEF new
<1> QED BY <1>1, <1>2, <1>4, <1>5

LEMMA CycleAt == \A cycles \in Seq(Cycle) : \A n \in 1..Len(cycles) :
                   cycles[n] \in Cycle /\ cycles[n].count \in Nat /\ cycles[n].complete \in BOOLEAN
<1> TAKE cycles \in Seq(Cycle)
<1> TAKE n \in 1..Len(cycles)
<1>1. cycles[n] \in Cycle
  BY ElementOfSeq
<1> QED BY <1>1 DEF Cycle

\* A passing activity is counted once.
LEMMA AfterPassCounted ==
  ASSUME NEW cycles \in Seq(Cycle), NEW required \in Nat, NEW s \in Submission
  PROVE  Counted(AfterPass(cycles, required, s)) = Counted(cycles) + 1 /\ Counted(cycles) \in Nat
<1> PICK after : after = AfterPass(cycles, required, s)
  OBVIOUS
<1> DEFINE before == [n \in DOMAIN cycles |-> cycles[n].count]
           counts == [n \in DOMAIN after |-> after[n].count]
<1>0. DOMAIN cycles = 1..Len(cycles) /\ Len(cycles) \in Nat /\ IsFiniteSet(1..Len(cycles))
  BY LenProperties, UpTo
<1>1. \A n \in 1..Len(cycles) : before[n] \in Nat
  BY <1>0, CycleAt
<1>2. Total(before, 1..Len(cycles)) \in Nat
  BY <1>0, <1>1, UnitsFinite
<1>3. CASE cycles = <<>> \/ LatestComplete(cycles)
  <2>1. /\ after \in Seq(Cycle) /\ Len(after) = Len(cycles) + 1
        /\ after[Len(cycles) + 1].count = 1
        /\ \A n \in 1..Len(cycles) : after[n] = cycles[n]
    BY <1>3, AfterPassOpens
  <2>2. DOMAIN after = (1..Len(cycles)) \cup {Len(cycles) + 1} /\ Len(cycles) + 1 \notin 1..Len(cycles)
    BY <1>0, <2>1, LenProperties
  <2>3. \A n \in 1..Len(cycles) : counts[n] = before[n]
    BY <1>0, <2>1, <2>2
  <2>4. counts[Len(cycles) + 1] = 1
    BY <2>1, <2>2
  <2> HIDE DEF counts, before
  <2>5. ASSUME NEW n \in (1..Len(cycles)) \cup {Len(cycles) + 1} PROVE counts[n] \in Nat
    <3>1. CASE n \in 1..Len(cycles)
      <4>1. before[n] \in Nat
        BY <1>1, <3>1
      <4> QED BY <2>3, <3>1, <4>1
    <3>2. CASE n = Len(cycles) + 1
      BY <2>4, <3>2
    <3> QED BY <3>1, <3>2
  <2>6. Total(counts, (1..Len(cycles)) \cup {Len(cycles) + 1}) = Total(counts, 1..Len(cycles)) + counts[Len(cycles) + 1]
    BY <1>0, <2>2, <2>5, TotalAdd
  <2>7. Total(counts, 1..Len(cycles)) = Total(before, 1..Len(cycles))
    BY <2>3, TotalAgree
  <2>8. Total(counts, DOMAIN after) = Total(before, 1..Len(cycles)) + 1
    BY <2>2, <2>4, <2>6, <2>7
  <2> QED BY <1>0, <1>2, <2>8 DEF Counted, counts, before
<1>4. CASE ~(cycles = <<>> \/ LatestComplete(cycles))
  <2> DEFINE k == Len(cycles)
  <2>1. /\ after \in Seq(Cycle) /\ Len(after) = Len(cycles) /\ k \in 1..Len(cycles)
        /\ after[k].count = cycles[k].count + 1
        /\ \A n \in 1..Len(cycles) : n # k => after[n] = cycles[n]
    BY <1>4, AfterPassCountsOn
  <2>2. DOMAIN after = 1..Len(cycles)
    BY <2>1, LenProperties
  <2>3. counts[k] = before[k] + 1 /\ \A n \in 1..Len(cycles) : n # k => counts[n] = before[n]
    BY <1>0, <2>1, <2>2
  <2> HIDE DEF counts, before, k
  <2>4. \A n \in 1..Len(cycles) : before[n] \in Nat /\ counts[n] \in Nat
    BY <1>1, <2>1, <2>3
  <2>a. OnlyTermChanged(before, counts, 1..Len(cycles), k)
    BY <1>0, <2>1, <2>3, <2>4 DEF OnlyTermChanged
  <2>5. Total(counts, 1..Len(cycles)) = Total(before, 1..Len(cycles)) - before[k] + counts[k]
    BY <2>a, TotalChange
  <2>6. Total(counts, DOMAIN after) = Total(before, 1..Len(cycles)) + 1
    BY <1>2, <2>1, <2>2, <2>3, <2>4, <2>5
  <2> QED BY <1>0, <1>2, <2>6 DEF Counted, counts, before
<1> QED BY <1>3, <1>4

RowsOf(u, c) == {r \in Row : CustomerOfRow(r) = u /\ r[2] = c}

LEMMA RowsFinite ==
  ASSUME NEW u, NEW c
  PROVE  IsFiniteSet(RowsOf(u, c))
<1>1. IsFiniteSet(Submission \X {c})
  BY OneElement, FS_Product
<1>2. RowsOf(u, c) \subseteq Submission \X {c}
  BY DEF RowsOf, Row
<1> QED BY <1>1, <1>2, FS_Subset

Accounted(u, c) == Counted(progress[u][c]) = Total(advances, RowsOf(u, c))

ProgressInv == LockInv /\ \A u \in Customer, c \in Component : Accounted(u, c)

LEMMA ProgressInit == Init => ProgressInv
<1> SUFFICES ASSUME Init PROVE ProgressInv
  OBVIOUS
<1>1. ASSUME NEW u \in Customer, NEW c \in Component PROVE Accounted(u, c)
  <2>1. progress[u][c] = <<>> /\ \A r \in RowsOf(u, c) : advances[r] = 0
    BY DEF Init, RowsOf
  <2>2. Total(advances, RowsOf(u, c)) = 0
    BY <2>1, TotalZero
  <2>3. Counted(progress[u][c]) = 0
    BY <2>1, TotalNone, EmptySeq DEF Counted
  <2> QED BY <2>2, <2>3 DEF Accounted
<1> QED BY <1>1, LockInit DEF ProgressInv

LEMMA ProgressStep == ProgressInv /\ [Next]_vars => ProgressInv'
<1> SUFFICES ASSUME ProgressInv, [Next]_vars PROVE ProgressInv'
  OBVIOUS
<1>0. LockInv /\ LockInv' /\ TypeOK /\ TypeOK'
  BY LockStep DEF ProgressInv, LockInv, TypeInv
<1>1. ASSUME UNCHANGED <<progress, advances>> PROVE ProgressInv'
  <2>1. \A u \in Customer, c \in Component : Accounted(u, c)'
    BY <1>1 DEF ProgressInv, Accounted
  <2> QED BY <1>0, <2>1 DEF ProgressInv
<1>2. ASSUME NEW l \in Lane, Advancing(l) PROVE ProgressInv'
  <2>0. PICK r \in Row : r = job[l]
    BY <1>0, <1>2, AdvancingIs
  <2>1. /\ Advance(r, CyclesAfter(r), StatusAfter(r))
        /\ r[1] \in Submission /\ r[2] \in Component /\ CustomerOfRow(r) \in Customer
    BY <1>0, <1>2, <2>0, AdvancingIs, RowType
  <2>2. ASSUME NEW u \in Customer, NEW c \in Component PROVE Accounted(u, c)'
    <3>0. Accounted(u, c) /\ IsFiniteSet(RowsOf(u, c)) /\ RowsOf(u, c) \subseteq Row
      <4>1. IsFiniteSet(RowsOf(u, c))
        BY RowsFinite
      <4> QED BY <4>1 DEF ProgressInv, RowsOf
    <3>a. \A q \in RowsOf(u, c) : advances[q] \in Nat /\ advances'[q] \in Nat
      BY <1>0, <3>0 DEF TypeOK
    <3>b. Total(advances, RowsOf(u, c)) \in Nat
      BY <3>0, <3>a, UnitsFinite
    <3>1. CASE u = CustomerOfRow(r) /\ c = r[2]
      <4>1. progress[u][c] \in Seq(Cycle) /\ requiredCount[c] \in Nat
        BY <1>0 DEF TypeOK
      <4>2. progress'[u][c] = AfterPass(progress[u][c], requiredCount[c], r[1])
        BY <1>0, <2>1, <3>1, AdvanceElsewhere DEF CyclesAfter
      <4>3. Counted(progress'[u][c]) = Counted(progress[u][c]) + 1
        BY <2>1, <4>1, <4>2, AfterPassCounted
      <4>4. r \in RowsOf(u, c) /\ advances'[r] = advances[r] + 1
            /\ \A q \in RowsOf(u, c) : q # r => advances'[q] = advances[q]
        BY <1>0, <2>1, <3>0, <3>1, AdvanceElsewhere DEF RowsOf
      <4>5. Total(advances', RowsOf(u, c)) = Total(advances, RowsOf(u, c)) - advances[r] + advances'[r]
        <5>1. OnlyTermChanged(advances, advances', RowsOf(u, c), r)
          BY <3>0, <3>a, <4>4 DEF OnlyTermChanged
        <5> QED BY <5>1, TotalChange
      <4>6. Total(advances', RowsOf(u, c)) = Total(advances, RowsOf(u, c)) + 1
        BY <3>a, <3>b, <4>4, <4>5
      <4> QED BY <3>0, <4>3, <4>6 DEF Accounted, RowsOf, CustomerOfRow
    <3>2. CASE ~(u = CustomerOfRow(r) /\ c = r[2])
      <4>1. progress'[u][c] = progress[u][c]
        BY <1>0, <2>1, <3>2, AdvanceElsewhere
      <4>2. \A q \in RowsOf(u, c) : advances'[q] = advances[q]
        BY <1>0, <2>1, <3>2, AdvanceElsewhere DEF RowsOf
      <4>3. Total(advances', RowsOf(u, c)) = Total(advances, RowsOf(u, c))
        BY <4>2, TotalAgree
      <4> QED BY <3>0, <4>1, <4>3 DEF Accounted, RowsOf, CustomerOfRow
    <3> QED BY <3>1, <3>2
  <2> QED BY <1>0, <2>2 DEF ProgressInv
<1> QED BY <1>1, <1>2, OnlyAdvancingWrites

\* No advance is lost or counted twice: whatever lanes race for a customer, and whether or
\* not a handler outlives the stale timeout, a component's progress rows hold exactly the
\* activities whose commits advanced it.
THEOREM ProgressAccounts == Spec => []ProgressAccountsForRows
<1>1. Spec => []ProgressInv
  BY ProgressInit, ProgressStep, PTL DEF Spec
<1>2. ProgressInv => ProgressAccountsForRows
  BY DEF ProgressInv, Accounted, Counted, RowsOf, ProgressAccountsForRows, Cycles
<1> QED BY <1>1, <1>2, PTL

----------------------------------------------------------------------------
\* The tracker's tally accounts for the completions.

Completed(cycles) == Cardinality({n \in DOMAIN cycles : cycles[n].complete})

\* A passing activity completes at most one cycle, the latest.
LEMMA AfterPassCompleted ==
  ASSUME NEW cycles \in Seq(Cycle), NEW required \in Nat, NEW s \in Submission,
         NEW after, after = AfterPass(cycles, required, s)
  PROVE  /\ Completed(cycles) \in Nat
         /\ LatestComplete(after) => Completed(after) = Completed(cycles) + 1
         /\ ~LatestComplete(after) => Completed(after) = Completed(cycles)
<1> DEFINE before == {n \in DOMAIN cycles : cycles[n].complete}
           done == {n \in DOMAIN after : after[n].complete}
<1>0. DOMAIN cycles = 1..Len(cycles) /\ Len(cycles) \in Nat /\ IsFiniteSet(1..Len(cycles))
  BY LenProperties, UpTo
<1>1. IsFiniteSet(before) /\ Cardinality(before) \in Nat
  BY <1>0, FS_Subset, FS_CardinalityType
<1>2. PICK k \in Nat : /\ k = Len(after) /\ k \notin before /\ after # <<>>
                       /\ LatestComplete(after) => done = before \cup {k}
                       /\ ~LatestComplete(after) => done = before
  <2>1. CASE cycles = <<>> \/ LatestComplete(cycles)
    <3>1. /\ after \in Seq(Cycle) /\ Len(after) = Len(cycles) + 1
          /\ \A n \in 1..Len(cycles) : after[n] = cycles[n]
      BY <2>1, AfterPassOpens
    <3>2. DOMAIN after = (1..Len(cycles)) \cup {Len(after)} /\ Len(after) \notin 1..Len(cycles)
          /\ after # <<>>
      BY <1>0, <3>1, LenProperties, EmptySeq
    <3>3. LatestComplete(after) <=> after[Len(after)].complete
      BY <3>2 DEF LatestComplete
    <3>4. LatestComplete(after) => done = before \cup {Len(after)}
      BY <1>0, <3>1, <3>2, <3>3
    <3>5. ~LatestComplete(after) => done = before
      BY <1>0, <3>1, <3>2, <3>3
    <3>6. Len(after) \in Nat /\ Len(after) \notin before
      BY <1>0, <3>1, <3>2
    <3> HIDE DEF before, done
    <3> QED BY <3>2, <3>4, <3>5, <3>6
  <2>2. CASE ~(cycles = <<>> \/ LatestComplete(cycles))
    <3>1. /\ after \in Seq(Cycle) /\ Len(after) = Len(cycles) /\ Len(cycles) \in 1..Len(cycles)
          /\ ~cycles[Len(cycles)].complete
          /\ \A n \in 1..Len(cycles) : n # Len(cycles) => after[n] = cycles[n]
      BY <2>2, AfterPassCountsOn
    <3>2. DOMAIN after = 1..Len(cycles)
      BY <3>1, LenProperties
    <3>a. after # <<>>
      <4>1. Len(cycles) # 0
        BY <3>1
      <4>2. Len(after) # 0
        BY <3>1, <4>1
      <4> QED BY <4>2, EmptySeq
    <3>3. LatestComplete(after) <=> after[Len(cycles)].complete
      BY <3>1, <3>a DEF LatestComplete
    <3>4. LatestComplete(after) => done = before \cup {Len(after)}
      BY <1>0, <3>1, <3>2, <3>3
    <3>5. ~LatestComplete(after) => done = before
      BY <1>0, <3>1, <3>2, <3>3
    <3>6. Len(after) \in Nat /\ Len(after) \notin before
      BY <1>0, <3>1, <3>2
    <3> HIDE DEF before, done
    <3> QED BY <3>a, <3>4, <3>5, <3>6
  <2> QED BY <2>1, <2>2
<1> HIDE DEF before, done
<1>3. Cardinality(before \cup {k}) = Cardinality(before) + 1
  BY <1>1, <1>2, FS_AddElement
<1>4. Completed(after) = Cardinality(done) /\ Completed(cycles) = Cardinality(before)
  BY DEF Completed, before, done
<1> QED BY <1>1, <1>2, <1>3, <1>4

Full(t) == Max1(CompletesAt(t, Cardinality(Members(t))))

LEMMA CompletesAtType ==
  ASSUME NEW t \in Tracker, Supported(t)
  PROVE  CompletesAt(t, Cardinality(Members(t))) \in Nat /\ Full(t) \in Nat
BY FS_CardinalityType DEF CompletesAt, Supported, Full, Max1

\* Completions a tracker's rows stand for.
Tallied(st, t) == IF st.cycle = 0 THEN 0 ELSE (st.cycle - 1) * Full(t) + st.tally

\* An open tracker row is short of its full tally, a complete one has reached it exactly.
Consistent(st, t) ==
  st.cycle # 0 =>
    /\ st.tally \in 1..Full(t)
    /\ st.complete <=> st.tally >= CompletesAt(t, Cardinality(Members(t)))

\* A component completion is tallied once.
LEMMA AfterCompletionTallied ==
  ASSUME NEW t \in Tracker, Supported(t), NEW st \in TrackerStatus, Consistent(st, t)
  PROVE  LET after == AfterCompletion(st, t, Cardinality(Members(t)))
         IN  Tallied(after, t) = Tallied(st, t) + 1 /\ Consistent(after, t)
<1> DEFINE at == CompletesAt(t, Cardinality(Members(t)))
           fresh == st.cycle = 0 \/ st.complete
<1>0. at \in Nat /\ Full(t) \in Nat /\ Full(t) = IF at = 0 THEN 1 ELSE at
  BY CompletesAtType DEF Full, Max1
<1>1. st.cycle \in Nat /\ st.tally \in Nat /\ st.complete \in BOOLEAN
  BY DEF TrackerStatus
<1>2. PICK after : after = AfterCompletion(st, t, Cardinality(Members(t)))
  OBVIOUS
<1> HIDE DEF at
<1>3. /\ after.cycle = IF fresh THEN st.cycle + 1 ELSE st.cycle
      /\ after.tally = IF fresh THEN 1 ELSE st.tally + 1
      /\ after.complete <=> after.tally >= at
  BY <1>2 DEF AfterCompletion, at
<1>4. st.cycle # 0 => st.tally \in 1..Full(t) /\ (st.complete <=> st.tally >= at)
  BY DEF Consistent, at
<1>5. CASE st.cycle = 0
  <2>1. after.cycle = 1 /\ after.tally = 1
    BY <1>3, <1>5
  <2>2. (1 - 1) * Full(t) + 1 = 1
    BY <1>0
  <2>3. Tallied(st, t) = 0 /\ Tallied(after, t) = 1
    BY <1>5, <2>1, <2>2 DEF Tallied
  <2>4. Consistent(after, t)
    BY <1>0, <1>3, <2>1 DEF Consistent, at
  <2> QED BY <1>2, <2>3, <2>4
<1>6. CASE st.cycle # 0 /\ st.complete
  <2>1. after.cycle = st.cycle + 1 /\ after.tally = 1 /\ st.tally = Full(t)
    BY <1>0, <1>1, <1>3, <1>4, <1>6
  <2>2. \A n, m \in Nat : (n + 1 - 1) * m = (n - 1) * m + m
    OBVIOUS
  <2>3. (after.cycle - 1) * Full(t) + 1 = (st.cycle - 1) * Full(t) + Full(t) + 1
    BY <1>0, <1>1, <2>1, <2>2
  <2>4. Tallied(after, t) = Tallied(st, t) + 1
    BY <1>1, <1>6, <2>1, <2>3 DEF Tallied
  <2>5. Consistent(after, t)
    BY <1>0, <1>3, <2>1 DEF Consistent, at
  <2> QED BY <1>2, <2>4, <2>5
<1>7. CASE st.cycle # 0 /\ ~st.complete
  <2>1. after.cycle = st.cycle /\ after.tally = st.tally + 1 /\ after.tally \in 1..Full(t)
    BY <1>0, <1>1, <1>3, <1>4, <1>7
  <2>2. PICK base \in Int : base = (st.cycle - 1) * Full(t)
    BY <1>0, <1>1
  <2>a. Tallied(st, t) = base + st.tally /\ Tallied(after, t) = base + (st.tally + 1)
    BY <1>7, <2>1, <2>2 DEF Tallied
  <2>3. Tallied(after, t) = Tallied(st, t) + 1
    BY <1>1, <2>a
  <2>4. Consistent(after, t)
    BY <1>0, <1>3, <2>1 DEF Consistent, at
  <2> QED BY <1>2, <2>3, <2>4
<1> QED BY <1>1, <1>5, <1>6, <1>7

Completions(u, t) == [c \in Members(t) |-> Completed(progress[u][c])]

Matches(u, t) ==
  Supported(t) => /\ Total(Completions(u, t), Members(t)) = Tallied(tracker[u][t], t)
                  /\ Consistent(tracker[u][t], t)

TallyInv == LockInv /\ \A u \in Customer, t \in Tracker : Matches(u, t)

LEMMA CompletedType ==
  ASSUME NEW cycles \in Seq(Cycle)
  PROVE  Completed(cycles) \in Nat
<1>1. DOMAIN cycles = 1..Len(cycles) /\ IsFiniteSet(1..Len(cycles))
  BY LenProperties, UpTo
<1>2. IsFiniteSet({n \in DOMAIN cycles : cycles[n].complete})
  BY <1>1, FS_Subset
<1> QED BY <1>2, FS_CardinalityType DEF Completed

LEMMA TallyInit == Init => TallyInv
<1> SUFFICES ASSUME Init PROVE TallyInv
  OBVIOUS
<1>1. ASSUME NEW u \in Customer, NEW t \in Tracker PROVE Matches(u, t)
  <2>1. \A c \in Members(t) : progress[u][c] = <<>>
    BY DEF Init, Members
  <2>2. Completed(<<>>) = 0
    BY EmptySeq, FS_EmptySet DEF Completed
  <2>3. \A c \in Members(t) : Completions(u, t)[c] = 0
    BY <2>1, <2>2 DEF Completions
  <2>4. Total(Completions(u, t), Members(t)) = 0
    BY <2>3, TotalZero
  <2>5. tracker[u][t].cycle = 0
    BY DEF Init, NoStatus
  <2> QED BY <2>4, <2>5 DEF Matches, Tallied, Consistent
<1> QED BY <1>1, LockInit DEF TallyInv

LEMMA TallyStep == TallyInv /\ [Next]_vars => TallyInv'
<1> SUFFICES ASSUME TallyInv, [Next]_vars PROVE TallyInv'
  OBVIOUS
<1>0. LockInv /\ LockInv' /\ TypeOK /\ TypeOK'
  BY LockStep DEF TallyInv, LockInv, TypeInv
<1>1. ASSUME UNCHANGED <<progress, tracker>> PROVE TallyInv'
  <2>1. \A u \in Customer, t \in Tracker : Matches(u, t)'
    BY <1>1 DEF TallyInv, Matches, Completions
  <2> QED BY <1>0, <2>1 DEF TallyInv
<1>2. ASSUME NEW l \in Lane, Advancing(l) PROVE TallyInv'
  <2>0. PICK r \in Row : r = job[l]
    BY <1>0, <1>2, AdvancingIs
  <2>1. /\ Advance(r, CyclesAfter(r), StatusAfter(r))
        /\ JustCompleted(r) => Supported(TrackerOfRow(r))
        /\ r[1] \in Submission /\ r[2] \in Component
        /\ CustomerOfRow(r) \in Customer /\ TrackerOfRow(r) \in Tracker
    BY <1>0, <1>2, <2>0, AdvancingIs, RowType
  <2> DEFINE u0 == CustomerOfRow(r)
             t0 == TrackerOfRow(r)
             c0 == r[2]
  <2>2. c0 \in Members(t0) /\ \A t \in Tracker : c0 \in Members(t) => t = t0
    BY <2>1 DEF Members, TrackerOfRow
  <2>3. /\ Completed(progress[u0][c0]) \in Nat
        /\ JustCompleted(r) => Completed(progress'[u0][c0]) = Completed(progress[u0][c0]) + 1
        /\ ~JustCompleted(r) => Completed(progress'[u0][c0]) = Completed(progress[u0][c0])
    <3>1. progress[u0][c0] \in Seq(Cycle) /\ requiredCount[c0] \in Nat
      BY <1>0, <2>1 DEF TypeOK
    <3>2. progress'[u0][c0] = CyclesAfter(r)
      BY <1>0, <2>1, AdvanceElsewhere
    <3>3. CyclesAfter(r) = AfterPass(progress[u0][c0], requiredCount[c0], r[1])
      BY DEF CyclesAfter
    <3> QED BY <2>1, <3>1, <3>2, <3>3, AfterPassCompleted DEF JustCompleted
  <2> HIDE DEF c0
  <2>4. \A u \in Customer, c \in Component : u # u0 \/ c # c0 => progress'[u][c] = progress[u][c]
    BY <1>0, <2>1, AdvanceElsewhere DEF c0
  <2>5. \A u \in Customer, t \in Tracker : u # u0 \/ t # t0 => tracker'[u][t] = tracker[u][t]
    BY <1>0, <2>1, AdvanceElsewhere
  <2>6. tracker'[u0][t0] = StatusAfter(r)
    BY <1>0, <2>1, AdvanceElsewhere
  <2>7. ASSUME NEW u \in Customer, NEW t \in Tracker, Supported(t) PROVE Matches(u, t)'
    <3>0. /\ Total(Completions(u, t), Members(t)) = Tallied(tracker[u][t], t)
          /\ Consistent(tracker[u][t], t) /\ IsFiniteSet(Members(t)) /\ Members(t) \subseteq Component
      BY <2>7 DEF TallyInv, Matches, Members
    <3>1. /\ \A c \in Members(t) : Completions(u, t)[c] = Completed(progress[u][c])
          /\ \A c \in Members(t) : Completions(u, t)'[c] = Completed(progress'[u][c])
      BY DEF Completions
    <3>2. \A c \in Members(t) : Completions(u, t)[c] \in Nat /\ Completions(u, t)'[c] \in Nat
      <4>1. \A c \in Members(t) : progress[u][c] \in Seq(Cycle) /\ progress'[u][c] \in Seq(Cycle)
        BY <1>0, <3>0 DEF TypeOK
      <4> QED BY <3>1, <4>1, CompletedType
    <3>3. PICK before, after : before = Completions(u, t) /\ after = Completions(u, t)'
      OBVIOUS
    <3>4. CASE u = u0 /\ t = t0 /\ JustCompleted(r)
      <4>0. c0 \in Members(t) /\ \A c \in Members(t) : c # c0 => progress'[u][c] = progress[u][c]
        BY <2>2, <2>4, <3>0, <3>4 DEF c0
      <4>1. OnlyTermChanged(before, after, Members(t), c0)
        BY <3>0, <3>1, <3>2, <3>3, <4>0 DEF OnlyTermChanged
      <4>2. Total(after, Members(t)) = Total(before, Members(t)) - before[c0] + after[c0]
        BY <4>1, TotalChange
      <4>3. after[c0] = before[c0] + 1 /\ before[c0] \in Nat /\ Total(before, Members(t)) \in Nat
        <5>1. c0 \in Members(t)
          BY <2>2, <3>4 DEF c0
        <5>2. Total(before, Members(t)) \in Nat
          BY <3>0, <3>2, <3>3, UnitsFinite
        <5> QED BY <2>3, <3>1, <3>2, <3>3, <3>4, <5>1, <5>2 DEF c0
      <4>4. Total(after, Members(t)) = Total(before, Members(t)) + 1
        BY <4>2, <4>3
      <4>5. tracker'[u][t] = AfterCompletion(tracker[u][t], t, Cardinality(Members(t)))
        BY <2>6, <3>4 DEF StatusAfter, StatusBefore
      <4>6. tracker[u][t] \in TrackerStatus
        BY <1>0 DEF TypeOK
      <4>7. Tallied(tracker'[u][t], t) = Tallied(tracker[u][t], t) + 1 /\ Consistent(tracker'[u][t], t)
        BY <2>7, <3>0, <4>5, <4>6, AfterCompletionTallied
      <4> QED BY <3>0, <3>3, <4>4, <4>7 DEF Matches
    <3>5. CASE ~(u = u0 /\ t = t0 /\ JustCompleted(r))
      <4>1. \A c \in Members(t) : Completed(progress'[u][c]) = Completed(progress[u][c])
        BY <2>2, <2>3, <2>4, <3>0, <3>5 DEF c0
      <4>2. \A c \in Members(t) : after[c] = before[c]
        BY <3>1, <3>3, <4>1
      <4>3. Total(after, Members(t)) = Total(before, Members(t))
        BY <4>2, TotalAgree
      <4>4. tracker'[u][t] = tracker[u][t]
        BY <2>5, <2>6, <3>5 DEF StatusAfter, StatusBefore
      <4> QED BY <3>0, <3>3, <4>3, <4>4 DEF Matches
    <3> QED BY <3>4, <3>5
  <2>8. \A u \in Customer, t \in Tracker : Matches(u, t)'
    BY <2>7 DEF Matches
  <2> QED BY <1>0, <2>8 DEF TallyInv
<1> QED BY <1>1, <1>2, OnlyAdvancingWrites

\* No completion is tallied in two tracker cycles and none is lost between them, for every
\* supported completion logic and every order in which the components complete.
THEOREM TallyMatches == Spec => []TallyMatchesCompletions
<1>1. Spec => []TallyInv
  BY TallyInit, TallyStep, PTL DEF Spec
<1>2. TallyInv => TallyMatchesCompletions
  BY DEF TallyInv, Matches, Tallied, Full, Completions, Completed, TallyMatchesCompletions,
         CompletedCycles, Cycles
<1> QED BY <1>1, <1>2, PTL

----------------------------------------------------------------------------
\* Rows in hand. As long as no handler outlives the stale timeout, a lane's row is
\* "processing" and nobody else's, so that a settled row stays settled as it is.

RowsHeld ==
  ~MayOvertake =>
    \A l \in Lane : job[l] # NoRow =>
      rowStatus[job[l]] = "processing" /\ \A m \in Lane : job[m] = job[l] => m = l

RowsInv == TypeInv /\ RowsHeld

LEMMA RowsInit == Init => RowsInv
BY TypeInit DEF Init, RowsInv, RowsHeld

\* The steps that settle a row, and the only ones.
Settling(l) ==
  /\ pc[l] # "idle" /\ EndTxn(l)
  /\ \E status \in Settled : MarkRow(job[l], status)

LEMMA RowCases ==
  ASSUME [Next]_vars
  PROVE  \/ \E s \in Submission : Ingest(s)
         \/ \E l \in Lane, r \in Row : Claim(l, r)
         \/ \E r \in Row : SweepStale(r)
         \/ UNCHANGED <<rowStatus, job>>
         \/ \E l \in Lane : EndTxn(l) /\ UNCHANGED rowStatus
         \/ \E l \in Lane : Settling(l)
<1> DEFINE Cases == \/ \E s \in Submission : Ingest(s)
                    \/ \E l \in Lane, r \in Row : Claim(l, r)
                    \/ \E r \in Row : SweepStale(r)
                    \/ UNCHANGED <<rowStatus, job>>
                    \/ \E l \in Lane : EndTxn(l) /\ UNCHANGED rowStatus
                    \/ \E l \in Lane : Settling(l)
<1>1. \A l \in Lane : SkipRow(l) \/ AdvanceRow(l) => Settling(l)
  BY DEF SkipRow, AdvanceRow, MayAdvance, CanLock, Settling, Settled
<1>2. \A l \in Lane : Commit(l) => Settling(l)
  <2> SUFFICES ASSUME NEW l \in Lane, Commit(l) PROVE Settling(l)
    OBVIOUS
  <2>1. (IF txn[l].denied THEN "error" ELSE "processed") \in Settled
    BY DEF Settled
  <2> QED BY <2>1 DEF Commit, Settling
<1>3. \A l \in Lane : RejectConfig(l) \/ DeadlockAbort(l) \/ HandlerFails(l) => EndTxn(l) /\ UNCHANGED rowStatus
  BY DEF RejectConfig, DeadlockAbort, HandlerFails
<1>4. \A l \in Lane, i \in RewardIx : GrantReward(l, i) => UNCHANGED <<rowStatus, job>>
  BY DEF GrantReward
<1>5. \A l \in Lane, i \in RewardIx, k \in CapIx :
        CheckCap(l, i, k) \/ DenyReward(l, i, k) => UNCHANGED <<rowStatus, job>>
  BY DEF CheckCap, DenyReward
<1>6. \A l \in Lane : OpenReservation(l) => UNCHANGED <<rowStatus, job>>
  BY DEF OpenReservation
<1>7. NextDay \/ UNCHANGED vars => UNCHANGED <<rowStatus, job>>
  BY DEF NextDay, vars, laneVars
<1>8. \A l \in Lane : Proceed(l) => Cases
  BY <1>1, <1>2, <1>3, <1>4, <1>5, <1>6 DEF Proceed
<1>9. Cases
  BY <1>3, <1>7, <1>8 DEF Next
<1> QED BY <1>9

LEMMA RowsStep == RowsInv /\ [Next]_vars => RowsInv'
<1> SUFFICES ASSUME RowsInv, [Next]_vars PROVE RowsInv'
  OBVIOUS
<1>0. TypeInv /\ TypeInv' /\ TypeOK /\ BusyLanesHoldRows
  BY TypeStep DEF RowsInv, TypeInv
<1> SUFFICES ASSUME ~MayOvertake PROVE RowsHeld'
  BY <1>0 DEF RowsInv, RowsHeld
<1>h. \A l \in Lane : job[l] # NoRow =>
        /\ job[l] \in Row /\ rowStatus[job[l]] = "processing"
        /\ \A m \in Lane : job[m] = job[l] => m = l
  BY <1>0 DEF RowsInv, RowsHeld, TypeOK
<1>1. ASSUME NEW s \in Submission, Ingest(s) PROVE RowsHeld'
  BY <1>h, <1>1 DEF Ingest, laneVars, RowsHeld
<1>2. ASSUME NEW l \in Lane, NEW r \in Row, Claim(l, r) PROVE RowsHeld'
  <2>1. /\ rowStatus' = [rowStatus EXCEPT ![r] = "processing"] /\ job' = [job EXCEPT ![l] = r]
        /\ rowStatus[r] = "pending"
    BY <1>2 DEF Claim
  <2>2. \A m \in Lane : job[m] # r
    BY <1>h, <2>1, LaneAssumption
  <2>3. \A m \in Lane : job'[m] = IF m = l THEN r ELSE job[m]
    BY <1>0, <2>1 DEF TypeOK
  <2>4. \A q \in Row : rowStatus'[q] = IF q = r THEN "processing" ELSE rowStatus[q]
    BY <1>0, <2>1 DEF TypeOK
  <2> QED BY <1>h, <2>2, <2>3, <2>4 DEF RowsHeld
<1>3. ASSUME NEW r \in Row, SweepStale(r) PROVE RowsHeld'
  <2>1. Abandoned(r) /\ rowStatus' = [rowStatus EXCEPT ![r] = "pending"] /\ job' = job
    BY <1>3 DEF SweepStale, laneVars
  <2>2. \A q \in Row : q # r => rowStatus'[q] = rowStatus[q]
    BY <1>0, <2>1 DEF TypeOK
  <2> QED BY <1>h, <2>1, <2>2 DEF RowsHeld, Abandoned
<1>4. ASSUME UNCHANGED <<rowStatus, job>> PROVE RowsHeld'
  BY <1>h, <1>4 DEF RowsHeld
<1>5. ASSUME NEW l \in Lane, EndTxn(l), UNCHANGED rowStatus PROVE RowsHeld'
  <2>1. \A m \in Lane : job'[m] = IF m = l THEN NoRow ELSE job[m]
    BY <1>0, <1>5 DEF EndTxn, TypeOK
  <2> QED BY <1>h, <1>5, <2>1 DEF RowsHeld
<1>6. ASSUME NEW l \in Lane, Settling(l) PROVE RowsHeld'
  <2>1. \A m \in Lane : job'[m] = IF m = l THEN NoRow ELSE job[m]
    BY <1>0, <1>6 DEF Settling, EndTxn, TypeOK
  <2>2. job[l] # NoRow
    BY <1>0, <1>6 DEF Settling, BusyLanesHoldRows
  <2>3. \A q \in Row : q # job[l] => rowStatus'[q] = rowStatus[q]
    BY <1>0, <1>6 DEF Settling, MarkRow, TypeOK
  <2> QED BY <1>h, <2>1, <2>2, <2>3 DEF RowsHeld
<1> QED BY <1>1, <1>2, <1>3, <1>4, <1>5, <1>6, RowCases

\* A settled row is never claimed, swept or marked again.
LEMMA SettledStays ==
  ASSUME RowsInv, [Next]_vars, ~MayOvertake, NEW r \in Row, rowStatus[r] \in Settled
  PROVE  rowStatus'[r] = rowStatus[r]
<1>0. TypeOK /\ BusyLanesHoldRows /\ \A l \in Lane : job[l] # NoRow => rowStatus[job[l]] = "processing"
  BY DEF RowsInv, RowsHeld, TypeInv
<1>1. \A s \in Submission : Ingest(s) => rowStatus'[r] = rowStatus[r]
  BY DEF Ingest, Settled
<1>2. \A l \in Lane, q \in Row : Claim(l, q) => rowStatus'[r] = rowStatus[r]
  BY <1>0 DEF Claim, Settled, TypeOK
<1>3. \A q \in Row : SweepStale(q) => rowStatus'[r] = rowStatus[r]
  BY <1>0 DEF SweepStale, Settled, TypeOK
<1>4. \A l \in Lane : Settling(l) => rowStatus'[r] = rowStatus[r]
  BY <1>0 DEF Settling, MarkRow, Settled, TypeOK, BusyLanesHoldRows
<1> QED BY <1>1, <1>2, <1>3, <1>4, RowCases

----------------------------------------------------------------------------
\* Completed cycles and their reward entries.

\* A passing activity leaves the completed cycles as they are, and writes one cycle that
\* was not completed before: the latest.
Extends(cycles, after, s) ==
  /\ Len(after) \in DOMAIN after /\ after[Len(after)].last = s
  /\ Len(after) \in DOMAIN cycles => ~cycles[Len(after)].complete
  /\ \A n \in DOMAIN cycles : n \in DOMAIN after /\ (n # Len(after) => after[n] = cycles[n])
  /\ \A n \in DOMAIN after : n # Len(after) => n \in DOMAIN cycles

LEMMA AfterPassKeeps ==
  ASSUME NEW cycles \in Seq(Cycle), NEW required \in Nat, NEW s \in Submission,
         NEW after, after = AfterPass(cycles, required, s)
  PROVE  /\ Extends(cycles, after, s)
         /\ LatestComplete(after) <=> after[Len(after)].complete
<1>0. DOMAIN cycles = 1..Len(cycles) /\ Len(cycles) \in Nat
  BY LenProperties
<1>1. CASE cycles = <<>> \/ LatestComplete(cycles)
  <2>1. /\ after \in Seq(Cycle) /\ Len(after) = Len(cycles) + 1
        /\ after[Len(cycles) + 1].last = s
        /\ \A n \in 1..Len(cycles) : after[n] = cycles[n]
    BY <1>1, AfterPassOpens
  <2>2. DOMAIN after = 1..Len(after)
    BY <2>1, LenProperties
  <2>3. Len(after) # 0
    BY <1>0, <2>1
  <2>4. LatestComplete(after) <=> after[Len(after)].complete
    BY <2>3, EmptySeq DEF LatestComplete
  <2>5. Extends(cycles, after, s)
    BY <1>0, <2>1, <2>2 DEF Extends
  <2> QED BY <2>4, <2>5
<1>2. CASE ~(cycles = <<>> \/ LatestComplete(cycles))
  <2>1. /\ after \in Seq(Cycle) /\ Len(after) = Len(cycles) /\ Len(cycles) \in 1..Len(cycles)
        /\ ~cycles[Len(cycles)].complete /\ after[Len(cycles)].last = s
        /\ \A n \in 1..Len(cycles) : n # Len(cycles) => after[n] = cycles[n]
    BY <1>2, AfterPassCountsOn
  <2>2. DOMAIN after = 1..Len(after)
    BY <2>1, LenProperties
  <2>3. Len(cycles) # 0
    BY <2>1
  <2>4. Len(after) # 0
    BY <2>1, <2>3
  <2>5. LatestComplete(after) <=> after[Len(after)].complete
    BY <2>4, EmptySeq DEF LatestComplete
  <2>6. Extends(cycles, after, s)
    BY <1>0, <2>1, <2>2 DEF Extends
  <2> QED BY <2>5, <2>6
<1> QED BY <1>1, <1>2

\* A progress row was last written for a row of its own customer and component.
LastIsRow(u, c) ==
  \A n \in DOMAIN progress[u][c] :
    <<progress[u][c][n].last, c>> \in Row /\ customerOf[progress[u][c][n].last] = u

\* An entry is for a cycle that exists and is complete.
ForCompleted(e) ==
  /\ e.cycle \in DOMAIN progress[e.customer][e.component]
  /\ progress[e.customer][e.component][e.cycle].complete

EntryInv ==
  /\ LockInv /\ RowsHeld
  /\ \A u \in Customer, c \in Component : LastIsRow(u, c)
  /\ \A e \in entries : ForCompleted(e)

\* What a step that advances row r, of customer u and component c, leaves behind.
Wrote(l, r, u, c) ==
  /\ r = job[l] /\ r \in Row /\ r = <<r[1], c>>
  /\ u = CustomerOfRow(r) /\ u \in Customer /\ c \in Component
  /\ progress'[u][c] = CyclesAfter(r)
  /\ Extends(progress[u][c], progress'[u][c], r[1])
  /\ JustCompleted(r) <=> progress'[u][c][Len(progress'[u][c])].complete
  /\ \A v \in Customer, d \in Component : v # u \/ d # c => progress'[v][d] = progress[v][d]

LEMMA AdvancedCycles ==
  ASSUME LockInv, NEW l \in Lane, Advancing(l)
  PROVE  \E r, u, c : Wrote(l, r, u, c)
<1>0. PICK r, u, c : r = job[l] /\ u = CustomerOfRow(r) /\ c = r[2]
  OBVIOUS
<1>1. /\ r \in Row /\ Advance(r, CyclesAfter(r), StatusAfter(r)) /\ TypeOK
      /\ r[1] \in Submission /\ c \in Component /\ u \in Customer
  BY <1>0, AdvancingIs, RowType DEF LockInv, TypeInv
<1>2. r = <<r[1], c>>
  BY <1>0, <1>1 DEF Row
<1>3. progress'[u][c] = CyclesAfter(r)
  BY <1>0, <1>1, AdvanceElsewhere
<1>4. progress[u][c] \in Seq(Cycle) /\ requiredCount[c] \in Nat
  BY <1>1 DEF TypeOK
<1>5. progress'[u][c] = AfterPass(progress[u][c], requiredCount[c], r[1])
  BY <1>0, <1>3 DEF CyclesAfter
<1>6. PICK after : after = progress'[u][c]
  OBVIOUS
<1>7. /\ Extends(progress[u][c], after, r[1])
      /\ LatestComplete(after) <=> after[Len(after)].complete
  BY <1>1, <1>4, <1>5, <1>6, AfterPassKeeps
<1>8. JustCompleted(r) <=> after[Len(after)].complete
  BY <1>3, <1>6, <1>7 DEF JustCompleted
<1>9. \A v \in Customer, d \in Component : v # u \/ d # c => progress'[v][d] = progress[v][d]
  BY <1>0, <1>1, AdvanceElsewhere
<1>10. Wrote(l, r, u, c)
  BY <1>0, <1>1, <1>2, <1>3, <1>6, <1>7, <1>8, <1>9 DEF Wrote
<1> QED BY <1>10

\* An entry for the cycle a transaction completes cannot be there already: every granted
\* assignment gets its own.
LEMMA GrantedAreInserted ==
  ASSUME EntryInv, DistinctCodes, NEW l \in Lane, Commit(l)
  PROVE  /\ Inserted(l) = {EntryFor(l, i) : i \in txn[l].granted}
         /\ Inserted(l) \cap entries = {}
<1>a. LockInv /\ Advancing(l)
  BY DEF EntryInv, Commit, Advancing
<1>0. PICK r, u, c : Wrote(l, r, u, c)
  BY <1>a, AdvancedCycles
<1>1. LockInv /\ Advancing(l) /\ pc[l] = "reserving" /\ TypeOK
  BY DEF EntryInv, Commit, Advancing, LockInv, TypeInv
<1>2. txn[l].cycles = CyclesAfter(r) /\ txn[l].granted \subseteq RewardIx
  BY <1>0, <1>1 DEF LockInv, Held, TypeOK, Txn, Wrote
<1>3. PICK k : k = Len(txn[l].cycles)
  OBVIOUS
<1>4. k \in DOMAIN progress[u][c] => ~progress[u][c][k].complete
  <2>1. Extends(progress[u][c], progress'[u][c], r[1]) /\ progress'[u][c] = CyclesAfter(r)
    BY <1>0 DEF Wrote
  <2> QED BY <1>2, <1>3, <2>1 DEF Extends
<1>5. \A i : EntryFor(l, i).customer = u /\ EntryFor(l, i).component = c /\ EntryFor(l, i).cycle = k
             /\ EntryFor(l, i).code = Rewards[i].code
  BY <1>0, <1>3 DEF EntryFor, Wrote
<1>6. ASSUME NEW i \in txn[l].granted, NEW e \in entries PROVE ~SameReward(e, EntryFor(l, i))
  <2>1. ForCompleted(e)
    BY DEF EntryInv
  <2> QED BY <1>4, <1>5, <2>1 DEF SameReward, ForCompleted
<1>7. ASSUME NEW i \in txn[l].granted, NEW h \in txn[l].granted, h < i
      PROVE  ~SameReward(EntryFor(l, h), EntryFor(l, i))
  BY <1>2, <1>5, <1>7 DEF SameReward, DistinctCodes
<1>8. Inserted(l) = {EntryFor(l, i) : i \in txn[l].granted}
  BY <1>6, <1>7 DEF Inserted
<1>9. \A e \in entries : e \notin Inserted(l)
  BY <1>6, <1>8 DEF SameReward
<1> QED BY <1>8, <1>9

LEMMA EntryInit == Init => EntryInv
<1> SUFFICES ASSUME Init PROVE EntryInv
  OBVIOUS
<1>1. \A u \in Customer, c \in Component : progress[u][c] = <<>>
  BY DEF Init
<1>2. \A u \in Customer, c \in Component : LastIsRow(u, c)
  BY <1>1 DEF LastIsRow
<1> QED BY <1>2, LockInit, RowsInit DEF EntryInv, Init, RowsInv

LEMMA EntryStep == EntryInv /\ [Next]_vars => EntryInv'
<1> SUFFICES ASSUME EntryInv, [Next]_vars PROVE EntryInv'
  OBVIOUS
<1>0. LockInv /\ LockInv' /\ RowsInv /\ RowsHeld' /\ TypeOK
  BY LockStep, RowsStep DEF EntryInv, LockInv, RowsInv, TypeInv
<1>1. ASSUME UNCHANGED <<progress, entries>> PROVE EntryInv'
  <2>1. \A u \in Customer, c \in Component : LastIsRow(u, c)'
    BY <1>1 DEF EntryInv, LastIsRow
  <2>2. \A e \in entries' : ForCompleted(e)'
    BY <1>1 DEF EntryInv, ForCompleted
  <2> QED BY <1>0, <2>1, <2>2 DEF EntryInv
<1>2. ASSUME NEW l \in Lane, Advancing(l) PROVE EntryInv'
  <2>0. PICK r, u, c : Wrote(l, r, u, c)
    BY <1>0, <1>2, AdvancedCycles
  <2>a. PICK cycles, after : cycles = progress[u][c] /\ after = progress'[u][c]
    OBVIOUS
  <2>1. /\ r = job[l] /\ u = CustomerOfRow(r)
        /\ r \in Row /\ r = <<r[1], c>> /\ u \in Customer /\ c \in Component
        /\ after = CyclesAfter(r) /\ Extends(cycles, after, r[1])
        /\ JustCompleted(r) <=> after[Len(after)].complete
        /\ \A v \in Customer, d \in Component : v # u \/ d # c => progress'[v][d] = progress[v][d]
    BY <2>0, <2>a DEF Wrote
  <2>2. ASSUME NEW v \in Customer, NEW d \in Component, NEW n \in DOMAIN progress'[v][d]
        PROVE  <<progress'[v][d][n].last, d>> \in Row /\ customerOf[progress'[v][d][n].last] = v
    <3>1. CASE v = u /\ d = c /\ n = Len(after)
      <4>1. progress'[v][d][n].last = r[1]
        BY <2>a, <2>1, <3>1 DEF Extends
      <4>2. <<r[1], d>> \in Row
        BY <2>1, <3>1
      <4>3. customerOf[r[1]] = v
        BY <2>1, <3>1 DEF CustomerOfRow
      <4> QED BY <4>1, <4>2, <4>3
    <3>2. CASE ~(v = u /\ d = c /\ n = Len(after))
      <4>1. n \in DOMAIN progress[v][d] /\ progress'[v][d][n] = progress[v][d][n]
        BY <2>a, <2>1, <3>2 DEF Extends
      <4>2. LastIsRow(v, d)
        BY DEF EntryInv
      <4> QED BY <4>1, <4>2 DEF LastIsRow
    <3> QED BY <3>1, <3>2
  <2>3. ASSUME NEW e \in entries' PROVE ForCompleted(e)'
    <3>1. CASE e \in entries
      <4>1. e.customer \in Customer /\ e.component \in Component /\ ForCompleted(e)
        BY <1>0, <3>1 DEF EntryInv, TypeOK, Entry
      <4>2. CASE e.customer = u /\ e.component = c
        <5>1. e.cycle \in DOMAIN cycles /\ cycles[e.cycle].complete
          BY <2>a, <4>1, <4>2 DEF ForCompleted
        <5>2. e.cycle \in DOMAIN after /\ after[e.cycle] = cycles[e.cycle]
          BY <2>1, <5>1 DEF Extends
        <5> QED BY <2>a, <4>2, <5>1, <5>2 DEF ForCompleted
      <4>3. CASE ~(e.customer = u /\ e.component = c)
        BY <2>1, <4>1, <4>3 DEF ForCompleted
      <4> QED BY <4>2, <4>3
    <3>2. CASE e \notin entries
      <4>1. Commit(l) /\ e \in Inserted(l)
        BY <1>2, <3>2 DEF Advancing, AdvanceRow, Commit
      <4>2. txn[l].cycles = after /\ JustCompleted(r)
        BY <1>0, <2>1, <4>1 DEF Commit, LockInv, Held
      <4>3. PICK i : e = EntryFor(l, i)
        BY <4>1 DEF Inserted
      <4>4. e.customer = u /\ e.component = c /\ e.cycle = Len(after)
        BY <2>1, <4>2, <4>3 DEF EntryFor
      <4> QED BY <2>a, <2>1, <4>2, <4>4 DEF ForCompleted, Extends
    <3> QED BY <3>1, <3>2
  <2>4. \A v \in Customer, d \in Component : LastIsRow(v, d)'
    BY <2>2 DEF LastIsRow
  <2> QED BY <1>0, <2>3, <2>4 DEF EntryInv
<1> QED BY <1>1, <1>2, OnlyAdvancingWrites

\* A completed cycle is rewarded, or its row is settled as a breach.
Rewarded(u, c) ==
  \A n \in DOMAIN progress[u][c], i \in RewardIx :
    (progress[u][c][n].complete /\ Rewards[i].level = "component" /\ Rewards[i].ref = c)
      => HasEntry(u, c, n, i) \/ rowStatus[<<progress[u][c][n].last, c>>] = "error"

RewardInv ==
  /\ EntryInv
  /\ DistinctCodes /\ ~MayOvertake => \A u \in Customer, c \in Component : Rewarded(u, c)

LEMMA RewardInit == Init => RewardInv
<1> SUFFICES ASSUME Init PROVE RewardInv
  OBVIOUS
<1>1. \A u \in Customer, c \in Component : progress[u][c] = <<>>
  BY DEF Init
<1>2. \A u \in Customer, c \in Component : Rewarded(u, c)
  BY <1>1 DEF Rewarded
<1> QED BY <1>2, EntryInit DEF RewardInv

LEMMA RewardStep == RewardInv /\ [Next]_vars => RewardInv'
<1> SUFFICES ASSUME RewardInv, [Next]_vars PROVE RewardInv'
  OBVIOUS
<1>0. /\ EntryInv /\ EntryInv' /\ LockInv /\ RowsInv /\ TypeOK
      /\ DistinctCodes' = DistinctCodes
  BY EntryStep DEF RewardInv, EntryInv, LockInv, RowsInv, TypeInv, DistinctCodes
<1> SUFFICES ASSUME DistinctCodes, ~MayOvertake
             PROVE  \A v \in Customer, d \in Component : Rewarded(v, d)'
  BY <1>0 DEF RewardInv
<1> SUFFICES ASSUME NEW v \in Customer, NEW d \in Component, NEW n \in DOMAIN progress'[v][d],
                    NEW i \in RewardIx, progress'[v][d][n].complete,
                    Rewards[i].level = "component", Rewards[i].ref = d
             PROVE  HasEntry(v, d, n, i)' \/ rowStatus'[<<progress'[v][d][n].last, d>>] = "error"
  BY DEF Rewarded
\* A cycle that was there and complete keeps its entry, and its row its status.
<1>1. ASSUME n \in DOMAIN progress[v][d], progress'[v][d][n] = progress[v][d][n], entries \subseteq entries'
      PROVE  HasEntry(v, d, n, i)' \/ rowStatus'[<<progress'[v][d][n].last, d>>] = "error"
  <2>1. HasEntry(v, d, n, i) \/ rowStatus[<<progress[v][d][n].last, d>>] = "error"
    <3>1. Rewarded(v, d)
      BY DEF RewardInv
    <3> QED BY <1>1, <3>1 DEF Rewarded
  <2>2. <<progress[v][d][n].last, d>> \in Row
    <3>1. LastIsRow(v, d)
      BY <1>0 DEF EntryInv
    <3> QED BY <1>1, <3>1 DEF LastIsRow
  <2>3. rowStatus[<<progress[v][d][n].last, d>>] = "error"
          => rowStatus'[<<progress[v][d][n].last, d>>] = "error"
    BY <1>0, <2>2, SettledStays DEF Settled
  <2>4. HasEntry(v, d, n, i) => HasEntry(v, d, n, i)'
    BY <1>1 DEF HasEntry
  <2> QED BY <1>1, <2>1, <2>3, <2>4
<1>2. CASE UNCHANGED <<progress, tracker, advances, used, entries>>
  BY <1>1, <1>2
<1>3. ASSUME NEW l \in Lane, Advancing(l)
      PROVE  HasEntry(v, d, n, i)' \/ rowStatus'[<<progress'[v][d][n].last, d>>] = "error"
  <2>b. PICK r, u, c : Wrote(l, r, u, c)
    BY <1>0, <1>3, AdvancedCycles
  <2>a. PICK after : after = progress'[u][c]
    OBVIOUS
  <2>0. r = job[l] /\ u = CustomerOfRow(r)
    BY <2>b DEF Wrote
  <2>1. /\ r \in Row /\ r = <<r[1], c>> /\ after = CyclesAfter(r)
        /\ Extends(progress[u][c], after, r[1])
        /\ JustCompleted(r) <=> after[Len(after)].complete
        /\ \A x \in Customer, y \in Component : x # u \/ y # c => progress'[x][y] = progress[x][y]
    BY <2>a, <2>b DEF Wrote
  <2>2. entries \subseteq entries'
    BY <1>3 DEF Advancing, AdvanceRow, Commit
  <2>3. CASE ~(v = u /\ d = c /\ n = Len(after))
    <3>1. n \in DOMAIN progress[v][d] /\ progress'[v][d][n] = progress[v][d][n]
      <4>1. CASE v = u /\ d = c
        <5>1. n \in DOMAIN after /\ n # Len(after)
          BY <2>a, <2>3, <4>1
        <5>2. n \in DOMAIN progress[u][c] /\ after[n] = progress[u][c][n]
          BY <2>1, <5>1 DEF Extends
        <5> QED BY <2>a, <4>1, <5>2
      <4>2. CASE ~(v = u /\ d = c)
        BY <2>1, <4>2
      <4> QED BY <4>1, <4>2
    <3> QED BY <1>1, <2>2, <3>1
  <2>4. CASE v = u /\ d = c /\ n = Len(after)
    <3>a. progress'[v][d] = after
      BY <2>a, <2>4
    <3>1. JustCompleted(r) /\ <<progress'[v][d][n].last, d>> = r
      <4>1. progress'[v][d][n].last = r[1]
        BY <2>1, <2>4, <3>a DEF Extends
      <4> QED BY <2>1, <2>4, <3>a, <4>1
    <3>2. i \in DueAfter(r)
      BY <2>0, <2>4, <3>1 DEF DueAfter, DueRewards
    <3>3. Commit(l) /\ pc[l] = "reserving" /\ txn[l].due = {}
      BY <1>3, <2>0, <3>2 DEF Advancing, AdvanceRow, Commit
    <3>4. txn[l].cycles = after /\ (~txn[l].denied => DueAfter(r) \subseteq txn[l].due \cup txn[l].granted)
      BY <1>0, <2>0, <2>1, <3>3 DEF LockInv, Held
    <3>5. CASE txn[l].denied
      <4>1. rowStatus' = [rowStatus EXCEPT ![r] = "error"]
        BY <2>0, <3>3, <3>5 DEF Commit, MarkRow
      <4>2. rowStatus'[r] = "error"
        BY <1>0, <2>1, <4>1 DEF TypeOK
      <4> QED BY <3>1, <4>2
    <3>6. CASE ~txn[l].denied
      <4>0. i \in txn[l].granted
        BY <3>2, <3>3, <3>4, <3>6
      <4>1. EntryFor(l, i) \in Inserted(l)
        BY <1>0, <3>3, <4>0, GrantedAreInserted
      <4>a. EntryFor(l, i) \in entries'
        BY <3>3, <4>1 DEF Commit
      <4>2. EntryFor(l, i).customer = v /\ EntryFor(l, i).component = d
            /\ EntryFor(l, i).cycle = n /\ EntryFor(l, i).reward = i
        BY <2>0, <2>1, <2>4, <3>4 DEF EntryFor
      <4> QED BY <4>a, <4>2 DEF HasEntry
    <3> QED BY <3>5, <3>6
  <2> QED BY <2>3, <2>4
<1> QED BY <1>2, <1>3, OnlyAdvancingWrites

\* Completing a component is paid for exactly as the binding says: an entry for each of its
\* own rewards or a row that says "error", and never an entry for a cycle still open.
THEOREM CompletionIsRewarded == Spec => []RewardOrBreach
<1>1. Spec => []RewardInv
  BY RewardInit, RewardStep, PTL DEF Spec
<1>2. RewardInv => RewardOrBreach
  BY DEF RewardInv, Rewarded, EntryInv, ForCompleted, RewardOrBreach, Cycles
<1> QED BY <1>1, <1>2, PTL

----------------------------------------------------------------------------
\* Counters and reward entries.

Charges(e, key) ==
  key.cap \in MatchedCaps(e.reward, trackerOf[e.component]) /\ key = KeyOf(key.cap, e.customer, e.day)

WorthOf == [e \in Entry |-> RecordedValue(e.reward, trackerOf[e.component])]

\* What a set of entries has used of a counter.
Charging(S, key) == {e \in S : Charges(e, key)}
UsageOf(S, key) ==
  [amount |-> Total(WorthOf, Charging(S, key)), count |-> Cardinality(Charging(S, key))]

LEMMA WorthType == \A e \in Entry : WorthOf[e] \in Nat /\ WorthOf[e] = RecordedValue(e.reward, trackerOf[e.component])
<1> TAKE e \in Entry
<1>1. e.reward \in RewardIx /\ trackerOf[e.component] \in Tracker
  BY DEF Entry
<1> QED BY <1>1, RecordedValueType DEF WorthOf

LEMMA ChargingType ==
  ASSUME NEW S, S \subseteq Entry, IsFiniteSet(S), NEW key
  PROVE  /\ IsFiniteSet(Charging(S, key)) /\ Charging(S, key) \subseteq S
         /\ \A e \in Charging(S, key) : WorthOf[e] \in Nat
         /\ Cardinality(Charging(S, key)) \in Nat /\ Total(WorthOf, Charging(S, key)) \in Nat
<1>1. Charging(S, key) \subseteq S
  BY DEF Charging
<1>2. IsFiniteSet(Charging(S, key)) /\ Cardinality(Charging(S, key)) \in Nat
  BY <1>1, FS_Subset, FS_CardinalityType
<1>3. \A e \in Charging(S, key) : WorthOf[e] \in Nat
  BY <1>1, WorthType
<1>4. Total(WorthOf, Charging(S, key)) \in Nat
  BY <1>2, <1>3, UnitsFinite
<1> QED BY <1>1, <1>2, <1>3, <1>4

LEMMA UsageNone == \A key : UsageOf({}, key) = NoUsage
<1> TAKE key
<1>1. Charging({}, key) = {}
  BY DEF Charging
<1> QED BY <1>1, TotalNone, FS_EmptySet DEF UsageOf, NoUsage

Separate(S, T) ==
  S \subseteq Entry /\ IsFiniteSet(S) /\ T \subseteq Entry /\ IsFiniteSet(T) /\ S \cap T = {}

LEMMA UsageJoin ==
  \A S, T, key :
    Separate(S, T) => UsageOf(S \cup T, key) = AddUsage(UsageOf(S, key), UsageOf(T, key))
<1> SUFFICES ASSUME NEW S, NEW T, NEW key, Separate(S, T)
             PROVE  UsageOf(S \cup T, key) = AddUsage(UsageOf(S, key), UsageOf(T, key))
  OBVIOUS
<1> USE DEF Separate
<1> DEFINE A == Charging(S, key)
           B == Charging(T, key)
<1>1. Charging(S \cup T, key) = A \cup B /\ A \cap B = {}
  BY DEF Charging
<1>2. /\ IsFiniteSet(A) /\ IsFiniteSet(B) /\ Cardinality(A) \in Nat /\ Cardinality(B) \in Nat
      /\ \A e \in A \cup B : WorthOf[e] \in Nat
  BY ChargingType
<1>3. UsageOf(S, key) = [amount |-> Total(WorthOf, A), count |-> Cardinality(A)]
  BY DEF UsageOf
<1>4. UsageOf(T, key) = [amount |-> Total(WorthOf, B), count |-> Cardinality(B)]
  BY DEF UsageOf
<1>5. UsageOf(S \cup T, key) = [amount |-> Total(WorthOf, A \cup B), count |-> Cardinality(A \cup B)]
  BY <1>1 DEF UsageOf
<1> HIDE DEF A, B
<1>6. Total(WorthOf, A \cup B) = Total(WorthOf, A) + Total(WorthOf, B)
  BY <1>1, <1>2, TotalJoin
<1>7. Cardinality(A \cup B) = Cardinality(A) + Cardinality(B) - Cardinality(A \cap B)
  BY <1>2, FS_Union
<1>8. Cardinality(A \cap B) = 0
  BY <1>1, FS_EmptySet
<1>9. Cardinality(A \cup B) = Cardinality(A) + Cardinality(B)
  BY <1>2, <1>7, <1>8
<1> QED BY <1>3, <1>4, <1>5, <1>6, <1>9 DEF AddUsage

\* One entry more.
LEMMA UsageAdd ==
  ASSUME NEW S, S \subseteq Entry, IsFiniteSet(S), NEW e \in Entry, e \notin S, NEW key
  PROVE  /\ Charges(e, key) => UsageOf(S \cup {e}, key)
                                 = AddUsage(UsageOf(S, key), [amount |-> WorthOf[e], count |-> 1])
         /\ ~Charges(e, key) => UsageOf(S \cup {e}, key) = UsageOf(S, key)
<1>1. CASE Charges(e, key)
  <2>1. Charging({e}, key) = {e}
    BY <1>1 DEF Charging
  <2>2. UsageOf({e}, key) = [amount |-> WorthOf[e], count |-> 1]
    BY <2>1, WorthType, TotalOne, OneElement DEF UsageOf
  <2>3. Separate(S, {e})
    BY OneElement DEF Separate
  <2>4. UsageOf(S \cup {e}, key) = AddUsage(UsageOf(S, key), UsageOf({e}, key))
    BY ONLY <2>3, UsageJoin
  <2> QED BY <1>1, <2>2, <2>4
<1>2. CASE ~Charges(e, key)
  <2>1. Charging(S \cup {e}, key) = Charging(S, key)
    BY <1>2 DEF Charging
  <2> QED BY <1>2, <2>1 DEF UsageOf
<1> QED BY <1>1, <1>2

\* The entries a lane is going to insert.
GrantedEntries(l) == {EntryFor(l, i) : i \in txn[l].granted}

LEMMA GrantedEntriesType ==
  ASSUME TypeInv, NEW l \in Lane, pc[l] = "reserving"
  PROVE  GrantedEntries(l) \subseteq Entry /\ IsFiniteSet(GrantedEntries(l))
         /\ \A i \in RewardIx : EntryFor(l, i) \in Entry
<1>1. /\ txn[l].day \in 0..LastDay /\ Len(txn[l].cycles) \in Nat
      /\ txn[l].granted \subseteq RewardIx
  BY LenProperties DEF TypeInv, TypeOK, Txn
<1>2. CustomerOfRow(job[l]) \in Customer /\ job[l][2] \in Component
  BY BusyRow, RowType
<1>3. \A i \in RewardIx : EntryFor(l, i) \in Entry
  BY <1>1, <1>2, RewardsType DEF EntryFor, Entry, RewardBinding
<1>4. IsFiniteSet(txn[l].granted)
  <2>1. RewardIx = 1..Len(Rewards) /\ IsFiniteSet(1..Len(Rewards))
    BY LenProperties, UpTo
  <2> QED BY <1>1, <2>1, FS_Subset
<1>5. [i \in txn[l].granted |-> EntryFor(l, i)] \in Surjection(txn[l].granted, GrantedEntries(l))
  BY DEF Surjection, GrantedEntries
<1>6. IsFiniteSet(GrantedEntries(l))
  BY <1>4, <1>5, FS_Surjection
<1> QED BY <1>1, <1>3, <1>6 DEF GrantedEntries

\* What a lane has added to the counters is what its granted assignments will account for.
SpendsForGranted(l) ==
  pc[l] = "reserving" => \A key \in CounterKey : txn[l].spent[key] = UsageOf(GrantedEntries(l), key)

CounterInv ==
  /\ EntryInv
  /\ IsFiniteSet(entries)
  /\ DistinctCodes => \A key \in CounterKey : used[key] = UsageOf(entries, key)
  /\ \A l \in Lane : SpendsForGranted(l)

LEMMA CounterInit == Init => CounterInv
<1> SUFFICES ASSUME Init PROVE CounterInv
  OBVIOUS
<1>1. EntryInv
  BY EntryInit
<1>2. IsFiniteSet(entries) /\ \A key \in CounterKey : used[key] = UsageOf(entries, key)
  BY UsageNone, FS_EmptySet DEF Init
<1>3. \A l \in Lane : SpendsForGranted(l)
  BY DEF Init, SpendsForGranted
<1> QED BY <1>1, <1>2, <1>3 DEF CounterInv

LEMMA SpendsKept ==
  ASSUME NEW m \in Lane, SpendsForGranted(m),
         pc'[m] = "reserving" =>
           /\ pc[m] = "reserving" /\ job'[m] = job[m]
           /\ txn'[m].granted = txn[m].granted /\ txn'[m].cycles = txn[m].cycles
           /\ txn'[m].day = txn[m].day /\ txn'[m].spent = txn[m].spent
  PROVE  SpendsForGranted(m)'
<1> SUFFICES ASSUME pc'[m] = "reserving", NEW key \in CounterKey
             PROVE  txn'[m].spent[key] = UsageOf(GrantedEntries(m)', key)
  BY DEF SpendsForGranted, UsageOf, Charging, Charges
<1>1. \A i : EntryFor(m, i)' = EntryFor(m, i)
  BY DEF EntryFor, CustomerOfRow
<1>2. GrantedEntries(m)' = GrantedEntries(m)
  BY <1>1 DEF GrantedEntries
<1> QED BY <1>2 DEF SpendsForGranted

\* A granted assignment is charged to the counters of its matched caps.
LEMMA GrantSpends ==
  ASSUME CounterInv, NEW l \in Lane, NEW i \in RewardIx, GrantReward(l, i)
  PROVE  SpendsForGranted(l)'
<1> DEFINE t == TrackerOfRow(job[l])
<1>0. TypeInv /\ TypeOK /\ pc[l] = "reserving" /\ SpendsForGranted(l) /\ Held(l)
  BY DEF CounterInv, EntryInv, LockInv, TypeInv, GrantReward
<1>1. /\ txn'[l] = WithGranted(txn[l], i, SpendOn(l, i)) /\ txn[l] \in Txn
      /\ pc'[l] = "reserving" /\ job' = job
  BY <1>0 DEF GrantReward, TypeOK
<1>2. /\ txn'[l].spent = SpendOn(l, i) /\ txn'[l].granted = txn[l].granted \cup {i}
      /\ txn'[l].cycles = txn[l].cycles /\ txn'[l].day = txn[l].day
  BY <1>1 DEF WithGranted, Txn
<1>3. i \notin txn[l].granted
  BY <1>0 DEF GrantReward, IsNextReward, Held
<1>4. PICK e : e = EntryFor(l, i)
  OBVIOUS
<1>5. /\ GrantedEntries(l) \subseteq Entry /\ IsFiniteSet(GrantedEntries(l)) /\ e \in Entry
  BY <1>0, <1>4, GrantedEntriesType
<1>6. e.reward = i /\ e.component = job[l][2] /\ e.customer = CustomerOfRow(job[l]) /\ e.day = txn[l].day
  BY <1>4 DEF EntryFor
<1>7. e \notin GrantedEntries(l)
  <2>1. \A j \in txn[l].granted : EntryFor(l, j).reward = j
    BY DEF EntryFor
  <2> QED BY <1>3, <1>6, <2>1 DEF GrantedEntries
<1>8. GrantedEntries(l)' = GrantedEntries(l) \cup {e}
  <2>1. \A j : EntryFor(l, j)' = EntryFor(l, j)
    BY <1>1, <1>2 DEF EntryFor, CustomerOfRow
  <2> QED BY <1>2, <1>4, <2>1 DEF GrantedEntries
<1>9. ASSUME NEW key \in CounterKey PROVE txn'[l].spent[key] = UsageOf(GrantedEntries(l)', key)
  <2>1. trackerOf[e.component] = t
    BY <1>6 DEF TrackerOfRow
  <2>2. Charges(e, key) <=> \E k \in MatchedCaps(i, t) : key = TxnKey(l, k)
    <3>1. ASSUME NEW k \in MatchedCaps(i, t) PROVE TxnKey(l, k).cap = k
      BY <1>0, TxnKeyType DEF MatchedCaps
    <3>2. \A k : TxnKey(l, k) = KeyOf(k, e.customer, e.day)
      BY <1>6 DEF TxnKey
    <3> QED BY <1>6, <2>1, <3>1, <3>2 DEF Charges
  <2>3. WorthOf[e] = RecordedValue(i, t)
    BY <1>5, <1>6, <2>1, WorthType
  <2>4. txn[l].spent[key] = UsageOf(GrantedEntries(l), key)
    BY <1>0 DEF SpendsForGranted
  <2>5. CASE Charges(e, key)
    <3>1. SpendOn(l, i)[key] = AddUsage(txn[l].spent[key], [amount |-> RecordedValue(i, t), count |-> 1])
      BY <2>2, <2>5 DEF SpendOn
    <3>2. UsageOf(GrantedEntries(l) \cup {e}, key)
            = AddUsage(UsageOf(GrantedEntries(l), key), [amount |-> WorthOf[e], count |-> 1])
      BY <1>5, <1>7, <2>5, UsageAdd
    <3> QED BY <1>2, <1>8, <2>3, <2>4, <3>1, <3>2
  <2>6. CASE ~Charges(e, key)
    <3>1. SpendOn(l, i)[key] = txn[l].spent[key]
      BY <2>2, <2>6 DEF SpendOn
    <3>2. UsageOf(GrantedEntries(l) \cup {e}, key) = UsageOf(GrantedEntries(l), key)
      BY <1>5, <1>7, <2>6, UsageAdd
    <3> QED BY <1>2, <1>8, <2>4, <3>1, <3>2
  <2> QED BY <2>5, <2>6
<1> QED BY <1>9 DEF SpendsForGranted, UsageOf, Charging, Charges

LEMMA CounterStep == CounterInv /\ [Next]_vars => CounterInv'
<1> SUFFICES ASSUME CounterInv, [Next]_vars PROVE CounterInv'
  OBVIOUS
<1>0. EntryInv /\ EntryInv' /\ TypeInv /\ TypeOK /\ \A m \in Lane : SpendsForGranted(m)
  BY EntryStep DEF CounterInv, EntryInv, LockInv, TypeInv
<1>k. \A m \in Lane : UNCHANGED <<pc[m], job[m], txn[m]>> => SpendsForGranted(m)'
  BY <1>0, SpendsKept
\* A step that writes no entry and no counter.
<1>f. ASSUME UNCHANGED <<used, entries>>, \A m \in Lane : SpendsForGranted(m)' PROVE CounterInv'
  BY <1>0, <1>f DEF CounterInv, DistinctCodes, UsageOf, Charging, Charges
\* A transaction ends.
<1>e. ASSUME NEW l \in Lane, EndTxn(l) PROVE \A m \in Lane : SpendsForGranted(m)'
  <2>1. \A m \in Lane : m # l => UNCHANGED <<pc[m], job[m], txn[m]>>
    BY <1>0, <1>e, EndTxnElsewhere
  <2>2. pc'[l] # "reserving"
    BY <1>0, <1>e, EndTxnElsewhere
  <2> QED BY <1>k, <2>1, <2>2 DEF SpendsForGranted
<1> USE DEF dbVars, laneVars, boundVars
<1>1. ASSUME NEW s \in Submission, Ingest(s) PROVE CounterInv'
  BY <1>f, <1>k, <1>1 DEF Ingest
<1>2. ASSUME NEW l \in Lane, NEW r \in Row, Claim(l, r) PROVE CounterInv'
  <2>1. \A m \in Lane : m # l => UNCHANGED <<pc[m], job[m], txn[m]>>
    BY <1>0, <1>2 DEF Claim, TypeOK
  <2>2. pc'[l] # "reserving"
    BY <1>0, <1>2 DEF Claim, TypeOK
  <2>3. \A m \in Lane : SpendsForGranted(m)'
    BY <1>k, <2>1, <2>2 DEF SpendsForGranted
  <2> QED BY <1>f, <1>2, <2>3 DEF Claim
<1>3. ASSUME NEW r \in Row, SweepStale(r) PROVE CounterInv'
  BY <1>f, <1>k, <1>3 DEF SweepStale
<1>4. ASSUME NEW l \in Lane, SkipRow(l) PROVE CounterInv'
  BY <1>e, <1>f, <1>4 DEF SkipRow
<1>5. ASSUME NEW l \in Lane, AdvanceRow(l) PROVE CounterInv'
  BY <1>e, <1>f, <1>5 DEF AdvanceRow
<1>6. ASSUME NEW l \in Lane, RejectConfig(l) PROVE CounterInv'
  BY <1>e, <1>f, <1>6 DEF RejectConfig
<1>7. ASSUME NEW l \in Lane, OpenReservation(l) PROVE CounterInv'
  <2>1. \A m \in Lane : m # l => UNCHANGED <<pc[m], job[m], txn[m]>>
    BY <1>0, <1>7 DEF OpenReservation, TypeOK
  <2>2. txn'[l].spent = NoSpend /\ txn'[l].granted = {}
    <3>1. txn'[l] = Opened(job[l])
      BY <1>0, <1>7 DEF OpenReservation, TypeOK
    <3> QED BY <3>1 DEF Opened, NoTxn
  <2>3. SpendsForGranted(l)'
    <3>1. GrantedEntries(l)' = {}
      BY <2>2 DEF GrantedEntries
    <3>2. \A key \in CounterKey : txn'[l].spent[key] = UsageOf(GrantedEntries(l)', key)
      BY <2>2, <3>1, UsageNone DEF NoSpend
    <3> QED BY <3>2 DEF SpendsForGranted, UsageOf, Charging, Charges
  <2> QED BY <1>f, <1>k, <1>7, <2>1, <2>3 DEF OpenReservation
<1>8. ASSUME NEW l \in Lane, NEW i \in RewardIx, GrantReward(l, i) PROVE CounterInv'
  <2>1. \A m \in Lane : m # l => UNCHANGED <<pc[m], job[m], txn[m]>>
    BY <1>0, <1>8 DEF GrantReward, TypeOK
  <2>2. SpendsForGranted(l)'
    BY <1>8, GrantSpends
  <2> QED BY <1>f, <1>k, <1>8, <2>1, <2>2 DEF GrantReward
<1>9. ASSUME NEW l \in Lane, NEW i \in RewardIx, NEW k \in CapIx,
             CheckCap(l, i, k) \/ DenyReward(l, i, k)
      PROVE  CounterInv'
  <2>1. \A m \in Lane : m # l => UNCHANGED <<pc[m], job[m], txn[m]>>
    BY <1>0, <1>9 DEF CheckCap, DenyReward, TypeOK
  <2>2. txn[l] \in Txn /\ (txn'[l] = WithChecked(txn[l], k) \/ txn'[l] = WithDenied(txn[l], i))
    BY <1>0, <1>9 DEF CheckCap, DenyReward, TypeOK
  <2>3. /\ txn'[l].granted = txn[l].granted /\ txn'[l].cycles = txn[l].cycles
        /\ txn'[l].day = txn[l].day /\ txn'[l].spent = txn[l].spent
    BY <2>2 DEF WithChecked, WithDenied, Txn
  <2>4. pc' = pc /\ job' = job /\ UNCHANGED <<used, entries>>
    BY <1>9 DEF CheckCap, DenyReward
  <2>5. SpendsForGranted(l)'
    BY <1>0, <2>3, <2>4, SpendsKept
  <2> QED BY <1>f, <1>k, <2>1, <2>4, <2>5
<1>11. ASSUME NEW l \in Lane, Commit(l) PROVE CounterInv'
  <2>1. \A m \in Lane : SpendsForGranted(m)'
    BY <1>e, <1>11 DEF Commit
  <2>2. /\ GrantedEntries(l) \subseteq Entry /\ IsFiniteSet(GrantedEntries(l))
        /\ entries \subseteq Entry /\ IsFiniteSet(entries)
    BY <1>0, <1>11, GrantedEntriesType DEF Commit, CounterInv, TypeOK
  <2>3. entries' = entries \cup Inserted(l) /\ Inserted(l) \subseteq GrantedEntries(l)
    BY <1>11 DEF Commit, Inserted, GrantedEntries
  <2>4. IsFiniteSet(entries')
    BY <2>2, <2>3, FS_Subset, FS_Union
  <2>5. ASSUME DistinctCodes, NEW key \in CounterKey PROVE used'[key] = UsageOf(entries', key)
    <3>1. Inserted(l) = GrantedEntries(l) /\ GrantedEntries(l) \cap entries = {}
      BY <1>0, <1>11, <2>5, GrantedAreInserted DEF GrantedEntries
    <3>a. Separate(entries, GrantedEntries(l))
      BY <2>2, <3>1 DEF Separate
    <3>2. UsageOf(entries \cup GrantedEntries(l), key)
            = AddUsage(UsageOf(entries, key), UsageOf(GrantedEntries(l), key))
      BY ONLY <3>a, UsageJoin
    <3>3. used[key] = UsageOf(entries, key) /\ txn[l].spent[key] = UsageOf(GrantedEntries(l), key)
      BY <1>0, <1>11, <2>5 DEF CounterInv, SpendsForGranted, Commit
    <3>4. used'[key] = AddUsage(used[key], txn[l].spent[key])
      BY <1>11 DEF Commit
    <3> QED BY <2>3, <3>1, <3>2, <3>3, <3>4
  <2> QED BY <1>0, <2>1, <2>4, <2>5 DEF CounterInv, DistinctCodes, UsageOf, Charging, Charges
<1>12. ASSUME NEW l \in Lane, DeadlockAbort(l) PROVE CounterInv'
  BY <1>e, <1>f, <1>12 DEF DeadlockAbort
<1>13. ASSUME NEW l \in Lane, HandlerFails(l) PROVE CounterInv'
  BY <1>e, <1>f, <1>13 DEF HandlerFails
<1>14. CASE NextDay
  BY <1>f, <1>k, <1>14 DEF NextDay
<1>15. CASE UNCHANGED vars
  BY <1>f, <1>k, <1>15 DEF vars
<1> HIDE DEF CounterInv
<1> QED
  BY <1>1, <1>2, <1>3, <1>4, <1>5, <1>6, <1>7, <1>8, <1>9, <1>11, <1>12, <1>13, <1>14, <1>15
  DEF Next, Proceed

\* The counters are the entries, counted: a denied assignment has reserved nothing, a rolled
\* back transaction has left nothing, and no cap is charged for a reward nobody recorded.
THEOREM CountersMatch == Spec => []CountersMatchEntries
<1>1. Spec => []CounterInv
  BY CounterInit, CounterStep, PTL DEF Spec
<1>2. CounterInv => CountersMatchEntries
  <2> SUFFICES ASSUME CounterInv, DistinctCodes, NEW key \in CounterKey
               PROVE  LET charged == ChargedTo(key)
                          value == [e \in charged |-> RecordedValue(e.reward, trackerOf[e.component])]
                      IN  /\ used[key].count = Cardinality(charged)
                          /\ used[key].amount = Total(value, charged)
    BY DEF CountersMatchEntries
  <2> DEFINE charged == ChargedTo(key)
             value == [e \in charged |-> RecordedValue(e.reward, trackerOf[e.component])]
  <2>1. charged = Charging(entries, key) /\ entries \subseteq Entry
    BY DEF ChargedTo, Charging, Charges, CounterInv, EntryInv, LockInv, TypeInv, TypeOK
  <2>2. used[key] = UsageOf(entries, key)
    BY DEF CounterInv
  <2>3. \A e \in charged : value[e] = WorthOf[e]
    BY <2>1, WorthType DEF Charging
  <2> HIDE DEF value
  <2>4. Total(value, charged) = Total(WorthOf, charged)
    BY <2>3, TotalAgree
  <2>5. used[key].count = Cardinality(charged) /\ used[key].amount = Total(value, charged)
    BY <2>1, <2>2, <2>4 DEF UsageOf
  <2> QED BY <2>5 DEF value
<1> QED BY <1>1, <1>2, PTL

----------------------------------------------------------------------------
\* One activity, one advance.

\* A row that has advanced progress did so once and is settled ...
AdvancedOnce(r) == advances[r] = 0 \/ (advances[r] = 1 /\ rowStatus[r] \in Settled)

\* ... and every progress row was last written by a row that has advanced.
LastAdvanced(u, c) == \A n \in DOMAIN progress[u][c] : advances[<<progress[u][c][n].last, c>>] # 0

OnceInv ==
  /\ EntryInv
  /\ \A u \in Customer, c \in Component : LastAdvanced(u, c)
  /\ ~MayOvertake => \A r \in Row : AdvancedOnce(r)

LEMMA OnceInit == Init => OnceInv
<1> SUFFICES ASSUME Init PROVE OnceInv
  OBVIOUS
<1>1. \A u \in Customer, c \in Component : progress[u][c] = <<>>
  BY DEF Init
<1>2. \A u \in Customer, c \in Component : LastAdvanced(u, c)
  BY <1>1 DEF LastAdvanced
<1>3. \A r \in Row : AdvancedOnce(r)
  BY DEF Init, AdvancedOnce
<1> QED BY <1>2, <1>3, EntryInit DEF OnceInv

\* A row that advances has not advanced before, and is settled by the same commit.
LEMMA AdvancingRow ==
  ASSUME OnceInv, NEW l \in Lane, Advancing(l), NEW r \in Row, r = job[l]
  PROVE  /\ advances'[r] = advances[r] + 1 /\ \A q \in Row : q # r => advances'[q] = advances[q]
         /\ ~MayOvertake => advances[r] = 0 /\ advances'[r] = 1 /\ rowStatus'[r] \in Settled
<1>0. LockInv /\ TypeOK /\ RowsHeld
  BY DEF OnceInv, EntryInv, LockInv, TypeInv
<1>1. Advance(r, CyclesAfter(r), StatusAfter(r)) /\ pc[l] # "idle"
  BY <1>0, AdvancingIs
<1>2. advances'[r] = advances[r] + 1 /\ \A q \in Row : q # r => advances'[q] = advances[q]
  BY <1>0, <1>1, AdvanceElsewhere
<1>3. ASSUME ~MayOvertake PROVE rowStatus[r] = "processing"
  BY <1>0, <1>3, LaneAssumption DEF RowsHeld
<1>4. ASSUME ~MayOvertake PROVE advances[r] = 0
  BY <1>3, <1>4 DEF OnceInv, AdvancedOnce, Settled
<1>5. rowStatus'[r] \in Settled
  <2>1. PICK status \in Settled : rowStatus' = [rowStatus EXCEPT ![r] = status]
    <3>1. CASE AdvanceRow(l)
      BY <3>1 DEF AdvanceRow, MarkRow, Settled
    <3>2. CASE Commit(l)
      <4>1. (IF txn[l].denied THEN "error" ELSE "processed") \in Settled
        BY DEF Settled
      <4> QED BY <3>2, <4>1 DEF Commit, MarkRow
    <3> QED BY <3>1, <3>2 DEF Advancing
  <2> QED BY <1>0, <2>1 DEF TypeOK
<1> QED BY <1>2, <1>4, <1>5

LEMMA OnceStep == OnceInv /\ [Next]_vars => OnceInv'
<1> SUFFICES ASSUME OnceInv, [Next]_vars PROVE OnceInv'
  OBVIOUS
<1>0. EntryInv /\ EntryInv' /\ LockInv /\ RowsInv /\ TypeOK /\ TypeOK'
  BY EntryStep DEF OnceInv, EntryInv, LockInv, RowsInv, TypeInv
<1>k. ASSUME ~MayOvertake, NEW r \in Row, advances'[r] = advances[r] PROVE AdvancedOnce(r)'
  <2>1. rowStatus[r] \in Settled => rowStatus'[r] = rowStatus[r]
    BY <1>0, <1>k, SettledStays
  <2> QED BY <1>k, <2>1 DEF OnceInv, AdvancedOnce
<1>1. ASSUME UNCHANGED <<progress, tracker, advances, used, entries>> PROVE OnceInv'
  <2>1. \A u \in Customer, c \in Component : LastAdvanced(u, c)'
    BY <1>1 DEF OnceInv, LastAdvanced
  <2> QED BY <1>0, <1>1, <1>k, <2>1 DEF OnceInv
<1>2. ASSUME NEW l \in Lane, Advancing(l) PROVE OnceInv'
  <2>0. PICK r, u, c : Wrote(l, r, u, c)
    BY <1>0, <1>2, AdvancedCycles
  <2>1. r = job[l] /\ r \in Row /\ r = <<r[1], c>>
    BY <2>0 DEF Wrote
  <2>2. /\ advances'[r] = advances[r] + 1 /\ \A q \in Row : q # r => advances'[q] = advances[q]
        /\ ~MayOvertake => advances[r] = 0 /\ advances'[r] = 1 /\ rowStatus'[r] \in Settled
    BY <1>2, <2>1, AdvancingRow
  <2>3. \A q \in Row : advances[q] # 0 => advances'[q] # 0
    BY <1>0, <2>2 DEF TypeOK
  <2>4. advances'[r] # 0
    BY <1>0, <2>1, <2>2 DEF TypeOK
  <2>5. ASSUME NEW v \in Customer, NEW d \in Component, NEW n \in DOMAIN progress'[v][d]
        PROVE  advances'[<<progress'[v][d][n].last, d>>] # 0
    <3>1. CASE v = u /\ d = c /\ n = Len(progress'[u][c])
      <4>1. progress'[v][d][n].last = r[1]
        BY <2>0, <3>1 DEF Wrote, Extends
      <4> QED BY <2>1, <2>4, <3>1, <4>1
    <3>2. CASE ~(v = u /\ d = c /\ n = Len(progress'[u][c]))
      <4>1. n \in DOMAIN progress[v][d] /\ progress'[v][d][n] = progress[v][d][n]
        BY <2>0, <3>2 DEF Wrote, Extends
      <4>2. <<progress[v][d][n].last, d>> \in Row /\ advances[<<progress[v][d][n].last, d>>] # 0
        <5>1. LastIsRow(v, d) /\ LastAdvanced(v, d)
          BY DEF OnceInv, EntryInv
        <5> QED BY <4>1, <5>1 DEF LastIsRow, LastAdvanced
      <4> QED BY <2>3, <4>1, <4>2
    <3> QED BY <3>1, <3>2
  <2>6. \A v \in Customer, d \in Component : LastAdvanced(v, d)'
    BY <2>5 DEF LastAdvanced
  <2>7. ~MayOvertake => AdvancedOnce(r)'
    BY <2>2 DEF AdvancedOnce
  <2>8. ~MayOvertake => \A q \in Row : AdvancedOnce(q)'
    BY <1>k, <2>2, <2>7
  <2> QED BY <1>0, <2>6, <2>8 DEF OnceInv
<1> QED BY <1>1, <1>2, OnlyAdvancingWrites

\* No ingested row is counted twice, whatever its component's required count: claimed again
\* after a fault, a deadlock abort or a sweep, it has not advanced yet.
THEOREM RowAdvancesOnce ==
  ASSUME ~MayOvertake
  PROVE  Spec => [](\A r \in Row : advances[r] \in {0, 1})
<1>1. Spec => []OnceInv
  BY OnceInit, OnceStep, PTL DEF Spec
<1>2. OnceInv => \A r \in Row : advances[r] \in {0, 1}
  BY DEF OnceInv, AdvancedOnce
<1> QED BY <1>1, <1>2, PTL

----------------------------------------------------------------------------
\* Who remembers a submission. The lookup that keeps a second sibling from advancing reads
\* which submission wrote a progress row last.

Remembers(s, d) == \E n \in DOMAIN progress[customerOf[s]][d] : progress[customerOf[s]][d][n].last = s

MemoryInv == LockInv /\ OneSiblingRemembers

LEMMA MemoryInit == Init => MemoryInv
<1> SUFFICES ASSUME Init PROVE OneSiblingRemembers
  BY LockInit DEF MemoryInv
<1>1. ASSUME NEW s \in Submission, NEW d \in Component PROVE ~Remembers(s, d)
  <2>1. progress[customerOf[s]][d] = <<>>
    BY ConfigAssumption DEF Init, ConfigAssumption
  <2> QED BY <2>1 DEF Remembers
<1> QED BY <1>1 DEF OneSiblingRemembers, AdvancedBy, Siblings, Remembers

\* A step that advances row r makes one component remember one submission, those of r.
LEMMA RemembersNew ==
  ASSUME LockInv, NEW l \in Lane, Advancing(l), NEW r, NEW u, NEW c, Wrote(l, r, u, c),
         NEW s \in Submission, NEW d \in Component, Remembers(s, d)', ~Remembers(s, d)
  PROVE  s = r[1] /\ d = c
<1>1. PICK v \in Customer : v = customerOf[s]
  BY ConfigAssumption DEF ConfigAssumption
<1>2. PICK n \in DOMAIN progress'[v][d] : progress'[v][d][n].last = s
  BY <1>1 DEF Remembers
<1>3. ~(n \in DOMAIN progress[v][d] /\ progress'[v][d][n] = progress[v][d][n])
  BY <1>1, <1>2 DEF Remembers
<1>4. v = u /\ d = c
  BY <1>2, <1>3 DEF Wrote
<1>5. n = Len(progress'[u][c])
  BY <1>2, <1>3, <1>4 DEF Wrote, Extends
<1>6. progress'[u][c][n].last = r[1]
  BY <1>5 DEF Wrote, Extends
<1> QED BY <1>2, <1>4, <1>6

\* A row does not advance its component while a sibling remembers the row's submission.
LEMMA TargetRemembers ==
  ASSUME OneSiblingRemembers, NEW r \in Row, IsTarget(r),
         NEW e \in Siblings(r[2]), e # r[2], Remembers(r[1], e)
  PROVE  FALSE
<1>0. r[1] \in Submission /\ r[2] \in Component /\ e \in Component
  BY RowType DEF Siblings
<1>1. e \in AdvancedBy(r[1], r[2], progress[customerOf[r[1]]])
  BY DEF AdvancedBy, Remembers
<1>2. r[2] \in AdvancedBy(r[1], r[2], progress[customerOf[r[1]]])
  <2>1. Siblings(r[2]) # {r[2]}
    OBVIOUS
  <2>2. r[2] \in SiblingTargets(r[1], r[2], progress[customerOf[r[1]]])
    BY DEF IsTarget, CustomerOfRow
  <2> QED BY <1>1, <2>1, <2>2 DEF SiblingTargets
<1>3. ASSUME NEW s \in Submission, NEW c \in Component, NEW d \in AdvancedBy(s, c, progress[customerOf[s]]),
             NEW x \in AdvancedBy(s, c, progress[customerOf[s]])
      PROVE  d = x
  BY <1>3 DEF OneSiblingRemembers
<1>4. e = r[2]
  BY ONLY <1>0, <1>1, <1>2, <1>3, Zenon
<1> QED BY <1>4

LEMMA MemoryStep == MemoryInv /\ [Next]_vars => MemoryInv'
<1> SUFFICES ASSUME MemoryInv, [Next]_vars PROVE OneSiblingRemembers'
  BY LockStep DEF MemoryInv
<1>0. LockInv /\ TypeOK /\ OneSiblingRemembers
  BY DEF MemoryInv, LockInv, TypeInv
<1>1. ASSUME UNCHANGED progress PROVE OneSiblingRemembers'
  <2>1. ASSUME NEW s \in Submission, NEW c \in Component
        PROVE  AdvancedBy(s, c, progress'[customerOf[s]]) = AdvancedBy(s, c, progress[customerOf[s]])
    BY <1>1
  <2>2. ASSUME NEW s \in Submission, NEW c \in Component
        PROVE  \A d, e \in AdvancedBy(s, c, progress'[customerOf[s]]) : d = e
    BY <1>0, <2>1 DEF OneSiblingRemembers
  <2> QED BY <2>2 DEF OneSiblingRemembers
<1>2. ASSUME NEW l \in Lane, Advancing(l) PROVE OneSiblingRemembers'
  <2>0. PICK r, u, c : Wrote(l, r, u, c)
    BY <1>0, <1>2, AdvancedCycles
  <2>1. r \in Row /\ r[2] = c /\ IsTarget(r)
    BY <1>0, <1>2, <2>0, AdvancingIs DEF Wrote
  <2>2. ASSUME NEW s \in Submission, NEW d \in Component, NEW e \in Siblings(d), d # e,
               Remembers(s, d)', Remembers(s, e)'
        PROVE  FALSE
    <3>0. e \in Component /\ d \in Siblings(e)
      BY <2>2 DEF Siblings
    <3>1. CASE Remembers(s, d) /\ Remembers(s, e)
      <4>1. {d, e} \subseteq AdvancedBy(s, d, progress[customerOf[s]])
        BY <2>2, <3>1 DEF AdvancedBy, Siblings, Remembers
      <4> QED BY <1>0, <2>2, <4>1 DEF OneSiblingRemembers
    <3>2. CASE ~Remembers(s, d)
      <4>1. s = r[1] /\ d = r[2]
        BY <1>0, <1>2, <2>0, <2>1, <2>2, <3>2, RemembersNew
      <4>2. Remembers(s, e)
        BY <1>0, <1>2, <2>0, <2>1, <2>2, <3>0, <4>1, RemembersNew
      <4> QED BY <1>0, <2>1, <2>2, <4>1, <4>2, TargetRemembers
    <3>3. CASE ~Remembers(s, e)
      <4>1. s = r[1] /\ e = r[2]
        BY <1>0, <1>2, <2>0, <2>1, <2>2, <3>0, <3>3, RemembersNew
      <4>2. Remembers(s, d)
        BY <1>0, <1>2, <2>0, <2>1, <2>2, <4>1, RemembersNew
      <4> QED BY <1>0, <2>1, <2>2, <3>0, <4>1, <4>2, TargetRemembers
    <3> QED BY <3>1, <3>2, <3>3
  <2>3. ASSUME NEW s \in Submission, NEW x \in Component,
               NEW d \in AdvancedBy(s, x, progress'[customerOf[s]]),
               NEW e \in AdvancedBy(s, x, progress'[customerOf[s]])
        PROVE  d = e
    <3>1. d \in Component /\ e \in Siblings(d) /\ Remembers(s, d)' /\ Remembers(s, e)'
      BY <2>3 DEF AdvancedBy, Siblings, Remembers
    <3> QED BY <2>2, <3>1
  <2> QED BY <2>3 DEF OneSiblingRemembers
<1> QED BY <1>1, <1>2, OnlyAdvancingWrites

\* Of the siblings an activity fans out to one at most has it for its last, for any required
\* counts, lanes, faults and sweeps, handlers overtaken by the sweep included: what
\* findSiblingAdvancedByDedupKey returns is never one of several.
THEOREM SiblingMemoryIsSingle == Spec => []OneSiblingRemembers
<1>1. MemoryInv => OneSiblingRemembers
  BY DEF MemoryInv
<1> QED BY <1>1, MemoryInit, MemoryStep, PTL DEF Spec

----------------------------------------------------------------------------
\* The refinement of AtomicProcessing. Its rules are those of RewardRules, here under the
\* name of the instance.

LEMMA SameProgressRules ==
  /\ Atomic!Row = Row
  /\ \A cycles : Atomic!LatestComplete(cycles) = LatestComplete(cycles)
  /\ \A cycles, n, s : Atomic!AfterPass(cycles, n, s) = AfterPass(cycles, n, s)
  /\ \A s, c, p : Atomic!SiblingTargets(s, c, p) = SiblingTargets(s, c, p)
<1>1. Atomic!Row = Row
  BY DEF Atomic!Row, Row
<1>2. \A cycles : Atomic!LatestComplete(cycles) = LatestComplete(cycles)
  BY Zenon DEF Atomic!LatestComplete, LatestComplete
<1>3. \A cycles, n, s : Atomic!AfterPass(cycles, n, s) = AfterPass(cycles, n, s)
  BY <1>2, Zenon DEF Atomic!AfterPass, AfterPass
<1>4. \A c : Atomic!Siblings(c) = Siblings(c)
  BY Zenon DEF Atomic!Siblings, Siblings
<1>5. \A S : Atomic!First(S) = First(S)
  BY Zenon DEF Atomic!First, First
<1>6. \A s, c, p : Atomic!AdvancedBy(s, c, p) = AdvancedBy(s, c, p)
  BY <1>4, Zenon DEF Atomic!AdvancedBy, AdvancedBy
<1>7. \A s, c, p : Atomic!SiblingTargets(s, c, p) = SiblingTargets(s, c, p)
  <2> TAKE s, c, p
  <2>1. {d \in Atomic!Siblings(c) : ~Atomic!LatestComplete(p[d])} = {d \in Siblings(c) : ~LatestComplete(p[d])}
    BY <1>2, <1>4
  <2> QED BY <1>4, <1>5, <1>6, <2>1, Zenon DEF Atomic!SiblingTargets, SiblingTargets
<1> QED BY <1>1, <1>2, <1>3, <1>7

LEMMA SameStatusRules ==
  /\ \A t : Atomic!Members(t) = Members(t) /\ Atomic!Supported(t) = Supported(t)
  /\ \A st, t, n : Atomic!AfterCompletion(st, t, n) = AfterCompletion(st, t, n)
  /\ \A c, t, b : Atomic!DueRewards(c, t, b) = DueRewards(c, t, b)
<1>1. \A t : Atomic!Members(t) = Members(t) /\ Atomic!Supported(t) = Supported(t)
  BY Zenon DEF Atomic!Members, Members, Atomic!Supported, Supported
<1>2. \A t, n : Atomic!CompletesAt(t, n) = CompletesAt(t, n)
  BY Zenon DEF Atomic!CompletesAt, CompletesAt
<1>3. \A st, t, n : Atomic!AfterCompletion(st, t, n) = AfterCompletion(st, t, n)
  BY <1>2, Zenon DEF Atomic!AfterCompletion, AfterCompletion
<1>4. \A c, t, b : Atomic!DueRewards(c, t, b) = DueRewards(c, t, b)
  BY Zenon DEF Atomic!DueRewards, DueRewards, Atomic!RewardIx
<1> QED BY <1>1, <1>3, <1>4

LEMMA SameCardinality == \A S : Atomic!Cardinality(S) = Cardinality(S)
BY Zenon DEF Atomic!Cardinality, Cardinality

LEMMA SameCapRules ==
  /\ Atomic!RewardIx = RewardIx /\ Atomic!CounterKey = CounterKey
  /\ \A i, t : Atomic!MatchedCaps(i, t) = MatchedCaps(i, t)
  /\ \A i, t : Atomic!RecordedValue(i, t) = RecordedValue(i, t)
  /\ \A v, S : Atomic!Total(v, S) = Total(v, S)
  /\ \A u, v : Atomic!AddUsage(u, v) = AddUsage(u, v)
  /\ \A k, u, d : Atomic!KeyOf(k, u, d) = KeyOf(k, u, d)
  /\ \A k, u, i, t : Atomic!Breaches(k, u, i, t) <=> Breaches(k, u, i, t)
<1>1. Atomic!RewardIx = RewardIx /\ Atomic!CapIx = CapIx
  BY DEF Atomic!RewardIx, Atomic!CapIx
<1>2. Atomic!CounterKey = CounterKey
  BY <1>1, Zenon DEF Atomic!CounterKey, CounterKey, Atomic!Everyone, Everyone
<1>3. \A i, t : Atomic!MatchedCaps(i, t) = MatchedCaps(i, t)
  BY <1>1, Zenon DEF Atomic!MatchedCaps, MatchedCaps, Atomic!ScopeCovers, ScopeCovers, Atomic!AnyType, AnyType
<1>4. \A i, t : Atomic!ValueKnown(i, t) = ValueKnown(i, t)
  BY <1>3, Zenon DEF Atomic!ValueKnown, ValueKnown
<1>5. \A i, t : Atomic!RecordedValue(i, t) = RecordedValue(i, t)
  BY <1>4, Zenon DEF Atomic!RecordedValue, RecordedValue
<1>6. \A v, S : Atomic!Total(v, S) = Total(v, S)
  <2>1. \A v, S : Atomic!Units(v, S) = Units(v, S)
    BY DEF Atomic!Units, Units
  <2> QED BY <2>1, SameCardinality DEF Atomic!Total, Total
<1>7. \A u, v : Atomic!AddUsage(u, v) = AddUsage(u, v)
  BY Zenon DEF Atomic!AddUsage, AddUsage
<1>8. \A k, u, d : Atomic!KeyOf(k, u, d) = KeyOf(k, u, d)
  BY Zenon DEF Atomic!KeyOf, KeyOf, Atomic!Everyone, Everyone
<1>9. \A k, u, i, t : Atomic!Breaches(k, u, i, t) <=> Breaches(k, u, i, t)
  BY <1>4, Zenon DEF Atomic!Breaches, Breaches
<1> QED BY <1>1, <1>2, <1>3, <1>5, <1>6, <1>7, <1>8, <1>9

\* What the rewards G add to a counter, and what one reward more adds.
ChargedIn(G, key, t, u, d) ==
  {i \in G : key.cap \in MatchedCaps(i, t) /\ key = KeyOf(key.cap, u, d)}
ValuesFor(t) == [i \in RewardIx |-> RecordedValue(i, t)]

LEMMA ChargeIs ==
  \A G, key, t, u, d :
    Atomic!Charge(G, key, t, u, d) =
      [amount |-> Total(ValuesFor(t), ChargedIn(G, key, t, u, d)),
       count |-> Cardinality(ChargedIn(G, key, t, u, d))]
<1> TAKE G, key, t, u, d
<1>1. {i \in G : key.cap \in Atomic!MatchedCaps(i, t) /\ key = Atomic!KeyOf(key.cap, u, d)}
        = ChargedIn(G, key, t, u, d)
  BY SameCapRules DEF ChargedIn
<1>2. [i \in Atomic!RewardIx |-> Atomic!RecordedValue(i, t)] = ValuesFor(t)
  BY SameCapRules DEF ValuesFor
<1>3. Atomic!Charge(G, key, t, u, d) =
        [amount |-> Atomic!Total(ValuesFor(t), ChargedIn(G, key, t, u, d)),
         count |-> Atomic!Cardinality(ChargedIn(G, key, t, u, d))]
  BY <1>1, <1>2, Zenon DEF Atomic!Charge
<1> QED BY <1>3, SameCapRules, SameCardinality

LEMMA ChargedFinite ==
  ASSUME NEW G, G \subseteq RewardIx, NEW t \in Tracker, NEW key, NEW u, NEW d
  PROVE  /\ IsFiniteSet(ChargedIn(G, key, t, u, d))
         /\ \A i \in RewardIx : ValuesFor(t)[i] \in Nat
<1>1. RewardIx = 1..Len(Rewards) /\ IsFiniteSet(1..Len(Rewards))
  BY LenProperties, UpTo
<1>2. ChargedIn(G, key, t, u, d) \subseteq RewardIx
  BY DEF ChargedIn
<1>3. IsFiniteSet(ChargedIn(G, key, t, u, d))
  BY <1>1, <1>2, FS_Subset
<1> QED BY <1>3, RecordedValueType DEF ValuesFor

LEMMA ChargeNone == \A key, t, u, d : Atomic!Charge({}, key, t, u, d) = NoUsage
<1> TAKE key, t, u, d
<1>1. ChargedIn({}, key, t, u, d) = {}
  BY DEF ChargedIn
<1> QED BY <1>1, ChargeIs, TotalNone, FS_EmptySet DEF NoUsage

LEMMA ChargeAdd ==
  ASSUME NEW G, G \subseteq RewardIx, NEW i \in RewardIx, i \notin G,
         NEW t \in Tracker, NEW key, NEW u, NEW d
  PROVE  Atomic!Charge(G \cup {i}, key, t, u, d) =
           IF key.cap \in MatchedCaps(i, t) /\ key = KeyOf(key.cap, u, d)
           THEN AddUsage(Atomic!Charge(G, key, t, u, d), [amount |-> RecordedValue(i, t), count |-> 1])
           ELSE Atomic!Charge(G, key, t, u, d)
<1> DEFINE S == ChargedIn(G, key, t, u, d)
<1>b. IsFiniteSet(S) /\ \A j \in RewardIx : ValuesFor(t)[j] \in Nat
  BY ChargedFinite
<1>c. S \subseteq RewardIx /\ i \notin S
  BY DEF ChargedIn
<1>d. ValuesFor(t)[i] = RecordedValue(i, t)
  BY DEF ValuesFor
<1>a. Atomic!Charge(G, key, t, u, d) = [amount |-> Total(ValuesFor(t), S), count |-> Cardinality(S)]
  BY ChargeIs
<1>1. CASE key.cap \in MatchedCaps(i, t) /\ key = KeyOf(key.cap, u, d)
  <2>1. ChargedIn(G \cup {i}, key, t, u, d) = S \cup {i}
    BY <1>1 DEF ChargedIn
  <2> HIDE DEF S
  <2>2. Total(ValuesFor(t), S \cup {i}) = Total(ValuesFor(t), S) + RecordedValue(i, t)
    BY <1>b, <1>c, <1>d, TotalAdd
  <2>3. Cardinality(S \cup {i}) = Cardinality(S) + 1
    BY <1>b, <1>c, FS_AddElement
  <2>4. Atomic!Charge(G \cup {i}, key, t, u, d)
          = [amount |-> Total(ValuesFor(t), S \cup {i}), count |-> Cardinality(S \cup {i})]
    <3>1. Atomic!Charge(G \cup {i}, key, t, u, d)
            = [amount |-> Total(ValuesFor(t), ChargedIn(G \cup {i}, key, t, u, d)),
               count |-> Cardinality(ChargedIn(G \cup {i}, key, t, u, d))]
      BY ChargeIs, Zenon
    <3> QED BY ONLY <2>1, <3>1
  <2>5. AddUsage(Atomic!Charge(G, key, t, u, d), [amount |-> RecordedValue(i, t), count |-> 1])
          = [amount |-> Total(ValuesFor(t), S) + RecordedValue(i, t), count |-> Cardinality(S) + 1]
    BY ONLY <1>a DEF AddUsage
  <2> QED BY <1>1, <2>2, <2>3, <2>4, <2>5
<1>2. CASE ~(key.cap \in MatchedCaps(i, t) /\ key = KeyOf(key.cap, u, d))
  <2>1. ChargedIn(G \cup {i}, key, t, u, d) = S
    BY <1>2 DEF ChargedIn
  <2>2. Atomic!Charge(G \cup {i}, key, t, u, d) = Atomic!Charge(G, key, t, u, d)
    BY <2>1, ChargeIs
  <2> QED BY <1>2, <2>2
<1> QED BY <1>1, <1>2

\* How far enforcement has come in transaction x of lane l, for row r whose due rewards are D:
\* it goes in order; what is granted had room beside what was granted before it, what is denied
\* had not; and the counters that decided this are locked, so they will decide it the same way
\* when the transaction commits.
Handled(x, D) == D \ x.due
KeyFor(x, r, k) == KeyOf(k, CustomerOfRow(r), x.day)
Before(x, i) == {g \in x.granted : g < i}
Kept(x, r, G, key) == Atomic!Charge(G, key, TrackerOfRow(r), CustomerOfRow(r), x.day)
HadRoom(x, r, i, k) ==
  ~Breaches(k, AddUsage(used[KeyFor(x, r, k)], Kept(x, r, Before(x, i), KeyFor(x, r, k))),
            i, TrackerOfRow(r))

InOrder(x, D) == \A i \in Handled(x, D), j \in x.due : i < j
GrantsStand(l, x, r) ==
  \A i \in x.granted : \A k \in MatchedCaps(i, TrackerOfRow(r)) :
    counterLock[KeyFor(x, r, k)] = l /\ HadRoom(x, r, i, k)
DenialsStand(l, x, r, D) ==
  \A i \in Handled(x, D) \ x.granted : \E k \in MatchedCaps(i, TrackerOfRow(r)) :
    counterLock[KeyFor(x, r, k)] = l /\ ~HadRoom(x, r, i, k)

EnforcedSoFar(l, x, r, D) ==
  /\ x \in Txn /\ r \in Row /\ D \subseteq RewardIx
  /\ x.due \cup x.granted \subseteq D /\ x.due \cap x.granted = {}
  /\ x.day <= day
  /\ \A key \in CounterKey : x.spent[key] = Kept(x, r, x.granted, key)
  /\ InOrder(x, D)
  /\ GrantsStand(l, x, r)
  /\ DenialsStand(l, x, r, D)
  /\ x.denied <=> Handled(x, D) # x.granted

Enforcing(l) ==
  pc[l] = "reserving" =>
    \A x, r, D : x = txn[l] /\ r = job[l] /\ D = DueAfter(r) => EnforcedSoFar(l, x, r, D)

AtomicInv == CapInv /\ EntryInv /\ \A l \in Lane : Enforcing(l)

LEMMA AtomicInit == Init => AtomicInv
<1>1. Init => \A l \in Lane : Enforcing(l)
  BY DEF Init, Enforcing
<1> QED BY <1>1, CapInit, EntryInit DEF AtomicInv

LEMMA KeyForType ==
  ASSUME NEW x \in Txn, NEW r \in Row, NEW i \in RewardIx, NEW k \in MatchedCaps(i, TrackerOfRow(r))
  PROVE  KeyFor(x, r, k) \in CounterKey /\ KeyFor(x, r, k).cap = k /\ k \in CapIx
<1>1. k \in CapIx /\ x.day \in 0..LastDay /\ CustomerOfRow(r) \in Customer
  BY RowType DEF MatchedCaps, Txn
<1> QED BY <1>1, KeyOfType DEF KeyFor, KeyOf

\* It stays so as long as the counters locked stay locked.
CountersStay(l) ==
  /\ day \in Nat /\ day' \in Nat /\ day <= day'
  /\ \A key \in CounterKey : counterLock[key] = l => counterLock'[key] = l /\ used'[key] = used[key]

LEMMA EnforcedStays ==
  ASSUME NEW l, NEW x, NEW r, NEW D, EnforcedSoFar(l, x, r, D), CountersStay(l)
  PROVE  EnforcedSoFar(l, x, r, D)'
<1>0. x \in Txn /\ r \in Row /\ x.granted \subseteq RewardIx /\ D \subseteq RewardIx
  BY DEF EnforcedSoFar
<1>1. ASSUME NEW i \in RewardIx, NEW k \in MatchedCaps(i, TrackerOfRow(r)), counterLock[KeyFor(x, r, k)] = l
      PROVE  counterLock'[KeyFor(x, r, k)] = l /\ (HadRoom(x, r, i, k)' <=> HadRoom(x, r, i, k))
  <2>1. KeyFor(x, r, k) \in CounterKey
    BY <1>0, KeyForType
  <2>2. used'[KeyFor(x, r, k)] = used[KeyFor(x, r, k)] /\ counterLock'[KeyFor(x, r, k)] = l
    BY <1>1, <2>1 DEF CountersStay
  <2> QED BY <2>2 DEF HadRoom, KeyFor, Kept, Before
<1>2. GrantsStand(l, x, r)'
  BY <1>0, <1>1 DEF EnforcedSoFar, GrantsStand, KeyFor
<1>3. DenialsStand(l, x, r, D)'
  BY <1>0, <1>1 DEF EnforcedSoFar, DenialsStand, KeyFor, Handled
<1>4. x.day <= day'
  BY <1>0 DEF EnforcedSoFar, CountersStay, Txn
<1> QED BY <1>2, <1>3, <1>4 DEF EnforcedSoFar, InOrder, Handled, Kept

\* A transaction begins.
LEMMA EnforcedAtOpening ==
  ASSUME NEW l, NEW r \in Row, NEW D, D \subseteq RewardIx, NEW x \in Txn, day \in Nat,
         x = [NoTxn EXCEPT !.cycles = CyclesAfter(r), !.status = StatusAfter(r), !.day = day, !.due = D]
  PROVE  EnforcedSoFar(l, x, r, D)
<1>1. x.day = day /\ x.due = D /\ x.granted = {} /\ ~x.denied /\ x.spent = NoSpend
  BY DEF NoTxn
<1>2. ASSUME NEW key \in CounterKey PROVE x.spent[key] = Kept(x, r, x.granted, key)
  <2>1. x.spent[key] = NoUsage
    BY <1>1 DEF NoSpend
  <2>2. Kept(x, r, x.granted, key) = NoUsage
    BY <1>1, ChargeNone, Zenon DEF Kept
  <2> QED BY <2>1, <2>2
<1>3. Handled(x, D) = {}
  BY <1>1 DEF Handled
<1>4. InOrder(x, D) /\ GrantsStand(l, x, r) /\ DenialsStand(l, x, r, D)
  BY <1>1, <1>3 DEF InOrder, GrantsStand, DenialsStand
<1>5. x.day <= day /\ x.due \cup x.granted \subseteq D /\ x.due \cap x.granted = {}
  BY <1>1
<1>6. x.denied <=> Handled(x, D) # x.granted
  BY <1>1, <1>3
<1> QED BY <1>2, <1>4, <1>5, <1>6 DEF EnforcedSoFar

\* A reward is handled: everything handled before it comes before it, and stands as it did.
ComesNext(x, i) == i \in x.due /\ \A j \in x.due : i <= j

LEMMA HandledBefore ==
  ASSUME NEW l, NEW x, NEW r, NEW D, EnforcedSoFar(l, x, r, D), NEW i, ComesNext(x, i)
  PROVE  /\ Before(x, i) = x.granted /\ i \in RewardIx /\ i \in D /\ i \notin x.granted
         /\ \A j \in Handled(x, D) : j < i /\ j \in RewardIx
         /\ x.granted \subseteq Handled(x, D)
<1> USE DEF EnforcedSoFar, ComesNext
<1>1. x.granted \subseteq Handled(x, D)
  BY DEF Handled
<1>2. \A j \in Handled(x, D) : j < i
  BY DEF EnforcedSoFar, InOrder
<1>3. Before(x, i) = x.granted
  BY <1>1, <1>2 DEF Before
<1>4. i \in D /\ i \in RewardIx /\ i \notin x.granted
  OBVIOUS
<1>5. Handled(x, D) \subseteq RewardIx
  BY DEF Handled
<1> QED BY <1>1, <1>2, <1>3, <1>4, <1>5

LEMMA EnforcedByDenial ==
  ASSUME NEW l, NEW x, NEW r, NEW D, EnforcedSoFar(l, x, r, D), CountersStay(l), used' = used,
         NEW i, ComesNext(x, i),
         NEW k \in MatchedCaps(i, TrackerOfRow(r)), counterLock'[KeyFor(x, r, k)] = l,
         Breaches(k, AddUsage(used[KeyFor(x, r, k)], x.spent[KeyFor(x, r, k)]), i, TrackerOfRow(r)),
         NEW y \in Txn, y = WithDenied(x, i)
  PROVE  EnforcedSoFar(l, y, r, D)'
<1>t. /\ x \in Txn /\ r \in Row /\ D \subseteq RewardIx
      /\ x.due \cup x.granted \subseteq D /\ x.due \cap x.granted = {}
      /\ i \in x.due /\ \A j \in x.due : i <= j
  BY DEF EnforcedSoFar, ComesNext
<1>0. /\ Before(x, i) = x.granted /\ i \in RewardIx /\ i \in D /\ i \notin x.granted
      /\ \A j \in Handled(x, D) : j < i /\ j \in RewardIx
      /\ x.granted \subseteq Handled(x, D)
  BY HandledBefore
<1>x. EnforcedSoFar(l, x, r, D)'
  BY EnforcedStays
<1>1. /\ y.day = x.day /\ y.due = x.due \ {i} /\ y.granted = x.granted /\ y.denied = TRUE
      /\ y.spent = x.spent
  BY <1>t DEF WithDenied, Txn
<1>2. Handled(y, D) = Handled(x, D) \cup {i}
  BY <1>0, <1>1 DEF Handled
<1>3. \A j, m : KeyFor(y, r, m) = KeyFor(x, r, m) /\ (HadRoom(y, r, j, m)' <=> HadRoom(x, r, j, m)')
  BY <1>1 DEF KeyFor, HadRoom, Kept, Before
<1>4. ~HadRoom(x, r, i, k)'
  <2>1. KeyFor(x, r, k) \in CounterKey
    BY <1>0, <1>t, KeyForType
  <2>2. x.spent[KeyFor(x, r, k)] = Kept(x, r, Before(x, i), KeyFor(x, r, k))
    BY <1>0, <2>1 DEF EnforcedSoFar
  <2> QED BY <2>2 DEF HadRoom, KeyFor, Kept, Before
<1>5. InOrder(y, D)
  <2>1. \A j \in y.due : i < j
    <3>1. \A j \in x.due : j \in RewardIx /\ i <= j
      BY <1>t
    <3>2. RewardIx \subseteq Nat
      BY LenProperties
    <3> QED BY <1>0, <1>1, <3>1, <3>2
  <2> QED BY <1>1, <1>2, <2>1 DEF InOrder, EnforcedSoFar
<1>6. GrantsStand(l, y, r)'
  <2>1. GrantsStand(l, x, r)'
    BY <1>x DEF EnforcedSoFar
  <2> QED BY <1>1, <1>3, <2>1 DEF GrantsStand, KeyFor
<1>7. DenialsStand(l, y, r, D)'
  <2> SUFFICES ASSUME NEW j \in Handled(y, D) \ y.granted
               PROVE  \E m \in MatchedCaps(j, TrackerOfRow(r)) :
                        counterLock'[KeyFor(y, r, m)] = l /\ ~HadRoom(y, r, j, m)'
    BY DEF DenialsStand, Handled, KeyFor
  <2>1. CASE j = i
    BY <1>3, <1>4, <2>1
  <2>2. CASE j # i
    <3>1. j \in Handled(x, D) \ x.granted
      BY <1>1, <1>2, <2>2
    <3>2. PICK m \in MatchedCaps(j, TrackerOfRow(r)) :
            counterLock'[KeyFor(x, r, m)] = l /\ ~HadRoom(x, r, j, m)'
      BY <1>x, <3>1 DEF EnforcedSoFar, DenialsStand, Handled, KeyFor
    <3> QED BY <1>3, <3>2
  <2> QED BY <2>1, <2>2
<1>8. \A key \in CounterKey : y.spent[key] = Kept(y, r, y.granted, key)
  BY <1>1 DEF EnforcedSoFar, Kept
<1>9. y.denied <=> Handled(y, D) # y.granted
  BY <1>0, <1>1, <1>2
<1>10. y.day <= day'
  BY <1>x, <1>1 DEF EnforcedSoFar
<1>11. y.due \cup y.granted \subseteq D /\ y.due \cap y.granted = {}
  BY <1>t, <1>1
<1>12. InOrder(y, D)'
  BY <1>5 DEF InOrder, Handled
<1>13. \A key \in CounterKey : y.spent[key] = Kept(y, r, y.granted, key)'
  BY <1>8 DEF Kept
<1>14. y.denied <=> Handled(y, D)' # y.granted
  BY <1>9 DEF Handled
<1> QED BY <1>t, <1>6, <1>7, <1>10, <1>11, <1>12, <1>13, <1>14 DEF EnforcedSoFar

Spends(x, r, i, spent) ==
  \A key \in CounterKey : spent[key] =
     IF \E k \in MatchedCaps(i, TrackerOfRow(r)) : key = KeyFor(x, r, k)
     THEN AddUsage(x.spent[key], [amount |-> RecordedValue(i, TrackerOfRow(r)), count |-> 1])
     ELSE x.spent[key]

LEMMA EnforcedByGrant ==
  ASSUME NEW l, NEW x, NEW r, NEW D, EnforcedSoFar(l, x, r, D), NEW i, ComesNext(x, i),
         \A k \in MatchedCaps(i, TrackerOfRow(r)) :
           /\ counterLock[KeyFor(x, r, k)] = l
           /\ ~Breaches(k, AddUsage(used[KeyFor(x, r, k)], x.spent[KeyFor(x, r, k)]), i, TrackerOfRow(r)),
         NEW spent, Spends(x, r, i, spent),
         NEW y \in Txn, y = WithGranted(x, i, spent)
  PROVE  EnforcedSoFar(l, y, r, D)
<1>t. /\ x \in Txn /\ r \in Row /\ D \subseteq RewardIx
      /\ x.due \cup x.granted \subseteq D /\ x.due \cap x.granted = {}
      /\ i \in x.due /\ \A j \in x.due : i <= j
  BY DEF EnforcedSoFar, ComesNext
<1>0. /\ Before(x, i) = x.granted /\ i \in RewardIx /\ i \in D /\ i \notin x.granted
      /\ \A j \in Handled(x, D) : j < i /\ j \in RewardIx
      /\ x.granted \subseteq Handled(x, D)
  BY HandledBefore
<1>1. /\ y.day = x.day /\ y.due = x.due \ {i} /\ y.granted = x.granted \cup {i} /\ y.denied = x.denied
      /\ y.spent = spent
  BY <1>t DEF WithGranted, Txn
<1>2. Handled(y, D) = Handled(x, D) \cup {i}
  BY <1>0, <1>1 DEF Handled
<1>n. RewardIx \subseteq Nat
  BY LenProperties
<1>3. ASSUME NEW j \in Handled(y, D) PROVE Before(y, j) = Before(x, j)
  <2>1. ~(i < j)
    BY <1>0, <1>2, <1>n
  <2> QED BY <1>1, <2>1 DEF Before
<1>4. \A m : KeyFor(y, r, m) = KeyFor(x, r, m)
  BY <1>1 DEF KeyFor
<1>5. ASSUME NEW j \in Handled(y, D), NEW m PROVE HadRoom(y, r, j, m) <=> HadRoom(x, r, j, m)
  BY <1>1, <1>3, <1>4 DEF HadRoom, Kept
<1>6. ASSUME NEW k \in MatchedCaps(i, TrackerOfRow(r)) PROVE HadRoom(x, r, i, k)
  <2>1. KeyFor(x, r, k) \in CounterKey
    BY <1>0, <1>t, KeyForType
  <2>2. x.spent[KeyFor(x, r, k)] = Kept(x, r, Before(x, i), KeyFor(x, r, k))
    BY <1>0, <2>1 DEF EnforcedSoFar
  <2> QED BY <2>2 DEF HadRoom
<1>7. InOrder(y, D)
  <2>1. \A j \in y.due : i < j
    <3>1. \A j \in x.due : j \in RewardIx /\ i <= j
      BY <1>t
    <3> QED BY <1>0, <1>1, <1>n, <3>1
  <2> QED BY <1>1, <1>2, <2>1 DEF InOrder, EnforcedSoFar
<1>8. GrantsStand(l, y, r)
  <2> SUFFICES ASSUME NEW j \in y.granted, NEW k \in MatchedCaps(j, TrackerOfRow(r))
               PROVE  counterLock[KeyFor(y, r, k)] = l /\ HadRoom(y, r, j, k)
    BY DEF GrantsStand
  <2>1. j \in Handled(y, D)
    BY <1>0, <1>1, <1>2
  <2>2. counterLock[KeyFor(x, r, k)] = l /\ HadRoom(x, r, j, k)
    BY <1>1, <1>6 DEF EnforcedSoFar, GrantsStand
  <2> QED BY <1>4, <1>5, <2>1, <2>2
<1>9. DenialsStand(l, y, r, D)
  <2> SUFFICES ASSUME NEW j \in Handled(y, D) \ y.granted
               PROVE  \E k \in MatchedCaps(j, TrackerOfRow(r)) :
                        counterLock[KeyFor(y, r, k)] = l /\ ~HadRoom(y, r, j, k)
    BY DEF DenialsStand
  <2>1. j \in Handled(x, D) \ x.granted
    BY <1>1, <1>2
  <2>2. PICK k \in MatchedCaps(j, TrackerOfRow(r)) :
          counterLock[KeyFor(x, r, k)] = l /\ ~HadRoom(x, r, j, k)
    BY <2>1 DEF EnforcedSoFar, DenialsStand
  <2> QED BY <1>4, <1>5, <2>2
<1>10. ASSUME NEW key \in CounterKey PROVE y.spent[key] = Kept(y, r, y.granted, key)
  <2>1. TrackerOfRow(r) \in Tracker /\ x.granted \subseteq RewardIx
    BY <1>t, RowType
  <2>2. x.spent[key] = Atomic!Charge(x.granted, key, TrackerOfRow(r), CustomerOfRow(r), x.day)
    BY DEF EnforcedSoFar, Kept
  <2>3. Kept(y, r, y.granted, key)
          = IF key.cap \in MatchedCaps(i, TrackerOfRow(r)) /\ key = KeyFor(x, r, key.cap)
            THEN AddUsage(x.spent[key], [amount |-> RecordedValue(i, TrackerOfRow(r)), count |-> 1])
            ELSE x.spent[key]
    <3>1. Atomic!Charge(x.granted \cup {i}, key, TrackerOfRow(r), CustomerOfRow(r), x.day)
            = IF key.cap \in MatchedCaps(i, TrackerOfRow(r)) /\ key = KeyOf(key.cap, CustomerOfRow(r), x.day)
              THEN AddUsage(x.spent[key], [amount |-> RecordedValue(i, TrackerOfRow(r)), count |-> 1])
              ELSE x.spent[key]
      <4>1. i \in RewardIx /\ x.granted \subseteq RewardIx /\ i \notin x.granted
        BY <1>0, <2>1
      <4>2. Atomic!Charge(x.granted \cup {i}, key, TrackerOfRow(r), CustomerOfRow(r), x.day)
            = IF key.cap \in MatchedCaps(i, TrackerOfRow(r)) /\ key = KeyOf(key.cap, CustomerOfRow(r), x.day)
              THEN AddUsage(Atomic!Charge(x.granted, key, TrackerOfRow(r), CustomerOfRow(r), x.day),
                            [amount |-> RecordedValue(i, TrackerOfRow(r)), count |-> 1])
              ELSE Atomic!Charge(x.granted, key, TrackerOfRow(r), CustomerOfRow(r), x.day)
        BY ONLY <2>1, <4>1, ChargeAdd
      <4> QED BY <2>2, <4>2, Zenon
    <3> QED BY ONLY <1>1, <3>1 DEF Kept, KeyFor
  <2>4. (key.cap \in MatchedCaps(i, TrackerOfRow(r)) /\ key = KeyFor(x, r, key.cap))
          <=> \E k \in MatchedCaps(i, TrackerOfRow(r)) : key = KeyFor(x, r, k)
    <3>1. ASSUME NEW k \in MatchedCaps(i, TrackerOfRow(r)) PROVE KeyFor(x, r, k).cap = k
      BY <1>0, <1>t, KeyForType
    <3> QED BY <3>1
  <2> QED BY <1>1, <2>3, <2>4 DEF Spends
<1>11. y.denied <=> Handled(y, D) # y.granted
  <2>1. i \notin Handled(x, D)
    BY <1>t DEF Handled
  <2>2. x.denied <=> Handled(x, D) # x.granted
    BY DEF EnforcedSoFar
  <2>3. Handled(x, D) = x.granted <=> Handled(y, D) = y.granted
    <3>1. Handled(x, D) = Handled(y, D) \ {i} /\ x.granted = y.granted \ {i}
      BY <1>0, <1>1, <1>2, <2>1
    <3> QED BY <1>1, <1>2, <3>1
  <2> QED BY <1>1, <2>2, <2>3
<1>12. y.day <= day
  BY <1>1 DEF EnforcedSoFar
<1>13. y.due \cup y.granted \subseteq D /\ y.due \cap y.granted = {}
  BY <1>t, <1>0, <1>1
<1> QED BY <1>t, <1>7, <1>8, <1>9, <1>10, <1>11, <1>12, <1>13 DEF EnforcedSoFar

\* Another lane's step does not touch the counters a lane has locked.
LEMMA OtherEnforcing ==
  ASSUME AtomicInv, NEW m \in Lane, pc'[m] = pc[m], job'[m] = job[m], txn'[m] = txn[m],
         pc[m] = "reserving" =>
           /\ progress'[CustomerOfRow(job[m])] = progress[CustomerOfRow(job[m])]
           /\ tracker'[CustomerOfRow(job[m])] = tracker[CustomerOfRow(job[m])],
         CountersStay(m)
  PROVE  Enforcing(m)'
<1> SUFFICES ASSUME pc[m] = "reserving", NEW x, NEW r, NEW D, x = txn'[m], r = job'[m], D = DueAfter(r)'
             PROVE  EnforcedSoFar(m, x, r, D)'
  BY DEF Enforcing
<1>1. TypeInv /\ r = job[m] /\ r \in Row /\ x = txn[m] /\ x \in Txn
  BY BusyRow DEF AtomicInv, CapInv, TypeInv, TypeOK
<1>2. D = DueAfter(r)
  BY <1>1, SameCustomer
<1>3. EnforcedSoFar(m, x, r, D)
  BY <1>1, <1>2 DEF AtomicInv, Enforcing
<1> QED BY <1>3, EnforcedStays

\* What a lane in the middle of enforcement relies on.
LEMMA InTheMiddle ==
  ASSUME AtomicInv, NEW l \in Lane, pc[l] = "reserving"
  PROVE  \E x, r, D :
           /\ x = txn[l] /\ r = job[l] /\ D = DueAfter(r) /\ EnforcedSoFar(l, x, r, D)
           /\ r \in Row /\ IsTarget(r) /\ r \in Passing
           /\ JustCompleted(r) /\ Supported(TrackerOfRow(r))
           /\ x.cycles = CyclesAfter(r) /\ x.status = StatusAfter(r)
<1>1. PICK x, r, D : x = txn[l] /\ r = job[l] /\ D = DueAfter(r)
  OBVIOUS
<1>2. EnforcedSoFar(l, x, r, D)
  BY <1>1 DEF AtomicInv, Enforcing
<1>3. r \in Row
  BY <1>2 DEF EnforcedSoFar
<1>4. Held(l)
  BY DEF AtomicInv, EntryInv, LockInv
<1>5. /\ IsTarget(r) /\ r \in Passing /\ JustCompleted(r) /\ Supported(TrackerOfRow(r))
      /\ x.cycles = CyclesAfter(r) /\ x.status = StatusAfter(r)
  BY <1>1, <1>4 DEF Held
<1> QED BY <1>1, <1>2, <1>3, <1>5

LEMMA DueStays ==
  ASSUME NEW r \in Row, UNCHANGED <<progress, tracker>>
  PROVE  DueAfter(r)' = DueAfter(r)
BY SameCustomer

LEMMA AtomicInvStep == AtomicInv /\ [Next]_vars => AtomicInv'
<1> SUFFICES ASSUME AtomicInv, [Next]_vars PROVE AtomicInv'
  OBVIOUS
<1>0. AtomicInv /\ CapInv' /\ EntryInv' /\ TypeInv /\ TypeOK /\ TypeOK' /\ LockInv
  BY CapStep, EntryStep DEF AtomicInv, CapInv, EntryInv, LockInv, TypeInv
<1> SUFFICES \A m \in Lane : Enforcing(m)'
  BY <1>0 DEF AtomicInv
<1>d. day \in Nat /\ day' \in Nat
  BY <1>0 DEF TypeOK
<1>i. \A m \in Lane : pc'[m] # "reserving" => Enforcing(m)'
  BY DEF Enforcing
<1>c. ASSUME NEW m \in Lane, UNCHANGED <<counterLock, used>>, day <= day' PROVE CountersStay(m)
  BY <1>d, <1>c DEF CountersStay
\* A step that touches no transaction, counter or customer's rows.
<1>f. ASSUME UNCHANGED <<pc, job, txn, progress, tracker, counterLock, used>>, day <= day'
      PROVE  \A m \in Lane : Enforcing(m)'
  BY <1>c, <1>f, OtherEnforcing
\* A transaction that ends without a trace.
<1>e. ASSUME NEW l \in Lane, EndTxn(l), UNCHANGED <<progress, tracker, used, day>>
      PROVE  \A m \in Lane : Enforcing(m)'
  <2>1. pc'[l] = "idle"
    BY <1>0, <1>e, EndTxnElsewhere
  <2>2. ASSUME NEW m \in Lane, m # l PROVE Enforcing(m)'
    <3>1. pc'[m] = pc[m] /\ job'[m] = job[m] /\ txn'[m] = txn[m]
      BY <1>0, <1>e, <2>2, EndTxnElsewhere
    <3>2. CountersStay(m)
      BY <1>d, <1>e, <2>2 DEF EndTxn, CountersStay
    <3> QED BY <1>e, <3>1, <3>2, OtherEnforcing
  <2> QED BY <1>i, <2>1, <2>2
\* A lane that gets on with its own transaction: it locks a counter row that is free or its own.
<1>w. ASSUME NEW l \in Lane, pc[l] = "reserving", NEW y, NEW key \in CounterKey, Lockable(key, l),
             txn' = [txn EXCEPT ![l] = y], counterLock' = [counterLock EXCEPT ![key] = l],
             UNCHANGED <<pc, job, progress, tracker, used, day>>
      PROVE  /\ \A m \in Lane : m # l => Enforcing(m)'
             /\ CountersStay(l) /\ counterLock'[key] = l /\ txn'[l] = y
  <2>1. ASSUME NEW m \in Lane PROVE CountersStay(m)
    <3>1. ASSUME NEW c \in CounterKey, counterLock[c] = m PROVE counterLock'[c] = m
      BY <1>0, <1>w, <3>1, LaneAssumption DEF Lockable, TypeOK
    <3> QED BY <1>d, <1>w, <3>1 DEF CountersStay
  <2>2. ASSUME NEW m \in Lane, m # l PROVE Enforcing(m)'
    <3>1. txn'[m] = txn[m]
      BY <1>0, <1>w, <2>2 DEF TypeOK
    <3> QED BY <1>w, <2>1, <3>1, OtherEnforcing
  <2>3. counterLock'[key] = l /\ txn'[l] = y
    BY <1>0, <1>w DEF TypeOK
  <2> QED BY <2>1, <2>2, <2>3
<1> USE DEF dbVars, laneVars, boundVars
<1>1. ASSUME NEW s \in Submission, Ingest(s) PROVE \A m \in Lane : Enforcing(m)'
  BY <1>d, <1>f, <1>1 DEF Ingest
<1>2. ASSUME NEW l \in Lane, NEW r \in Row, Claim(l, r) PROVE \A m \in Lane : Enforcing(m)'
  <2>1. ASSUME NEW m \in Lane, m # l PROVE Enforcing(m)'
    <3>1. /\ pc'[m] = pc[m] /\ job'[m] = job[m] /\ txn'[m] = txn[m]
          /\ UNCHANGED <<progress, tracker, counterLock, used, day>>
      BY <1>0, <1>2, <2>1 DEF Claim, TypeOK
    <3> QED BY <1>c, <1>d, <3>1, OtherEnforcing
  <2>2. pc'[l] = "claimed"
    BY <1>0, <1>2 DEF Claim, TypeOK
  <2> QED BY <1>i, <2>1, <2>2
<1>3. ASSUME NEW r \in Row, SweepStale(r) PROVE \A m \in Lane : Enforcing(m)'
  BY <1>d, <1>f, <1>3 DEF SweepStale
<1>4. ASSUME NEW l \in Lane, SkipRow(l) PROVE \A m \in Lane : Enforcing(m)'
  BY <1>e, <1>4 DEF SkipRow
<1>6. ASSUME NEW l \in Lane, RejectConfig(l) PROVE \A m \in Lane : Enforcing(m)'
  BY <1>e, <1>6 DEF RejectConfig
<1>7. ASSUME NEW l \in Lane, OpenReservation(l) PROVE \A m \in Lane : Enforcing(m)'
  <2>0. UNCHANGED <<job, progress, tracker, counterLock, used, day>> /\ day <= day'
    BY <1>d, <1>7 DEF OpenReservation
  <2>1. ASSUME NEW m \in Lane, m # l PROVE Enforcing(m)'
    <3>1. pc'[m] = pc[m] /\ job'[m] = job[m] /\ txn'[m] = txn[m]
      BY <1>0, <1>7, <2>1 DEF OpenReservation, TypeOK
    <3> QED BY <1>c, <2>0, <3>1, OtherEnforcing
  <2>2. Enforcing(l)'
    <3> SUFFICES ASSUME NEW x, NEW r, NEW D, x = txn'[l], r = job'[l], D = DueAfter(r)'
                 PROVE  EnforcedSoFar(l, x, r, D)'
      BY DEF Enforcing
    <3>1. r \in Row /\ r = job[l]
      BY <1>0, <1>7, <2>0, BusyRow DEF OpenReservation, MayAdvance, CanLock
    <3>2. D = DueAfter(r) /\ D \subseteq RewardIx
      BY <2>0, <3>1, DueStays, DueAfterType
    <3>3. x = Opened(r) /\ x \in Txn
      BY <1>0, <1>7, <3>1 DEF OpenReservation, TypeOK
    <3>4. EnforcedSoFar(l, x, r, D)
      BY <1>d, <3>1, <3>2, <3>3, EnforcedAtOpening DEF Opened
    <3>5. CountersStay(l)
      BY <1>c, <2>0
    <3> QED BY <3>4, <3>5, EnforcedStays
  <2> QED BY <2>1, <2>2
<1>8. ASSUME NEW l \in Lane, NEW i \in RewardIx, GrantReward(l, i) PROVE \A m \in Lane : Enforcing(m)'
  <2>0. /\ UNCHANGED <<pc, job, progress, tracker, counterLock, used, day>>
        /\ pc[l] = "reserving" /\ day <= day'
    BY <1>d, <1>8 DEF GrantReward
  <2>1. ASSUME NEW m \in Lane, m # l PROVE Enforcing(m)'
    <3>1. txn'[m] = txn[m]
      BY <1>0, <1>8, <2>1 DEF GrantReward, TypeOK
    <3> QED BY <1>c, <2>0, <3>1, OtherEnforcing
  <2>2. PICK x, r, D :
          x = txn[l] /\ r = job[l] /\ r \in Row /\ D = DueAfter(r) /\ EnforcedSoFar(l, x, r, D)
    BY <1>0, <2>0, InTheMiddle
  <2>3. ComesNext(x, i)
    BY <1>8, <2>2 DEF GrantReward, IsNextReward, ComesNext
  <2>4. ASSUME NEW k \in MatchedCaps(i, TrackerOfRow(r))
        PROVE  /\ counterLock[KeyFor(x, r, k)] = l
               /\ ~Breaches(k, AddUsage(used[KeyFor(x, r, k)], x.spent[KeyFor(x, r, k)]), i, TrackerOfRow(r))
    <3>1. k \in CapIx /\ k \in txn[l].checked
      BY <1>8, <2>2 DEF GrantReward, UncheckedCaps, MatchedCaps
    <3>2. CheckedIsLocked(l)
      BY <1>0 DEF AtomicInv, CapInv, LaneInv
    <3>3. /\ counterLock[TxnKey(l, k)] = l
          /\ ~Breaches(k, Seen(l, TxnKey(l, k)), i, TrackerOfRow(job[l]))
      BY <1>8, <3>1, <3>2 DEF CheckedIsLocked, GrantReward
    <3>4. KeyFor(x, r, k) = TxnKey(l, k)
      BY <2>2 DEF KeyFor, TxnKey
    <3> QED BY <2>2, <3>3, <3>4 DEF Seen
  <2>5. PICK spent : spent = SpendOn(l, i)
    OBVIOUS
  <2>6. Spends(x, r, i, spent)
    BY <2>2, <2>5 DEF Spends, SpendOn, TxnKey, KeyFor
  <2>7. PICK y : y = txn'[l] /\ y = WithGranted(x, i, spent) /\ y \in Txn
    BY <1>0, <1>8, <2>2, <2>5 DEF GrantReward, TypeOK
  <2>8. EnforcedSoFar(l, y, r, D)
    BY <2>2, <2>3, <2>4, <2>6, <2>7, EnforcedByGrant
  <2>9. EnforcedSoFar(l, y, r, D)'
    BY <1>c, <2>0, <2>8, EnforcedStays
  <2>10. y = txn'[l] /\ r = job'[l] /\ D = DueAfter(r)'
    BY <2>0, <2>2, <2>7, DueStays
  <2>11. Enforcing(l)'
    BY <2>9, <2>10 DEF Enforcing
  <2> QED BY <2>1, <2>11
<1>9. ASSUME NEW l \in Lane, NEW i \in RewardIx, NEW k \in CapIx, CheckCap(l, i, k)
      PROVE  \A m \in Lane : Enforcing(m)'
  <2>0. /\ UNCHANGED <<pc, job, progress, tracker, used, day>> /\ pc[l] = "reserving"
        /\ TxnKey(l, k) \in CounterKey /\ Lockable(TxnKey(l, k), l)
        /\ counterLock' = [counterLock EXCEPT ![TxnKey(l, k)] = l]
        /\ txn' = [txn EXCEPT ![l] = WithChecked(txn[l], k)]
    BY <1>0, <1>9, TxnKeyType DEF CheckCap, Needs
  <2>1. PICK y, key : y = WithChecked(txn[l], k) /\ key = TxnKey(l, k)
    OBVIOUS
  <2>2. (\A m \in Lane : m # l => Enforcing(m)') /\ CountersStay(l) /\ txn'[l] = y
    BY <1>w, <2>0, <2>1
  <2>3. PICK x, r, D :
          x = txn[l] /\ r = job[l] /\ r \in Row /\ D = DueAfter(r) /\ EnforcedSoFar(l, x, r, D)
    BY <1>0, <2>0, InTheMiddle
  <2>4. EnforcedSoFar(l, x, r, D)'
    BY <2>2, <2>3, EnforcedStays
  <2>5. /\ y.day = x.day /\ y.due = x.due /\ y.granted = x.granted /\ y.denied = x.denied
        /\ y.spent = x.spent /\ y \in Txn
    <3>1. x \in Txn /\ y \in Txn
      BY <1>0, <2>2, <2>3 DEF TypeOK
    <3>2. y = [x EXCEPT !.checked = x.checked \cup {k}]
      BY <2>1, <2>3 DEF WithChecked
    <3> QED BY <3>1, <3>2 DEF Txn
  <2>6. EnforcedSoFar(l, y, r, D)'
    BY <2>4, <2>5
       DEF EnforcedSoFar, InOrder, GrantsStand, DenialsStand, HadRoom, KeyFor, Kept, Handled, Before
  <2>7. r = job'[l] /\ D = DueAfter(r)'
    BY <2>0, <2>3, DueStays
  <2>8. Enforcing(l)'
    BY <2>2, <2>6, <2>7 DEF Enforcing
  <2> QED BY <2>2, <2>8
<1>10. ASSUME NEW l \in Lane, NEW i \in RewardIx, NEW k \in CapIx, DenyReward(l, i, k)
       PROVE  \A m \in Lane : Enforcing(m)'
  <2>0. /\ UNCHANGED <<pc, job, progress, tracker, used, day>> /\ pc[l] = "reserving"
        /\ TxnKey(l, k) \in CounterKey /\ Lockable(TxnKey(l, k), l)
        /\ counterLock' = [counterLock EXCEPT ![TxnKey(l, k)] = l]
        /\ txn' = [txn EXCEPT ![l] = WithDenied(txn[l], i)]
    BY <1>0, <1>10, TxnKeyType DEF DenyReward, Needs
  <2>1. PICK y, key : y = WithDenied(txn[l], i) /\ key = TxnKey(l, k)
    OBVIOUS
  <2>2. /\ \A m \in Lane : m # l => Enforcing(m)'
        /\ CountersStay(l) /\ counterLock'[key] = l /\ txn'[l] = y
    BY <1>w, <2>0, <2>1
  <2>3. PICK x, r, D :
          x = txn[l] /\ r = job[l] /\ r \in Row /\ D = DueAfter(r) /\ EnforcedSoFar(l, x, r, D)
    BY <1>0, <2>0, InTheMiddle
  <2>4. ComesNext(x, i)
    BY <1>10, <2>3 DEF DenyReward, Needs, IsNextReward, ComesNext
  <2>5. k \in MatchedCaps(i, TrackerOfRow(r))
    BY <1>10, <2>3 DEF DenyReward, Needs, IsNextCap, UncheckedCaps
  <2>6. KeyFor(x, r, k) = key
    BY <2>1, <2>3 DEF KeyFor, TxnKey
  <2>7. Breaches(k, AddUsage(used[KeyFor(x, r, k)], x.spent[KeyFor(x, r, k)]), i, TrackerOfRow(r))
    BY <1>10, <2>1, <2>3, <2>6 DEF DenyReward, Seen
  <2>8. y = WithDenied(x, i) /\ y \in Txn /\ counterLock'[KeyFor(x, r, k)] = l
    BY <1>0, <2>1, <2>2, <2>3, <2>6 DEF TypeOK
  <2>9. EnforcedSoFar(l, y, r, D)'
    BY <2>0, <2>2, <2>3, <2>4, <2>5, <2>7, <2>8, EnforcedByDenial
  <2>10. r = job'[l] /\ D = DueAfter(r)'
    BY <2>0, <2>3, DueStays
  <2>11. Enforcing(l)'
    BY <2>2, <2>9, <2>10 DEF Enforcing
  <2> QED BY <2>2, <2>11
\* A transaction that writes: it holds the counters it adds to.
<1>a. ASSUME NEW l \in Lane, Advancing(l) PROVE \A m \in Lane : Enforcing(m)'
  <2>0. PICK r \in Row : r = job[l]
    BY <1>0, <1>a, AdvancingIs
  <2>1. /\ Advance(r, CyclesAfter(r), StatusAfter(r)) /\ EndTxn(l)
        /\ \A m \in Lane : m # l /\ pc[m] = "reserving" => CustomerOfRow(job[m]) # CustomerOfRow(r)
    BY <1>0, <1>a, <2>0, AdvancingIs
  <2>2. pc'[l] = "idle" /\ day <= day'
    BY <1>0, <1>a, <1>d, <2>1, EndTxnElsewhere DEF Advancing, AdvanceRow, Commit
  <2>3. ASSUME NEW m \in Lane, m # l PROVE Enforcing(m)'
    <3>1. pc'[m] = pc[m] /\ job'[m] = job[m] /\ txn'[m] = txn[m]
      BY <1>0, <2>1, <2>3, EndTxnElsewhere
    <3>a. pc[m] = "reserving" => job[m] \in Row /\ CustomerOfRow(job[m]) \in Customer
      BY <1>0, BusyRow, RowType
    <3>2. pc[m] = "reserving" =>
            /\ progress'[CustomerOfRow(job[m])] = progress[CustomerOfRow(job[m])]
            /\ tracker'[CustomerOfRow(job[m])] = tracker[CustomerOfRow(job[m])]
      BY <1>0, <2>1, <2>3, <3>a, AdvanceElsewhere
    <3>3. ASSUME NEW key \in CounterKey, counterLock[key] = m
          PROVE  counterLock'[key] = m /\ used'[key] = used[key]
      <4>1. counterLock'[key] = m
        BY <2>1, <2>3, <3>3 DEF EndTxn
      <4>2. CASE AdvanceRow(l)
        BY <4>1, <4>2 DEF AdvanceRow
      <4>3. CASE Commit(l)
        <5>1. SpentIsLocked(l) /\ used[key] \in Usage
          BY <1>0 DEF AtomicInv, CapInv, LaneInv, TypeOK
        <5>2. txn[l].spent[key] = NoUsage
          BY <2>3, <3>3, <5>1 DEF SpentIsLocked
        <5>3. used'[key] = AddUsage(used[key], txn[l].spent[key])
          BY <4>3 DEF Commit
        <5> QED BY <4>1, <5>1, <5>2, <5>3, NoUsageNeutral
      <4> QED BY <1>a, <4>2, <4>3 DEF Advancing
    <3>4. CountersStay(m)
      BY <1>d, <2>2, <3>3 DEF CountersStay
    <3> QED BY <1>0, <3>1, <3>2, <3>4, OtherEnforcing
  <2> QED BY <1>i, <2>2, <2>3
<1>5. ASSUME NEW l \in Lane, AdvanceRow(l) PROVE \A m \in Lane : Enforcing(m)'
  BY <1>a, <1>5 DEF Advancing
<1>11. ASSUME NEW l \in Lane, Commit(l) PROVE \A m \in Lane : Enforcing(m)'
  BY <1>a, <1>11 DEF Advancing
<1>12. ASSUME NEW l \in Lane, DeadlockAbort(l) PROVE \A m \in Lane : Enforcing(m)'
  BY <1>e, <1>12 DEF DeadlockAbort
<1>13. ASSUME NEW l \in Lane, HandlerFails(l) PROVE \A m \in Lane : Enforcing(m)'
  BY <1>e, <1>13 DEF HandlerFails
<1>14. ASSUME NextDay PROVE \A m \in Lane : Enforcing(m)'
  BY <1>d, <1>f, <1>14 DEF NextDay
<1>15. ASSUME UNCHANGED vars PROVE \A m \in Lane : Enforcing(m)'
  BY <1>d, <1>f, <1>15 DEF vars
<1> QED
  BY <1>1, <1>2, <1>3, <1>4, <1>5, <1>6, <1>7, <1>8, <1>9, <1>10, <1>11, <1>12, <1>13, <1>14, <1>15
  DEF Next, Proceed

\* The refinement: a lane's commit handles its row; everything else a lane does is invisible.
OutcomeOf(status) == IF status \in {"pending", "processing"} THEN "open" ELSE status
Outcome == [r \in Row |-> OutcomeOf(rowStatus[r])]

\* The variables of the atomic specification other than the outcome of the rows.
abstractVars == <<progress, tracker, used, entries, day>>

LEMMA Invisible ==
  ASSUME UNCHANGED abstractVars, \A r \in Row : OutcomeOf(rowStatus'[r]) = OutcomeOf(rowStatus[r])
  PROVE  UNCHANGED Atomic!vars
<1>1. [r \in Row |-> IF rowStatus'[r] \in {"pending", "processing"} THEN "open" ELSE rowStatus'[r]]
        = [r \in Row |-> IF rowStatus[r] \in {"pending", "processing"} THEN "open" ELSE rowStatus[r]]
  BY DEF OutcomeOf
<1> QED BY <1>1 DEF Atomic!vars, abstractVars

\* What the atomic specification computes for a row is what the handler computes.
LEMMA SameHandling ==
  ASSUME NEW r \in Row
  PROVE  /\ Atomic!Targets(r) = SiblingTargets(r[1], r[2], progress[CustomerOfRow(r)])
         /\ Atomic!Cycles(r) = CyclesAfter(r) /\ Atomic!Completed(r) = JustCompleted(r)
         /\ Atomic!Status(r) = StatusAfter(r) /\ Atomic!Due(r) = DueAfter(r)
         /\ Atomic!CustomerOfRow(r) = CustomerOfRow(r) /\ Atomic!TrackerOfRow(r) = TrackerOfRow(r)
<1>1. Atomic!CustomerOfRow(r) = CustomerOfRow(r) /\ Atomic!TrackerOfRow(r) = TrackerOfRow(r)
  BY DEF Atomic!CustomerOfRow, Atomic!TrackerOfRow, CustomerOfRow, TrackerOfRow
<1>2. Atomic!Targets(r) = SiblingTargets(r[1], r[2], progress[CustomerOfRow(r)])
  BY <1>1, SameProgressRules DEF Atomic!Targets
<1>3. Atomic!Cycles(r) = CyclesAfter(r)
  BY <1>1, SameProgressRules DEF Atomic!Cycles, CyclesAfter
<1>4. Atomic!Completed(r) = JustCompleted(r)
  BY <1>3, SameProgressRules DEF Atomic!Completed, JustCompleted
<1>5. Atomic!Status(r) = StatusAfter(r)
  BY <1>1, <1>4, SameStatusRules, SameCardinality DEF Atomic!Status, StatusAfter, StatusBefore
<1>6. Atomic!Due(r) = DueAfter(r)
  BY <1>1, <1>4, <1>5, SameStatusRules DEF Atomic!Due, DueAfter
<1> QED BY <1>1, <1>2, <1>3, <1>4, <1>5, <1>6

\* A row in a lane's hands is open, and settles once.
LEMMA Settles ==
  ASSUME TypeOK, NEW r \in Row, rowStatus[r] = "processing", NEW status \in Settled, MarkRow(r, status)
  PROVE  Atomic!Settle(r, status)
<1> DEFINE before == [q \in Row |-> IF rowStatus[q] \in {"pending", "processing"} THEN "open" ELSE rowStatus[q]]
           after == [q \in Row |-> IF rowStatus'[q] \in {"pending", "processing"} THEN "open" ELSE rowStatus'[q]]
<1>1. before[r] = "open"
  OBVIOUS
<1>2. \A q \in Row : rowStatus'[q] = IF q = r THEN status ELSE rowStatus[q]
  BY DEF MarkRow, TypeOK
<1>3. after = [before EXCEPT ![r] = status]
  BY <1>2 DEF Settled
<1> QED BY <1>1, <1>3 DEF Atomic!Settle

\* Enforcement that is through is enforcement as the atomic specification states it.
LEMMA EnforcedIs ==
  ASSUME NEW l, NEW x, NEW r, NEW D, EnforcedSoFar(l, x, r, D), x.due = {}
  PROVE  /\ Atomic!Enforced(x.granted, D, TrackerOfRow(r), CustomerOfRow(r), x.day)
         /\ x.granted \in SUBSET D
         /\ x.denied <=> x.granted # D
<1>1. Handled(x, D) = D /\ x.granted \subseteq D
  BY DEF Handled, EnforcedSoFar
<1>2. ASSUME NEW i \in D
      PROVE  i \in x.granted <=> \A k \in MatchedCaps(i, TrackerOfRow(r)) : HadRoom(x, r, i, k)
  BY <1>1 DEF EnforcedSoFar, GrantsStand, DenialsStand
<1>3. ASSUME NEW i \in D
      PROVE  Atomic!Affordable(i, Before(x, i), TrackerOfRow(r), CustomerOfRow(r), x.day)
               <=> \A k \in MatchedCaps(i, TrackerOfRow(r)) : HadRoom(x, r, i, k)
  <2>1. \A k : Atomic!KeyOf(k, CustomerOfRow(r), x.day) = KeyFor(x, r, k)
    BY SameCapRules DEF KeyFor
  <2> QED BY <2>1, SameCapRules DEF Atomic!Affordable, HadRoom, Kept
<1>4. Atomic!Enforced(x.granted, D, TrackerOfRow(r), CustomerOfRow(r), x.day)
  BY <1>2, <1>3 DEF Atomic!Enforced, Before
<1>5. x.denied <=> x.granted # D
  BY <1>1 DEF EnforcedSoFar
<1> QED BY <1>1, <1>4, <1>5

\* The entries are those the atomic specification adds.
LEMMA SameEntries ==
  ASSUME NEW l \in Lane, NEW x, x = txn[l], NEW r, r = job[l]
  PROVE  Inserted(l) = Atomic!NewEntries(x.granted, CustomerOfRow(r), r[2], Len(x.cycles), x.day)
<1>1. \A i : EntryFor(l, i) = [customer |-> CustomerOfRow(r), component |-> r[2], cycle |-> Len(x.cycles),
                                code |-> Rewards[i].code, reward |-> i, day |-> x.day]
  BY DEF EntryFor
<1>2. \A e, g : SameReward(e, EntryFor(l, g)) <=>
         e.customer = CustomerOfRow(r) /\ e.component = r[2] /\ e.cycle = Len(x.cycles) /\ e.code = Rewards[g].code
  BY <1>1 DEF SameReward
<1>3. ASSUME NEW h, NEW g
      PROVE  SameReward(EntryFor(l, h), EntryFor(l, g)) <=> Rewards[h].code = Rewards[g].code
  <2>1. PICK e : e = EntryFor(l, h)
    OBVIOUS
  <2>2. /\ e.customer = CustomerOfRow(r) /\ e.component = r[2] /\ e.cycle = Len(x.cycles)
        /\ e.code = Rewards[h].code
    BY ONLY <1>1, <2>1
  <2> QED BY ONLY <1>2, <2>1, <2>2
<1>4. {g \in txn[l].granted :
         /\ \A e \in entries : ~SameReward(e, EntryFor(l, g))
         /\ \A h \in txn[l].granted : h < g => ~SameReward(EntryFor(l, h), EntryFor(l, g))}
        = {g \in x.granted :
              /\ \A e \in entries : ~(e.customer = CustomerOfRow(r) /\ e.component = r[2]
                                        /\ e.cycle = Len(x.cycles) /\ e.code = Rewards[g].code)
              /\ \A h \in x.granted : h < g => Rewards[h].code # Rewards[g].code}
  BY <1>2, <1>3
<1> QED BY <1>1, <1>4, Zenon DEF Inserted, Atomic!NewEntries

\* Handling a row, from what the handler has computed.
LEMMA Counts ==
  ASSUME TypeOK, NEW r \in Row, NEW d \in 0..day, NEW G \in SUBSET DueAfter(r),
         IsTarget(r), r \in Passing, JustCompleted(r) => Supported(TrackerOfRow(r)),
         Advance(r, CyclesAfter(r), StatusAfter(r)),
         Atomic!Enforced(G, DueAfter(r), TrackerOfRow(r), CustomerOfRow(r), d),
         used' = [key \in CounterKey |->
                    AddUsage(used[key], Atomic!Charge(G, key, TrackerOfRow(r), CustomerOfRow(r), d))],
         entries' = entries \cup Atomic!NewEntries(G, CustomerOfRow(r), r[2], Len(CyclesAfter(r)), d),
         rowStatus[r] = "processing",
         MarkRow(r, IF G = DueAfter(r) THEN "processed" ELSE "error"), day' = day
  PROVE  Atomic!Count(r, d)
<1>1. /\ r[2] \in Atomic!Targets(r)
      /\ Atomic!Cycles(r) = CyclesAfter(r) /\ Atomic!Completed(r) = JustCompleted(r)
      /\ Atomic!Status(r) = StatusAfter(r) /\ Atomic!Due(r) = DueAfter(r)
      /\ Atomic!CustomerOfRow(r) = CustomerOfRow(r) /\ Atomic!TrackerOfRow(r) = TrackerOfRow(r)
  BY SameHandling DEF IsTarget
<1>2. Atomic!Completed(r) => Atomic!Supported(Atomic!TrackerOfRow(r))
  BY <1>1, SameStatusRules
<1> DEFINE u == Atomic!CustomerOfRow(r)
           t == Atomic!TrackerOfRow(r)
           due == Atomic!Due(r)
<1>3. u = CustomerOfRow(r) /\ t = TrackerOfRow(r) /\ due = DueAfter(r)
  BY <1>1
<1>5. /\ progress' = [progress EXCEPT ![u][r[2]] = Atomic!Cycles(r)]
      /\ tracker' = [tracker EXCEPT ![u][t] = Atomic!Status(r)]
  BY <1>1, <1>3 DEF Advance
<1>6. used' = [key \in Atomic!CounterKey |-> Atomic!AddUsage(used[key], Atomic!Charge(G, key, t, u, d))]
  BY <1>3, SameCapRules
<1>7. PICK status \in Settled : status = IF G = due THEN "processed" ELSE "error"
  BY DEF Settled
<1>8. Atomic!Settle(r, status)
  <2>1. MarkRow(r, status)
    BY <1>3, <1>7
  <2> QED BY <2>1, Settles
<1>9. Atomic!Settle(r, IF G = due THEN "processed" ELSE "error")
  BY ONLY <1>7, <1>8 DEF Atomic!Settle
<1>10. G \in SUBSET due /\ Atomic!Enforced(G, due, t, u, d)
  BY <1>3
<1>11. entries' = entries \cup Atomic!NewEntries(G, u, r[2], Len(Atomic!Cycles(r)), d)
  BY <1>1, <1>3
<1>12. r \in Passing /\ day' = day
  OBVIOUS
<1>13. \E granted \in SUBSET due :
         /\ Atomic!Enforced(granted, due, t, u, d)
         /\ used' = [key \in Atomic!CounterKey |->
                       Atomic!AddUsage(used[key], Atomic!Charge(granted, key, t, u, d))]
         /\ entries' = entries \cup Atomic!NewEntries(granted, u, r[2], Len(Atomic!Cycles(r)), d)
         /\ Atomic!Settle(r, IF granted = due THEN "processed" ELSE "error")
  BY <1>6, <1>9, <1>10, <1>11 DEF Atomic!Settle
<1>14. r[2] \in Atomic!Targets(r) /\ (Atomic!Completed(r) => Atomic!Supported(t))
  BY <1>1, <1>2, <1>3
<1> QED BY ONLY <1>5, <1>12, <1>13, <1>14, Zenon DEF Atomic!Count

\* The step that commits the transaction of a row with rewards due ...
LEMMA CommitCounts ==
  ASSUME AtomicInv, NEW l \in Lane, Commit(l), rowStatus[job[l]] = "processing"
  PROVE  \E r \in Row : \E d \in 0..day : Atomic!Count(r, d)
<1>0. TypeOK /\ pc[l] = "reserving"
  BY DEF AtomicInv, CapInv, TypeInv, Commit
<1>1. PICK x, r, D :
        /\ x = txn[l] /\ r = job[l] /\ D = DueAfter(r) /\ EnforcedSoFar(l, x, r, D)
        /\ r \in Row /\ IsTarget(r) /\ r \in Passing
        /\ JustCompleted(r) /\ Supported(TrackerOfRow(r))
        /\ x.cycles = CyclesAfter(r) /\ x.status = StatusAfter(r)
  BY <1>0, InTheMiddle
<1>2. x.due = {}
  BY <1>1 DEF Commit
<1>3. /\ Atomic!Enforced(x.granted, D, TrackerOfRow(r), CustomerOfRow(r), x.day)
      /\ x.granted \in SUBSET D
      /\ x.denied <=> x.granted # D
  BY ONLY <1>1, <1>2, EnforcedIs
<1>4. x.day \in 0..day
  BY <1>0, <1>1 DEF EnforcedSoFar, Txn, TypeOK
<1>5. Advance(r, CyclesAfter(r), StatusAfter(r)) /\ day' = day
  BY <1>1 DEF Commit
<1>6. used' = [key \in CounterKey |->
                 AddUsage(used[key], Atomic!Charge(x.granted, key, TrackerOfRow(r), CustomerOfRow(r), x.day))]
  <2>1. \A key \in CounterKey :
          txn[l].spent[key] = Atomic!Charge(x.granted, key, TrackerOfRow(r), CustomerOfRow(r), x.day)
    BY <1>1 DEF EnforcedSoFar, Kept
  <2>2. used' = [key \in CounterKey |-> AddUsage(used[key], txn[l].spent[key])]
    BY DEF Commit
  <2> QED BY <2>1, <2>2
<1>7. entries' = entries \cup
        Atomic!NewEntries(x.granted, CustomerOfRow(r), r[2], Len(CyclesAfter(r)), x.day)
  <2>1. Inserted(l) = Atomic!NewEntries(x.granted, CustomerOfRow(r), r[2], Len(x.cycles), x.day)
    BY <1>1, SameEntries
  <2> QED BY <1>1, <2>1 DEF Commit
<1>8. MarkRow(r, IF x.granted = D THEN "processed" ELSE "error") /\ rowStatus[r] = "processing"
  <2>1. (IF txn[l].denied THEN "error" ELSE "processed") = IF x.granted = D THEN "processed" ELSE "error"
    BY <1>1, <1>3
  <2> QED BY <1>1, <2>1 DEF Commit
<1>9. Atomic!Count(r, x.day)
  <2>1. PICK G, d : G = x.granted /\ d = x.day
    OBVIOUS
  <2>2. Atomic!Count(r, d)
    BY ONLY <1>0, <1>1, <1>3, <1>4, <1>5, <1>6, <1>7, <1>8, <2>1, Counts
  <2> QED BY <2>1, <2>2
<1> QED BY <1>1, <1>4, <1>9

\* ... and the one that advances a row with none.
LEMMA AdvanceCounts ==
  ASSUME AtomicInv, NEW l \in Lane, AdvanceRow(l), rowStatus[job[l]] = "processing"
  PROVE  \E r \in Row : \E d \in 0..day : Atomic!Count(r, d)
<1>0. TypeOK /\ LockInv /\ Advancing(l)
  BY DEF AtomicInv, CapInv, TypeInv, EntryInv, Advancing
<1>1. PICK r \in Row : r = job[l]
  BY <1>0, AdvancingIs
<1>2. /\ IsTarget(r) /\ r \in Passing /\ DueAfter(r) = {}
      /\ JustCompleted(r) => Supported(TrackerOfRow(r))
      /\ Advance(r, CyclesAfter(r), StatusAfter(r)) /\ day' = day /\ used' = used /\ entries' = entries
      /\ MarkRow(r, "processed") /\ rowStatus[r] = "processing"
  BY <1>1 DEF AdvanceRow, MayAdvance
<1>3. 0 \in 0..day
  BY <1>0 DEF TypeOK
<1>4. Atomic!Enforced({}, DueAfter(r), TrackerOfRow(r), CustomerOfRow(r), 0)
  BY <1>2 DEF Atomic!Enforced
<1>5. used' = [key \in CounterKey |->
                 AddUsage(used[key], Atomic!Charge({}, key, TrackerOfRow(r), CustomerOfRow(r), 0))]
  <2>1. \A key \in CounterKey :
          AddUsage(used[key], Atomic!Charge({}, key, TrackerOfRow(r), CustomerOfRow(r), 0)) = used[key]
    BY <1>0, ChargeNone, NoUsageNeutral DEF TypeOK
  <2>2. used = [key \in CounterKey |-> used[key]]
    BY <1>0 DEF TypeOK
  <2> QED BY <1>2, <2>1, <2>2
<1>6. entries' = entries \cup Atomic!NewEntries({}, CustomerOfRow(r), r[2], Len(CyclesAfter(r)), 0)
  <2>1. Atomic!NewEntries({}, CustomerOfRow(r), r[2], Len(CyclesAfter(r)), 0) = {}
    BY DEF Atomic!NewEntries
  <2> QED BY <1>2, <2>1
<1>7. MarkRow(r, IF {} = DueAfter(r) THEN "processed" ELSE "error")
  BY <1>2
<1>8. {} \in SUBSET DueAfter(r)
  OBVIOUS
<1>9. Atomic!Count(r, 0)
  BY <1>0, <1>2, <1>3, <1>4, <1>5, <1>6, <1>7, <1>8, Counts
<1> QED BY <1>1, <1>3, <1>9

LEMMA SkipSkips ==
  ASSUME AtomicInv, NEW l \in Lane, SkipRow(l), rowStatus[job[l]] = "processing"
  PROVE  \E r \in Row : Atomic!Skip(r)
<1>0. TypeOK /\ pc[l] # "idle" /\ TypeInv
  BY DEF AtomicInv, CapInv, TypeInv, SkipRow, CanLock
<1>1. PICK r \in Row : r = job[l]
  BY <1>0, BusyRow
<1>2. Atomic!Targets(r) # {r[2]} \/ r \notin Passing
  BY <1>1, SameHandling DEF SkipRow, NotTarget
<1>3. Atomic!Settle(r, "processed")
  <2>1. "processed" \in Settled /\ MarkRow(r, "processed")
    BY <1>1 DEF SkipRow, Settled
  <2> QED BY <1>0, <1>1, <2>1, Settles
<1>4. Atomic!Skip(r)
  BY <1>2, <1>3 DEF Atomic!Skip, SkipRow, dbVars
<1> QED BY <1>1, <1>4

LEMMA IngestAccepts ==
  ASSUME TypeOK, NEW s \in Submission, Ingest(s)
  PROVE  Atomic!Accept(s)
<1> DEFINE before == [q \in Row |-> IF rowStatus[q] \in {"pending", "processing"} THEN "open" ELSE rowStatus[q]]
           after == [q \in Row |-> IF rowStatus'[q] \in {"pending", "processing"} THEN "open" ELSE rowStatus'[q]]
<1>1. after = [r \in Row |-> IF r[1] = s /\ before[r] = "absent" THEN "open" ELSE before[r]]
  BY DEF Ingest
<1>2. UNCHANGED <<progress, tracker, used, entries, day>>
  BY DEF Ingest, dbVars
<1> QED BY <1>1, <1>2, SameProgressRules DEF Atomic!Accept

\* Initial states map to initial states, steps to steps or stutters.
LEMMA AtomicStart == Init => Atomic!Init
<1> SUFFICES ASSUME Init PROVE Atomic!Init
  OBVIOUS
<1>1. [r \in Row |-> IF rowStatus[r] \in {"pending", "processing"} THEN "open" ELSE rowStatus[r]]
        = [r \in Row |-> "absent"]
  BY DEF Init
<1> QED BY <1>1, SameProgressRules, SameCapRules
        DEF Init, Atomic!Init, Atomic!NoStatus, NoStatus, Atomic!NoUsage, NoUsage

LEMMA AtomicStep ==
  ASSUME AtomicInv, [Next]_vars, ~MayOvertake
  PROVE  [Atomic!Next]_(Atomic!vars)
<1>0. TypeOK /\ \A l \in Lane : pc[l] # "idle" => rowStatus[job[l]] = "processing"
  BY DEF AtomicInv, EntryInv, RowsHeld, CapInv, TypeInv, BusyLanesHoldRows
<1> DEFINE Abstract == [Atomic!Next]_(Atomic!vars)
<1>r. Atomic!Row = Row
  BY SameProgressRules
<1> USE DEF abstractVars, dbVars, laneVars, boundVars
<1>q. ASSUME UNCHANGED abstractVars, UNCHANGED rowStatus PROVE Abstract
  BY <1>q, Invisible
<1>1. ASSUME NEW s \in Submission, Ingest(s) PROVE Abstract
  BY <1>0, <1>1, IngestAccepts DEF Atomic!Next
<1>2. ASSUME NEW l \in Lane, NEW r \in Row, Claim(l, r) PROVE Abstract
  <2>1. \A q \in Row : OutcomeOf(rowStatus'[q]) = OutcomeOf(rowStatus[q])
    BY <1>0, <1>2 DEF Claim, OutcomeOf, TypeOK
  <2> QED BY <1>2, <2>1, Invisible DEF Claim
<1>3. ASSUME NEW r \in Row, SweepStale(r) PROVE Abstract
  <2>1. \A q \in Row : OutcomeOf(rowStatus'[q]) = OutcomeOf(rowStatus[q])
    BY <1>0, <1>3 DEF SweepStale, OutcomeOf, TypeOK
  <2> QED BY <1>3, <2>1, Invisible DEF SweepStale
<1>4. ASSUME NEW l \in Lane, SkipRow(l) PROVE Abstract
  <2>1. rowStatus[job[l]] = "processing"
    BY <1>0, <1>4 DEF SkipRow, CanLock
  <2> QED BY <1>4, <1>r, <2>1, SkipSkips DEF Atomic!Next
<1>5. ASSUME NEW l \in Lane, AdvanceRow(l) PROVE Abstract
  <2>1. rowStatus[job[l]] = "processing"
    BY <1>0, <1>5 DEF AdvanceRow, MayAdvance, CanLock
  <2> QED BY <1>5, <1>r, <2>1, AdvanceCounts DEF Atomic!Next
<1>6. ASSUME NEW l \in Lane, RejectConfig(l) PROVE Abstract
  BY <1>q, <1>6 DEF RejectConfig
<1>7. ASSUME NEW l \in Lane, OpenReservation(l) PROVE Abstract
  BY <1>q, <1>7 DEF OpenReservation
<1>8. ASSUME NEW l \in Lane, NEW i \in RewardIx, GrantReward(l, i) PROVE Abstract
  BY <1>q, <1>8 DEF GrantReward
<1>9. ASSUME NEW l \in Lane, NEW i \in RewardIx, NEW k \in CapIx,
             CheckCap(l, i, k) \/ DenyReward(l, i, k)
      PROVE  Abstract
  BY <1>q, <1>9 DEF CheckCap, DenyReward
<1>10. ASSUME NEW l \in Lane, Commit(l) PROVE Abstract
  <2>1. rowStatus[job[l]] = "processing"
    BY <1>0, <1>10 DEF Commit
  <2> QED BY <1>10, <1>r, <2>1, CommitCounts DEF Atomic!Next
<1>11. ASSUME NEW l \in Lane, DeadlockAbort(l) PROVE Abstract
  BY <1>q, <1>11 DEF DeadlockAbort
<1>12. ASSUME NEW l \in Lane, HandlerFails(l) PROVE Abstract
  BY <1>q, <1>12 DEF HandlerFails
<1>13. ASSUME NextDay PROVE Abstract
  <2>1. [q \in Row |-> IF rowStatus'[q] \in {"pending", "processing"} THEN "open" ELSE rowStatus'[q]]
          = [q \in Row |-> IF rowStatus[q] \in {"pending", "processing"} THEN "open" ELSE rowStatus[q]]
    BY <1>13 DEF NextDay
  <2>2. Atomic!NextDay
    BY <1>13, <2>1 DEF NextDay, Atomic!NextDay
  <2> QED BY <2>2 DEF Atomic!Next
<1>14. ASSUME UNCHANGED vars PROVE Abstract
  BY <1>q, <1>14 DEF vars
<1> HIDE DEF Abstract
<1>15. Abstract
  BY <1>1, <1>2, <1>3, <1>4, <1>5, <1>6, <1>7, <1>8, <1>9, <1>10, <1>11, <1>12, <1>13, <1>14
     DEF Next, Proceed
<1> QED BY <1>15 DEF Abstract

\* Lanes, locks, rollbacks and the sweep are invisible: as long as no handler outlives the stale
\* timeout, each row is handled in one indivisible step, at the moment its transaction commits,
\* and a reward due is granted exactly when the counters left room for it at that moment.
THEOREM RowsAreAtomic ==
  ASSUME ~MayOvertake
  PROVE  Spec => ImplementsAtomic
<1>1. Spec => []AtomicInv
  BY AtomicInit, AtomicInvStep, PTL DEF Spec
<1>2. AtomicInv /\ [Next]_vars => [Atomic!Next]_(Atomic!vars)
  BY AtomicStep
<1>3. Init => Atomic!Init
  BY AtomicStart
<1> QED BY <1>1, <1>2, <1>3, PTL DEF Spec, ImplementsAtomic, Atomic!Spec
=============================================================================
