SPECIFICATION FairSpec
CONSTANTS
  Lane = {l1, l2}
  NoLane = NoLane
  NoRow = NoRow
  u1 = u1
  u2 = u2
  s1 = s1
  s2 = s2
  s3 = s3
  s4 = s4
  cA = cA
  cB = cB
  cC = cC
  tr = tr
  tq = tq
  buy = buy
  visit = visit
  spend = spend
  Customer = {u1, u2}
  Submission = {s1, s2, s3}
  Component = {cA, cB}
  Tracker = {tr}
  Activity = {buy, visit}
  customerOf <- CrossedOwner
  performed <- CrossedActivity
  boundTo <- CrossedBinding
  trackerOf <- SiblingTracker
  sequenceOrder <- SiblingOrder
  requiredCount <- OnceEach
  completionLogic <- AllLogic
  completionThreshold <- NoThreshold
  Passing <- AllPass
  Rewards <- CrossedRewards
  Caps <- CrossedCaps
  LastDay = 0
  MayOvertake = TRUE
  MaxFaults = 0
  MaxSweeps = 1
INVARIANTS ProgressAccountsForRows
PROPERTIES EveryRowSettles
