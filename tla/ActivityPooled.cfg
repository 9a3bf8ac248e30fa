SPECIFICATION Spec
CONSTANTS
  Lane = {l1, l2}
  NoLane = NoLane
  NoRow = NoRow
  u1 = u1
  u2 = u2
  s1 = s1
  s2 = s2
  s3 = s3
  s4 = s4
  cA = cA
  cB = cB
  cC = cC
  tr = tr
  tq = tq
  buy = buy
  visit = visit
  spend = spend
  Customer = {u1, u2}
  Submission = {s1, s2, s3}
  Component = {cA}
  Tracker = {tr}
  Activity = {buy}
  customerOf <- PooledOwner
  performed <- SiblingActivity
  boundTo <- SiblingBinding
  trackerOf <- SiblingTracker
  sequenceOrder <- SingleComponentOrder
  requiredCount <- OnceEach
  completionLogic <- AnyLogic
  completionThreshold <- NoThreshold
  Passing <- AllPass
  Rewards <- PooledRewards
  Caps <- PooledCaps
  LastDay = 1
  MayOvertake = FALSE
  MaxFaults = 1
  MaxSweeps = 0
INVARIANTS
  CeilingsRespected
  CountersMatchEntries
  RewardOrBreach
PROPERTIES
  ImplementsAtomic
