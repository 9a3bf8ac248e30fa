SPECIFICATION Spec
CONSTANTS
  Lane = {l1, l2}
  NoLane = NoLane
  NoRow = NoRow
  u1 = u1
  u2 = u2
  s1 = s1
  s2 = s2
  s3 = s3
  s4 = s4
  cA = cA
  cB = cB
  cC = cC
  tr = tr
  tq = tq
  buy = buy
  visit = visit
  spend = spend
  Customer = {u1}
  Submission = {s1, s2}
  Component = {cA, cB}
  Tracker = {tr}
  Activity = {buy}
  customerOf <- SiblingOwner
  performed <- SiblingActivity
  boundTo <- SiblingBinding
  trackerOf <- SiblingTracker
  sequenceOrder <- SiblingOrder
  requiredCount <- TwiceEach
  completionLogic <- AllLogic
  completionThreshold <- NoThreshold
  Passing <- AllPass
  Rewards <- NoRewards
  Caps <- NoCaps
  LastDay = 0
  MayOvertake = FALSE
  MaxFaults = 0
  MaxSweeps = 0
INVARIANTS
  OneSiblingPerSubmission
