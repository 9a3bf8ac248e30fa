SPECIFICATION Spec
CONSTANTS
  u1 = u1
  u2 = u2
  c1 = c1
  c2 = c2
  Maker = {u1, u2}
  Checker = {u1, u2}
  Admin = {a1}
  Runtime = {svc}
  Content = {blank, c1, c2}
  Complete = {c1, c2}
  Blank = blank
  AuditMayFail = TRUE
  MaxRequests = 2
SYMMETRY MCSymmetry
INVARIANTS LiveWasReviewed DecisionsAreWhole ReviewStands
PROPERTIES SettledStays FollowsLifecycle
\* Calls can be made for ever, but a campaign whose last request expired stays where it is.
CHECK_DEADLOCK FALSE
