SPECIFICATION Spec
CONSTANTS
  u1 = u1
  u2 = u2
  c1 = c1
  c2 = c2
  Maker = {u1}
  Checker = {u3}
  Admin = {a1}
  Runtime = {}
  Content = {blank, c1}
  Complete = {c1}
  Blank = blank
  AuditMayFail = TRUE
  MaxRequests = 2
INVARIANT EventsWereReached
CHECK_DEADLOCK FALSE
