SPECIFICATION PromoSpec
CONSTANTS
  e1 = e1
  e2 = e2
  a1 = a1
  a2 = a2
  None = None
  Entry = {e1, e2}
  Unconnected = {}
  Worker = {w1}
  Sweeper = {}
  createdAt <- MCCreatedAt
  maxAttempts <- MCMaxAttempts
  Reference = {code1, code2}
  MaxFaults = 1
  Correlation = {a1, a2}
  corrOf <- MCCorrOf
  channel <- MCChannel
  Handler = {h1, h2}
  MaxRetryAttempts = 2
  MaxPublishAttempts = 1
SYMMETRY MCSymmetry
INVARIANTS ReferenceIsOwnCode
PROPERTY IsARedemption
CHECK_DEADLOCK FALSE
