SPECIFICATION FairSpec
CONSTANTS
  e1 = e1
  e2 = e2
  e3 = e3
  None = None
  Entry = {e1, e2, e3}
  Unconnected = {e2}
  Worker = {w1, w2}
  Sweeper = {s1, s2}
  createdAt <- MCCreatedAt
  maxAttempts <- MCMaxAttempts
  Reference = {ref}
  MaxFaults = 1
INVARIANTS CallsBounded GrantedOnce RecordsAgree
PROPERTIES FinalStays EverythingSettles
CHECK_DEADLOCK FALSE
