SPECIFICATION Spec
CONSTANTS
  Version = {v1}
  Approved = v1
  Handler = {h1}
  Warmer = {w1}
  Poller = poller
  Stream = {s1, s2}
  None = None
  MaxChanges = 3
  MaxFaults = 1
PROPERTY ResumedMatches
