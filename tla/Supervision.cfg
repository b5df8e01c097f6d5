SPECIFICATION FairSpec
CONSTANTS
  l1 = l1
  l2 = l2
  s1 = s1
  p1 = p1
  p2 = p2
  None = None
  Layout = {l1, l2}
  Station = {s1}
  Port = {1, 2}
  Proc = {p1, p2}
  MaxCalls = 3
INVARIANTS PortsSound StandsAtExit
PROPERTIES ProgramComesUp
CHECK_DEADLOCK FALSE
