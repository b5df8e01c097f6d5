SPECIFICATION FairSpec
CONSTANTS
  horn = horn
  light = light
  h1 = h1
  h2 = h2
  q1 = q1
  q2 = q2
  None = None
  Fn = {horn, light}
  Momentary = {horn}
  Handler = {h1}
  Programmer = {q1, q2}
  Address <- MCAddress
  Retry = 1
  MaxCalls = 3
INVARIANTS CacheSound AddressWhole
PROPERTIES PulseEnds
CHECK_DEADLOCK FALSE
