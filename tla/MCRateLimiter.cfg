CONSTANTS
  Hosts = {h1, h2}
  PerHostRps = 1
  Ratio = 4
  Burst = 1
  EnableAdaptive = TRUE
  FullGain = 2700
  SubTicks = 194400
  Averages = {3, 4, 10}
  Uptime = 240
  MaxAcquires = 5
  MaxTicks = 3
  MaxLatencies = 5
  MaxResets = 1
SPECIFICATION Spec
INVARIANTS TypeOK HostRateBounded FirstComeFirstServed
CHECK_DEADLOCK FALSE
SYMMETRY HostSymmetry
