\* More addresses than entries: entries are given up. The clock stops at MaxTime: no deadlock check.
SPECIFICATION LimiterSpec
CONSTANTS
  a1 = a1
  a2 = a2
  a3 = a3
  s1 = s1
  s2 = s2
  Ips <- MCIps
  NoIp = NoIp
  RlSlots = 2
  MaxFails = 3
  Window = 2
  Handshakes <- MCHandshakes
  MaxTime = 6
CHECK_DEADLOCK FALSE
SYMMETRY IpSlotSymmetry
INVARIANTS
  LimiterSafety
PROPERTIES
  BlockKept
