\* Overlapping polls, one reboot, telegrams at any time.
SPECIFICATION RingSpec
CONSTANTS
  q1 = q1
  q2 = q2
  Polls <- MCTwoPolls
  None = None
  RingSize = 3
  MaxSeq = 5
  MaxReboots = 1
SYMMETRY PollSymmetry
INVARIANTS
  RingSafety
  DumpComplete
  QuietNothingLost
