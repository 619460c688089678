\* Both logs: overlapping polls, a reboot or a page load.
SPECIFICATION Spec
CONSTANTS
  q1 = q1
  q2 = q2
  Polls <- MCTwoPolls
  RingSize = 3
  Lens <- MCLens
  StartLen = 2
  HeaderLen = 5
  TagLen = 3
  Limit = 44
  MaxSeq = 5
  MaxResets = 1
SYMMETRY PollSymmetry
INVARIANTS
  Safety
  NothingSkipped
PROPERTIES
  CursorNotBlocked
