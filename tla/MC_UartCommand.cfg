\* Two clients and the portal share the line.
SPECIFICATION FairSpec
CONSTANTS
  w1 = w1
  w2 = w2
  i1 = i1
  i2 = i2
  Writers <- MCWriters
  Portal = Portal
  Nobody = Nobody
  Ids <- MCIds
  NoId = NoId
  MaxFrames = 3
INVARIANTS
  Safety
  QuietAnswerIsOwn
  QuietReplyIsTrue
PROPERTIES
  CallsReturn
