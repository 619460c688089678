SPECIFICATION Spec
CONSTANTS
  Crc <- Crc8Buf
  Frames <- MCFrames
  MaxFrame = 9
  MaxBody = 2
  Noise = {0, 85}
  MaxDisturbed = 3
  MaxConnects = 1
INVARIANTS
  Safety
  WholeFrames
  InStepDelivered
