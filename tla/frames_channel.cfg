\* Payloads that look like the beginning of a frame.
CONSTANTS
  MinSize = 5
  MaxSize = 8
  BufferLimit = 9
  PayloadSizes = {1, 2}
  PayloadValues = {1, 50}
  FrameBound = 3
  DamageBound = 1
  LineBound = 24
SPECIFICATION Spec
INVARIANTS BufferDrained OwedFramesArrive
PROPERTY FramesOnlyLost
