CONSTANTS
  Cam = {c1, c2}
  QueueMax = 1
  Stride = 2
  MaxFrames = 2
SPECIFICATION FairSpec
INVARIANTS CaptureOrder
PROPERTIES StopDrains EveryCameraChecked
