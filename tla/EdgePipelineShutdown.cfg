CONSTANTS
  Cam = {c1}
  QueueMax = 1
  Stride = 2
  MaxFrames = 2
SPECIFICATION FairSpec
PROPERTIES GracefulShutdown
