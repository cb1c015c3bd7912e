CONSTANTS
  Url = {u1, u2}
  NoUrl = NoUrl
  Thread = {t1, t2}
  StaleTicks = 1
SPECIFICATION CamFairSpec
INVARIANT RunningHasReader
PROPERTIES FramesComeBack StoppedReadersEnd GoneGoesOffline StaleBufferGoesOffline
