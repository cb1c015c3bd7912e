CONSTANTS
  Cam = {c1}
  Thread = {t1, t2, t3}
  BannerTime = 3
  HideTime = 1
  IgnoreTime = 3
  Latency = 2
SPECIFICATION Spec
INVARIANTS BannerStays BannerGoes AlarmSounds FeedsAreCameras
