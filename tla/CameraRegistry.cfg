CONSTANTS
  MaxCam = 1
  Source = {webcam, rtsp}
  Webcam = webcam
  Setting = {factory, changed}
  Factory = factory
  Default = changed
  Nothing = Nothing
  OutboxMax = 2
  EditsMax = 3
SPECIFICATION Spec
INVARIANTS EdgeCanStart EditsReachFile EdgeFollowsServer
