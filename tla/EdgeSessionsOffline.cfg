CONSTANTS
  Session = {s1, s2}
  NoSession = NoSession
  Cam = {c1}
  WireMax = 1
  SignalsMax = 1
  OutboxMax = 1
SPECIFICATION FairSpec
PROPERTY DeliveringIsOnline
