CONSTANTS
  Conn = {k1, k2, k3}
  NoConn = NoConn
  Cam = {c1}
  QueueMax = 1
  MaxItems = 2
  MaxFaults = 1
  HeartbeatInterval = 5
  FirstRetry = 1
  MaxRetry = 3
SPECIFICATION FairSpec
INVARIANTS TypeOK OneReceiverPerConnection
PROPERTIES ImplementsChannel OnlyFaultsDisconnect AlertLostOnlyWithConnection Reconnects QueueMoves
