CONSTANTS
  c1 = c1  c2 = c2  e1 = e1
  Conns = {c1, c2}
  NoConn = NoConn
  Epochs = {e1}
  NoEpoch = NoEpoch
  r1 = r1
  RoomIds = {r1}
  IPs = {"ip"}
  MaxSeq = 1
  Sizes = {1}
  MaxBufferedSignals = 1
  MaxBufferedSignalBytes = 1
  PeerDeadline = 1
  RoomMaxLifetime = 1
  RejoinTokenTtl = 1
  PeerConnectedGrace = 0
  ReleaseSocketsOnPeerConnected = TRUE
  NoId = NoId
  NoFile = NoFile
  QueueCap = 2
  BatchSize = 2
  MaxPasswordAttempts = 1
  HasPassword = TRUE
  MaxGens = 2
  MaxHandled = 2
  MaxTime = 2
SPECIFICATION FairSpec
INVARIANTS TypeOK FilesCatchUp
PROPERTIES SurvivesCrash StopReturns
