CONSTANTS
  c1 = c1  c2 = c2  e1 = e1
  Conns = {c1, c2}
  NoConn = NoConn
  Epochs = {e1}
  NoEpoch = NoEpoch
  RoomIds = {"r"}
  NoId = NoId
  IPs = {"ip"}
  IpOf <- OneIp
  MaxSeq = 0
  Sizes = {1}
  MaxBufferedSignals = 1
  MaxBufferedSignalBytes = 1
  PeerDeadline = 1
  RoomMaxLifetime = 1
  RejoinTokenTtl = 2
  PeerConnectedGrace = 0
  ReleaseSocketsOnPeerConnected = TRUE
  MaxConnectionsGlobal = 3
  MaxRoomsGlobal = 1
  MaxRoomsPerIp = 2
  MaxPasswordAttempts = 1
  TombstoneTtl = 2
  Passwords = {FALSE}
  MaxObjs = 2
  MaxPipelined = 2
  MaxBusy = 1
  MaxTime = 1
SPECIFICATION FairSpec
PROPERTIES RoomsEnd
CHECK_DEADLOCK FALSE
