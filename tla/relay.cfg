CONSTANTS
  c1 = c1  c2 = c2  c3 = c3  e1 = e1  e2 = e2
  Conns = {c1, c2, c3}
  NoConn = NoConn
  Epochs = {e1, e2}
  NoEpoch = NoEpoch
  RoomIds = {"r"}
  NoId = NoId
  IPs = {"ip"}
  IpOf <- OneIp
  MaxSeq = 2
  Sizes = {1}
  MaxBufferedSignals = 2
  MaxBufferedSignalBytes = 2
  PeerDeadline = 1
  RoomMaxLifetime = 2
  RejoinTokenTtl = 2
  PeerConnectedGrace = 1
  ReleaseSocketsOnPeerConnected = TRUE
  MaxConnectionsGlobal = 3
  MaxRoomsGlobal = 1
  MaxRoomsPerIp = 1
  MaxPasswordAttempts = 1
  TombstoneTtl = 2
  Passwords = {FALSE}
  MaxObjs = 1
  MaxPipelined = 1
  MaxBusy = 1
  MaxTime = 0
SPECIFICATION RelaySpec
SYMMETRY ConnsAndEpochs
INVARIANTS RelayOrder EpochNews BufferBounded
CHECK_DEADLOCK FALSE
