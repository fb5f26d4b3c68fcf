CONSTANTS
  c1 = c1  c2 = c2  e1 = e1
  Conns = {c1, c2}
  NoConn = NoConn
  Epochs = {e1}
  NoEpoch = NoEpoch
  RoomIds = {"r"}
  NoId = NoId
  IPs = {"ip"}
  IpOf <- OneIp
  MaxSeq = 0
  Sizes = {1}
  MaxBufferedSignals = 1
  MaxBufferedSignalBytes = 1
  PeerDeadline = 1
  RoomMaxLifetime = 2
  RejoinTokenTtl = 2
  PeerConnectedGrace = 1
  ReleaseSocketsOnPeerConnected = TRUE
  MaxConnectionsGlobal = 3
  MaxRoomsGlobal = 1
  MaxRoomsPerIp = 1
  MaxPasswordAttempts = 1
  TombstoneTtl = 2
  Passwords = {FALSE}
  MaxObjs = 1
  MaxPipelined = 1
  MaxBusy = 1
  MaxTime = 0
SPECIFICATION Spec
SYMMETRY ConnsOnly
INVARIANT NeverPanics
CHECK_DEADLOCK FALSE
