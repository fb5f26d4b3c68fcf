SPECIFICATION Spec
CONSTANTS
  Conns <- RoleConns
  Epochs <- RoleEpochs
  NoConn = NoConn
  NoEpoch = NoEpoch
  RoomIds = {id}
  IPs = {ip}
  MaxSeq = 2
  Sizes = {1}
  MaxBufferedSignals = 1
  MaxBufferedSignalBytes = 2
  PeerDeadline = 1
  RoomMaxLifetime = 1
  RejoinTokenTtl = 1
  PeerConnectedGrace = 0
  ReleaseSocketsOnPeerConnected = TRUE
  MaxDials = 3
  MaxAsks = 4
  MaxGens = 4
  MaxCands = 1
  Trickling <- FirstHostPeer
  MaxFaults = 2
  Faults = {"reload", "restart", "drop", "death", "expiry", "lockout"}
  Solo = {"restart", "expiry", "lockout"}
INVARIANTS TypeOK QuietMatched
CHECK_DEADLOCK FALSE
