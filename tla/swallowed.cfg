SPECIFICATION Spec
CONSTANTS
  Conns <- RoleConns
  Epochs <- RoleEpochs
  NoConn = NoConn
  NoEpoch = NoEpoch
  RoomIds = {id}
  IPs = {ip}
  MaxSeq = 2
  Sizes = {1}
  MaxBufferedSignals = 2
  MaxBufferedSignalBytes = 2
  PeerDeadline = 1
  RoomMaxLifetime = 1
  RejoinTokenTtl = 1
  PeerConnectedGrace = 0
  ReleaseSocketsOnPeerConnected = TRUE
  MaxDials = 3
  MaxAsks = 3
  MaxGens = 4
  MaxCands = 1
  Trickling <- FirstHostPeer
  MaxFaults = 1
  Faults = {"reload"}
  Solo = {}
INVARIANT FreshSignalsPass
CHECK_DEADLOCK FALSE
