CONSTANTS
  c1 = c1  c2 = c2  c3 = c3  e1 = e1
  Conns = {c1, c2, c3}
  NoConn = NoConn
  Epochs = {e1}
  NoEpoch = NoEpoch
  RoomIds = {"r"}
  NoId = NoId
  IPs = {"ip"}
  IpOf <- OneIp
  MaxSeq = 0
  Sizes = {1}
  MaxBufferedSignals = 1
  MaxBufferedSignalBytes = 1
  PeerDeadline = 1
  RoomMaxLifetime = 2
  RejoinTokenTtl = 2
  PeerConnectedGrace = 0
  ReleaseSocketsOnPeerConnected = TRUE
  MaxConnectionsGlobal = 2
  MaxRoomsGlobal = 1
  MaxRoomsPerIp = 2
  MaxPasswordAttempts = 1
  TombstoneTtl = 2
  Passwords = {TRUE}
  MaxObjs = 2
  MaxPipelined = 1
  MaxBusy = 2
  MaxTime = 1
SPECIFICATION Spec
SYMMETRY ConnsOnly
INVARIANTS TypeOK ConnectionsCounted SessionSlotAgree RoomsWithinCap LockedOutRoomGone EpochNews
PROPERTIES GuestNotDisplaced
CHECK_DEADLOCK FALSE
