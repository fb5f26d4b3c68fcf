CONSTANTS
  r1 = r1 r2 = r2 r3 = r3 a1 = a1 a2 = a2
  Rooms <- SmallRooms
  Ips <- SmallIps
  TombCap = 2
  TombTtl = 1
  BucketCap = 1
  Rate = 1
  Cost = 2
  Burst = 4
  CountCap = 1
  MaxPerIp = 2
  MaxTime = 4
  MaxCalls = 7
SPECIFICATION Spec
SYMMETRY RoomsAndIps
CHECK_DEADLOCK FALSE
INVARIANTS TypeOK TombstoneKept LimiterExact ChargeExact
