CONSTANTS
  Frames <- SmallFrames
  MaxFrameLen = 2
  ReadChunk = 2
  MaxSent = 3
  Pipelined = {0, 2}
SPECIFICATION FairSpec
CHECK_DEADLOCK FALSE
INVARIANTS TypeOK DispatchExact
PROPERTIES AllServed GoneNoticed
