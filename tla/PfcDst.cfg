CONSTANTS
  Port <- MCPort
  Fine <- MCFine
  Queue <- MCQueue
  BufferSize <- MCBufferSize
  Reserve = 1
  ResumeOffset = 2
  Headroom <- MCHeadroom
  Alpha <- MCAlpha
  StaticTh <- MCStaticTh
  MaxQlen <- MCMaxQlen
  UintRange = 1000
  Packet <- MCPacket
  PfcQueue = {3}
  DstMode = {1}
  CheckSharedBuffer = TRUE
  WireCap = 1
  FrameDelay = 1
  DownCap = 0

SPECIFICATION Spec

INVARIANT PausedHoldsBytes
