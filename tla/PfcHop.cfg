CONSTANTS
  Port <- MCPort
  Fine = {3}
  Queue <- MCQueue
  BufferSize <- MCBufferSize
  Reserve = 1
  ResumeOffset = 1
  Headroom <- MCHeadroom
  Alpha <- MCAlpha
  StaticTh <- MCStaticTh
  MaxQlen <- MCMaxQlen
  UintRange = 1000
  Packet <- MCPacket
  PfcQueue = {3}
  DstMode = {}
  CheckSharedBuffer = FALSE
  WireCap = 1
  FrameDelay = 1
  DownCap = 1

SPECIFICATION FairSpec

INVARIANTS
  TypeOK
  AccountingExact
  SharedAccounting
  SharedWithinBudget
  BufferNotExceeded
  PausedHoldsBytes
  FramesAlternate
  NoHeadroomDrop

PROPERTY PauseEnds
