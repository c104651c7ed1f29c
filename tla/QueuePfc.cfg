CONSTANTS
  S1 = S1
  S2 = S2
  Switch <- Switches
  Host <- Hosts
  NextHop <- Route
  Flow <- Flows
  FlowSrc <- Src
  FlowDst <- DstOf
  QueueNum = 3
  Configuration <- MCSettings

SPECIFICATION Spec
CHECK_DEADLOCK FALSE

INVARIANTS
  PauseAgreement
  InOrder
  NoStall
