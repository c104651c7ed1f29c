CONSTANTS
  K = K
  A = A
  T1 = T1
  T2 = T2
  T3 = T3
  T4 = T4
  Switch <- Switches
  Host <- Hosts
  ToR <- ToRs
  Core <- Cores
  Down <- Below
  NextHop <- Route
  Flow <- Flows
  FlowSrc <- Src
  FlowDst <- Dst
  APHash <- Hash
  Configuration <- Settings

SPECIFICATION Spec
CHECK_DEADLOCK FALSE

INVARIANTS
  TypeOK
  WindowConserved
  InOrder
  VoqAccounting
  HeadLacksWindow
  NoStall
  PsnOrder
  UnderwayNotReceived
PROPERTY SynSettles
