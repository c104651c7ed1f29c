CONSTANTS
  Switch <- MCSwitch
  Host <- MCHost
  ToR <- MCToR
  UpPort <- MCUpPort
  Flow <- MCFlow
  Path <- MCPath
  Tree <- MCTree
  Dist <- MCDist
  WireCap = 1
  PauseTh = 0
  ResumeTh = 1
  Configuration <- MCTwoOne
  Congested <- MCRootD1

SPECIFICATION FairSpec
CHECK_DEADLOCK FALSE

PROPERTIES
  Isolation
