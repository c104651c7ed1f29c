CONSTANTS
  Switch <- MCSwitch
  Host <- MCHost
  ToR <- MCToR
  UpPort <- MCUpPort
  Flow <- MCFlow
  Path <- MCPath
  Tree <- MCTree
  Dist <- MCDist
  WireCap = 1
  PauseTh = 0
  ResumeTh = 1
  Configuration <- MCTwo
  Congested = {}

SPECIFICATION Spec
CHECK_DEADLOCK FALSE

INVARIANTS
  TreesReleased
