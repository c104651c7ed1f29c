CONSTANTS
  Msg <- One
  Size <- Three
  WireCap = 3
  Configuration <- OneDrop

SPECIFICATION FairSpec
CHECK_DEADLOCK FALSE

PROPERTY DropsRecovered
