CONSTANTS
  Msg <- Two
  Size <- OneThree
  WireCap = 3
  Configuration <- Lossy

SPECIFICATION FairSpec
CHECK_DEADLOCK FALSE

INVARIANTS
  TypeOK
  NothingForgotten
PROPERTIES
  AckedStaysAcked
  Refines
  DropsFinish
