CONSTANTS
  Msg <- Two
  Size <- ThreeTwo
  WireCap = 4
  Configuration <- Both

SPECIFICATION FairSpec
CHECK_DEADLOCK FALSE

INVARIANTS
  TypeOK
  AckedDelivered
PROPERTIES
  Refines
  LosslessFinishes
