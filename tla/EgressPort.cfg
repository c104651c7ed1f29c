CONSTANTS
  QueueNum = 3
  Room = 2

SPECIFICATION Spec

PROPERTY RoundRobin
