SPECIFICATION Spec
CONSTANTS
  NXFR = 2
  NPKT = 2
  MaxPacket = 2
  PerPacket = 1
  RingFrames = 1
  Quantum = 2
INVARIANTS
  TypeOK
  ThreadsAreOutAtFree
  AtMostOneEscapes
  StreamKeepsItsTransfers
  InflightIsExact
PROPERTIES
  StopReturns
