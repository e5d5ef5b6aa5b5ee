SPECIFICATION Spec
CONSTANTS
  ArmSteps = 8
  Pumps = 5
INVARIANTS
  TypeOK
  SharedStateOutlivesItsUsers
  NothingInFlightAtClose
  GateIsOpen
PROPERTIES
  LoopLeadsToService
  StopEnds
