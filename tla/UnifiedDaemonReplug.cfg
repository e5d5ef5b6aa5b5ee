SPECIFICATION Spec
CONSTANTS
  ArmSteps = 8
  Pumps = 5
INVARIANT
  PreconditionIsAlwaysMet
