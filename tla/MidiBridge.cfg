SPECIFICATION Spec
CONSTANTS
  AudioPipes = {"iso"}
  Tries = 2
  Busy = {"audio", "midi", "hid"}
  Refusable = {"iso", "midi", "hid"}
  UnplugStatuses = {"error", "nodev"}
INVARIANTS
  TypeOK
  PipesStayOpen
  NothingInFlightAtClose
PROPERTIES
  QuitEndsTheBridge
  ReplugIsRearmed
