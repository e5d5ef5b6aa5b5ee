SPECIFICATION Spec
CONSTANTS
  AudioPipes = {}
  Tries = 2
  Busy = {}
  Refusable = {}
  UnplugStatuses = {"nodev"}
PROPERTIES
  ExitsWhenTheDeviceDisappears
