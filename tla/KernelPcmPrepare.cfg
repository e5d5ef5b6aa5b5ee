SPECIFICATION Spec
CONSTANTS
  CaptureUrbs = 2
  PlaybackUrbs = 2
  NPKT = 1
INVARIANT
  PrepareIsHarmless
