\* One URB of capture and two of playback for four: a START of playback can fail
\* half-way, and the streams can stop and run in any order.
SPECIFICATION Spec
CONSTANTS
  CaptureUrbs = 1
  PlaybackUrbs = 2
  NPKT = 1
INVARIANTS
  TypeOK
  RunningStreamKeepsItsUrbs
PROPERTIES
  KilledUrbsAreQuiet
  StoppedStreamDrains
