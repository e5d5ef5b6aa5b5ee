SPECIFICATION Spec
CONSTANTS
  Control = {fader, eq}
  Value = {left, right}
  MaxEvents = 1
  Client = {c128, c129}
  Asked = {c128, "auto"}
  KernelPort = TRUE
INVARIANTS
  TypeOK
  SavedIsKept
  ReviewShowsThisCapture
PROPERTIES
  RecordsChangeOnlyByChoice
  ReaderComesBack
