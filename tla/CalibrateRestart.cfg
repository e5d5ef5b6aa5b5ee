SPECIFICATION Spec
CONSTANTS
  Control = {fader}
  Value = {left}
  MaxEvents = 1
  Client = {c128, c129}
  Asked = {"auto"}
  KernelPort = FALSE
PROPERTY
  ReaderReconnects
