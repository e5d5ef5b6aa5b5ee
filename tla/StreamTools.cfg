\* Three transfers for eight: one in its callback, one cancelled, one not yet.
SPECIFICATION Spec
CONSTANTS
  NXFR = 3
  MaxData = 4
INVARIANTS
  TypeOK
  InflightIsExact
  ReportIsComplete
PROPERTIES
  ToolEnds
