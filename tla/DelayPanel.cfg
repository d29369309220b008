\* A full delay of 3 steps, of which a dump takes 1 or more; a dump lamp
\* flashes for 3 periods of the flash timer.
CONSTANTS
  Full = 3
  DumpDelay = 2
  ResetTicks = 3
SPECIFICATION PanelSpec
INVARIANTS
  PanelTypeOK
  PanelShowsButtons
  LampsShowReport
  DumpSeen
PROPERTIES
  PressShown
