\* As in DelayLamps.cfg.
CONSTANTS
  Full = 3
  DumpDelay = 2
  ResetTicks = 3
SPECIFICATION Spec
INVARIANTS
  DumpLampLit
