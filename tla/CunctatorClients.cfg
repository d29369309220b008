\* A full delay of 3 steps: a ramp up takes two reports at least.
CONSTANTS
  Full = 3
SPECIFICATION ClientsSpec
INVARIANTS
  ClientsTypeOK
  FileCurrent
  EnteredIsSaved
  ClientsCurrent
PROPERTIES
  DelayRestored
