\* One input and the smallest delay that still ramps: full delay 2 msecs
\* (setpoint 2 bytes), dump 2 msecs, a quantum of 1 msec (2 bytes).
CONSTANTS
  NumInputs = 1
  BytesPerMsec = 2
  QuantumMsec = 1
  MsecPerSec = 2
  Fudge = 1
  ExitBytes = 2
  RingSize = 4
  FullDelay <- MCFullDelay
  DumpDelay <- MCDumpDelay
  Word = 5
  MaxCapture = 2
SPECIFICATION ScanSpec
INVARIANTS
  ScanTypeOK
PROPERTIES
  ReportSettles
  ExitReported
