\* Two inputs, sizes as in MCAudioDelay.cfg.
CONSTANTS
  NumInputs = 2
  BytesPerMsec = 2
  QuantumMsec = 2
  MsecPerSec = 2
  Fudge = 1
  ExitBytes = 2
  RingSize = 12
  FullDelay <- MCFullDelay
  DumpDelay <- MCDumpDelay
  Word = 16
  MaxCapture = 3
SPECIFICATION Spec
PROPERTIES
  ExitedNeverSlowed
