\* One input.
\* 2 bytes a msec, a quantum of 2 msecs (4 bytes), a "second" of 2 msecs: full
\* delay 6 msecs (setpoint 10 bytes), dump 2 msecs (4 bytes, a full quantum, so
\* that a dump may find nothing to cut as it does with DumpDelay=0).
CONSTANTS
  NumInputs = 1
  BytesPerMsec = 2
  QuantumMsec = 2
  MsecPerSec = 2
  Fudge = 1
  ExitBytes = 2
  RingSize = 12
  FullDelay <- MCFullDelay
  DumpDelay <- MCDumpDelay
  Word = 16
  MaxCapture = 3
SPECIFICATION FairSpec
INVARIANTS
  TypeOK
  BufferBounds
  StateMatchesInterval
PROPERTIES
  DumpExact
  ExitObeyed
  EnterObeyed
  DumpServed
  ImplementsDelayLine
