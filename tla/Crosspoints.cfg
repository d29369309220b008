\* Two inputs, OFF and one number below it, two outputs, one SAP client that
\* comes and goes.
CONSTANTS
  NumInputs = 2
  NumOutputs = 2
  Clients = {c1}
  MaxBelow = 1
SPECIFICATION Spec
INVARIANTS
  TypeOK
  RoutersAgree
  FileTracks
  ClientsCurrent
PROPERTIES
  SapEcho
