\* As in Crosspoints.cfg.
CONSTANTS
  NumInputs = 2
  NumOutputs = 2
  Clients = {c1}
  MaxBelow = 1
SPECIFICATION Spec
INVARIANTS
  CicFollowsAudio
