\* As in MCStreamServer.cfg.
CONSTANTS
  Sockets = {c1, c2}
  NoSocket = nobody
  Scripts <- MCScripts
  ReadSize = 3
  CloseTicks = 1
  DropTicks = 3
SPECIFICATION Spec
INVARIANTS
  AppletHeard
