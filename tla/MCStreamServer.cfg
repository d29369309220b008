\* Two sockets; a read of 3 characters ends inside and between commands.
CONSTANTS
  Sockets = {c1, c2}
  NoSocket = nobody
  Scripts <- MCScripts
  ReadSize = 3
  CloseTicks = 1
  DropTicks = 3
SPECIFICATION FairSpec
INVARIANTS
  TypeOK
  SlotsMapped
  CommandsAsSent
  AnsweredOnce
  GarbageTimed
PROPERTIES
  StaysConnected
  GoneCollected
