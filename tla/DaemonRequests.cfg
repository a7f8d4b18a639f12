CONSTANTS
  Main = main
  Handlers = {h1}
  NoThread = NoThread
CHECK_DEADLOCK FALSE
SPECIFICATION Spec
INVARIANTS
  LocksHeld
  NoStrayReply
PROPERTIES
  CalmOnce
  RequestEnds
  InterruptHeard
