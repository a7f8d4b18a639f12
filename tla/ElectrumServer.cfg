CONSTANTS
  talker = talker
  silent = silent
  Peers = {talker, silent}
  TalkerLines = 1
  MaxLines <- LineBound
  Kinds <- LineKinds
  Statuses = {s1, s2, big}
  Popular = {big}
  NoStatus = NoStatus
  Exit = Exit
  Capacity = 1
  MaxPending = 1
CHECK_DEADLOCK FALSE
SPECIFICATION Spec
INVARIANTS
  StoppedMeansEnded
PROPERTIES
  StopsUnless
  EndedForgotten
  SubscriberHears
  ClosedEnds
