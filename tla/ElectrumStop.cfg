CONSTANTS
  talker = talker
  silent = silent
  Peers = {talker, silent}
  TalkerLines = 1
  MaxLines <- LineBound
  Kinds <- LineKinds
  Statuses = {s1}
  Popular = {}
  NoStatus = NoStatus
  Exit = Exit
  Capacity = 1
  MaxPending = 1
CHECK_DEADLOCK FALSE
SPECIFICATION Spec
PROPERTY StopsWhenDropped
