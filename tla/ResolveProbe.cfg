SPECIFICATION Spec
CONSTANTS
  Waiters = {w1, w2}
  Names = {server, like}
  NoName = none
  SystemServer = server
  SystemServerLike = {server, like}
  Pids = {1, 2}
  SystemPid = 1
  ObserverFlag = {FALSE}
  MaxRetries = 0
  RingCapacity = 2
  MaxStarts = 2
SYMMETRY WaiterSymmetry
INVARIANT
  ProbedWhilePolling
