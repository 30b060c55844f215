SPECIFICATION Spec
CONSTANTS
  Waiters = {w1, w2}
  Names = {server, like}
  NoName = none
  SystemServer = server
  SystemServerLike = {server, like}
  Pids = {1, 2}
  SystemPid = 1
  ObserverFlag = {TRUE, FALSE}
  MaxRetries = 1
  RingCapacity = 2
  MaxStarts = 1
INVARIANTS
  TypeOK
  ResolvedIsTarget
  NoStartMissed
PROPERTY
  ResolutionEnds
