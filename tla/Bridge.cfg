SPECIFICATION Spec
CONSTANTS
  Senders = {s1, s2}
  Waiters = {w1}
  Capacity = 3
  MaxEvents = 4
  MaxFaults = 1
  MaxToggles = 1
  MaxWaits = 1
SYMMETRY SenderSymmetry
INVARIANTS
  TypeOK
  SentOnceInOrder
  BufferedEventsCovered
  QueueFlushedAnswer
