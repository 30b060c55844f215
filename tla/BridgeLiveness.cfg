SPECIFICATION FairSpec
CONSTANTS
  Senders = {s1, s2}
  Waiters = {}
  Capacity = 3
  MaxEvents = 4
  MaxFaults = 1
  MaxToggles = 1
  MaxWaits = 0
PROPERTIES
  FlushSendsEverything
  EveryEventDelivered
