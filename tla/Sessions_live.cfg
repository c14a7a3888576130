SPECIFICATION FairSpec
CONSTANTS
  Clients = {c1}
  Slots = {s1, s2}
  MaxPairs = 5
  MaxFaults = 1
  Ops = {"login", "refresh", "revoke"}
  Alone = {}
PROPERTIES RetryDelivers
CHECK_DEADLOCK FALSE
