SPECIFICATION Spec
CONSTANTS
  Clients = {c1, c2}
  Slots = {s1, s2}
  MaxPairs = 3
  MaxFaults = 1
  Ops = {"login", "refresh", "logout", "list", "revoke", "others", "password", "delete"}
  Alone = {"logout", "list", "revoke", "others", "password", "delete"}
SYMMETRY Alike
INVARIANTS TypeOK PairsDieTogether SignedOutStaysOut LostAnswerKeeps DevicesListed PendingLeadsToLive
PROPERTIES TokensLiveOnce
CHECK_DEADLOCK FALSE
