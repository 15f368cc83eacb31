\* A publisher and the one that replaces it; a player that may get stuck.
SPECIFICATION FairSpec
CONSTANTS
  None = None
  p1 = p1
  p2 = p2
  Publishers = {p1, p2}
  Players = {s1}
  Clients = {c1}
  QueueCap = 1
  Sends <- TwoCameras
  StreamLimit = 2
INVARIANTS NewestServes WritesToOpen MapIsExact
PROPERTIES PublisherGoesOn PlayersAreClosed
CHECK_DEADLOCK FALSE
