SPECIFICATION Spec
CONSTANTS
  Clients = {c1, c2, c3}
  Servers = {s1}
  RoomIds = {r1}
  RoomSize = 12
  Losses = {s1}
  Shards = {{s1}}
  MaxSearches = 1
  NoClient = NoClient
  NoRoom = NoRoom
  NoServer = NoServer
INVARIANTS
  TypeOK
  OneAnswerComes
  ViewFollowsRooms
PROPERTIES
  NobodyWaitsInPairs
CHECK_DEADLOCK FALSE
