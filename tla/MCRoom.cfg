SPECIFICATION Spec
CONSTANTS
  Conns = {c1, c2, c3}
  MaxClients = 2
  MaxPlayers = 2
  ChannelCap = 1
  LogCap = 4
  RoomKinds = {FALSE, TRUE}
  Tracks = {t1}
  Stages = {}
  Comments = {m1}
  Gamemodes = {0}
  Kinds = {"comment", "settings", "start", "vote"}
  MaxRequests = 2
  NoConn = NoConn
  NoKey = NoKey
  NoVote = NoVote
INVARIANTS
  TypeOK
  SlabMatchesPlayers
  DrawFollowsVotes
SYMMETRY Interchangeable
CHECK_DEADLOCK FALSE
