SPECIFICATION OnlineSpec
CONSTANTS
  Conns = {c1, c2, c3}
  MaxClients = 3
  MaxPlayers = 3
  ChannelCap = 2
  LogCap = 4
  RoomKinds = {FALSE}
  Tracks = {t1}
  Stages = {s1}
  Comments = {m1}
  Gamemodes = {0}
  Kinds = {}
  MaxRequests = 0
  NoConn = NoConn
  NoKey = NoKey
  NoVote = NoVote
  TeamConns = {}
  Writers = {}
  Changers = {}
INVARIANTS
  RosterFollowsRoom
  NothingRefused
SYMMETRY Interchangeable
CHECK_DEADLOCK FALSE
