SPECIFICATION Spec
CONSTANTS
  Conns = {c1}
  MaxClients = 2
  MaxPlayers = 2
  ChannelCap = 2
  LogCap = 4
  RoomKinds = {FALSE}
  Tracks = {t1}
  Stages = {s1}
  Comments = {m1}
  Gamemodes = {0}
  Kinds = {"settings"}
  MaxRequests = 1
  NoConn = NoConn
  NoKey = NoKey
  NoVote = NoVote
INVARIANTS
  NeverPanics
CHECK_DEADLOCK FALSE
