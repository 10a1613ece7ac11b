SPECIFICATION OnlineSpec
CONSTANTS
  Conns = {c1, c2}
  MaxClients = 2
  MaxPlayers = 2
  ChannelCap = 1
  LogCap = 4
  RoomKinds = {FALSE}
  Tracks = {t1}
  Stages = {s1}
  Comments = {m1}
  Gamemodes = {0, 3}
  Kinds = {"comment", "settings", "start", "teamSelect", "vote"}
  MaxRequests = 1
  NoConn = NoConn
  NoKey = NoKey
  NoVote = NoVote
  TeamConns = {c1}
  Writers = {c2}
  Changers = {c1}
INVARIANTS
  ClientTypeOK
  ConsolesAgree
PROPERTIES
  EvictedOnlyWhenGone
  BehavesAsRoom
  SelectEnds
  LeaversAreRemoved
CHECK_DEADLOCK FALSE
