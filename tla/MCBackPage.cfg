SPECIFICATION PageSpec
CONSTANTS
  Miis = {p1, p2, p3}
  Self = Self
  MaxPlayers = 3
  MaxComments = 2
  Capacity = 10
  Faults = {}
  NoOne = NoOne
INVARIANTS
  PageTypeOK
  ScreenFollowsRoom
  MessagesNameTheirSender
  QueueFits
PROPERTIES
  StartIsLaunched
CHECK_DEADLOCK FALSE
