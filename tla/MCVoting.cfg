SPECIFICATION Spec
CONSTANTS
  PlayerCount = 3
  Screens = {0, 1}
  Courses = {a, b}
  NoRow = NoRow
  NoCourse = NoCourse
  NoPlayer = NoPlayer
INVARIANTS
  OneRowPerVote
  AllRaceTheSame
PROPERTIES
  EveryoneRaces
CHECK_DEADLOCK FALSE
