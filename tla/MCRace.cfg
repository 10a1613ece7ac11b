SPECIFICATION Spec
CONSTANTS
  Consoles = {c1, c2}
  Backlog = 2
  History = 3
  MaxClock = 3
  MaxFrames = 3
  NoFrame = NoFrame
INVARIANTS
  TypeOK
  FramesAreTrue
  NewerIsValid
  HistoryInOrder
CHECK_DEADLOCK FALSE
