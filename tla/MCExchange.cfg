SPECIFICATION Spec
CONSTANTS
  Lefts = {l1, l2}
  Rights = {r1, r2}
  LeftValues = {a, b}
  RightValues = {x, y}
  NoValue = NoValue
  NoThread = NoThread
INVARIANTS
  InStep
PROPERTIES
  AbstractSpec
  SleepersWake
