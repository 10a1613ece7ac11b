SPECIFICATION Spec
CONSTANTS
  Callers = {c1, c2}
  MaxChunks = 3
  NoCaller = NoCaller
INVARIANTS
  DecodesItsChunk
PROPERTIES
  SuccessIsWhole
  AcceptedLoadReturns
