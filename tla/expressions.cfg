SPECIFICATION Spec
CONSTANTS
  Functions <- MCFunctions
  External <- MCExternal
  Returns <- MCReturns
  Data <- MCData
  Stack <- MCStack
INVARIANTS ComputesMeaning FrameRestored Assembles SlotsDisjoint OperandsPlaced
PROPERTY WritesStayInside
