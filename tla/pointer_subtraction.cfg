SPECIFICATION Spec
CONSTANTS
  Functions <- MCPointerDifference
  External <- MCExternal
  Returns <- MCReturns
  Data <- MCData
  Stack <- MCStack
INVARIANT ComputesMeaning
