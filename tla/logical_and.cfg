SPECIFICATION Spec
PROPERTY AndDecides
CONSTANTS
  UninitializedCC = {"always", "E", "NE", "L", "LE", "G", "GE"}
  Conditions <- MCPlainRight
  ForParts <- MCNoParts
  MaxTokens = 3
  MaxNesting = 1
