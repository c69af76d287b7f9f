SPECIFICATION Spec
 
PROPERTY FollowsSource
CONSTANTS
  UninitializedCC = {"always"}
  Conditions <- MCConditions
  ForParts <- MCForParts
  MaxTokens = 4
  MaxNesting = 2
