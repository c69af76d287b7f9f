SPECIFICATION Spec
INVARIANTS BlocksPlaced NeverLost
PROPERTIES FollowsSource FinalizedIsFinal Progress
CONSTANTS
  UninitializedCC = {"always"}
  Conditions <- MCFewConditions
  ForParts <- MCForParts
  MaxTokens = 7
  MaxNesting = 3
