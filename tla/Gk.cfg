SPECIFICATION Spec
CONSTANTS
  MaxTokens = 90
  MaxNodes = 44
  MaxChildren = 4
  MaxVars = 3
  MaxFuncs = 2
  MaxParams = 1
  MaxCallDepth = 2
  MaxStr = 3
  Programs <- MCPrograms
  Raw <- MCRaw
  Again <- MCAgain
  Styles <- MCStyles
  Typed <- MCTyped
  MaxRuns = 2
INVARIANTS ParserAgrees BlocksFollowIndentation EvalAgrees StackUnwound
CHECK_DEADLOCK FALSE
