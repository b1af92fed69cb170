SPECIFICATION Spec
CONSTANTS
  Width = 6
  Height = 3
  Mice <- MCMice
  Moves <- MCMoves
  Cols = 3
  Rows = 2
  Lines = 4
  BufferSize = 4
  HistorySize = 2
  Characters <- MCCharacters
  Letters <- MCLetters
  Printables <- MCLetters
  Garbage <- MCGarbage
  EDITOR_MAX_FILESIZE = 4
  ED_ROWS = 2
  Files <- MCFiles
  Prompt <- MCPrompt
  Reply <- MCReply
  Budgets <- MCBudgets
INVARIANTS MouseReady EchoedAtKey ViewportSound PageMatchesFile
PROPERTIES PointerFollows RecallAgrees RefinesLineEditor
CHECK_DEADLOCK FALSE
