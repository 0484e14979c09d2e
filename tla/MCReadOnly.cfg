CONSTANTS
  BoardTasks <- MCBoardTasks
  Columns <- MCColumns
  ReadOnly = TRUE
  LastDate = 1
  MaxEdits = 1
SPECIFICATION BoardSpec
INVARIANT ReadOnlyLeavesBoard
CHECK_DEADLOCK FALSE
