SPECIFICATION ThemeSpec
CONSTANTS
  Authors <- MCAuthors
  FileBytes = 3
  TotalBytes = 5
  MaxImports = 3
  ImportDepth = 2
  MaxNodes = 7
INVARIANT LaterStylesWin
CHECK_DEADLOCK FALSE
