SPECIFICATION Spec
CONSTANTS
  Themes <- MCThemes
  Values = {"a", "b"}
  Times = {0, 2}
  IconFiles <- MCIconFiles
  Contents <- MCContents
  MaxEdits = 1
  MaxAxis = 6
  IconBytes = 3
  IconEntries = 2
  MaskBytes = 4
  MaskEntries = 2
  LayoutBytes = 4
  LayoutEntries = 2
  LabelBytes = 2
  GlyphEntries = 2
  BackgroundBytes = 3
  Alphabets <- MCAlphabets
  Vars <- MCVars
  MaxSyntax = 5
  Authors <- MCAuthors
  FileBytes = 3
  TotalBytes = 5
  MaxImports = 3
  ImportDepth = 2
  MaxNodes = 7
INVARIANT ThemesAgree
INVARIANT QueuesAccounted
INVARIANT ExpressionsAgree
PROPERTY FramesAgree
CHECK_DEADLOCK FALSE
