SPECIFICATION ReplaceAllSpec
CONSTANTS
  Text = {empty, typed, replaced}
  EmptyText = empty
  File = {p, q}
  NoFile = NoFile
  MaximumEntries = 3
  MaxStamp = 3
  MaxDepth = 2
  MaxRecent = 1
PROPERTY NoTextLost
CHECK_DEADLOCK FALSE
