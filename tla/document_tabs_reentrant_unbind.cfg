SPECIFICATION TabsSpec
CONSTANTS
  d1 = d1
  d2 = d2
  w1 = w1
  w2 = w2
  NoDocument = NoDocument
  NoPath = NoPath
  NoWindow = NoWindow
  NoCall = NoCall
  DocumentId <- MCDocumentId
  Path = {}
  Canonical <- MCCanonical
  Window <- MCWindow
  MaximumRecentlyClosed = 0
  MaxRevision = 3
  ReentrantBindings = TRUE
PROPERTY PageMovesWithDocument
CHECK_DEADLOCK FALSE
SYMMETRY Symmetry
