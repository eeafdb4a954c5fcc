SPECIFICATION WindowsSpec
CONSTANTS
  d1 = d1
  d2 = d2
  readme = readme
  README = README
  w1 = w1
  w2 = w2
  NoDocument = NoDocument
  NoPath = NoPath
  NoTransfer = NoTransfer
  NoWindow = NoWindow
  NoCall = NoCall
  DocumentId <- MCDocumentId
  Path <- MCPath
  Canonical <- MCSpellings
  Window <- MCWindow
  MaximumRecentlyClosed = 0
  MaxRevision = 4
  ReentrantBindings = FALSE
INVARIANT PagesAreConsistent
PROPERTIES
  PagesMoveAndShow FailedTransferRestores
  EveryDocumentHasOneOwner
CHECK_DEADLOCK FALSE
SYMMETRY Symmetry
