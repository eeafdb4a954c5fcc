SPECIFICATION CloseSpec
CONSTANTS
  d1 = d1
  d2 = d2
  readme = readme
  NoDocument = NoDocument
  NoPath = NoPath
  NoPlan = NoPlan
  DocumentId <- MCDocumentId
  Path <- MCPath
  Canonical <- MCCanonical
  Addable <- MCAddable
  RestorableHistory <- MCRestorableHistory
  MaximumRecentlyClosed = 1
  MaxRevision = 4
PROPERTY AnyReentrantMutationLeavesDocumentsOpen
CHECK_DEADLOCK FALSE
SYMMETRY Symmetry
