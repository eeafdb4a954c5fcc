SPECIFICATION ClosingSpec
CONSTANTS
  d1 = d1
  d2 = d2
  readme = readme
  notes = notes
  NoDocument = NoDocument
  NoPath = NoPath
  NoPlan = NoPlan
  NoSession = NoSession
  DocumentId <- AllDocumentId
  Path <- AllPath
  Canonical <- AllCanonical
  Addable <- MCAddable
  RestorableHistory <- MCRestorableHistory
  MaximumRecentlyClosed = 2
  MaxRevision = 4
  MaxNew = 4
  MaxClock = 3
  MaxStarts = 3
  MaxRequests = 4
INVARIANT DocumentsKeepTheirContents
PROPERTIES
  NoUnsavedWorkLost CommitSeesInspectedDocuments CloseIsAllOrNothing
  DiscardedAsAnswered SessionGivesBack
CHECK_DEADLOCK FALSE
SYMMETRY Symmetry
