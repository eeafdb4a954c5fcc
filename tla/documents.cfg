SPECIFICATION DocumentsSpec
CONSTANTS
  d1 = d1
  d2 = d2
  d3 = d3
  readme = readme
  README = README
  notes = notes
  p = p
  q = q
  NoDocument = NoDocument
  NoPath = NoPath
  DocumentId <- MCDocumentId
  Path <- MCPath
  Canonical <- MCCanonical
  Addable <- MCAddable
  RestorableHistory <- MCRestorableHistory
  MaximumRecentlyClosed = 2
  MaxRevision = 6
  Text = {empty, typed}
  EmptyText = empty
  MaximumEntries = 3
  File <- MCFile
  NoFile = NoFile
  MaxStamp = 3
  MaxDepth = 2
  MaxRecent = 1
  Child <- MCDocumentId
  NoChild = NoChild
  MaximumChildren = 3
  MaxRevisions = 5
INVARIANTS WorkspaceConsistent CleanMeansSaved HostOwnsItsWindows
PROPERTIES
  RevisionTracksDocuments ActiveFallsToNeighbour NoTextLost ForeignChangeNoticed
CHECK_DEADLOCK FALSE
SYMMETRY Symmetry
