SPECIFICATION PlatformSpec
CONSTANTS
  MaxGeneration = 5
  MaxDepth = 3
  MaxVersion = 3
  NoFile = NoFile
  Partial = Partial
  Unverified = Unverified
  enabled = enabled
  caption = caption
  v1 = v1
  v2 = v2
  NoVersion = NoVersion
  Setting <- MCSetting
  Required <- MCRequired
  Version <- MCVersion
  MaxSaves = 3
  NoReport = NoReport
  SupportsPause = TRUE
  MaxCheckpoint = 4
  c1 = c1
  c3 = c3
  c2 = c2
  NoClient = NoClient
  f1 = f1
  f2 = f2
  f3 = f3
  NoFrame = NoFrame
  Filter = {a, b, c, d}
  MaxPassChanges = 3
  SelfRemoval = "alone"
  main = main
  tool = tool
  NoWindow = NoWindow
  Stream = {out, err}
  PipeSize = 1
  Maximum = 1
  HelperStays = FALSE
  HasDeadline = TRUE
  NoCheck = NoCheck
  NoPage = NoPage
  Page = {1, 2, 3}
  Rotations = 3
  MaximumBytes = 2
  MaxRecords = 9
  MaxFaults = 3
CHECK_DEADLOCK FALSE
INVARIANTS
  ResultBelongsToLastAttempt HostIsConsistent UpdateIsSafe ReportsAreTrue
  ResultIsTrue BetweenFrames OutputIsComplete LogKeepsNewest
  FiltersSeeMessageOnce
PROPERTIES
  KeepsPromise ClosedForGood ReportsFollowStateMachine
  LoadReturnsLastSave PipesServe EveryOperationEnds
