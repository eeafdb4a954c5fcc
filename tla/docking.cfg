SPECIFICATION DockingSpec
CONSTANTS
  readme = readme
  explorer = explorer
  output = output
  g1 = g1
  g2 = g2
  g3 = g3
  n1 = n1
  n2 = n2
  n3 = n3
  n4 = n4
  n5 = n5
  h1 = h1
  h2 = h2
  verbose = verbose
  left = left
  None = None
  NoProposal = NoProposal
  NoPanel = NoPanel
  NoHit = NoHit
  NoIcon = NoIcon
  Panel <- MCPanel
  Group <- MCGroup
  Node <- MCNode
  Host = {h1, h2}
  LongTitle = {verbose}
  MaxPanels = 3
  MaxGroups = 3
  MaxNodes = 5
  MaxHosts = 1
  RootGroup = g1
  RootNode = n1
  Role <- MCRole
  Closable <- MCClosable
  Edge = {leftEdge}
  Restorable <- MCRestorable
  MaxRevision = 7
  Bound = {explorer, output}
  Parent = {"left", "floating"}
  Home <- MCHome
  Reentrant = {"destroy", "cancel"}
  MaxChanges = 3
  HiddenPanel = {explorer, output}
  ShowDelay = 1
  HideDelay = 2
  Animation = 2
  MaximumDuration = 4
  mainDocument = mainDocument
  documents = g1
  bottom = bottom
  floating = floating
  n100 = n1
  n200 = n200
  n201 = n201
  n202 = n202
  n300 = n300
  n301 = n301
  h400 = h400
  leftEdge = leftEdge
  bottomEdge = bottomEdge
  Arrangement <- MCArrangement
  Point <- MCPoint
  Dwell = {1, 2}
  Tolerance = {1}
  Action = {"task view", "none"}
  Default <- MCDefault
  MaxCommands = 3
INVARIANTS LayoutsStayWellFormed ToolsCanReturn DragIsConsistent SlideIsConsistent
  ChoicesAndIconAreKept
PROPERTIES OnlyOnePanelMoves FiresAsWatched
CHECK_DEADLOCK FALSE
SYMMETRY Symmetry
