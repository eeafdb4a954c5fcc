SPECIFICATION RefusingSpec
CONSTANTS
  Child = {a, b, c}
  NoChild = NoChild
  MaximumChildren = 3
  MaxRevisions = 4
INVARIANT HostOwnsItsWindows
CHECK_DEADLOCK FALSE
