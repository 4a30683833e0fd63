SPECIFICATION RequestSpec
CONSTANTS
  Documents <- MCDocuments
  MaxDepths <- MCDepths
  Fragments = {"F", "G", "H"}
  Columns = {"a", "b"}
  None = None
CHECK_DEADLOCK FALSE
INVARIANTS TypeOK WalkedOnce DepthIsUnfolded AggregatesComputed
