SPECIFICATION Spec
CONSTANTS
  p = p
  q = q
  open = open
  closed = closed
  Vals = {open, closed}
  Keys = {1, 2}
  Absent = Absent
  AutoKey = AutoKey
  DefaultKey = DefaultKey
  Claim <- MCClaim
  Clients = {p, q}
  Sees <- Owned
  MayUpdate <- OpenRows
  MayDelete <- Shared
  UpdatePreset <- Takes
  Requests <- MCRequests
  MaxRequests = 1
CHECK_DEADLOCK FALSE
INVARIANTS TypeOK AuditTrail AllOrNothing ReturnsWrittenRow ReturnsOnlyDeleted
PROPERTY ImplementsContract
