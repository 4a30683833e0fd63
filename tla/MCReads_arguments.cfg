SPECIFICATION ReadSpec
CONSTANTS
  Columns = {"id", "post", "score", "owner"}
  Pk = "id"
  Joined = "post"
  Null = Null
  Tables <- MCTables
  Roles <- MCRoles
  NoFilter = NoFilter
  Claims <- MCClaims
  NoClaim = NoClaim
  Wheres <- MCWheres
  Orders <- MCOrders
  Limits <- MCLimits
  Offsets = {0, 1}
  Left = Left
  Default = 1
  MaxPage = 2
  Parents = {1, 2}
  Failed = Failed
  Ids = {1, 2}
  Vector = "score"
  To = 1
  NoRead = NoRead
CHECK_DEADLOCK FALSE
INVARIANTS RowsPermitted EveryPathFiltered RoleSeesItsView BatchedIsDirect
