SPECIFICATION Spec
CONSTANTS
  r1 = r1
  r2 = r2
  u = u
  Requests = {r1, r2}
  Users = {u}
  NoUser = NoUser
  Roles = {admin}
  admin = admin
  Unknown = Unknown
  Unset = Unset
  Deleted = Deleted
  Denied = Denied
  TTL <- CachedThenNot
  MaxDelay = 1
  MaxTime = 3
  MaxReloads = 1
  MaxChanges = 2
SYMMETRY Symmetric
CHECK_DEADLOCK FALSE
INVARIANTS BoundedStaleness FreshRole
