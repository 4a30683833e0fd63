SPECIFICATION Spec
CONSTANTS
  viewer = viewer
  editor = editor
  k1 = k1
  k2 = k2
  here = here
  elsewhere = elsewhere
  posts = posts
  users = users
  audit = audit
  NoRole = NoRole
  NoToken = NoToken
  Nobody = Nobody
  Watcher = Watcher
  Roles = {viewer, editor}
  Keys = {k1, k2}
  Routes = {here, elsewhere}
  Tables = {posts}
  HookNames = {audit}
  Compiled = {}
  Configs <- AllConfigs
  Hosts = {h1}
  Requests = {r1}
  MaxEdits = 1
  MaxDDL = 1
  Flaky = TRUE
CHECK_DEADLOCK FALSE
INVARIANTS
  TypeOK
  ServedIsSound
  ReloadIsFresh
  RoleHasSchema
  NextRequestSees
PROPERTIES
  NeverBackwards
  ImplementsContract
