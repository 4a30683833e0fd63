SPECIFICATION FairSpec
CONSTANTS
  viewer = viewer
  editor = editor
  k1 = k1
  k2 = k2
  here = here
  elsewhere = elsewhere
  posts = posts
  users = users
  audit = audit
  NoRole = NoRole
  NoToken = NoToken
  Nobody = Nobody
  Watcher = Watcher
  Roles = {viewer, editor}
  Keys = {k1, k2}
  Routes = {here, elsewhere}
  Tables = {posts, users}
  HookNames = {audit}
  Compiled = {}
  Configs <- PlainConfigs
  Hosts = {h1}
  Requests = {}
  MaxEdits = 2
  MaxDDL = 0
  Flaky = FALSE
CHECK_DEADLOCK FALSE
PROPERTIES
  NoticedEditIsServed
  ReloadReturns
