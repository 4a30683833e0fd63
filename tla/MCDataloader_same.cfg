SPECIFICATION Spec
CONSTANTS
  top = top
  deep = deep
  some = some
  author = author
  comments = comments
  users = users
  fk1 = fk1
  fk2 = fk2
  noargs = noargs
  where = where
  a = a
  b = b
  c = c
  Root = Root
  Null = Null
  Rels = {comments, users}
  ArgSigs = {noargs, where}
  Admits <- MCAdmits
  Sites <- MCSites
  Parent <- MCParent
  Depth <- MCDepth
  Rel <- MCRel
  Dir <- MCDir
  Name <- OwnName
  Args <- MCArgs
  Keys = {a, b, c}
  Fold <- Exact
  RootKeys = {a, b, Null}
  Databases <- ThreadStates
  MaxWrites = 2
CHECK_DEADLOCK FALSE
INVARIANTS
  Repeatable
  OneQueryPerWave
  NothingLostSilently
PROPERTY AnswersAreDirect
