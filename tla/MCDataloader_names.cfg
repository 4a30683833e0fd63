SPECIFICATION Spec
CONSTANTS
  top = top
  deep = deep
  some = some
  author = author
  comments = comments
  users = users
  fk1 = fk1
  fk2 = fk2
  noargs = noargs
  where = where
  a = a
  b = b
  c = c
  Root = Root
  Null = Null
  Rels = {comments, users}
  ArgSigs = {noargs, where}
  Admits <- MCAdmits
  Sites <- MCSameSites
  Parent <- SiblingParent
  Depth <- SiblingDepth
  Rel <- SiblingRel
  Dir <- BothIn
  Name <- OneName
  Args <- SiblingArgs
  Keys = {a, b, c}
  Fold <- Exact
  RootKeys = {a, b}
  Databases <- TreeState
  MaxWrites = 0
CHECK_DEADLOCK FALSE
PROPERTY AnswersAreDirect
