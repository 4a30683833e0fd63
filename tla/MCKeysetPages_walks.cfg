SPECIFICATION FairSpec
CONSTANTS
  u = u
  v = v
  all = all
  onlyu = onlyu
  Wheres = {all, onlyu}
  Shapes = {all, onlyu}
  Shape <- SameShape
  Admits <- MCAdmits
  NoFirst = NoFirst
  NoCursor = NoCursor
  Keys = {1, 2, 3}
  Texts = {1, 2, 3}
  Text <- Identity
  Seek <- Identity
  Vals = {"a", "b"}
  Walks = {u, v}
  WhereOf <- MCWhereOf
  Configs <- MCConfigs
  Firsts <- MCFirsts
  MaxWrites = 2
CHECK_DEADLOCK FALSE
INVARIANTS TypeOK WalkAscends NoRowMissed PagesAdvance CursorsStayHome
PROPERTY WalkEnds
