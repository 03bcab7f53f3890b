SPECIFICATION FairSpec
CONSTANTS
  a = a
  b = b
  c = c
  la = la
  lb = lb
  NULL = NULL
  Children = {1, 2}
  Sections = {a, b, c}
  Locations = {la, lb}
  LocationOf <- MCLocationOf
  Rooted = {a, b}
  AprManaged = {b, c}
  MaxLoads = 3
  LifeFaults = {"mutex", "store", "init", "manager", "server"}
CHECK_DEADLOCK FALSE
INVARIANT TypeOK
INVARIANT StoreMatchesFile
INVARIANT LocationsAreCurrent
INVARIANT EverySectionIsServed
PROPERTY ChildrenComeUp
