SPECIFICATION FairSpec
CONSTANTS
  t1 = t1
  t2 = t2
  i1 = i1
  i2 = i2
  d1 = d1
  d2 = d2
  NULL = NULL
  Threads = {t1, t2}
  Ids = {i1, i2}
  Data = {d1, d2}
  Compressing = FALSE
  UuidIsArray = FALSE
  JobFaults = {"service", "serialise", "dump", "list", "rebuild", "crash"}
INVARIANT TypeOK
PROPERTY RegistrySpec
PROPERTY CallsReturn
