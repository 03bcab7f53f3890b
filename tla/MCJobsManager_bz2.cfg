SPECIFICATION Spec
CONSTANTS
  t1 = t1
  t2 = t2
  i1 = i1
  i2 = i2
  d1 = d1
  d2 = d2
  NULL = NULL
  Threads = {t1, t2}
  Ids = {i1}
  Data = {d1}
  Compressing = TRUE
  UuidIsArray = FALSE
  JobFaults = {}
PROPERTY RegistrySpec
