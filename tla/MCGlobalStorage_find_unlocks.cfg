SPECIFICATION Spec
CONSTANTS
  c1 = c1
  c2 = c2
  k1 = k1
  k2 = k2
  v1 = v1
  v2 = v2
  NULL = NULL
  Clients = {c1, c2}
  Keys = {k1, k2}
  Values = {v1, v2}
  ValueLength <- MCValueLength
  BZ2Length <- MCBZ2Length
  Compressing = FALSE
  Faults = {"lock_find"}
INVARIANT MutualExclusion
