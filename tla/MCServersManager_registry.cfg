SPECIFICATION Spec
CONSTANTS
  t1 = t1
  t2 = t2
  u1 = u1
  u2 = u2
  s1 = s1
  s2 = s2
  NULL = NULL
  Threads = {t1, t2}
  Uris = {u1, u2}
  Servers = {s1, s2}
  Formats = {"json"}
  Compressing = FALSE
  ServerFaults = {"serialise", "list", "rebuild", "crash"}
INVARIANT TypeOK
PROPERTY RegistrySpec
