SPECIFICATION Spec
CONSTANTS
  jobs = jobs
  servers = servers
  Managers = {jobs, servers}
  MemoryFaults = {"manager", "storage", "provider", "mutex", "cwd", "segment",
    "hash", "child", "instance", "newmutex", "init"}
CHECK_DEADLOCK FALSE
INVARIANT TypeOK
INVARIANT FreedOnce
INVARIANT NothingLeaks
