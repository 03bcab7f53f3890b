------------------------------ MODULE StorageMemory ------------------------------
(***************************************************************************)
(* Who frees what of a manager and its storage: AllocateAPRServersManager  *)
(* and InitAPRJobsManager with the AllocateAPRGlobalStorage they call,     *)
(* PostConfigureGlobalStorage in the parent, the child init functions, and *)
(* the clearing of the pool, which runs the cleanups registered on it, the *)
(* latest one first.  A resource is a block of heap memory, a mutex, the   *)
(* shared segment or the cache instance; what the pool itself allocates    *)
(* needs no freeing.  Making a mutex registers a cleanup of its own on the *)
(* pool, which apr_global_mutex_destroy takes away and runs.               *)
(***************************************************************************)
EXTENDS Naturals, Sequences

CONSTANTS Managers,    \* the managers that are set up in one pool
          MemoryFaults \* the calls below that may fail

(* manager, storage: AllocMemory of that struct; provider: no such provider; *)
(* mutex: apr_global_mutex_create; cwd, segment: no directory, no segment;   *)
(* hash: apr_hash_make_custom; child: apr_global_mutex_child_init; instance, *)
(* newmutex, init: the steps of PostConfigureGlobalStorage.                  *)
ASSUME MemoryAssumption ==
  MemoryFaults \subseteq {"manager", "storage", "provider", "mutex", "cwd", "segment",
                          "hash", "child", "instance", "newmutex", "init"}

VARIABLES
  at,        \* at[m]: the next step in setting up manager m
  held,      \* held[m]: the resources that m's structs point to
  live,      \* live[m]: the resources of m that exist
  again,     \* again[m]: those that were freed when they no longer existed
  failures,  \* failures[m]: the calls that failed for m
  cleanups,  \* the cleanups registered on the pool, as <<manager, function>>; that
             \* of a mutex is under the name of the mutex
  cleared    \* the pool is being, or has been, cleared

vars == <<at, held, live, again, failures, cleanups, cleared>>

Mutexes == {"mutex", "newmutex"}
Resources == {"manager", "storage", "segment", "instance"} \cup Mutexes
Functions == {"FreeStorage", "CleanUpManager"} \cup Mutexes
Steps == {"manager", "storage", "provider", "mutex", "segment", "hash", "freeSegment",
          "destroyMutex", "freeStorage", "freeManager", "made", "ready", "failed"}

Init ==
  /\ at = [m \in Managers |-> "manager"]
  /\ held = [m \in Managers |-> {}]
  /\ live = [m \in Managers |-> {}]
  /\ again = [m \in Managers |-> {}]
  /\ failures = [m \in Managers |-> {}]
  /\ cleanups = <<>>
  /\ cleared = FALSE

Goto(m, step) == at' = [at EXCEPT ![m] = step]
Failed(m, call) == /\ call \in MemoryFaults
                   /\ failures' = [failures EXCEPT ![m] = @ \cup {call}]

Acquire(m, r) ==
  /\ held' = [held EXCEPT ![m] = @ \cup {r}]
  /\ live' = [live EXCEPT ![m] = @ \cup {r}]

Free(m, rs) ==
  /\ live' = [live EXCEPT ![m] = @ \ rs]
  /\ again' = [again EXCEPT ![m] = @ \cup (rs \ live[m])]

\* A step of the set up gets its resource, or fails where the code goes on to.
Get(m, step, r, next) ==
  /\ at[m] = step
  /\ Acquire(m, r)
  /\ Goto(m, next)
  /\ UNCHANGED <<again, failures, cleanups, cleared>>

Fail(m, step, next) ==
  /\ at[m] = step
  /\ Failed(m, step)
  /\ Goto(m, next)
  /\ UNCHANGED <<held, live, again, cleanups, cleared>>

AllocateManager(m) ==
  /\ ~cleared
  /\ \/ Get(m, "manager", "manager", "storage")
     \/ Fail(m, "manager", "failed")

AllocateStorage(m) ==
  \/ Get(m, "storage", "storage", "provider")
  \/ Fail(m, "storage", "freeManager")

LookupProvider(m) ==
  \/ /\ at[m] = "provider"
     /\ Goto(m, "mutex")
     /\ UNCHANGED <<held, live, again, failures, cleanups, cleared>>
  \/ Fail(m, "provider", "freeStorage")

\* apr_global_mutex_create in the pool, which from then on destroys the mutex.
InitMutex(m) ==
  \/ /\ at[m] = "mutex"
     /\ Acquire(m, "mutex")
     /\ cleanups' = Append(cleanups, <<m, "mutex">>)
     /\ Goto(m, "segment")
     /\ UNCHANGED <<again, failures, cleared>>
  \/ Fail(m, "mutex", "freeStorage")

\* The directory is only wanted to name the segment.
InitSegment(m) ==
  \/ Get(m, "segment", "segment", "hash")
  \/ Fail(m, "segment", "destroyMutex")
  \/ /\ at[m] = "segment"
     /\ Failed(m, "cwd")
     /\ Goto(m, "destroyMutex")
     /\ UNCHANGED <<held, live, again, cleanups, cleared>>

\* Mutant: another function is registered for the manager.
InitHashRegistersFree(m) ==
  \/ /\ at[m] = "hash"
     /\ cleanups' = Append(Append(cleanups, <<m, "FreeStorage">>), <<m, "FreeMemory">>)
     /\ Goto(m, "made")
     /\ UNCHANGED <<held, live, again, failures, cleared>>
  \/ Fail(m, "hash", "freeSegment")

\* Mutant: the storage registers no cleanup.
InitHashRegistersOne(m) ==
  \/ /\ at[m] = "hash"
     /\ cleanups' = Append(cleanups, <<m, "CleanUpManager">>)
     /\ Goto(m, "made")
     /\ UNCHANGED <<held, live, again, failures, cleared>>
  \/ Fail(m, "hash", "freeSegment")

\* With the hash made the storage has all it needs and registers its cleanup,
\* and then so does the manager.
InitHash(m) ==
  \/ /\ at[m] = "hash"
     /\ cleanups' = Append(Append(cleanups, <<m, "FreeStorage">>), <<m, "CleanUpManager">>)
     /\ Goto(m, "made")
     /\ UNCHANGED <<held, live, again, failures, cleared>>
  \/ Fail(m, "hash", "freeSegment")

\* FreeSharedMemory leaves the pointer to the segment in the storage.
FreeSegment(m) ==
  /\ at[m] = "freeSegment"
  /\ Free(m, {"segment"})
  /\ Goto(m, "destroyMutex")
  /\ UNCHANGED <<held, failures, cleanups, cleared>>

\* Mutant: the pointer to the mutex is not set to NULL.
DestroyMutexKeepsPointer(m) ==
  /\ at[m] = "destroyMutex"
  /\ Free(m, {"mutex"})
  /\ Goto(m, "freeStorage")
  /\ UNCHANGED <<held, failures, cleanups, cleared>>

\* The pool's own cleanup of the mutex goes with it: RunCleanup finds nothing to do.
DestroyMutex(m) ==
  /\ at[m] = "destroyMutex"
  /\ Free(m, {"mutex"})
  /\ held' = [held EXCEPT ![m] = @ \ {"mutex"}]
  /\ Goto(m, "freeStorage")
  /\ UNCHANGED <<failures, cleanups, cleared>>

\* FreeAPRGlobalStorage, of a storage that could not be initialised.
FreeStorage(m) ==
  /\ at[m] = "freeStorage"
  /\ Free(m, held[m] \ {"manager"})
  /\ held' = [held EXCEPT ![m] = @ \cap {"manager"}]
  /\ Goto(m, "freeManager")
  /\ UNCHANGED <<failures, cleanups, cleared>>

FreeManager(m) ==
  /\ at[m] = "freeManager"
  /\ Free(m, {"manager"})
  /\ held' = [held EXCEPT ![m] = {}]
  /\ Goto(m, "failed")
  /\ UNCHANGED <<failures, cleanups, cleared>>

-----------------------------------------------------------------------------
\* In the parent: the cache instance, then a mutex in the same pool whose address
\* takes the place of the first one's, then the init of the instance.
\* ap_global_mutex_create may fail with the mutex made: the last thing it does is
\* to set the permissions of it.
PostConfigureGlobalStorage(m) ==
  /\ at[m] = "made"
  /\ \/ /\ Failed(m, "instance")
        /\ Goto(m, "failed")
        /\ UNCHANGED <<held, live, cleanups>>
     \/ /\ Acquire(m, "instance")
        /\ Failed(m, "newmutex")
        /\ Goto(m, "failed")
        /\ UNCHANGED cleanups
     \/ /\ held' = [held EXCEPT ![m] = (@ \ {"mutex"}) \cup {"instance", "newmutex"}]
        /\ live' = [live EXCEPT ![m] = @ \cup {"instance", "newmutex"}]
        /\ cleanups' = Append(cleanups, <<m, "newmutex">>)
        /\ \/ Goto(m, "ready") /\ UNCHANGED failures
           \/ /\ \E call \in {"newmutex", "init"} : Failed(m, call)
              /\ Goto(m, "failed")
  /\ UNCHANGED <<again, cleared>>

\* In a child: DestroyAPRServersManager and DestroyAPRJobsManager free the
\* manager, whose cleanup stays on the pool.
ChildInit(m) ==
  /\ at[m] = "made"
  /\ \/ Goto(m, "ready") /\ UNCHANGED <<live, again, failures>>
     \/ Failed(m, "child") /\ Goto(m, "failed") /\ Free(m, {"manager"})
  /\ UNCHANGED <<held, cleanups, cleared>>

\* httpd clears the pool between two hooks, when every set up is over.
ClearPool ==
  /\ ~cleared
  /\ \A m \in Managers : at[m] \in {"manager", "ready", "failed"}
  /\ cleared' = TRUE
  /\ UNCHANGED <<at, held, live, again, failures, cleanups>>

\* The storage's cleanup destroys what the storage points to, then itself; the
\* pool's own cleanup of a mutex does nothing to one destroyed before, since that
\* took the cleanup away.
RunCleanup ==
  /\ cleared
  /\ cleanups # <<>>
  /\ LET m == cleanups[Len(cleanups)][1]
         f == cleanups[Len(cleanups)][2]
     IN \/ f = "FreeStorage" /\ Free(m, held[m] \ {"manager"})
        \/ f = "CleanUpManager" /\ Free(m, {"manager"})
        \/ f \in Mutexes /\ live' = [live EXCEPT ![m] = @ \ {f}] /\ UNCHANGED again
  /\ cleanups' = SubSeq(cleanups, 1, Len(cleanups) - 1)
  /\ UNCHANGED <<at, held, failures, cleared>>

SetUp(m) ==
  \/ AllocateManager(m) \/ AllocateStorage(m) \/ LookupProvider(m) \/ InitMutex(m)
  \/ InitSegment(m) \/ InitHash(m) \/ FreeSegment(m) \/ DestroyMutex(m) \/ FreeStorage(m)
  \/ FreeManager(m) \/ PostConfigureGlobalStorage(m) \/ ChildInit(m)

Next == (\E m \in Managers : SetUp(m)) \/ ClearPool \/ RunCleanup

Spec == Init /\ [][Next]_vars

-----------------------------------------------------------------------------
TypeOK ==
  /\ at \in [Managers -> Steps]
  /\ held \in [Managers -> SUBSET Resources]
  /\ live \in [Managers -> SUBSET Resources]
  /\ again \in [Managers -> SUBSET Resources]
  /\ failures \in [Managers -> SUBSET MemoryFaults]
  /\ cleanups \in Seq(Managers \X Functions)
  /\ cleared \in BOOLEAN

\* Whichever steps of the set up fail, in whichever manager, nothing is freed a
\* second time, neither by the error path nor by the cleanups of the pool, with
\* three exceptions: the segment when the hash could not be made, the manager when
\* a child could not attach to its mutex, and, with no failure at all, the mutex
\* that PostConfigureGlobalStorage made, which the pool destroys before the storage
\* does.
FreedOnce ==
  \A m \in Managers :
    again[m] \subseteq (IF "hash" \in failures[m] THEN {"segment"} ELSE {})
                        \cup (IF "child" \in failures[m] THEN {"manager"} ELSE {})
                        \cup (held[m] \cap {"newmutex"})

\* When the pool has been cleared nothing that was acquired is left.
NothingLeaks == cleared /\ cleanups = <<>> => \A m \in Managers : live[m] = {}
=============================================================================
