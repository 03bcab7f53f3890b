# A TLA+ model of the Grassroots Apache httpd module

`src/` is `mod_grassroots`, the module that runs the Grassroots framework inside
Apache httpd.  httpd is many processes with many threads each, so what
Grassroots keeps in global variables elsewhere has to be kept in memory that
processes share, set up in the parent before it forks, found again in each
child, rebuilt at each graceful restart, and used by many threads at once.  That
is what the project models; it was written from the code in `src/src` and
`src/include` (the file names below are relative to these).  The Grassroots core
library, APR and httpd are not in the repository: where the code calls them they
are modelled by what the code relies on, and the definitions that do so are
marked external in `PROJECT.json`.

## 1. The system

| Component | State | Operations | Module |
|---|---|---|---|
| `APRGlobalStorage` (`apr_global_storage.c`) | the entries in an httpd socache provider; the length of the largest value in a shared segment; a global mutex | `Add...`, `Get...`, `Remove...` (both `FindObjectFromAPRGlobalStorage`), `IterateOverAPRGlobalStorage`; allocate, initialise, pre- and post-configure, child init, free | `GlobalStorage`, `StorageContract`, `StorageUnderFaults`, `StorageMemory` |
| `bzip2_util.c` | none | `CompressToBZ2`, `UncompressFromBZ2`: with `USE_BZIP2` the storage's compress and decompress functions | `Bzip2Util` |
| `APRJobsManager` (`apr_jobs_manager.c`) | a storage of `ServiceJob`s as JSON text, by UUID | add, get, remove, finish, list all | `JobsManager` |
| `APRServersManager` (`apr_external_servers_manager.c`) | a storage of `ExternalServer`s as text, by URI | add, get, remove, list all | `ServersManager` |
| hooks of `mod_grassroots.c` | `s_locations_p`, `s_using_apr_servers_manager_flag`, the user data in the process pool, the `GrassrootsServer`s in each child | pre-config, post-config, child init, cleanup | `ServerLifecycle` |
| directives and configs (`mod_grassroots.c`) | a `GrassrootsLocationConfig` per section and per server | one handler per directive, create, merge | `LocationConfig`, `ConfigMerge` |
| request handler (`mod_grassroots.c`) | one request: its config, server, user, status and what it allocates | `GrassrootsHandler`, `GetUserFromBasicAuth`, `GetUserFromOIDC` | `RequestHandler` |
| `key_value_pair.c` | one request: the buffer of its body, the message being put together | `GetRequestBodyAsJSON`, `GetRequestParamsAsJSON` | `KeyValuePair` |
| `apache_output_stream.c` | one stream | prints to the log of httpd | not modelled |
| `apr_grassroots_servers.c` | a pair of pointers | allocate, free; nothing uses it | not modelled |
| `mod_upload.c` | a multipart parser over buckets | an input filter; in no build file, and does not compile as it stands | not modelled |

How they interact:

* The directive handlers run while httpd parses its files; each one that sets a
  string also registers its section's location in `s_locations_p`.
* `GrassrootsPreConfig` clears that table and the flag; httpd parses;
  `GrassrootsPostConfig` does its work on the second load only, and sets up a
  servers manager if a section asked for it.
* A child walks the table and makes a `GrassrootsServer` for each location, with an
  APR servers manager if its config names it.  The jobs manager it passes to the core is always
  NULL: the code that sets up an `APRJobsManager` is commented out in
  `GrassrootsPostConfig`, and `JobsManager` models the manager for whoever makes one.  The
  server is put into `glc_servers_p` of that config, which requests find by merging.
* `GrassrootsHandler` takes the merged config of the request, and from its hash the server
  of the location that the request is for.  The message is the body of a POST, or made
  of the path and the parameters of a GET; only a POST has its user looked up.
* With the message a request calls the Grassroots core library, which calls the managers back from any
  thread; they translate and call the storage, which takes the mutex, uses the
  provider and the segment, and gives the mutex back.

What is hard in it:

* **Interleaving.**  Every storage operation is several steps (lock, provider,
  read the segment, write it, unlock), and the managers put steps of their own
  before and after.
* **Failure on the way.**  Nearly each call may fail, and the error paths differ
  from operation to operation; some unlock what they did not lock, or remove what
  they do not return.
* **Processes that are killed.**  httpd replaces a child that dies; the storage goes on
  with what the dead one had done by then.
* **Ownership.**  The handler allocates a buffer, JSON values, a user and a result on
  paths that part and meet again, over calls that take a value over even when they fail.
* **Order.**  Two loads at start-up, pools cleared between them, statics that
  outlive both, and cleanups that run in the reverse of the order in which they
  were registered.
* **Data in two forms.**  With `USE_BZIP2` an entry is not the value that was added,
  and not of its length.

What makes each correct: the storage is an atomic map, guarded by its mutex, with
every entry in reach of Find; a manager is an atomic map of jobs or servers; the
parent's storage and the table are those of the current configuration and every
section is served; a request gets the innermost settings; a server is given exactly what was
sent to it; nothing is freed twice or leaked.  `PROJECT.json` lists the hazards line by line, with the property that
covers each, or why none does.

## 2. The modules

### Bzip2Util, GlobalStorage

`Bzip2Util` has blocks (`[value, length, packed]`) in place of bytes: `Plain`,
`CompressToBZ2` (a four-byte header and a stream, NULL when the stream does not fit
the buffer) and `UncompressFromBZ2`.  A constant gives each value its length and
that of its stream.

`GlobalStorage` has one action per access to something shared.  A client is a
thread of any process.  `pc` walks `key - lock - store - grow - raise - unlock -
done` for Add, `key - lock - measure - retrieve - delete - unlock - done` for Get and
Remove, `lock - visit - unlock - done` for Iterate:

| Code | Here |
|---|---|
| the provider's entries, `*ags_largest_entry_p` | `cache`, `largest` |
| `ags_mutex_p` | `holder` |
| locals `array_size`, `success_flag` or `result_p` | `size`, `result` |
| `apr_global_mutex_lock` | `Lock`, `LockFails` |
| `ags_compress_fn`, the provider's `store` | `AddStore` (under the mutex, one step) |
| `SetLargestEntrySize` | `ReadLargest`, `RaiseLargest` |
| `GetLargestEntrySize`; `retrieve`, decompression; `remove` | `Measure`; `Retrieve`; `Delete` |
| the provider's `iterate` and its callbacks | `Visit`, `EndVisit` |
| `apr_global_mutex_unlock` | `Unlock` |

`Faults` says which calls may fail.  A step that may fail has a disjunct for
it with the state the code leaves: `LockFails` goes on to `unlock` in Find and to
`done` elsewhere, as in the code.  To unlock a mutex that another thread holds is
undefined: `Unlock` then either releases it or does nothing.  An unlock may also fail, which
the code logs (`:450`, `:662`, `:701`) and otherwise takes for a success: the call returns and the
mutex stays taken, until the process that took it is killed, if ever.

`StorageContract` is the abstract specification: a call is asked, served at one
instant and answered.  `GlobalStorage` implements it with the mapping at the end of the
module (`ContractSpec`).  A storage whose calls may fail without effect is described by
its variable `fallible`.

`Crash(c)` kills the process of a client within a call, or of one that was left with the
mutex: what it has done to the cache and
the segment stays, what it held in locals is gone, and the mutex is given back, which APR
leaves to the system (fcntl locks, robust pthread mutexes, semaphores with SEM_UNDO).

`StorageUnderFaults` is what is left of the contract when anything but the locking in Find
may fail, unlocking included, and processes are killed: the code goes on after some failures as if there had
been none, so that Remove may drop an entry that it does not return or return one that it
does not drop, Iterate may return true having shown nothing, and a call whose caller is
killed has taken effect or not, and is forgotten.  No other departure is allowed:
an entry changes only by an Add or a Remove of its key, or the provider's eviction, a
Get returns what is there or NULL, and what Iterate shows was there at one instant
(`UnderFaultsSpec`).

### JobsManager, ServersManager

They use the storage through the contract, and under faults through `StorageUnderFaults`, so a storage call of one thread takes
effect between any two steps of another.  Each call is `serialise` or `query` or
`list`, the storage call, and `stored` or `rebuild` or `collect`.  `RebuildServiceJob`
and `ReadAs` say what the text of an entry becomes; `Listed` what the iterators
make of the entries as they are stored, compressed or not.  Each is shown to
implement the same again, now as a map of jobs or servers (`RegistrySpec`).
The initial states have `fallible` true or false, so one run covers both: when the
storage never fails the manager is an atomic map.  Otherwise calls may fail, processes may be
killed (`Crash`), and a job that was taken out may not be rebuilt: `StorageUnderFaults!Lose` is the
step by which an answer gets lost on the way to the manager's caller.

`KeysFor` is the key that the storage is given for a UUID.  The jobs manager passes the
address of its parameter `job_key`; where `uuid_t` is a structure (Windows) the UUID is
there.  Where it is an array type (libuuid, which `readme.md:163` and the unix makefile build
with) a parameter of that type is a pointer, and the 16 bytes at its address are the pointer
and what follows it on the stack, which may be anything: `UuidIsArray`.  The passing run has
the former, `jobs_libuuid` the latter.  The answer to a list carries what
Iterate returned, which the code drops; the hazards say so.

### ServerLifecycle

The life of httpd: `GrassrootsPreConfig`, the directives of each section in any
order, `GrassrootsPostConfig`, once more, then forks, children and graceful
restarts with any other file.  A config is `[section, load]`, so that a config of a
pool that was cleared is told from a current one.  A child has the table it was forked
with, the locations it has yet to walk, and the servers and storages it made.

### ConfigMerge, LocationConfig

`ConfigMerge` has a config and the merge of two (`CreateConfig`, `MergeConfigs`); it has no
state, and the request handler uses it too.  `LocationConfig` has each directive as the field its handler sets (`FieldOf`)
and the merging that httpd does for a request that matches any sequence of sections.
Servers go into the config that is registered for their location.

### KeyValuePair, RequestHandler

`RequestHandler` is one request in one thread, from `GrassrootsHandler`'s first line to its
return, and then another: handlers share nothing that changes.  `KeyValuePair`, which it
extends, reads the message.

| Code | Here |
|---|---|
| `request_rec`; the merged config | `req`; `config` |
| `ap_get_client_block`, the copy behind `rpos`; the end of the loop, or an error that looks like it | `ReadRequestBody`; `EndOfBody` |
| `json_loads`, `FreeByteBuffer` | `Decode`, `FreeByteBuffer` |
| the nested conditions of `GetServiceRequestFromURI`, `AddParamsToJSON`, `GetOperationRequestFromURI` | a plan (`ServicePlan`, `ListPlan`, `InfoPlan`) of values to make and to attach: `Build` takes one step, `BuildFails` is the way out from there, `Built` the end |
| the uri without `path_info`; the lookup of the server | `GetRequestParamsAsJSON`, `Post`; `FindServer` |
| the table of authentication systems | `GetUser`, `GetUserFromBasicAuth`, `GetUserFromOIDC`, `NoUser` |
| what has to be released; what is released without being owned | `owned`; `again`: `Drop` computes both for every function that releases something |

Bytes matter only for the order and the boundaries of blocks, for where a body is cut, and
for a Nul among them, so a body is any short sequence of bytes, and `JSONTexts` says which
sequences are JSON.  `Decode` gives `json_loads` what it sees of the buffer, a C string
(`CString`): up to the first Nul.  A read that fails ends the loop as the end of the body does, so a
body that has JSON at its start and more behind it may be processed as that start.
`ProcessedAsSent` says how far this goes: what is processed is JSON, and a beginning of the body that
ends with it, at a Nul, or where reading failed.
`failed` records that a call failed.

The plan of a GET has an item for each value; `BuildFails` releases a value that jansson failed
to attach, which jansson has released itself, as the code does at five places, and then what the end
of the function releases.  `GetUserFromOIDC` copies the forename out of a full name
(`FullNames`) and nothing releases the copy.

### StorageMemory

The allocation and freeing of a manager, its storage, the mutex, the segment and the
cache instance over the set-up functions, their error paths, the child init functions
and the cleanups of the pool.  `held` is what the structs point to, `live` what
exists; freeing what is not live is noted in `again`.  Each mutex that is made registers a
cleanup of its own on the pool, which `apr_global_mutex_destroy` takes away again.  In the parent
`PostConfigureGlobalStorage` puts the address of a second mutex in the place of the first one's; its
cleanup, registered after that of the storage, runs before it, and the storage then
destroys the mutex once more.  The first mutex is left to its own cleanup.

## 3. The runs

`MC*` modules give the constants; each `.cfg` is one run.  Deadlock is checked except
in the three runs where the system stops: an unlock has failed, and everybody waits for the mutex
(`storage_contract`), httpd gives up (`lifecycle_restart`), the pool has been cleared (`memory_setup`).

| Run | Shows | Bounds and why they are enough |
|---|---|---|
| `storage_contract` | `TypeOK`; `LargestCoversEntries`: every entry fits the buffer of the next Find; `LargestNeverShrinks`: no interleaving of the read and the write loses the larger length; `ContractSpec`: the storage is an atomic map, also when a lock in Add, a store or an unlock fails | two threads, for the races are between pairs of calls; two keys, so that one is evicted or iterated past while the other is in use; values of two lengths, for the smaller to come after the larger |
| `storage_faults` | `MutualExclusion` with processes killed, everything failing but locking in Find and unlocking, and bzip2; `MutexReleased`: all error paths unlock; `UnderFaultsSpec`: what is left of the contract | the same; one value just fits the output buffer of bzip2 |
| `storage_find_unlocks` (violated) | Find unlocks a mutex it failed to lock: a second thread gets in beside the holder | the same |
| `storage_bz2_largest` (violated) | the length recorded is that before compression | the same |
| `jobs_registry` | `RegistrySpec`: the manager is an atomic map of jobs, which under faults and killed processes may miss or lose a job and never invents one; `CallsReturn` | two threads, two ids, two jobs, with and without results |
| `jobs_bz2` (violated) | with `USE_BZIP2` a list of the jobs is empty | one id, one job |
| `jobs_libuuid` (violated) | with libuuid's `uuid_t` a job is stored under any key | two ids, so that there is another key, one job |
| `servers_registry` | `RegistrySpec` for callers that use the JSON format, with the same faults | two threads, URIs and servers |
| `lifecycle_restart` | `StoreMatchesFile`: the parent's storage is there when and only when the current file asks for it; `LocationsAreCurrent`: the table has the locations of the current file and no config of a cleared pool; `EverySectionIsServed`: there is a server for the location of every section; `ChildrenComeUp` | three loads: the two of the start and a restart with any other file; two children, so that one of an earlier load lives beside one of this load; three sections, two of which share a location, one without a root |
| `config_merge` | `LastSectionWins`: each setting is that of the innermost section that has it, but for the provider, which is that of the last section, given or not; `ServerOfMatchedSection`; `MergeAssociates` | three sections, for merging to be nested two deep; two of them for one location; two values, to tell apart who set them; a directive of each kind: with a root, with a plain string, with a default |
| `requests` | `ProcessedAsSent`: a server is given the message that was sent to it, whole and in order as far as `json_loads` can tell where it ends, and from no other user; `SentIsProcessed`: what is sent is processed unless a call fails; `AnswerMatches`: the status goes with what was done and output; `AllReleased` but for three leaks: the message for a server that there is not, the user of a request without a message, the copy of a forename; `ReleasedOnce` but for a value that could not be attached; `RequestsFinish` | two locations with a server and a path without; seven merged configs, with a user system of each kind, an unknown one and none; bodies of up to four characters in blocks of one or two, so that blocks end anywhere, JSON and not, two with JSON at their start and more behind it, one of them after a Nul; two claims, one of them a full name; up to two parameters; every call may fail |
| `memory_setup` | `NothingLeaks`; `FreedOnce` but for the segment when the hash cannot be made, the manager when a child cannot attach to the mutex, and the second mutex of the parent | two managers, so that the cleanups of one run between those of the other; every call may fail |

`CONSTANT`s that bound a model: `MaxLoads` (how often the configuration is read) is
the only counter; everything else is finite by the sizes of the sets.

The mutants in the modules, marked as such, are plausible bugs in the definitions after
them; each makes the property it is listed with fail in its run.

### What the violations say

1. `FindObjectFromAPRGlobalStorage` unlocks when `apr_global_mutex_lock` has failed
   (`apr_global_storage.c:660`).
2. With `USE_BZIP2` the buffer of Find may be too small for an entry (`:435`).
3. With `USE_BZIP2` `GetAllServiceJobs` reads compressed entries as JSON
   (`apr_jobs_manager.c:437`).
4. Where `uuid_t` is an array type the key of a job is made of the stack
   (`apr_jobs_manager.c:302` and `:311`, and `:259` for Add).

Departures from the documentation that have no run:

* `GrassrootsReferenceServicesPath` sets `glc_services_config_path_s` (`mod_grassroots.c:753`;
  `readme.md:85` says otherwise): a copied line, for which `LastSectionWins` fails if the directive is
  among those of `config_merge`.
* `readme.md:95` calls `GrassrootsJobsManagersPath` the directive that the code
  (`mod_grassroots.c:172`), and the model, have as `GrassrootsJobManagersPath`; httpd does not start with
  the name of the readme.
* A comment in `GrassrootsChildInit` (`:529`) says that a child has to reconnect to the mutex and the
  segment, while `ChildInitAPRServersManager` makes a new storage for each location (`:1219`) and nothing
  hands it the one of the parent, so that what the children of this commit use is a storage each.
  `GlobalStorage` models the storage as its header describes it, shared by threads and
  processes, and what it says holds as well of the threads of one child.

What properties allow as the code has it, and a reader may not expect:

* The message of a body that is cut by a read that fails, or has a Nul in it, is what comes before, if that
  is JSON (`key_value_pair.c:540`, `:112-113`): `ProcessedAsSent`.
* A request leaks the message for a server that there is not (`mod_grassroots.c:1107`), the user when
  there is no message (`:1084`), and the forename of each OpenID user with a full name (`:950`): `AllReleased`.
* A value that jansson could not attach is released twice (`key_value_pair.c:643` and four more):
  `ReleasedOnce`.
* The segment (`apr_global_storage.c:138`) and the manager (`apr_external_servers_manager.c:187`) are
  freed twice after one failure each, and the mutex of `apr_global_storage.c:755` is destroyed twice,
  by the pool and then by the storage (`:204-208`), without any: `FreedOnce`.
* After an unlock that failed nobody gets the mutex (`apr_global_storage.c:450`, `:662`, `:701`): nothing
  that a call returns is wrong (`ContractSpec`), but later calls do not return.

### Fairness

* `GlobalStorage`: weak fairness of `Proceed(c)`, the steps of a thread that does not
  wait for the mutex: a thread that can run is run.  Nothing is assumed of who gets
  the mutex, nor that anyone calls.
* `JobsManager`: weak fairness of `Proceed(t)`: a thread within a call keeps running,
  and the storage answers (that it does is `MutexReleased`, an unlock that works and a mutex
  that is granted in the end).
* `RequestHandler`: weak fairness of `Handle`: a thread within a request goes on, as httpd
  answers each read of the body, if only with a timeout.
* `ServerLifecycle`: weak fairness of `ChildStep(c)`: a hook that runs in a child runs
  on.  Nothing is assumed of the parent or the administrator.

## 4. The theorems

Checked by tlapm, for any sets of threads, keys, values, jobs, servers, children, sections,
locations, requests and managers.  Every safety invariant, action property and refinement that
a passing run checks has its theorem; what the run shows on a small instance the theorem
shows for all.

| Theorem | Says | From |
|---|---|---|
| `GlobalStorageProofs!TypeCorrect` | `[]TypeOK`, whatever fails | `OpInv`: the step that a thread is at belongs to the operation it is in; without it the type of `result` is not preserved |
| `GlobalStorageProofs!MutualExclusionHolds` | `[]MutualExclusion` if `"lock_find" \notin Faults`, also if unlocking fails, with compression or without | `HolderInv`: a thread at a critical step or at `unlock` is the holder |
| `GlobalStorageProofs!LargestCovers` | `[]LargestCoversEntries` without compression, if locking in Find and the segment work and no process is killed | `Covered`: only the entry that the holder has just stored may be longer than `largest`; `Fresh`: a holder between the read and the write of the segment has read its present value |
| `GlobalStorageProofs!LargestGrows` | `LargestNeverShrinks` if `"lock_find" \notin Faults`: with compression, a failing segment and killed processes too | `HolderInv`, `Fresh` |
| `GlobalStorageRefinement!Implements` | `Spec => ContractSpec` without compression, if locking in Find and in Iterate and the provider's remove work; allocations, the segment, the provider's store and the lock in Add may fail, and no process is killed | in addition `ResultInv` (what an operation returns before its effect), `DeleteInv` (at `delete` the result is what is about to be removed), `SeenInv` (an Iterate has been shown what is in the cache, less what is still to do) |
| `GlobalStorageRefinement!ImplementsUnderFaults` | `Spec => UnderFaultsSpec` if `"lock_find" \notin Faults`, whatever else fails, with compression or without, with processes killed | the same invariants, `DeleteInv` only without compression; one lemma per step, with the case of each fault; `IdleCrashMaps`: to kill a process that was left with the mutex is a stutter of the map |
| `JobsManagerProofs!TypeCorrect` | `[]TypeOK`, whatever fails, compressed or not, whatever a UUID is | `CallInv`, `AskInv`, `AnswerInv`, `ResultInv`: at each step of a call, what the thread has asked the storage, what that may answer, and what the call may return |
| `JobsManagerProofs!ImplementsRegistry` | `Spec => RegistrySpec` if `~Compressing` and `~UuidIsArray` | the same; then the steps of the storage are the steps of the registry (one case for each way that the storage serves a request), and what the manager does before and after is a stutter, an ask or an answer, or the loss of an answer |
| `ServersManagerProofs!TypeCorrect` | `[]TypeOK`, whatever fails, for callers with any formats | as for the jobs |
| `ServersManagerProofs!ImplementsRegistry` | `Spec => RegistrySpec` if `~Compressing` and `Formats = {"json"}` | as for the jobs, with `ServersOf`: the servers of the texts kept are those of the texts there were |
| `ServerLifecycleProofs!TypeCorrect` | `[]TypeOK` | `IInv` below |
| `ServerLifecycleProofs!StoreMatches` | `[]StoreMatchesFile` | `LoadInv` (at which stage of which load there may be a storage) and `ParseInv`: while it is read, the flag is that of the sections read so far |
| `ServerLifecycleProofs!TableCurrent` | `[]LocationsAreCurrent` | `ParseInv`: so is the table |
| `ServerLifecycleProofs!SectionsServed` | `[]EverySectionIsServed` | `ChildInv`: a child that had no failure has the servers of all the locations it is done with |
| `LocationConfigProofs!TypeCorrect` | `[]TypeOK` | `Shape` |
| `LocationConfigProofs!MergeAssociatesHolds` | `[]MergeAssociates` | `Shape` (configs are functions of the fields and locations), field by field |
| `LocationConfigProofs!ServerOfMatchedSectionHolds` | `[]ServerOfMatchedSection` | `HoldsOwn` (a section holds no server but that of its location) and `MergedInv` (the settings and servers of the merged config are the last that the sections matched so far have) |
| `LocationConfigProofs!LastSectionWinsHolds` | `[]LastSectionWins` if `"GrassrootsReferenceServicesPath" \notin Directives` | in addition `GivenInv`: a section has what it was last given, and the provider by default |
| `RequestHandlerProofs!TypeCorrect` | `[]TypeOK` | `IInv` below |
| `RequestHandlerProofs!ProcessedAsSentHolds` | `[]ProcessedAsSent` | `BodyInv` (the buffer has what has been read of the body, the rest is still to come), `CStringEnds` and `SeenEnds` (what `json_loads` sees of a buffer ends with it or at a Nul, so that it is the body up to one of its ends), `BuildInv` (at which stage of which plan the message is), `MessageFits` (a message is JSON up to one of the `EndsOfBody`, or what a GET asks), `ServerInv`, `UserInv` |
| `RequestHandlerProofs!SentIsProcessedHolds` | `[]SentIsProcessed` | `MessageInv`: when nothing failed the message is what was sent, all of it |
| `RequestHandlerProofs!AnswerMatchesHolds` | `[]AnswerMatches` | `AnswerInv`: status and output at each step on the way out |
| `RequestHandlerProofs!AllReleasedHolds` | `[]AllReleased` | `OwnedInv`: what is owned at each step but for the copy of a forename, with the values of the plan that are made and not yet attached (`BuildStage`) |
| `RequestHandlerProofs!ReleasedOnceHolds` | `[]ReleasedOnce` | each function's release is within what `OwnedInv` says is owned there; `OwnedAreMade`: of the plan, what is owned has been made, and what the ends of the functions release of what has been made is owned, so that only the value that was lost to jansson is released again |
| `StorageMemoryProofs!TypeCorrect` | `[]TypeOK` | itself |
| `StorageMemoryProofs!FreedOnceHolds` | `[]FreedOnce` | `StepInv`: what there is at each step of the set up and of undoing it; `PoolInv`: what the pool has still to free is there, but for the second mutex; `MutexInv`: a mutex that exists has its own cleanup on the pool; `Once` and `Ordered`: no cleanup is registered twice, and that of the first mutex runs after the storage's, so that what the storage destroys first is not destroyed again; `ClearedInv`: the pool is not cleared during a set up |
| `StorageMemoryProofs!NothingLeaksHolds` | `[]NothingLeaks` | the same |

Each is proved as `Init => Inv`, `Inv /\ [Next]_vars => Inv'` and `Inv => property`, one
lemma or step per action.  The assumptions are the named ASSUMEs of the modules, which
the runs evaluate: NULL is no key, no thread and no block, and no record of a job, a server, a message or a user; no JSON text has a Nul in it; lengths are
numbers; faults are of the kinds listed; `MaxLoads` is at least two; bodies and parameters are sequences
(`IsSeq`: functions from `1 .. n`).  The hypotheses of single theorems leave out what the violated runs and the
code say breaks the property: `"lock_find" \notin Faults` is `storage_find_unlocks`, `~Compressing`
is `storage_bz2_largest` and `jobs_bz2`, `~UuidIsArray` is `jobs_libuuid`,
`GrassrootsReferenceServicesPath` is the copied line of section 3, and `Formats = {"json"}`
a caller's own functions, which GetAll ignores.

Only model-checked: liveness (`MutexReleased`, `CallsReturn`, `ChildrenComeUp`,
`RequestsFinish`), which is beyond the prover.

## 5. What is not modelled

* Logging and debug output, and the text of messages.
* Running out of pool memory, on which httpd aborts.
* Jobs, servers and users themselves: the Grassroots core library.  A job is its data and whether it has
  results in memory; a server is a name.
* What the provider does inside: it stores, refuses, evicts, retrieves what fits.
* Two threads changing a hash of one config while a request reads it: servers are
  made in child init, before there are requests.
* A process killed inside the provider's store or remove: what the provider's memory is
  then is its own affair.  A process is killed between the steps of the storage.
* In `key_value_pair.c` the functions for forms and key-value pairs (`:245-522`) and `ReadBody`
  (`:568-602`), which nothing in the repository calls.
* What `ProcessServerJSONMessage` does with a message: it has a result or it has not.
* `mod_upload.c`: it uses an undeclared `upload_conf` and is in no build file, so there is no
  program whose behaviour a model could be held to.
* `apache_output_stream.c` (output), `apr_grassroots_servers.c` (unused), build and
  configuration files.

## 6. Plan

Done in this order: the storage and its contract, the proofs about it, the two managers,
the lifecycle and its proofs, the configs, the memory of the storage, the request handler,
killed processes and what is left of the contract then, and the proofs about
the rest.  To come:

1. A manager over the storage itself: `GlobalStorage` and `JobsManager` are tied by the contract
   that the one implements and the other uses; a theorem over both would say so in one statement.
2. The steps that liveness rests on, as theorems of safety: in `RequestHandler` that each step lessens what
   is left of the body or the plan, in `GlobalStorage` that the holder is always at a step that it can take.
