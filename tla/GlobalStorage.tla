----------------------------- MODULE GlobalStorage -----------------------------
(***************************************************************************)
(* src/src/apr_global_storage.c: the store that the server processes and   *)
(* their threads share.  The entries are in an httpd socache provider, the *)
(* length of the largest value stored so far is in a shared memory         *)
(* segment, and a global mutex is taken around every use of either.        *)
(* A client is one thread of one httpd process.  Its call walks the        *)
(* program counter below, one step per access to something shared:         *)
(*                                                                         *)
(*   idle - key - lock - store - grow - raise - unlock - done   (Add)      *)
(*                     - measure - retrieve - delete - unlock - done       *)
(*                                                     (Get and Remove)    *)
(*                     - visit - unlock - done                (Iterate)    *)
(***************************************************************************)
EXTENDS Bzip2Util

CONSTANTS Clients,      \* threads of the httpd processes
          Keys,         \* UUIDs or URIs, as the make_key function spells them
          Compressing,  \* compress and decompress functions are configured
          Faults        \* the calls below that may fail

(* lock_add, lock_find, lock_iterate: apr_global_mutex_lock fails in that    *)
(* operation; unlock: apr_global_mutex_unlock fails; memory: an allocation    *)
(* fails; shm: OpenSharedMemory fails; store, remove: that call of the        *)
(* provider fails; evict: the provider drops other entries to make room;     *)
(* crash: processes are killed.                                              *)
FaultKinds == {"lock_add", "lock_find", "lock_iterate", "unlock", "memory", "shm",
               "store", "remove", "evict", "crash"}

ASSUME StorageAssumption ==
  /\ Compressing \in BOOLEAN
  /\ Faults \subseteq FaultKinds
  /\ NULL \notin Keys \cup Clients

VARIABLES
  cache,    \* cache[k]: the provider's block under k, NULL if none
  largest,  \* the unsigned int in the shared memory segment
  holder,   \* who has the global mutex, NULL if nobody
  pc,       \* pc[c]: the next step of client c
  req,      \* req[c]: what client c called and with which arguments
  size,     \* size[c]: what client c last read from the segment
  result,   \* result[c]: the value that client c's call returns
  todo,     \* todo[c]: the keys the provider's iterate has yet to look at
  seen      \* seen[c]: the blocks the iterator callback was given

vars == <<cache, largest, holder, pc, req, size, result, todo, seen>>

Requests == [op: {"add"}, key: Keys, value: Values]
              \cup [op: {"get", "remove"}, key: Keys, value: {NULL}]
              \cup [op: {"iterate"}, key: {NULL}, value: {NULL}]
NoRequest == [op |-> "none", key |-> NULL, value |-> NULL]

NoBlocks == [k \in Keys |-> NULL]

Steps == {"idle", "key", "lock", "store", "grow", "raise", "measure",
          "retrieve", "delete", "visit", "unlock", "done"}

\* The steps that use the provider or the segment.
Critical == {"store", "grow", "raise", "measure", "retrieve", "delete", "visit"}

Goto(c, step) == pc' = [pc EXCEPT ![c] = step]
Returns(c, r) == result' = [result EXCEPT ![c] = r]

\* success_flag = false, result_p = NULL, did_all_elements_flag = true
InitialResult(op) ==
  CASE op = "add" -> FALSE
    [] op \in {"get", "remove"} -> NULL
    [] op = "iterate" -> TRUE

\* The first step under the mutex.
FirstStep == [add |-> "store", get |-> "measure", remove |-> "measure",
              iterate |-> "visit"]

LockFault == [add |-> "lock_add", get |-> "lock_find", remove |-> "lock_find",
              iterate |-> "lock_iterate"]

-----------------------------------------------------------------------------
Init ==
  /\ cache = NoBlocks
  /\ largest = 0
  /\ holder = NULL
  /\ pc = [c \in Clients |-> "idle"]
  /\ req = [c \in Clients |-> NoRequest]
  /\ size = [c \in Clients |-> 0]
  /\ result = [c \in Clients |-> NULL]
  /\ todo = [c \in Clients |-> {}]
  /\ seen = [c \in Clients |-> NoBlocks]

\* A caller enters one of the four operations; only Iterate makes no key.
Begin(c, r) ==
  /\ pc[c] = "idle"
  /\ req' = [req EXCEPT ![c] = r]
  /\ Returns(c, InitialResult(r.op))
  /\ todo' = [todo EXCEPT ![c] = IF r.op = "iterate" THEN Keys ELSE {}]
  /\ Goto(c, IF r.op = "iterate" THEN "lock" ELSE "key")
  /\ UNCHANGED <<cache, largest, holder, size, seen>>

\* Without a key Add and Find return at once.
MakeKey(c) ==
  /\ pc[c] = "key"
  /\ \/ Goto(c, "lock")
     \/ "memory" \in Faults /\ Goto(c, "done")
  /\ UNCHANGED <<cache, largest, holder, req, size, result, todo, seen>>

Lock(c) ==
  /\ pc[c] = "lock"
  /\ holder = NULL
  /\ holder' = c
  /\ Goto(c, FirstStep[req[c].op])
  /\ UNCHANGED <<cache, largest, req, size, result, todo, seen>>

\* Mutant: the status of the lock is not looked at.
LockFailsGoesOn(c) ==
  /\ pc[c] = "lock"
  /\ LockFault[req[c].op] \in Faults
  /\ Goto(c, FirstStep[req[c].op])
  /\ UNCHANGED <<cache, largest, holder, req, size, result, todo, seen>>

\* Add and Iterate skip the unlock with the rest; Find unlocks all the same.
LockFails(c) ==
  /\ pc[c] = "lock"
  /\ LockFault[req[c].op] \in Faults
  /\ Goto(c, IF req[c].op \in {"get", "remove"} THEN "unlock" ELSE "done")
  /\ UNCHANGED <<cache, largest, holder, req, size, result, todo, seen>>

\* Mutant: the pointer to the value is stored in place of its bytes.
EncodingsPointer(v) == {v}

\* The block the provider is asked to store, NULL if compressing failed.
Encodings(v) ==
  IF Compressing
    THEN {CompressToBZ2(v)} \cup (IF "memory" \in Faults THEN {NULL} ELSE {})
    ELSE {Plain(v)}

\* The caches a successful store under k may leave.
Stored(k, b) ==
  LET victims == IF "evict" \in Faults THEN SUBSET (Keys \ {k}) ELSE {{}}
  IN {[j \in Keys |-> IF j = k THEN b ELSE IF j \in dropped THEN NULL ELSE cache[j]] :
        dropped \in victims}

\* Mutant: a value that cannot be compressed or stored is an early return.
AddStoreReturnsEarly(c) ==
  /\ pc[c] = "store"
  /\ LET k == req[c].key
     IN \E b \in Encodings(req[c].value) :
          \/ /\ b # NULL
             /\ cache' \in Stored(k, b)
             /\ Returns(c, TRUE)
             /\ Goto(c, "grow")
          \/ /\ b = NULL \/ "store" \in Faults
             /\ Goto(c, "done")
             /\ UNCHANGED <<cache, result>>
  /\ UNCHANGED <<largest, holder, req, size, todo, seen>>

\* Mutant: the status of the provider's store is not looked at.
AddStoreReportsTrue(c) ==
  /\ pc[c] = "store"
  /\ LET k == req[c].key
     IN \E b \in Encodings(req[c].value) :
          \/ /\ b # NULL
             /\ \/ cache' \in Stored(k, b)
                \/ "store" \in Faults /\ UNCHANGED cache
             /\ Returns(c, TRUE)
             /\ Goto(c, "grow")
          \/ /\ b = NULL
             /\ Goto(c, "unlock")
             /\ UNCHANGED <<cache, result>>
  /\ UNCHANGED <<largest, holder, req, size, todo, seen>>

AddStore(c) ==
  /\ pc[c] = "store"
  /\ LET k == req[c].key
     IN \E b \in Encodings(req[c].value) :
          \/ /\ b # NULL
             /\ cache' \in Stored(k, b)
             /\ Returns(c, TRUE)
             /\ Goto(c, "grow")
          \/ /\ b = NULL
             /\ Goto(c, "unlock")
             /\ UNCHANGED <<cache, result>>
          \/ /\ b # NULL
             /\ "store" \in Faults
             /\ cache' \in {cache, [cache EXCEPT ![k] = NULL]}
             /\ Goto(c, "unlock")
             /\ UNCHANGED result
  /\ UNCHANGED <<largest, holder, req, size, todo, seen>>

\* SetLargestEntrySize reads the segment; its failure is logged and ignored.
ReadLargest(c) ==
  /\ pc[c] = "grow"
  /\ \/ /\ size' = [size EXCEPT ![c] = largest]
        /\ Goto(c, "raise")
     \/ /\ "shm" \in Faults
        /\ Goto(c, "unlock")
        /\ UNCHANGED size
  /\ UNCHANGED <<cache, largest, holder, req, result, todo, seen>>

\* Mutant: the comparison is the wrong way round.
RaiseLargestSwapped(c) ==
  /\ pc[c] = "raise"
  /\ largest' = IF size[c] > ValueLength[req[c].value]
                  THEN ValueLength[req[c].value] ELSE largest
  /\ Goto(c, "unlock")
  /\ UNCHANGED <<cache, holder, req, size, result, todo, seen>>

\* Mutant: the length of the last value is kept, not that of the largest.
RaiseLargestAlways(c) ==
  /\ pc[c] = "raise"
  /\ largest' = ValueLength[req[c].value]
  /\ Goto(c, "unlock")
  /\ UNCHANGED <<cache, holder, req, size, result, todo, seen>>

\* It writes the length of the value as it was before any compression.
RaiseLargest(c) ==
  /\ pc[c] = "raise"
  /\ largest' = IF size[c] < ValueLength[req[c].value]
                  THEN ValueLength[req[c].value] ELSE largest
  /\ Goto(c, "unlock")
  /\ UNCHANGED <<cache, holder, req, size, result, todo, seen>>

\* GetLargestEntrySize
Measure(c) ==
  /\ pc[c] = "measure"
  /\ \/ /\ size' = [size EXCEPT ![c] = largest]
        /\ Goto(c, "retrieve")
     \/ /\ "shm" \in Faults
        /\ Goto(c, "unlock")
        /\ UNCHANGED size
  /\ UNCHANGED <<cache, largest, holder, req, result, todo, seen>>

\* What the caller may be given for a block that was retrieved.
Decodings(b) ==
  IF Compressing
    THEN {UncompressFromBZ2(b)} \cup (IF "memory" \in Faults THEN {NULL} ELSE {})
    ELSE {b.value}

\* The provider copies the entry only if it fits in the size bytes it is given.
Fits(c) ==
  /\ cache[req[c].key] # NULL
  /\ cache[req[c].key].length <= size[c]

\* Remove goes on to remove the entry whether or not it could be decompressed.
Retrieve(c) ==
  /\ pc[c] = "retrieve"
  /\ \/ /\ Fits(c)
        /\ \E v \in Decodings(cache[req[c].key]) : Returns(c, v)
        /\ Goto(c, IF req[c].op = "remove" THEN "delete" ELSE "unlock")
     \/ /\ ~Fits(c) \/ "memory" \in Faults
        /\ Goto(c, "unlock")
        /\ UNCHANGED result
  /\ UNCHANGED <<cache, largest, holder, req, size, todo, seen>>

\* Mutant: the remove flag is forgotten.
DeleteForgotten(c) ==
  /\ pc[c] = "delete"
  /\ Goto(c, "unlock")
  /\ UNCHANGED <<cache, largest, holder, req, size, result, todo, seen>>

\* The status of the provider's remove is never looked at.
Delete(c) ==
  /\ pc[c] = "delete"
  /\ \/ cache' = [cache EXCEPT ![req[c].key] = NULL]
     \/ "remove" \in Faults /\ UNCHANGED cache
  /\ Goto(c, "unlock")
  /\ UNCHANGED <<largest, holder, req, size, result, todo, seen>>

\* The provider's iterate calls back on each entry with its block as stored,
\* and stops with an error at the first callback that fails.
Visit(c, k) ==
  /\ pc[c] = "visit"
  /\ k \in todo[c]
  /\ \/ /\ todo' = [todo EXCEPT ![c] = @ \ {k}]
        /\ seen' = [seen EXCEPT ![c][k] = cache[k]]
        /\ UNCHANGED <<pc, result>>
     \/ /\ "memory" \in Faults
        /\ cache[k] # NULL
        /\ Returns(c, FALSE)
        /\ Goto(c, "unlock")
        /\ UNCHANGED <<todo, seen>>
  /\ UNCHANGED <<cache, largest, holder, req, size>>

EndVisit(c) ==
  /\ pc[c] = "visit"
  /\ todo[c] = {}
  /\ Goto(c, "unlock")
  /\ UNCHANGED <<cache, largest, holder, req, size, result, todo, seen>>

\* Unlocking a mutex that another thread holds is undefined: the mutex may
\* refuse or may be released all the same.  An unlock that fails is logged, and
\* the call returns with the mutex still taken.
Unlock(c) ==
  /\ pc[c] = "unlock"
  /\ \/ IF holder = c THEN holder' = NULL ELSE holder' \in {holder, NULL}
     \/ "unlock" \in Faults /\ UNCHANGED holder
  /\ Goto(c, "done")
  /\ UNCHANGED <<cache, largest, req, size, result, todo, seen>>

\* The call is over and its locals are gone.
Forget(c) ==
  /\ Goto(c, "idle")
  /\ req' = [req EXCEPT ![c] = NoRequest]
  /\ size' = [size EXCEPT ![c] = 0]
  /\ result' = [result EXCEPT ![c] = NULL]
  /\ todo' = [todo EXCEPT ![c] = {}]
  /\ seen' = [seen EXCEPT ![c] = NoBlocks]
  /\ UNCHANGED <<cache, largest>>

Return(c) ==
  /\ pc[c] = "done"
  /\ Forget(c)
  /\ UNCHANGED holder

\* The process of c is killed and another one takes its place; the system gives
\* its mutex back, and the cache and the segment stay as they are.
Crash(c) ==
  /\ "crash" \in Faults
  /\ pc[c] # "idle" \/ holder = c
  /\ Forget(c)
  /\ holder' = IF holder = c THEN NULL ELSE holder

\* A thread inside an operation, past the wait for the mutex.
Proceed(c) ==
  \/ MakeKey(c) \/ AddStore(c) \/ ReadLargest(c) \/ RaiseLargest(c)
  \/ Measure(c) \/ Retrieve(c) \/ Delete(c)
  \/ (\E k \in Keys : Visit(c, k)) \/ EndVisit(c)
  \/ Unlock(c) \/ Return(c)

Next == \E c \in Clients : \/ \E r \in Requests : Begin(c, r)
                           \/ Lock(c) \/ LockFails(c) \/ Crash(c)
                           \/ Proceed(c)

Spec == Init /\ [][Next]_vars

\* A thread that need not wait for the mutex keeps running; nothing is assumed
\* of who gets a contended mutex, nor that callers ever call.
FairSpec == Spec /\ \A c \in Clients : WF_vars(Proceed(c))

-----------------------------------------------------------------------------
TypeOK ==
  /\ cache \in [Keys -> Blocks \cup {NULL}]
  /\ largest \in Nat
  /\ holder \in Clients \cup {NULL}
  /\ pc \in [Clients -> Steps]
  /\ req \in [Clients -> Requests \cup {NoRequest}]
  /\ size \in [Clients -> Nat]
  /\ result \in [Clients -> Values \cup {NULL} \cup BOOLEAN]
  /\ todo \in [Clients -> SUBSET Keys]
  /\ seen \in [Clients -> [Keys -> Blocks \cup {NULL}]]

\* Two threads are never at work on the provider or on the segment at once:
\* the cross-thread, cross-process mutex that apr_global_storage.h describes.
MutualExclusion ==
  \A c, d \in Clients : pc[c] \in Critical /\ pc[d] \in Critical => c = d

\* Whenever no call is under way the buffer that Find allocates is big enough
\* for every entry, so no entry that was added is out of Find's reach.
LargestCoversEntries ==
  holder = NULL => \A k \in Keys : cache[k] # NULL => cache[k].length <= largest

\* No interleaving of the read and the write in SetLargestEntrySize loses the
\* larger of two lengths.
LargestNeverShrinks == [][largest' >= largest]_largest

\* Every path through the operations, the failing ones too, releases the
\* mutex once it has it, as long as the unlock itself works.
MutexReleased == \A c \in Clients : holder = c ~> holder # c

-----------------------------------------------------------------------------
(* The storage implements StorageContract: a call takes effect when it       *)
(* stores, removes, or is done looking.                                      *)
Committed(c) == pc[c] \in {"grow", "raise", "unlock", "done"}

ValueOf(b) == IF b = NULL THEN NULL ELSE b.value
ValuesOf(m) == [k \in Keys |-> ValueOf(m[k])]

Phase(c) == IF pc[c] = "idle" THEN "idle"
            ELSE IF Committed(c) THEN "answered" ELSE "asked"

Answer(c) == IF Committed(c)
               THEN [result |-> result[c], entries |-> ValuesOf(seen[c])]
               ELSE [result |-> NULL, entries |-> NoBlocks]

Contract == INSTANCE StorageContract WITH
  contents <- ValuesOf(cache),
  phase <- [c \in Clients |-> Phase(c)],
  ask <- req,
  answer <- [c \in Clients |-> Answer(c)],
  fallible <- Faults \cap {"memory", "shm"} # {}

\* Each operation takes effect at one instant, as apr_global_storage.h describes
\* it for AddObjectToAPRGlobalStorage, Get, Remove and Iterate.
ContractSpec == Contract!Spec

UnderFaults == INSTANCE StorageUnderFaults WITH
  contents <- ValuesOf(cache),
  phase <- [c \in Clients |-> Phase(c)],
  ask <- req,
  answer <- [c \in Clients |-> Answer(c)],
  fallible <- TRUE

\* Whatever fails, but the locking in Find, each operation that returns still takes
\* effect at one instant: an Add that returns true has stored its value, no other value
\* than the last is given out, only Remove and the provider drop an entry, and
\* Remove and Iterate do no worse than StorageUnderFaults says.
UnderFaultsSpec == UnderFaults!FaultySpec
=============================================================================
