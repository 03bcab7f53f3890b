------------------------------ MODULE JobsManager ------------------------------
(***************************************************************************)
(* src/src/apr_jobs_manager.c: the JobsManager that keeps every ServiceJob *)
(* as JSON text in the storage shared by the httpd processes.  The storage *)
(* is used through its contract, or what is left of it under faults, so    *)
(* that a storage call of one thread may take effect between any two steps *)
(* of another.                                                             *)
(***************************************************************************)
CONSTANTS
  Threads,
  Ids,          \* UUIDs of jobs
  Data,         \* what the JSON of a job says of it: name, status, service...
  NULL,
  Compressing,  \* the storage keeps bzip2 streams (USE_BZIP2)
  UuidIsArray,  \* uuid_t is an array type, as in libuuid, and not a structure
  JobFaults     \* the calls below that may fail

(* service: the job has no service; serialise: its JSON cannot be made; dump: *)
(* json_dumps fails; list: no list can be allocated; rebuild: no job can be   *)
(* made of a text; crash: a process is killed.                                *)
ASSUME JobsAssumption ==
  /\ UuidIsArray \in BOOLEAN
  /\ NULL \notin Data \cup Ids \cup Threads \cup [data: Data, results: BOOLEAN]
  /\ Compressing \in BOOLEAN
  /\ JobFaults \subseteq {"service", "serialise", "dump", "list", "rebuild", "crash"}

VARIABLES
  contents, phase, ask, answer,  \* the storage and the calls on it
  fallible,  \* they may fail; it never changes
  pc,      \* pc[t]: the next step of thread t
  call,    \* call[t]: the operation that t is in
  result   \* result[t]: the value that it has worked out

storageVars == <<contents, phase, ask, answer, fallible>>
vars == <<contents, phase, ask, answer, fallible, pc, call, result>>

\* A job in memory; its results are not part of the JSON that is stored.
ServiceJobs == [data: Data, results: BOOLEAN]

Calls == [op: {"add"}, id: Ids, job: ServiceJobs]
           \cup [op: {"get", "remove", "finished"}, id: Ids, job: {NULL}]
           \cup [op: {"all"}, id: {NULL}, job: {NULL}]
NoCall == [op |-> "none", id |-> NULL, job |-> NULL]

StorageRequests == [op: {"add"}, key: Ids, value: Data]
                     \cup [op: {"get", "remove"}, key: Ids, value: {NULL}]
                     \cup [op: {"iterate"}, key: {NULL}, value: {NULL}]
NoRequest == [op |-> "none", key |-> NULL, value |-> NULL]

Storage == INSTANCE StorageUnderFaults WITH
  Clients <- Threads, Keys <- Ids, Values <- Data,
  Requests <- StorageRequests

Steps == {"idle", "serialise", "query", "list", "stored", "rebuild", "collect", "done"}

Goto(t, step) == pc' = [pc EXCEPT ![t] = step]
Returns(t, r) == Goto(t, "done") /\ result' = [result EXCEPT ![t] = r]

\* GetServiceJobAsJSON with omit_results_flag set, and json_dumps.
TextOf(job) == job.data

\* The storage is given the address of the parameter job_key.  That of an array
\* type is itself a pointer: the 16 bytes there are the caller's address for the
\* UUID and what follows on the stack, and may spell any UUID.
KeysFor(id) == IF UuidIsArray THEN Ids ELSE {id}

\* Mutant: the text is returned in place of the job.
RebuildServiceJobAsText(text) == {text}

\* What RebuildServiceJob may make of a text: NULL if json_loads or
\* CreateServiceJobFromJSON fails.
RebuildServiceJob(text) ==
  {[data |-> text, results |-> FALSE]}
    \cup {NULL : fault \in IF fallible THEN JobFaults \cap {"rebuild"} ELSE {}}

\* What GetAllServiceJobs works out: the jobs in its list, and whether the
\* storage said that these are all, which it does not pass on to its caller.
AllJobs(complete, jobs) == [complete |-> complete, jobs |-> jobs]
NoJobs == [k \in Ids |-> NULL]

-----------------------------------------------------------------------------
Init ==
  /\ Storage!Init
  /\ pc = [t \in Threads |-> "idle"]
  /\ call = [t \in Threads |-> NoCall]
  /\ result = [t \in Threads |-> NULL]

Call(t, m) ==
  /\ pc[t] = "idle"
  /\ call' = [call EXCEPT ![t] = m]
  /\ Goto(t, CASE m.op = "add" -> "serialise"
               [] m.op = "all" -> "list"
               [] OTHER -> "query")
  /\ UNCHANGED <<storageVars, result>>

AddServiceJob(t) ==
  /\ pc[t] = "serialise"
  /\ \/ /\ \E key \in KeysFor(call[t].id) :
             Storage!Ask(t, [op |-> "add", key |-> key,
                             value |-> TextOf(call[t].job)])
        /\ Goto(t, "stored")
        /\ UNCHANGED result
     \/ /\ JobFaults \cap {"service", "serialise", "dump"} # {}
        /\ Returns(t, FALSE)
        /\ UNCHANGED storageVars
  /\ UNCHANGED call

Stored(t) ==
  /\ pc[t] = "stored"
  /\ Storage!Reply(t)
  /\ Returns(t, answer[t].result)
  /\ UNCHANGED call

\* Mutant: a finished job is looked up and not taken out.
QueryServiceJobKeeps(t) ==
  /\ pc[t] = "query"
  /\ \E key \in KeysFor(call[t].id) :
       Storage!Ask(t, [op |-> IF call[t].op = "remove" THEN "remove" ELSE "get",
                       key |-> key, value |-> NULL])
  /\ Goto(t, "rebuild")
  /\ UNCHANGED <<call, result>>

\* Get, Remove and APRServiceJobFinished are one function with the storage
\* operation as its argument.
QueryServiceJob(t) ==
  /\ pc[t] = "query"
  /\ \E key \in KeysFor(call[t].id) :
       Storage!Ask(t, [op |-> IF call[t].op = "get" THEN "get" ELSE "remove",
                       key |-> key, value |-> NULL])
  /\ Goto(t, "rebuild")
  /\ UNCHANGED <<call, result>>

\* Mutant: the call waits for the job to be there.
RebuildWaits(t) ==
  /\ pc[t] = "rebuild"
  /\ Storage!Reply(t)
  /\ answer[t].result # NULL
  /\ \E job \in RebuildServiceJob(answer[t].result) : Returns(t, job)
  /\ UNCHANGED call

Rebuild(t) ==
  /\ pc[t] = "rebuild"
  /\ Storage!Reply(t)
  /\ LET text == answer[t].result
     IN \E job \in IF text = NULL THEN {NULL} ELSE RebuildServiceJob(text) :
          Returns(t, job)
  /\ UNCHANGED call

GetAllServiceJobs(t) ==
  /\ pc[t] = "list"
  /\ \/ /\ Storage!Ask(t, [op |-> "iterate", key |-> NULL, value |-> NULL])
        /\ Goto(t, "collect")
        /\ UNCHANGED result
     \/ /\ fallible /\ "list" \in JobFaults
        /\ Returns(t, AllJobs(FALSE, NoJobs))
        /\ UNCHANGED storageVars
  /\ UNCHANGED call

\* AddServiceJobFromSOCache runs on each entry as the storage holds it, which
\* is no JSON when it is compressed; an entry that gives no job is skipped.
Listed(entries) ==
  {jobs \in [Ids -> ServiceJobs \cup {NULL}] :
     \A k \in Ids : jobs[k] \in IF entries[k] = NULL \/ Compressing THEN {NULL}
                               ELSE RebuildServiceJob(entries[k])}

Collect(t) ==
  /\ pc[t] = "collect"
  /\ Storage!Reply(t)
  /\ \E jobs \in Listed(answer[t].entries) :
       Returns(t, AllJobs(answer[t].result, jobs))
  /\ UNCHANGED call

StorageServes(t) ==
  /\ Storage!Serve(t) \/ Storage!ServeFaulty(t)
  /\ UNCHANGED <<pc, call, result>>

Return(t) ==
  /\ pc[t] = "done"
  /\ Goto(t, "idle")
  /\ call' = [call EXCEPT ![t] = NoCall]
  /\ result' = [result EXCEPT ![t] = NULL]
  /\ UNCHANGED storageVars

Proceed(t) ==
  \/ AddServiceJob(t) \/ Stored(t) \/ QueryServiceJob(t) \/ Rebuild(t)
  \/ GetAllServiceJobs(t) \/ Collect(t) \/ StorageServes(t) \/ Return(t)

\* The process is killed; the one in its place knows nothing of the call.
Crash(t) ==
  /\ fallible /\ "crash" \in JobFaults
  /\ pc[t] # "idle"
  /\ Goto(t, "idle")
  /\ call' = [call EXCEPT ![t] = NoCall]
  /\ result' = [result EXCEPT ![t] = NULL]
  /\ IF phase[t] = "idle" THEN UNCHANGED storageVars ELSE Storage!Abandon(t)

Next == \E t \in Threads :
          (\E m \in Calls : Call(t, m)) \/ Proceed(t) \/ Crash(t)

Spec == Init /\ [][Next]_vars

\* Threads inside a call keep running, and the storage serves what it is asked.
FairSpec == Spec /\ \A t \in Threads : WF_vars(Proceed(t))

-----------------------------------------------------------------------------
TypeOK ==
  /\ fallible \in BOOLEAN
  /\ contents \in [Ids -> Data \cup {NULL}]
  /\ phase \in [Threads -> {"idle", "asked", "answered"}]
  /\ ask \in [Threads -> StorageRequests \cup {NoRequest}]
  /\ pc \in [Threads -> Steps]
  /\ call \in [Threads -> Calls \cup {NoCall}]
  /\ \A t \in Threads :
       /\ pc[t] # "done" => result[t] = NULL
       /\ pc[t] = "done" =>
            CASE call[t].op = "add" -> result[t] \in BOOLEAN
              [] call[t].op = "all" -> result[t].jobs \in [Ids -> ServiceJobs \cup {NULL}]
              [] OTHER -> result[t] \in ServiceJobs \cup {NULL}

\* Every call of the manager returns, whatever fails below it.
CallsReturn == \A t \in Threads : pc[t] # "idle" ~> pc[t] = "idle"

-----------------------------------------------------------------------------
(* The manager is to its callers what the storage is to it: a map, here of   *)
(* jobs, on which every operation takes effect at one instant.               *)
Waiting(t) == \/ pc[t] \in {"serialise", "query", "list"}
              \/ pc[t] \in {"stored", "rebuild", "collect"} /\ phase[t] = "asked"

CallPhase(t) == IF pc[t] = "idle" THEN "idle"
                ELSE IF Waiting(t) THEN "asked" ELSE "answered"

JobRequest(m) ==
  CASE m.op = "add" -> [op |-> "add", key |-> m.id, value |-> TextOf(m.job)]
    [] m.op = "get" -> [op |-> "get", key |-> m.id, value |-> NULL]
    [] m.op \in {"remove", "finished"} -> [op |-> "remove", key |-> m.id, value |-> NULL]
    [] m.op = "all" -> [op |-> "iterate", key |-> NULL, value |-> NULL]
    [] m.op = "none" -> NoRequest

DataOf(job) == IF job = NULL THEN NULL ELSE job.data

JobAnswer(t) ==
  IF pc[t] = "idle" \/ Waiting(t) THEN Storage!NoAnswer
  ELSE IF pc[t] # "done" THEN answer[t]
  ELSE CASE call[t].op = "add" -> [result |-> result[t], entries |-> NoJobs]
         [] call[t].op = "all" -> [result |-> result[t].complete,
                                   entries |-> [k \in Ids |-> DataOf(result[t].jobs[k])]]
         [] OTHER -> [result |-> DataOf(result[t]), entries |-> NoJobs]

Registry == INSTANCE StorageUnderFaults WITH
  Clients <- Threads, Keys <- Ids, Values <- Data,
  Requests <- StorageRequests,
  phase <- [t \in Threads |-> CallPhase(t)],
  ask <- [t \in Threads |-> JobRequest(call[t])],
  answer <- [t \in Threads |-> JobAnswer(t)]

\* Adding, getting, removing, finishing and listing jobs act on one map of jobs:
\* a job read back says what was last added under its id, a removed job is
\* handed to its remover alone, and a list is what was there at one instant.
\* Under faults a call may miss what is there, and a job that is taken out may
\* be lost, but no call ever invents a job or mixes up two.
RegistrySpec == Registry!LossySpec
=============================================================================
