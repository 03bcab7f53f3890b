----------------------------- MODULE ServersManager -----------------------------
(***************************************************************************)
(* src/src/apr_external_servers_manager.c: the ServersManager that keeps   *)
(* what is known of each external Grassroots server in the shared storage, *)
(* under the server's URI.  A caller may bring a serialise and deserialise *)
(* function of its own; without them a server is stored as JSON text.      *)
(***************************************************************************)
EXTENDS Integers

CONSTANTS
  Threads,
  Uris,
  Servers,      \* descriptions of external servers
  Formats,      \* {"json"}, or with "custom" too if callers bring functions
  NULL,
  Compressing,  \* the storage keeps bzip2 streams (USE_BZIP2)
  ServerFaults  \* the calls below that may fail

\* serialise: no text is made of a server; list: no list can be allocated;
\* rebuild: no server can be made of a text; crash: a process is killed.
ASSUME ServersAssumption ==
  /\ NULL \notin Servers \cup Uris \cup Threads \cup [server: Servers, format: Formats]
  /\ Formats \subseteq {"json", "custom"}
  /\ Compressing \in BOOLEAN
  /\ ServerFaults \subseteq {"serialise", "list", "rebuild", "crash"}

VARIABLES
  contents, phase, ask, answer,  \* the storage and the calls on it
  fallible,  \* they may fail; it never changes
  pc,      \* pc[t]: the next step of thread t
  call,    \* call[t]: the operation that t is in
  result   \* result[t]: the value that it has worked out

storageVars == <<contents, phase, ask, answer, fallible>>
vars == <<contents, phase, ask, answer, fallible, pc, call, result>>

Texts == [server: Servers, format: Formats]

Calls == [op: {"add"}, uri: Uris, server: Servers, format: Formats]
           \cup [op: {"get", "remove"}, uri: Uris, server: {NULL}, format: Formats]
           \cup [op: {"all"}, uri: {NULL}, server: {NULL}, format: Formats]
NoCall == [op |-> "none", uri |-> NULL, server |-> NULL, format |-> NULL]

StorageRequests == [op: {"add"}, key: Uris, value: Texts]
                     \cup [op: {"get", "remove"}, key: Uris, value: {NULL}]
                     \cup [op: {"iterate"}, key: {NULL}, value: {NULL}]
NoRequest == [op |-> "none", key |-> NULL, value |-> NULL]

\* The storage is used without a key function: the URI itself is the key.
Storage == INSTANCE StorageUnderFaults WITH
  Clients <- Threads, Keys <- Uris, Values <- Texts,
  Requests <- StorageRequests

Steps == {"idle", "serialise", "query", "list", "stored", "rebuild", "collect", "done"}

Goto(t, step) == pc' = [pc EXCEPT ![t] = step]
Returns(t, r) == Goto(t, "done") /\ result' = [result EXCEPT ![t] = r]

TextOf(server, format) == [server |-> server, format |-> format]

\* What may come of reading a text back: nothing, unless it is read by the
\* function that goes with the one that wrote it, or if that one fails.
ReadAs(text, format) ==
  (IF text.format = format THEN {text.server} ELSE {NULL})
    \cup {NULL : fault \in IF fallible THEN ServerFaults \cap {"rebuild"} ELSE {}}

AllServers(complete, servers) == [complete |-> complete, servers |-> servers]
NoServers == [u \in Uris |-> NULL]

-----------------------------------------------------------------------------
Init ==
  /\ Storage!Init
  /\ pc = [t \in Threads |-> "idle"]
  /\ call = [t \in Threads |-> NoCall]
  /\ result = [t \in Threads |-> NULL]

Call(t, m) ==
  /\ pc[t] = "idle"
  /\ call' = [call EXCEPT ![t] = m]
  /\ Goto(t, CASE m.op = "add" -> "serialise"
               [] m.op = "all" -> "list"
               [] OTHER -> "query")
  /\ UNCHANGED <<storageVars, result>>

AddExternalServer(t) ==
  /\ pc[t] = "serialise"
  /\ \/ /\ Storage!Ask(t, [op |-> "add", key |-> call[t].uri,
                           value |-> TextOf(call[t].server, call[t].format)])
        /\ Goto(t, "stored")
        /\ UNCHANGED result
     \/ /\ "serialise" \in ServerFaults
        /\ Returns(t, -1)
        /\ UNCHANGED storageVars
  /\ UNCHANGED call

\* Mutant: nothing is assigned to the value returned.
StoredUnset(t) ==
  /\ pc[t] = "stored"
  /\ Storage!Reply(t)
  /\ Returns(t, NULL)
  /\ UNCHANGED call

\* 0 is success, as the server itself need not be kept in memory now.
Stored(t) ==
  /\ pc[t] = "stored"
  /\ Storage!Reply(t)
  /\ Returns(t, IF answer[t].result THEN 0 ELSE -1)
  /\ UNCHANGED call

\* Mutant: Remove only looks the server up.
QueryExternalServerKeeps(t) ==
  /\ pc[t] = "query"
  /\ Storage!Ask(t, [op |-> "get", key |-> call[t].uri, value |-> NULL])
  /\ Goto(t, "rebuild")
  /\ UNCHANGED <<call, result>>

QueryExternalServer(t) ==
  /\ pc[t] = "query"
  /\ Storage!Ask(t, [op |-> call[t].op, key |-> call[t].uri, value |-> NULL])
  /\ Goto(t, "rebuild")
  /\ UNCHANGED <<call, result>>

Rebuild(t) ==
  /\ pc[t] = "rebuild"
  /\ Storage!Reply(t)
  /\ LET text == answer[t].result
     IN \E server \in IF text = NULL THEN {NULL} ELSE ReadAs(text, call[t].format) :
          Returns(t, server)
  /\ UNCHANGED call

GetAllExternalServers(t) ==
  /\ pc[t] = "list"
  /\ \/ /\ Storage!Ask(t, [op |-> "iterate", key |-> NULL, value |-> NULL])
        /\ Goto(t, "collect")
        /\ UNCHANGED result
     \/ /\ fallible /\ "list" \in ServerFaults
        /\ Returns(t, AllServers(FALSE, NoServers))
        /\ UNCHANGED storageVars
  /\ UNCHANGED call

\* AddExternalServerFromSOCache reads each entry, as the storage holds it, as
\* JSON, whatever deserialise function the caller of GetAll brought.
Listed(entries) ==
  {servers \in [Uris -> Servers \cup {NULL}] :
     \A u \in Uris : servers[u] \in IF entries[u] = NULL \/ Compressing THEN {NULL}
                                  ELSE ReadAs(entries[u], "json")}

Collect(t) ==
  /\ pc[t] = "collect"
  /\ Storage!Reply(t)
  /\ \E servers \in Listed(answer[t].entries) :
       Returns(t, AllServers(answer[t].result, servers))
  /\ UNCHANGED call

StorageServes(t) ==
  /\ Storage!Serve(t) \/ Storage!ServeFaulty(t)
  /\ UNCHANGED <<pc, call, result>>

Return(t) ==
  /\ pc[t] = "done"
  /\ Goto(t, "idle")
  /\ call' = [call EXCEPT ![t] = NoCall]
  /\ result' = [result EXCEPT ![t] = NULL]
  /\ UNCHANGED storageVars

Proceed(t) ==
  \/ AddExternalServer(t) \/ Stored(t) \/ QueryExternalServer(t) \/ Rebuild(t)
  \/ GetAllExternalServers(t) \/ Collect(t) \/ StorageServes(t) \/ Return(t)

\* The process is killed; the one in its place knows nothing of the call.
Crash(t) ==
  /\ fallible /\ "crash" \in ServerFaults
  /\ pc[t] # "idle"
  /\ Goto(t, "idle")
  /\ call' = [call EXCEPT ![t] = NoCall]
  /\ result' = [result EXCEPT ![t] = NULL]
  /\ IF phase[t] = "idle" THEN UNCHANGED storageVars ELSE Storage!Abandon(t)

Next == \E t \in Threads :
          (\E m \in Calls : Call(t, m)) \/ Proceed(t) \/ Crash(t)

Spec == Init /\ [][Next]_vars

-----------------------------------------------------------------------------
TypeOK ==
  /\ fallible \in BOOLEAN
  /\ contents \in [Uris -> Texts \cup {NULL}]
  /\ phase \in [Threads -> {"idle", "asked", "answered"}]
  /\ ask \in [Threads -> StorageRequests \cup {NoRequest}]
  /\ pc \in [Threads -> Steps]
  /\ call \in [Threads -> Calls \cup {NoCall}]
  /\ \A t \in Threads :
       /\ pc[t] # "done" => result[t] = NULL
       /\ pc[t] = "done" =>
            CASE call[t].op = "add" -> result[t] \in {0, -1}
              [] call[t].op = "all" -> result[t].servers \in [Uris -> Servers \cup {NULL}]
              [] OTHER -> result[t] \in Servers \cup {NULL}

-----------------------------------------------------------------------------
(* To its callers the manager is a map of servers, with atomic operations.   *)
Waiting(t) == \/ pc[t] \in {"serialise", "query", "list"}
              \/ pc[t] \in {"stored", "rebuild", "collect"} /\ phase[t] = "asked"

CallPhase(t) == IF pc[t] = "idle" THEN "idle"
                ELSE IF Waiting(t) THEN "asked" ELSE "answered"

ServerRequest(m) ==
  CASE m.op = "add" -> [op |-> "add", key |-> m.uri, value |-> m.server]
    [] m.op \in {"get", "remove"} -> [op |-> m.op, key |-> m.uri, value |-> NULL]
    [] m.op = "all" -> [op |-> "iterate", key |-> NULL, value |-> NULL]
    [] m.op = "none" -> NoRequest

ServerOf(text) == IF text = NULL THEN NULL ELSE text.server
ServersOf(texts) == [u \in Uris |-> ServerOf(texts[u])]

ServerAnswer(t) ==
  LET found == IF call[t].op \in {"get", "remove"} THEN ServerOf(answer[t].result)
               ELSE answer[t].result
  IN IF pc[t] = "idle" \/ Waiting(t) THEN [result |-> NULL, entries |-> NoServers]
     ELSE IF pc[t] # "done" THEN [result |-> found, entries |-> ServersOf(answer[t].entries)]
     ELSE CASE call[t].op = "add" -> [result |-> result[t] = 0, entries |-> NoServers]
            [] call[t].op = "all" -> [result |-> result[t].complete,
                                      entries |-> result[t].servers]
            [] OTHER -> [result |-> result[t], entries |-> NoServers]

Registry == INSTANCE StorageUnderFaults WITH
  Clients <- Threads, Keys <- Uris, Values <- Servers,
  Requests <- [op: {"add"}, key: Uris, value: Servers]
                \cup [op: {"get", "remove"}, key: Uris, value: {NULL}]
                \cup [op: {"iterate"}, key: {NULL}, value: {NULL}],
  contents <- ServersOf(contents),
  phase <- [t \in Threads |-> CallPhase(t)],
  ask <- [t \in Threads |-> ServerRequest(call[t])],
  answer <- [t \in Threads |-> ServerAnswer(t)]

\* Adding, getting, removing and listing servers act on one map from URIs to
\* servers, each at one instant, while every caller keeps to the JSON format.
\* Under faults a call may miss a server that is there, or lose one that it
\* takes out, but none ever returns a server that was not added under its URI.
RegistrySpec == Registry!LossySpec
=============================================================================
