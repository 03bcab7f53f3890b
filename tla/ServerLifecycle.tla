---------------------------- MODULE ServerLifecycle ----------------------------
(***************************************************************************)
(* src/src/mod_grassroots.c over the life of an httpd: the configuration   *)
(* is read twice when httpd starts and once more at each graceful restart, *)
(* the parent sets up the storage of the servers manager, and every child  *)
(* that is forked makes a GrassrootsServer for each location of the table  *)
(* that the directive handlers filled in.  Forking, clearing the           *)
(* configuration pool and calling the hooks is what httpd does.            *)
(***************************************************************************)
EXTENDS Naturals

CONSTANTS
  Children,    \* the slots that httpd forks processes into
  Sections,    \* <Location> sections with Grassroots directives
  Locations,
  LocationOf,  \* LocationOf[s]: the argument of section s
  Rooted,      \* the sections with a GrassrootsRoot directive
  AprManaged,  \* those with GrassrootsServersManager grassroots-apr-servers-manager
  MaxLoads,    \* bound: how often the configuration is read
  LifeFaults,  \* the calls below that may fail
  NULL

(* mutex: ap_mutex_register; store: setting up the parent's storage; init:   *)
(* InitInformationSystem or an output stream; manager: a child's servers     *)
(* manager; server: AllocateGrassrootsServer.                                *)
ASSUME LifecycleAssumption ==
  /\ LocationOf \in [Sections -> Locations]
  /\ Rooted \subseteq Sections
  /\ AprManaged \subseteq Sections
  /\ MaxLoads \in Nat \ {0, 1}
  /\ LifeFaults \subseteq {"mutex", "store", "init", "manager", "server"}
  /\ NULL \notin [section: Sections, load: Nat]

VARIABLES
  stage,      \* pre, parse: a hook or a parse is due; running; down
  firstPass,  \* httpd reads the configuration to check it, not to run on it
  load,       \* which reading of the configuration this is
  file,       \* the sections in the configuration file
  unread,     \* those that this reading has yet to come to
  loaded,     \* the user data that PostConfig leaves in the process pool
  locations,  \* s_locations_p
  usingAPR,   \* s_using_apr_servers_manager_flag
  store,      \* the storage in the parent, which lives in the configuration pool
  child       \* child[c]: the process in slot c

parentVars == <<stage, firstPass, load, file, unread, loaded, locations, usingAPR, store>>
vars == <<stage, firstPass, load, file, unread, loaded, locations, usingAPR, store, child>>

\* A GrassrootsLocationConfig is that of a section as read by one load.
Configs == [section: Sections, load: 1 .. MaxLoads]
NoLocations == [l \in Locations |-> NULL]

\* servers: the configs whose glc_servers_p has a server at their location;
\* storage: the storage that the manager of each location uses.
NoProcess == [state |-> "gone", table |-> NoLocations, todo |-> {}, servers |-> {},
              storage |-> [l \in Locations |-> "none"], complete |-> TRUE]

Processes == [state: {"gone", "forked", "creating", "up"},
              table: [Locations -> Configs \cup {NULL}],
              todo: SUBSET Locations, servers: SUBSET Configs,
              storage: [Locations -> {"none", "own"}], complete: BOOLEAN]

Listed(table) == {l \in Locations : table[l] # NULL}

-----------------------------------------------------------------------------
Init ==
  /\ stage = "pre"
  /\ firstPass = TRUE
  /\ load = 1
  /\ file \in SUBSET Sections
  /\ unread = {}
  /\ loaded = FALSE
  /\ locations = NoLocations
  /\ usingAPR = FALSE
  /\ store = "none"
  /\ child = [c \in Children |-> NoProcess]

\* httpd gives up, and its children with it.
GiveUp ==
  /\ stage' = "down"
  /\ child' = [c \in Children |-> NoProcess]

\* Mutant: the flag outlives the configuration that set it.
PreConfigKeepsFlag ==
  /\ stage = "pre"
  /\ stage' = "parse"
  /\ unread' = file
  /\ locations' = NoLocations
  /\ UNCHANGED <<firstPass, load, file, loaded, usingAPR, store, child>>

\* Mutant: the table outlives the configuration that filled it.
PreConfigKeepsTable ==
  /\ stage = "pre"
  /\ stage' = "parse"
  /\ unread' = file
  /\ usingAPR' = FALSE
  /\ UNCHANGED <<firstPass, load, file, loaded, locations, store, child>>

GrassrootsPreConfig ==
  /\ stage = "pre"
  /\ \/ /\ stage' = "parse"
        /\ unread' = file
        /\ locations' = NoLocations
        /\ usingAPR' = FALSE
        /\ UNCHANGED child
     \/ /\ "mutex" \in LifeFaults
        /\ GiveUp
        /\ UNCHANGED <<unread, locations, usingAPR>>
  /\ UNCHANGED <<firstPass, load, file, loaded, store>>

\* The table with the config added, unless its location is already there.
AddLocationConfig(table, s) ==
  IF table[LocationOf[s]] = NULL
    THEN [table EXCEPT ![LocationOf[s]] = [section |-> s, load |-> load]]
    ELSE table

\* The directives of a section: each that sets a string registers the location.
SetGrassrootsConfigStrings(s) ==
  /\ stage = "parse"
  /\ s \in unread
  /\ unread' = unread \ {s}
  /\ locations' = AddLocationConfig(locations, s)
  /\ usingAPR' = (usingAPR \/ s \in AprManaged)
  /\ UNCHANGED <<stage, firstPass, load, file, loaded, store, child>>

\* httpd goes on to read the configuration again, in a cleared pool.
Reload ==
  /\ stage' = "pre"
  /\ firstPass' = FALSE
  /\ load' = load + 1
  /\ store' = "none"

\* The first time through only leaves the user data for the next.
GrassrootsPostConfig ==
  /\ stage = "parse"
  /\ unread = {}
  /\ loaded' = TRUE
  /\ \/ \E made \in IF loaded /\ usingAPR THEN {"ready"} ELSE {"none"} :
          IF firstPass THEN Reload /\ UNCHANGED child
          ELSE /\ store' = made
               /\ stage' = "running"
               /\ UNCHANGED <<firstPass, load, child>>
     \/ /\ loaded /\ usingAPR
        /\ "store" \in LifeFaults
        /\ GiveUp
        /\ UNCHANGED <<firstPass, load, store>>
  /\ UNCHANGED <<file, unread, locations, usingAPR>>

GracefulRestart ==
  /\ stage = "running"
  /\ load < MaxLoads
  /\ Reload
  /\ file' \in SUBSET Sections
  /\ UNCHANGED <<unread, loaded, locations, usingAPR, child>>

-----------------------------------------------------------------------------
Fork(c) ==
  /\ stage = "running"
  /\ child[c].state = "gone"
  /\ child' = [child EXCEPT ![c] = [NoProcess EXCEPT !.state = "forked",
                                                     !.table = locations]]
  /\ UNCHANGED parentVars

\* Mutant: the child goes through locations that have no config.
ChildInitWalksAll(c) ==
  /\ child[c].state = "forked"
  /\ child' = [child EXCEPT ![c].state = "creating", ![c].todo = Locations]
  /\ UNCHANGED parentVars

\* Without an information system or streams no server is made at all.
GrassrootsChildInit(c) ==
  /\ child[c].state = "forked"
  /\ \/ child' = [child EXCEPT ![c].state = "creating",
                               ![c].todo = Listed(child[c].table)]
     \/ /\ "init" \in LifeFaults
        /\ child' = [child EXCEPT ![c].state = "up", ![c].complete = FALSE]
  /\ UNCHANGED parentVars

\* A location whose config asks for the APR manager gets a storage of its own.
GetOrCreateNamedGrassrootsServer(c, l) ==
  LET config == child[c].table[l]
  IN /\ config.section \in Rooted
     /\ \E kind \in IF config.section \notin AprManaged THEN {"none"}
                    ELSE {"own"} \cup (IF "manager" \in LifeFaults THEN {"none"} ELSE {}) :
          child' = [child EXCEPT ![c].todo = @ \ {l},
                                 ![c].servers = @ \cup {config},
                                 ![c].storage[l] = kind]

\* Mutant: a failure is not reported to apr_hash_do, which goes on.
ProcessGoesOn(c, l) ==
  /\ child[c].state = "creating"
  /\ l \in child[c].todo
  /\ \/ GetOrCreateNamedGrassrootsServer(c, l)
     \/ /\ child[c].table[l].section \notin Rooted \/ "server" \in LifeFaults
        /\ child' = [child EXCEPT ![c].todo = @ \ {l}]
  /\ UNCHANGED parentVars

\* The first location without a server ends apr_hash_do.
ProcessLocationsHashEntry(c, l) ==
  /\ child[c].state = "creating"
  /\ l \in child[c].todo
  /\ \/ GetOrCreateNamedGrassrootsServer(c, l)
     \/ /\ child[c].table[l].section \notin Rooted \/ "server" \in LifeFaults
        /\ child' = [child EXCEPT ![c].todo = {}, ![c].complete = FALSE]
  /\ UNCHANGED parentVars

\* Mutant: a child that misses a server does not come up.
EndChildInitIfComplete(c) ==
  /\ child[c].state = "creating"
  /\ child[c].todo = {}
  /\ child[c].complete
  /\ child' = [child EXCEPT ![c].state = "up"]
  /\ UNCHANGED parentVars

\* The hook returns and the child starts to take requests.
EndChildInit(c) ==
  /\ child[c].state = "creating"
  /\ child[c].todo = {}
  /\ child' = [child EXCEPT ![c].state = "up"]
  /\ UNCHANGED parentVars

\* A child dies, or has served its time.
Exit(c) ==
  /\ child[c].state # "gone"
  /\ child' = [child EXCEPT ![c] = NoProcess]
  /\ UNCHANGED parentVars

ChildStep(c) == \/ GrassrootsChildInit(c)
                \/ \E l \in Locations : ProcessLocationsHashEntry(c, l)
                \/ EndChildInit(c)

Configure == \/ GrassrootsPreConfig
             \/ \E s \in Sections : SetGrassrootsConfigStrings(s)
             \/ GrassrootsPostConfig

Next == \/ Configure
        \/ GracefulRestart
        \/ \E c \in Children : Fork(c) \/ ChildStep(c) \/ Exit(c)

Spec == Init /\ [][Next]_vars

\* The hook of a child that was forked runs on to its end.
FairSpec == Spec /\ \A c \in Children : WF_vars(ChildStep(c))

-----------------------------------------------------------------------------
TypeOK ==
  /\ stage \in {"pre", "parse", "running", "down"}
  /\ firstPass \in BOOLEAN /\ loaded \in BOOLEAN /\ usingAPR \in BOOLEAN
  /\ load \in 1 .. MaxLoads
  /\ file \in SUBSET Sections /\ unread \in SUBSET Sections
  /\ locations \in [Locations -> Configs \cup {NULL}]
  /\ store \in {"none", "ready"}
  /\ child \in [Children -> Processes]
  /\ \A c \in Children : child[c].todo \subseteq Listed(child[c].table)

\* The mutex and the segment wait for the second load, and once httpd runs they
\* are there if and only if the file as it is now asks for the APR servers
\* manager, whatever earlier loads read.
StoreMatchesFile ==
  /\ firstPass => store = "none"
  /\ stage = "running" => (store = "ready" <=> file \cap AprManaged # {})

\* The table that children are forked with has the locations of the current
\* file, each with a config in the pool of the current load: none is left from
\* a pool that was cleared.
LocationsAreCurrent ==
  stage = "running" =>
    /\ Listed(locations) = {LocationOf[s] : s \in file}
    /\ \A l \in Listed(locations) : /\ locations[l].load = load
                                    /\ locations[l].section \in file
                                    /\ LocationOf[locations[l].section] = l

\* A child that did not log "Failed to create all grassroots servers", and was
\* forked from the table of the current load, has a server for the location of
\* every section of the file, made from a config that is not of a cleared pool.
EverySectionIsServed ==
  stage = "running" =>
    \A c \in Children :
      (child[c].state = "up" /\ child[c].complete /\ child[c].table = locations) =>
        \A s \in file : \E config \in child[c].servers :
          config.load = load /\ LocationOf[config.section] = LocationOf[s]

\* A child that was forked gets to take requests, or is gone.
ChildrenComeUp ==
  \A c \in Children : child[c].state = "forked" ~> child[c].state \in {"up", "gone"}
=============================================================================
