-------------------------- MODULE ServerLifecycleProofs --------------------------
(***************************************************************************)
(* Theorems about ServerLifecycle for any number of children, sections and *)
(* locations, any number of restarts, and whichever calls fail.            *)
(***************************************************************************)
EXTENDS ServerLifecycle, TLAPS

LEMMA NoProcessIsProcess == NoProcess \in Processes /\ NoProcess.todo = {}
<1>1. NoLocations \in [Locations -> Configs \cup {NULL}]
  BY DEF NoLocations
<1> QED
  BY <1>1 DEF NoProcess, Processes

\* What a load has done so far, at each of its stages.
LoadInv ==
  /\ firstPass <=> ~loaded
  /\ firstPass => load = 1 /\ store = "none" /\ stage # "running"
  /\ stage \in {"pre", "parse"} => store = "none"
  /\ unread \subseteq file
  /\ stage \in {"pre", "running"} => unread = {}

\* The flag and the table are those of the sections that were read so far.
ParseInv ==
  /\ stage \in {"parse", "running"} =>
       /\ usingAPR <=> (file \ unread) \cap AprManaged # {}
       /\ \A s \in file \ unread : locations[LocationOf[s]] # NULL
       /\ \A l \in Listed(locations) : /\ locations[l].load = load
                                       /\ locations[l].section \in file \ unread
                                       /\ LocationOf[locations[l].section] = l
  /\ stage = "running" => (store = "ready" <=> usingAPR)

\* A child without a failure has the servers of the locations it is done with.
ChildInv ==
  \A c \in Children :
    /\ child[c].state \in {"forked", "up"} => child[c].todo = {}
    /\ child[c].state \in {"creating", "up"} /\ child[c].complete =>
         \A l \in Listed(child[c].table) \ child[c].todo :
           child[c].table[l] \in child[c].servers

IInv == TypeOK /\ LoadInv /\ ParseInv /\ ChildInv

-----------------------------------------------------------------------------
LEMMA InitIInv == Init => IInv
<1> SUFFICES ASSUME Init PROVE IInv
  OBVIOUS
<1>1. NoLocations \in [Locations -> Configs \cup {NULL}]
  BY DEF NoLocations
<1>2. 1 \in 1 .. MaxLoads
  BY LifecycleAssumption
<1>3. TypeOK
  BY <1>1, <1>2, NoProcessIsProcess DEF Init, TypeOK
<1>4. LoadInv /\ ParseInv
  BY DEF Init, LoadInv, ParseInv
<1>5. ChildInv
  BY DEF Init, ChildInv, NoProcess
<1> QED
  BY <1>3, <1>4, <1>5 DEF IInv

\* Steps of the parent that leave the children alone, or end them all.
LEMMA ChildrenKept ==
  ASSUME IInv, UNCHANGED child \/ child' = [c \in Children |-> NoProcess]
  PROVE  /\ child' \in [Children -> Processes]
         /\ \A c \in Children : child'[c].todo \subseteq Listed(child'[c].table)
         /\ ChildInv'
<1>1. CASE UNCHANGED child
  BY <1>1 DEF IInv, TypeOK, ChildInv
<1>2. CASE child' = [c \in Children |-> NoProcess]
  BY <1>2, NoProcessIsProcess DEF ChildInv, NoProcess
<1> QED
  BY <1>1, <1>2

LEMMA PreConfigKeepsIInv == IInv /\ GrassrootsPreConfig => IInv'
<1> SUFFICES ASSUME IInv, GrassrootsPreConfig PROVE IInv'
  OBVIOUS
<1> USE DEF IInv
<1>1. ChildInv' /\ child' \in [Children -> Processes]
      /\ \A c \in Children : child'[c].todo \subseteq Listed(child'[c].table)
  BY ChildrenKept DEF GrassrootsPreConfig, GiveUp
<1>2. NoLocations \in [Locations -> Configs \cup {NULL}]
  BY DEF NoLocations
<1>3. TypeOK'
  BY <1>1, <1>2 DEF TypeOK, GrassrootsPreConfig, GiveUp
<1>4. LoadInv'
  BY DEF LoadInv, GrassrootsPreConfig, GiveUp
<1>5. ParseInv'
  BY DEF LoadInv, ParseInv, GrassrootsPreConfig, GiveUp, NoLocations, Listed
<1> QED
  BY <1>1, <1>3, <1>4, <1>5

\* A section's config takes its location unless an earlier one has it.
LEMMA AddedConfig ==
  ASSUME TypeOK, NEW s \in Sections,
         NEW table, table = AddLocationConfig(locations, s)
  PROVE  /\ table \in [Locations -> Configs \cup {NULL}]
         /\ table[LocationOf[s]] # NULL
         /\ \A l \in Locations :
              \/ table[l] = locations[l]
              \/ /\ l = LocationOf[s]
                 /\ table[l] = [section |-> s, load |-> load]
<1>1. LocationOf[s] \in Locations
  BY LifecycleAssumption
<1>2. [section |-> s, load |-> load] \in Configs
  BY DEF TypeOK, Configs
<1>3. NULL \notin Configs
  <2>1. Configs \subseteq [section: Sections, load: Nat]
    BY LifecycleAssumption DEF Configs
  <2> QED
    BY <2>1, LifecycleAssumption
<1> QED
  BY <1>1, <1>2, <1>3 DEF TypeOK, AddLocationConfig

LEMMA DirectivesKeepIInv ==
  ASSUME IInv, NEW s \in Sections, SetGrassrootsConfigStrings(s)
  PROVE  IInv'
<1> USE DEF IInv
<1>1. ChildInv' /\ child' \in [Children -> Processes]
      /\ \A c \in Children : child'[c].todo \subseteq Listed(child'[c].table)
  BY ChildrenKept DEF SetGrassrootsConfigStrings
<1>2. /\ locations' \in [Locations -> Configs \cup {NULL}]
      /\ locations'[LocationOf[s]] # NULL
      /\ \A l \in Locations :
           \/ locations'[l] = locations[l]
           \/ /\ l = LocationOf[s]
              /\ locations'[l] = [section |-> s, load |-> load]
  BY AddedConfig DEF SetGrassrootsConfigStrings
<1>3. TypeOK'
  BY <1>1, <1>2 DEF TypeOK, SetGrassrootsConfigStrings
<1>4. LoadInv'
  BY DEF LoadInv, SetGrassrootsConfigStrings
<1>5. ParseInv'
  <2>1. stage = "parse" /\ stage' = "parse" /\ file' = file /\ load' = load
    BY DEF SetGrassrootsConfigStrings
  <2>2. s \in file /\ file' \ unread' = (file \ unread) \cup {s}
    BY DEF SetGrassrootsConfigStrings, LoadInv
  <2>3. usingAPR' <=> (file' \ unread') \cap AprManaged # {}
    BY <2>1, <2>2 DEF SetGrassrootsConfigStrings, ParseInv, TypeOK
  <2>4. \A r \in file' \ unread' : locations'[LocationOf[r]] # NULL
    <3> SUFFICES ASSUME NEW r \in file' \ unread'
                 PROVE  locations'[LocationOf[r]] # NULL
      OBVIOUS
    <3>1. CASE LocationOf[r] = LocationOf[s]
      BY <1>2, <3>1
    <3>2. CASE LocationOf[r] # LocationOf[s]
      BY <1>2, <2>1, <2>2, <3>2, LifecycleAssumption DEF ParseInv, TypeOK
    <3> QED
      BY <3>1, <3>2
  <2>5. \A l \in Listed(locations)' : /\ locations'[l].load = load'
                                      /\ locations'[l].section \in file' \ unread'
                                      /\ LocationOf[locations'[l].section] = l
    <3> SUFFICES ASSUME NEW l \in Locations, locations'[l] # NULL
                 PROVE  /\ locations'[l].load = load'
                        /\ locations'[l].section \in file' \ unread'
                        /\ LocationOf[locations'[l].section] = l
      BY DEF Listed
    <3>1. CASE locations'[l] = locations[l]
      BY <2>1, <2>2, <3>1 DEF ParseInv, Listed
    <3>2. CASE l = LocationOf[s] /\ locations'[l] = [section |-> s, load |-> load]
      BY <2>1, <2>2, <3>2
    <3> QED
      BY <1>2, <3>1, <3>2
  <2> QED
    BY <2>1, <2>3, <2>4, <2>5 DEF ParseInv
<1> QED
  BY <1>1, <1>3, <1>4, <1>5

LEMMA PostConfigKeepsIInv == IInv /\ GrassrootsPostConfig => IInv'
<1> SUFFICES ASSUME IInv, GrassrootsPostConfig PROVE IInv'
  OBVIOUS
<1> USE DEF IInv
<1>1. ChildInv' /\ child' \in [Children -> Processes]
      /\ \A c \in Children : child'[c].todo \subseteq Listed(child'[c].table)
  BY ChildrenKept DEF GrassrootsPostConfig, GiveUp
<1>2. load' \in 1 .. MaxLoads
  BY LifecycleAssumption DEF GrassrootsPostConfig, Reload, GiveUp, LoadInv, TypeOK
<1>3. TypeOK'
  BY <1>1, <1>2 DEF TypeOK, GrassrootsPostConfig, Reload, GiveUp
<1>4. LoadInv'
  BY DEF LoadInv, TypeOK, GrassrootsPostConfig, Reload, GiveUp
<1>5. ParseInv'
  <2>1. CASE stage' = "running"
    <3>1. stage = "parse" /\ loaded /\ UNCHANGED <<load, file, unread, locations, usingAPR>>
      BY <2>1 DEF GrassrootsPostConfig, Reload, GiveUp, LoadInv
    <3>2. store' = IF usingAPR THEN "ready" ELSE "none"
      BY <2>1, <3>1 DEF GrassrootsPostConfig, Reload, GiveUp
    <3> QED
      BY <2>1, <3>1, <3>2 DEF ParseInv, Listed
  <2>2. CASE stage' # "running"
    BY <2>2 DEF ParseInv, GrassrootsPostConfig, Reload, GiveUp
  <2> QED
    BY <2>1, <2>2
<1> QED
  BY <1>1, <1>3, <1>4, <1>5

LEMMA RestartKeepsIInv == IInv /\ GracefulRestart => IInv'
<1> SUFFICES ASSUME IInv, GracefulRestart PROVE IInv'
  OBVIOUS
<1> USE DEF IInv, GracefulRestart, Reload
<1>1. ChildInv' /\ child' \in [Children -> Processes]
      /\ \A c \in Children : child'[c].todo \subseteq Listed(child'[c].table)
  BY ChildrenKept
<1>2. load' \in 1 .. MaxLoads
  BY LifecycleAssumption DEF TypeOK
<1>3. TypeOK'
  BY <1>1, <1>2 DEF TypeOK
<1>4. LoadInv' /\ ParseInv'
  BY DEF LoadInv, ParseInv, TypeOK
<1> QED
  BY <1>1, <1>3, <1>4

-----------------------------------------------------------------------------
\* A step of one child has to put a process with ChildInv in its slot.
LEMMA ProcessReplaced ==
  ASSUME IInv, UNCHANGED parentVars,
         NEW c \in Children, NEW p \in Processes,
         child' = [child EXCEPT ![c] = p],
         p.todo \subseteq Listed(p.table),
         p.state \in {"forked", "up"} => p.todo = {},
         p.state \in {"creating", "up"} /\ p.complete =>
           \A l \in Listed(p.table) \ p.todo : p.table[l] \in p.servers
  PROVE  IInv'
<1> USE DEF IInv, parentVars
<1>1. TypeOK'
  BY DEF TypeOK
<1>2. LoadInv' /\ ParseInv'
  BY DEF LoadInv, ParseInv, Listed
<1>3. ChildInv'
  BY DEF ChildInv, TypeOK
<1> QED
  BY <1>1, <1>2, <1>3

LEMMA ForkKeepsIInv ==
  ASSUME IInv, NEW c \in Children, Fork(c)
  PROVE  IInv'
<1> DEFINE p == [NoProcess EXCEPT !.state = "forked", !.table = locations]
<1>1. p \in Processes /\ p.todo = {} /\ p.state = "forked"
  BY NoProcessIsProcess DEF IInv, TypeOK, Processes
<1>2. child' = [child EXCEPT ![c] = p] /\ UNCHANGED parentVars
  BY DEF Fork
<1> QED
  BY <1>1, <1>2, ProcessReplaced

LEMMA ExitKeepsIInv ==
  ASSUME IInv, NEW c \in Children, Exit(c)
  PROVE  IInv'
<1>1. NoProcess.state = "gone"
  BY DEF NoProcess
<1> QED
  BY <1>1, NoProcessIsProcess, ProcessReplaced DEF Exit

LEMMA ChildInitKeepsIInv ==
  ASSUME IInv, NEW c \in Children, GrassrootsChildInit(c)
  PROVE  IInv'
<1> DEFINE walk == [child[c] EXCEPT !.state = "creating", !.todo = Listed(child[c].table)]
           fail == [child[c] EXCEPT !.state = "up", !.complete = FALSE]
<1>1. child[c] \in Processes /\ child[c].todo = {} /\ UNCHANGED parentVars
  BY DEF GrassrootsChildInit, IInv, TypeOK, ChildInv
<1>2. CASE child' = [child EXCEPT ![c].state = "creating",
                                  ![c].todo = Listed(child[c].table)]
  <2>1. child' = [child EXCEPT ![c] = walk]
    BY <1>1, <1>2 DEF IInv, TypeOK, Processes
  <2>2. walk \in Processes /\ walk.todo = Listed(walk.table) /\ walk.state = "creating"
    BY <1>1 DEF Processes, Listed
  <2> QED
    BY <1>1, <2>1, <2>2, ProcessReplaced
<1>3. CASE child' = [child EXCEPT ![c].state = "up", ![c].complete = FALSE]
  <2>1. child' = [child EXCEPT ![c] = fail]
    BY <1>1, <1>3 DEF IInv, TypeOK, Processes
  <2>2. fail \in Processes /\ fail.todo = {} /\ ~fail.complete
    BY <1>1 DEF Processes
  <2> QED
    BY <1>1, <2>1, <2>2, ProcessReplaced
<1> QED
  BY <1>2, <1>3 DEF GrassrootsChildInit

\* The location that is done with has its server, or the walk is over.
LEMMA ProcessKeepsIInv ==
  ASSUME IInv, NEW c \in Children, NEW l \in Locations, ProcessLocationsHashEntry(c, l)
  PROVE  IInv'
<1> DEFINE config == child[c].table[l]
<1>1. /\ child[c] \in Processes /\ UNCHANGED parentVars
      /\ child[c].state = "creating"
      /\ l \in Listed(child[c].table) /\ child[c].todo \subseteq Listed(child[c].table)
      /\ config \in Configs
      /\ child[c].complete => \A j \in Listed(child[c].table) \ child[c].todo :
                                child[c].table[j] \in child[c].servers
  BY DEF ProcessLocationsHashEntry, IInv, TypeOK, ChildInv, Processes, Listed
<1>2. ASSUME NEW kind \in {"none", "own"},
             child' = [child EXCEPT ![c].todo = @ \ {l},
                                    ![c].servers = @ \cup {config},
                                    ![c].storage[l] = kind]
      PROVE  IInv'
  <2> DEFINE p == [child[c] EXCEPT !.todo = @ \ {l}, !.servers = @ \cup {config},
                                   !.storage = [@ EXCEPT ![l] = kind]]
  <2>1. child' = [child EXCEPT ![c] = p]
    BY <1>1, <1>2 DEF IInv, TypeOK, Processes
  <2>2. /\ p \in Processes /\ p.state = "creating" /\ p.table = child[c].table
        /\ p.todo = child[c].todo \ {l} /\ p.servers = child[c].servers \cup {config}
        /\ p.complete = child[c].complete
    BY <1>1 DEF Processes
  <2>3. p.complete => \A j \in Listed(p.table) \ p.todo : p.table[j] \in p.servers
    BY <1>1, <2>2
  <2> HIDE DEF p
  <2> QED
    BY <1>1, <2>1, <2>2, <2>3, ProcessReplaced
<1>3. CASE child' = [child EXCEPT ![c].todo = {}, ![c].complete = FALSE]
  <2> DEFINE p == [child[c] EXCEPT !.todo = {}, !.complete = FALSE]
  <2>1. child' = [child EXCEPT ![c] = p]
    BY <1>1, <1>3 DEF IInv, TypeOK, Processes
  <2>2. p \in Processes /\ p.todo = {} /\ ~p.complete
    BY <1>1 DEF Processes
  <2> QED
    BY <1>1, <2>1, <2>2, ProcessReplaced
<1> QED
  BY <1>2, <1>3 DEF ProcessLocationsHashEntry, GetOrCreateNamedGrassrootsServer

LEMMA EndKeepsIInv ==
  ASSUME IInv, NEW c \in Children, EndChildInit(c)
  PROVE  IInv'
<1> DEFINE p == [child[c] EXCEPT !.state = "up"]
<1>1. child[c] \in Processes /\ child[c].todo = {} /\ UNCHANGED parentVars
  BY DEF EndChildInit, IInv, TypeOK
<1>2. child' = [child EXCEPT ![c] = p]
  BY <1>1 DEF EndChildInit, IInv, TypeOK, Processes
<1>3. /\ p \in Processes /\ p.todo = {} /\ p.table = child[c].table
      /\ p.servers = child[c].servers /\ p.complete = child[c].complete
  BY <1>1 DEF Processes
<1>4. p.complete => \A l \in Listed(p.table) : p.table[l] \in p.servers
  BY <1>1, <1>3 DEF EndChildInit, IInv, ChildInv
<1> HIDE DEF p
<1> QED
  BY <1>1, <1>2, <1>3, <1>4, ProcessReplaced

-----------------------------------------------------------------------------
LEMMA StepIInv == IInv /\ [Next]_vars => IInv'
<1> SUFFICES ASSUME IInv, [Next]_vars PROVE IInv'
  OBVIOUS
<1>1. CASE Configure
  BY <1>1, PreConfigKeepsIInv, DirectivesKeepIInv, PostConfigKeepsIInv DEF Configure
<1>2. CASE GracefulRestart
  BY <1>2, RestartKeepsIInv
<1>3. ASSUME NEW c \in Children, Fork(c) \/ ChildStep(c) \/ Exit(c) PROVE IInv'
  BY <1>3, ForkKeepsIInv, ExitKeepsIInv, ChildInitKeepsIInv, ProcessKeepsIInv,
     EndKeepsIInv DEF ChildStep
<1>4. CASE UNCHANGED vars
  <2>1. UNCHANGED parentVars /\ UNCHANGED child
    BY <1>4 DEF vars, parentVars
  <2> QED
    BY <2>1 DEF parentVars, IInv, TypeOK, LoadInv, ParseInv, ChildInv, Listed
<1> QED
  BY <1>1, <1>2, <1>3, <1>4 DEF Next

THEOREM Invariance == Spec => []IInv
BY InitIInv, StepIInv, PTL DEF Spec

\* The state of the parent and of every child is of its type, whatever fails.
THEOREM TypeCorrect == Spec => []TypeOK
<1>1. IInv => TypeOK
  BY DEF IInv
<1> QED
  BY <1>1, Invariance, PTL

\* Once httpd runs, the parent's storage is there if and only if the current file
\* asks for the APR servers manager.
THEOREM StoreMatches == Spec => []StoreMatchesFile
<1>1. IInv => StoreMatchesFile
  BY DEF IInv, LoadInv, ParseInv, StoreMatchesFile
<1> QED
  BY <1>1, Invariance, PTL

\* Children are forked with the locations and configs of the current load alone.
THEOREM TableCurrent == Spec => []LocationsAreCurrent
<1>1. IInv => LocationsAreCurrent
  <2> SUFFICES ASSUME IInv, stage = "running" PROVE LocationsAreCurrent
    BY DEF LocationsAreCurrent
  <2>1. file \ unread = file
    BY DEF IInv, LoadInv
  <2>2. \A l \in Listed(locations) : /\ locations[l].load = load
                                     /\ locations[l].section \in file
                                     /\ LocationOf[locations[l].section] = l
    BY <2>1 DEF IInv, ParseInv
  <2>3. \A s \in file : LocationOf[s] \in Listed(locations)
    BY <2>1, LifecycleAssumption DEF IInv, ParseInv, TypeOK, Listed
  <2>4. Listed(locations) = {LocationOf[s] : s \in file}
    BY <2>2, <2>3
  <2> QED
    BY <2>2, <2>4 DEF LocationsAreCurrent
<1> QED
  BY <1>1, Invariance, PTL

\* A child that logged no failure serves every section of the file it was forked
\* under, whatever happened to other children and to earlier loads.
THEOREM SectionsServed == Spec => []EverySectionIsServed
<1>1. IInv => EverySectionIsServed
  <2> SUFFICES ASSUME IInv, stage = "running", NEW c \in Children,
                      child[c].state = "up", child[c].complete,
                      child[c].table = locations, NEW s \in file
               PROVE  \E config \in child[c].servers :
                        config.load = load /\ LocationOf[config.section] = LocationOf[s]
    BY DEF EverySectionIsServed
  <2> DEFINE l == LocationOf[s]
  <2>1. file \ unread = file
    BY DEF IInv, LoadInv
  <2>2. l \in Listed(locations)
    BY <2>1, LifecycleAssumption DEF IInv, ParseInv, TypeOK, Listed
  <2>3. locations[l].load = load /\ LocationOf[locations[l].section] = l
    BY <2>2 DEF IInv, ParseInv
  <2>4. locations[l] \in child[c].servers
    BY <2>2 DEF IInv, ChildInv
  <2> QED
    BY <2>3, <2>4
<1> QED
  BY <1>1, Invariance, PTL
=============================================================================
