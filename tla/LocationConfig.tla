----------------------------- MODULE LocationConfig -----------------------------
(***************************************************************************)
(* src/src/mod_grassroots.c: what the directives of a section leave in its *)
(* GrassrootsLocationConfig, and what config a request gets once httpd has *)
(* merged the sections that match it.  httpd merges the sections one after *)
(* the other and the result with the config of the server.                 *)
(***************************************************************************)
EXTENDS Naturals, Sequences, ConfigMerge

CONSTANTS
  Sections,    \* <Location> sections
  LocationOf,  \* LocationOf[s]: the argument of section s
  Directives,  \* the directives that occur in them
  Values       \* their arguments

\* The field that the handler of each directive sets.
FieldOf == [
  GrassrootsRoot                  |-> "root_path",
  GrassrootsConfig                |-> "config",
  GrassrootsServicesConfigPath    |-> "services_config_path",
  GrassrootsServicesPath          |-> "services_path",
  GrassrootsReferenceServicesPath |-> "services_config_path",
  GrassrootsServersManager        |-> "servers_manager",
  GrassrootsServersManagersPath   |-> "servers_path",
  GrassrootsJobManager            |-> "jobs_manager",
  GrassrootsJobManagersPath       |-> "jobs_managers_path",
  GrassrootsUserAuth              |-> "user_auth_system",
  GrassrootsUserAuthClaim         |-> "user_auth_claim",
  GrassrootsCache                 |-> "provider_name"]

\* The field that readme.md has the directive for.
DocumentedFieldOf ==
  [FieldOf EXCEPT !.GrassrootsReferenceServicesPath = "references_path"]

ASSUME ConfigAssumption ==
  /\ LocationOf \in [Sections -> Locations]
  /\ Directives \subseteq DOMAIN FieldOf
  /\ NULL \notin Values \cup Sections \cup Locations

VARIABLES
  config,     \* config[s]: the config of section s, and the servers in its hash
  given,      \* given[s][d]: the last argument that section s has for directive d
  locations,  \* s_locations_p: the section registered for each location
  stage,      \* reading (the configuration), serving
  matched,    \* the sections that matched the request so far
  merged      \* the config that these make

vars == <<config, given, locations, stage, matched, merged>>

Init ==
  /\ config = [s \in Sections |-> CreateConfig(LocationOf[s])]
  /\ given = [s \in Sections |-> [d \in Directives |-> NULL]]
  /\ locations = [l \in Locations |-> NULL]
  /\ stage = "reading"
  /\ matched = <<>>
  /\ merged = CreateConfig(NULL)

Put(s, d, v) ==
  /\ stage = "reading"
  /\ config' = [config EXCEPT ![s].fields[FieldOf[d]] = v]
  /\ given' = [given EXCEPT ![s][d] = v]
  /\ UNCHANGED <<stage, matched, merged>>

\* The first section to set a string has its location to itself.
SetGrassrootsConfigString(s, d, v) ==
  /\ d # "GrassrootsCache"
  /\ Put(s, d, v)
  /\ locations' = [locations EXCEPT ![LocationOf[s]] = IF @ = NULL THEN s ELSE @]

SetGrassrootsCacheProvider(s, v) ==
  /\ Put(s, "GrassrootsCache", v)
  /\ UNCHANGED locations

\* A server is made from the config registered for each location.  One that has
\* no root path of its own gets none, and neither do the locations after it.
MakeServers ==
  LET listed == {l \in Locations : locations[l] # NULL}
      rooted == {l \in listed : config[locations[l]].fields["root_path"] # NULL}
  IN /\ stage = "reading"
     /\ stage' = "serving"
     /\ \E made \in IF rooted = listed THEN {listed} ELSE SUBSET rooted :
          config' = [s \in Sections |->
            [config[s] EXCEPT !.servers = [l \in Locations |->
               IF l \in made /\ locations[l] = s THEN s ELSE NULL]]]
     /\ UNCHANGED <<given, locations, matched, merged>>

\* The sections that match a request are merged among themselves...
Match(s) ==
  /\ stage = "serving"
  /\ s \notin {matched[i] : i \in 1 .. Len(matched)}
  /\ merged' = IF matched = <<>> THEN config[s] ELSE MergeConfigs(merged, config[s])
  /\ matched' = Append(matched, s)
  /\ UNCHANGED <<config, given, locations, stage>>

NextRequest ==
  /\ matched # <<>>
  /\ matched' = <<>>
  /\ merged' = CreateConfig(NULL)
  /\ UNCHANGED <<config, given, locations, stage>>

Next == \/ \E s \in Sections, d \in Directives, v \in Values :
             SetGrassrootsConfigString(s, d, v)
        \/ \E s \in Sections, v \in Values :
             "GrassrootsCache" \in Directives /\ SetGrassrootsCacheProvider(s, v)
        \/ MakeServers
        \/ \E s \in Sections : Match(s)
        \/ NextRequest

Spec == Init /\ [][Next]_vars

-----------------------------------------------------------------------------
\* ...and then over the config of the server.
RequestConfig == MergeConfigs(CreateConfig(NULL), merged)

\* The last section of the sequence for which Test holds, NULL if none.
LastWith(sections, Test(_)) ==
  LET found == {i \in 1 .. Len(sections) : Test(sections[i])}
  IN IF found = {} THEN NULL
     ELSE sections[CHOOSE i \in found : \A j \in found : j <= i]

TypeOK ==
  /\ stage \in {"reading", "serving"}
  /\ \A c \in {config[s] : s \in Sections} \cup {merged} :
       /\ c.fields \in [Fields -> Values \cup Locations \cup {NULL, DefaultProvider}]
       /\ c.servers \in [Locations -> Sections \cup {NULL}]
  /\ given \in [Sections -> [Directives -> Values \cup {NULL}]]
  /\ locations \in [Locations -> Sections \cup {NULL}]
  /\ matched \in Seq(Sections)

\* Each setting of a request is what readme.md says the directive is for, given in
\* the last matching section which has that directive, whatever the sections before
\* and after it leave out.  Not so the provider: it is that of the last section,
\* for the default that each config starts with hides what the others have.
LastSectionWins ==
  \A d \in Directives :
    LET Has(s) == given[s][d] # NULL
        Any(s) == TRUE
        giver == IF d = "GrassrootsCache" THEN LastWith(matched, Any)
                 ELSE LastWith(matched, Has)
        value == IF giver = NULL THEN NULL ELSE given[giver][d]
    IN RequestConfig.fields[DocumentedFieldOf[d]] =
         IF d = "GrassrootsCache" /\ value = NULL THEN DefaultProvider ELSE value

\* A request that matches the section holding a location's server has that
\* server in its config, and no other request has it.
ServerOfMatchedSection ==
  \A l \in Locations :
    LET Holds(s) == config[s].servers[l] # NULL
    IN RequestConfig.servers[l] = LastWith(matched, Holds)

\* It makes no difference whether a section is merged into the ones before it
\* or with the ones after it.
MergeAssociates ==
  \A s, t \in Sections :
    MergeConfigs(MergeConfigs(merged, config[s]), config[t])
      = MergeConfigs(merged, MergeConfigs(config[s], config[t]))
=============================================================================
