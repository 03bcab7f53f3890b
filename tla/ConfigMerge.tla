------------------------------ MODULE ConfigMerge ------------------------------
(***************************************************************************)
(* src/src/mod_grassroots.c: a GrassrootsLocationConfig, and the merge of  *)
(* two of them.  A config is [fields, servers]: its settings, and the      *)
(* server that its hash has for each location, NULL where there is none.   *)
(***************************************************************************)
CONSTANTS Locations, DefaultProvider, NULL

ASSUME MergeAssumption == DefaultProvider # NULL /\ NULL \notin Locations

Fields == {"context", "root_path", "provider_name", "jobs_manager", "servers_manager",
           "config", "services_config_path", "services_path", "references_path",
           "jobs_managers_path", "servers_path", "user_auth_system", "user_auth_claim"}

\* Mutant: one field is left as apr_palloc gave it.
CreateConfigUnset(context) ==
  [fields |-> [f \in Fields \ {"references_path"} |->
                 CASE f = "context" -> context
                   [] f = "provider_name" -> DefaultProvider
                   [] OTHER -> NULL],
   servers |-> [l \in Locations |-> NULL]]

\* Only the provider has a default, in section and server configs alike.
CreateConfig(context) ==
  [fields |-> [f \in Fields |-> CASE f = "context" -> context
                                  [] f = "provider_name" -> DefaultProvider
                                  [] OTHER -> NULL],
   servers |-> [l \in Locations |-> NULL]]

\* Mutant: what the outer section has wins.
OverlayBaseWins(base, add) == [x \in DOMAIN base |-> IF base[x] # NULL THEN base[x] ELSE add[x]]

\* CopyStringValue, for each field, and apr_hash_overlay, for each location.
Overlay(base, add) == [x \in DOMAIN base |-> IF add[x] # NULL THEN add[x] ELSE base[x]]

\* Mutant: the servers of the inner section are all there are.
MergeForgetsServers(base, new) ==
  [fields |-> Overlay(base.fields, new.fields), servers |-> new.servers]

\* Mutant: a section without a root is passed over.
MergeSkipsRootless(base, new) ==
  IF new.fields["root_path"] = NULL THEN base
  ELSE [fields |-> Overlay(base.fields, new.fields),
        servers |-> Overlay(base.servers, new.servers)]

MergeConfigs(base, new) ==
  [fields |-> Overlay(base.fields, new.fields),
   servers |-> Overlay(base.servers, new.servers)]
=============================================================================
