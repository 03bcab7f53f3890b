--------------------------- MODULE MCRequestHandler ---------------------------
(* RequestHandler with two locations that have a server each, authentication *)
(* configured in the sections of different ways, and requests of all kinds.  *)
EXTENDS RequestHandler, TLC

CONSTANTS la, lb, elsewhere

\* The config of a section, with the server made for its location.
SectionOf(location, served, auth, claim) ==
  [fields |-> [CreateConfig(location).fields EXCEPT
                 !["user_auth_system"] = auth, !["user_auth_claim"] = claim],
   servers |-> [l \in Locations |-> IF l = location /\ served THEN l ELSE NULL]]

Basic == SectionOf(la, TRUE, "basic", NULL)
OpenID == SectionOf(lb, TRUE, "openid", "X_CLAIM_")
Plain == SectionOf(lb, TRUE, NULL, NULL)
OtherSystem == SectionOf(la, FALSE, "digest", NULL)

\* Sections that match a request, merged in their order and with the server's.
MCConfigs ==
  {MergeConfigs(CreateConfig(NULL), m) :
     m \in {Basic, OpenID, Plain, MergeConfigs(Basic, Plain), MergeConfigs(Basic, OpenID),
            MergeConfigs(OpenID, OtherSystem),
            MergeConfigs(SectionOf(lb, TRUE, "openid", NULL), OtherSystem)}}

\* Bodies of up to four bytes, the last text with one that is JSON at its start.  The
\* last three bodies are not JSON, two of them after a part that is.
Texts == {<<"[", "]">>, <<"[", "1", "]">>, <<"[", "1", "]", " ">>}
MCBodies ==
  Texts \cup {<<>>, <<"[", "1", "[">>, <<"[", "]", "1">>, <<"[", "]", Nul, "1">>}

Param(k, v) == [key |-> k, value |-> v]
MCParams == {<<>>, <<Param("p", 1)>>, <<Param("p", 1), Param("q", 2)>>,
             <<Param("p", 1), Param("SERVICE_NAME_S", "blast")>>}

Request(method, to, root, path, body, parameters, sender) ==
  [for_grassroots |-> TRUE, method |-> method, uri |-> to, root |-> root, path |-> path,
   body |-> body, params |-> parameters, service |-> "blast", user |-> sender,
   claims |-> [p \in {"OIDC_CLAIM_", "X_CLAIM_"} |->
                 IF p = "X_CLAIM_" THEN "Billy Bunter" ELSE "Billy"]]

MCRequests ==
  {Request("POST", u, la, "none", b, <<>>, w) :
     u \in {la, lb, elsewhere}, b \in MCBodies, w \in {NULL, "billy", "billy@here"}}
  \cup {Request("GET", elsewhere, r, p, <<>>, q, NULL) :
          r \in {la, elsewhere}, p \in Paths, q \in MCParams}
  \cup {Request("other", la, la, "none", <<>>, <<>>, NULL),
        [Request("GET", la, la, "service", <<>>, <<>>, NULL) EXCEPT
           !.for_grassroots = FALSE]}
=============================================================================
