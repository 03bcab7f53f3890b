----------------------------- MODULE RequestHandler -----------------------------
(***************************************************************************)
(* src/src/mod_grassroots.c: GrassrootsHandler.  A request is for a server *)
(* in the hash of its config, which is merged from the sections that match *)
(* it (ConfigMerge); its message is read by KeyValuePair; its user is      *)
(* found by the authentication system that the config names.  Threads      *)
(* share nothing here that changes, so one request at a time is all there  *)
(* is to see.                                                              *)
(***************************************************************************)
EXTENDS KeyValuePair, Integers

CONSTANTS
  Locations, DefaultProvider,
  RequestConfigs,      \* merged configs
  Emails,              \* the user names that have an @ in them
  FullNames,           \* the claims with a name that has a space in it
  DefaultClaimPrefix   \* OIDC_CLAIM_

INSTANCE ConfigMerge

ASSUME HandlerAssumption ==
  /\ \A r \in Requests : /\ r.for_grassroots \in BOOLEAN
                         /\ DefaultClaimPrefix \in DOMAIN r.claims
  /\ \A c \in RequestConfigs : DOMAIN c.fields = Fields /\ DOMAIN c.servers = Locations
  /\ NULL \notin Emails \cup FullNames

VARIABLES
  config,     \* config_p
  server,     \* grassroots_p
  user,       \* user_p
  status,     \* res
  processed   \* what ProcessServerJSONMessage was given

handlerVars == <<config, server, user, status, processed>>
vars == <<readVars, handlerVars>>

DECLINED == -1
OK == 0
HTTP_BAD_REQUEST == 400
HTTP_METHOD_NOT_ALLOWED == 405
HTTP_INTERNAL_SERVER_ERROR == 500

\* apr_hash_get on glc_servers_p.
ServerAt(path) == IF path \in Locations THEN config.servers[path] ELSE NULL

AuthSystem == config.fields["user_auth_system"]

Init ==
  /\ req \in Requests /\ config \in RequestConfigs
  /\ pc = "start"
  /\ taken = 0 /\ buffer = <<>> /\ step = 1 /\ params = <<>>
  /\ message = NULL /\ uri = NULL /\ owned = {} /\ again = {} /\ output = <<>>
  /\ failed = FALSE
  /\ server = NULL /\ user = NULL /\ status = DECLINED /\ processed = NULL

\* Requests for other handlers are declined.
Start ==
  /\ pc = "start"
  /\ Goto(IF ~req.for_grassroots THEN "done"
          ELSE CASE req.method = "POST" -> "post"
                 [] req.method = "GET" -> "params"
                 [] OTHER -> "method")
  /\ UNCHANGED <<req, taken, buffer, step, params, message, uri, owned, again, output,
                 failed, handlerVars>>

\* Only a request for the very location of a server has its user and its body read.
Post ==
  /\ pc = "post"
  /\ uri' = req.uri
  /\ server' = ServerAt(req.uri)
  /\ Goto(CASE ServerAt(req.uri) = NULL -> "dispatch"
            [] ServerAt(req.uri) # NULL /\ AuthSystem # NULL -> "user"
            [] OTHER -> "body")
  /\ UNCHANGED <<req, taken, buffer, step, params, message, owned, again, output, failed,
                 config, user, status, processed>>

\* GetClaimHeaderValue takes the default if there is no prefix, or an empty one.
ClaimPrefix ==
  IF config.fields["user_auth_claim"] = NULL THEN DefaultClaimPrefix
  ELSE config.fields["user_auth_claim"]

Claim == IF ClaimPrefix \in DOMAIN req.claims THEN req.claims[ClaimPrefix] ELSE NULL

\* A user is made of the claims, whichever of them there are, if there is room.
\* The forename is copied out of a full name, and nothing releases the copy.
GetUserFromOIDC ==
  /\ AuthSystem = "openid"
  /\ \E copy \in SUBSET (IF Claim \in FullNames THEN {"forename"} ELSE {}) :
       \/ user' = [openid |-> Claim] /\ owned' = owned \cup copy \cup {"user"}
       \/ UNCHANGED user /\ owned' = owned \cup copy

GetUserFromBasicAuth ==
  /\ AuthSystem = "basic"
  /\ req.user \in Emails
  /\ user' = [basic |-> req.user]
  /\ owned' = owned \cup {"user"}

\* No such system, no address to look up, none found, none allocated: the
\* request goes on without a user.
NoUser == UNCHANGED <<user, owned>>

GetUser ==
  /\ pc = "user"
  /\ GetUserFromOIDC \/ GetUserFromBasicAuth \/ NoUser
  /\ Goto("body")
  /\ UNCHANGED <<req, taken, buffer, step, params, message, uri, again, output, failed,
                 config, server, status, processed>>

\* The server of a GET is looked for once its message is made.
FindServer ==
  /\ pc = "find"
  /\ server' = IF uri = NULL THEN NULL ELSE ServerAt(uri)
  /\ Goto("dispatch")
  /\ UNCHANGED <<req, taken, buffer, step, params, message, uri, owned, again, output,
                 failed, config, user, status, processed>>

OtherMethod ==
  /\ pc = "method"
  /\ status' = HTTP_METHOD_NOT_ALLOWED
  /\ Goto("dispatch")
  /\ UNCHANGED <<req, taken, buffer, step, params, message, uri, owned, again, output,
                 failed, config, server, user, processed>>

\* Mutant: a request without a message is declined.
DispatchDeclines ==
  /\ pc = "dispatch"
  /\ \/ /\ message # NULL /\ uri # NULL
        /\ Goto(IF server # NULL THEN "process" ELSE "done")
        /\ UNCHANGED <<status, output>>
     \/ /\ message = NULL \/ uri = NULL
        /\ status' = DECLINED
        /\ output' = Append(output, "error getting input data")
        /\ Goto("done")
  /\ UNCHANGED <<req, taken, buffer, step, params, message, uri, owned, again, failed,
                 config, server, user, processed>>

\* A message for a server that there is not is left as it is, and declined.
\* Without a message the status set before is lost, and a user is.
Dispatch ==
  /\ pc = "dispatch"
  /\ \/ /\ message # NULL /\ uri # NULL
        /\ Goto(IF server # NULL THEN "process" ELSE "done")
        /\ UNCHANGED <<status, output>>
     \/ /\ message = NULL \/ uri = NULL
        /\ status' = HTTP_BAD_REQUEST
        /\ output' = Append(output, "error getting input data")
        /\ Goto("done")
  /\ UNCHANGED <<req, taken, buffer, step, params, message, uri, owned, again, failed,
                 config, server, user, processed>>

\* The Grassroots core has a result for the message or it has not.
ProcessServerJSONMessage ==
  /\ pc = "process"
  /\ processed' = [server |-> server, message |-> message, user |-> user]
  /\ \/ /\ owned' = owned \cup {"result"}
        /\ Goto("reply")
        /\ UNCHANGED <<status, output>>
     \/ /\ status' = HTTP_BAD_REQUEST
        /\ output' = Append(output, "error processing request")
        /\ Goto("release")
        /\ UNCHANGED owned
  /\ UNCHANGED <<req, taken, buffer, step, params, message, uri, again, failed,
                 config, server, user>>

\* json_dumps, and json_decref of the result.
Reply ==
  /\ pc = "reply"
  /\ \/ status' = OK /\ output' = Append(output, "result") /\ UNCHANGED failed
     \/ status' = HTTP_INTERNAL_SERVER_ERROR /\ Fails /\ UNCHANGED output
  /\ Drop({"result"}, owned)
  /\ Goto("release")
  /\ UNCHANGED <<req, taken, buffer, step, params, message, uri,
                 config, server, user, processed>>

\* json_decref of the message, FreeUser if there is one.
Release ==
  /\ pc = "release"
  /\ Drop({"message"} \cup (IF user # NULL THEN {"user"} ELSE {}), owned)
  /\ Goto("done")
  /\ UNCHANGED <<req, taken, buffer, step, params, message, uri, output, failed,
                 handlerVars>>

\* Another request.
NextRequest ==
  /\ pc = "done"
  /\ req' \in Requests /\ config' \in RequestConfigs
  /\ Goto("start")
  /\ taken' = 0 /\ buffer' = <<>> /\ step' = 1 /\ params' = <<>>
  /\ message' = NULL /\ uri' = NULL /\ owned' = {} /\ again' = {} /\ output' = <<>>
  /\ failed' = FALSE
  /\ server' = NULL /\ user' = NULL /\ status' = DECLINED /\ processed' = NULL

Handle ==
  \/ Start \/ Post \/ GetUser \/ FindServer \/ OtherMethod \/ Dispatch
  \/ ProcessServerJSONMessage \/ Reply \/ Release
  \/ ReadMessage /\ UNCHANGED handlerVars

Next == Handle \/ NextRequest

Spec == Init /\ [][Next]_vars

\* A thread that handles a request goes on with it: httpd answers every read of
\* the body, if only with a timeout.
FairSpec == Spec /\ WF_vars(Handle)

-----------------------------------------------------------------------------
\* The messages that request r can be, and the users that can have sent it.
Messages(r) ==
  IF r.method = "POST" THEN JSONTexts
  ELSE {[run |-> r.service, params |-> r.params], [list |-> TRUE]}
         \cup {[info |-> r.params[i].value] : i \in ServiceAsked(r)}

Users(r) ==
  {[basic |-> r.user], [openid |-> NULL]} \cup {[openid |-> r.claims[p]] : p \in DOMAIN r.claims}

\* What ProcessServerJSONMessage can be given for it.
Exchanges(r) ==
  [server: UNION {{c.servers[l] : l \in Locations} : c \in RequestConfigs},
   message: Messages(r), user: Users(r) \cup {NULL}]

\* No record is NULL.
ASSUME NullAssumption ==
  \A r \in Requests : NULL \notin Messages(r) \cup Users(r) \cup Exchanges(r)

\* Where the message of a body can end: with it, at a Nul, where reading failed.
EndsOfBody ==
  {n \in 0 .. Len(req.body) :
     n = Len(req.body) \/ req.body[n + 1] = Nul \/ (failed /\ n = taken)}

\* What the client asked for, whatever way it was sent.
SentMessage ==
  CASE req.method = "POST" /\ req.body \in JSONTexts -> req.body
    [] req.method = "GET" /\ req.path = "service" ->
         [run |-> req.service, params |-> req.params]
    [] req.method = "GET" /\ req.path = "list_services" -> [list |-> TRUE]
    [] req.method = "GET" /\ req.path = "service_info" /\ ServiceAsked(req) # {} ->
         [info |-> req.params[CHOOSE i \in ServiceAsked(req) : TRUE].value]
    [] OTHER -> NULL

\* The server that it asked.
SentTo == ServerAt(IF req.method = "POST" THEN req.uri ELSE req.root)

\* Who it may come from.
Senders ==
  {NULL} \cup (IF AuthSystem = "basic" THEN {[basic |-> req.user]} ELSE {})
         \cup (IF AuthSystem = "openid" THEN {[openid |-> Claim]} ELSE {})

Steps == {"start", "post", "method", "user", "body", "read", "decode", "free_buffer",
          "params", "build", "find", "dispatch", "process", "reply", "release", "done"}

Attached == {"parameter_set", "params", "param", "services", "service", "name"}
Objects ==
  Attached \cup {"buffer", "message", "user", "forename", "result", "schema_version", "names"}

TypeOK ==
  /\ req \in Requests
  /\ config \in RequestConfigs
  /\ pc \in Steps
  /\ taken \in 0 .. Len(req.body)
  /\ Len(buffer) <= taken
  /\ step \in 1 .. Len(PlanFor(req)) + 1
  /\ Len(params) <= Len(req.params)
  /\ message \in Messages(req) \cup {NULL}
  /\ user \in Users(req) \cup {NULL}
  /\ processed \in Exchanges(req) \cup {NULL}
  /\ uri \in {NULL, req.uri, req.root}
  /\ owned \subseteq Objects /\ again \subseteq Objects
  /\ status \in {DECLINED, OK, HTTP_BAD_REQUEST, HTTP_METHOD_NOT_ALLOWED,
                 HTTP_INTERNAL_SERVER_ERROR}
  /\ failed \in BOOLEAN

\* A server is only given what a client sent to it, whole and in order, however
\* the body was cut into blocks and whatever failed on the way, and no user but
\* the one that the configured system has for the request.  But json_loads cannot
\* tell a body that ends from one that reading failed for (:540), nor see past a
\* Nul in it (:112): what comes before is taken for the whole if it is JSON.
ProcessedAsSent ==
  processed # NULL =>
    /\ req.for_grassroots
    /\ IF req.method = "POST"
       THEN /\ processed.message \in JSONTexts
            /\ \E n \in EndsOfBody : processed.message = SubSeq(req.body, 1, n)
       ELSE processed.message = SentMessage /\ SentMessage # NULL
    /\ processed.server = SentTo /\ SentTo # NULL
    /\ processed.user \in Senders

\* A message that was sent to a server, and read without a failure, is processed
\* as it was sent.
SentIsProcessed ==
  /\ pc = "done" /\ ~failed
  /\ req.for_grassroots /\ SentMessage # NULL /\ SentTo # NULL
  => processed # NULL /\ processed.message = SentMessage

\* The status goes with what was done and what the client was sent: OK with one
\* result and nothing else; a request that is declined, for the handlers after
\* this one, has had no effect and no output; and an unsupported method is a bad
\* request, as is anything that there is no message of.
AnswerMatches ==
  pc = "done" =>
    CASE status = OK -> processed # NULL /\ output = <<"result">>
      [] status = DECLINED -> processed = NULL /\ output = <<>>
      [] status = HTTP_BAD_REQUEST ->
           IF processed = NULL THEN message = NULL /\ output # <<>>
           ELSE output = <<"error processing request">>
      [] status = HTTP_INTERNAL_SERVER_ERROR -> processed # NULL /\ failed /\ output = <<>>
      [] OTHER -> FALSE

\* All that a request allocates is released by its end, but for three leaks: the
\* message for a server that there is not, the user of a request that has no
\* message, and the copy of an OpenID user's forename, whatever comes of the user.
AllReleased ==
  pc = "done" =>
    /\ owned \ {"forename"} =
         CASE message # NULL /\ server = NULL -> {"message"}
           [] message = NULL /\ user # NULL -> {"user"}
           [] OTHER -> {}
    /\ "forename" \in owned => AuthSystem = "openid" /\ Claim \in FullNames

\* No object is released that is not owned, in whichever function, unless a call
\* of jansson failed for a GET, and then only the value that it was to attach.
ReleasedOnce ==
  again # {} =>
    /\ failed /\ req.method = "GET" /\ message = NULL
    /\ \E o \in Attached : again = {o}

\* A request that is being handled comes to its end, however little of the body
\* arrives at a time.
RequestsFinish == pc # "done" ~> pc = "done"
=============================================================================
