------------------------------ MODULE KeyValuePair ------------------------------
(***************************************************************************)
(* src/src/key_value_pair.c: the JSON message of a request, read from the  *)
(* body of a POST or made from the path and the parameters of a GET.       *)
(*                                                                         *)
(* owned has the objects that the request has to release, and again those  *)
(* that it releases without owning them.  jansson's json_object_set_new    *)
(* and json_array_append_new take over the value that they are given, also *)
(* when they fail.                                                         *)
(***************************************************************************)
EXTENDS Naturals, Sequences

CONSTANTS
  Requests,   \* what clients ask, see KeyValueAssumption
  JSONTexts,  \* the texts that are JSON
  Nul,        \* the byte that ends a C string
  BlockSize,  \* the most that httpd hands over of a body at a time
  NULL

(* uri is the path of the request, root the part of it that httpd found before *)
(* path_info, and path what path_info asks for.  A body is any bytes; JSON has *)
(* none that is Nul.                                                           *)
Methods == {"POST", "GET", "other"}
Paths == {"none", "unknown", "service", "list_services", "service_info", "other_operation"}

IsSeq(s) == s \in Seq({s[i] : i \in DOMAIN s})

ASSUME KeyValueAssumption ==
  /\ BlockSize \in Nat \ {0}
  /\ NULL \notin JSONTexts
  /\ \A t \in JSONTexts : \A i \in DOMAIN t : t[i] # Nul
  /\ \A r \in Requests :
       /\ r.method \in Methods
       /\ r.path \in Paths
       /\ IsSeq(r.body)
       /\ IsSeq(r.params)
       /\ r.uri # NULL /\ r.root # NULL

VARIABLES
  req,      \* request_rec: what the client sent and httpd made of it
  pc,       \* the next step
  taken,    \* how much of the body httpd has handed over
  buffer,   \* what of it is in the buffer
  step,     \* the next step of the plan below
  params,   \* the parameters in the message so far
  message,  \* json_req_p
  uri,      \* grassroots_uri_s
  owned,    \* the objects that the request has to release
  again,    \* the objects that it has released without owning them
  output,   \* what the client is sent
  failed    \* some call has failed

readVars == <<req, pc, taken, buffer, step, params, message, uri, owned, again,
              output, failed>>

Goto(s) == pc' = s
Fails == failed' = TRUE

\* Of the objects held, some are released; one that is not held is released again.
Drop(objects, held) ==
  /\ owned' = held \ objects
  /\ again' = again \cup (objects \ held)

-----------------------------------------------------------------------------
(* GetRequestBodyAsJSON                                                      *)

\* Without a buffer there is nothing to release; when httpd refuses to read
\* (a chunked body, say) the buffer is.
GetRequestBodyAsJSON ==
  /\ pc = "body"
  /\ \/ /\ Goto(IF req.body = <<>> THEN "decode" ELSE "read")
        /\ owned' = owned \cup {"buffer"}
        /\ UNCHANGED failed
     \/ /\ Fails
        /\ \/ Goto("dispatch") /\ UNCHANGED owned
           \/ Goto("free_buffer") /\ owned' = owned \cup {"buffer"}
  /\ UNCHANGED <<req, taken, buffer, step, params, message, uri, again, output>>

\* Mutant: each block is copied to the start.
ReadRequestBodyOver ==
  /\ pc = "read"
  /\ taken < Len(req.body)
  /\ \E n \in 1 .. BlockSize :
       /\ taken + n <= Len(req.body)
       /\ taken' = taken + n
       /\ LET block == SubSeq(req.body, taken + 1, taken + n)
          IN buffer' = block \o SubSeq(buffer, n + 1, Len(buffer))
  /\ UNCHANGED <<req, pc, step, params, message, uri, owned, again, output, failed>>

\* Mutant: a block is not cut at the length of the body.
ReadRequestBodyUncut ==
  /\ pc = "read"
  /\ taken < Len(req.body)
  /\ taken' = taken + BlockSize
  /\ buffer' = buffer \o SubSeq(req.body, taken + 1, Len(req.body))
  /\ UNCHANGED <<req, pc, step, params, message, uri, owned, again, output, failed>>

\* A block of any length after the last one.
ReadRequestBody ==
  /\ pc = "read"
  /\ taken < Len(req.body)
  /\ \E n \in 1 .. BlockSize :
       /\ taken + n <= Len(req.body)
       /\ taken' = taken + n
       /\ buffer' = buffer \o SubSeq(req.body, taken + 1, taken + n)
  /\ UNCHANGED <<req, pc, step, params, message, uri, owned, again, output, failed>>

\* Mutant: the loop goes on for as long as there is no error.
EndOfBodyReadsOn ==
  /\ pc = "read"
  /\ \/ taken = Len(req.body) /\ UNCHANGED <<pc, failed>>
     \/ taken < Len(req.body) /\ Goto("decode") /\ Fails
  /\ UNCHANGED <<req, taken, buffer, step, params, message, uri, owned, again, output>>

\* The loop ends when there is no more, and in the same way when reading fails:
\* what has come is what is decoded.  AppendToByteBuffer may fail after it.
EndOfBody ==
  /\ pc = "read"
  /\ \/ taken = Len(req.body) /\ Goto("decode") /\ UNCHANGED failed
     \/ taken < Len(req.body) /\ Goto("decode") /\ Fails
     \/ Goto("free_buffer") /\ Fails
  /\ UNCHANGED <<req, taken, buffer, step, params, message, uri, owned, again, output>>

\* What json_loads sees of a buffer, which it is given as a C string.
Nuls(b) == {i \in DOMAIN b : b[i] = Nul}
FirstNul(b) == CHOOSE i \in Nuls(b) : \A j \in Nuls(b) : i <= j
CString(b) == IF Nuls(b) = {} THEN b ELSE SubSeq(b, 1, FirstNul(b) - 1)

\* json_loads, and FreeByteBuffer.
Decode ==
  /\ pc = "decode"
  /\ \/ /\ CString(buffer) \in JSONTexts
        /\ message' = CString(buffer)
        /\ Drop({"buffer"}, owned \cup {"message"})
        /\ UNCHANGED <<output, failed>>
     \/ /\ \/ CString(buffer) \notin JSONTexts /\ UNCHANGED failed
           \/ CString(buffer) \in JSONTexts /\ Fails
        /\ output' = Append(output, "error decoding response")
        /\ Drop({"buffer"}, owned)
        /\ UNCHANGED message
  /\ Goto("dispatch")
  /\ UNCHANGED <<req, taken, buffer, step, params, uri>>

FreeByteBuffer ==
  /\ pc = "free_buffer"
  /\ Drop({"buffer"}, owned)
  /\ Goto("dispatch")
  /\ UNCHANGED <<req, taken, buffer, step, params, message, uri, output, failed>>

-----------------------------------------------------------------------------
(* GetRequestParamsAsJSON: the message is put together step by step.         *)

Make(o) == [do |-> "make", object |-> o]      \* allocate and fill in
Attach(o) == [do |-> "attach", object |-> o]  \* ..._set_new, ..._append_new
Wrap(o) == [do |-> "wrap", object |-> o]      \* GetServicesRequest

\* AddParamsToJSON, for each parameter.
AddParams(n) == [i \in 1 .. 2 * n |-> IF i % 2 = 1 THEN Make("param") ELSE Attach("param")]

ServicePlan(n) ==
  <<Make("service"), Make("parameter_set"), Attach("parameter_set"),
    Make("params"), Attach("params")>>
  \o AddParams(n)
  \o <<Make("message"), Make("services"), Attach("services"), Attach("service")>>

ListPlan == <<Make("schema_version"), Make("message")>>

InfoPlan == <<Make("schema_version"), Make("names"), Make("name"), Attach("name"),
              Wrap("names")>>

\* The service to tell about is that of the parameter SERVICE_NAME_S.
ServiceAsked(r) == {i \in DOMAIN r.params : r.params[i].key = "SERVICE_NAME_S"}

PlanFor(r) ==
  CASE r.path = "service" -> ServicePlan(Len(r.params))
    [] r.path = "list_services" -> ListPlan
    [] r.path = "service_info" /\ ServiceAsked(r) # {} -> InfoPlan
    [] OTHER -> <<Make("schema_version")>>

MessageMade ==
  CASE req.path = "service" -> [run |-> req.service, params |-> params]
    [] req.path = "list_services" -> [list |-> TRUE]
    [] req.path = "service_info" ->
         [info |-> req.params[CHOOSE i \in ServiceAsked(req) : TRUE].value]

\* The URI without path_info is the location of the server asked for.
GetRequestParamsAsJSON ==
  /\ pc = "params"
  /\ uri' = IF req.path = "none" THEN NULL ELSE req.root
  /\ Goto(IF req.path \in {"none", "unknown"} THEN "find" ELSE "build")
  /\ UNCHANGED <<req, taken, buffer, step, params, message, owned, again, output, failed>>

\* Mutant: a parameter is attached in front of the others.
BuildAtFront ==
  LET now == PlanFor(req)[step]
  IN /\ pc = "build"
     /\ step <= Len(PlanFor(req))
     /\ owned' = CASE now.do = "make" -> owned \cup {now.object}
                   [] now.do = "attach" -> owned \ {now.object}
                   [] now.do = "wrap" -> (owned \ {now.object}) \cup {"message"}
     /\ params' = IF now = Attach("param")
                  THEN <<req.params[Len(params) + 1]>> \o params ELSE params
     /\ step' = step + 1
     /\ UNCHANGED <<req, pc, taken, buffer, message, uri, again, output, failed>>

Build ==
  LET now == PlanFor(req)[step]
  IN /\ pc = "build"
     /\ step <= Len(PlanFor(req))
     /\ owned' = CASE now.do = "make" -> owned \cup {now.object}
                   [] now.do = "attach" -> owned \ {now.object}
                   [] now.do = "wrap" -> (owned \ {now.object}) \cup {"message"}
     /\ params' = IF now = Attach("param") THEN Append(params, req.params[Len(params) + 1])
                  ELSE params
     /\ step' = step + 1
     /\ UNCHANGED <<req, pc, taken, buffer, message, uri, again, output, failed>>

\* What the ends of GetServiceRequestFromURI and GetOperationRequestFromURI release
\* of what has been made, when they have no message.
Released == {"service", "message", "names", "schema_version"}
Made == {PlanFor(req)[i].object : i \in {j \in 1 .. step - 1 : PlanFor(req)[j].do = "make"}}

\* jansson has released a value that it could not attach.
Lost == IF PlanFor(req)[step].do = "attach" THEN {PlanFor(req)[step].object} ELSE {}

\* Mutant: the root object is left behind when its array cannot be made.
BuildFailsKeepsRoot ==
  /\ pc = "build"
  /\ step <= Len(PlanFor(req))
  /\ Drop(((Released \ {"message"}) \cap Made) \cup Lost, owned \ Lost)
  /\ Goto("find")
  /\ Fails
  /\ UNCHANGED <<req, taken, buffer, step, params, message, uri, output>>

\* The code releases a value that could not be attached, which has gone by then, and
\* then what there is.
BuildFails ==
  /\ pc = "build"
  /\ step <= Len(PlanFor(req))
  /\ Drop((Released \cap Made) \cup Lost, owned \ Lost)
  /\ Goto("find")
  /\ Fails
  /\ UNCHANGED <<req, taken, buffer, step, params, message, uri, output>>

\* Mutant: the end of GetServiceRequestFromURI is reached when it succeeds as well.
BuiltReleasesService ==
  /\ pc = "build"
  /\ step > Len(PlanFor(req))
  /\ message' = IF "message" \in owned THEN MessageMade ELSE NULL
  /\ Drop(IF req.path = "service" THEN {"service"} ELSE {"schema_version"}, owned)
  /\ Goto("find")
  /\ UNCHANGED <<req, taken, buffer, step, params, uri, output, failed>>

\* FreeSchemaVersion, of an operation.
Built ==
  /\ pc = "build"
  /\ step > Len(PlanFor(req))
  /\ message' = IF "message" \in owned THEN MessageMade ELSE NULL
  /\ Drop(IF req.path = "service" THEN {} ELSE {"schema_version"}, owned)
  /\ Goto("find")
  /\ UNCHANGED <<req, taken, buffer, step, params, uri, output, failed>>

ReadMessage ==
  \/ GetRequestBodyAsJSON \/ ReadRequestBody \/ EndOfBody \/ Decode \/ FreeByteBuffer
  \/ GetRequestParamsAsJSON \/ Build \/ BuildFails \/ Built
=============================================================================
